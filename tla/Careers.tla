------------------------------ MODULE Careers ------------------------------
(***************************************************************************)
(* n0te/career_state.py: the artist declares the state of a career, in     *)
(* place of the one that was reviewed.  n0te/career_roles.py: the stage of *)
(* a role that skills and verified evidence cover.                         *)
(* n0te/role_economics.py: the terms of an offer and the external facts    *)
(* that speak for them, which age.                                         *)
(***************************************************************************)
EXTENDS Naturals, Sequences, FiniteSets

CONSTANTS
    CareerStates,    \* CAREER_STATES
    MaxEntries,      \* states declared (a bound)
    Stages,          \* the stages of a role: [skill, kinds -> counts]
    Kinds,           \* ROLE_EVIDENCE_KINDS
    Refs,            \* where evidence comes from
    Offers,          \* offers to be reviewed
    Reviewed,        \* the dimensions reviewed for the role of the offers
    LastDay          \* days (a bound)

VARIABLES
    career,    \* career_state_entries in the order of seq
    pending,   \* calls of record_state past their first check
    level,     \* the level of the skill the stages require
    shown,     \* role evidence: kind, where from, whether verified
    offer,     \* the offer
    today

vars == <<career, pending, level, shown, offer, today>>

Ranks == 0..4  \* UNKNOWN, INTRODUCED, PRACTICED, APPLIED, INDEPENDENT
RoleEvidence == [kind : Kinds, ref : Refs, verified : BOOLEAN]

Init ==
    /\ career = <<>> /\ pending = {}
    /\ level = 0 /\ shown = {}
    /\ offer \in Offers /\ today = 0

-----------------------------------------------------------------------------
(* CareerStateMemory.                                                      *)

\* The identity of current_state: its place in the history, 0 when there is none.
CurrentState == Len(career)

\* A declaration that was reviewed already is not declared again.
RecordStateReads(state) ==
    /\ CurrentState # 0 => career[CurrentState].state # state
    /\ pending' = pending \cup {[state |-> state, expected |-> CurrentState]}
    /\ UNCHANGED <<career, level, shown, offer, today>>

Declares(call) ==
    /\ call \in pending /\ pending' = pending \ {call}
    /\ Len(career) < MaxEntries
    /\ career' = Append(career, [state |-> call.state, reviewed |-> call.expected])
    /\ UNCHANGED <<level, shown, offer, today>>

\* Mutant: only what was current before the transaction is looked at.
RecordStateBlindly(call) == Declares(call)

\* In the transaction the current state is read again: StaleCareerStateError.
RecordStateWrites(call) == Declares(call) /\ CurrentState = call.expected

RecordStateStale(call) ==
    /\ call \in pending /\ CurrentState # call.expected
    /\ pending' = pending \ {call}
    /\ UNCHANGED <<career, level, shown, offer, today>>

-----------------------------------------------------------------------------
(* assess_role.                                                            *)

Verified(items) == {e \in items : e.verified}

\* Mutant: every item counts, also two of one source.
CountedItems(items, kind) == Cardinality({e \in items : e.verified \/ e.kind = kind})

Counted(items, kind) == Cardinality({e.ref : e \in {d \in Verified(items) : d.kind = kind}})

MissingSkill(stage, rank) == rank < stage.skill
MissingEvidence(stage, items) == {k \in Kinds : Counted(items, k) < stage.counts[k]}

Covered(stage, rank, items) == ~MissingSkill(stage, rank) /\ MissingEvidence(stage, items) = {}

\* The stages are attained one after the other: a gap ends them.
Attained(rank, items) ==
    CHOOSE n \in 0..Len(Stages) :
        /\ \A i \in 1..n : Covered(Stages[i], rank, items)
        /\ n < Len(Stages) => ~Covered(Stages[n + 1], rank, items)

\* skills.record_evidence is elsewhere; here a level is what it has come to be.
Practise == level < 4 /\ level' = level + 1 /\ UNCHANGED <<career, pending, shown, offer, today>>
Show(e) == e \notin shown /\ shown' = shown \cup {e} /\ UNCHANGED <<career, pending, level, offer, today>>

-----------------------------------------------------------------------------
(* review_role_offer.                                                      *)

\* A dimension has a term or is marked as not applicable, never both.
WellFormedOffer(o) ==
    /\ o.terms \cap o.notApplicable = {}
    /\ "EXTERNAL_TERMS" \in o.terms <=> o.facts # {}
    /\ \A f \in o.facts : f.observed <= f.through

\* ExternalEconomicFact.applicability
Applicability(f, day, territory) ==
    IF f.observed > day THEN "FUTURE_EVIDENCE"
    ELSE IF f.territory # territory THEN "OUT_OF_SCOPE"
    ELSE IF f.declared THEN "UNVERIFIED"
    ELSE IF day > f.through THEN "STALE"
    ELSE "APPLICABLE"

\* Mutant: evidence is good from the day it was observed.
FactStatesForever(o, day) ==
    {IF o.territory = "" THEN "NEEDS_TERRITORY"
     ELSE Applicability([f EXCEPT !.through = LastDay], day, o.territory) : f \in o.facts}

FactStates(o, day) ==
    {IF o.territory = "" THEN "NEEDS_TERRITORY" ELSE Applicability(f, day, o.territory) : f \in o.facts}

Unaddressed(o) == Reviewed \ (o.terms \cup o.notApplicable)

\* RoleEconomicsAssessment.state
OfferState(o, day) ==
    IF Unaddressed(o) # {} THEN "NEEDS_TERMS"
    ELSE IF FactStates(o, day) \ {"APPLICABLE"} # {} THEN "NEEDS_EXTERNAL_EVIDENCE"
    ELSE "REVIEWABLE"

Day == today < LastDay /\ today' = today + 1 /\ UNCHANGED <<career, pending, level, shown, offer>>

Next ==
    \/ \E s \in CareerStates : RecordStateReads(s)
    \/ \E call \in pending : RecordStateWrites(call) \/ RecordStateStale(call)
    \/ Practise
    \/ \E e \in RoleEvidence : Show(e)
    \/ Day

Spec == Init /\ [][Next]_vars

-----------------------------------------------------------------------------
(* Properties.                                                             *)

\* record_state: whoever declares a state had reviewed the one it replaces, and never
\* declares again what stands.
NothingUnreviewedIsReplaced ==
    \A i \in DOMAIN career :
        /\ career[i].reviewed = i - 1
        /\ i > 1 => career[i].state # career[i - 1].state

\* assess_role: practice and evidence never take a stage away, and word of mouth never
\* gives one: a stage more needs a verified item of a source not counted yet, or a skill.
AStageIsEarned ==
    /\ Attained(level', shown') >= Attained(level, shown)
    /\ Attained(level', shown') > Attained(level, shown) =>
          \/ level' > level
          \/ \E k \in Kinds : {e.ref : e \in {d \in Verified(shown') : d.kind = k}}
                                # {e.ref : e \in {d \in Verified(shown) : d.kind = k}}
StagesAreEarned == [][AStageIsEarned]_vars

\* review_role_offer: an offer whose evidence ran out does not become reviewable again
\* by waiting, and what is reviewable had evidence at hand, for its territory, that day.
EvidenceRunsOut ==
    /\ WellFormedOffer(offer)
    /\ \A earlier \in 0..today :
          "STALE" \in FactStates(offer, earlier) => OfferState(offer, today) # "REVIEWABLE"
    /\ OfferState(offer, today) = "REVIEWABLE" =>
          \A f \in offer.facts :
              today \in f.observed..f.through /\ f.territory = offer.territory /\ ~f.declared

=============================================================================

------------------------ MODULE ProfessionalEthics ------------------------
(***************************************************************************)
(* n0te/professional_ethics.py: signals about a professional relationship  *)
(* are heard in any order; the latest of each kind decides whether an      *)
(* action is clear, should be reviewed, pauses or escalates.  Signals of   *)
(* another relationship or subject, or from the future, are refused and    *)
(* are not modelled.                                                       *)
(***************************************************************************)
EXTENDS Naturals, Sequences, FiniteSets

CONSTANTS
    Contexts,    \* decisions to be assessed, some of Context
    Hearable,    \* the signals there are, some of Signal
    MaxSignals   \* signals heard (a bound)

VARIABLES
    context,   \* the decision that is assessed
    signals    \* what was heard, in the order it is supplied

vars == <<context, signals>>

Kinds == {"CONFLICT_OF_INTEREST", "CONFIDENTIALITY_PERMISSION", "INFORMED_CONSENT",
          "ATTRIBUTION_CONSENT", "POWER_ASYMMETRY", "SAFEGUARDING_CONCERN"}

\* _SIGNAL_STATES_BY_KIND
StatesOf(kind) ==
    {"UNKNOWN", "DISPUTED"} \cup
    CASE kind = "INFORMED_CONSENT" -> {"GRANTED", "WITHHELD", "WITHDRAWN", "COERCED"}
      [] kind \in {"CONFIDENTIALITY_PERMISSION", "ATTRIBUTION_CONSENT"} ->
            {"GRANTED", "WITHHELD", "WITHDRAWN"}
      [] OTHER -> {"PRESENT", "ABSENT"}

\* required_checks, impact_class, purpose, requested_audiences and whether some
\* independent_review_domains are named.
WellFormedContext(c) ==
    /\ c.required \subseteq Kinds
    /\ c.impact \in {"ROUTINE", "MATERIAL", "HIGH_STAKES"}
    /\ "CONFIDENTIALITY_PERMISSION" \in c.required => c.audiences # {}
    /\ c.review \in BOOLEAN

WellFormedSignal(s) ==
    /\ s.kind \in Kinds /\ s.state \in StatesOf(s.kind)
    /\ IF s.kind = "CONFIDENTIALITY_PERMISSION" /\ s.state = "GRANTED"
       THEN s.purposes # {} /\ s.audiences # {}
       ELSE s.purposes = {} /\ s.audiences = {}
    /\ s.voluntary => s.kind = "INFORMED_CONSENT" /\ s.state = "GRANTED"

Init ==
    /\ context \in {c \in Contexts : WellFormedContext(c)}
    /\ signals = <<>>

Hear(s) ==
    /\ WellFormedSignal(s)
    /\ Len(signals) < MaxSignals
    /\ signals' = Append(signals, s)
    /\ UNCHANGED context

Next == \E s \in Hearable : Hear(s)
Spec == Init /\ [][Next]_vars

-----------------------------------------------------------------------------
(* assess_professional_ethics.                                             *)

OfKind(ss, kind) == {i \in DOMAIN ss : ss[i].kind = kind}
LatestTime(ss, kind, n) ==
    LET times == {ss[i].at : i \in {j \in OfKind(ss, kind) : j < n}} IN
    CHOOSE t \in times \cup {0} : \A u \in times : u <= t

\* Mutant: two that share the latest time are taken as they come.
AcceptedAnyhow(ss) == TRUE

\* A signal as late as the latest before it makes the whole assessment raise.
Accepted(ss) == \A i \in DOMAIN ss : ss[i].at # LatestTime(ss, ss[i].kind, i)

\* The first in the order of supply of those nothing is later than.
Latest(ss, kind) ==
    LET last == LatestTime(ss, kind, Len(ss) + 1)
        at == {i \in OfKind(ss, kind) : ss[i].at = last}
    IN  ss[CHOOSE i \in at : \A j \in at : i <= j]
Says(ss, kind, states) == OfKind(ss, kind) # {} /\ Latest(ss, kind).state \in states

Required(kind) == kind \in context.required
Unresolved(ss) ==
    {k \in context.required : OfKind(ss, k) = {} \/ Says(ss, k, {"UNKNOWN", "DISPUTED"})}

ConfidentialitySatisfied(ss) ==
    Required("CONFIDENTIALITY_PERMISSION") =>
        /\ Says(ss, "CONFIDENTIALITY_PERMISSION", {"GRANTED"})
        /\ context.purpose \in Latest(ss, "CONFIDENTIALITY_PERMISSION").purposes
        /\ context.audiences \subseteq Latest(ss, "CONFIDENTIALITY_PERMISSION").audiences

PermittedAudiences(ss) ==
    IF Required("CONFIDENTIALITY_PERMISSION") /\ ConfidentialitySatisfied(ss)
    THEN context.audiences ELSE {}

Pressed(ss) == Says(ss, "POWER_ASYMMETRY", {"PRESENT"})

ConsentSatisfied(ss) ==
    Required("INFORMED_CONSENT") =>
        /\ Says(ss, "INFORMED_CONSENT", {"GRANTED"})
        /\ Pressed(ss) => Latest(ss, "INFORMED_CONSENT").voluntary

AttributionSatisfied(ss) ==
    Required("ATTRIBUTION_CONSENT") => Says(ss, "ATTRIBUTION_CONSENT", {"GRANTED"})

Conflicted(ss) == Says(ss, "CONFLICT_OF_INTEREST", {"PRESENT"})
Escalates(ss) == Says(ss, "SAFEGUARDING_CONCERN", {"PRESENT"})

Refused(ss, kind) == Required(kind) /\ Says(ss, kind, {"WITHHELD", "WITHDRAWN", "COERCED"})

\* Mutant: what was granted is granted, to whom and how ever it was.
PausesUnpressed(ss) ==
    \/ Unresolved(ss) # {}
    \/ Conflicted(ss) /\ context.impact # "ROUTINE"
    \/ \E k \in Kinds : Refused(ss, k)
    \/ context.review

Pauses(ss) ==
    \/ Unresolved(ss) # {}
    \/ Conflicted(ss) /\ context.impact # "ROUTINE"
    \/ \E k \in Kinds : Refused(ss, k)
    \/ /\ Required("CONFIDENTIALITY_PERMISSION")
       /\ Says(ss, "CONFIDENTIALITY_PERMISSION", {"GRANTED"}) /\ ~ConfidentialitySatisfied(ss)
    \/ /\ Required("INFORMED_CONSENT")
       /\ Says(ss, "INFORMED_CONSENT", {"GRANTED"}) /\ ~ConsentSatisfied(ss)
    \/ context.review

Reviews(ss) == Conflicted(ss) \/ (Pressed(ss) /\ ~Required("INFORMED_CONSENT"))

\* CLEAR, REVIEW, PAUSE, ESCALATE
StateRank(ss) ==
    IF Escalates(ss) THEN 3
    ELSE IF Pauses(ss) THEN 2
    ELSE IF Reviews(ss) THEN 1
    ELSE 0

-----------------------------------------------------------------------------
(* Properties.                                                             *)

\* What the assessment says of the action agrees with what it says of consent,
\* confidentiality and attribution: nothing goes ahead, with or without a review,
\* while one of them is not satisfied, and nobody is told what was not permitted.
GoesAheadOnlyCleared ==
    Accepted(signals) =>
        /\ StateRank(signals) <= 1 =>
              /\ ConsentSatisfied(signals) /\ ConfidentialitySatisfied(signals)
              /\ AttributionSatisfied(signals) /\ Unresolved(signals) = {}
        /\ PermittedAudiences(signals) # {} =>
              ~Refused(signals, "CONFIDENTIALITY_PERMISSION")

\* _latest_signals: signals are heard one by one, in an order nobody chose.  Heard the
\* other way round they lead to the same assessment, unless one of the two is refused.
OrderDoesNotMatter ==
    LET n == Len(signals)
        reversed == [i \in 1..n |-> signals[n + 1 - i]] IN
    Accepted(signals) /\ Accepted(reversed) =>
        /\ StateRank(reversed) = StateRank(signals)
        /\ PermittedAudiences(reversed) = PermittedAudiences(signals)

\* Taking back a permission, however late it is heard, never lets an action go
\* further than before.
NoBetterForRefusing ==
    \A s \in Hearable :
       /\ signals' = Append(signals, s)
       /\ s.state \in {"WITHHELD", "WITHDRAWN", "COERCED"}
       /\ Accepted(signals) /\ Accepted(signals')
       => StateRank(signals') >= StateRank(signals)
RefusalNeverHelps == [][NoBetterForRefusing]_vars

=============================================================================

---------------------------- MODULE Obligations -----------------------------
(***************************************************************************)
(* n0te/obligations.py over n0te/evidence.py and n0te/people.py: what is   *)
(* owed to whom.  An obligation and each of its events rest on a claim     *)
(* that was active when the call looked; its status may change until it is *)
(* terminal, and a linked follow-up may be closed apart from it.           *)
(***************************************************************************)
EXTENDS EvidenceMemory

CONSTANTS
    Owed,        \* fresh obligation ids (a bound)
    FollowUps,   \* fresh follow-up ids (a bound)
    MaxEvents,   \* events of one obligation (a bound)
    NoFollowUp   \* NULL

VARIABLES
    obligations, \* business_obligations with their event and trigger rows
    followups    \* people_followups: the state of each

vars == <<claims, supersedes, calls, obligations, followups>>
records == <<obligations, followups>>
evidence == <<claims, supersedes>>

Terminal == {"SATISFIED", "WAIVED", "CANCELED"}
Statuses == {"OPEN", "BLOCKED", "DISPUTED"} \cup Terminal
NoObligation == [events |-> <<>>]
Made == {o \in Owed : obligations[o] # NoObligation}
Status(o) == obligations[o].events[Len(obligations[o].events)].status

TypeOK ==
    /\ EvidenceTypeOK
    /\ followups \in [FollowUps -> {"NONE", "OPEN", "RESOLVED", "CANCELED"}]
    /\ \A o \in Made :
          /\ obligations[o].followup \in FollowUps \cup {NoFollowUp}
          /\ obligations[o].events \in Seq([status : Statuses, claim : Claims])
          /\ obligations[o].triggers \subseteq Claims

Init ==
    /\ EvidenceInit
    /\ obligations = [o \in Owed |-> NoObligation]
    /\ followups = [f \in FollowUps |-> "NONE"]

-----------------------------------------------------------------------------
\* _evidence_claim: the claim is of the obligation's scope, and active.
Usable(claim, topic) == claim \in Active(topic)

Evidence ==
    /\ \/ \E topic \in Topics, value \in Values, olds \in SUBSET Claims : ClaimReads(topic, value, olds)
       \/ \E topic \in Topics, value \in Values : ReconcileReads(topic, value)
       \/ \E call \in calls : ClaimWrites(call)
    /\ UNCHANGED records

Create_followup(f) ==
    /\ followups[f] = "NONE"
    /\ followups' = [followups EXCEPT ![f] = "OPEN"]
    /\ UNCHANGED <<claims, supersedes, calls, obligations>>

CloseReads(f, state) ==
    /\ followups[f] = "OPEN"
    /\ Reads([op |-> "close", followup |-> f, state |-> state])
    /\ UNCHANGED <<evidence, records>>

\* The update is bound to OPEN; an update of no row raises.
CloseWrites(call) ==
    /\ call.op = "close"
    /\ Writes(call)
    /\ followups' = [followups EXCEPT ![call.followup] = IF @ = "OPEN" THEN call.state ELSE @]
    /\ UNCHANGED <<evidence, obligations>>

CreateReads(o, topic, claim, followup, awaits) ==
    /\ obligations[o] = NoObligation
    /\ Usable(claim, topic)
    /\ followup # NoFollowUp => followups[followup] # "NONE"
    /\ Reads([op |-> "create", obligation |-> o, topic |-> topic, claim |-> claim,
              followup |-> followup, awaits |-> awaits])
    /\ UNCHANGED <<evidence, records>>

\* The obligation and its first event, OPEN, in one transaction.
CreateWrites(call) ==
    /\ call.op = "create"
    /\ Writes(call)
    /\ obligations' = [obligations EXCEPT ![call.obligation] =
          IF @ # NoObligation THEN @ ELSE
          [topic |-> call.topic, followup |-> call.followup,
           awaits |-> call.awaits, triggers |-> {},
           events |-> <<[status |-> "OPEN", claim |-> call.claim]>>]]
    /\ UNCHANGED <<evidence, followups>>

\* transition, and obligation_event_transition_shape.
MayBecome(o, status) ==
    /\ Status(o) \notin Terminal
    /\ status # Status(o)
    /\ status = "OPEN" => Status(o) \in {"BLOCKED", "DISPUTED"}

TransitionReads(o, status, claim) ==
    /\ Len(obligations[o].events) < MaxEvents
    /\ MayBecome(o, status)
    /\ Usable(claim, obligations[o].topic)
    /\ Reads([op |-> "transition", obligation |-> o, status |-> status, claim |-> claim])
    /\ UNCHANGED <<evidence, records>>

\* Mutant: no trigger looks at the status again.
TransitionWritesLate(call) ==
    /\ call.op = "transition"
    /\ Writes(call)
    /\ obligations' = [obligations EXCEPT ![call.obligation].events =
          Append(@, [status |-> call.status, claim |-> call.claim])]
    /\ UNCHANGED <<evidence, followups>>

TransitionWrites(call) ==
    /\ call.op = "transition"
    /\ Writes(call)
    /\ obligations' = [obligations EXCEPT ![call.obligation].events =
          IF MayBecome(call.obligation, call.status)
          THEN Append(@, [status |-> call.status, claim |-> call.claim]) ELSE @]
    /\ UNCHANGED <<evidence, followups>>

TriggerReads(o, claim) ==
    /\ obligations[o].awaits
    /\ Status(o) \notin Terminal
    /\ Usable(claim, obligations[o].topic)
    /\ Reads([op |-> "trigger", obligation |-> o, claim |-> claim])
    /\ UNCHANGED <<evidence, records>>

\* obligation_trigger_evidence_scope_matches looks at the scope, not at the status.
TriggerWrites(call) ==
    /\ call.op = "trigger"
    /\ Writes(call)
    /\ obligations' = [obligations EXCEPT ![call.obligation].triggers = @ \cup {call.claim}]
    /\ UNCHANGED <<evidence, followups>>

Next ==
    \/ Evidence
    \/ \E f \in FollowUps :
          Create_followup(f) \/ \E state \in {"RESOLVED", "CANCELED"} : CloseReads(f, state)
    \/ \E o \in Owed, topic \in Topics, claim \in Claims, f \in FollowUps \cup {NoFollowUp},
          awaits \in BOOLEAN : CreateReads(o, topic, claim, f, awaits)
    \/ \E o \in Made, claim \in Claims :
          (\E status \in Statuses : TransitionReads(o, status, claim)) \/ TriggerReads(o, claim)
    \/ \E call \in calls :
          CloseWrites(call) \/ CreateWrites(call) \/ TransitionWrites(call) \/ TriggerWrites(call)

Spec == Init /\ [][Next]_vars

-----------------------------------------------------------------------------
(* Properties.                                                             *)

\* _validate_existing and get: what crossing calls leave behind is a lawful life of
\* each obligation, so that the memory opens again.
ObligationsOpen ==
    \A o \in Made :
        LET events == obligations[o].events IN
        /\ events[1].status = "OPEN"
        /\ \A i \in 1..Len(events) - 1 :
              /\ events[i].status \notin Terminal
              /\ events[i + 1].status # events[i].status
              /\ events[i + 1].status = "OPEN" => events[i].status \in {"BLOCKED", "DISPUTED"}
        /\ obligations[o].triggers # {} => obligations[o].awaits
        /\ \A claim \in {events[i].claim : i \in DOMAIN events} \cup obligations[o].triggers :
              claims[claim].topic = obligations[o].topic

\* A terminal obligation and a closed follow-up stay as they were recorded, for calls
\* that all looked before either was.
ObligationOutcomesStand ==
    [][/\ \A o \in Made : Status(o) \in Terminal => obligations'[o].events = obligations[o].events
       /\ \A f \in FollowUps : followups[f] \in {"RESOLVED", "CANCELED"} => followups'[f] = followups[f]]_vars

=============================================================================

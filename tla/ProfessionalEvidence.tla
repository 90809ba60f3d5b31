------------------------ MODULE ProfessionalEvidence ------------------------
(***************************************************************************)
(* n0te/professional_evidence.py over n0te/evidence.py: each item of       *)
(* professional evidence is a topic of its own, and its revisions are      *)
(* claims, each superseding the one before.  Reads insist on one chain.    *)
(***************************************************************************)
EXTENDS EvidenceMemory

vars == <<claims, supersedes, calls>>

\* A claim's value is the revision that made it.
Revisions == {"CREATE", "CORRECTION", "DISPUTE", "WITHDRAWAL", "RESTORE"}
StateAfter(revision) ==
    CASE revision = "DISPUTE" -> "DISPUTED"
      [] revision = "WITHDRAWAL" -> "WITHDRAWN"
      [] OTHER -> "ACTIVE"

History(item) == {c \in Claims : claims[c].topic = item}
Latest(item) == CHOOSE c \in History(item) : \A d \in History(item) : d <= c
Before(c) == {d \in History(claims[c].topic) : d < c}
Previous(c) == CHOOSE d \in Before(c) : \A e \in Before(c) : e <= d

\* Mutant: the last revision is looked at, and not the chain behind it.
ReadableTail(item) == Latest(item) \in Active(item)

\* history and current: otherwise they raise.
Readable(item) ==
    /\ \A c \in History(item) :
          {edge \in supersedes : edge[1] = c} = IF Before(c) = {} THEN {} ELSE {<<c, Previous(c)>>}
    /\ Active(item) = {Latest(item)}

State(item) == StateAfter(claims[Latest(item)].value)

\* What correct, dispute, withdraw and restore refuse.
Permits(state, revision) ==
    \/ revision = "CORRECTION" /\ state # "WITHDRAWN"
    \/ revision = "DISPUTE" /\ state = "ACTIVE"
    \/ revision = "WITHDRAWAL" /\ state # "WITHDRAWN"
    \/ revision = "RESTORE" /\ state # "ACTIVE"

Init == EvidenceInit

\* record: a new id, whose topic is read by nobody before it is written.
Record(item) ==
    /\ History(item) = {}
    /\ Len(claims) < MaxClaims
    /\ claims' = Append(claims, [topic |-> item, value |-> "CREATE"])
    /\ UNCHANGED <<supersedes, calls>>

\* correct and _state_revision, up to the transaction of record_claim.
ReviseReads(item, revision) ==
    /\ History(item) # {}
    /\ Readable(item)
    /\ Permits(State(item), revision)
    /\ ClaimReads(item, revision, {Latest(item)})

Next ==
    \/ \E item \in Topics : Record(item)
    \/ \E item \in Topics, revision \in Revisions : ReviseReads(item, revision)
    \/ \E call \in calls : ClaimWrites(call)

Spec == Init /\ [][Next]_vars

-----------------------------------------------------------------------------
(* Properties.                                                             *)

\* The class comment: revisions are immutable claims connected by canonical
\* supersession, and history() takes anything but one chain for lost lineage.
RevisionsAreOneChain == \A item \in Topics : History(item) # {} => Readable(item)

\* Whatever calls crossed, a history that can be read is one the guards of correct,
\* dispute, withdraw and restore allow: no late correction revives what was withdrawn.
ReadableIsLawful ==
    \A item \in Topics : History(item) # {} /\ Readable(item) =>
        \A c \in History(item) : Before(c) # {} =>
            Permits(StateAfter(claims[Previous(c)].value), claims[c].value)

=============================================================================

--------------------------- MODULE EvidenceMemory ---------------------------
(***************************************************************************)
(* n0te/evidence.py: claims about a topic (a scope and a key) are recorded *)
(* for good; a new claim may supersede older ones of its topic, and those  *)
(* that nothing supersedes are active.  Whether a claim to be superseded   *)
(* is active is looked at before the transaction that records the new one. *)
(***************************************************************************)
EXTENDS Naturals, Sequences, FiniteSets

CONSTANTS
    Topics,         \* scopes with their keys
    Values,         \* what a claim says
    MaxClaims,      \* claims recorded (a bound); no call is made when there is room for none
    MaxCalls        \* calls that have read and not yet written (a bound)

VARIABLES
    claims,      \* evidence_claims in the order of seq
    supersedes,  \* evidence_supersessions: <<newer, older>>
    calls        \* calls between their reads and their write

Claims == DOMAIN claims
Superseded == {edge[2] : edge \in supersedes}

\* active_claims
Active(topic) == {c \in Claims : claims[c].topic = topic} \ Superseded

\* resolve_for_song, of one scope: it does not look further once a scope has claims.
Resolution(topic) ==
    LET said == {claims[c].value : c \in Active(topic)} IN
    CASE said = {} -> "UNKNOWN" [] Cardinality(said) = 1 -> "RESOLVED" [] OTHER -> "CONFLICT"

EvidenceTypeOK ==
    /\ claims \in Seq([topic : Topics, value : Values])
    /\ Len(claims) <= MaxClaims
    /\ supersedes \subseteq Claims \X Claims
    /\ Cardinality(calls) <= MaxCalls

EvidenceInit == claims = <<>> /\ supersedes = {} /\ calls = {}

-----------------------------------------------------------------------------
\* A call whose checks have passed, and the same call at its transaction.
Reads(call) == Cardinality(calls) < MaxCalls /\ calls' = calls \cup {call}
Writes(call) == call \in calls /\ calls' = calls \ {call}

ClaimReads(topic, value, olds) ==
    /\ Len(claims) < MaxClaims
    /\ olds \subseteq Active(topic)
    /\ Reads([op |-> "claim", topic |-> topic, value |-> value, olds |-> olds])
    /\ UNCHANGED <<claims, supersedes>>

\* reconcile_for_song supersedes every claim that was active when it looked.
ReconcileReads(topic, value) ==
    /\ Resolution(topic) # "UNKNOWN"
    /\ ClaimReads(topic, value, Active(topic))

\* Mutant: what is active is read again after the new claim is in.
ClaimWritesOverAll(call) ==
    /\ call.op = "claim"
    /\ Len(claims) < MaxClaims
    /\ Writes(call)
    /\ claims' = Append(claims, [topic |-> call.topic, value |-> call.value])
    /\ supersedes' = supersedes \cup ({Len(claims) + 1} \X (Active(call.topic) \cup {Len(claims) + 1}))

\* The claim and its edges in one transaction.  Only evidence_supersession_same_target
\* guards them: an older claim may have been superseded by another in the meantime.
ClaimWrites(call) ==
    /\ call.op = "claim"
    /\ Len(claims) < MaxClaims
    /\ Writes(call)
    /\ claims' = Append(claims, [topic |-> call.topic, value |-> call.value])
    /\ supersedes' = supersedes \cup ({Len(claims) + 1} \X call.olds)

-----------------------------------------------------------------------------
(* Properties.                                                             *)

\* However corrections and reconciliations cross, a topic that was ever spoken of
\* keeps an active claim, every superseded one leads to a later claim of its topic,
\* and so a scope that once answered never falls back to a wider one.
EvidenceNeverVanishes ==
    /\ \A c \in Claims : Resolution(claims[c].topic) # "UNKNOWN"
    /\ \A edge \in supersedes :
          edge[1] > edge[2] /\ claims[edge[1]].topic = claims[edge[2]].topic

=============================================================================

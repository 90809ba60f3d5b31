---------------------------- MODULE FansAndRights ----------------------------
(***************************************************************************)
(* n0te/fan_journey.py and n0te/direct_fan.py: what is known of one fan,   *)
(* the consent given per channel, and intents to contact the fan that are  *)
(* bound to a contact point and a consent.  n0te/rights_evidence_chain.py: *)
(* what supports a credit, stage by stage.  All of it are claims of the    *)
(* evidence memory under keys of their own, which nothing supersedes.      *)
(***************************************************************************)
EXTENDS EvidenceMemory

CONSTANTS
    Channels,    \* CONSENT_CHANNELS
    Purposes,    \* CONTACT_PURPOSES
    FanStages,   \* FAN_STAGES, as 1, 2, ...
    Provable     \* stages of RightsStages evidence is recorded of

vars == <<claims, supersedes, calls>>

\* The prefixes of the keys: a claim has a uuid of its own after it, or names the credit.
Namespaces == {"signal", "consent", "contact", "intent", "rights"}

ObservedSources == {"OBSERVED", "MEASURED", "PROVIDER_VERIFIED"}
DeclaredSources == {"USER_DECLARED", "REMEMBERED"}
Signal == [stage : FanStages, source : ObservedSources \cup DeclaredSources \cup {"INFERRED"}]
Consent == [channel : Channels, status : {"OPTED_IN", "OPTED_OUT"}]
Contact == [channel : Channels]
Intent == [channel : Channels, purpose : Purposes, contact : Nat, consent : Nat]

RightsStages == <<"USER_DECLARATION", "COMMUNICATION_CONFIRMATION", "SIGNED_DOCUMENT",
                  "PROVIDER_RECEIPT">>
ExternalRecordable == {"COMMUNICATION_CONFIRMATION", "SIGNED_DOCUMENT"}
Right == [stage : Provable, assertion : {"SUPPORTS", "CONTRADICTS"},
          source : {"USER_DECLARED", "OBSERVED", "PROVIDER_VERIFIED"}]

TypeOK ==
    \A c \in Claims :
        CASE claims[c].topic = "signal" -> claims[c].value \in Signal
          [] claims[c].topic = "consent" -> claims[c].value \in Consent
          [] claims[c].topic = "contact" -> claims[c].value \in Contact
          [] claims[c].topic = "intent" -> claims[c].value \in Intent
          [] claims[c].topic = "rights" -> claims[c].value \in Right

Init == EvidenceInit

Record(topic, value) ==
    /\ Len(claims) < MaxClaims
    /\ claims' = Append(claims, [topic |-> topic, value |-> value])
    /\ UNCHANGED <<supersedes, calls>>

-----------------------------------------------------------------------------
(* FanJourneyService.                                                      *)

\* The service never says itself that a provider verified something; claims
\* that a verifier records are read like its own.
RecordStage(stage, source) == Record("signal", [stage |-> stage, source |-> source])
RecordConsent(channel, status) == Record("consent", [channel |-> channel, status |-> status])

StagesFrom(cs, sources) ==
    {cs[c].value.stage : c \in {d \in DOMAIN cs : cs[d].topic = "signal" /\ cs[d].value.source \in sources}}
Furthest(stages) == CHOOSE s \in stages \cup {0} : \A t \in stages : t <= s
FurthestObserved(cs) == Furthest(StagesFrom(cs, ObservedSources))

JourneyStatus(cs) ==
    LET said == {k \in {"OBSERVED", "DECLARED_ONLY", "INFERRED_ONLY"} :
                    StagesFrom(cs, CASE k = "OBSERVED" -> ObservedSources
                                     [] k = "DECLARED_ONLY" -> DeclaredSources
                                     [] OTHER -> {"INFERRED"}) # {}} IN
    CASE said = {} -> "UNKNOWN"
      [] Cardinality(said) > 1 -> "MIXED"
      [] OTHER -> CHOOSE k \in said : TRUE

\* Mutant: the best answer a channel ever gave.
CurrentBest(topic, channel) ==
    LET said == {c \in Active(topic) : claims[c].value.channel = channel
                   /\ topic = "consent" => claims[c].value.status = "OPTED_IN"} IN
    CHOOSE c \in said \cup {0} : \A d \in said : d <= c

\* consent_evidence and current_contact_point: the latest of the channel, 0 when there is none.
CurrentOf(topic, channel) ==
    LET said == {c \in Active(topic) : claims[c].value.channel = channel} IN
    CHOOSE c \in said \cup {0} : \A d \in said : d <= c

-----------------------------------------------------------------------------
(* DirectFanService.                                                       *)

RecordContactPoint(channel) == Record("contact", [channel |-> channel])

\* record_contact_intent: contact and consent are looked at before the claim is recorded.
ContactIntentReads(channel, purpose) ==
    LET contact == CurrentOf("contact", channel)
        consent == CurrentOf("consent", channel)
        intent == [channel |-> channel, purpose |-> purpose, contact |-> contact,
                   consent |-> consent] IN
    /\ contact # 0 /\ consent # 0
    /\ claims[consent].value.status = "OPTED_IN"
    /\ \A i \in Active("intent") : claims[i].value # intent
    /\ ClaimReads("intent", intent, {})

\* _parse_intent raises otherwise: the fan's intents could not be read at all.
WellBound(intent) ==
    /\ intent.contact \in Active("contact") /\ intent.consent \in Active("consent")
    /\ claims[intent.contact].value.channel = intent.channel
    /\ claims[intent.consent].value = [channel |-> intent.channel, status |-> "OPTED_IN"]

\* assess_intent
AssessIntent(intent) ==
    LET contact == CurrentOf("contact", intent.channel)
        consent == CurrentOf("consent", intent.channel) IN
    IF consent = 0 THEN "NO_CURRENT_CONSENT"
    ELSE IF claims[consent].value.status = "OPTED_OUT" THEN "CONSENT_REVOKED"
    ELSE IF consent # intent.consent THEN "CONSENT_CHANGED"
    ELSE IF contact = 0 THEN "NO_CONTACT_POINT"
    ELSE IF contact # intent.contact THEN "CONTACT_CHANGED"
    ELSE "REVIEWABLE"

Reviewable == {i \in Active("intent") : AssessIntent(claims[i].value) = "REVIEWABLE"}

-----------------------------------------------------------------------------
(* RightsEvidenceChainService, about one credit.                           *)

\* record_user_declared_reference and record_observed; a provider's verifier
\* records claims of every stage.
RecordReference(stage, assertion, source) ==
    /\ source # "PROVIDER_VERIFIED" => stage \in ExternalRecordable
    /\ Record("rights", [stage |-> stage, assertion |-> assertion, source |-> source])

\* What the user says of a document does not count, and a receipt is a provider's.
Qualifies(right) ==
    IF right.stage \in ExternalRecordable THEN right.source \in {"OBSERVED", "PROVIDER_VERIFIED"}
    ELSE right.source = "PROVIDER_VERIFIED"

\* Mutant: whatever was said supports a stage.
RightsStatusAsSaid(cs, stage) ==
    LET items == {cs[c].value : c \in {d \in DOMAIN cs : cs[d].topic = "rights" /\ cs[d].value.stage = stage}}
        said == {i.assertion : i \in items} IN
    IF items = {} THEN "UNKNOWN"
    ELSE IF Cardinality(said) > 1 THEN "CONFLICT"
    ELSE IF said = {"SUPPORTS"} THEN "SUPPORTED"
    ELSE "CONTRADICTED"

RightsStatus(cs, stage) ==
    LET items == {cs[c].value : c \in {d \in DOMAIN cs : cs[d].topic = "rights" /\ cs[d].value.stage = stage}}
        said == {i.assertion : i \in items} IN
    IF stage = "USER_DECLARATION" THEN "SUPPORTED"
    ELSE IF items = {} THEN "UNKNOWN"
    ELSE IF Cardinality(said) > 1 THEN "CONFLICT"
    ELSE IF {i \in items : Qualifies(i)} = {} THEN "UNVERIFIED"
    ELSE IF said = {"SUPPORTS"} THEN "SUPPORTED"
    ELSE "CONTRADICTED"

\* How far the chain is supported without a gap.
Contiguous(cs) ==
    CHOOSE n \in 1..4 :
        /\ \A i \in 2..n : RightsStatus(cs, RightsStages[i]) = "SUPPORTED"
        /\ n < 4 => RightsStatus(cs, RightsStages[n + 1]) # "SUPPORTED"

-----------------------------------------------------------------------------
Next ==
    \/ \E s \in Signal : RecordStage(s.stage, s.source)
    \/ \E ch \in Channels, status \in {"OPTED_IN", "OPTED_OUT"} : RecordConsent(ch, status)
    \/ \E ch \in Channels : RecordContactPoint(ch)
    \/ \E ch \in Channels, p \in Purposes : ContactIntentReads(ch, p)
    \/ \E call \in calls : ClaimWrites(call)
    \/ \E r \in Right : RecordReference(r.stage, r.assertion, r.source)

Spec == Init /\ [][Next]_vars

-----------------------------------------------------------------------------
(* Properties.                                                             *)

\* direct_fan.py: an intent can always be read, and once a fan has opted out of a
\* channel no intent is up for review that does not rest on a consent given since,
\* also not one that was being recorded when the fan did.
NoContactAfterOptOut ==
    /\ \A i \in Active("intent") : WellBound(claims[i].value)
    /\ \A i \in Reviewable : \A c \in Active("consent") :
          claims[c].value = [channel |-> claims[i].value.channel, status |-> "OPTED_OUT"]
             => claims[i].value.consent \in (c + 1)..(i - 1)

\* assess_intent: an intent that was overtaken by a consent or a contact point
\* is never up for review again, not even when the fan opts in anew.
AnIntentMayExpire ==
    \A i \in Active("intent") : i \notin Reviewable => i \notin Reviewable'
IntentsOnlyExpire == [][AnIntentMayExpire]_vars

\* What somebody says, remembers or infers never moves a fan along the observed
\* stages, nor a credit along the chain of rights.
MereWordsMoveNothing ==
    \A c \in DOMAIN claims' \ DOMAIN claims :
       claims'[c].topic \in {"signal", "rights"}
       /\ claims'[c].value.source \in DeclaredSources \cup {"INFERRED"}
       => /\ FurthestObserved(claims') = FurthestObserved(claims)
          /\ JourneyStatus(claims) = "OBSERVED" => JourneyStatus(claims') \in {"OBSERVED", "MIXED"}
          /\ Contiguous(claims') <= Contiguous(claims)
WordsProveNothing == [][MereWordsMoveNothing]_vars

=============================================================================

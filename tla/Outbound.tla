------------------------------ MODULE Outbound ------------------------------
(***************************************************************************)
(* What leaves the machine: jobs for a model (llm.py), each confirmed as   *)
(* an exact envelope (egress.py, authority.py), sent by the adapter of     *)
(* Workers AI (cloudflare_workers_ai.py); and searches for references by   *)
(* the coordinator's providers (coordinator_mcp.py, coordinator_gateway.py,*)
(* reference_providers.py, openai_web_reference_provider.py) under the     *)
(* network mode the process was started with (network.py).                 *)
(***************************************************************************)
EXTENDS Naturals, FiniteSets

CONSTANTS
    Jobs,       \* [purpose, content, tools, structured]: what a model may be asked
    Profiles,   \* [model, destination, terms, remote, enabled, metered, secret,
                \*  able, adapter]: versions of one model profile
    Providers,  \* [backend, https, host]: what the environment may configure, and
                \* what a trusted bootstrap may register with "trusted" for a backend
    Candidates, \* tracks a web search may propose
    Texts,      \* what names and contents there are
    MaxSends, MaxConfirmations   \* bounds

VARIABLES
    job,        \* the job as it stands
    profile,    \* the profile, as the runtime now in use was built with it
    approval,   \* the intent the last approval is bound to
    confirmed,  \* what the artist was shown and confirmed
    sent,       \* what left: the job's material, to a model at a destination
    status,     \* of the last receipt
    mode,       \* N0TE_NETWORK_MODE, read once by the process
    registered, \* provider registrations
    reached,    \* where searches went, by the route that was evaluated
    found       \* the candidates of the last search

modelVars == <<job, profile, approval, confirmed, sent, status>>
searchVars == <<mode, registered, reached, found>>
vars == <<modelVars, searchVars>>

None == [none |-> TRUE]

\* A job, whatever model does it; a profile without its secret: an opaque reference to it.
ModelJob == [purpose : Texts, content : Texts, tools : BOOLEAN, structured : BOOLEAN]
ModelProfile ==
    [model : Texts, destination : Texts, terms : Texts, adapter : Texts, remote : BOOLEAN,
     enabled : BOOLEAN, metered : BOOLEAN, secret : BOOLEAN,
     able : SUBSET {"TEXT", "STRUCTURED_OUTPUT", "TOOL_CALLS"}]

Init ==
    /\ job \in Jobs /\ profile \in Profiles
    /\ approval = None /\ confirmed = {} /\ sent = {} /\ status = "NONE"
    /\ mode \in {"OFFLINE", "CONNECTED"} /\ registered = {} /\ reached = {} /\ found = {}

-----------------------------------------------------------------------------
(* Egress.                                                                 *)

\* The envelope of a job for a profile: its materials by their content, where it goes, why,
\* which model gets it, and the retention and cost it says.
Envelope(j, p) ==
    [purpose |-> j.purpose, materials |-> j.content, destination |-> p.destination,
     description |-> p.model, terms |-> p.terms]

\* Mutant: the approval is for what is sent, whatever the terms.
IntentOfMaterials(envelope) == [envelope EXCEPT !.terms = "any"]

\* to_action_intent().intent_fingerprint: every field goes into it.
Intent(envelope) == envelope

\* The artist works on, or the runtime is built again with an edited profile.
Change ==
    /\ \/ job' \in Jobs \ {job} /\ UNCHANGED profile
       \/ profile' \in Profiles \ {profile} /\ UNCHANGED job
    /\ UNCHANGED <<approval, confirmed, sent, status, searchVars>>

\* preview_egress, OutboundInspector.preview and bind_confirmation: only for a remote profile.
Confirm ==
    /\ profile.remote /\ Cardinality(confirmed) < MaxConfirmations
    /\ approval' = Intent(Envelope(job, profile))
    /\ confirmed' = confirmed \cup {Envelope(job, profile)}
    /\ UNCHANGED <<job, profile, sent, status, searchVars>>

-----------------------------------------------------------------------------
(* ModelRuntime.run and CloudflareWorkersAIAdapter.invoke.                 *)

Required(j) ==
    {"TEXT"} \cup (IF j.tools THEN {"TOOL_CALLS"} ELSE {})
             \cup (IF j.structured THEN {"STRUCTURED_OUTPUT"} ELSE {})

\* The guards of run() for a selected profile, in their order, up to the adapter; "NONE" when
\* none of them blocks.
Blocks(on, metered, given, credential) ==
    IF ~on THEN "AI_OFF"
    ELSE IF ~profile.enabled THEN "PROFILE_DISABLED"
    ELSE IF profile.metered /\ ~metered THEN "COST_BLOCKED"
    ELSE IF ~(Required(job) \subseteq profile.able) THEN "CAPABILITY_BLOCKED"
    ELSE IF profile.remote /\ given = None THEN "EGRESS_CONFIRMATION_REQUIRED"
    ELSE IF profile.remote /\ given # Intent(Envelope(job, profile))
         THEN "STALE_EGRESS_CONFIRMATION"
    ELSE IF profile.secret /\ credential # "AVAILABLE" THEN "CREDENTIAL_UNAVAILABLE"
    ELSE IF profile.adapter = "none" THEN "ADAPTER_UNAVAILABLE"
    ELSE "NONE"

\* Mutant: a profile that says it is local goes out unconfirmed.
TransmitsAnyProfile == profile.secret /\ ~job.tools /\ profile.destination = "cloudflare"

\* What invoke() requires before it posts anything; a lease is passed for a profile with a
\* credential_ref only, and _validate_destination knows one origin.
Transmits ==
    /\ profile.secret /\ profile.remote /\ ~job.tools
    /\ profile.destination = "cloudflare"

\* _provider_user_message, in the body for the model, to the destination; the terms are what the
\* profile says of it.
Message(j, p) ==
    [purpose |-> j.purpose, materials |-> j.content, destination |-> p.destination,
     description |-> p.model, terms |-> p.terms]

\* What the answer comes to: none, one the adapter refuses (tool calls, no text, no JSON object
\* where one was asked for), or text; run()'s own checks of an output refuse none of these.
Answered(answer) ==
    IF answer = "object" \/ (answer = "text" /\ ~job.structured) THEN "COMPLETE"
    ELSE "PROVIDER_ERROR"

Run ==
    \E on, metered \in BOOLEAN, given \in {None, approval}, credential \in {"AVAILABLE", "LOCKED"},
       answer \in {"text", "object", "tools", "lost"} :
        LET block == Blocks(on, metered, given, credential) IN
        IF block # "NONE" THEN status' = block /\ sent' = sent
        ELSE IF ~Transmits THEN status' = "PROVIDER_ERROR" /\ sent' = sent
        ELSE /\ Cardinality(sent) < MaxSends
             /\ sent' = sent \cup {Message(job, profile)}
             /\ status' = Answered(answer)

RunJob == Run /\ UNCHANGED <<job, profile, approval, confirmed, searchVars>>

-----------------------------------------------------------------------------
(* Searches for references.                                                *)

\* _endpoint: https anywhere, http on this machine only.
Endpoint(p) == p.https \/ p.host = "LOCALHOST"

Route(kind, approved) == [kind |-> kind, approved |-> approved]

\* _bootstrap_configured_reference_provider, when the process is first asked.
Bootstrap ==
    /\ registered = {}
    /\ \E p \in Providers :
          \/ /\ p.backend = "http_json" /\ Endpoint(p)
             /\ registered' = {[provider |-> p, route |->
                    Route(IF p.host = "LOCALHOST" THEN "LOCALHOST" ELSE "INTERNET", FALSE)]}
          \/ /\ p.backend = "openai_web" /\ p.host = "INTERNET"
             /\ registered' = {[provider |-> p, route |-> Route("INTERNET", FALSE)]}
    /\ UNCHANGED <<modelVars, mode, reached, found>>

\* register_reference_discovery_provider: the trusted hook says where its provider is; an
\* approval is for a LAN route only.
Register ==
    /\ \E p \in Providers, approved \in BOOLEAN :
          /\ p.backend = "trusted" /\ (approved => p.host = "LAN")
          /\ \A r \in registered : r.provider # p
          /\ registered' = registered \cup {[provider |-> p, route |-> Route(p.host, approved)]}
    /\ UNCHANGED <<modelVars, mode, reached, found>>

\* Mutant: the LAN is one's own.
EvaluateTrustingLan(route) == route.kind \in {"LOCALHOST", "LAN"} \/ mode = "CONNECTED"

\* NetworkPolicy.evaluate
Evaluate(route) ==
    CASE route.kind = "LOCALHOST" -> TRUE
      [] route.kind = "LAN" -> route.approved
      [] OTHER -> mode = "CONNECTED"

\* Mutant: the address a candidate is found under is its own evidence.
KeptAsProposed(proposed, cited) == {c \in proposed : c.measured}

\* What OpenAIWebReferenceProvider keeps of an answer: nothing if any candidate's locator or
\* evidence was not cited, and otherwise those with a measured feature.
Kept(proposed, cited) ==
    IF \A c \in proposed : c.locator \in cited /\ c.evidence \in cited
    THEN {c \in proposed : c.measured} ELSE {}

\* discover_ranked: the ranking that follows is local and is not modelled.
Search ==
    /\ \E r \in registered :
          /\ Evaluate(r.route)
          /\ reached' = reached \cup {r}
          /\ IF r.provider.backend # "openai_web" THEN found' = {}
             ELSE \E proposed \in SUBSET Candidates :
                  \E cited \in SUBSET UNION {{c.locator, c.evidence} : c \in Candidates} :
                      found' = {[candidate |-> c, cited |-> cited] : c \in Kept(proposed, cited)}
    /\ UNCHANGED <<modelVars, mode, registered>>

Next == Change \/ Confirm \/ RunJob \/ Bootstrap \/ Register \/ Search

Spec == Init /\ [][Next]_vars

-----------------------------------------------------------------------------
(* Properties.                                                             *)

\* Jobs and profiles are what llm.py's dataclasses admit.
TypeOK ==
    /\ job \in ModelJob /\ profile \in ModelProfile /\ profile.able # {}
    /\ mode \in {"OFFLINE", "CONNECTED"} /\ reached \subseteq registered

\* "Remote model use requires exact outbound confirmation": whatever reached a model, the
\* artist confirmed exactly that, for that model and destination and under those terms,
\* although job and profile change between the preview, the confirmation and the run.
NothingLeavesUnconfirmed == sent \subseteq confirmed

\* network.py, "OFFLINE": nothing but an approved LAN route leaves the machine for a search
\* in a process that was not started connected, wherever the configured endpoint is; and
\* "URL-citation annotations are checked before a candidate becomes OBSERVED evidence".
SearchesStayInside ==
    /\ \A r \in reached :
          \/ r.provider.host = "LOCALHOST" \/ mode = "CONNECTED"
          \/ (r.provider.host = "LAN" /\ r.route.approved)
    /\ \A f \in found : {f.candidate.locator, f.candidate.evidence} \subseteq f.cited

=============================================================================

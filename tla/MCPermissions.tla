---------------------------- MODULE MCPermissions ----------------------------
(***************************************************************************)
(* What may be done, and by whom: the lease of a profile, permits of the   *)
(* coordinator, ethics of a professional decision, consent of fans and     *)
(* what words prove, what a studio can be said to do, what leaves the      *)
(* machine, what is raised now, who makes the first profile, and what an   *)
(* uninstaller may take.  A behaviour is about one of these.  Those other  *)
(* than the lease take turns at the variables v1 to v10, each at as many   *)
(* of them as it has.  After the properties stand their proofs.            *)
(***************************************************************************)
EXTENDS InstanceLease, Integers, Sequences, FiniteSets, TLC,
        FiniteSetTheorems, WellFoundedInduction, TLAPS

CONSTANTS
    Coordinators, MaxSnapshots, MaxPermits, MaxTime,
    MaxSignals, MaxClaims, Nobody,
    MaxProbes, MaxRevisions, MaxSends, MaxCandidates

\* Nobody is not one of those who launch.
ASSUME LaunchesAreSomebody == Nobody \notin Launches

Alike == Permutations(Launches) \cup Permutations(Coordinators)

VARIABLES focus, v1, v2, v3, v4, v5, v6, v7, v8, v9, v10

\* What a part leaves free, by the first variable it does not use.
Rest1 == <<v1, v2, v3, v4, v5, v6, v7, v8, v9, v10>>
Rest3 == <<v3, v4, v5, v6, v7, v8, v9, v10>>
Rest4 == <<v4, v5, v6, v7, v8, v9, v10>>
Rest5 == <<v5, v6, v7, v8, v9, v10>>
Rest6 == <<v6, v7, v8, v9, v10>>
Rest7 == <<v7, v8, v9, v10>>
Rest8 == <<v8, v9, v10>>
Rest9 == <<v9, v10>>
Free10 == v10 = 0
Free9 == v9 = 0 /\ Free10
Free8 == v8 = 0 /\ Free9
Free7 == v7 = 0 /\ Free8
Free6 == v6 = 0 /\ Free7
Free5 == v5 = 0 /\ Free6
Free4 == v4 = 0 /\ Free5
Free3 == v3 = 0 /\ Free4
Free1 == v1 = 0 /\ v2 = 0 /\ Free3

-----------------------------------------------------------------------------
(* Permits: two coordinators and two actions.  Deleting is up to a human,  *)
(* who has approved it; the approval is withdrawn, or the trust; renaming  *)
(* comes to need a human too.                                              *)

Both == {"delete", "rename"}
Changes == {[trusted |-> Both, human |-> {"delete"}, approvals |-> {"delete"}],
            [trusted |-> Both, human |-> {"delete"}, approvals |-> {}],
            [trusted |-> {"rename"}, human |-> {}, approvals |-> {"delete"}],
            [trusted |-> Both, human |-> Both, approvals |-> {"delete"}]}

Gateway == INSTANCE MutationGateway WITH
    Actions <- Both, Contents <- Changes,
    contexts <- v1, permits <- v2, ledger <- v3, effects <- v4, coordinator <- v5, now <- v6

(* Ethics: signals heard out of order, some for a purpose and audiences.   *)

Signal(kind, state, at_, purposes, audiences, voluntary) ==
    [kind |-> kind, state |-> state, at |-> at_, purposes |-> purposes,
     audiences |-> audiences, voluntary |-> voluntary]
Hearsay ==
    UNION {{Signal("INFORMED_CONSENT", "GRANTED", t, {}, {}, FALSE),
            Signal("INFORMED_CONSENT", "GRANTED", t, {}, {}, TRUE),
            Signal("INFORMED_CONSENT", "WITHDRAWN", t, {}, {}, FALSE),
            Signal("POWER_ASYMMETRY", "PRESENT", t, {}, {}, FALSE),
            Signal("POWER_ASYMMETRY", "ABSENT", t, {}, {}, FALSE),
            Signal("CONFIDENTIALITY_PERMISSION", "GRANTED", t, {"p"}, {"a"}, FALSE),
            Signal("CONFIDENTIALITY_PERMISSION", "GRANTED", t, {"p"}, {"a", "b"}, FALSE),
            Signal("CONFIDENTIALITY_PERMISSION", "WITHDRAWN", t, {}, {}, FALSE),
            Signal("CONFLICT_OF_INTEREST", "PRESENT", t, {}, {}, FALSE)} : t \in 1..2}
Decisions ==
    {[required |-> r, impact |-> i, purpose |-> "p", audiences |-> {"a", "b"}, review |-> FALSE] :
        r \in {{"INFORMED_CONSENT"}, {"CONFIDENTIALITY_PERMISSION"}, {}},
        i \in {"ROUTINE", "MATERIAL"}}

Ethics == INSTANCE ProfessionalEthics WITH
    Contexts <- Decisions, Hearable <- Hearsay, context <- v1, signals <- v2

(* One fan and one channel; and what is said of rights to a work.          *)

Fans == INSTANCE FansAndRights WITH
    Topics <- {}, Values <- {}, MaxCalls <- 1, Channels <- {"EMAIL"}, Purposes <- {"LAUNCH"},
    FanStages <- {}, Provable <- {}, claims <- v1, supersedes <- v2, calls <- v3
Words == INSTANCE FansAndRights WITH
    Topics <- {}, Values <- {}, MaxCalls <- 1, Channels <- {}, Purposes <- {"LAUNCH"},
    FanStages <- {1, 2}, MaxClaims <- 3,
    Provable <- {"COMMUNICATION_CONFIRMATION", "SIGNED_DOCUMENT", "PROVIDER_RECEIPT"},
    claims <- v1, supersedes <- v2, calls <- v3

(* Two routes that are probed late; one route and the access to it; two    *)
(* declared tools.                                                         *)

Probed == INSTANCE Capabilities WITH
    Routes <- {1, 2}, Runtimes <- {"r1"}, Kinds <- {"OWNED_TOOL", "GUIDED"}, Fits <- {0, 1},
    Sources <- {"OBSERVED"}, MaxObservations <- 2, MaxClock <- 1, MaxFacts <- 0,
    Tools <- {}, Endpoints <- {}, MaxRevisions <- 0,
    workspace <- v1, installed <- v2, clock <- v3, probes <- v4, evidence <- v5, facts <- v6,
    snapshots <- v7, revisions <- v8
Entitled == INSTANCE Capabilities WITH
    Routes <- {1}, Runtimes <- {"r1"}, Kinds <- {"OWNED_TOOL"}, Fits <- {0},
    Sources <- {"OBSERVED", "USER_DECLARED"}, MaxProbes <- 1, MaxObservations <- 1,
    MaxClock <- 1, MaxFacts <- 2, Tools <- {}, Endpoints <- {}, MaxRevisions <- 0,
    workspace <- v1, installed <- v2, clock <- v3, probes <- v4, evidence <- v5, facts <- v6,
    snapshots <- v7, revisions <- v8
Declared == INSTANCE Capabilities WITH
    Routes <- {}, Runtimes <- {"r1"}, Kinds <- {}, Fits <- {}, Sources <- {}, MaxProbes <- 0,
    MaxObservations <- 1, MaxClock <- 0, MaxFacts <- 0,
    Tools <- {"t1", "t2"}, Endpoints <- {"e1", "e2"},
    workspace <- v1, installed <- v2, clock <- v3, probes <- v4, evidence <- v5, facts <- v6,
    snapshots <- v7, revisions <- v8

(* Three jobs and eight versions of the profile of a model.                *)

Usual == [model |-> "m", destination |-> "cloudflare", terms |-> "free", remote |-> TRUE,
          enabled |-> TRUE, metered |-> FALSE, secret |-> TRUE,
          able |-> {"TEXT", "STRUCTURED_OUTPUT"}, adapter |-> "cloudflare"]
Edited ==
    {Usual, [Usual EXCEPT !.model = "n"], [Usual EXCEPT !.terms = "kept", !.metered = TRUE],
     [Usual EXCEPT !.remote = FALSE], [Usual EXCEPT !.destination = "elsewhere"],
     [Usual EXCEPT !.secret = FALSE], [Usual EXCEPT !.enabled = FALSE],
     [Usual EXCEPT !.able = {"TEXT", "TOOL_CALLS"}, !.adapter = "none"]}
Asked ==
    {[purpose |-> "mix", content |-> "a", tools |-> FALSE, structured |-> TRUE],
     [purpose |-> "mix", content |-> "b", tools |-> FALSE, structured |-> FALSE],
     [purpose |-> "mix", content |-> "a", tools |-> TRUE, structured |-> FALSE]}

Named == {"mix", "a", "b", "m", "n", "cloudflare", "elsewhere", "free", "kept", "none"}

Models == INSTANCE Outbound WITH
    Texts <- Named, Jobs <- Asked, Profiles <- Edited, Providers <- {}, Candidates <- {},
    MaxConfirmations <- 1,
    job <- v1, profile <- v2, approval <- v3, confirmed <- v4, sent <- v5, status <- v6,
    mode <- v7, registered <- v8, reached <- v9, found <- v10

(* Endpoints on this machine, on the LAN and beyond; what a search cites.  *)

Backends ==
    {[backend |-> "http_json", https |-> https, host |-> host] :
        https \in BOOLEAN, host \in {"LOCALHOST", "LAN", "INTERNET"}}
    \cup {[backend |-> "openai_web", https |-> TRUE, host |-> "INTERNET"]}
    \cup {[backend |-> "trusted", https |-> TRUE, host |-> host] :
             host \in {"LAN", "INTERNET"}}
Found == {[locator |-> l, evidence |-> "u1", measured |-> b] : l \in {"u1", "u2"}, b \in BOOLEAN}

Searches == INSTANCE Outbound WITH
    Texts <- Named, Jobs <- {CHOOSE j \in Asked : TRUE}, Profiles <- {Usual},
    Providers <- Backends, Candidates <- Found, MaxConfirmations <- 0, MaxSends <- 0,
    job <- v1, profile <- v2, approval <- v3, confirmed <- v4, sent <- v5, status <- v6,
    mode <- v7, registered <- v8, reached <- v9, found <- v10

(* An artist between two songs, with recording and without; subjects that  *)
(* each say one thing, or two that are at odds.                            *)

Context(song, job, operating) == [song |-> song, job |-> job, operating |-> operating]
Places == {Context("s1", "j1", "NORMAL"), Context("s1", "none", "RECORDING"),
           Context("s2", "j1", "NORMAL"), Context("none", "none", "NORMAL")}

Plain == [alert |-> FALSE, explicit |-> FALSE, notNow |-> FALSE, discussion |-> "SAFE",
          fresh |-> TRUE, needsFresh |-> FALSE, blocks |-> FALSE, transaction |-> "NONE",
          decides |-> FALSE, urgency |-> "NONE", operating |-> {}, future |-> FALSE]
Said ==
    {Plain, [Plain EXCEPT !.alert = TRUE],
     [Plain EXCEPT !.explicit = TRUE, !.discussion = "UNKNOWN"],
     [Plain EXCEPT !.notNow = TRUE, !.blocks = TRUE], [Plain EXCEPT !.discussion = "UNSAFE"],
     [Plain EXCEPT !.needsFresh = TRUE, !.fresh = FALSE, !.decides = TRUE],
     [Plain EXCEPT !.transaction = "AWAITING_ARTIST"], [Plain EXCEPT !.urgency = "DEADLINE"],
     [Plain EXCEPT !.operating = {"RECORDING"}], [Plain EXCEPT !.future = TRUE]}

Broker == INSTANCE RelevanceBroker WITH
    Contexts <- Places, Names <- {"s1", "s2", "j1", "none"}, NoSong <- "none", NoJob <- "none",
    Songs <- {"s1", "none"}, Jobs <- {"j1", "none"}, Subjects <- Said,
    now <- v1, broker <- v2, candidates <- v3, answer <- v4

(* Launches that find no profile; and runtime roots beside and below one   *)
(* another.                                                                *)

Bootstrap == INSTANCE ProfileBootstrap WITH
    stage <- v1, dirs <- v2, created <- v3, result <- v4

Removal == INSTANCE RemovalPlan WITH
    Paths <- {<<"n">>, <<"n", "s">>, <<"n", "s", "c">>, <<"n", "t">>},
    Packages <- {<<"n", "t">>, <<"n", "s">>},
    data <- v1, roots <- v2, packages <- v3, verified <- v4, state <- v5, entries <- v6,
    done <- v7

-----------------------------------------------------------------------------

PermissionsInit ==
    /\ Init   \* of the lease; the other behaviours leave it free
    /\ \/ focus = "lease" /\ Free1
       \/ focus = "gateway" /\ Gateway!Init /\ Free7
       \/ focus = "ethics" /\ Ethics!Init /\ Free3
       \/ focus = "fans" /\ Fans!Init /\ Free4
       \/ focus = "words" /\ Words!Init /\ Free4
       \/ focus = "probed" /\ Probed!Init /\ Free9
       \/ focus = "entitled" /\ Entitled!Init /\ Free9
       \/ focus = "declared" /\ Declared!Init /\ Free9
       \/ focus = "models" /\ Models!Init
       \/ focus = "searches" /\ Searches!Init
       \/ focus = "broker" /\ Broker!Init /\ Free5
       \/ focus = "bootstrap" /\ Bootstrap!BootstrapInit /\ Free5
       \/ focus = "removal" /\ Removal!Init /\ Free8

PartNext ==
    \/ focus = "gateway" /\ Gateway!Next /\ UNCHANGED Rest7
    \/ focus = "ethics" /\ Ethics!Next /\ UNCHANGED Rest3
    \/ focus = "fans" /\ Fans!Next /\ UNCHANGED Rest4
    \/ focus = "words" /\ Words!Next /\ UNCHANGED Rest4
    \/ focus = "probed" /\ Probed!Next /\ UNCHANGED Rest9
    \/ focus = "entitled" /\ Entitled!Next /\ UNCHANGED Rest9
    \/ focus = "declared" /\ Declared!Next /\ UNCHANGED Rest9
    \/ focus = "models" /\ Models!Next
    \/ focus = "searches" /\ Searches!Next
    \/ focus = "broker" /\ Broker!Next /\ UNCHANGED Rest5
    \/ focus = "removal" /\ Removal!Next /\ UNCHANGED Rest8

PermissionsNext ==
    \/ focus = "lease" /\ Next /\ UNCHANGED <<focus, Rest1>>
    \/ focus = "bootstrap" /\ Bootstrap!BootstrapNext /\ UNCHANGED <<focus, Rest5>>
    \/ PartNext /\ UNCHANGED <<focus, vars>>

permissionVars == <<focus, vars, Rest1>>

PermissionsSpec == PermissionsInit /\ [][PermissionsNext]_permissionVars

-----------------------------------------------------------------------------

\* instance.py: who holds the lease is who it names, and one launch at a time takes over; see
\* InstanceLease.
OneHolder == TypeOK /\ Exclusive /\ HolderIsRecorded /\ OneTakeover

\* instance.py: nobody who lives is evicted, and every eviction is kept; see InstanceLease.
EvictionsAreLawful == OnlyTheDeadAreEvicted /\ EvictedIsArchived

\* coordinator_gateway.py and execution_permit.py: an effect has a permit of its own, and what
\* is allowed now allowed it when it began; see MutationGateway.
AuthorizedOnce ==
    focus = "gateway" =>
        Gateway!TypeOK /\ Gateway!OncePerPermit /\ Gateway!AuthorizedByCurrentContext

\* llm.py, network.py, direct_fan.py, professional_ethics.py: nothing leaves the machine,
\* reaches a fan or goes ahead without what had to be confirmed, consented to or cleared, as
\* it stands then; see Outbound, FansAndRights and ProfessionalEthics.
NothingUncleared ==
    /\ focus = "models" => Models!TypeOK /\ Models!NothingLeavesUnconfirmed
    /\ focus = "searches" => Searches!TypeOK /\ Searches!SearchesStayInside
    /\ focus = "fans" => Fans!TypeOK /\ Fans!NoContactAfterOptOut
    /\ focus = "ethics" => Ethics!GoesAheadOnlyCleared /\ Ethics!OrderDoesNotMatter

\* What was refused, withdrawn or only said does not come to count; see the same modules.
RefusalsStand ==
    [][/\ focus = "ethics" => Ethics!NoBetterForRefusing
       /\ focus = "fans" => Fans!AnIntentMayExpire
       /\ focus = "words" => Words!MereWordsMoveNothing]_<<focus, v1, v2, v3>>

\* capability_evidence.py, capability_negotiation.py, entitlements.py, tool_inventory.py,
\* relevance_broker.py: what is offered or raised is of the studio and the context as they
\* are, and nothing that matters more is held for it; see Capabilities and RelevanceBroker.
OnlyCurrentIsOffered ==
    /\ focus = "probed" => Probed!WhatIsOfferedIsThere /\ Probed!ByHandOnlyAtLast
    /\ focus = "entitled" => Entitled!WhatIsOfferedIsThere /\ Entitled!AccessIsBacked
    /\ focus = "declared" => Declared!InventoryOpens
    /\ focus = "broker" =>
          Broker!TypeOK /\ Broker!OnlyCurrentIsRaised /\ Broker!NothingIsHeldForLess

\* profiles.py and uninstall.py: an artist's data is made once, which it is as long as the lease
\* has one holder (OneHolder), and no removal takes it; see ProfileBootstrap and RemovalPlan.
DataIsMadeOnceAndKept ==
    /\ focus = "bootstrap" => Bootstrap!OneFirstProfile /\ Bootstrap!ToldIsThere
    /\ focus = "removal" => Removal!RemovalTakesOnlyItself

-----------------------------------------------------------------------------
\* Natural numbers: of some there is a smallest, and of some below a bound a largest.
LEMMA Smallest ==
  ASSUME NEW T, T \subseteq Nat, T # {}
  PROVE  \E m \in T : \A n \in T : m <= n
<1> DEFINE R == OpToRel(<, Nat)
<1>1. IsWellFoundedOn(R, Nat)
  BY NatLessThanWellFounded
<1>2. \A x, y \in Nat : x < y => <<x, y>> \in R
  BY DEF OpToRel
<1> HIDE DEF R
<1>3. PICK m \in T : \A n \in T : ~(<<n, m>> \in R)
  BY <1>1, WFMin
<1>4. \A n \in T : ~(n < m)
  BY <1>2, <1>3, Zenon
<1>5. ASSUME NEW n \in T PROVE m <= n
  <2>1. n \in Nat /\ m \in Nat /\ ~(n < m)
    BY <1>4
  <2> QED BY <2>1
<1> QED BY <1>5

\* Of some natural numbers below a bound there is a largest: counted down, it is the smallest.
LEMMA Largest ==
  ASSUME NEW T, NEW N \in Nat, T \subseteq 0..N, T # {}
  PROVE  \E m \in T : \A n \in T : n <= m
<1> DEFINE U == {n \in Nat : N - n \in T}
<1>1. PICK m \in U : \A n \in U : m <= n
  <2>1. PICK t \in T : t \in 0..N
    OBVIOUS
  <2>2. N - t \in Nat /\ N - (N - t) = t
    BY <2>1
  <2>3. U \subseteq Nat /\ U # {}
    BY <2>1, <2>2
  <2> HIDE DEF U
  <2> QED BY <2>3, Smallest
<1>2. N - m \in T
  BY <1>1
<1>3. ASSUME NEW n \in T PROVE n <= N - m
  <2>1. n \in 0..N
    OBVIOUS
  <2>2. N - n \in Nat /\ N - (N - n) = n
    BY <2>1
  <2>3. N - n \in U
    BY <2>2
  <2> QED BY <1>1, <2>1, <2>3
<1> QED BY <1>2, <1>3

-----------------------------------------------------------------------------
(* Removal of what an install left (RemovalPlan).                          *)

\* The parts of the paths of a plan, and what may become of one.
Parts == {"n", "s", "c", "t"}
Classes ==
    {"RETAIN_DURABLE_DATA", "SEEN", "REFUSED", "RETAIN_OVERLAP", "COVERED_RUNTIME_STATE",
     "BLOCKED_RUNTIME_ACTIVE", "BLOCKED_UNVERIFIED_PATH", "REMOVABLE_RUNTIME_STATE",
     "PLATFORM_MANAGED"}

RootPaths == {<<"n">>, <<"n", "s">>, <<"n", "s", "c">>, <<"n", "t">>}

\* What stands in a sequence over S is of S.
LEMMA ElementsOfSeq == ASSUME NEW S, NEW s \in Seq(S) PROVE \A i \in DOMAIN s : s[i] \in S
OBVIOUS

\* uninstall.py, _is_within: a path lies within another when it starts with all its parts.
LEMMA WithinMeans ==
  ASSUME NEW a \in Seq(Parts), NEW b \in Seq(Parts)
  PROVE  Removal!Within(a, b) <=> Len(b) <= Len(a) /\ \A i \in 1..Len(b) : a[i] = b[i]
<1>1. Removal!Within(a, b) <=> Len(b) <= Len(a) /\ SubSeq(b, 1, Len(b)) = SubSeq(a, 1, Len(b))
  BY DEF Removal!Within, Removal!IsPrefix
<1>2. Len(b) <= Len(a) =>
        (SubSeq(b, 1, Len(b)) = SubSeq(a, 1, Len(b)) <=> \A i \in 1..Len(b) : a[i] = b[i])
  OBVIOUS
<1> QED BY <1>1, <1>2

\* The paths a removal speaks of are sequences of names.
LEMMA RootPathsAreSequences == RootPaths \subseteq Seq(Parts)
<1>1. <<"n">> \in Seq(Parts) /\ <<"n", "s">> \in Seq(Parts)
      /\ <<"n", "s", "c">> \in Seq(Parts) /\ <<"n", "t">> \in Seq(Parts)
  BY DEF Parts
<1> QED BY <1>1 DEF RootPaths

\* uninstall.py, _is_within: lying within is an order, and what lies within two paths orders them.
LEMMA WithinIsAnOrder ==
  ASSUME NEW a \in RootPaths, NEW b \in RootPaths, NEW c \in RootPaths,
         Removal!Within(a, b)
  PROVE  /\ Removal!Within(a, a)
         /\ Removal!Within(b, c) => Removal!Within(a, c)
         /\ Removal!Within(b, a) => a = b
         /\ Removal!Within(a, c) => Removal!Within(b, c) \/ Removal!Within(c, b)
<1> a \in Seq(Parts) /\ b \in Seq(Parts) /\ c \in Seq(Parts)
  BY RootPathsAreSequences
<1>4. Removal!Within(a, a)
  BY WithinMeans
<1>1. Removal!Within(b, c) => Removal!Within(a, c)
  BY WithinMeans
<1>2. Removal!Within(b, a) => a = b
  BY WithinMeans
<1>3. Removal!Within(a, c) => Removal!Within(b, c) \/ Removal!Within(c, b)
  BY WithinMeans
<1> QED BY <1>1, <1>2, <1>3, <1>4

\* What the plan of a removal is at any time: roots and packages are paths, the data comes first
\* and is retained, and what RemovalTakesOnlyItself says holds of entries by their places.
RemovalTyped ==
    /\ v1 \in RootPaths /\ v2 \in [1..4 -> RootPaths] /\ v3 \in Seq(RootPaths)
    /\ v7 \in [roots : Nat, packages : Nat, refused : BOOLEAN]
    /\ v6 \in Seq([path : RootPaths, class : Classes]) /\ Len(v6) > 0
    /\ v6[1] = [path |-> v1, class |-> "RETAIN_DURABLE_DATA"]

PlanStands ==
    \A i \in DOMAIN v6 : v6[i].class = "REMOVABLE_RUNTIME_STATE" =>
          /\ v5 = "STOPPED" /\ ~Removal!Overlap(v6[i].path, v1)
          /\ \A j \in DOMAIN v6 \ {i} :
                /\ Removal!Within(v6[j].path, v6[i].path) =>
                      v6[j].class = "COVERED_RUNTIME_STATE"
                /\ Removal!Within(v6[i].path, v6[j].path) =>
                      \E k \in DOMAIN v6 : /\ v6[k].class = "RETAIN_OVERLAP"
                                           /\ Removal!Within(v1, v6[k].path)
                                           /\ Removal!Within(v6[j].path, v6[k].path)

RemovalInv == RemovalTyped /\ PlanStands

\* uninstall.py: a plan starts with the data, and nothing to remove.
LEMMA RemovalStarts == Removal!Init => RemovalInv
<1> SUFFICES ASSUME Removal!Init PROVE RemovalInv
  OBVIOUS
<1>1. v1 \in RootPaths /\ v2 \in [1..4 -> RootPaths]
  BY DEF Removal!Init, RootPaths
<1>2. <<"n", "t">> \in RootPaths /\ <<"n", "s">> \in RootPaths
  BY DEF RootPaths
<1>3. v3 = <<>> \/ \E p \in RootPaths : v3 = <<p>>
  BY <1>2 DEF Removal!Init
<1>4. v3 \in Seq(RootPaths)
  <2>1. CASE v3 = <<>>
    BY <2>1
  <2>2. ASSUME NEW p \in RootPaths, v3 = <<p>> PROVE v3 \in Seq(RootPaths)
    BY <2>2
  <2> QED BY <2>1, <2>2, <1>3
<1>5. v6 = <<[path |-> v1, class |-> "RETAIN_DURABLE_DATA"]>>
      /\ v7 = [roots |-> 0, packages |-> 0, refused |-> FALSE]
  BY DEF Removal!Init
<1>6. [path |-> v1, class |-> "RETAIN_DURABLE_DATA"] \in [path : RootPaths, class : Classes]
  BY <1>1 DEF Classes
<1>7. /\ v6 \in Seq([path : RootPaths, class : Classes]) /\ Len(v6) = 1
      /\ DOMAIN v6 = {1} /\ v6[1] = [path |-> v1, class |-> "RETAIN_DURABLE_DATA"]
  BY <1>5, <1>6
<1> QED BY <1>1, <1>4, <1>5, <1>7 DEF RemovalInv, RemovalTyped, PlanStands

\* uninstall.py: whatever is entered next, a root that is removable is beside all before it, one
\* that is covered is below what covers it, and one that overlaps the data holds no candidate
\* but together with the data.
LEMMA RemovalEnters ==
  ASSUME RemovalInv, NEW path \in RootPaths, NEW class \in Classes,
         Removal!Enters(path, class), v1' = v1, v2' = v2, v3' = v3, v5' = v5,
         v7' \in [roots : Nat, packages : Nat, refused : BOOLEAN],
         class = "COVERED_RUNTIME_STATE" =>
            /\ \E q \in Removal!Prior : Removal!Within(path, q)
            /\ path \notin Removal!Prior /\ ~Removal!Overlap(path, v1),
         class = "RETAIN_OVERLAP" => Removal!Overlap(path, v1),
         class \notin {"COVERED_RUNTIME_STATE", "RETAIN_OVERLAP"} =>
            \A j \in DOMAIN v6 : ~Removal!Overlap(path, v6[j].path),
         class = "REMOVABLE_RUNTIME_STATE" => v5 = "STOPPED"
  PROVE  RemovalInv'
<1> DEFINE n == Len(v6) + 1
<1>1. /\ v6' \in Seq([path : RootPaths, class : Classes]) /\ Len(v6') = n
      /\ DOMAIN v6' = DOMAIN v6 \cup {n} /\ n \notin DOMAIN v6 /\ 1 \in DOMAIN v6
      /\ \A i \in DOMAIN v6 : v6'[i] = v6[i]
      /\ v6'[n] = [path |-> path, class |-> class]
  BY DEF RemovalInv, RemovalTyped, Removal!Enters
<1>2. v6'[1] = v6[1] /\ v6[1].path = v1 /\ v1 \in RootPaths
  BY <1>1 DEF RemovalInv, RemovalTyped
<1>3. \A i \in DOMAIN v6 : v6[i].path \in RootPaths
  <2>1. v6 \in Seq([path : RootPaths, class : Classes])
    BY DEF RemovalInv, RemovalTyped
  <2>2. \A i \in DOMAIN v6 : v6[i] \in [path : RootPaths, class : Classes]
    BY <2>1, ElementsOfSeq, Zenon
  <2> QED BY <2>2
<1>4. ASSUME NEW i \in DOMAIN v6, v6[i].class = "REMOVABLE_RUNTIME_STATE"
      PROVE  /\ Removal!Within(path, v6[i].path) => class = "COVERED_RUNTIME_STATE"
             /\ Removal!Within(v6[i].path, path) =>
                   \E k \in DOMAIN v6' : /\ v6'[k].class = "RETAIN_OVERLAP"
                                         /\ Removal!Within(v1, v6'[k].path)
                                         /\ Removal!Within(path, v6'[k].path)
  <2>1. ~Removal!Overlap(v6[i].path, v1) /\ i # 1
    BY <1>4 DEF RemovalInv, RemovalTyped, PlanStands
  <2>2. CASE class = "RETAIN_OVERLAP"
    <3>1. Removal!Within(path, v1) \/ Removal!Within(v1, path)
      BY <2>2 DEF Removal!Overlap
    <3>2. ~Removal!Within(path, v6[i].path)
      BY <3>1, <2>1, <1>2, <1>3, WithinIsAnOrder DEF Removal!Overlap
    <3>3. Removal!Within(v6[i].path, path) => Removal!Within(v1, path)
      BY <3>1, <2>1, <1>2, <1>3, WithinIsAnOrder DEF Removal!Overlap
    <3>4. Removal!Within(path, path)
      BY RootPathsAreSequences, WithinMeans
    <3> QED BY <3>2, <3>3, <3>4, <2>2, <1>1
  <2>3. CASE class = "COVERED_RUNTIME_STATE"
    <3>1. PICK j \in DOMAIN v6 : Removal!Within(path, v6[j].path)
      BY <2>3, <1>1 DEF Removal!Prior
    <3>2. path # v6[i].path
      BY <2>1, <2>3, <1>1 DEF Removal!Prior
    <3>3. CASE Removal!Within(v6[i].path, path)
      <4>1. Removal!Within(v6[i].path, v6[j].path) /\ j # i
        BY <3>1, <3>2, <3>3, <1>3, WithinIsAnOrder
      <4>2. PICK k \in DOMAIN v6 : /\ v6[k].class = "RETAIN_OVERLAP"
                                   /\ Removal!Within(v1, v6[k].path)
                                   /\ Removal!Within(v6[j].path, v6[k].path)
        BY <4>1, <1>4 DEF RemovalInv, PlanStands
      <4>3. Removal!Within(path, v6[k].path)
        BY <4>2, <3>1, <1>3, WithinIsAnOrder
      <4> QED BY <4>2, <4>3, <1>1, <2>3
    <3> QED BY <3>3, <2>3
  <2>4. CASE class \notin {"COVERED_RUNTIME_STATE", "RETAIN_OVERLAP"}
    BY <2>4 DEF Removal!Overlap
  <2> QED BY <2>2, <2>3, <2>4
<1>5. ASSUME class = "REMOVABLE_RUNTIME_STATE", NEW j \in DOMAIN v6
      PROVE  ~Removal!Within(path, v6[j].path) /\ ~Removal!Within(v6[j].path, path)
  BY <1>5 DEF Removal!Overlap
<1>6. class = "REMOVABLE_RUNTIME_STATE" => ~Removal!Overlap(path, v1) /\ v5 = "STOPPED"
  BY <1>1, <1>2
<1>7. ASSUME NEW i \in DOMAIN v6', v6'[i].class = "REMOVABLE_RUNTIME_STATE"
      PROVE  /\ v5' = "STOPPED" /\ ~Removal!Overlap(v6'[i].path, v1')
             /\ \A j \in DOMAIN v6' \ {i} :
                /\ Removal!Within(v6'[j].path, v6'[i].path) =>
                      v6'[j].class = "COVERED_RUNTIME_STATE"
                /\ Removal!Within(v6'[i].path, v6'[j].path) =>
                      \E k \in DOMAIN v6' : /\ v6'[k].class = "RETAIN_OVERLAP"
                                            /\ Removal!Within(v1', v6'[k].path)
                                            /\ Removal!Within(v6'[j].path, v6'[k].path)
  <2>1. CASE i = n
    BY <2>1, <1>7, <1>5, <1>6, <1>1
  <2>2. CASE i \in DOMAIN v6
    <3>1. v5 = "STOPPED" /\ ~Removal!Overlap(v6[i].path, v1)
      BY <2>2, <1>7, <1>1 DEF RemovalInv, PlanStands
    <3>2. ASSUME NEW j \in DOMAIN v6 \ {i}
          PROVE  /\ Removal!Within(v6[j].path, v6[i].path) =>
                      v6[j].class = "COVERED_RUNTIME_STATE"
                 /\ Removal!Within(v6[i].path, v6[j].path) =>
                      \E k \in DOMAIN v6 : /\ v6[k].class = "RETAIN_OVERLAP"
                                           /\ Removal!Within(v1, v6[k].path)
                                           /\ Removal!Within(v6[j].path, v6[k].path)
      BY <2>2, <1>7, <1>1 DEF RemovalInv, PlanStands
    <3> QED BY <3>1, <3>2, <2>2, <1>1, <1>4, <1>7
  <2> QED BY <2>1, <2>2, <1>1
<1>8. v1' \in RootPaths /\ v2' \in [1..4 -> RootPaths] /\ v3' \in Seq(RootPaths)
  BY DEF RemovalInv, RemovalTyped
<1>9. v6'[1] = [path |-> v1', class |-> "RETAIN_DURABLE_DATA"] /\ Len(v6') > 0
  BY <1>1, <1>2 DEF RemovalInv, RemovalTyped
<1> QED BY <1>1, <1>7, <1>8, <1>9 DEF RemovalInv, RemovalTyped, PlanStands

\* uninstall.py: a step of the plan enters a root or a package with the class it has then.
LEMMA RemovalKeepsItsPlan == RemovalInv /\ [Removal!Next]_(Removal!vars) => RemovalInv'
<1> SUFFICES ASSUME RemovalInv, [Removal!Next]_(Removal!vars) PROVE RemovalInv'
  OBVIOUS
<1>1. CASE UNCHANGED Removal!vars
  BY <1>1 DEF RemovalInv, RemovalTyped, PlanStands, Removal!vars
<1>2. CASE Removal!PlanRoot
  <2> DEFINE path == v2[v7.roots + 1]
  <2>1. path \in RootPaths /\ UNCHANGED <<v1, v2, v3, v4, v5>>
    BY <1>2 DEF RemovalInv, RemovalTyped, Removal!PlanRoot
  <2>2. v7' \in [roots : Nat, packages : Nat, refused : BOOLEAN]
    <3>1. v7' = [v7 EXCEPT !.refused = TRUE] \/ v7' = [v7 EXCEPT !.roots = @ + 1]
      BY <1>2 DEF Removal!PlanRoot
    <3>2. v7 \in [roots : Nat, packages : Nat, refused : BOOLEAN]
      BY DEF RemovalInv, RemovalTyped
    <3>3. v7' = [v7 EXCEPT !.refused = TRUE] =>
            v7' \in [roots : Nat, packages : Nat, refused : BOOLEAN]
      BY <3>2
    <3>4. v7' = [v7 EXCEPT !.roots = @ + 1] =>
            v7' \in [roots : Nat, packages : Nat, refused : BOOLEAN]
      BY <3>2
    <3> QED BY <3>1, <3>3, <3>4
  <2>3. CASE UNCHANGED v6
    BY <2>1, <2>2, <2>3 DEF RemovalInv, RemovalTyped, PlanStands
  <2>4. CASE Removal!Class(path) \notin {"SEEN", "REFUSED"}
                /\ Removal!Enters(path, Removal!Class(path))
    <3> DEFINE class == Removal!Class(path)
    <3>1. class \in Classes
      BY DEF Removal!Class, Classes
    <3>2. class # "SEEN" /\ class # "REFUSED"
      BY <2>4
    <3>3. path # v1 /\ path \notin Removal!Prior
      BY <3>2 DEF Removal!Class
    <3>4. class = "COVERED_RUNTIME_STATE" =>
            (\E q \in Removal!Prior : Removal!Within(path, q)) /\ ~Removal!Overlap(path, v1)
      BY DEF Removal!Class
    <3>5. class = "RETAIN_OVERLAP" => Removal!Overlap(path, v1)
      BY DEF Removal!Class
    <3>6. class = "REMOVABLE_RUNTIME_STATE" => v5 = "STOPPED"
      BY DEF Removal!Class
    <3>7. ASSUME class \notin {"COVERED_RUNTIME_STATE", "RETAIN_OVERLAP"}
          PROVE  \A j \in DOMAIN v6 : ~Removal!Overlap(path, v6[j].path)
      <4>1. ~Removal!Overlap(path, v1)
        BY <3>2, <3>3, <3>7 DEF Removal!Class
      <4>2. \A p \in Removal!Prior : ~Removal!Within(path, p) /\ ~Removal!Within(p, path)
        BY <3>2, <3>3, <3>7 DEF Removal!Class
      <4>3. \A j \in DOMAIN v6 : j = 1 \/ v6[j].path \in Removal!Prior
        BY DEF RemovalInv, RemovalTyped, Removal!Prior
      <4>4. v6[1].path = v1
        BY DEF RemovalInv, RemovalTyped
      <4> QED BY <4>1, <4>2, <4>3, <4>4 DEF Removal!Overlap
    <3>8. Removal!Enters(path, class)
      BY <2>4
    <3> HIDE DEF class, path
    <3> QED BY <2>1, <2>2, <3>1, <3>3, <3>4, <3>5, <3>6, <3>7, <3>8, RemovalEnters
  <2> QED BY <1>2, <2>3, <2>4 DEF Removal!PlanRoot
<1>3. CASE Removal!PlanPackage
  <2> DEFINE path == v3[v7.packages + 1]
  <2>1. path \in RootPaths /\ UNCHANGED <<v1, v2, v3, v4, v5>>
    BY <1>3 DEF RemovalInv, RemovalTyped, Removal!PlanPackage
  <2>2. v7' \in [roots : Nat, packages : Nat, refused : BOOLEAN]
    <3>1. v7' = [v7 EXCEPT !.refused = TRUE] \/ v7' = [v7 EXCEPT !.packages = @ + 1]
      BY <1>3 DEF Removal!PlanPackage
    <3>2. v7 \in [roots : Nat, packages : Nat, refused : BOOLEAN]
      BY DEF RemovalInv, RemovalTyped
    <3>3. v7' = [v7 EXCEPT !.refused = TRUE] =>
            v7' \in [roots : Nat, packages : Nat, refused : BOOLEAN]
      BY <3>2
    <3>4. v7' = [v7 EXCEPT !.packages = @ + 1] =>
            v7' \in [roots : Nat, packages : Nat, refused : BOOLEAN]
      BY <3>2
    <3> QED BY <3>1, <3>3, <3>4
  <2>3. CASE UNCHANGED v6
    BY <2>1, <2>2, <2>3 DEF RemovalInv, RemovalTyped, PlanStands
  <2>4. CASE Removal!Managed(path) # "REFUSED"
                /\ Removal!Enters(path, Removal!Managed(path))
    <3> DEFINE class == Removal!Managed(path)
    <3>1. class \in {"BLOCKED_UNVERIFIED_PATH", "PLATFORM_MANAGED"}
      BY <2>4 DEF Removal!Managed
    <3>2. \A j \in DOMAIN v6 : ~Removal!Overlap(path, v6[j].path)
      BY <2>4 DEF Removal!Managed
    <3>3. Removal!Enters(path, class)
      BY <2>4
    <3> HIDE DEF class, path
    <3>4. class \in Classes
      BY <3>1 DEF Classes
    <3> QED BY <2>1, <2>2, <3>1, <3>2, <3>3, <3>4, RemovalEnters
  <2> QED BY <1>3, <2>3, <2>4 DEF Removal!PlanPackage
<1> QED BY <1>1, <1>2, <1>3 DEF Removal!Next

\* uninstall.py: the plan by its places says what RemovalTakesOnlyItself says of its entries.
LEMMA RemovalIsSafe == RemovalInv => Removal!RemovalTakesOnlyItself
BY DEF RemovalInv, PlanStands, Removal!RemovalTakesOnlyItself, Removal!Removable, Removal!Planned

-----------------------------------------------------------------------------
(* The first profile (ProfileBootstrap).                                   *)

BootStages == {"idle", "wants", "asks", "holds", "creates", "fills", "releases", "ended"}
BootAnswers ==
    [state : {"NONE", "RECOVERY_REQUIRED", "SELECTED_EXISTING", "REFUSED", "NEEDS_SELECTION",
              "NEEDS_CREATION", "BOOTSTRAP_BUSY", "RAISED", "CREATED"},
     selected : Launches \cup {Nobody}]
Whole(answer) == answer.selected # Nobody => v2[answer.selected] = "whole"

\* How launches stand while the first profile is made, whatever the lease does: one that looks
\* again, makes a directory or fills it was told it has the lease, and is in no call of it; the
\* directory is its own; and what a launch has to tell, or was told, is whole.
BootTyped ==
    /\ v1 \in [Launches -> BootStages]
    /\ v2 \in [Launches -> {"none", "partial", "whole"}]
    /\ v3 \in [Launches -> BootAnswers] /\ v4 \in [Launches -> BootAnswers]
    /\ DOMAIN at = Launches /\ at = [l \in Launches |-> at[l]]
MakersHold ==
    \A l \in Launches : l \notin dead /\ v1[l] \in {"holds", "creates", "fills"} =>
        at[l].holds # Missing /\ at[l].pc = "idle"
OwnDirectory ==
    \A l \in Launches : /\ v1[l] = "creates" => v2[l] = "none"
                        /\ v1[l] = "fills" => v2[l] = "partial"
AnswersAreWhole == \A l \in Launches : Whole(v3[l]) /\ Whole(v4[l])
BootInv == BootTyped /\ MakersHold /\ OwnDirectory /\ AnswersAreWhole

\* And as long as the lease has one holder: there is one directory at most, and none while a
\* launch is about to make one.
OneDirectory ==
    \A l, m \in Launches : v2[l] # "none" /\ v2[m] # "none" => l = m
NothingYet ==
    \A l, m \in Launches : l \notin dead /\ v1[l] = "creates" => v2[m] = "none"
OneMaker == OneDirectory /\ NothingYet

\* How many launches made a directory is counted alike here and in ProfileBootstrap.
LEMMA CountedAlike == ASSUME NEW S PROVE Bootstrap!Cardinality(S) = Cardinality(S)
BY DEF Cardinality, Bootstrap!Cardinality

\* instance.py: a step of a call of the lease is its launch's, who is alive and in the call, and
\* moves nobody else.
LEMMA LeaseMovesOne ==
  ASSUME NEW l \in Launches, Bootstrap!Step(l)
  PROVE  /\ l \notin dead /\ at[l].pc # "idle" /\ dead' = dead
         /\ \E me : at' = [at EXCEPT ![l] = me]
<1> DEFINE Moves == /\ l \notin dead /\ at[l].pc # "idle" /\ dead' = dead
                    /\ \E me : at' = [at EXCEPT ![l] = me]
<1> USE DEF Bootstrap!At, Bootstrap!Become, Bootstrap!Goto, Bootstrap!Return, Bootstrap!Raise,
            Bootstrap!Continue, Bootstrap!Conclude, Bootstrap!Finish
<1>1. ASSUME Bootstrap!Read_marker(l) PROVE Moves
  BY <1>1 DEF Bootstrap!Read_marker
<1>2. ASSUME Bootstrap!Probe_taker(l) PROVE Moves
  BY <1>2 DEF Bootstrap!Probe_taker
<1>3. ASSUME Bootstrap!Inspect(l) PROVE Moves
  BY <1>3 DEF Bootstrap!Inspect
<1>4. ASSUME Bootstrap!Probe_owner(l) PROVE Moves
  BY <1>4 DEF Bootstrap!Probe_owner, Bootstrap!Verdicts
<1>5. ASSUME Bootstrap!Claim(l) PROVE Moves
  BY <1>5 DEF Bootstrap!Claim
<1>6. ASSUME Bootstrap!Fill_marker(l) PROVE Moves
  BY <1>6 DEF Bootstrap!Fill_marker
<1>7. ASSUME Bootstrap!Create(l) PROVE Moves
  BY <1>7 DEF Bootstrap!Create
<1>8. ASSUME Bootstrap!Fill_lease(l) PROVE Moves
  BY <1>8 DEF Bootstrap!Fill_lease
<1>9. ASSUME Bootstrap!Complete(l) PROVE Moves
  BY <1>9 DEF Bootstrap!Complete
<1>10. ASSUME Bootstrap!Reprobe(l) PROVE Moves
  BY <1>10 DEF Bootstrap!Reprobe, Bootstrap!Verdicts
<1>11. ASSUME Bootstrap!Archive(l) PROVE Moves
  BY <1>11 DEF Bootstrap!Archive
<1>12. ASSUME Bootstrap!Fill_archive(l) PROVE Moves
  BY <1>12 DEF Bootstrap!Fill_archive
<1>13. ASSUME Bootstrap!Confirm(l) PROVE Moves
  BY <1>13 DEF Bootstrap!Confirm
<1>14. ASSUME Bootstrap!Unlink_lease(l) PROVE Moves
  BY <1>14 DEF Bootstrap!Unlink_lease
<1>15. ASSUME Bootstrap!Check_marker(l) PROVE Moves
  BY <1>15 DEF Bootstrap!Check_marker
<1>16. ASSUME Bootstrap!Unlink_marker(l) PROVE Moves
  BY <1>16 DEF Bootstrap!Unlink_marker
<1>17. ASSUME Bootstrap!Release_inspect(l) PROVE Moves
  BY <1>17 DEF Bootstrap!Release_inspect
<1>18. ASSUME Bootstrap!Release_marker(l) PROVE Moves
  BY <1>18 DEF Bootstrap!Release_marker
<1>19. ASSUME Bootstrap!Release_unlink(l) PROVE Moves
  BY <1>19 DEF Bootstrap!Release_unlink
<1> HIDE DEF Moves
<1>20. Moves
  BY <1>1, <1>2, <1>3, <1>4, <1>5, <1>6, <1>7, <1>8, <1>9, <1>10, <1>11, <1>12, <1>13, <1>14,
     <1>15, <1>16, <1>17, <1>18, <1>19 DEF Bootstrap!Step
<1> QED BY <1>20 DEF Moves

\* profiles.py, _existing_resolution: what the catalog answers is whole or nothing, and it
\* has no answer only when there is no directory at all.
LEMMA ExistingIsWhole ==
  ASSUME BootTyped, NEW selected \in {Nobody} \cup {p \in Launches : v2[p] = "whole"}
  PROVE  LET answer == Bootstrap!Existing(Bootstrap!Discover, selected) IN
         /\ answer \in BootAnswers /\ Whole(answer)
         /\ answer = Bootstrap!Unanswered => \A l \in Launches : v2[l] = "none"
<1> DEFINE found == Bootstrap!Discover.profiles
           broken == Bootstrap!Discover.issues
           answer == Bootstrap!Existing(Bootstrap!Discover, selected)
           A(state, p) == [state |-> state, selected |-> p]
<1>1. answer =
        IF broken # {} THEN A("RECOVERY_REQUIRED", Nobody)
        ELSE IF selected # Nobody THEN
            IF selected \in found THEN A("SELECTED_EXISTING", selected) ELSE A("REFUSED", Nobody)
        ELSE IF Bootstrap!Cardinality(found) = 1
             THEN A("SELECTED_EXISTING", CHOOSE p \in found : TRUE)
        ELSE IF found # {} THEN A("NEEDS_SELECTION", Nobody)
        ELSE A("NONE", Nobody)
  BY DEF Bootstrap!Existing, Bootstrap!Answer, Bootstrap!Unanswered
<1>0. /\ found = {l \in Launches : v2[l] = "whole"}
      /\ broken = {l \in Launches : v2[l] = "partial"}
  BY DEF Bootstrap!Discover
<1>2. Bootstrap!Cardinality(found) = 1 => (CHOOSE p \in found : TRUE) \in found
  <2>1. Cardinality({}) = 0
    BY FS_EmptySet
  <2> QED BY <2>1, CountedAlike
<1>3. broken = {} /\ found = {} => \A l \in Launches : v2[l] = "none"
  BY <1>0 DEF BootTyped
<1>4. Bootstrap!Unanswered = A("NONE", Nobody)
  BY DEF Bootstrap!Unanswered
<1>5. selected \in found \/ selected = Nobody
  BY <1>0
<1>6. \A p \in found : A("SELECTED_EXISTING", p) \in BootAnswers
                       /\ Whole(A("SELECTED_EXISTING", p))
  BY <1>0 DEF BootAnswers, Whole
<1>7. \A s \in {"NONE", "RECOVERY_REQUIRED", "REFUSED", "NEEDS_SELECTION"} :
         A(s, Nobody) \in BootAnswers /\ Whole(A(s, Nobody))
  BY DEF BootAnswers, Whole
<1>8. \A s, p : A(s, p) = A("NONE", Nobody) => s = "NONE"
  OBVIOUS
<1> HIDE DEF found, broken, A
<1>9. answer \in BootAnswers /\ Whole(answer)
  BY <1>1, <1>2, <1>5, <1>6, <1>7
<1>10. answer = A("NONE", Nobody) => broken = {} /\ found = {}
  BY <1>1, <1>8
<1> QED BY <1>3, <1>4, <1>9, <1>10

\* profiles.py: before the first launch there is no answer, and one directory at most.
LEMMA BootStarts == Bootstrap!BootstrapInit => BootInv /\ OneMaker
<1> SUFFICES ASSUME Bootstrap!BootstrapInit PROVE BootInv /\ OneMaker
  OBVIOUS
<1> USE LaunchesAreSomebody
<1>1. Bootstrap!Unanswered \in BootAnswers /\ Bootstrap!Unanswered.selected = Nobody
  BY DEF Bootstrap!Unanswered, BootAnswers
<1>2. BootTyped
  BY <1>1 DEF Bootstrap!BootstrapInit, Bootstrap!Init, BootTyped, BootStages
<1>3. OneMaker
  BY DEF Bootstrap!BootstrapInit, OneMaker, OneDirectory, NothingYet
<1>4. MakersHold /\ OwnDirectory
  BY DEF Bootstrap!BootstrapInit, MakersHold, OwnDirectory
<1>5. AnswersAreWhole
  BY <1>1 DEF Bootstrap!BootstrapInit, AnswersAreWhole, Whole
<1> QED BY <1>2, <1>3, <1>4, <1>5 DEF BootInv

\* What a step of a launch leaves alone: whether the others live, and where they are.
MovesOnly(l) ==
    /\ dead' \in {dead, dead \cup {l}}
    /\ at' = at \/ \E me : at' = [at EXCEPT ![l] = me]

\* profiles.py and instance.py: one launch at a time takes a step of its own.
LEMMA EachMovesItself ==
  ASSUME NEW l \in Launches,
         \/ Bootstrap!Ask(l) \/ Bootstrap!LeaseStep(l) \/ Bootstrap!Look(l) \/ Bootstrap!Make(l)
         \/ Bootstrap!Fill(l) \/ Bootstrap!End(l) \/ Bootstrap!Die(l)
  PROVE  MovesOnly(l)
<1> USE DEF Bootstrap!Become, Bootstrap!Goto, Bootstrap!Release, Bootstrap!Releases
<1>1. ASSUME Bootstrap!Ask(l) PROVE MovesOnly(l)
  BY <1>1 DEF Bootstrap!Ask, Bootstrap!Acquire, MovesOnly
<1>2. ASSUME Bootstrap!LeaseStep(l) PROVE MovesOnly(l)
  BY <1>2, LeaseMovesOne DEF Bootstrap!LeaseStep, MovesOnly
<1>3. ASSUME Bootstrap!Look(l) PROVE MovesOnly(l)
  BY <1>3 DEF Bootstrap!Look, Bootstrap!vars, MovesOnly
<1>4. ASSUME Bootstrap!Make(l) PROVE MovesOnly(l)
  BY <1>4 DEF Bootstrap!Make, Bootstrap!vars, MovesOnly
<1>5. ASSUME Bootstrap!Fill(l) PROVE MovesOnly(l)
  BY <1>5 DEF Bootstrap!Fill, Bootstrap!vars, MovesOnly
<1>6. ASSUME Bootstrap!End(l) PROVE MovesOnly(l)
  BY <1>6 DEF Bootstrap!End, Bootstrap!Exit, MovesOnly
<1>7. ASSUME Bootstrap!Die(l) PROVE MovesOnly(l)
  BY <1>7 DEF Bootstrap!Die, Bootstrap!Crash, MovesOnly
<1> QED BY <1>1, <1>2, <1>3, <1>4, <1>5, <1>6, <1>7

\* What a launch was told of its lease stays so while the others take their steps.
LEMMA OthersStand ==
  ASSUME BootTyped, MakersHold, NEW l \in Launches, MovesOnly(l),
         NEW to \in BootStages, v1' \in {v1, [v1 EXCEPT ![l] = to]}
  PROVE  /\ DOMAIN at' = Launches /\ at' = [q \in Launches |-> at'[q]]
         /\ \A q \in Launches \ {l} :
               q \notin dead' /\ v1'[q] \in {"holds", "creates", "fills"} =>
                   at'[q].holds # Missing /\ at'[q].pc = "idle"
<1>1. DOMAIN at' = Launches /\ at' = [q \in Launches |-> at'[q]]
  <2>1. CASE at' = at
    BY <2>1 DEF BootTyped
  <2>2. ASSUME NEW me, at' = [at EXCEPT ![l] = me]
        PROVE  DOMAIN at' = Launches /\ at' = [q \in Launches |-> at'[q]]
    BY <2>2 DEF BootTyped
  <2> QED BY <2>1, <2>2 DEF MovesOnly
<1>2. ASSUME NEW q \in Launches, q # l PROVE at'[q] = at[q] /\ v1'[q] = v1[q]
  BY <1>2 DEF BootTyped, MovesOnly
<1>3. \A q \in Launches : q \notin dead' => q \notin dead
  BY DEF MovesOnly
<1> QED BY <1>1, <1>2, <1>3 DEF MakersHold

\* profiles.py, resolve: what the catalog answers is told, or the lease is wanted.
LEMMA ResolveTells ==
  ASSUME BootTyped, NEW l \in Launches, Bootstrap!Resolve(l)
  PROVE  /\ UNCHANGED <<v2, v3, dead, at>> /\ v1[l] = "idle"
         /\ \/ v1' = [v1 EXCEPT ![l] = "wants"] /\ v4' = v4
            \/ /\ v1' = [v1 EXCEPT ![l] = "ended"]
               /\ \E answer \in BootAnswers : v4' = [v4 EXCEPT ![l] = answer] /\ Whole(answer)
<1> USE LaunchesAreSomebody DEF Bootstrap!Goes, Bootstrap!Tells
<1>1. PICK selected \in {Nobody} \cup {p \in Launches : v2[p] = "whole"}, named \in BOOLEAN :
        LET existing == Bootstrap!Existing(Bootstrap!Discover, selected) IN
        IF existing # Bootstrap!Unanswered THEN Bootstrap!Tells(l, existing)
        ELSE IF ~named THEN Bootstrap!Tells(l, Bootstrap!Answer("NEEDS_CREATION", Nobody))
        ELSE Bootstrap!Goes(l, "wants") /\ UNCHANGED v4
  BY DEF Bootstrap!Resolve
<1>2. /\ Bootstrap!Existing(Bootstrap!Discover, selected) \in BootAnswers
      /\ Whole(Bootstrap!Existing(Bootstrap!Discover, selected))
  BY ExistingIsWhole
<1>3. Bootstrap!Answer("NEEDS_CREATION", Nobody) \in BootAnswers
      /\ Whole(Bootstrap!Answer("NEEDS_CREATION", Nobody))
  BY DEF Bootstrap!Answer, BootAnswers, Whole
<1>4. UNCHANGED <<v2, v3, dead, at>> /\ v1[l] = "idle"
  BY DEF Bootstrap!Resolve, Bootstrap!Is, Bootstrap!vars
<1> QED BY <1>1, <1>2, <1>3, <1>4

\* profiles.py, resolve: what acquire answered is ownership, or is told.
LEMMA AskedTells ==
  ASSUME BootTyped, NEW l \in Launches, Bootstrap!Asked(l)
  PROVE  /\ UNCHANGED <<v2, v3, dead, at>> /\ v1[l] = "asks"
         /\ \/ /\ v1' = [v1 EXCEPT ![l] = "holds"] /\ v4' = v4
               /\ at[l].holds # Missing /\ at[l].pc = "idle"
            \/ /\ v1' = [v1 EXCEPT ![l] = "ended"]
               /\ \E answer \in BootAnswers : v4' = [v4 EXCEPT ![l] = answer] /\ Whole(answer)
<1>1. ASSUME NEW outcome
      PROVE  Bootstrap!Refusal(outcome) \in BootAnswers /\ Whole(Bootstrap!Refusal(outcome))
  <2>1. \E state \in {"BOOTSTRAP_BUSY", "RECOVERY_REQUIRED", "RAISED"} :
           Bootstrap!Refusal(outcome) = [state |-> state, selected |-> Nobody]
    BY DEF Bootstrap!Refusal, Bootstrap!Answer
  <2> QED BY <2>1 DEF BootAnswers, Whole
<1>2. /\ UNCHANGED <<v2, v3, dead, at>> /\ v1[l] = "asks" /\ at[l].pc = "idle"
      /\ \/ v1' = [v1 EXCEPT ![l] = "holds"] /\ v4' = v4 /\ at[l].holds # Missing
         \/ /\ v1' = [v1 EXCEPT ![l] = "ended"]
            /\ v4' = [v4 EXCEPT ![l] = Bootstrap!Refusal(at[l].outcome)]
  BY DEF Bootstrap!Asked, Bootstrap!Is, Bootstrap!vars, Bootstrap!Goes, Bootstrap!Tells
<1> QED BY <1>1, <1>2

\* profiles.py, resolve: the second look finds nothing, or what it found is to be told.
LEMMA LookSees ==
  ASSUME BootTyped, NEW l \in Launches, Bootstrap!Look(l)
  PROVE  /\ UNCHANGED <<v2, v4, dead>> /\ v1[l] = "holds"
         /\ \/ /\ v1' = [v1 EXCEPT ![l] = "releases"]
               /\ \E answer \in BootAnswers : v3' = [v3 EXCEPT ![l] = answer] /\ Whole(answer)
            \/ /\ v1' = [v1 EXCEPT ![l] = "creates"] /\ UNCHANGED <<v3, at>>
               /\ \A m \in Launches : v2[m] = "none"
<1> DEFINE seen == Bootstrap!Recheck(l)
<1>1. /\ seen \in BootAnswers /\ Whole(seen)
      /\ seen = Bootstrap!Unanswered => \A m \in Launches : v2[m] = "none"
  BY ExistingIsWhole DEF Bootstrap!Recheck
<1> HIDE DEF seen
<1>2. /\ UNCHANGED <<v2, v4, dead>> /\ v1[l] = "holds"
      /\ \/ v1' = [v1 EXCEPT ![l] = "releases"] /\ v3' = [v3 EXCEPT ![l] = seen]
         \/ /\ v1' = [v1 EXCEPT ![l] = "creates"] /\ UNCHANGED <<v3, at>>
            /\ seen = Bootstrap!Unanswered
  BY DEF seen, Bootstrap!Look, Bootstrap!Is, Bootstrap!vars, Bootstrap!Goes, Bootstrap!Releases,
         Bootstrap!Release
<1> QED BY <1>1, <1>2

\* profiles.py and lineage.py: a directory is made, or the failure is to be told.
LEMMA MakeMakes ==
  ASSUME BootTyped, NEW l \in Launches, Bootstrap!Make(l)
  PROVE  /\ UNCHANGED <<v4, dead>> /\ l \notin dead /\ v1[l] = "creates"
         /\ \/ /\ v1' = [v1 EXCEPT ![l] = "fills"] /\ v2' = [v2 EXCEPT ![l] = "partial"]
               /\ UNCHANGED <<v3, at>>
            \/ /\ v1' = [v1 EXCEPT ![l] = "releases"] /\ v2' = v2
               /\ \E answer \in BootAnswers : v3' = [v3 EXCEPT ![l] = answer] /\ Whole(answer)
<1>1. Bootstrap!Answer("RECOVERY_REQUIRED", Nobody) \in BootAnswers
      /\ Whole(Bootstrap!Answer("RECOVERY_REQUIRED", Nobody))
  BY DEF Bootstrap!Answer, BootAnswers, Whole
<1>2. /\ UNCHANGED <<v4, dead>> /\ l \notin dead /\ v1[l] = "creates"
      /\ \/ /\ v1' = [v1 EXCEPT ![l] = "fills"] /\ v2' = [v2 EXCEPT ![l] = "partial"]
            /\ UNCHANGED <<v3, at>>
         \/ /\ v1' = [v1 EXCEPT ![l] = "releases"] /\ v2' = v2
            /\ v3' = [v3 EXCEPT ![l] = Bootstrap!Answer("RECOVERY_REQUIRED", Nobody)]
  BY DEF Bootstrap!Make, Bootstrap!Is, Bootstrap!vars, Bootstrap!Goes, Bootstrap!Releases,
         Bootstrap!Release
<1> QED BY <1>1, <1>2

\* profiles.py and lineage.py: the database is made in it, or the failure is to be told.
LEMMA FillFills ==
  ASSUME BootTyped, NEW l \in Launches, Bootstrap!Fill(l)
  PROVE  /\ UNCHANGED <<v4, dead>> /\ v1[l] = "fills" /\ v1' = [v1 EXCEPT ![l] = "releases"]
         /\ \E answer \in BootAnswers :
               /\ v3' = [v3 EXCEPT ![l] = answer]
               /\ \/ v2' = v2 /\ answer.selected = Nobody
                  \/ v2' = [v2 EXCEPT ![l] = "whole"] /\ answer.selected = l
<1>1. \A state \in {"CREATED", "RECOVERY_REQUIRED"}, p \in {Nobody, l} :
        Bootstrap!Answer(state, p) \in BootAnswers /\ Bootstrap!Answer(state, p).selected = p
  BY DEF Bootstrap!Answer, BootAnswers
<1>2. /\ UNCHANGED <<v4, dead>> /\ v1[l] = "fills" /\ v1' = [v1 EXCEPT ![l] = "releases"]
      /\ \/ v2' = v2 /\ v3' = [v3 EXCEPT ![l] = Bootstrap!Answer("RECOVERY_REQUIRED", Nobody)]
         \/ \E state \in {"CREATED", "RECOVERY_REQUIRED"} :
               /\ v2' = [v2 EXCEPT ![l] = "whole"]
               /\ v3' = [v3 EXCEPT ![l] = Bootstrap!Answer(state, l)]
  BY DEF Bootstrap!Fill, Bootstrap!Is, Bootstrap!vars, Bootstrap!Goes, Bootstrap!Releases,
         Bootstrap!Release
<1> QED BY <1>1, <1>2

\* profiles.py, resolve: what there is to tell is told, if only as a recovery.
LEMMA ReleasedTells ==
  ASSUME BootTyped, NEW l \in Launches, Bootstrap!Released(l)
  PROVE  /\ UNCHANGED <<v2, v3, dead, at>> /\ v1[l] = "releases"
         /\ v1' = [v1 EXCEPT ![l] = "ended"]
         /\ \E answer \in BootAnswers :
               v4' = [v4 EXCEPT ![l] = answer] /\ answer.selected = v3[l].selected
<1>1. v3[l] \in BootAnswers
  BY DEF BootTyped
<1>2. [v3[l] EXCEPT !.state = "RECOVERY_REQUIRED"] \in BootAnswers
      /\ [v3[l] EXCEPT !.state = "RECOVERY_REQUIRED"].selected = v3[l].selected
  BY <1>1 DEF BootAnswers
<1>3. /\ UNCHANGED <<v2, v3, dead, at>> /\ v1[l] = "releases"
      /\ v1' = [v1 EXCEPT ![l] = "ended"]
      /\ v4' \in {[v4 EXCEPT ![l] = v3[l]],
                  [v4 EXCEPT ![l] = [v3[l] EXCEPT !.state = "RECOVERY_REQUIRED"]]}
  BY DEF Bootstrap!Released, Bootstrap!Is, Bootstrap!vars, Bootstrap!Tells, Bootstrap!Goes
<1> QED BY <1>1, <1>2, <1>3

\* profiles.py: every step of a launch keeps this, with no regard to who else holds the lease:
\* a directory is filled by the launch that made it, and what is whole stays.
LEMMA BootKeeps == BootInv /\ [Bootstrap!BootstrapNext]_(Bootstrap!bootstrapVars) => BootInv'
<1> SUFFICES ASSUME BootInv, [Bootstrap!BootstrapNext]_(Bootstrap!bootstrapVars) PROVE BootInv'
  OBVIOUS
<1> USE LaunchesAreSomebody DEF BootInv
<1>0. \A a \in BootAnswers : a.selected # Nobody => a.selected \in Launches
  BY DEF BootAnswers
<1>1. ASSUME UNCHANGED <<v1, v2, v3, v4, dead, at>> PROVE BootInv'
  BY <1>1 DEF BootTyped, MakersHold, OwnDirectory, AnswersAreWhole, Whole
<1>2. ASSUME NEW l \in Launches, UNCHANGED <<v2, v3, dead, at>>, v1[l] \in BootStages,
             NEW to \in {"wants", "holds", "ended"}, v1' = [v1 EXCEPT ![l] = to],
             to = "holds" => at[l].holds # Missing /\ at[l].pc = "idle",
             \/ v4' = v4
             \/ \E answer \in BootAnswers : v4' = [v4 EXCEPT ![l] = answer] /\ Whole(answer)
      PROVE  BootInv'
  <2>1. BootTyped'
    BY <1>2 DEF BootTyped, BootStages
  <2>2. MakersHold' /\ OwnDirectory'
    BY <1>2 DEF BootTyped, MakersHold, OwnDirectory
  <2>3. AnswersAreWhole'
    BY <1>2 DEF BootTyped, AnswersAreWhole, Whole
  <2> QED BY <2>1, <2>2, <2>3
<1>3. ASSUME NEW l \in Launches, Bootstrap!Resolve(l) PROVE BootInv'
  BY <1>2, <1>3, ResolveTells DEF BootStages
<1>4. ASSUME NEW l \in Launches, Bootstrap!Ask(l) PROVE BootInv'
  <2>1. UNCHANGED <<v2, v3, v4>> /\ v1' = [v1 EXCEPT ![l] = "asks"] /\ MovesOnly(l)
    BY <1>4, EachMovesItself DEF Bootstrap!Ask, Bootstrap!Goes
  <2>2. /\ DOMAIN at' = Launches /\ at' = [q \in Launches |-> at'[q]]
        /\ \A q \in Launches \ {l} :
              q \notin dead' /\ v1'[q] \in {"holds", "creates", "fills"} =>
                  at'[q].holds # Missing /\ at'[q].pc = "idle"
    BY <2>1, OthersStand DEF BootStages
  <2>3. BootTyped'
    BY <2>1, <2>2 DEF BootTyped, BootStages
  <2>4. MakersHold' /\ OwnDirectory'
    BY <2>1, <2>2 DEF BootTyped, MakersHold, OwnDirectory
  <2>5. AnswersAreWhole'
    BY <2>1 DEF AnswersAreWhole, Whole
  <2> QED BY <2>3, <2>4, <2>5
<1>5. ASSUME NEW l \in Launches,
             Bootstrap!LeaseStep(l) \/ Bootstrap!End(l) \/ Bootstrap!Die(l)
      PROVE  BootInv'
  <2>1. UNCHANGED <<v1, v2, v3, v4>> /\ MovesOnly(l)
    BY <1>5, EachMovesItself DEF Bootstrap!LeaseStep, Bootstrap!End, Bootstrap!Die
  <2>2. l \notin dead' => v1[l] \notin {"holds", "creates", "fills"}
    <3>1. ASSUME Bootstrap!LeaseStep(l) PROVE l \notin dead /\ at[l].pc # "idle"
      BY <3>1, LeaseMovesOne DEF Bootstrap!LeaseStep
    <3>2. ASSUME Bootstrap!End(l) \/ Bootstrap!Die(l) PROVE l \in dead'
      BY <3>2 DEF Bootstrap!End, Bootstrap!Die, Bootstrap!Exit, Bootstrap!Crash
    <3> QED BY <1>5, <3>1, <3>2 DEF MakersHold
  <2>3. v1[l] \in BootStages
    BY DEF BootTyped
  <2>4. /\ DOMAIN at' = Launches /\ at' = [q \in Launches |-> at'[q]]
        /\ \A q \in Launches \ {l} :
              q \notin dead' /\ v1'[q] \in {"holds", "creates", "fills"} =>
                  at'[q].holds # Missing /\ at'[q].pc = "idle"
    BY <2>1, <2>3, OthersStand
  <2>5. BootTyped' /\ OwnDirectory' /\ AnswersAreWhole'
    BY <2>1, <2>4 DEF BootTyped, OwnDirectory, AnswersAreWhole, Whole
  <2>6. MakersHold'
    BY <2>1, <2>2, <2>4 DEF MakersHold
  <2> QED BY <2>5, <2>6
<1>6. ASSUME NEW l \in Launches, Bootstrap!Asked(l) PROVE BootInv'
  BY <1>2, <1>6, AskedTells DEF BootStages
<1>7. ASSUME NEW l \in Launches, Bootstrap!Released(l) PROVE BootInv'
  <2>1. PICK answer \in BootAnswers :
          v4' = [v4 EXCEPT ![l] = answer] /\ answer.selected = v3[l].selected
    BY <1>7, ReleasedTells
  <2>2. Whole(answer)
    BY <2>1 DEF AnswersAreWhole, Whole
  <2> QED BY <1>2, <1>7, <2>1, <2>2, ReleasedTells DEF BootStages
<1>8. ASSUME NEW l \in Launches, Bootstrap!Look(l) \/ Bootstrap!Make(l) \/ Bootstrap!Fill(l)
      PROVE  BootInv'
  <2>1. /\ v4' = v4 /\ dead' = dead /\ MovesOnly(l)
        /\ v1[l] \in {"holds", "creates", "fills"}
        /\ \/ /\ v1' = [v1 EXCEPT ![l] = "releases"]
              /\ \E answer \in BootAnswers :
                    /\ v3' = [v3 EXCEPT ![l] = answer]
                    /\ \/ v2' = v2 /\ Whole(answer)
                       \/ v2' = [v2 EXCEPT ![l] = "whole"] /\ answer.selected = l
           \/ /\ v1' = [v1 EXCEPT ![l] = "creates"] /\ UNCHANGED <<v2, v3, at>>
              /\ \A m \in Launches : v2[m] = "none"
           \/ /\ v1[l] = "creates" /\ v1' = [v1 EXCEPT ![l] = "fills"]
              /\ v2' = [v2 EXCEPT ![l] = "partial"] /\ UNCHANGED <<v3, at>>
    <3>1. MovesOnly(l)
      BY <1>8, EachMovesItself
    <3>2. CASE Bootstrap!Look(l)
      BY <3>1, <3>2, LookSees
    <3>3. CASE Bootstrap!Make(l)
      BY <3>1, <3>3, MakeMakes
    <3>4. CASE Bootstrap!Fill(l)
      BY <3>1, <3>4, FillFills DEF Whole
    <3> QED BY <1>8, <3>2, <3>3, <3>4
  <2>2. PICK to \in {"releases", "creates", "fills"} : v1' = [v1 EXCEPT ![l] = to]
    BY <2>1
  <2>3. /\ DOMAIN at' = Launches /\ at' = [q \in Launches |-> at'[q]]
        /\ \A q \in Launches \ {l} :
              q \notin dead' /\ v1'[q] \in {"holds", "creates", "fills"} =>
                  at'[q].holds # Missing /\ at'[q].pc = "idle"
    BY <2>1, <2>2, OthersStand DEF BootStages
  <2>4. BootTyped'
    BY <2>1, <2>3 DEF BootTyped, BootStages
  <2>5. MakersHold'
    <3>1. l \notin dead' /\ v1'[l] \in {"holds", "creates", "fills"} =>
            at'[l].holds # Missing /\ at'[l].pc = "idle"
      BY <2>1 DEF BootTyped, MakersHold
    <3> QED BY <2>3, <3>1 DEF MakersHold
  <2>6. OwnDirectory'
    BY <2>1 DEF BootTyped, OwnDirectory
  <2>7. \A p \in Launches : v2[p] = "whole" => v2'[p] = "whole"
    BY <2>1 DEF BootTyped, OwnDirectory
  <2>8. \A m \in Launches : /\ v3[m] \in BootAnswers /\ v4[m] \in BootAnswers
                            /\ Whole(v3[m]) /\ Whole(v4[m])
    BY DEF BootTyped, AnswersAreWhole
  <2>9. \A m \in Launches : v3'[m].selected # Nobody => v2'[v3'[m].selected] = "whole"
    <3>1. ASSUME NEW answer \in BootAnswers, v3' = [v3 EXCEPT ![l] = answer],
                 \/ v2' = v2 /\ Whole(answer)
                 \/ v2' = [v2 EXCEPT ![l] = "whole"] /\ answer.selected = l
          PROVE  \A m \in Launches : v3'[m].selected # Nobody => v2'[v3'[m].selected] = "whole"
      <4>1. answer.selected # Nobody => v2'[answer.selected] = "whole"
        BY <3>1 DEF BootTyped, Whole
      <4>2. \A m \in Launches : v3'[m] = answer \/ v3'[m] = v3[m]
        BY <3>1 DEF BootTyped
      <4> QED BY <1>0, <2>7, <2>8, <4>1, <4>2 DEF Whole
    <3>2. ASSUME v3' = v3
          PROVE  \A m \in Launches : v3'[m].selected # Nobody => v2'[v3'[m].selected] = "whole"
      BY <1>0, <2>7, <2>8, <3>2 DEF Whole
    <3> QED BY <2>1, <3>1, <3>2
  <2>10. AnswersAreWhole'
    BY <1>0, <2>1, <2>7, <2>8, <2>9 DEF AnswersAreWhole, Whole
  <2> QED BY <2>4, <2>5, <2>6, <2>10
<1>9. CASE UNCHANGED Bootstrap!bootstrapVars
  BY <1>1, <1>9 DEF Bootstrap!bootstrapVars, Bootstrap!vars
<1> QED BY <1>3, <1>4, <1>5, <1>6, <1>7, <1>8, <1>9 DEF Bootstrap!BootstrapNext

\* profiles.py: with one holder of the lease, the launch that makes a directory has found none
\* and is the only one about to.
LEMMA OneMakerKeeps ==
  BootInv /\ OneMaker /\ Exclusive /\ [Bootstrap!BootstrapNext]_(Bootstrap!bootstrapVars)
    => OneMaker'
<1> SUFFICES ASSUME BootInv, OneMaker, Exclusive,
                    [Bootstrap!BootstrapNext]_(Bootstrap!bootstrapVars)
             PROVE  OneMaker'
  OBVIOUS
<1> USE DEF BootInv, OneMaker
<1>1. ASSUME v2' = v2,
             \A l \in Launches : l \notin dead' /\ v1'[l] = "creates" =>
                \/ l \notin dead /\ v1[l] = "creates"
                \/ \A m \in Launches : v2[m] = "none"
      PROVE  OneMaker'
  BY <1>1 DEF OneDirectory, NothingYet
<1>2. ASSUME NEW l \in Launches, Bootstrap!Resolve(l) PROVE OneMaker'
  BY <1>1, <1>2, ResolveTells DEF BootTyped
<1>3. ASSUME NEW l \in Launches, Bootstrap!Ask(l) PROVE OneMaker'
  <2>1. v2' = v2 /\ v1' = [v1 EXCEPT ![l] = "asks"] /\ MovesOnly(l)
    BY <1>3, EachMovesItself DEF Bootstrap!Ask, Bootstrap!Goes
  <2> QED BY <1>1, <2>1 DEF BootTyped, MovesOnly
<1>4. ASSUME NEW l \in Launches,
             Bootstrap!LeaseStep(l) \/ Bootstrap!End(l) \/ Bootstrap!Die(l)
      PROVE  OneMaker'
  <2>1. UNCHANGED <<v1, v2>> /\ MovesOnly(l)
    BY <1>4, EachMovesItself DEF Bootstrap!LeaseStep, Bootstrap!End, Bootstrap!Die
  <2> QED BY <1>1, <2>1 DEF MovesOnly
<1>5. ASSUME NEW l \in Launches, Bootstrap!Asked(l) PROVE OneMaker'
  BY <1>1, <1>5, AskedTells DEF BootTyped
<1>6. ASSUME NEW l \in Launches, Bootstrap!Released(l) PROVE OneMaker'
  BY <1>1, <1>6, ReleasedTells DEF BootTyped
<1>7. ASSUME NEW l \in Launches, Bootstrap!Look(l) PROVE OneMaker'
  BY <1>1, <1>7, LookSees DEF BootTyped
<1>8. ASSUME NEW l \in Launches, Bootstrap!Make(l) PROVE OneMaker'
  <2>1. l \notin dead /\ v1[l] = "creates" /\ dead' = dead
    BY <1>8, MakeMakes
  <2>2. CASE v2' = v2
    <3>1. \E to : v1' = [v1 EXCEPT ![l] = to] /\ to # "creates"
      BY <1>8, MakeMakes
    <3> QED BY <1>1, <2>1, <2>2, <3>1 DEF BootTyped
  <2>3. CASE v1' = [v1 EXCEPT ![l] = "fills"] /\ v2' = [v2 EXCEPT ![l] = "partial"]
    <3>1. \A m \in Launches : v2[m] = "none"
      BY <2>1 DEF NothingYet
    <3>2. OneDirectory'
      BY <2>3, <3>1 DEF BootTyped, OneDirectory
    <3>3. ASSUME NEW m \in Launches, m \notin dead', v1'[m] = "creates" PROVE FALSE
      <4>1. m # l /\ m \notin dead /\ v1[m] = "creates"
        BY <2>1, <2>3, <3>3 DEF BootTyped
      <4>2. at[l].holds # Missing /\ at[m].holds # Missing
        BY <2>1, <4>1 DEF MakersHold
      <4> QED BY <4>1, <4>2 DEF Exclusive
    <3> QED BY <3>2, <3>3 DEF NothingYet
  <2> QED BY <1>8, <2>2, <2>3, MakeMakes
<1>9. ASSUME NEW l \in Launches, Bootstrap!Fill(l) PROVE OneMaker'
  <2>1. /\ dead' = dead /\ v1[l] = "fills" /\ v1' = [v1 EXCEPT ![l] = "releases"]
        /\ v2' = v2 \/ v2' = [v2 EXCEPT ![l] = "whole"]
    BY <1>9, FillFills
  <2>2. v2[l] = "partial"
    BY <2>1 DEF OwnDirectory
  <2>3. OneDirectory'
    BY <2>1, <2>2 DEF BootTyped, OneDirectory
  <2>4. ASSUME NEW m \in Launches, m \notin dead', v1'[m] = "creates" PROVE FALSE
    <3>1. m \notin dead /\ v1[m] = "creates"
      BY <2>1, <2>4 DEF BootTyped
    <3> QED BY <2>2, <3>1 DEF NothingYet
  <2> QED BY <2>3, <2>4 DEF NothingYet
<1>10. CASE UNCHANGED Bootstrap!bootstrapVars
  BY <1>1, <1>10 DEF Bootstrap!bootstrapVars, Bootstrap!vars
<1> QED BY <1>2, <1>3, <1>4, <1>5, <1>6, <1>7, <1>8, <1>9, <1>10 DEF Bootstrap!BootstrapNext

\* profiles.py: what a launch was told of is there.
LEMMA BootIsWhole == BootInv => Bootstrap!ToldIsThere
BY DEF BootInv, AnswersAreWhole, Whole, Bootstrap!ToldIsThere

\* profiles.py: one directory by its launches is one by their number.
LEMMA BootIsOne == OneMaker => Bootstrap!OneFirstProfile
<1> SUFFICES ASSUME OneMaker PROVE Bootstrap!OneFirstProfile
  OBVIOUS
<1> DEFINE made == {l \in Launches : v2[l] # "none"}
<1>1. made = {} \/ \E l \in Launches : made = {l}
  BY DEF OneMaker, OneDirectory
<1>2. Cardinality(made) <= 1
  <2>1. CASE made = {}
    BY <2>1, FS_EmptySet
  <2>2. ASSUME NEW l \in Launches, made = {l} PROVE Cardinality(made) = 1
    <3>1. Cardinality({l}) = 1
      BY FS_Singleton
    <3> QED BY <3>1, <2>2
  <2> QED BY <1>1, <2>1, <2>2
<1>3. Bootstrap!Cardinality(made) <= 1
  BY <1>2, CountedAlike
<1> QED BY <1>3, Zenon DEF Bootstrap!OneFirstProfile

-----------------------------------------------------------------------------
(* What leaves the machine (Outbound).                                     *)

\* llm.py: what an approval is bound to was shown and confirmed, and so was all that left,
\* however job and profile change in between.
ModelsInv ==
    /\ v1 \in Asked /\ v2 \in Edited /\ v7 \in {"OFFLINE", "CONNECTED"} /\ v9 \subseteq v8
    /\ v3 = Models!None \/ v3 \in v4
    /\ v5 \subseteq v4

\* The jobs the models are asked for are jobs of local_models.py.
LEMMA JobsAreModelJobs == Asked \subseteq Models!ModelJob
BY DEF Asked, Models!ModelJob, Named

\* However often a profile is edited, it stays a profile that can do something.
LEMMA EditedAreModelProfiles ==
  ASSUME NEW p \in Edited PROVE p \in Models!ModelProfile /\ p.able # {}
<1>1. Usual \in Models!ModelProfile /\ Usual.able # {}
  BY DEF Usual, Models!ModelProfile, Named
<1> DEFINE P == Models!ModelProfile
<1>2. ASSUME NEW q \in P, q.able # {}
      PROVE  /\ [q EXCEPT !.model = "n"] \in P /\ [q EXCEPT !.remote = FALSE] \in P
             /\ [q EXCEPT !.destination = "elsewhere"] \in P
             /\ [q EXCEPT !.secret = FALSE] \in P /\ [q EXCEPT !.enabled = FALSE] \in P
  BY DEF Models!ModelProfile, Named
<1>3. ASSUME NEW q \in P
      PROVE  [q EXCEPT !.terms = "kept", !.metered = TRUE] \in P
  BY DEF Models!ModelProfile, Named
<1>4. ASSUME NEW q \in P
      PROVE  [q EXCEPT !.able = {"TEXT", "TOOL_CALLS"}, !.adapter = "none"] \in P
  BY DEF Models!ModelProfile, Named
<1>5. Edited \subseteq P
  BY <1>1, <1>2, <1>3, <1>4 DEF Edited
<1>6. p.able # {}
  <2>1. p = [Usual EXCEPT !.able = {"TEXT", "TOOL_CALLS"}, !.adapter = "none"]
        \/ p.able = Usual.able
    BY <1>1 DEF Edited, Models!ModelProfile
  <2> QED BY <2>1, <1>1 DEF Models!ModelProfile
<1> QED BY <1>5, <1>6

\* llm.py: nothing has been confirmed or sent at the start.
LEMMA ModelsStart == Models!Init => ModelsInv
BY DEF Models!Init, ModelsInv

\* llm.py: a call goes out with what the profile, the job and the confirmation say at that moment.
LEMMA ModelsKeep == ModelsInv /\ [Models!Next]_(Models!vars) => ModelsInv'
<1> SUFFICES ASSUME ModelsInv, [Models!Next]_(Models!vars) PROVE ModelsInv'
  OBVIOUS
<1> USE DEF ModelsInv
<1>1. CASE UNCHANGED Models!vars
  BY <1>1 DEF Models!vars, Models!modelVars, Models!searchVars
<1>2. CASE Models!Change
  BY <1>2 DEF Models!Change, Models!searchVars
<1>3. CASE Models!Confirm
  BY <1>3 DEF Models!Confirm, Models!searchVars, Models!Intent
<1>4. CASE Models!RunJob
  <2>1. UNCHANGED <<v1, v2, v3, v4, v7, v8, v9, v10>>
    BY <1>4 DEF Models!RunJob, Models!searchVars
  <2>2. v5' = v5 \/ (v5' = v5 \cup {Models!Message(v1, v2)} /\ Models!Message(v1, v2) \in v4)
    <3>1. PICK on \in BOOLEAN, metered \in BOOLEAN, given \in {Models!None, v3},
               credential \in {"AVAILABLE", "LOCKED"},
               answer \in {"text", "object", "tools", "lost"} :
            LET block == Models!Blocks(on, metered, given, credential) IN
            IF block # "NONE" THEN v6' = block /\ v5' = v5
            ELSE IF ~Models!Transmits THEN v6' = "PROVIDER_ERROR" /\ v5' = v5
            ELSE /\ Models!Cardinality(v5) < MaxSends
                 /\ v5' = v5 \cup {Models!Message(v1, v2)}
                 /\ v6' = Models!Answered(answer)
      BY <1>4 DEF Models!RunJob, Models!Run
    <3>2. ASSUME Models!Blocks(on, metered, given, credential) = "NONE", Models!Transmits
          PROVE  Models!Message(v1, v2) \in v4
      <4>1. v2.remote
        BY <3>2 DEF Models!Transmits
      <4>2. given # Models!None /\ given = Models!Intent(Models!Envelope(v1, v2))
        BY <3>2, <4>1 DEF Models!Blocks
      <4>3. Models!Envelope(v1, v2) \in v4
        BY <4>2 DEF Models!Intent
      <4> QED BY <4>3 DEF Models!Envelope, Models!Message
    <3>3. \/ v5' = v5
          \/ /\ Models!Blocks(on, metered, given, credential) = "NONE" /\ Models!Transmits
             /\ v5' = v5 \cup {Models!Message(v1, v2)}
      BY <3>1
    <3> QED BY <3>2, <3>3
  <2> QED BY <2>1, <2>2
<1>5. CASE Models!Bootstrap
  BY <1>5 DEF Models!Bootstrap, Models!modelVars
<1>6. CASE Models!Register
  BY <1>6 DEF Models!Register, Models!modelVars
<1>7. CASE Models!Search
  BY <1>7 DEF Models!Search, Models!modelVars
<1> QED BY <1>1, <1>2, <1>3, <1>4, <1>5, <1>6, <1>7 DEF Models!Next

\* llm.py: so nothing leaves the machine without a confirmation of just what leaves.
LEMMA ModelsAreSafe == ModelsInv => Models!TypeOK /\ Models!NothingLeavesUnconfirmed
BY JobsAreModelJobs, EditedAreModelProfiles
   DEF ModelsInv, Models!TypeOK, Models!NothingLeavesUnconfirmed

\* network.py: a route says where its provider is, and an approval is for the LAN.
RouteIsTrue(r) ==
    /\ r.route.kind = "LOCALHOST" => r.provider.host = "LOCALHOST"
    /\ r.route.kind = "LAN" /\ r.route.approved => r.provider.host = "LAN"
StaysInside(r) ==
    \/ r.provider.host = "LOCALHOST" \/ v7 = "CONNECTED"
    \/ (r.provider.host = "LAN" /\ r.route.approved)

\* What is registered is true of its provider, and what was reached was open to the mode.
SearchesInv ==
    /\ v1 \in Asked /\ v2 = Usual /\ v7 \in {"OFFLINE", "CONNECTED"} /\ v9 \subseteq v8
    /\ \A r \in v8 : RouteIsTrue(r)
    /\ \A r \in v9 : StaysInside(r)
    /\ \A f \in v10 : {f.candidate.locator, f.candidate.evidence} \subseteq f.cited

\* network.py: nothing has been searched for at the start.
LEMMA SearchesStart == Searches!Init => SearchesInv
<1>1. (CHOOSE j \in Asked : TRUE) \in Asked
  BY DEF Asked
<1> QED BY <1>1 DEF Searches!Init, SearchesInv

\* network.py: a search is answered over the route checked for it, and findings cite their sources.
LEMMA SearchesKeep == SearchesInv /\ [Searches!Next]_(Searches!vars) => SearchesInv'
<1> SUFFICES ASSUME SearchesInv, [Searches!Next]_(Searches!vars) PROVE SearchesInv'
  OBVIOUS
<1> USE DEF SearchesInv
<1>1. CASE UNCHANGED Searches!vars
  BY <1>1 DEF Searches!vars, Searches!modelVars, Searches!searchVars, StaysInside
<1>2. CASE Searches!Change
  <2>1. (CHOOSE j \in Asked : TRUE) \in Asked
    BY DEF Asked
  <2> QED BY <1>2, <2>1 DEF Searches!Change, Searches!searchVars, StaysInside
<1>3. CASE Searches!Confirm
  BY <1>3 DEF Searches!Confirm, Searches!searchVars, StaysInside
<1>4. CASE Searches!RunJob
  BY <1>4 DEF Searches!RunJob, Searches!searchVars, StaysInside
<1>5. CASE Searches!Bootstrap
  <2>1. \A r \in v8' : RouteIsTrue(r)
    BY <1>5 DEF Searches!Bootstrap, Searches!Route, RouteIsTrue
  <2>2. v8 = {} /\ v9 = {}
    BY <1>5 DEF Searches!Bootstrap
  <2> QED BY <1>5, <2>1, <2>2 DEF Searches!Bootstrap, Searches!modelVars, StaysInside
<1>6. CASE Searches!Register
  <2>1. \A r \in v8' : RouteIsTrue(r)
    BY <1>6 DEF Searches!Register, Searches!Route, RouteIsTrue
  <2>2. v8 \subseteq v8'
    BY <1>6 DEF Searches!Register
  <2> QED BY <1>6, <2>1, <2>2 DEF Searches!Register, Searches!modelVars, StaysInside
<1>7. CASE Searches!Search
  <2>1. UNCHANGED <<v1, v2, v7, v8>>
    BY <1>7 DEF Searches!Search, Searches!modelVars
  <2>2. PICK r \in v8 : Searches!Evaluate(r.route) /\ v9' = v9 \cup {r}
    BY <1>7 DEF Searches!Search
  <2>3. StaysInside(r)
    BY <2>2 DEF Searches!Evaluate, RouteIsTrue, StaysInside
  <2>4. \A q \in v9' : StaysInside(q)
    BY <2>2, <2>3
  <2>5. \A f \in v10' : {f.candidate.locator, f.candidate.evidence} \subseteq f.cited
    BY <1>7 DEF Searches!Search, Searches!Kept
  <2> QED BY <2>1, <2>2, <2>4, <2>5 DEF StaysInside
<1> QED BY <1>1, <1>2, <1>3, <1>4, <1>5, <1>6, <1>7 DEF Searches!Next

\* network.py: so a search goes no further than its route was approved for.
LEMMA SearchesAreSafe == SearchesInv => Searches!TypeOK /\ Searches!SearchesStayInside
<1>1. Searches!ModelJob = Models!ModelJob /\ Searches!ModelProfile = Models!ModelProfile
  BY DEF Searches!ModelJob, Searches!ModelProfile, Models!ModelJob, Models!ModelProfile
<1>2. Usual \in Edited
  BY DEF Edited
<1> QED BY <1>1, <1>2, JobsAreModelJobs, EditedAreModelProfiles
        DEF SearchesInv, StaysInside, Searches!TypeOK, Searches!SearchesStayInside

-----------------------------------------------------------------------------
(* Professional decisions (ProfessionalEthics).                            *)

\* The decision is one of those there are and well formed, and so is all that was heard of it.
EthicsInv ==
    /\ v1 \in Decisions /\ Ethics!WellFormedContext(v1)
    /\ v2 \in Seq(Hearsay) /\ \A i \in DOMAIN v2 : Ethics!WellFormedSignal(v2[i])

\* What can be heard has a time.
LEMMA HearsayIsTimed == \A s \in Hearsay : s.at \in 1..2
BY DEF Hearsay, Signal

\* professional_ethics.py: every step adds a signal that was checked.
LEMMA EthicsStart == Ethics!Init => EthicsInv
BY DEF Ethics!Init, EthicsInv

\* professional_ethics.py: what is said is kept, and nothing but it and the scope is kept.
LEMMA EthicsKeep == EthicsInv /\ [Ethics!Next]_(Ethics!vars) => EthicsInv'
<1> SUFFICES ASSUME EthicsInv, [Ethics!Next]_(Ethics!vars) PROVE EthicsInv'
  OBVIOUS
<1>1. ASSUME NEW s \in Hearsay, Ethics!Hear(s)
      PROVE  EthicsInv'
  <2>1. v2 \in Seq(Hearsay) /\ v2' = Append(v2, s) /\ v1' = v1
    BY <1>1 DEF Ethics!Hear, EthicsInv
  <2>2. v2' \in Seq(Hearsay)
    BY <2>1
  <2>3. ASSUME NEW i \in DOMAIN v2' PROVE Ethics!WellFormedSignal(v2'[i])
    <3>1. Ethics!WellFormedSignal(s)
      BY <1>1 DEF Ethics!Hear
    <3>2. (i \in DOMAIN v2 /\ v2'[i] = v2[i]) \/ v2'[i] = s
      BY <2>1
    <3> QED BY <3>1, <3>2 DEF EthicsInv
  <2>4. v1' \in Decisions /\ Ethics!WellFormedContext(v1')
    BY <2>1 DEF EthicsInv
  <2> QED BY <2>2, <2>3, <2>4 DEF EthicsInv
<1>2. CASE UNCHANGED Ethics!vars
  BY <1>2 DEF Ethics!vars, EthicsInv
<1> QED BY <1>1, <1>2 DEF Ethics!Next

\* _latest_signals: the latest time before n of a kind, 0 when nothing of the kind was heard.
LEMMA LatestTimeMeans ==
  ASSUME NEW ss \in Seq(Hearsay), NEW kind, NEW n
  PROVE  LET t == Ethics!LatestTime(ss, kind, n)
             before == {j \in Ethics!OfKind(ss, kind) : j < n} IN
         /\ t \in 0..2
         /\ \A i \in before : ss[i].at <= t
         /\ before # {} => \E i \in before : ss[i].at = t
<1> DEFINE before == {j \in Ethics!OfKind(ss, kind) : j < n}
           times == {ss[i].at : i \in before}
           t == CHOOSE u \in times \cup {0} : \A w \in times : w <= u
<1>1. t = Ethics!LatestTime(ss, kind, n)
  BY DEF Ethics!LatestTime
<1>2. times \subseteq 1..2
  <2>1. ASSUME NEW i \in before PROVE ss[i].at \in 1..2
    <3>1. ss[i] \in Hearsay
      BY DEF Ethics!OfKind
    <3> QED BY <3>1, HearsayIsTimed
  <2> QED BY <2>1
<1>3. before # {} <=> times # {}
  OBVIOUS
<1>4. \A i \in before : ss[i].at \in times
  OBVIOUS
<1>5. \A w \in times : \E i \in before : ss[i].at = w
  OBVIOUS
<1> HIDE DEF times, before
<1>6. \E u \in times \cup {0} : \A w \in times : w <= u
  <2>1. CASE times = {}
    BY <2>1
  <2>2. CASE times # {}
    <3>1. PICK m \in times : \A w \in times : w <= m
      <4>1. times \subseteq 0..2 /\ 2 \in Nat
        BY <1>2
      <4> QED BY <2>2, <4>1, Largest
    <3> QED BY <3>1
  <2> QED BY <2>1, <2>2
<1>7. t \in times \cup {0} /\ \A w \in times : w <= t
  BY <1>6
<1> HIDE DEF t
<1>8. t \in 0..2
  BY <1>2, <1>7
<1>9. ASSUME times # {} PROVE t \in times
  <2>1. PICK w \in times : w \in 1..2
    BY <1>2, <1>9
  <2>2. w <= t
    BY <1>7
  <2>3. t # 0
    BY <1>8, <2>1, <2>2
  <2> QED BY <1>7, <2>3
<1> QED BY <1>1, <1>3, <1>4, <1>5, <1>7, <1>8, <1>9 DEF before

\* _latest_signals: the latest of a kind is one of the kind, nothing is later than it, and it is
\* the first of those as late.
LEMMA LatestMeans ==
  ASSUME NEW ss \in Seq(Hearsay), NEW kind, Ethics!OfKind(ss, kind) # {}
  PROVE  \E l \in Ethics!OfKind(ss, kind) :
            /\ Ethics!Latest(ss, kind) = ss[l]
            /\ \A i \in Ethics!OfKind(ss, kind) :
                  ss[i].at <= ss[l].at /\ (ss[i].at = ss[l].at => l <= i)
<1> DEFINE of == Ethics!OfKind(ss, kind)
           last == Ethics!LatestTime(ss, kind, Len(ss) + 1)
           lasts == {i \in of : ss[i].at = last}
           l == CHOOSE i \in lasts : \A j \in lasts : i <= j
<1>1. of \subseteq Nat /\ {j \in of : j < Len(ss) + 1} = of
  BY DEF Ethics!OfKind
<1>2. (\A i \in of : ss[i].at <= last) /\ lasts # {} /\ lasts \subseteq Nat
  <2>1. LET before == {j \in of : j < Len(ss) + 1} IN
        /\ \A i \in before : ss[i].at <= last
        /\ before # {} => \E i \in before : ss[i].at = last
    BY LatestTimeMeans
  <2> HIDE DEF of, last
  <2> QED BY <1>1, <2>1 DEF of
<1>3. Ethics!Latest(ss, kind) = ss[l]
  BY DEF Ethics!Latest
<1> HIDE DEF of, last
<1>4. \E i \in lasts : \A j \in lasts : i <= j
  <2> HIDE DEF lasts
  <2> QED BY <1>2, Smallest
<1>5. l \in lasts /\ \A j \in lasts : l <= j
  <2> HIDE DEF lasts
  <2> QED BY <1>4
<1> HIDE DEF l
<1> QED BY <1>2, <1>3, <1>5 DEF of

\* assess_professional_ethics: what is decided depends on the latest signals of the kinds
\* required, and of a conflict, of power and of safeguarding.
LEMMA AssessmentIsOfTheLatest ==
  ASSUME NEW a, NEW b, v1.required \subseteq Ethics!Kinds,
         \A k \in v1.required \cup {"CONFLICT_OF_INTEREST", "POWER_ASYMMETRY",
                                    "SAFEGUARDING_CONCERN"} :
            /\ Ethics!OfKind(a, k) = {} <=> Ethics!OfKind(b, k) = {}
            /\ Ethics!OfKind(a, k) # {} => Ethics!Latest(a, k) = Ethics!Latest(b, k)
  PROVE  /\ Ethics!StateRank(a) = Ethics!StateRank(b)
         /\ Ethics!PermittedAudiences(a) = Ethics!PermittedAudiences(b)
<1> DEFINE Kinds == v1.required \cup {"CONFLICT_OF_INTEREST", "POWER_ASYMMETRY",
                                      "SAFEGUARDING_CONCERN"}
<1>1. ASSUME NEW k \in Kinds, NEW states
      PROVE  Ethics!Says(a, k, states) <=> Ethics!Says(b, k, states)
  BY DEF Ethics!Says
<1>2. \A k \in Kinds : Ethics!Says(a, k, {"GRANTED"}) => Ethics!Latest(a, k) = Ethics!Latest(b, k)
  BY DEF Ethics!Says
<1>3. Ethics!Unresolved(a) = Ethics!Unresolved(b)
  BY <1>1 DEF Ethics!Unresolved
<1>4. Ethics!Conflicted(a) <=> Ethics!Conflicted(b)
  BY <1>1 DEF Ethics!Conflicted
<1>5. Ethics!Pressed(a) <=> Ethics!Pressed(b)
  BY <1>1 DEF Ethics!Pressed
<1>6. Ethics!Escalates(a) <=> Ethics!Escalates(b)
  BY <1>1 DEF Ethics!Escalates
<1>7. (\E k \in Ethics!Kinds : Ethics!Refused(a, k))
        <=> (\E k \in Ethics!Kinds : Ethics!Refused(b, k))
  BY <1>1 DEF Ethics!Refused, Ethics!Required
<1>8. Ethics!Required("CONFIDENTIALITY_PERMISSION") =>
        /\ Ethics!Says(a, "CONFIDENTIALITY_PERMISSION", {"GRANTED"})
              <=> Ethics!Says(b, "CONFIDENTIALITY_PERMISSION", {"GRANTED"})
        /\ Ethics!ConfidentialitySatisfied(a) <=> Ethics!ConfidentialitySatisfied(b)
  BY <1>1, <1>2 DEF Ethics!Required, Ethics!ConfidentialitySatisfied
<1>9. Ethics!Required("INFORMED_CONSENT") =>
        /\ Ethics!Says(a, "INFORMED_CONSENT", {"GRANTED"})
              <=> Ethics!Says(b, "INFORMED_CONSENT", {"GRANTED"})
        /\ Ethics!ConsentSatisfied(a) <=> Ethics!ConsentSatisfied(b)
  BY <1>1, <1>2, <1>5 DEF Ethics!Required, Ethics!ConsentSatisfied
<1>10. Ethics!Pauses(a) <=> Ethics!Pauses(b)
  BY <1>3, <1>4, <1>7, <1>8, <1>9 DEF Ethics!Pauses
<1>11. Ethics!Reviews(a) <=> Ethics!Reviews(b)
  BY <1>4, <1>5 DEF Ethics!Reviews
<1>12. Ethics!StateRank(a) = Ethics!StateRank(b)
  BY <1>6, <1>10, <1>11 DEF Ethics!StateRank
<1>13. Ethics!PermittedAudiences(a) = Ethics!PermittedAudiences(b)
  BY <1>8 DEF Ethics!PermittedAudiences
<1> QED BY <1>12, <1>13

\* assess_professional_ethics: what neither pauses nor escalates has all that it requires.
LEMMA EthicsClears == EthicsInv => Ethics!GoesAheadOnlyCleared
<1> SUFFICES ASSUME EthicsInv PROVE Ethics!GoesAheadOnlyCleared
  OBVIOUS
<1>1. v2 \in Seq(Hearsay) /\ v1.required \subseteq Ethics!Kinds
  BY DEF EthicsInv, Ethics!WellFormedContext
<1>2. ASSUME NEW k \in v1.required, ~Ethics!Pauses(v2)
      PROVE  /\ Ethics!OfKind(v2, k) # {}
             /\ k \in {"INFORMED_CONSENT", "CONFIDENTIALITY_PERMISSION", "ATTRIBUTION_CONSENT"} =>
                   Ethics!Says(v2, k, {"GRANTED"})
  <2>1. k \notin Ethics!Unresolved(v2) /\ k \in Ethics!Kinds /\ ~Ethics!Refused(v2, k)
    BY <1>1, <1>2 DEF Ethics!Pauses
  <2>2. Ethics!OfKind(v2, k) # {} /\ ~Ethics!Says(v2, k, {"UNKNOWN", "DISPUTED"})
    BY <2>1 DEF Ethics!Unresolved
  <2>3. ~Ethics!Says(v2, k, {"WITHHELD", "WITHDRAWN", "COERCED"})
    BY <2>1 DEF Ethics!Refused, Ethics!Required
  <2>4. PICK l \in Ethics!OfKind(v2, k) : Ethics!Latest(v2, k) = v2[l]
    BY <1>1, <2>2, LatestMeans
  <2>5. Ethics!WellFormedSignal(v2[l]) /\ v2[l].kind = k
    BY <2>4 DEF EthicsInv, Ethics!OfKind
  <2>6. v2[l].state \in Ethics!StatesOf(k)
    BY <2>5 DEF Ethics!WellFormedSignal
  <2> QED BY <2>2, <2>3, <2>4, <2>6 DEF Ethics!StatesOf, Ethics!Says
<1>3. ASSUME Ethics!StateRank(v2) <= 1
      PROVE  /\ Ethics!ConsentSatisfied(v2) /\ Ethics!ConfidentialitySatisfied(v2)
             /\ Ethics!AttributionSatisfied(v2) /\ Ethics!Unresolved(v2) = {}
  <2>1. ~Ethics!Pauses(v2)
    BY <1>3 DEF Ethics!StateRank
  <2>2. Ethics!Unresolved(v2) = {}
    BY <2>1 DEF Ethics!Pauses
  <2>3. Ethics!ConfidentialitySatisfied(v2)
    <3>1. CASE "CONFIDENTIALITY_PERMISSION" \in v1.required
      BY <3>1, <1>2, <2>1 DEF Ethics!Pauses, Ethics!Required
    <3>2. CASE "CONFIDENTIALITY_PERMISSION" \notin v1.required
      BY <3>2 DEF Ethics!ConfidentialitySatisfied, Ethics!Required
    <3> QED BY <3>1, <3>2
  <2>4. Ethics!ConsentSatisfied(v2)
    <3>1. CASE "INFORMED_CONSENT" \in v1.required
      BY <3>1, <1>2, <2>1 DEF Ethics!Pauses, Ethics!Required
    <3>2. CASE "INFORMED_CONSENT" \notin v1.required
      BY <3>2 DEF Ethics!ConsentSatisfied, Ethics!Required
    <3> QED BY <3>1, <3>2
  <2>5. Ethics!AttributionSatisfied(v2)
    BY <1>2, <2>1 DEF Ethics!AttributionSatisfied, Ethics!Required
  <2> QED BY <2>2, <2>3, <2>4, <2>5
<1>4. ASSUME Ethics!PermittedAudiences(v2) # {}
      PROVE  ~Ethics!Refused(v2, "CONFIDENTIALITY_PERMISSION")
  BY <1>4 DEF Ethics!PermittedAudiences, Ethics!ConfidentialitySatisfied, Ethics!Refused,
              Ethics!Says
<1> QED BY <1>3, <1>4 DEF Ethics!GoesAheadOnlyCleared

\* _latest_signals: of signals that are accepted one alone is the latest of its kind, so that the
\* order in which they are supplied makes no difference.
LEMMA EthicsIsFair == EthicsInv => Ethics!OrderDoesNotMatter
<1> SUFFICES ASSUME EthicsInv, Ethics!Accepted(v2)
             PROVE  LET reversed == [i \in 1..Len(v2) |-> v2[Len(v2) + 1 - i]] IN
                    /\ Ethics!StateRank(reversed) = Ethics!StateRank(v2)
                    /\ Ethics!PermittedAudiences(reversed) = Ethics!PermittedAudiences(v2)
  BY DEF Ethics!OrderDoesNotMatter
<1> DEFINE n == Len(v2)
           reversed == [i \in 1..n |-> v2[n + 1 - i]]
<1>1. v2 \in Seq(Hearsay) /\ n \in Nat /\ DOMAIN v2 = 1..n /\ v1.required \subseteq Ethics!Kinds
  BY DEF EthicsInv, Ethics!WellFormedContext
<1>2. reversed \in Seq(Hearsay) /\ DOMAIN reversed = 1..n
  <2>1. \A i \in 1..n : n + 1 - i \in 1..n
    BY <1>1
  <2>2. \A i \in 1..n : v2[i] \in Hearsay
    BY <1>1
  <2> QED BY <1>1, <2>1, <2>2
<1>3. \A i \in 1..n :
        n + 1 - i \in 1..n /\ reversed[n + 1 - i] = v2[i] /\ reversed[i] = v2[n + 1 - i]
  BY <1>1
<1> HIDE DEF reversed
<1>4. ASSUME NEW k
      PROVE  \A i \in 1..n :
               /\ i \in Ethics!OfKind(v2, k) <=> n + 1 - i \in Ethics!OfKind(reversed, k)
               /\ i \in Ethics!OfKind(reversed, k) <=> n + 1 - i \in Ethics!OfKind(v2, k)
  BY <1>1, <1>2, <1>3 DEF Ethics!OfKind
<1>5. ASSUME NEW k
      PROVE  Ethics!OfKind(reversed, k) = {} <=> Ethics!OfKind(v2, k) = {}
  <2>1. Ethics!OfKind(reversed, k) \subseteq 1..n /\ Ethics!OfKind(v2, k) \subseteq 1..n
    BY <1>1, <1>2 DEF Ethics!OfKind
  <2> QED BY <2>1, <1>4
<1>6. ASSUME NEW k, Ethics!OfKind(reversed, k) # {}
      PROVE  Ethics!Latest(reversed, k) = Ethics!Latest(v2, k)
  <2>1. PICK l \in Ethics!OfKind(v2, k) :
          /\ Ethics!Latest(v2, k) = v2[l]
          /\ \A i \in Ethics!OfKind(v2, k) : v2[i].at <= v2[l].at /\ (v2[i].at = v2[l].at => l <= i)
    BY <1>1, <1>5, <1>6, LatestMeans
  <2>2. PICK m \in Ethics!OfKind(reversed, k) :
          /\ Ethics!Latest(reversed, k) = reversed[m]
          /\ \A i \in Ethics!OfKind(reversed, k) : reversed[i].at <= reversed[m].at
    BY <1>2, <1>6, LatestMeans
  <2> DEFINE r == n + 1 - m
  <2>3. l \in 1..n /\ m \in 1..n /\ r \in 1..n /\ v2[l].kind = k
    BY <1>1, <1>2, <1>3 DEF Ethics!OfKind
  <2>4. r \in Ethics!OfKind(v2, k) /\ reversed[m] = v2[r]
    BY <2>3, <1>3, <1>4
  <2>5. n + 1 - l \in Ethics!OfKind(reversed, k) /\ reversed[n + 1 - l] = v2[l]
    BY <2>3, <1>3, <1>4
  <2>6. v2[l].at <= v2[r].at /\ v2[r].at <= v2[l].at
    BY <2>1, <2>2, <2>4, <2>5
  <2>7. v2[r].at = v2[l].at /\ l <= r
    <3>1. v2[l] \in Hearsay /\ v2[r] \in Hearsay
      BY <1>1, <2>3
    <3>2. v2[l].at \in 1..2 /\ v2[r].at \in 1..2
      BY <3>1, HearsayIsTimed
    <3>3. v2[r].at = v2[l].at
      BY <2>6, <3>2
    <3> QED BY <3>3, <2>1, <2>4
  <2>8. r = l
    <3> SUFFICES ASSUME l < r PROVE FALSE
      BY <2>3, <2>7
    <3> DEFINE t == Ethics!LatestTime(v2, k, r)
               before == {j \in Ethics!OfKind(v2, k) : j < r}
    <3>1. /\ \A i \in before : v2[i].at <= t
          /\ before # {} => \E i \in before : v2[i].at = t
          /\ t \in 0..2
      BY <1>1, LatestTimeMeans
    <3>2. v2[l].at <= t
      BY <3>1
    <3>3. \A i \in before : v2[i].at <= v2[l].at
      BY <2>1
    <3>4. t <= v2[l].at
      <4>1. before # {}
        OBVIOUS
      <4> HIDE DEF before
      <4> QED BY <4>1, <3>1, <3>3
    <3>5. v2[r].kind = k /\ v2[r].at # t
      BY <2>3, <2>4, <1>1 DEF Ethics!OfKind, Ethics!Accepted
    <3>6. v2[l] \in Hearsay
      BY <1>1, <2>3
    <3>7. v2[l].at \in 1..2
      BY <3>6, HearsayIsTimed
    <3> HIDE DEF t
    <3> QED BY <3>1, <3>2, <3>4, <3>5, <3>7, <2>7
  <2> QED BY <2>1, <2>2, <2>4, <2>8
<1>7. /\ Ethics!StateRank(reversed) = Ethics!StateRank(v2)
      /\ Ethics!PermittedAudiences(reversed) = Ethics!PermittedAudiences(v2)
  BY <1>1, <1>5, <1>6, AssessmentIsOfTheLatest
<1> QED BY <1>7 DEF reversed

\* assess_professional_ethics: a refusal, whenever it is heard, either is not the latest of its
\* kind and changes nothing, or is of a kind that is not required, or pauses what requires it.
LEMMA RefusingNeverHelps == EthicsInv => Ethics!NoBetterForRefusing
<1> SUFFICES ASSUME EthicsInv, NEW s \in Hearsay, v2' = Append(v2, s),
                    s.state \in {"WITHHELD", "WITHDRAWN", "COERCED"}
             PROVE  Ethics!StateRank(v2') >= Ethics!StateRank(v2)
  BY DEF Ethics!NoBetterForRefusing
<1> DEFINE n == Len(v2)
           k == s.kind
           after == Append(v2, s)
<1>1. /\ v2 \in Seq(Hearsay) /\ after \in Seq(Hearsay) /\ n \in Nat
      /\ DOMAIN v2 = 1..n /\ DOMAIN after = 1..(n + 1) /\ after[n + 1] = s
      /\ \A i \in 1..n : after[i] = v2[i]
      /\ v1.required \subseteq Ethics!Kinds
  BY DEF EthicsInv, Ethics!WellFormedContext
<1>2. k \in {"INFORMED_CONSENT", "CONFIDENTIALITY_PERMISSION"}
  BY DEF Hearsay, Signal
<1> HIDE DEF after, n
<1>3. ASSUME NEW j, j # k
      PROVE  /\ Ethics!OfKind(after, j) = Ethics!OfKind(v2, j)
             /\ Ethics!OfKind(v2, j) # {} => Ethics!Latest(after, j) = Ethics!Latest(v2, j)
  <2>1. Ethics!OfKind(after, j) = Ethics!OfKind(v2, j)
    BY <1>1, <1>3 DEF Ethics!OfKind
  <2>2. ASSUME Ethics!OfKind(v2, j) # {}
        PROVE  Ethics!Latest(after, j) = Ethics!Latest(v2, j)
    <3>1. PICK l \in Ethics!OfKind(v2, j) :
            /\ Ethics!Latest(v2, j) = v2[l]
            /\ \A i \in Ethics!OfKind(v2, j) :
                  v2[i].at <= v2[l].at /\ (v2[i].at = v2[l].at => l <= i)
      BY <1>1, <2>2, LatestMeans
    <3>2. PICK m \in Ethics!OfKind(v2, j) :
            /\ Ethics!Latest(after, j) = after[m]
            /\ \A i \in Ethics!OfKind(v2, j) :
                  after[i].at <= after[m].at /\ (after[i].at = after[m].at => m <= i)
      BY <1>1, <2>1, <2>2, LatestMeans
    <3>3. l \in 1..n /\ m \in 1..n /\ after[l] = v2[l] /\ after[m] = v2[m]
      BY <1>1 DEF Ethics!OfKind
    <3>4. v2[l].at \in 1..2 /\ v2[m].at \in 1..2
      <4>1. v2[l] \in Hearsay /\ v2[m] \in Hearsay
        BY <1>1, <3>3
      <4> QED BY <4>1, HearsayIsTimed
    <3>5. v2[m].at <= v2[l].at /\ v2[l].at <= v2[m].at
      BY <3>1, <3>2, <3>3
    <3>6. v2[m].at = v2[l].at
      BY <3>4, <3>5
    <3>7. l <= m /\ m <= l
      BY <3>1, <3>2, <3>3, <3>6
    <3>8. l = m
      BY <3>3, <3>7
    <3> QED BY <3>1, <3>2, <3>3, <3>8
  <2> QED BY <2>1, <2>2
<1>4. CASE k \notin v1.required
  <2>1. \A j \in v1.required \cup {"CONFLICT_OF_INTEREST", "POWER_ASYMMETRY",
                                     "SAFEGUARDING_CONCERN"} : j # k
    BY <1>2, <1>4
  <2>2. Ethics!StateRank(after) = Ethics!StateRank(v2)
    BY <1>1, <1>3, <2>1, AssessmentIsOfTheLatest
  <2>3. Ethics!StateRank(v2) \in 0..3
    BY DEF Ethics!StateRank
  <2> QED BY <2>2, <2>3 DEF after
<1>5. /\ Ethics!OfKind(after, k) = Ethics!OfKind(v2, k) \cup {n + 1}
      /\ Ethics!OfKind(v2, k) \subseteq 1..n
  BY <1>1 DEF Ethics!OfKind
<1>6. PICK m \in Ethics!OfKind(after, k) :
        /\ Ethics!Latest(after, k) = after[m]
        /\ \A i \in Ethics!OfKind(after, k) :
              after[i].at <= after[m].at /\ (after[i].at = after[m].at => m <= i)
  BY <1>1, <1>5, LatestMeans
<1>7. CASE k \in v1.required /\ m = n + 1
  <2>1. Ethics!Refused(after, k)
    BY <1>1, <1>5, <1>6, <1>7 DEF Ethics!Refused, Ethics!Required, Ethics!Says
  <2>2. Ethics!Pauses(after)
    BY <1>1, <1>7, <2>1 DEF Ethics!Pauses
  <2>3. Ethics!Escalates(after) <=> Ethics!Escalates(v2)
    BY <1>2, <1>3 DEF Ethics!Escalates, Ethics!Says
  <2>4. Ethics!StateRank(after) \in 2..3 /\ (Ethics!Escalates(v2) => Ethics!StateRank(after) = 3)
    BY <2>2, <2>3 DEF Ethics!StateRank
  <2>5. Ethics!StateRank(v2) \in 0..3 /\ (~Ethics!Escalates(v2) => Ethics!StateRank(v2) <= 2)
    BY DEF Ethics!StateRank
  <2> QED BY <2>4, <2>5 DEF after
<1>8. CASE m # n + 1
  <2>1. m \in Ethics!OfKind(v2, k) /\ m \in 1..n /\ after[m] = v2[m]
    BY <1>1, <1>5, <1>8
  <2>2. PICK l \in Ethics!OfKind(v2, k) :
          /\ Ethics!Latest(v2, k) = v2[l]
          /\ \A i \in Ethics!OfKind(v2, k) : v2[i].at <= v2[l].at /\ (v2[i].at = v2[l].at => l <= i)
    BY <1>1, <2>1, LatestMeans
  <2>3. l \in 1..n /\ after[l] = v2[l] /\ l \in Ethics!OfKind(after, k)
    BY <1>1, <1>5, <2>2
  <2>4. v2[l].at \in 1..2 /\ v2[m].at \in 1..2
    <3>1. v2[l] \in Hearsay /\ v2[m] \in Hearsay
      BY <1>1, <2>1, <2>3
    <3> QED BY <3>1, HearsayIsTimed
  <2>5. v2[m].at <= v2[l].at /\ v2[l].at <= v2[m].at
    BY <1>6, <2>1, <2>2, <2>3
  <2>6. v2[m].at = v2[l].at
    BY <2>4, <2>5
  <2>7. l <= m /\ m <= l
    BY <1>6, <2>1, <2>2, <2>3, <2>6
  <2>8. l = m
    BY <2>1, <2>3, <2>7
  <2>9. Ethics!Latest(after, k) = Ethics!Latest(v2, k)
    BY <1>6, <2>1, <2>2, <2>8
  <2>10. \A j \in v1.required \cup {"CONFLICT_OF_INTEREST", "POWER_ASYMMETRY",
                                      "SAFEGUARDING_CONCERN"} :
           /\ Ethics!OfKind(after, j) = {} <=> Ethics!OfKind(v2, j) = {}
           /\ Ethics!OfKind(after, j) # {} => Ethics!Latest(after, j) = Ethics!Latest(v2, j)
    BY <1>3, <1>5, <2>1, <2>9
  <2>11. Ethics!StateRank(after) = Ethics!StateRank(v2)
    BY <1>1, <2>10, AssessmentIsOfTheLatest
  <2>12. Ethics!StateRank(v2) \in 0..3
    BY DEF Ethics!StateRank
  <2> QED BY <2>11, <2>12 DEF after
<1> QED BY <1>4, <1>7, <1>8

-----------------------------------------------------------------------------
(* A fan and a channel (FansAndRights).                                    *)

FanClaims ==
    [topic : {"consent"}, value : Fans!Consent] \cup [topic : {"contact"}, value : Fans!Contact]
    \cup [topic : {"intent"}, value : Fans!Intent]

\* An intent of the claim i rests on a contact point and a consent of its channel before i.
RestsBefore(cs, intent, i) ==
    /\ intent.contact \in 1..(i - 1) /\ cs[intent.contact].topic = "contact"
    /\ cs[intent.contact].value.channel = intent.channel
    /\ intent.consent \in 1..(i - 1) /\ cs[intent.consent].topic = "consent"
    /\ cs[intent.consent].value = [channel |-> intent.channel, status |-> "OPTED_IN"]

\* direct_fan.py: nothing supersedes a fan's claims, and an intent, recorded or on the way to
\* be, rests on what was there before.
FansInv ==
    /\ v1 \in Seq(FanClaims) /\ v2 = {}
    /\ \A i \in DOMAIN v1 : v1[i].topic = "intent" => RestsBefore(v1, v1[i].value, i)
    /\ \A call \in v3 :
          /\ call.topic = "intent" /\ call.olds = {} /\ call.value \in Fans!Intent
          /\ RestsBefore(v1, call.value, Len(v1) + 1)

\* direct_fan.py: nothing is superseded, so every claim of a topic is an active one.
LEMMA FansActive ==
  ASSUME FansInv, NEW topic PROVE Fans!Active(topic) = {c \in DOMAIN v1 : v1[c].topic = topic}
<1>1. Fans!Superseded = {}
  BY DEF FansInv, Fans!Superseded
<1> QED BY <1>1 DEF Fans!Active, Fans!Claims

\* direct_fan.py: the current consent or contact point is the latest that was said.
LEMMA FansCurrent ==
  ASSUME FansInv, NEW topic, NEW channel
  PROVE  LET said == {c \in Fans!Active(topic) : v1[c].value.channel = channel}
             current == Fans!CurrentOf(topic, channel) IN
         /\ current \in said \cup {0} /\ \A c \in said : c <= current
<1> DEFINE said == {c \in Fans!Active(topic) : v1[c].value.channel = channel}
<1>1. Len(v1) \in Nat /\ DOMAIN v1 = 1..Len(v1)
  BY DEF FansInv
<1>2. said \cup {0} \subseteq 0..Len(v1)
  BY <1>1, FansActive
<1>3. Fans!CurrentOf(topic, channel) = CHOOSE c \in said \cup {0} : \A d \in said : d <= c
  BY DEF Fans!CurrentOf
<1> HIDE DEF said
<1>4. PICK m \in said \cup {0} : \A n \in said \cup {0} : n <= m
  BY <1>1, <1>2, Largest
<1>5. \A d \in said : d <= m
  BY <1>4
<1>6. /\ Fans!CurrentOf(topic, channel) \in said \cup {0}
      /\ \A d \in said : d <= Fans!CurrentOf(topic, channel)
  BY <1>3, <1>4, <1>5
<1> QED BY <1>6 DEF said

\* direct_fan.py: nothing is recorded at the start.
LEMMA FansStart == Fans!Init => FansInv
BY DEF Fans!Init, Fans!EvidenceInit, FansInv

\* direct_fan.py: what a claim rests on stays before it when another is recorded.
LEMMA FansRecord ==
  ASSUME FansInv, NEW claim \in FanClaims, v1' = Append(v1, claim), v2' = v2,
         v3' \subseteq v3,
         claim.topic = "intent" => RestsBefore(v1, claim.value, Len(v1) + 1)
  PROVE  FansInv'
<1>1. /\ v1' \in Seq(FanClaims) /\ Len(v1') = Len(v1) + 1 /\ Len(v1) \in Nat
      /\ DOMAIN v1' = 1..(Len(v1) + 1) /\ DOMAIN v1 = 1..Len(v1)
      /\ \A i \in DOMAIN v1 : v1'[i] = v1[i]
      /\ v1'[Len(v1) + 1] = claim
  BY DEF FansInv
<1>2. ASSUME NEW intent, NEW i \in 1..(Len(v1) + 1), RestsBefore(v1, intent, i)
      PROVE  RestsBefore(v1', intent, i) /\ RestsBefore(v1', intent, Len(v1) + 2)
  BY <1>1, <1>2 DEF RestsBefore
<1>3. \A i \in DOMAIN v1' : v1'[i].topic = "intent" => RestsBefore(v1', v1'[i].value, i)
  <2> SUFFICES ASSUME NEW i \in 1..(Len(v1) + 1), v1'[i].topic = "intent"
               PROVE  RestsBefore(v1', v1'[i].value, i)
    BY <1>1
  <2>1. CASE i = Len(v1) + 1
    BY <1>1, <1>2, <2>1
  <2>2. CASE i \in 1..Len(v1)
    <3>1. RestsBefore(v1, v1[i].value, i) /\ v1'[i] = v1[i]
      BY <1>1, <2>2 DEF FansInv
    <3> QED BY <3>1, <1>2
  <2> QED BY <1>1, <2>1, <2>2
<1>4. ASSUME NEW call \in v3'
      PROVE  /\ call.topic = "intent" /\ call.olds = {} /\ call.value \in Fans!Intent
             /\ RestsBefore(v1', call.value, Len(v1) + 2)
  <2>1. call \in v3
    OBVIOUS
  <2>2. /\ call.topic = "intent" /\ call.olds = {} /\ call.value \in Fans!Intent
        /\ RestsBefore(v1, call.value, Len(v1) + 1)
    BY <2>1 DEF FansInv
  <2> QED BY <2>2, <1>1, <1>2
<1>5. v2' = {}
  BY DEF FansInv
<1>6. Len(v1') + 1 = Len(v1) + 2
  BY <1>1
<1> QED BY <1>1, <1>3, <1>4, <1>5, <1>6 DEF FansInv

\* direct_fan.py: every handler records what rests on what is current, or records nothing.
LEMMA FansKeep == FansInv /\ [Fans!Next]_(Fans!vars) => FansInv'
<1> SUFFICES ASSUME FansInv, [Fans!Next]_(Fans!vars) PROVE FansInv'
  OBVIOUS
<1>1. CASE UNCHANGED Fans!vars
  BY <1>1 DEF FansInv, Fans!vars, RestsBefore
<1>2. ASSUME NEW s \in Fans!Signal PROVE FALSE
  BY <1>2 DEF Fans!Signal
<1>3. ASSUME NEW r \in Fans!Right PROVE FALSE
  BY <1>3 DEF Fans!Right
<1>4. ASSUME NEW ch \in {"EMAIL"}, NEW status \in {"OPTED_IN", "OPTED_OUT"},
             Fans!RecordConsent(ch, status)
      PROVE  FansInv'
  <2>1. [topic |-> "consent", value |-> [channel |-> ch, status |-> status]] \in FanClaims
    BY DEF FanClaims, Fans!Consent
  <2> QED BY <1>4, <2>1, FansRecord DEF Fans!RecordConsent, Fans!Record
<1>5. ASSUME NEW ch \in {"EMAIL"}, Fans!RecordContactPoint(ch) PROVE FansInv'
  <2>1. [topic |-> "contact", value |-> [channel |-> ch]] \in FanClaims
    BY DEF FanClaims, Fans!Contact
  <2> QED BY <1>5, <2>1, FansRecord DEF Fans!RecordContactPoint, Fans!Record
<1>6. ASSUME NEW ch \in {"EMAIL"}, NEW p \in {"LAUNCH"}, Fans!ContactIntentReads(ch, p)
      PROVE  FansInv'
  <2> DEFINE contact == Fans!CurrentOf("contact", ch)
             consent == Fans!CurrentOf("consent", ch)
             intent == [channel |-> ch, purpose |-> p, contact |-> contact, consent |-> consent]
             call == [op |-> "claim", topic |-> "intent", value |-> intent, olds |-> {}]
  <2>1. /\ contact # 0 /\ consent # 0 /\ v1[consent].value.status = "OPTED_IN"
        /\ v3' = v3 \cup {call} /\ v1' = v1 /\ v2' = v2
    BY <1>6 DEF Fans!ContactIntentReads, Fans!ClaimReads, Fans!Reads
  <2>2. /\ contact \in Fans!Active("contact") /\ v1[contact].value.channel = ch
        /\ consent \in Fans!Active("consent") /\ v1[consent].value.channel = ch
    BY <2>1, FansCurrent
  <2>3. /\ contact \in DOMAIN v1 /\ v1[contact].topic = "contact"
        /\ consent \in DOMAIN v1 /\ v1[consent].topic = "consent"
    BY <2>2, FansActive
  <2> HIDE DEF contact, consent
  <2>4. DOMAIN v1 = 1..Len(v1) /\ Len(v1) \in Nat /\ v1[consent] \in FanClaims
    BY <2>3 DEF FansInv
  <2>5. v1[consent].value = [channel |-> ch, status |-> "OPTED_IN"]
    <3>1. v1[consent].value \in Fans!Consent
      BY <2>3, <2>4 DEF FanClaims
    <3> QED BY <3>1, <2>1, <2>2 DEF Fans!Consent
  <2>6. intent \in Fans!Intent
    BY <2>3, <2>4 DEF Fans!Intent
  <2>7. RestsBefore(v1, intent, Len(v1) + 1)
    BY <2>2, <2>3, <2>4, <2>5 DEF RestsBefore
  <2> HIDE DEF intent
  <2>8. FansInv /\ UNCHANGED <<v1, v2>> /\ v3' = v3 \cup {call}
    BY <2>1
  <2>9. v1' \in Seq(FanClaims) /\ v2' = {}
    BY <2>8 DEF FansInv
  <2>10. \A i \in DOMAIN v1' : v1'[i].topic = "intent" => RestsBefore(v1', v1'[i].value, i)
    BY <2>8 DEF FansInv, RestsBefore
  <2>11. \A c \in v3' : /\ c.topic = "intent" /\ c.olds = {} /\ c.value \in Fans!Intent
                        /\ RestsBefore(v1', c.value, Len(v1') + 1)
    <3>1. /\ call.topic = "intent" /\ call.olds = {} /\ call.value = intent
          /\ RestsBefore(v1, call.value, Len(v1) + 1)
      BY <2>7
    <3>2. \A c \in v3 : /\ c.topic = "intent" /\ c.olds = {} /\ c.value \in Fans!Intent
                        /\ RestsBefore(v1, c.value, Len(v1) + 1)
      BY <2>8 DEF FansInv
    <3> QED BY <2>6, <2>8, <3>1, <3>2 DEF RestsBefore
  <2> QED BY <2>9, <2>10, <2>11 DEF FansInv
<1>7. ASSUME NEW call \in v3, Fans!ClaimWrites(call) PROVE FansInv'
  <2> DEFINE claim == [topic |-> call.topic, value |-> call.value]
  <2>1. /\ call.topic = "intent" /\ call.olds = {} /\ call.value \in Fans!Intent
        /\ RestsBefore(v1, call.value, Len(v1) + 1)
    BY DEF FansInv
  <2>2. v1' = Append(v1, claim) /\ v3' \subseteq v3 /\ v2' = v2
    BY <1>7, <2>1 DEF Fans!ClaimWrites, Fans!Writes
  <2>3. claim \in FanClaims
    BY <2>1 DEF FanClaims
  <2> QED BY <2>1, <2>2, <2>3, FansRecord
<1> QED BY <1>1, <1>2, <1>3, <1>4, <1>5, <1>6, <1>7 DEF Fans!Next

\* direct_fan.py: so a fan who opted out is not contacted, whatever was prepared before.
LEMMA FansAreSafe == FansInv => Fans!TypeOK /\ Fans!NoContactAfterOptOut
<1> SUFFICES ASSUME FansInv PROVE Fans!TypeOK /\ Fans!NoContactAfterOptOut
  OBVIOUS
<1>1. DOMAIN v1 = 1..Len(v1) /\ Len(v1) \in Nat /\ \A c \in DOMAIN v1 : v1[c] \in FanClaims
  BY DEF FansInv
<1>2. Fans!TypeOK
  BY <1>1 DEF Fans!TypeOK, Fans!Claims, FanClaims
<1>3. ASSUME NEW i \in Fans!Active("intent") PROVE Fans!WellBound(v1[i].value)
  <2>1. i \in DOMAIN v1 /\ RestsBefore(v1, v1[i].value, i)
    BY FansActive DEF FansInv
  <2>2. v1[i].value.contact \in DOMAIN v1 /\ v1[i].value.consent \in DOMAIN v1
    BY <1>1, <2>1 DEF RestsBefore
  <2> QED BY <2>1, <2>2, FansActive DEF RestsBefore, Fans!WellBound
<1>4. ASSUME NEW i \in Fans!Reviewable, NEW c \in Fans!Active("consent"),
             v1[c].value = [channel |-> v1[i].value.channel, status |-> "OPTED_OUT"]
      PROVE  v1[i].value.consent \in (c + 1)..(i - 1)
  <2> DEFINE intent == v1[i].value
             consent == Fans!CurrentOf("consent", intent.channel)
  <2>1. /\ i \in Fans!Active("intent") /\ consent = intent.consent
    BY DEF Fans!Reviewable, Fans!AssessIntent
  <2>2. i \in DOMAIN v1 /\ RestsBefore(v1, intent, i)
    BY <2>1, FansActive DEF FansInv
  <2>3. c <= consent
    BY <1>4, FansCurrent
  <2>4. c \in DOMAIN v1
    BY FansActive
  <2>5. c # intent.consent
    BY <1>4, <2>2 DEF RestsBefore
  <2> QED BY <1>1, <2>1, <2>2, <2>3, <2>4, <2>5 DEF RestsBefore
<1> QED BY <1>2, <1>3, <1>4 DEF Fans!NoContactAfterOptOut

\* evidence.py: claims are only added.
LEMMA FansOnlyAdd ==
  ASSUME FansInv, [Fans!Next]_(Fans!vars)
  PROVE  /\ DOMAIN v1 \subseteq DOMAIN v1'
         /\ \A c \in DOMAIN v1 : v1'[c] = v1[c]
<1>1. v1' = v1 \/ \E claim : v1' = Append(v1, claim)
  BY DEF Fans!Next, Fans!vars, Fans!RecordStage, Fans!RecordConsent, Fans!RecordContactPoint,
         Fans!RecordReference, Fans!Record, Fans!ContactIntentReads, Fans!ClaimReads,
         Fans!ClaimWrites
<1>2. v1 \in Seq(FanClaims)
  BY DEF FansInv
<1> QED BY <1>1, <1>2

LatestIsCurrent ==
    \A topic, channel :
        LET said == {c \in DOMAIN v1 : v1[c].topic = topic /\ v1[c].value.channel = channel}
            current == Fans!CurrentOf(topic, channel) IN
        current \in said \cup {0} /\ \A c \in said : c <= current

\* direct_fan.py: so what is current is the last that was said.
LEMMA FansLatest == FansInv => LatestIsCurrent
<1> SUFFICES ASSUME FansInv PROVE LatestIsCurrent
  OBVIOUS
<1> QED BY FansActive, FansCurrent DEF LatestIsCurrent

\* direct_fan.py: what is current only gets later, so an intent that rests on what is current
\* after a step did before it.
LEMMA FansExpire ==
  FansInv /\ FansInv' /\ [Fans!Next]_(Fans!vars) => Fans!AnIntentMayExpire
<1> SUFFICES ASSUME FansInv, FansInv', [Fans!Next]_(Fans!vars), NEW i \in Fans!Active("intent"),
                    i \in Fans!Reviewable'
             PROVE  i \in Fans!Reviewable
  BY DEF Fans!AnIntentMayExpire
<1> DEFINE x == v1[i].value
<1>1. /\ DOMAIN v1 = 1..Len(v1) /\ Len(v1) \in Nat /\ DOMAIN v1 \subseteq DOMAIN v1'
      /\ \A c \in DOMAIN v1 : v1'[c] = v1[c]
  BY FansOnlyAdd DEF FansInv
<1>2. i \in DOMAIN v1 /\ RestsBefore(v1, x, i) /\ x = v1'[i].value
  BY FansActive, <1>1 DEF FansInv
<1>3. /\ Fans!CurrentOf("consent", x.channel)' = x.consent
      /\ Fans!CurrentOf("contact", x.channel)' = x.contact
  BY <1>2 DEF Fans!Reviewable, Fans!AssessIntent
<1>4. LatestIsCurrent /\ LatestIsCurrent'
  <2>1. LatestIsCurrent
    BY FansLatest
  <2>2. LatestIsCurrent'
    BY FansLatest, PTL
  <2> QED BY <2>1, <2>2
<1>5. ASSUME NEW topic \in {"consent", "contact"}, NEW n \in DOMAIN v1, v1[n].topic = topic,
             v1[n].value.channel = x.channel, Fans!CurrentOf(topic, x.channel)' = n
      PROVE  Fans!CurrentOf(topic, x.channel) = n
  <2> DEFINE said == {c \in DOMAIN v1 : v1[c].topic = topic /\ v1[c].value.channel = x.channel}
             late == {c \in DOMAIN v1' : v1'[c].topic = topic
                                        /\ v1'[c].value.channel = x.channel}
  <2>1. \A c \in late : c <= n
    BY <1>4, <1>5, <1>2 DEF LatestIsCurrent
  <2>2. said \subseteq late /\ n \in said
    BY <1>1, <1>5
  <2>3. /\ Fans!CurrentOf(topic, x.channel) \in said \cup {0}
        /\ n <= Fans!CurrentOf(topic, x.channel)
    BY <1>4, <2>2 DEF LatestIsCurrent
  <2>4. said \subseteq Nat
    BY <1>1
  <2> HIDE DEF said, late, x
  <2> QED BY <2>1, <2>2, <2>3, <2>4
<1>6. /\ Fans!CurrentOf("consent", x.channel) = x.consent
      /\ Fans!CurrentOf("contact", x.channel) = x.contact
  <2>1. x.consent \in DOMAIN v1 /\ x.contact \in DOMAIN v1
    BY <1>1, <1>2 DEF RestsBefore
  <2>2. /\ v1[x.consent].topic = "consent" /\ v1[x.consent].value.channel = x.channel
        /\ v1[x.contact].topic = "contact" /\ v1[x.contact].value.channel = x.channel
    BY <1>2 DEF RestsBefore
  <2> HIDE DEF x
  <2> QED BY <2>1, <2>2, <1>3, <1>5
<1>7. x.consent # 0 /\ x.contact # 0 /\ v1[x.consent].value.status # "OPTED_OUT"
  BY <1>1, <1>2 DEF RestsBefore
<1> QED BY <1>6, <1>7 DEF Fans!Reviewable, Fans!AssessIntent

-----------------------------------------------------------------------------
(* What words prove (FansAndRights).                                       *)

WordClaims ==
    [topic : {"signal"}, value : Words!Signal] \cup [topic : {"rights"}, value : Words!Right]
WordsInv == v1 \in Seq(WordClaims) /\ v3 = {}

\* fan_journey.py, rights_evidence_chain.py: nothing is recorded at the start.
LEMMA WordsStart == Words!Init => WordsInv
BY DEF Words!Init, Words!EvidenceInit, WordsInv

\* fan_journey.py, rights_evidence_chain.py: a step records one claim at most.
LEMMA WordsStep ==
  ASSUME WordsInv, [Words!Next]_(Words!vars)
  PROVE  v3' = {} /\ (v1' = v1 \/ \E claim \in WordClaims : v1' = Append(v1, claim))
<1>1. ASSUME NEW s \in Words!Signal, Words!RecordStage(s.stage, s.source)
      PROVE  v3' = {} /\ \E claim \in WordClaims : v1' = Append(v1, claim)
  <2>1. [topic |-> "signal", value |-> [stage |-> s.stage, source |-> s.source]] \in WordClaims
    BY DEF WordClaims, Words!Signal
  <2> QED BY <1>1, <2>1 DEF Words!RecordStage, Words!Record, WordsInv
<1>2. ASSUME NEW r \in Words!Right, Words!RecordReference(r.stage, r.assertion, r.source)
      PROVE  v3' = {} /\ \E claim \in WordClaims : v1' = Append(v1, claim)
  <2>1. [topic |-> "rights", value |-> [stage |-> r.stage, assertion |-> r.assertion,
                                        source |-> r.source]] \in WordClaims
    BY DEF WordClaims, Words!Right
  <2> QED BY <1>2, <2>1 DEF Words!RecordReference, Words!Record, WordsInv
<1>3. CASE UNCHANGED Words!vars
  BY <1>3 DEF Words!vars, WordsInv
<1> QED BY <1>1, <1>2, <1>3 DEF Words!Next, WordsInv

\* fan_journey.py, rights_evidence_chain.py: only signals and rights are ever recorded.
LEMMA WordsKeep == WordsInv /\ [Words!Next]_(Words!vars) => WordsInv'
<1> SUFFICES ASSUME WordsInv, [Words!Next]_(Words!vars) PROVE WordsInv'
  OBVIOUS
<1>1. v1 \in Seq(WordClaims)
  BY DEF WordsInv
<1>2. v1' \in Seq(WordClaims)
  BY <1>1, WordsStep
<1> QED BY <1>2, WordsStep DEF WordsInv

\* The parts count with the Cardinality of FiniteSets.
LEMMA WordsCount == ASSUME NEW S PROVE Words!Cardinality(S) = Cardinality(S)
BY DEF Cardinality, Words!Cardinality

\* fan_journey.py, journey: the kinds of signals there are decide the status, whatever they are.
LEMMA JourneyMeans ==
  ASSUME NEW cs,
         NEW observed, observed = (Words!StagesFrom(cs, Words!ObservedSources) # {}),
         NEW declared, declared = (Words!StagesFrom(cs, Words!DeclaredSources) # {}),
         NEW inferred, inferred = (Words!StagesFrom(cs, {"INFERRED"}) # {})
  PROVE  /\ Words!JourneyStatus(cs) = "OBSERVED" => observed
         /\ observed => Words!JourneyStatus(cs) \in {"OBSERVED", "MIXED"}
<1> DEFINE all == {"OBSERVED", "DECLARED_ONLY", "INFERRED_ONLY"}
           said == {k \in all :
                       Words!StagesFrom(cs, CASE k = "OBSERVED" -> Words!ObservedSources
                                              [] k = "DECLARED_ONLY" -> Words!DeclaredSources
                                              [] OTHER -> {"INFERRED"}) # {}}
<1>1. Words!JourneyStatus(cs) = CASE said = {} -> "UNKNOWN"
                                  [] Words!Cardinality(said) > 1 -> "MIXED"
                                  [] OTHER -> CHOOSE k \in said : TRUE
  BY DEF Words!JourneyStatus
<1>2. "OBSERVED" \in said <=> observed
  OBVIOUS
<1>3. said \subseteq all
  OBVIOUS
<1> HIDE DEF said
<1>4. said # {} => (CHOOSE k \in said : TRUE) \in said
  OBVIOUS
<1>5. ASSUME "OBSERVED" \in said, ~(Words!Cardinality(said) > 1)
      PROVE  said = {"OBSERVED"}
  <2> SUFFICES ASSUME NEW k \in said, k # "OBSERVED" PROVE FALSE
    BY <1>5
  <2>1. IsFiniteSet(said)
    <3>1. IsFiniteSet(all)
      <4>1. IsFiniteSet({"OBSERVED"})
        BY FS_Singleton
      <4>2. IsFiniteSet({"OBSERVED"} \cup {"DECLARED_ONLY"})
        BY <4>1, FS_AddElement
      <4>3. IsFiniteSet(({"OBSERVED"} \cup {"DECLARED_ONLY"}) \cup {"INFERRED_ONLY"})
        BY <4>2, FS_AddElement
      <4>4. all = ({"OBSERVED"} \cup {"DECLARED_ONLY"}) \cup {"INFERRED_ONLY"}
        OBVIOUS
      <4> QED BY <4>3, <4>4
    <3> QED BY <3>1, <1>3, FS_Subset
  <2>2. Cardinality({"OBSERVED"}) = 1 /\ IsFiniteSet({"OBSERVED"})
    BY FS_Singleton
  <2>3. Cardinality({"OBSERVED"} \cup {k}) = 2
    <3>1. k \notin {"OBSERVED"}
      OBVIOUS
    <3>2. Cardinality({"OBSERVED"} \cup {k}) = Cardinality({"OBSERVED"}) + 1
      BY <2>2, <3>1, FS_AddElement
    <3> QED BY <2>2, <3>2
  <2>4. {"OBSERVED"} \cup {k} \subseteq said
    BY <1>5
  <2>5. Cardinality({"OBSERVED"} \cup {k}) <= Cardinality(said)
    BY <2>1, <2>4, FS_Subset
  <2>6. Cardinality(said) \in Nat
    BY <2>1, FS_CardinalityType
  <2> QED BY <2>3, <2>5, <2>6, <1>5, WordsCount
<1>6. Words!JourneyStatus(cs) = "OBSERVED" => "OBSERVED" \in said
  BY <1>1, <1>4
<1>7. "OBSERVED" \in said => Words!JourneyStatus(cs) \in {"OBSERVED", "MIXED"}
  BY <1>1, <1>4, <1>5
<1> QED BY <1>2, <1>6, <1>7

ItemsOf(cs, stage) ==
    {cs[c].value : c \in {d \in DOMAIN cs : cs[d].topic = "rights" /\ cs[d].value.stage = stage}}

\* rights_evidence_chain.py: a stage is supported if what qualifies is there and nothing is said
\* against it.
LEMMA SupportMeans ==
  ASSUME NEW cs, NEW stage
  PROVE  Words!RightsStatus(cs, stage) = "SUPPORTED" <=>
            \/ stage = "USER_DECLARATION"
            \/ /\ \E i \in ItemsOf(cs, stage) : Words!Qualifies(i)
               /\ \A i \in ItemsOf(cs, stage) : i.assertion = "SUPPORTS"
<1> DEFINE items == ItemsOf(cs, stage)
           said == {i.assertion : i \in items}
<1>1. Words!RightsStatus(cs, stage) =
        IF stage = "USER_DECLARATION" THEN "SUPPORTED"
        ELSE IF items = {} THEN "UNKNOWN"
        ELSE IF Words!Cardinality(said) > 1 THEN "CONFLICT"
        ELSE IF {i \in items : Words!Qualifies(i)} = {} THEN "UNVERIFIED"
        ELSE IF said = {"SUPPORTS"} THEN "SUPPORTED"
        ELSE "CONTRADICTED"
  BY DEF Words!RightsStatus, ItemsOf
<1>2. said = {"SUPPORTS"} => ~(Words!Cardinality(said) > 1)
  <2>1. Cardinality({"SUPPORTS"}) = 1
    BY FS_Singleton
  <2> QED BY <2>1, WordsCount
<1>3. items # {} => (said = {"SUPPORTS"} <=> \A i \in items : i.assertion = "SUPPORTS")
  OBVIOUS
<1>4. {i \in items : Words!Qualifies(i)} = {} <=> ~\E i \in items : Words!Qualifies(i)
  OBVIOUS
<1> HIDE DEF said, items
<1>5. Words!RightsStatus(cs, stage) = "SUPPORTED" <=>
        \/ stage = "USER_DECLARATION"
        \/ (\E i \in items : Words!Qualifies(i)) /\ (\A i \in items : i.assertion = "SUPPORTS")
  <2>1. CASE stage = "USER_DECLARATION"
    BY <2>1, <1>1
  <2>2. CASE stage # "USER_DECLARATION" /\ items = {}
    BY <2>2, <1>1
  <2>3. CASE stage # "USER_DECLARATION" /\ items # {} /\ said = {"SUPPORTS"}
    BY <2>3, <1>1, <1>2, <1>3, <1>4
  <2>4. CASE stage # "USER_DECLARATION" /\ items # {} /\ said # {"SUPPORTS"}
    BY <2>4, <1>1, <1>3
  <2> QED BY <2>1, <2>2, <2>3, <2>4
<1> QED BY <1>5 DEF items

\* rights_evidence_chain.py: the chain ends at the first stage that is not supported.
LEMMA ContiguousMeans ==
  ASSUME NEW cs
  PROVE  LET n == Words!Contiguous(cs) IN
         /\ n \in 1..4
         /\ \A i \in 2..n : Words!RightsStatus(cs, Words!RightsStages[i]) = "SUPPORTED"
         /\ n < 4 => Words!RightsStatus(cs, Words!RightsStages[n + 1]) # "SUPPORTED"
<1> DEFINE P(i) == Words!RightsStatus(cs, Words!RightsStages[i]) = "SUPPORTED"
           Ends(n) == (\A i \in 2..n : P(i)) /\ (n < 4 => ~P(n + 1))
<1>1. Words!Contiguous(cs) = CHOOSE n \in 1..4 : Ends(n)
  BY DEF Words!Contiguous
<1> HIDE DEF P
<1>2. \E n \in 1..4 : Ends(n)
  <2>1. ~P(2) => Ends(1)
    OBVIOUS
  <2>2. P(2) /\ ~P(3) => Ends(2)
    OBVIOUS
  <2>3. P(2) /\ P(3) /\ ~P(4) => Ends(3)
    OBVIOUS
  <2>4. P(2) /\ P(3) /\ P(4) => Ends(4)
    OBVIOUS
  <2> HIDE DEF Ends
  <2> QED BY <2>1, <2>2, <2>3, <2>4
<1> HIDE DEF Ends
<1>3. Words!Contiguous(cs) \in 1..4 /\ Ends(Words!Contiguous(cs))
  BY <1>1, <1>2
<1> QED BY <1>3 DEF Ends, P

\* fan_journey.py, rights_evidence_chain.py: what is declared or inferred moves no status on.
LEMMA WordsProve ==
  WordsInv /\ [Words!Next]_(Words!vars) => Words!MereWordsMoveNothing
<1> SUFFICES ASSUME WordsInv, [Words!Next]_(Words!vars), NEW c \in DOMAIN v1' \ DOMAIN v1,
                    v1'[c].topic \in {"signal", "rights"},
                    v1'[c].value.source \in Words!DeclaredSources \cup {"INFERRED"}
             PROVE  /\ Words!FurthestObserved(v1') = Words!FurthestObserved(v1)
                    /\ Words!JourneyStatus(v1) = "OBSERVED" =>
                          Words!JourneyStatus(v1') \in {"OBSERVED", "MIXED"}
                    /\ Words!Contiguous(v1') <= Words!Contiguous(v1)
  BY DEF Words!MereWordsMoveNothing
<1>1. PICK claim \in WordClaims : v1' = Append(v1, claim)
  BY WordsStep
<1>2. /\ DOMAIN v1' = DOMAIN v1 \cup {c} /\ c \notin DOMAIN v1 /\ v1'[c] = claim
      /\ \A d \in DOMAIN v1 : v1'[d] = v1[d]
  <2>1. v1 \in Seq(WordClaims)
    BY DEF WordsInv
  <2> QED BY <1>1, <2>1
<1>3. claim.value.source \notin Words!ObservedSources
  BY <1>2 DEF Words!DeclaredSources, Words!ObservedSources
<1>4. Words!StagesFrom(v1', Words!ObservedSources) = Words!StagesFrom(v1, Words!ObservedSources)
  <2> DEFINE from(cs) == {d \in DOMAIN cs : cs[d].topic = "signal"
                                           /\ cs[d].value.source \in Words!ObservedSources}
  <2>1. from(v1') = from(v1)
    BY <1>2, <1>3
  <2>2. from(v1) \subseteq DOMAIN v1
    OBVIOUS
  <2> HIDE DEF from
  <2>3. {v1'[d].value.stage : d \in from(v1')} = {v1[d].value.stage : d \in from(v1)}
    BY <2>1, <2>2, <1>2
  <2> QED BY <2>3 DEF Words!StagesFrom, from
<1>5. Words!FurthestObserved(v1') = Words!FurthestObserved(v1)
  BY <1>4 DEF Words!FurthestObserved
<1>6. Words!JourneyStatus(v1) = "OBSERVED" =>
        Words!JourneyStatus(v1') \in {"OBSERVED", "MIXED"}
  BY <1>4, JourneyMeans
<1>7. ASSUME NEW stage, Words!RightsStatus(v1', stage) = "SUPPORTED"
      PROVE  Words!RightsStatus(v1, stage) = "SUPPORTED"
  <2>1. CASE stage = "USER_DECLARATION"
    BY <2>1, SupportMeans
  <2>2. CASE stage # "USER_DECLARATION"
    <3>1. /\ \E i \in ItemsOf(v1', stage) : Words!Qualifies(i)
          /\ \A i \in ItemsOf(v1', stage) : i.assertion = "SUPPORTS"
      BY <1>7, <2>2, SupportMeans
    <3>2. /\ ItemsOf(v1, stage) \subseteq ItemsOf(v1', stage)
          /\ ItemsOf(v1', stage) \subseteq ItemsOf(v1, stage) \cup {claim.value}
      BY <1>2 DEF ItemsOf
    <3>3. ~Words!Qualifies(claim.value)
      BY <1>2 DEF Words!Qualifies, Words!DeclaredSources
    <3> QED BY <3>1, <3>2, <3>3, SupportMeans
  <2> QED BY <2>1, <2>2
<1>8. Words!Contiguous(v1') <= Words!Contiguous(v1)
  <2> DEFINE n == Words!Contiguous(v1)
             m == Words!Contiguous(v1')
  <2>1. /\ n \in 1..4 /\ m \in 1..4
        /\ n < 4 => Words!RightsStatus(v1, Words!RightsStages[n + 1]) # "SUPPORTED"
        /\ \A i \in 2..m : Words!RightsStatus(v1', Words!RightsStages[i]) = "SUPPORTED"
    BY ContiguousMeans
  <2>2. n < 4 => n + 1 \notin 2..m
    BY <2>1, <1>7
  <2> HIDE DEF n, m
  <2>3. m <= n
    BY <2>1, <2>2
  <2> QED BY <2>3 DEF n, m
<1> QED BY <1>5, <1>6, <1>8

-----------------------------------------------------------------------------
(* What a studio can do (Capabilities).                                    *)

(* What a studio can be said to do. *)
StudioProbes ==
    [workspace : [id : Nat, runtime : {"r1"}], route : {1, 2}, kind : {"OWNED_TOOL", "GUIDED"},
     fit : {0, 1}, at : Nat, availability : {"AVAILABLE", "UNAVAILABLE", "UNKNOWN"}]

\* The studio and what is known of it: observations are numbered, and time goes on.
StudioTyped ==
    /\ v1 \in [id : Nat, runtime : {"r1"}] /\ v3 \in Nat
    /\ v4 \subseteq StudioProbes /\ v5 \in Seq(StudioProbes)

\* What a probe came to know holds in the observation it was made in, while it is the current one.
ProbeHolds(p) ==
    /\ p.at <= v3 /\ p.workspace.id <= v1.id
    /\ p.workspace = v1 /\ p.availability = "AVAILABLE" => p.route \in v2

StudioInv ==
    /\ StudioTyped
    /\ \A p \in v4 : ProbeHolds(p)
    /\ \A i \in DOMAIN v5 : ProbeHolds(v5[i])

\* What a step of either may do to the studio and to what is known of it.
Passes == v3' = v3 + 1 /\ UNCHANGED <<v1, v2, v4, v5>>
Observes == /\ v1' \in [id : Nat, runtime : {"r1"}] /\ v1'.id = v1.id + 1
            /\ UNCHANGED <<v3, v4, v5>>
Probes == /\ \E p \in StudioProbes : /\ p.workspace = v1 /\ p.at = v3
                                     /\ p.availability = "AVAILABLE" => p.route \in v2
                                     /\ v4' = v4 \cup {p}
          /\ UNCHANGED <<v1, v2, v3, v5>>
Hears == /\ \E p \in v4 : v4' = v4 \ {p} /\ v5' \in {v5, Append(v5, p)}
         /\ UNCHANGED <<v1, v2, v3>>
StudioStep == Passes \/ Observes \/ Probes \/ Hears \/ UNCHANGED <<v1, v2, v3, v4, v5>>

\* capability_evidence.py: a probe tells what there is when it is made, record() keeps it as it
\* is, and another observation makes it one of an earlier environment.
LEMMA StudioKeeps == StudioInv /\ StudioStep => StudioInv'
<1> SUFFICES ASSUME StudioInv, StudioStep PROVE StudioInv'
  OBVIOUS
<1>1. /\ v1 \in [id : Nat, runtime : {"r1"}] /\ v3 \in Nat /\ v4 \subseteq StudioProbes
      /\ v5 \in Seq(StudioProbes) /\ \A p \in v4 : ProbeHolds(p)
      /\ \A i \in DOMAIN v5 : ProbeHolds(v5[i])
  BY DEF StudioInv, StudioTyped
<1>2. (\A p \in v4 : p \in StudioProbes) /\ \A i \in DOMAIN v5 : v5[i] \in StudioProbes
  BY <1>1
<1>3. CASE Passes
  <2>1. ASSUME NEW p \in StudioProbes, ProbeHolds(p) PROVE ProbeHolds(p)'
    <3>1. p.at \in Nat
      BY DEF StudioProbes
    <3> QED BY <1>3, <2>1, <3>1, <1>1 DEF ProbeHolds, Passes
  <2>2. StudioTyped'
    BY <1>1, <1>3 DEF StudioTyped, Passes
  <2> QED BY <1>1, <1>2, <1>3, <2>1, <2>2 DEF StudioInv, Passes
<1>4. CASE Observes
  <2>1. ASSUME NEW p \in StudioProbes, ProbeHolds(p) PROVE ProbeHolds(p)'
    <3>1. p.workspace \in [id : Nat, runtime : {"r1"}] /\ p.workspace.id \in Nat
      BY DEF StudioProbes
    <3>2. v1.id \in Nat /\ v1'.id = v1.id + 1 /\ p.workspace.id <= v1.id
      BY <1>1, <1>4, <2>1 DEF ProbeHolds, Observes
    <3>3. p.workspace # v1' /\ p.workspace.id <= v1'.id
      BY <3>1, <3>2
    <3> QED BY <1>4, <2>1, <3>3 DEF ProbeHolds, Observes
  <2>2. StudioTyped'
    BY <1>1, <1>4 DEF StudioTyped, Observes
  <2> QED BY <1>1, <1>2, <1>4, <2>1, <2>2 DEF StudioInv, Observes
<1>5. ASSUME UNCHANGED <<v1, v2, v3>>, NEW p, ProbeHolds(p)
      PROVE  ProbeHolds(p)'
  BY <1>5 DEF ProbeHolds
<1>6. CASE Probes
  <2>1. PICK p \in StudioProbes : /\ p.workspace = v1 /\ p.at = v3
                                  /\ p.availability = "AVAILABLE" => p.route \in v2
                                  /\ v4' = v4 \cup {p}
    BY <1>6 DEF Probes
  <2>2. ProbeHolds(p)
    <3>1. v3 <= v3 /\ v1.id <= v1.id
      BY <1>1
    <3> QED BY <2>1, <3>1 DEF ProbeHolds
  <2>3. StudioTyped'
    BY <1>1, <1>6, <2>1 DEF StudioTyped, Probes
  <2>4. \A q \in v4' : ProbeHolds(q)'
    BY <1>1, <1>5, <1>6, <2>1, <2>2 DEF Probes
  <2>5. (\A i \in DOMAIN v5 : ProbeHolds(v5[i]))'
    BY <1>1, <1>6 DEF Probes, ProbeHolds
  <2> QED BY <1>6, <2>3, <2>4, <2>5 DEF StudioInv, Probes
<1>7. CASE Hears
  <2>1. PICK p \in v4 : v4' = v4 \ {p} /\ v5' \in {v5, Append(v5, p)}
    BY <1>7 DEF Hears
  <2>2. v5' \in Seq(StudioProbes) /\ \A i \in DOMAIN v5' : ProbeHolds(v5'[i])
    <3>1. CASE v5' = v5
      BY <3>1, <1>1
    <3>2. CASE v5' = Append(v5, p)
      <4>1. p \in StudioProbes /\ ProbeHolds(p)
        BY <1>1, <1>2
      <4> HIDE DEF StudioProbes
      <4>2. v5' \in Seq(StudioProbes)
        BY <1>1, <3>2, <4>1
      <4>3. \A i \in DOMAIN v5' : (i \in DOMAIN v5 /\ v5'[i] = v5[i]) \/ v5'[i] = p
        BY <1>1, <3>2
      <4> QED BY <1>1, <4>1, <4>2, <4>3
    <3> QED BY <2>1, <3>1, <3>2
  <2>3. StudioTyped'
    BY <1>1, <1>7, <2>1, <2>2 DEF StudioTyped, Hears
  <2>4. \A q \in v4' : ProbeHolds(q)'
    BY <1>1, <1>5, <1>7, <2>1 DEF Hears
  <2>5. (\A i \in DOMAIN v5 : ProbeHolds(v5[i]))'
    BY <1>7, <2>2 DEF Hears, ProbeHolds
  <2> QED BY <2>3, <2>4, <2>5 DEF StudioInv
<1>8. CASE UNCHANGED <<v1, v2, v3, v4, v5>>
  BY <1>8 DEF StudioInv, StudioTyped, ProbeHolds
<1> QED BY <1>3, <1>4, <1>6, <1>7, <1>8 DEF StudioStep

\* studio.py, CapabilityResolver: of candidates there is a best one.
LEMMA BestOfCandidates ==
  ASSUME NEW candidates, candidates \subseteq StudioProbes, candidates # {}
  PROVE  Probed!Best(candidates) \in candidates
<1> DEFINE fits == {o.fit : o \in candidates}
<1>1. fits \subseteq 0..1 /\ fits # {} /\ 1 \in Nat
  BY DEF StudioProbes
<1>2. PICK fit \in fits : \A f \in fits : f <= fit
  BY <1>1, Largest
<1> DEFINE fittest == {o \in candidates : o.fit = fit}
           routes == {o.route : o \in fittest}
<1>3. routes # {}
  OBVIOUS
<1>4. routes \subseteq Nat
  BY DEF StudioProbes
<1>5. PICK r \in routes : \A q \in routes : r <= q
  BY <1>3, <1>4, Smallest
<1>6. PICK o \in candidates : o.fit = fit /\ o.route = r
  OBVIOUS
<1>7. ASSUME NEW p \in candidates
      PROVE  p.fit < o.fit \/ (p.fit = o.fit /\ p.route >= o.route)
  <2>1. p.fit <= fit /\ p.fit \in Nat /\ fit \in Nat
    BY <1>1, <1>2
  <2>2. CASE p.fit # fit
    BY <2>1, <2>2, <1>6
  <2>3. CASE p.fit = fit
    <3>1. p.route \in routes
      BY <2>3
    <3>2. r <= p.route /\ r \in Nat /\ p.route \in Nat
      BY <3>1, <1>4, <1>5
    <3> QED BY <2>3, <3>2, <1>6
  <2> QED BY <2>2, <2>3
<1> QED BY <1>6, <1>7 DEF Probed!Best

\* Two routes that are probed late.
LEMMA ProbedStarts == Probed!Init => StudioInv
<1> SUFFICES ASSUME Probed!Init PROVE StudioInv
  OBVIOUS
<1>1. v1.id = 1 /\ v1 \in [id : {1}, runtime : {"r1"}]
  BY DEF Probed!Init
<1>2. v1 \in [id : Nat, runtime : {"r1"}]
  BY <1>1
<1> QED BY <1>2 DEF Probed!Init, StudioInv, StudioTyped

\* capability_evidence.py: a step moves the clock or the workspace, asks, hears, or none of these.
LEMMA ProbedMoves == StudioInv /\ [Probed!Next]_(Probed!vars) => StudioStep
<1> SUFFICES ASSUME StudioInv, [Probed!Next]_(Probed!vars) PROVE StudioStep
  OBVIOUS
<1>1. v1 \in [id : Nat, runtime : {"r1"}] /\ v3 \in Nat
  BY DEF StudioInv, StudioTyped
<1>2. CASE Probed!Tick
  BY <1>2 DEF Probed!Tick, Passes, StudioStep
<1>3. CASE Probed!Observe
  <2>1. PICK runtime \in {"r1"} : v1' = [id |-> v1.id + 1, runtime |-> runtime]
    BY <1>3 DEF Probed!Observe
  <2>2. v1' \in [id : Nat, runtime : {"r1"}] /\ v1'.id = v1.id + 1
    BY <1>1, <2>1
  <2> QED BY <1>3, <2>2 DEF Probed!Observe, Observes, StudioStep
<1>4. CASE Probed!Probe
  <2>1. PICK r \in {1, 2}, kind \in {"OWNED_TOOL", "GUIDED"}, fit \in {0, 1}, known \in BOOLEAN :
          v4' = v4 \cup
            {[workspace |-> v1, route |-> r, kind |-> kind, fit |-> fit, at |-> v3,
              availability |-> IF ~known THEN "UNKNOWN"
                               ELSE IF r \in v2 THEN "AVAILABLE" ELSE "UNAVAILABLE"]}
    BY <1>4 DEF Probed!Probe
  <2> DEFINE made == [workspace |-> v1, route |-> r, kind |-> kind, fit |-> fit, at |-> v3,
                      availability |-> IF ~known THEN "UNKNOWN"
                                       ELSE IF r \in v2 THEN "AVAILABLE" ELSE "UNAVAILABLE"]
  <2>2. made \in StudioProbes
    BY <1>1 DEF StudioProbes
  <2>3. /\ made.workspace = v1 /\ made.at = v3
        /\ made.availability = "AVAILABLE" => made.route \in v2
    OBVIOUS
  <2>4. v4' = v4 \cup {made}
    BY <2>1
  <2> HIDE DEF made
  <2> QED BY <1>4, <2>2, <2>3, <2>4 DEF Probed!Probe, Probes, StudioStep
<1>5. CASE Probed!Record
  BY <1>5 DEF Probed!Record, Probed!Records, Hears, StudioStep
<1>6. CASE Probed!RecordFact \/ Probed!Snapshot \/ Probed!AssertCurrent
  BY <1>6 DEF Probed!RecordFact, Probed!Snapshot, Probed!AssertCurrent, Probed!studioVars,
              StudioStep
<1>7. CASE Probed!ToolStep
  BY <1>7 DEF Probed!ToolStep
<1>8. CASE UNCHANGED Probed!vars
  BY <1>8 DEF Probed!vars, StudioStep
<1> QED BY <1>2, <1>3, <1>4, <1>5, <1>6, <1>7, <1>8 DEF Probed!Next

\* capability_evidence.py, state(): what is current of a route was recorded in this environment.
LEMMA ProbedCurrent ==
  ASSUME StudioInv, NEW o \in Probed!Current
  PROVE  \E i \in DOMAIN v5 : o = v5[i] /\ o.workspace = v1
<1>1. PICK r \in {1, 2} : Probed!History(r) # {} /\ o = v5[Probed!Latest(r)]
  BY DEF Probed!Current
<1>2. Probed!History(r) \subseteq 0..Len(v5) /\ Len(v5) \in Nat
  BY DEF StudioInv, StudioTyped, Probed!History
<1>3. \E i \in Probed!History(r) : \A j \in Probed!History(r) : j <= i
  BY <1>1, <1>2, Largest
<1>4. Probed!Latest(r) \in Probed!History(r)
  BY <1>3 DEF Probed!Latest
<1> QED BY <1>1, <1>4 DEF Probed!History

\* What is recommended is legitimate, and is no manual way while something else is.
LEMMA ProbedRecommended ==
  ASSUME StudioInv, NEW maxAge, NEW best \in Probed!Recommended(maxAge)
  PROVE  /\ best \in Probed!Legitimate(maxAge)
         /\ best.kind = "GUIDED" => \A o \in Probed!Legitimate(maxAge) : o.kind = "GUIDED"
<1> DEFINE of == Probed!Legitimate(maxAge)
           ranked == Probed!Ranked(of)
<1>1. of \subseteq StudioProbes
  <2>1. ASSUME NEW o \in Probed!Current PROVE o \in StudioProbes
    <3>1. PICK i \in DOMAIN v5 : o = v5[i]
      BY ProbedCurrent
    <3>2. v5 \in Seq(StudioProbes)
      BY DEF StudioInv, StudioTyped
    <3> QED BY <3>1, <3>2
  <2> QED BY <2>1 DEF Probed!Legitimate
<1>2. best = Probed!Best(ranked) /\ ranked # {}
  BY DEF Probed!Recommended
<1> HIDE DEF of
<1>3. /\ ranked \subseteq of
      /\ (\E o \in of : o.kind # "GUIDED") => \A o \in ranked : o.kind # "GUIDED"
  BY DEF Probed!Ranked
<1> HIDE DEF ranked
<1>4. best \in ranked
  BY <1>1, <1>2, <1>3, BestOfCandidates
<1> QED BY <1>3, <1>4 DEF of

\* "Append-only capability truth bound to one exact current DAW environment".
LEMMA ProbedIsThere == StudioInv => Probed!WhatIsOfferedIsThere
<1> SUFFICES ASSUME StudioInv, NEW maxAge \in 0..1
             PROVE  /\ \A o \in Probed!Recommended(maxAge) : o.route \in v2
                    /\ \A o \in Probed!Elements(v5), required \in BOOLEAN,
                          access \in Probed!Access :
                          Probed!Rankable(o, required, access, maxAge, "strongest")
                             => o.route \in v2
  BY DEF Probed!WhatIsOfferedIsThere
<1>1. ASSUME NEW o \in Probed!Recommended(maxAge) PROVE o.route \in v2
  <2>1. o \in Probed!Current /\ o.availability = "AVAILABLE"
    BY ProbedRecommended DEF Probed!Legitimate
  <2>2. PICK i \in DOMAIN v5 : o = v5[i] /\ o.workspace = v1
    BY <2>1, ProbedCurrent
  <2> QED BY <2>1, <2>2 DEF StudioInv, ProbeHolds
<1>2. ASSUME NEW o \in Probed!Elements(v5), NEW required \in BOOLEAN, NEW access \in Probed!Access,
             Probed!Rankable(o, required, access, maxAge, "strongest")
      PROVE  o.route \in v2
  <2>1. PICK i \in DOMAIN v5 : o = v5[i]
    BY DEF Probed!Elements
  <2>2. o \in StudioProbes /\ ProbeHolds(o)
    <3>1. v5 \in Seq(StudioProbes) /\ ProbeHolds(v5[i])
      BY DEF StudioInv, StudioTyped
    <3> QED BY <2>1, <3>1
  <2> DEFINE freshness == Probed!Freshness(o, maxAge)
  <2>3. Probed!Status(o, required, access, freshness, "strongest") \in {"NEGOTIABLE", "DEGRADED"}
    BY <1>2 DEF Probed!Rankable
  <2>4. freshness = "CURRENT" /\ o.availability \notin {"UNAVAILABLE", "UNKNOWN"}
    BY <2>3 DEF Probed!Status, Probed!Stale, Probed!Unknown, Probed!Unavailable
  <2>5. o.workspace = v1
    BY <2>4 DEF Probed!Freshness
  <2>6. o.availability = "AVAILABLE"
    BY <2>2, <2>4 DEF StudioProbes
  <2> QED BY <2>2, <2>5, <2>6 DEF ProbeHolds
<1> QED BY <1>1, <1>2

\* "GUIDED remains a terminal fallback".
LEMMA ByHandAtLast == StudioInv => Probed!ByHandOnlyAtLast
<1> SUFFICES ASSUME StudioInv, NEW maxAge \in 0..1, NEW best \in Probed!Recommended(maxAge),
                    best.kind = "GUIDED", NEW o \in Probed!Elements(v5), o.kind # "GUIDED",
                    o.workspace = v1, o.availability = "AVAILABLE", v3 - o.at <= maxAge,
                    o = v5[Probed!Latest(o.route)]
             PROVE  FALSE
  BY DEF Probed!ByHandOnlyAtLast
<1>1. PICK i \in DOMAIN v5 : o = v5[i]
  BY DEF Probed!Elements
<1>2. o.route \in {1, 2}
  <2>1. v5 \in Seq(StudioProbes)
    BY DEF StudioInv, StudioTyped
  <2>2. o \in StudioProbes
    BY <1>1, <2>1
  <2> QED BY <2>2 DEF StudioProbes
<1>3. i \in Probed!History(o.route)
  BY <1>1 DEF Probed!History
<1>4. o \in Probed!Current
  BY <1>2, <1>3 DEF Probed!Current
<1>5. o \in Probed!Legitimate(maxAge)
  BY <1>4 DEF Probed!Legitimate
<1> QED BY <1>5, ProbedRecommended

\* entitlements.py: the best of some probes is one of them, as in capability_evidence.py.
LEMMA SameBest ==
  ASSUME NEW candidates, candidates \subseteq StudioProbes, candidates # {}
  PROVE  Entitled!Best(candidates) \in candidates
<1>1. Entitled!Best(candidates) = Probed!Best(candidates)
  BY DEF Entitled!Best, Probed!Best
<1> QED BY <1>1, BestOfCandidates

\* A route and the access to it.
LEMMA EntitledStarts == Entitled!Init => StudioInv
<1> SUFFICES ASSUME Entitled!Init PROVE StudioInv
  OBVIOUS
<1>1. v1.id = 1 /\ v1 \in [id : {1}, runtime : {"r1"}]
  BY DEF Entitled!Init
<1>2. v1 \in [id : Nat, runtime : {"r1"}]
  BY <1>1
<1> QED BY <1>2 DEF Entitled!Init, StudioInv, StudioTyped

\* entitlements.py: what is recorded of access leaves the probes as they are.
LEMMA EntitledMoves == StudioInv /\ [Entitled!Next]_(Entitled!vars) => StudioStep
<1> SUFFICES ASSUME StudioInv, [Entitled!Next]_(Entitled!vars) PROVE StudioStep
  OBVIOUS
<1>1. v1 \in [id : Nat, runtime : {"r1"}] /\ v3 \in Nat
  BY DEF StudioInv, StudioTyped
<1>2. CASE Entitled!Tick
  BY <1>2 DEF Entitled!Tick, Passes, StudioStep
<1>3. CASE Entitled!Observe
  <2>1. PICK runtime \in {"r1"} : v1' = [id |-> v1.id + 1, runtime |-> runtime]
    BY <1>3 DEF Entitled!Observe
  <2>2. v1' \in [id : Nat, runtime : {"r1"}] /\ v1'.id = v1.id + 1
    BY <1>1, <2>1
  <2> QED BY <1>3, <2>2 DEF Entitled!Observe, Observes, StudioStep
<1>4. CASE Entitled!Probe
  <2>1. PICK r \in {1}, kind \in {"OWNED_TOOL"}, fit \in {0}, known \in BOOLEAN :
          v4' = v4 \cup
            {[workspace |-> v1, route |-> r, kind |-> kind, fit |-> fit, at |-> v3,
              availability |-> IF ~known THEN "UNKNOWN"
                               ELSE IF r \in v2 THEN "AVAILABLE" ELSE "UNAVAILABLE"]}
    BY <1>4 DEF Entitled!Probe
  <2> DEFINE made == [workspace |-> v1, route |-> r, kind |-> kind, fit |-> fit, at |-> v3,
                      availability |-> IF ~known THEN "UNKNOWN"
                                       ELSE IF r \in v2 THEN "AVAILABLE" ELSE "UNAVAILABLE"]
  <2>2. made \in StudioProbes
    BY <1>1 DEF StudioProbes
  <2>3. /\ made.workspace = v1 /\ made.at = v3
        /\ made.availability = "AVAILABLE" => made.route \in v2
    OBVIOUS
  <2>4. v4' = v4 \cup {made}
    BY <2>1
  <2> HIDE DEF made
  <2> QED BY <1>4, <2>2, <2>3, <2>4 DEF Entitled!Probe, Probes, StudioStep
<1>5. CASE Entitled!Record
  BY <1>5 DEF Entitled!Record, Entitled!Records, Hears, StudioStep
<1>6. CASE Entitled!RecordFact \/ Entitled!Snapshot \/ Entitled!AssertCurrent
  BY <1>6 DEF Entitled!RecordFact, Entitled!Snapshot, Entitled!AssertCurrent, Entitled!studioVars,
              StudioStep
<1>7. CASE Entitled!ToolStep
  BY <1>7 DEF Entitled!ToolStep
<1>8. CASE UNCHANGED Entitled!vars
  BY <1>8 DEF Entitled!vars, StudioStep
<1> QED BY <1>2, <1>3, <1>4, <1>5, <1>6, <1>7, <1>8 DEF Entitled!Next

\* capability_evidence.py, state(): what is current of a route was recorded in this environment.
LEMMA EntitledCurrent ==
  ASSUME StudioInv, NEW o \in Entitled!Current
  PROVE  \E i \in DOMAIN v5 : o = v5[i] /\ o.workspace = v1
<1>1. PICK r \in {1} : Entitled!History(r) # {} /\ o = v5[Entitled!Latest(r)]
  BY DEF Entitled!Current
<1>2. Entitled!History(r) \subseteq 0..Len(v5) /\ Len(v5) \in Nat
  BY DEF StudioInv, StudioTyped, Entitled!History
<1>3. \E i \in Entitled!History(r) : \A j \in Entitled!History(r) : j <= i
  BY <1>1, <1>2, Largest
<1>4. Entitled!Latest(r) \in Entitled!History(r)
  BY <1>3 DEF Entitled!Latest
<1> QED BY <1>1, <1>4 DEF Entitled!History

\* What is recommended is legitimate, and is no manual way while something else is.
LEMMA EntitledRecommended ==
  ASSUME StudioInv, NEW maxAge, NEW best \in Entitled!Recommended(maxAge)
  PROVE  /\ best \in Entitled!Legitimate(maxAge)
         /\ best.kind = "GUIDED" => \A o \in Entitled!Legitimate(maxAge) : o.kind = "GUIDED"
<1> DEFINE of == Entitled!Legitimate(maxAge)
           ranked == Entitled!Ranked(of)
<1>1. of \subseteq StudioProbes
  <2>1. ASSUME NEW o \in Entitled!Current PROVE o \in StudioProbes
    <3>1. PICK i \in DOMAIN v5 : o = v5[i]
      BY EntitledCurrent
    <3>2. v5 \in Seq(StudioProbes)
      BY DEF StudioInv, StudioTyped
    <3> QED BY <3>1, <3>2
  <2> QED BY <2>1 DEF Entitled!Legitimate
<1>2. best = Entitled!Best(ranked) /\ ranked # {}
  BY DEF Entitled!Recommended
<1> HIDE DEF of
<1>3. /\ ranked \subseteq of
      /\ (\E o \in of : o.kind # "GUIDED") => \A o \in ranked : o.kind # "GUIDED"
  BY DEF Entitled!Ranked
<1> HIDE DEF ranked
<1>4. best \in ranked
  BY <1>1, <1>2, <1>3, SameBest
<1> QED BY <1>3, <1>4 DEF of

\* "Append-only capability truth bound to one exact current DAW environment".
LEMMA EntitledIsThere == StudioInv => Entitled!WhatIsOfferedIsThere
<1> SUFFICES ASSUME StudioInv, NEW maxAge \in 0..1
             PROVE  /\ \A o \in Entitled!Recommended(maxAge) : o.route \in v2
                    /\ \A o \in Entitled!Elements(v5), required \in BOOLEAN,
                          access \in Entitled!Access :
                          Entitled!Rankable(o, required, access, maxAge, "strongest")
                             => o.route \in v2
  BY DEF Entitled!WhatIsOfferedIsThere
<1>1. ASSUME NEW o \in Entitled!Recommended(maxAge) PROVE o.route \in v2
  <2>1. o \in Entitled!Current /\ o.availability = "AVAILABLE"
    BY EntitledRecommended DEF Entitled!Legitimate
  <2>2. PICK i \in DOMAIN v5 : o = v5[i] /\ o.workspace = v1
    BY <2>1, EntitledCurrent
  <2> QED BY <2>1, <2>2 DEF StudioInv, ProbeHolds
<1>2. ASSUME NEW o \in Entitled!Elements(v5), NEW required \in BOOLEAN,
             NEW access \in Entitled!Access,
             Entitled!Rankable(o, required, access, maxAge, "strongest")
      PROVE  o.route \in v2
  <2>1. PICK i \in DOMAIN v5 : o = v5[i]
    BY DEF Entitled!Elements
  <2>2. o \in StudioProbes /\ ProbeHolds(o)
    <3>1. v5 \in Seq(StudioProbes) /\ ProbeHolds(v5[i])
      BY DEF StudioInv, StudioTyped
    <3> QED BY <2>1, <3>1
  <2> DEFINE freshness == Entitled!Freshness(o, maxAge)
  <2>3. Entitled!Status(o, required, access, freshness, "strongest") \in {"NEGOTIABLE", "DEGRADED"}
    BY <1>2 DEF Entitled!Rankable
  <2>4. freshness = "CURRENT" /\ o.availability \notin {"UNAVAILABLE", "UNKNOWN"}
    BY <2>3 DEF Entitled!Status, Entitled!Stale, Entitled!Unknown, Entitled!Unavailable
  <2>5. o.workspace = v1
    BY <2>4 DEF Entitled!Freshness
  <2>6. o.availability = "AVAILABLE"
    BY <2>2, <2>4 DEF StudioProbes
  <2> QED BY <2>2, <2>5, <2>6 DEF ProbeHolds
<1> QED BY <1>1, <1>2

AccessFacts ==
    [route : {1}, state : {"GRANTED", "DENIED", "UNKNOWN"}, source : {"OBSERVED", "USER_DECLARED"},
     at : Nat, expires : Nat, supersedes : SUBSET Nat]

\* What a snapshot that grants access rests on, of the facts there were when it was taken.
Backed(s) ==
    LET inForce == {i \in s.facts : v6[i].expires > s.at} IN
    /\ s.facts \subseteq DOMAIN v6
    /\ s.eligible = "GRANTED" => /\ \E i \in inForce : v6[i].source \in Entitled!Strong
                                 /\ \A i \in inForce : v6[i].state = "GRANTED"
AccessInv == v3 \in Nat /\ v6 \in Seq(AccessFacts) /\ \A s \in v7 : Backed(s)

\* entitlements.py: no fact is recorded and no snapshot taken at the start.
LEMMA AccessStarts == Entitled!Init => AccessInv
BY DEF Entitled!Init, AccessInv

\* entitlements.py: facts are only added, and a snapshot is taken of those in force.
LEMMA AccessKeeps == AccessInv /\ [Entitled!Next]_(Entitled!vars) => AccessInv'
<1> SUFFICES ASSUME AccessInv, [Entitled!Next]_(Entitled!vars) PROVE AccessInv'
  OBVIOUS
<1>1. v3 \in Nat /\ v6 \in Seq(AccessFacts) /\ \A s \in v7 : Backed(s)
  BY DEF AccessInv
<1>2. ASSUME v3' = v3 \/ v3' = v3 + 1, v6' = v6, v7' \subseteq v7
      PROVE  AccessInv'
  <2>1. v3' \in Nat /\ v6' \in Seq(AccessFacts)
    BY <1>1, <1>2
  <2>2. (\A s \in v7 : Backed(s))'
    BY <1>1, <1>2 DEF Backed
  <2> QED BY <2>1, <2>2 DEF AccessInv
<1>3. CASE Entitled!Tick
  BY <1>2, <1>3 DEF Entitled!Tick
<1>4. CASE Entitled!Observe \/ Entitled!Probe \/ Entitled!Record
  BY <1>2, <1>4 DEF Entitled!Observe, Entitled!Probe, Entitled!Record
<1>5. CASE Entitled!RecordFact
  <2>1. PICK r \in {1}, state \in {"GRANTED", "DENIED", "UNKNOWN"},
             source \in {"OBSERVED", "USER_DECLARED"}, expires \in {v3 + 1, Entitled!Forever},
             supersedes \in SUBSET Entitled!Active :
          v6' = Append(v6, [route |-> r, state |-> state, source |-> source, at |-> v3,
                            expires |-> expires, supersedes |-> supersedes])
    BY <1>5 DEF Entitled!RecordFact
  <2> DEFINE fact == [route |-> r, state |-> state, source |-> source, at |-> v3,
                      expires |-> expires, supersedes |-> supersedes]
  <2>2. fact \in AccessFacts
    <3>1. expires \in Nat
      BY <1>1 DEF Entitled!Forever
    <3>2. supersedes \in SUBSET Nat
      BY <1>1 DEF Entitled!Active
    <3> QED BY <3>1, <3>2, <1>1 DEF AccessFacts
  <2>3. v6' = Append(v6, fact) /\ v3' = v3 /\ v7' = v7
    BY <1>5, <2>1 DEF Entitled!RecordFact, Entitled!studioVars
  <2> HIDE DEF fact
  <2>4. /\ v6' \in Seq(AccessFacts) /\ DOMAIN v6 \subseteq DOMAIN v6'
        /\ \A i \in DOMAIN v6 : v6'[i] = v6[i]
    BY <1>1, <2>2, <2>3
  <2>5. ASSUME NEW s \in v7 PROVE Backed(s)'
    <3>1. Backed(s)
      BY <1>1
    <3>2. {i \in s.facts : v6'[i].expires > s.at} = {i \in s.facts : v6[i].expires > s.at}
      BY <2>4, <3>1 DEF Backed
    <3> QED BY <2>4, <3>1, <3>2 DEF Backed
  <2> QED BY <1>1, <2>3, <2>4, <2>5 DEF AccessInv
<1>6. CASE Entitled!Snapshot
  <2>1. PICK r \in {1} : v7' = {Entitled!SnapshotOf(r)}
    BY <1>6 DEF Entitled!Snapshot
  <2>2. v3' = v3 /\ v6' = v6
    BY <1>6 DEF Entitled!Snapshot, Entitled!studioVars
  <2> DEFINE s == Entitled!SnapshotOf(r)
             active == {i \in Entitled!Active : v6[i].route = r}
             inForce == {i \in active : v6[i].expires > v3}
             states == {v6[i].state : i \in inForce}
             strong == \E i \in inForce : v6[i].source \in Entitled!Strong
             validity == IF active = {} THEN "UNKNOWN"
                         ELSE IF inForce = {} THEN "EXPIRED" ELSE "CURRENT"
  <2>3. /\ s.facts = active /\ s.at = v3
        /\ s.eligible = Entitled!Eligible(states, validity, strong)
    BY DEF Entitled!SnapshotOf
  <2>4. active \subseteq DOMAIN v6
    BY DEF Entitled!Active
  <2>5. s.eligible = "GRANTED" => states = {"GRANTED"} /\ strong
    <3> HIDE DEF s, states, validity, strong
    <3> QED BY <2>3 DEF Entitled!Eligible
  <2> HIDE DEF s, active
  <2>6. Backed(s)
    BY <2>3, <2>4, <2>5 DEF Backed
  <2>7. v7' = {s}
    BY <2>1 DEF s
  <2>8. (\A q \in v7 : Backed(q))'
    BY <2>2, <2>6, <2>7 DEF Backed
  <2> QED BY <1>1, <2>2, <2>8 DEF AccessInv
<1>7. CASE Entitled!AssertCurrent
  BY <1>2, <1>7 DEF Entitled!AssertCurrent, Entitled!studioVars
<1>8. CASE Entitled!ToolStep
  BY <1>8 DEF Entitled!ToolStep
<1>9. CASE UNCHANGED Entitled!vars
  BY <1>2, <1>9 DEF Entitled!vars
<1> QED BY <1>3, <1>4, <1>5, <1>6, <1>7, <1>8, <1>9 DEF Entitled!Next

\* "only the entitlement service's conservative eligibility projection may make access
\* negotiable".
LEMMA AccessBacks == AccessInv => Entitled!AccessIsBacked
<1> SUFFICES ASSUME AccessInv, NEW o, NEW access \in Entitled!Access, NEW maxAge \in 0..1,
                    Entitled!Rankable(o, TRUE, access, maxAge, "weaker")
             PROVE  LET inForce == {i \in access.facts : v6[i].expires > access.at} IN
                    /\ \E i \in inForce : v6[i].source \in Entitled!Strong
                    /\ \A i \in inForce : v6[i].state = "GRANTED"
  BY DEF Entitled!AccessIsBacked
<1> DEFINE freshness == Entitled!Freshness(o, maxAge)
<1>1. Entitled!Status(o, TRUE, access, freshness, "weaker") \in {"NEGOTIABLE", "DEGRADED"}
  BY DEF Entitled!Rankable
<1>2. ~Entitled!Unknown(o, TRUE, access)
  <2> HIDE DEF freshness
  <2> QED BY <1>1 DEF Entitled!Status
<1>3. access \in v7 /\ access.eligible = "GRANTED"
  BY <1>2 DEF Entitled!Unknown, Entitled!Access
<1>4. Backed(access)
  BY <1>3 DEF AccessInv
<1> QED BY <1>3, <1>4 DEF Backed

-----------------------------------------------------------------------------
(* Two declared tools. *)
Revisions == [state : {"ACTIVE", "RETIRED"},
              source : {"ARTIST_DECLARED", "EXPLICIT_IMPORT", "ARTIST_CORRECTION"},
              endpoints : SUBSET {"e1", "e2"}]
InventoryInv == v8 \in [{"t1", "t2"} -> Seq(Revisions)] /\ Declared!InventoryOpens

\* tool_inventory.py: an empty inventory opens.
LEMMA InventoryStarts == Declared!Init => InventoryInv
<1> SUFFICES ASSUME Declared!Init PROVE InventoryInv
  OBVIOUS
<1>1. v8 = [t \in {"t1", "t2"} |-> <<>>]
  BY DEF Declared!Init
<1>2. \A t \in {"t1", "t2"} : Declared!ActiveProfile(t) = {}
  BY <1>1 DEF Declared!ActiveProfile
<1> QED BY <1>1, <1>2 DEF InventoryInv, Declared!InventoryOpens, Declared!Unique

\* tool_inventory.py, _validate_candidate_state: what is registered or corrected claims no endpoint
\* of another active tool, and what is retired claims none.
LEMMA InventoryKeeps == InventoryInv /\ [Declared!Next]_(Declared!vars) => InventoryInv'
<1> DEFINE T == {"t1", "t2"}
<1> SUFFICES ASSUME InventoryInv, [Declared!Next]_(Declared!vars) PROVE InventoryInv'
  OBVIOUS
<1>1. v8 \in [T -> Seq(Revisions)] /\ Declared!InventoryOpens
  BY DEF InventoryInv
<1>2. ASSUME v8' = v8 PROVE InventoryInv'
  BY <1>1, <1>2 DEF InventoryInv, Declared!InventoryOpens, Declared!ActiveProfile
<1>3. ASSUME NEW t \in T, NEW state \in {"ACTIVE", "RETIRED"},
             NEW source \in {"ARTIST_DECLARED", "EXPLICIT_IMPORT", "ARTIST_CORRECTION"},
             NEW endpoints \in SUBSET {"e1", "e2"}, Declared!Revises(t, state, source, endpoints)
      PROVE  /\ v8' \in [T -> Seq(Revisions)]
             /\ Declared!ActiveProfile(t)' = IF state = "ACTIVE" THEN endpoints ELSE {}
             /\ \A s \in T \ {t} : Declared!ActiveProfile(s)' = Declared!ActiveProfile(s)
  <2> DEFINE revision == [state |-> state, source |-> source, endpoints |-> endpoints]
  <2>1. revision \in Revisions
    BY DEF Revisions
  <2>2. v8' = [v8 EXCEPT ![t] = Append(@, revision)]
    BY <1>3 DEF Declared!Revises
  <2>3. revision.state = state /\ revision.endpoints = endpoints
    OBVIOUS
  <2> HIDE DEF revision
  <2>4. v8[t] \in Seq(Revisions)
    BY <1>1
  <2>5. /\ Append(v8[t], revision) \in Seq(Revisions) /\ Append(v8[t], revision) # <<>>
        /\ Append(v8[t], revision)[Len(Append(v8[t], revision))] = revision
    BY <2>1, <2>4
  <2>6. v8'[t] = Append(v8[t], revision) /\ \A s \in T \ {t} : v8'[s] = v8[s]
    BY <1>1, <2>2
  <2>7. v8' \in [T -> Seq(Revisions)]
    BY <1>1, <2>2, <2>5
  <2>8. Declared!ActiveProfile(t)' = IF state = "ACTIVE" THEN endpoints ELSE {}
    BY <2>3, <2>5, <2>6 DEF Declared!ActiveProfile, Declared!Last
  <2>9. \A s \in T \ {t} : Declared!ActiveProfile(s)' = Declared!ActiveProfile(s)
    BY <2>6 DEF Declared!ActiveProfile
  <2> QED BY <2>7, <2>8, <2>9
<1>4. \A s, t \in T : s # t => Declared!ActiveProfile(s) \cap Declared!ActiveProfile(t) = {}
  BY <1>1 DEF Declared!InventoryOpens, Declared!Unique
<1>5. ASSUME v8' \in [T -> Seq(Revisions)],
             \A s, t \in T :
                s # t => Declared!ActiveProfile(s)' \cap Declared!ActiveProfile(t)' = {}
      PROVE  InventoryInv'
  BY <1>5 DEF InventoryInv, Declared!InventoryOpens, Declared!Unique
<1>6. ASSUME NEW t \in T, NEW endpoints \in SUBSET {"e1", "e2"}, Declared!Accepts(t, endpoints)
      PROVE  \A s \in T : s # t => endpoints \cap Declared!ActiveProfile(s) = {}
  BY <1>6 DEF Declared!Accepts, Declared!Unique
<1>7. ASSUME NEW t \in T, NEW endpoints \in SUBSET {"e1", "e2"},
             Declared!Register(t, endpoints) \/ Declared!Correct(t, endpoints)
      PROVE  InventoryInv'
  <2>1. PICK source \in {"ARTIST_DECLARED", "EXPLICIT_IMPORT", "ARTIST_CORRECTION"} :
          Declared!Revises(t, "ACTIVE", source, endpoints)
    BY <1>7 DEF Declared!Register, Declared!Correct
  <2>2. Declared!Accepts(t, endpoints)
    BY <1>7 DEF Declared!Register, Declared!Correct
  <2>3. /\ v8' \in [T -> Seq(Revisions)]
        /\ Declared!ActiveProfile(t)' = endpoints
        /\ \A s \in T \ {t} : Declared!ActiveProfile(s)' = Declared!ActiveProfile(s)
    BY <1>3, <2>1
  <2>4. \A s \in T : s # t => endpoints \cap Declared!ActiveProfile(s) = {}
    BY <1>6, <2>2
  <2>5. \A s, q \in T : s # q => Declared!ActiveProfile(s)' \cap Declared!ActiveProfile(q)' = {}
    BY <1>4, <2>3, <2>4
  <2> QED BY <1>5, <2>3, <2>5
<1>8. ASSUME NEW t \in T, Declared!Retire(t)
      PROVE  InventoryInv'
  <2>1. Declared!Revises(t, "RETIRED", "ARTIST_CORRECTION", Declared!ActiveProfile(t))
    BY <1>8 DEF Declared!Retire
  <2>2. Declared!ActiveProfile(t) \in SUBSET {"e1", "e2"}
    <3>1. v8[t] \in Seq(Revisions)
      BY <1>1
    <3>2. v8[t] # <<>> => v8[t][Len(v8[t])] \in Revisions
      BY <3>1
    <3> QED BY <3>2 DEF Declared!ActiveProfile, Declared!Last, Revisions
  <2>3. /\ v8' \in [T -> Seq(Revisions)]
        /\ Declared!ActiveProfile(t)' = {}
        /\ \A s \in T \ {t} : Declared!ActiveProfile(s)' = Declared!ActiveProfile(s)
    BY <1>3, <2>1, <2>2
  <2>4. \A s, q \in T : s # q => Declared!ActiveProfile(s)' \cap Declared!ActiveProfile(q)' = {}
    BY <1>4, <2>3
  <2> QED BY <1>5, <2>3, <2>4
<1>9. CASE \/ Declared!Tick \/ Declared!Observe \/ Declared!Probe \/ Declared!Record
           \/ Declared!RecordFact \/ Declared!Snapshot \/ Declared!AssertCurrent
           \/ UNCHANGED Declared!vars
  BY <1>2, <1>9 DEF Declared!Tick, Declared!Observe, Declared!Probe, Declared!Record,
       Declared!RecordFact, Declared!Snapshot, Declared!AssertCurrent, Declared!vars
<1> QED BY <1>7, <1>8, <1>9 DEF Declared!Next, Declared!ToolStep

-----------------------------------------------------------------------------
(* What is raised (RelevanceBroker).                                       *)

\* An arbitration is of the candidates there were, in the context of the broker and the artist,
\* and none of them was of another song.
Arbitrated ==
    v4 # Broker!None =>
        /\ v4.surfaced = Broker!Surfaced(v3) /\ v4.held = v3 \ Broker!Surfaced(v3)
        /\ v4.by = v2 /\ v2 = v1
        /\ \A c \in v3 : Broker!InScope(c)
BrokerInv == Broker!TypeOK /\ Arbitrated

\* The places a question comes from are bindings of relevance_broker.py.
LEMMA PlacesAreBindings == Places \subseteq Broker!RelevanceContextBinding
BY DEF Places, Context, Broker!RelevanceContextBinding

\* What the candidates are about are subjects of relevance_broker.py.
LEMMA SubjectsAreTyped == Said \subseteq Broker!RelevanceSubject
<1>1. Plain \in Broker!RelevanceSubject
  BY DEF Plain, Broker!RelevanceSubject
<1>2. /\ [Plain EXCEPT !.alert = TRUE] \in Broker!RelevanceSubject
      /\ [Plain EXCEPT !.explicit = TRUE, !.discussion = "UNKNOWN"] \in Broker!RelevanceSubject
      /\ [Plain EXCEPT !.notNow = TRUE, !.blocks = TRUE] \in Broker!RelevanceSubject
  BY <1>1 DEF Broker!RelevanceSubject
<1>3. /\ [Plain EXCEPT !.discussion = "UNSAFE"] \in Broker!RelevanceSubject
      /\ [Plain EXCEPT !.needsFresh = TRUE, !.fresh = FALSE, !.decides = TRUE]
            \in Broker!RelevanceSubject
      /\ [Plain EXCEPT !.transaction = "AWAITING_ARTIST"] \in Broker!RelevanceSubject
  BY <1>1 DEF Broker!RelevanceSubject
<1>4. /\ [Plain EXCEPT !.urgency = "DEADLINE"] \in Broker!RelevanceSubject
      /\ [Plain EXCEPT !.operating = {"RECORDING"}] \in Broker!RelevanceSubject
      /\ [Plain EXCEPT !.future = TRUE] \in Broker!RelevanceSubject
  BY <1>1 DEF Broker!RelevanceSubject
<1> QED BY <1>1, <1>2, <1>3, <1>4 DEF Said

\* relevance_broker.py: the artist has one context, and the broker is made for it.
LEMMA BrokerStarts == Broker!Init => BrokerInv
<1> SUFFICES ASSUME Broker!Init PROVE BrokerInv
  OBVIOUS
<1>1. v1 \in Places /\ v2 = v1 /\ v3 = {} /\ v4 = Broker!None
  BY DEF Broker!Init
<1>2. {v1, v2} \subseteq Broker!RelevanceContextBinding
  BY <1>1, PlacesAreBindings
<1> QED BY <1>1, <1>2 DEF BrokerInv, Arbitrated, Broker!TypeOK

\* arbitrate: what is raised comes of the candidates and the context, and of nothing else.
LEMMA SurfacedFromHere ==
  ASSUME v1' = v1, v3' = v3
  PROVE  Broker!Surfaced(v3)' = Broker!Surfaced(v3)
<1>1. ASSUME NEW CONSTANT c PROVE Broker!Band(c)' = Broker!Band(c)
  BY DEF Broker!Band, Broker!MatchesContext
<1>2. ASSUME NEW CONSTANT b PROVE Broker!Banded(v3, b)' = Broker!Banded(v3, b)
  BY <1>1 DEF Broker!Banded
<1>3. {c \in v3 : Broker!Band(c) \in Broker!Mandatory}'
        = {c \in v3 : Broker!Band(c) \in Broker!Mandatory}
  BY <1>1
<1>4. \A b : Broker!Banded(v3, b)' = Broker!Banded(v3, b)
  BY <1>2
<1> DEFINE mandatory == {c \in v3 : Broker!Band(c) \in Broker!Mandatory}
           first == {i \in DOMAIN Broker!NormalBands :
                       /\ Broker!Banded(v3, Broker!NormalBands[i]) # {}
                       /\ \A j \in 1..(i - 1) : Broker!Banded(v3, Broker!NormalBands[j]) = {}}
           banded == {Broker!Banded(v3, Broker!NormalBands[i]) : i \in first}
<1>5. Broker!Surfaced(v3) = IF mandatory # {} THEN mandatory ELSE UNION banded
  BY DEF Broker!Surfaced
<1>6. (Broker!Surfaced(v3) = IF mandatory # {} THEN mandatory ELSE UNION banded)'
  BY DEF Broker!Surfaced
<1> HIDE DEF Broker!Banded, Broker!Band, Broker!Mandatory, Broker!NormalBands
<1>7. first' = first
  BY <1>4
<1> HIDE DEF first
<1>8. banded' = banded
  BY <1>4, <1>7
<1> HIDE DEF banded, mandatory
<1>9. mandatory' = mandatory
  BY <1>3 DEF mandatory
<1> QED BY <1>5, <1>6, <1>8, <1>9

\* relevance_broker.py: candidates are prepared before the arbitration, and the artist moves on
\* and the broker is bound anew before it.
LEMMA BrokerKeeps == BrokerInv /\ [Broker!Next]_(Broker!vars) => BrokerInv'
<1> SUFFICES ASSUME BrokerInv, [Broker!Next]_(Broker!vars) PROVE BrokerInv'
  OBVIOUS
<1>1. /\ {v1, v2} \subseteq Broker!RelevanceContextBinding
      /\ \A c \in v3 : /\ c.subject \in Broker!RelevanceSubject
                       /\ c.binding \in Broker!RelevanceContextBinding
  BY DEF BrokerInv, Broker!TypeOK
<1>2. CASE Broker!Arbitrate
  <2>1. /\ v4' = [surfaced |-> Broker!Surfaced(v3), held |-> v3 \ Broker!Surfaced(v3), by |-> v2]
        /\ v2 = v1 /\ UNCHANGED <<v1, v2, v3>>
        /\ \A c \in v3 : Broker!InScope(c)
    BY <1>2 DEF Broker!Arbitrate, Broker!Admits
  <2>2. Broker!TypeOK'
    BY <2>1 DEF BrokerInv, Broker!TypeOK
  <2>3. Broker!Surfaced(v3)' = Broker!Surfaced(v3)
    BY <2>1, SurfacedFromHere
  <2>4. /\ v4'.surfaced = Broker!Surfaced(v3)' /\ v4'.held = v3' \ Broker!Surfaced(v3)'
        /\ v4'.by = v2' /\ v2' = v1'
    <3> HIDE DEF Broker!Surfaced
    <3> QED BY <2>1, <2>3
  <2>5. (\A c \in v3 : Broker!InScope(c))'
    BY <2>1 DEF Broker!InScope
  <2> QED BY <2>2, <2>4, <2>5 DEF BrokerInv, Arbitrated
<1>3. CASE Broker!Propose
  <2>1. PICK s \in Said, song \in {"s1", "none"}, job \in {"j1", "none"} :
          v3' = v3 \cup {[subject |-> s, song |-> song, job |-> job, binding |-> v1]}
    BY <1>3 DEF Broker!Propose
  <2>2. v4 = Broker!None /\ UNCHANGED <<v1, v2, v4>>
    BY <1>3 DEF Broker!Propose
  <2>3. s \in Broker!RelevanceSubject
    BY SubjectsAreTyped
  <2>4. \A c \in v3' : /\ c.subject \in Broker!RelevanceSubject
                       /\ c.binding \in Broker!RelevanceContextBinding
    BY <1>1, <2>1, <2>3
  <2> QED BY <1>1, <2>2, <2>4 DEF BrokerInv, Arbitrated, Broker!TypeOK, Broker!None
<1>4. CASE Broker!Move
  <2>1. v1' \in Places /\ v4 = Broker!None /\ UNCHANGED <<v2, v3, v4>>
    BY <1>4 DEF Broker!Move
  <2>2. v1' \in Broker!RelevanceContextBinding
    BY <2>1, PlacesAreBindings
  <2> QED BY <1>1, <2>1, <2>2 DEF BrokerInv, Arbitrated, Broker!TypeOK, Broker!None
<1>5. CASE Broker!Rebind
  BY <1>1, <1>5 DEF Broker!Rebind, BrokerInv, Arbitrated, Broker!TypeOK, Broker!None
<1>6. CASE UNCHANGED Broker!vars
  <2>1. v1' = v1 /\ v2' = v2 /\ v3' = v3 /\ v4' = v4
    BY <1>6 DEF Broker!vars
  <2>2. Broker!TypeOK'
    BY <2>1 DEF BrokerInv, Broker!TypeOK
  <2>3. Broker!Surfaced(v3)' = Broker!Surfaced(v3)
    BY <2>1, SurfacedFromHere
  <2>4. Broker!None' = Broker!None
    BY DEF Broker!None
  <2>5. (\A c \in v3 : Broker!InScope(c))' <=> \A c \in v3 : Broker!InScope(c)
    BY <2>1 DEF Broker!InScope
  <2>6. Arbitrated'
    <3> HIDE DEF Broker!Surfaced, Broker!None, Broker!InScope
    <3> QED BY <2>1, <2>3, <2>4, <2>5 DEF BrokerInv, Arbitrated
  <2> QED BY <2>2, <2>6 DEF BrokerInv
<1> QED BY <1>2, <1>3, <1>4, <1>5, <1>6 DEF Broker!Next

\* _classify: what a band says of a candidate.
LEMMA BandMeans ==
  ASSUME NEW c, c.subject \in Broker!RelevanceSubject
  PROVE  /\ Broker!Band(c) = "REQUIRED_ALERT" => c.subject.alert
         /\ Broker!Band(c) = "EXPLICIT_REQUEST" => c.binding = v1 /\ c.subject.explicit
         /\ \A i \in DOMAIN Broker!NormalBands : Broker!Band(c) = Broker!NormalBands[i] =>
               c.binding = v1 /\ ~c.subject.notNow /\ c.subject.discussion = "SAFE"
<1> DEFINE s == c.subject
           raised == {"BLOCKING", "DECISION_CHANGING", "TIME_SENSITIVE", "CURRENT_CONTEXT",
                      "FUTURE_OPTION"}
<1>1. \A i \in DOMAIN Broker!NormalBands : Broker!NormalBands[i] \in raised
  BY DEF Broker!NormalBands
<1>2. s.discussion \in {"SAFE", "UNSAFE", "UNKNOWN"}
  BY DEF Broker!RelevanceSubject
<1>3. Broker!Band(c) = "REQUIRED_ALERT" => s.alert
  BY DEF Broker!Band
<1>4. Broker!Band(c) = "EXPLICIT_REQUEST" => c.binding = v1 /\ s.explicit
  BY DEF Broker!Band
<1>5. Broker!Band(c) \in raised => c.binding = v1 /\ ~s.notNow /\ s.discussion = "SAFE"
  BY <1>2 DEF Broker!Band
<1> QED BY <1>1, <1>3, <1>4, <1>5

\* "exact context identity used to prevent stale arbitration".
LEMMA BrokerIsCurrent == BrokerInv => Broker!OnlyCurrentIsRaised
<1> SUFFICES ASSUME BrokerInv, NEW c \in Broker!Raised
             PROVE  /\ v1.song # "none" => c.song \in {"none", v1.song}
                    /\ c.subject.alert \/
                        /\ c.binding = v1 /\ v4.by = v1
                        /\ \/ c.subject.explicit
                           \/ ~c.subject.notNow /\ c.subject.discussion = "SAFE"
  BY DEF Broker!OnlyCurrentIsRaised
<1>1. v4 # Broker!None /\ c \in v4.surfaced
  BY DEF Broker!Raised
<1>2. c \in Broker!Surfaced(v3) /\ v4.by = v1
  BY <1>1 DEF BrokerInv, Arbitrated
<1>3. /\ c \in v3
      /\ \/ Broker!Band(c) \in Broker!Mandatory
         \/ \E i \in DOMAIN Broker!NormalBands : Broker!Band(c) = Broker!NormalBands[i]
  BY <1>2 DEF Broker!Surfaced, Broker!Banded
<1>4. c.subject \in Broker!RelevanceSubject
  BY <1>3 DEF BrokerInv, Broker!TypeOK
<1>5. v1.song # "none" => c.song \in {"none", v1.song}
  BY <1>1, <1>3 DEF BrokerInv, Arbitrated, Broker!InScope
<1>6. c.subject.alert \/
        /\ c.binding = v1
        /\ c.subject.explicit \/ (~c.subject.notNow /\ c.subject.discussion = "SAFE")
  BY <1>3, <1>4, BandMeans DEF Broker!Mandatory
<1> QED BY <1>2, <1>5, <1>6

\* The broker counts with the Cardinality of FiniteSets.
LEMMA BrokerCount == ASSUME NEW S PROVE Broker!Cardinality(S) = Cardinality(S)
BY DEF Cardinality, Broker!Cardinality

\* _ORDER: how much a candidate matters is where its band stands.
LEMMA MattersMeans ==
  ASSUME NEW c
  PROVE  /\ Broker!Band(c) \in Broker!Mandatory => Broker!Matters(c) = 6
         /\ \A i \in 1..5 : Broker!Band(c) = Broker!NormalBands[i] => Broker!Matters(c) = 6 - i
         /\ \/ Broker!Band(c) \in Broker!Mandatory
            \/ \E i \in 1..5 : Broker!Band(c) = Broker!NormalBands[i]
            \/ Broker!Matters(c) = 0
<1> DEFINE bands == Broker!NormalBands
           upTo == {i \in DOMAIN bands : \E j \in 1..i : bands[j] = Broker!Band(c)}
<1>1. Broker!Matters(c) = IF Broker!Band(c) \in Broker!Mandatory THEN 6 ELSE Cardinality(upTo)
  BY BrokerCount DEF Broker!Matters
<1>2. /\ DOMAIN bands = 1..5
      /\ bands[1] = "BLOCKING" /\ bands[2] = "DECISION_CHANGING" /\ bands[3] = "TIME_SENSITIVE"
      /\ bands[4] = "CURRENT_CONTEXT" /\ bands[5] = "FUTURE_OPTION"
  BY DEF Broker!NormalBands
<1> HIDE DEF bands
<1>3. \A i, j \in 1..5 : bands[i] = bands[j] => i = j
  BY <1>2
<1>4. \A i \in 1..5 : bands[i] \notin Broker!Mandatory
  BY <1>2 DEF Broker!Mandatory
<1>5. ASSUME NEW i \in 1..5, Broker!Band(c) = bands[i]
      PROVE  Broker!Matters(c) = 6 - i
  <2>1. upTo = i..5
    BY <1>2, <1>3, <1>5
  <2>2. Cardinality(i..5) = 6 - i
    BY FS_Interval
  <2> QED BY <1>1, <1>4, <1>5, <2>1, <2>2
<1>6. ASSUME Broker!Band(c) \notin Broker!Mandatory, ~\E i \in 1..5 : Broker!Band(c) = bands[i]
      PROVE  Broker!Matters(c) = 0
  <2>1. upTo = {}
    BY <1>2, <1>6
  <2> QED BY <1>1, <1>6, <2>1, FS_EmptySet
<1> QED BY <1>1, <1>5, <1>6 DEF bands

\* arbitrate: what is raised is of one band, and what is held is of a later one or of none.
LEMMA BrokerHoldsForMore == BrokerInv => Broker!NothingIsHeldForLess
<1> SUFFICES ASSUME BrokerInv, v4 # Broker!None PROVE Broker!NothingIsHeldForLess
  BY DEF Broker!NothingIsHeldForLess, Broker!Raised, Broker!Held
<1> DEFINE Matters(c) == Broker!Matters(c)
           Band(c) == Broker!Band(c)
           bands == Broker!NormalBands
           raised == Broker!Surfaced(v3)
           held == v3 \ raised
           mandatory == {c \in v3 : Band(c) \in Broker!Mandatory}
           first == {i \in DOMAIN bands : /\ Broker!Banded(v3, bands[i]) # {}
                                          /\ \A j \in 1..(i - 1) : Broker!Banded(v3, bands[j]) = {}}
<1>1. Broker!Raised = raised /\ Broker!Held = held
  BY DEF BrokerInv, Arbitrated, Broker!Raised, Broker!Held
<1>2. raised = IF mandatory # {} THEN mandatory
               ELSE UNION {Broker!Banded(v3, bands[i]) : i \in first}
  BY DEF Broker!Surfaced
<1>3. DOMAIN bands = 1..5
  BY DEF Broker!NormalBands
<1>4. \A c : /\ Band(c) \in Broker!Mandatory => Matters(c) = 6
             /\ \A i \in 1..5 : Band(c) = bands[i] => Matters(c) = 6 - i
             /\ \/ Band(c) \in Broker!Mandatory
                \/ \E i \in 1..5 : Band(c) = bands[i]
                \/ Matters(c) = 0
  BY MattersMeans
<1>5. \A i : Broker!Banded(v3, bands[i]) = {c \in v3 : Band(c) = bands[i]}
  BY DEF Broker!Banded
<1> HIDE DEF Band, Matters, bands
<1>6. CASE mandatory # {}
  <2>1. raised = mandatory
    BY <1>2, <1>6
  <2>2. \A c \in raised : Matters(c) = 6
    BY <1>4, <2>1
  <2>3. \A c \in held : Matters(c) < 6
    BY <1>4, <2>1
  <2>4. raised # {}
    BY <1>6, <2>1
  <2> HIDE DEF raised, held
  <2> QED BY <1>1, <2>2, <2>3, <2>4 DEF Broker!NothingIsHeldForLess, Matters
<1>7. CASE mandatory = {} /\ first # {}
  <2>1. PICK i \in first : TRUE
    BY <1>7
  <2>2. i \in 1..5 /\ first = {i}
    <3>1. \A j \in first : j \in 1..5
      BY <1>3
    <3>2. ASSUME NEW j \in first PROVE j = i
      <4>1. j \in 1..5 /\ i \in 1..5
        BY <2>1, <3>1
      <4>2. ~(j < i) /\ ~(i < j)
        BY <2>1, <4>1
      <4> QED BY <4>1, <4>2
    <3> HIDE DEF first
    <3> QED BY <2>1, <3>1, <3>2
  <2>3. raised = {c \in v3 : Band(c) = bands[i]}
    BY <1>2, <1>5, <1>7, <2>2
  <2>4. raised # {} /\ \A c \in raised : Matters(c) = 6 - i
    BY <1>4, <1>5, <2>1, <2>2, <2>3
  <2>5. ASSUME NEW c \in held PROVE Matters(c) < 6 - i
    <3>1. c \in v3 /\ Band(c) # bands[i] /\ Band(c) \notin Broker!Mandatory
      BY <1>7, <2>3
    <3>2. ASSUME NEW j \in 1..5, Band(c) = bands[j] PROVE i < j
      BY <1>5, <2>1, <2>2, <3>1, <3>2
    <3>3. CASE \E j \in 1..5 : Band(c) = bands[j]
      BY <1>4, <2>2, <3>2, <3>3
    <3> QED BY <1>4, <2>2, <3>1, <3>3
  <2> HIDE DEF raised, held
  <2> QED BY <1>1, <2>2, <2>4, <2>5 DEF Broker!NothingIsHeldForLess, Matters
<1>8. CASE mandatory = {} /\ first = {}
  <2>1. raised = {}
    BY <1>2, <1>8
  <2>2. \A i \in 1..5 : Broker!Banded(v3, bands[i]) = {}
    <3> SUFFICES ASSUME NEW k \in 1..5, Broker!Banded(v3, bands[k]) # {} PROVE FALSE
      OBVIOUS
    <3> DEFINE some == {j \in 1..5 : Broker!Banded(v3, bands[j]) # {}}
    <3>1. some \subseteq Nat /\ some # {}
      OBVIOUS
    <3>2. PICK m \in some : \A j \in some : m <= j
      BY <3>1, Smallest
    <3>3. m \in first
      BY <1>3, <3>2
    <3> QED BY <1>8, <3>3
  <2>3. \A c \in held : Matters(c) = 0
    BY <1>4, <1>5, <1>8, <2>2
  <2> HIDE DEF raised, held
  <2> QED BY <1>1, <2>1, <2>3 DEF Broker!NothingIsHeldForLess, Matters
<1> QED BY <1>6, <1>7, <1>8

-----------------------------------------------------------------------------
(* The behaviours of the module.                                           *)

\* Every step is one of the part a behaviour is about, or leaves that part as it is.
LEMMA StepsOfParts ==
  ASSUME [PermissionsNext]_permissionVars
  PROVE  /\ focus' = focus
         /\ focus = "gateway" => [Gateway!Next]_(Gateway!vars)
         /\ focus = "ethics" => [Ethics!Next]_(Ethics!vars)
         /\ focus = "fans" => [Fans!Next]_(Fans!vars)
         /\ focus = "words" => [Words!Next]_(Words!vars)
         /\ focus = "probed" => [Probed!Next]_(Probed!vars)
         /\ focus = "entitled" => [Entitled!Next]_(Entitled!vars)
         /\ focus = "declared" => [Declared!Next]_(Declared!vars)
         /\ focus = "models" => [Models!Next]_(Models!vars)
         /\ focus = "searches" => [Searches!Next]_(Searches!vars)
         /\ focus = "broker" => [Broker!Next]_(Broker!vars)
         /\ focus = "bootstrap" => [Bootstrap!BootstrapNext]_(Bootstrap!bootstrapVars)
         /\ focus = "removal" => [Removal!Next]_(Removal!vars)
<1>1. focus' = focus
  BY DEF PermissionsNext, permissionVars
<1>2. ASSUME focus = "gateway" PROVE [Gateway!Next]_(Gateway!vars)
  BY <1>2 DEF PermissionsNext, PartNext, permissionVars, Rest1, Gateway!vars
<1>3. ASSUME focus = "ethics" PROVE [Ethics!Next]_(Ethics!vars)
  BY <1>3 DEF PermissionsNext, PartNext, permissionVars, Rest1, Ethics!vars
<1>4. ASSUME focus = "fans" PROVE [Fans!Next]_(Fans!vars)
  BY <1>4 DEF PermissionsNext, PartNext, permissionVars, Rest1, Fans!vars
<1>5. ASSUME focus = "words" PROVE [Words!Next]_(Words!vars)
  BY <1>5 DEF PermissionsNext, PartNext, permissionVars, Rest1, Words!vars
<1>6. ASSUME focus = "probed" PROVE [Probed!Next]_(Probed!vars)
  BY <1>6 DEF PermissionsNext, PartNext, permissionVars, Rest1, Probed!vars
<1>7. ASSUME focus = "entitled" PROVE [Entitled!Next]_(Entitled!vars)
  BY <1>7 DEF PermissionsNext, PartNext, permissionVars, Rest1, Entitled!vars
<1>8. ASSUME focus = "declared" PROVE [Declared!Next]_(Declared!vars)
  BY <1>8 DEF PermissionsNext, PartNext, permissionVars, Rest1, Declared!vars
<1>9. ASSUME focus = "models" PROVE [Models!Next]_(Models!vars)
  BY <1>9 DEF PermissionsNext, PartNext, permissionVars, Rest1,
              Models!vars, Models!modelVars, Models!searchVars
<1>10. ASSUME focus = "searches" PROVE [Searches!Next]_(Searches!vars)
  BY <1>10 DEF PermissionsNext, PartNext, permissionVars, Rest1,
              Searches!vars, Searches!modelVars, Searches!searchVars
<1>11. ASSUME focus = "broker" PROVE [Broker!Next]_(Broker!vars)
  BY <1>11 DEF PermissionsNext, PartNext, permissionVars, Rest1, Broker!vars
<1>12. ASSUME focus = "bootstrap"
       PROVE  [Bootstrap!BootstrapNext]_(Bootstrap!bootstrapVars)
  BY <1>12 DEF PermissionsNext, PartNext, permissionVars, Rest1, vars, Bootstrap!bootstrapVars,
               Bootstrap!vars
<1>13. ASSUME focus = "removal" PROVE [Removal!Next]_(Removal!vars)
  BY <1>13 DEF PermissionsNext, PartNext, permissionVars, Rest1, Removal!vars
<1> QED BY <1>1, <1>2, <1>3, <1>4, <1>5, <1>6, <1>7, <1>8, <1>9, <1>10, <1>11, <1>12, <1>13

\* In the behaviours about the gate, every step is one of MutationGateway and keeps its
\* invariant: a permit is spent once, on what is allowed, for any coordinators and bounds.
THEOREM PermitsAuthorizeOnce == PermissionsSpec => []AuthorizedOnce
<1> DEFINE Inv == focus = "gateway" => Gateway!GInv
<1>1. PermissionsInit => Inv
  BY Gateway!GInvInit DEF PermissionsInit
<1>2. Inv /\ [PermissionsNext]_permissionVars => Inv'
  BY StepsOfParts, Gateway!GInvStep
<1>3. Inv => AuthorizedOnce
  BY Gateway!GInvAuthorizes DEF AuthorizedOnce, Gateway!GInv
<1> QED BY <1>1, <1>2, <1>3, PTL DEF PermissionsSpec

\* What the parts that clear something keep true, each in the behaviours about it.
ClearedInv ==
    /\ focus = "models" => ModelsInv
    /\ focus = "searches" => SearchesInv
    /\ focus = "fans" => FansInv
    /\ focus = "words" => WordsInv
    /\ focus = "ethics" => EthicsInv

\* The parts that clear something start with nothing sent, said or prepared.
LEMMA ClearedStarts == PermissionsInit => ClearedInv
BY ModelsStart, SearchesStart, FansStart, WordsStart, EthicsStart DEF PermissionsInit, ClearedInv

\* Every step is one of the part a behaviour is about, and keeps the invariant of that part.
LEMMA ClearedKeeps == ClearedInv /\ [PermissionsNext]_permissionVars => ClearedInv'
<1> SUFFICES ASSUME ClearedInv, [PermissionsNext]_permissionVars PROVE ClearedInv'
  OBVIOUS
<1>1. focus' = "models" => ModelsInv'
  BY StepsOfParts, ModelsKeep DEF ClearedInv
<1>2. focus' = "searches" => SearchesInv'
  BY StepsOfParts, SearchesKeep DEF ClearedInv
<1>3. focus' = "fans" => FansInv'
  BY StepsOfParts, FansKeep DEF ClearedInv
<1>4. focus' = "words" => WordsInv'
  BY StepsOfParts, WordsKeep DEF ClearedInv
<1>5. focus' = "ethics" => EthicsInv'
  BY StepsOfParts, EthicsKeep DEF ClearedInv
<1> QED BY <1>1, <1>2, <1>3, <1>4, <1>5 DEF ClearedInv

\* llm.py, network.py, direct_fan.py, professional_ethics.py: for any number of edits,
\* confirmations, claims and concerns, nothing leaves the machine, reaches a fan or goes ahead
\* uncleared.
THEOREM NothingGoesUncleared == PermissionsSpec => []NothingUncleared
<1>1. ClearedInv => NothingUncleared
  BY ModelsAreSafe, SearchesAreSafe, FansAreSafe, EthicsClears, EthicsIsFair
     DEF ClearedInv, NothingUncleared
<1> QED BY <1>1, ClearedStarts, ClearedKeeps, PTL DEF PermissionsSpec

\* The same, as steps: a refusal never lets a decision go further, an intent that expired stays
\* so, and mere words move nothing, whatever was said before and in whatever order.
THEOREM RefusalsAreKept == PermissionsSpec => RefusalsStand
<1> DEFINE Stands == /\ focus = "ethics" => Ethics!NoBetterForRefusing
                     /\ focus = "fans" => Fans!AnIntentMayExpire
                     /\ focus = "words" => Words!MereWordsMoveNothing
<1>1. ASSUME ClearedInv, ClearedInv', [PermissionsNext]_permissionVars
      PROVE  Stands
  <2>1. focus = "ethics" => Ethics!NoBetterForRefusing
    BY <1>1, RefusingNeverHelps DEF ClearedInv
  <2>2. focus = "fans" => Fans!AnIntentMayExpire
    BY <1>1, StepsOfParts, FansExpire DEF ClearedInv
  <2>3. focus = "words" => Words!MereWordsMoveNothing
    BY <1>1, StepsOfParts, WordsProve DEF ClearedInv
  <2> QED BY <2>1, <2>2, <2>3
<1>2. ASSUME ClearedInv, ClearedInv', [PermissionsNext]_permissionVars
      PROVE  [Stands]_<<focus, v1, v2, v3>>
  BY <1>1, <1>2
<1> QED BY <1>2, ClearedStarts, ClearedKeeps, PTL DEF PermissionsSpec, RefusalsStand

\* What the parts that offer something keep true, each in the behaviours about it.
OfferedInv ==
    /\ focus = "probed" => StudioInv
    /\ focus = "entitled" => StudioInv /\ AccessInv
    /\ focus = "declared" => InventoryInv
    /\ focus = "broker" => BrokerInv

\* capability_evidence.py, entitlements.py, tool_inventory.py, relevance_broker.py: for any number
\* of probes, facts, revisions and candidates, what is offered is there, current and allowed.
THEOREM OffersAreCurrent == PermissionsSpec => []OnlyCurrentIsOffered
<1>1. PermissionsInit => OfferedInv
  BY ProbedStarts, EntitledStarts, AccessStarts, InventoryStarts, BrokerStarts
     DEF PermissionsInit, OfferedInv
<1>2. OfferedInv /\ [PermissionsNext]_permissionVars => OfferedInv'
  <2> SUFFICES ASSUME OfferedInv, [PermissionsNext]_permissionVars PROVE OfferedInv'
    OBVIOUS
  <2>1. focus' = "probed" => StudioInv'
    BY StepsOfParts, ProbedMoves, StudioKeeps DEF OfferedInv
  <2>2. focus' = "entitled" => StudioInv'
    BY StepsOfParts, EntitledMoves, StudioKeeps DEF OfferedInv
  <2>3. focus' = "entitled" => AccessInv'
    BY StepsOfParts, AccessKeeps DEF OfferedInv
  <2>4. focus' = "declared" => InventoryInv'
    BY StepsOfParts, InventoryKeeps DEF OfferedInv
  <2>5. focus' = "broker" => BrokerInv'
    BY StepsOfParts, BrokerKeeps DEF OfferedInv
  <2> QED BY <2>1, <2>2, <2>3, <2>4, <2>5 DEF OfferedInv
<1>3. OfferedInv => OnlyCurrentIsOffered
  <2>1. InventoryInv => Declared!InventoryOpens
    BY DEF InventoryInv
  <2>2. BrokerInv => Broker!TypeOK
    BY DEF BrokerInv
  <2> QED BY <2>1, <2>2, ProbedIsThere, ByHandAtLast, EntitledIsThere, AccessBacks,
             BrokerIsCurrent, BrokerHoldsForMore DEF OfferedInv, OnlyCurrentIsOffered
<1> QED BY <1>1, <1>2, <1>3, PTL DEF PermissionsSpec

\* What the first launches and a removal keep true, each in the behaviours about it.
DataInv ==
    /\ focus = "bootstrap" => BootInv
    /\ focus = "removal" => RemovalInv

\* profiles.py, uninstall.py: however many launches race and die, and whoever has the lease, what
\* a launch is told of is there; and a removal takes only what is its own.
ToldAndKept ==
    /\ focus = "bootstrap" => Bootstrap!ToldIsThere
    /\ focus = "removal" => Removal!RemovalTakesOnlyItself

\* profiles.py, uninstall.py: of the lease this asks nothing.
THEOREM DataIsKept == PermissionsSpec => []ToldAndKept
<1>1. PermissionsInit => DataInv
  BY BootStarts, RemovalStarts DEF PermissionsInit, DataInv
<1>2. DataInv /\ [PermissionsNext]_permissionVars => DataInv'
  <2> SUFFICES ASSUME DataInv, [PermissionsNext]_permissionVars PROVE DataInv'
    OBVIOUS
  <2>1. focus' = "bootstrap" => BootInv'
    BY StepsOfParts, BootKeeps DEF DataInv
  <2>2. focus' = "removal" => RemovalInv'
    BY StepsOfParts, RemovalKeepsItsPlan DEF DataInv
  <2> QED BY <2>1, <2>2 DEF DataInv
<1>3. DataInv => ToldAndKept
  BY BootIsWhole, RemovalIsSafe DEF DataInv, ToldAndKept
<1> QED BY <1>1, <1>2, <1>3, PTL DEF PermissionsSpec

\* profiles.py over instance.py: for any number of launches and deaths, and as long as no two
\* launches were told that they have the lease, the first profile is made once and whole, and a
\* removal takes only what is its own.
THEOREM DataIsSafe == PermissionsSpec /\ []Exclusive => []DataIsMadeOnceAndKept
<1> DEFINE Inv == DataInv /\ (focus = "bootstrap" => OneMaker)
<1>1. PermissionsInit => Inv
  BY BootStarts, RemovalStarts DEF PermissionsInit, DataInv
<1>2. Inv /\ Exclusive /\ [PermissionsNext]_permissionVars => Inv'
  <2> SUFFICES ASSUME Inv, Exclusive, [PermissionsNext]_permissionVars PROVE Inv'
    OBVIOUS
  <2>1. focus' = "bootstrap" => BootInv'
    BY StepsOfParts, BootKeeps DEF DataInv
  <2>2. focus' = "removal" => RemovalInv'
    BY StepsOfParts, RemovalKeepsItsPlan DEF DataInv
  <2>3. focus' = "bootstrap" => OneMaker'
    BY StepsOfParts, OneMakerKeeps DEF DataInv
  <2> QED BY <2>1, <2>2, <2>3 DEF DataInv
<1>3. Inv => DataIsMadeOnceAndKept
  BY BootIsWhole, BootIsOne, RemovalIsSafe DEF DataInv, DataIsMadeOnceAndKept
<1> HIDE DEF Inv
<1> QED BY <1>1, <1>2, <1>3, PTL DEF PermissionsSpec

=============================================================================

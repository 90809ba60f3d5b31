------------------------ MODULE CollaborationHandoff ------------------------
(***************************************************************************)
(* n0te/collaboration_handoff.py: one Version of a Song is handed to one   *)
(* person, who gives feedback, which is resolved once: dismissed, or       *)
(* addressed by a later Version.  Calls read first and write in a          *)
(* transaction of their own; the triggers decide on what they find then.   *)
(***************************************************************************)
EXTENDS Naturals, FiniteSets

CONSTANTS
    Collaborators,  \* recorded people
    Packages,       \* fresh package ids (a bound)
    Feedback,       \* fresh feedback ids (a bound)
    Notes,          \* reasons of a revocation, notes of a resolution
    MaxOrdinal,     \* Versions of the Song (a bound)
    MaxPackageCalls \* calls that have read and not yet written (a bound)

VARIABLES
    withAssets,   \* the Song's Versions by ordinal: whether it has an Asset
    packages,     \* collab_handoff_packages
    feedback,     \* collab_handoff_feedback
    packageCalls  \* calls between their reads and their write

vars == <<withAssets, packages, feedback, packageCalls>>

NoPackage == [state |-> "NONE"]
NoFeedback == [state |-> "NONE"]
Ordinals == DOMAIN withAssets
Resolved == {"ADDRESSED", "DISMISSED"}
Made == {k \in Packages : packages[k] # NoPackage}
Given == {f \in Feedback : feedback[f] # NoFeedback}

TypeOK ==
    /\ withAssets \in UNION {[1..n -> BOOLEAN] : n \in 0..MaxOrdinal}
    /\ \A k \in Made : /\ packages[k].state \in {"PREPARED", "REVOKED"}
                       /\ packages[k].person \in Collaborators
                       /\ (packages[k].state = "REVOKED") = (packages[k].reason \in Notes)
    /\ \A f \in Given : /\ feedback[f].state \in Resolved \cup {"OPEN"}
                        /\ feedback[f].package \in Made
    /\ Cardinality(packageCalls) <= MaxPackageCalls

Init ==
    /\ withAssets = <<>>
    /\ packages = [k \in Packages |-> NoPackage]
    /\ feedback = [f \in Feedback |-> NoFeedback]
    /\ packageCalls = {}

-----------------------------------------------------------------------------
(* What the triggers on the two tables allow. *)

MayRevoke(k) == packages[k].state = "PREPARED"
MayGive(f, k) == feedback[f] = NoFeedback /\ packages[k].state = "PREPARED"
MayResolve(f) == feedback[f].state = "OPEN"

-----------------------------------------------------------------------------
\* A Version and its Assets are recorded in one transaction, for good.
Create_version(assets) ==
    /\ Cardinality(Ordinals) < MaxOrdinal
    /\ withAssets' = [n \in 1..(Cardinality(Ordinals) + 1) |->
                         IF n \in Ordinals THEN withAssets[n] ELSE assets]
    /\ UNCHANGED <<packages, feedback, packageCalls>>

\* Mutant: no unique index on the prepared packages.
PrepareAnother(k, n, person) ==
    /\ packages[k] = NoPackage
    /\ withAssets[n]
    /\ packages' = [packages EXCEPT ![k] =
          [version |-> n, person |-> person, state |-> "PREPARED", reason |-> "none"]]
    /\ UNCHANGED <<withAssets, feedback, packageCalls>>

\* Its reads cannot grow stale; collab_one_prepared_package_per_person_version is unique.
Prepare_package(k, n, person) ==
    /\ packages[k] = NoPackage
    /\ withAssets[n]
    /\ ~\E other \in Made : /\ packages[other].state = "PREPARED"
                            /\ packages[other].version = n
                            /\ packages[other].person = person
    /\ packages' = [packages EXCEPT ![k] =
          [version |-> n, person |-> person, state |-> "PREPARED", reason |-> "none"]]
    /\ UNCHANGED <<withAssets, feedback, packageCalls>>

\* A call whose checks have passed.  One that finds its own outcome on record
\* already returns it, and one that finds another raises.
Reads(call) ==
    /\ Cardinality(packageCalls) < MaxPackageCalls
    /\ packageCalls' = packageCalls \cup {call}
    /\ UNCHANGED <<withAssets, packages, feedback>>

Writes(call) == call \in packageCalls /\ packageCalls' = packageCalls \ {call}

RevokeReads(k, reason) ==
    /\ MayRevoke(k)
    /\ Reads([op |-> "revoke", package |-> k, reason |-> reason])

\* The update names only the id: collab_package_revoked_immutable protects the first.
RevokeWrites(call) ==
    /\ call.op = "revoke"
    /\ Writes(call)
    /\ packages' = [packages EXCEPT ![call.package] =
          IF MayRevoke(call.package) THEN [@ EXCEPT !.state = "REVOKED", !.reason = call.reason] ELSE @]
    /\ UNCHANGED <<withAssets, feedback>>

FeedbackReads(f, k) ==
    /\ MayGive(f, k)
    /\ Reads([op |-> "feedback", feedback |-> f, package |-> k])

\* Mutant: the package is taken as it was read.
FeedbackWritesLate(call) ==
    /\ call.op = "feedback"
    /\ Writes(call)
    /\ feedback[call.feedback] = NoFeedback
    /\ feedback' = [feedback EXCEPT ![call.feedback] = [package |-> call.package,
          state |-> "OPEN", response |-> 0, note |-> "none",
          sentTo |-> packages[call.package].state]]
    /\ UNCHANGED <<withAssets, packages>>

\* collab_feedback_package_binding; sentTo remembers what the package was by then.
FeedbackWrites(call) ==
    /\ call.op = "feedback"
    /\ Writes(call)
    /\ feedback' = [feedback EXCEPT ![call.feedback] =
          IF MayGive(call.feedback, call.package)
          THEN [package |-> call.package, state |-> "OPEN", response |-> 0, note |-> "none",
                sentTo |-> "PREPARED"]
          ELSE @]
    /\ UNCHANGED <<withAssets, packages>>

\* An addressed feedback names a later Version of the Song, a dismissed one none.
ResolveReads(f, outcome, note, n) ==
    /\ MayResolve(f)
    /\ IF outcome = "ADDRESSED" THEN n \in Ordinals /\ n > packages[feedback[f].package].version
                                ELSE n = 0
    /\ Reads([op |-> "resolve", feedback |-> f, outcome |-> outcome, note |-> note, response |-> n])

\* Mutant: the update names only the id, and no trigger protects the first outcome.
ResolveWritesAgain(call) ==
    /\ call.op = "resolve"
    /\ Writes(call)
    /\ feedback' = [feedback EXCEPT ![call.feedback] =
          [@ EXCEPT !.state = call.outcome, !.note = call.note, !.response = call.response]]
    /\ UNCHANGED <<withAssets, packages>>

\* collab_feedback_resolved_immutable protects the first outcome.
ResolveWrites(call) ==
    /\ call.op = "resolve"
    /\ Writes(call)
    /\ feedback' = [feedback EXCEPT ![call.feedback] =
          IF MayResolve(call.feedback)
          THEN [@ EXCEPT !.state = call.outcome, !.note = call.note, !.response = call.response]
          ELSE @]
    /\ UNCHANGED <<withAssets, packages>>

Next ==
    \/ \E assets \in BOOLEAN : Create_version(assets)
    \/ \E k \in Packages, n \in Ordinals, person \in Collaborators : Prepare_package(k, n, person)
    \/ \E k \in Made, reason \in Notes : RevokeReads(k, reason)
    \/ \E f \in Feedback, k \in Made : FeedbackReads(f, k)
    \/ \E f \in Given, outcome \in Resolved, note \in Notes, n \in Ordinals \cup {0} :
          ResolveReads(f, outcome, note, n)
    \/ \E call \in packageCalls : RevokeWrites(call) \/ FeedbackWrites(call) \/ ResolveWrites(call)

Spec == Init /\ [][Next]_vars

-----------------------------------------------------------------------------
(* Properties.                                                             *)

\* _validate_existing: a person holds one prepared package of a Version, packages
\* have Assets, and what addresses feedback is a later Version.
PackagesOpen ==
    /\ \A k, other \in Made :
          /\ withAssets[packages[k].version]
          /\ /\ k # other /\ packages[k].state = "PREPARED" /\ packages[other].state = "PREPARED"
             /\ packages[k].person = packages[other].person
             => packages[k].version # packages[other].version
    /\ \A f \in Given :
          IF feedback[f].state = "ADDRESSED"
          THEN feedback[f].response \in Ordinals
               /\ feedback[f].response > packages[feedback[f].package].version
          ELSE feedback[f].response = 0

\* No feedback is recorded against a package revoked by then, although record_feedback
\* looks before its transaction.
NoFeedbackAfterRevocation == \A f \in Given : feedback[f].sentTo = "PREPARED"

\* The first revocation and the first resolution stand, reason and note included, for
\* calls that all read before either was there.
PackageOutcomesStand ==
    [][/\ \A k \in Made : packages[k].state = "REVOKED" => packages'[k] = packages[k]
       /\ \A f \in Given : feedback[f].state \in Resolved => feedback'[f] = feedback[f]]_vars

=============================================================================

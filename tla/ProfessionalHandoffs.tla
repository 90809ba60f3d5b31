------------------------ MODULE ProfessionalHandoffs ------------------------
(***************************************************************************)
(* n0te/professional_handoffs.py over the lineage: a package of work is    *)
(* handed over under a contract that says which pointers of its Song must  *)
(* not move.  That they moved is recorded only when somebody looks.        *)
(***************************************************************************)
EXTENDS SongVersions

CONSTANTS Handoffs   \* fresh handoff ids (a bound), in the order they are used

VARIABLES
    handoffs,   \* professional_handoffs, in the order of seq
    returning,  \* return_submission calls that found their handoff SUBMITTED
    moved       \* the accepted handoffs one of whose watched pointers has moved since

vars == <<versionOf, current, approved, handoffs, returning, moved>>

Policies == {"EXACT", "CURRENT", "CURRENT_APPROVED"}
States == {"SUBMITTED", "RETURNED", "ACCEPTED", "STALE"}
Terminal == {"RETURNED", "STALE"}
Made == DOMAIN handoffs

TypeOK ==
    /\ LineageTypeOK
    /\ Made = 1..Cardinality(Made) /\ Cardinality(Made) <= Handoffs
    /\ \A h \in Made :
          /\ handoffs[h].song \in Songs /\ handoffs[h].upstream \in Versions
          /\ handoffs[h].policy \in Policies /\ handoffs[h].state \in States
          /\ handoffs[h].supersedes \in Made \cup {None}
    /\ returning \subseteq Made /\ moved \subseteq Made

Init == LineageInit /\ handoffs = <<>> /\ returning = {} /\ moved = {}

-----------------------------------------------------------------------------
\* Mutant: the approved Version alone is looked at.
PolicyAsksApproval(song, v, policy) == policy = "CURRENT_APPROVED" => approved[song] = v

\* _policy_submission_error finds nothing.
PolicyAllows(song, v, policy) ==
    /\ policy # "EXACT" => current[song] = v
    /\ policy = "CURRENT_APPROVED" => approved[song] = v

\* The watched pointers of a handoff are where they were when it was prepared.
Fresh(h) ==
    LET it == handoffs[h] IN
    /\ it.policy # "EXACT" => current[it.song] = it.expectedCurrent
    /\ it.policy = "CURRENT_APPROVED" => approved[it.song] = it.expectedApproved

\* Mutant: an open handoff may be superseded too.
MaySupersedeAny(h, song, policy) ==
    handoffs[h].song = song /\ handoffs[h].policy = policy

\* submit's check and professional_handoff_supersedes_valid; a contract is its policy.
MaySupersede(h, song, policy) ==
    /\ handoffs[h].state \in Terminal
    /\ handoffs[h].song = song
    /\ handoffs[h].policy = policy

\* submit and, through it, resubmit: inputs that are missing return the package at once.
Submit(song, v, policy, complete, prior) ==
    /\ Cardinality(Made) < Handoffs
    /\ v \in VersionsOf(song)
    /\ PolicyAllows(song, v, policy)
    /\ prior # None => MaySupersede(prior, song, policy)
    /\ handoffs' = [h \in Made \cup {Cardinality(Made) + 1} |->
          IF h \in Made THEN handoffs[h] ELSE
          [song |-> song, upstream |-> v, policy |-> policy, supersedes |-> prior,
           state |-> IF complete THEN "SUBMITTED" ELSE "RETURNED",
           expectedCurrent |-> current[song], expectedApproved |-> approved[song]]]
    /\ UNCHANGED <<lineage, returning, moved>>

Becomes(h, state) == handoffs' = [handoffs EXCEPT ![h].state = state]

\* One transaction; a handoff found stale is recorded so, and the call raises.
Accept(h) ==
    /\ handoffs[h].state = "SUBMITTED"
    /\ Becomes(h, IF Fresh(h) THEN "ACCEPTED" ELSE "STALE")
    /\ UNCHANGED <<lineage, returning, moved>>

Verify_freshness(h) ==
    /\ handoffs[h].state \in {"SUBMITTED", "ACCEPTED"}
    /\ ~Fresh(h)
    /\ Becomes(h, "STALE")
    /\ UNCHANGED <<lineage, returning, moved>>

\* return_submission reads the handoff before its transaction.
ReturnReads(h) ==
    /\ handoffs[h].state = "SUBMITTED"
    /\ returning' = returning \cup {h}
    /\ UNCHANGED <<lineage, handoffs, moved>>

\* Mutant: the update is bound to the id alone, and no trigger guards the state.
ReturnWritesAnyway(h) ==
    /\ h \in returning
    /\ returning' = returning \ {h}
    /\ Becomes(h, "RETURNED")
    /\ UNCHANGED <<lineage, moved>>

\* An update of no row raises.
ReturnWrites(h) ==
    /\ h \in returning
    /\ returning' = returning \ {h}
    /\ IF handoffs[h].state = "SUBMITTED" THEN Becomes(h, "RETURNED") ELSE UNCHANGED handoffs
    /\ UNCHANGED <<lineage, moved>>

\* A move of a pointer, and the accepted handoffs that watch it.
PointerMoves ==
    /\ LineageNext
    /\ UNCHANGED <<handoffs, returning>>
    /\ moved' = moved \cup {h \in Made : handoffs[h].state = "ACCEPTED" /\ ~Fresh(h)'}

Next ==
    \/ PointerMoves
    \/ \E song \in Songs, v \in Versions, policy \in Policies, complete \in BOOLEAN,
          prior \in Made \cup {None} : Submit(song, v, policy, complete, prior)
    \/ \E h \in Made : Accept(h) \/ Verify_freshness(h) \/ ReturnReads(h) \/ ReturnWrites(h)

Spec == Init /\ [][Next]_vars

-----------------------------------------------------------------------------
(* Properties.                                                             *)

\* What verify_freshness calls CURRENT rests on the very Version that was handed
\* over, which is the Song's current (and approved) one.
CurrentMeansExact ==
    \A h \in Made : handoffs[h].state = "ACCEPTED" /\ Fresh(h) =>
        LET it == handoffs[h] IN
        /\ it.policy # "EXACT" => it.upstream = current[it.song]
        /\ it.policy = "CURRENT_APPROVED" => it.upstream = approved[it.song]

\* _validate_existing: a package supersedes only an earlier, closed one of its Song
\* and contract, whatever happened to that one meanwhile.
HandoffsOpen ==
    \A h \in Made : handoffs[h].supersedes # None =>
        LET prior == handoffs[handoffs[h].supersedes] IN
        /\ handoffs[h].supersedes < h
        /\ prior.state \in Terminal
        /\ prior.song = handoffs[h].song /\ prior.policy = handoffs[h].policy

\* An acceptance can only go stale, and a returned or stale package never comes back,
\* although accept and return_submission decide on what they read.
HandoffOutcomesStand ==
    [][\A h \in Made :
          /\ handoffs[h].state \in Terminal => handoffs'[h] = handoffs[h]
          /\ handoffs[h].state = "ACCEPTED" => handoffs'[h].state \in {"ACCEPTED", "STALE"}]_vars

\* The class comment: accepted work becomes permanently STALE once a watched pointer
\* moves; moving it back does not resurrect the old receipt.
MovedIsNeverCurrent ==
    \A h \in moved : ~(handoffs[h].state = "ACCEPTED" /\ Fresh(h))

=============================================================================

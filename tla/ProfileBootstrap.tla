-------------------------- MODULE ProfileBootstrap --------------------------
(***************************************************************************)
(* profiles.py: several launches find out which profile to open, and make  *)
(* the first one under the lease "__profile_bootstrap__", taken and given  *)
(* back as InstanceLease has it, file by file; any of them may die on the  *)
(* way, and what it left is taken over.                                    *)
(***************************************************************************)
EXTENDS InstanceLease

\* Each of Launches resolves a profile once, and may make one profile.
CONSTANT Nobody  \* no launch

VARIABLES
    stage,    \* how far each launch is
    dirs,     \* data_root/profiles: the profile each launch made, "none", "partial" or "whole"
    created,  \* what each launch has to tell when it comes to release the lease
    result    \* what each launch was told: a state, and the profile selected

bootstrapVars == <<vars, stage, dirs, created, result>>

Unanswered == [state |-> "NONE", selected |-> Nobody]

\* There may be one profile, whole or not, from before.
BootstrapInit ==
    /\ Init
    /\ stage = [l \in Launches |-> "idle"]
    /\ dirs \in [Launches -> {"none"}] \cup {[l \in Launches |-> IF l = m THEN state ELSE "none"] :
                                               m \in Launches, state \in {"partial", "whole"}}
    /\ created = [l \in Launches |-> Unanswered]
    /\ result = [l \in Launches |-> Unanswered]

-----------------------------------------------------------------------------

Answer(state, selected) == [state |-> state, selected |-> selected]

\* discover: every candidate directory is a profile or an issue.
Discover ==
    [profiles |-> {l \in Launches : dirs[l] = "whole"},
     issues |-> {l \in Launches : dirs[l] = "partial"}]

\* _existing_resolution: what the catalog answers by itself, or nothing.
Existing(catalog, selected) ==
    IF catalog.issues # {} THEN Answer("RECOVERY_REQUIRED", Nobody)
    ELSE IF selected # Nobody THEN
        IF selected \in catalog.profiles THEN Answer("SELECTED_EXISTING", selected)
        ELSE Answer("REFUSED", Nobody)
    ELSE IF Cardinality(catalog.profiles) = 1 THEN
        Answer("SELECTED_EXISTING", CHOOSE p \in catalog.profiles : TRUE)
    ELSE IF catalog.profiles # {} THEN Answer("NEEDS_SELECTION", Nobody)
    ELSE Unanswered

Goes(l, to) == stage' = [stage EXCEPT ![l] = to]
Tells(l, answer) == result' = [result EXCEPT ![l] = answer] /\ Goes(l, "ended")

\* A launch that lives and is in no call of the lease.
Is(l, where) == l \notin dead /\ at[l].pc = "idle" /\ stage[l] = where

\* resolve, up to the lease; without an artist's name nothing is made.
Resolve(l) ==
    /\ Is(l, "idle")
    /\ \E selected \in {Nobody} \cup {p \in Launches : dirs[p] = "whole"}, named \in BOOLEAN :
          LET existing == Existing(Discover, selected) IN
          IF existing # Unanswered THEN Tells(l, existing)
          ELSE IF ~named THEN Tells(l, Answer("NEEDS_CREATION", Nobody))
          ELSE Goes(l, "wants") /\ UNCHANGED result
    /\ UNCHANGED <<dirs, created, vars>>

\* acquire is called, and takes its steps among those of the others; so does release.
Ask(l) ==
    /\ Is(l, "wants") /\ Acquire(l)
    /\ Goes(l, "asks") /\ UNCHANGED <<dirs, created, result>>
LeaseStep(l) == Step(l) /\ UNCHANGED <<stage, dirs, created, result>>

\* What acquire returned, when it is not ownership; "RAISED" when it raised.
Refusal(outcome) ==
    Answer(CASE outcome \in {"HELD_BY_OTHER", "ALREADY_OWNED"} -> "BOOTSTRAP_BUSY"
             [] outcome = "UNCERTAIN" -> "RECOVERY_REQUIRED"
             [] OTHER -> "RAISED", Nobody)

\* The result of acquire is looked at.
Asked(l) ==
    /\ Is(l, "asks")
    /\ IF at[l].outcome \in {"ACQUIRED", "REPLACED_STALE"} /\ at[l].holds # Missing
       THEN Goes(l, "holds") /\ UNCHANGED result
       ELSE Tells(l, Refusal(at[l].outcome))
    /\ UNCHANGED <<dirs, created, vars>>

\* finally: whatever there is to tell, the lease is given back first.
Releases(l, answer) ==
    /\ created' = [created EXCEPT ![l] = answer]
    /\ Goes(l, "releases") /\ Release(l) /\ UNCHANGED result

\* Mutant: what was seen before the lease still counts.
RecheckNothing(l) == Unanswered

\* The catalog, now that nobody else makes a profile.
Recheck(l) == Existing(Discover, Nobody)

\* The second discover, under the lease.
Look(l) ==
    /\ Is(l, "holds")
    /\ IF Recheck(l) # Unanswered
       THEN Releases(l, Recheck(l))
       ELSE Goes(l, "creates") /\ UNCHANGED <<created, result, vars>>
    /\ UNCHANGED dirs

\* LineageStore.create makes the directory, if it can, then the database in it ...
Make(l) ==
    /\ Is(l, "creates")
    /\ \/ /\ dirs' = [dirs EXCEPT ![l] = "partial"]
          /\ Goes(l, "fills") /\ UNCHANGED <<created, result, vars>>
       \/ Releases(l, Answer("RECOVERY_REQUIRED", Nobody)) /\ UNCHANGED dirs

\* ... and leaves what there is of it when it fails; closing the store may fail as well.
Fill(l) ==
    /\ Is(l, "fills")
    /\ \/ Releases(l, Answer("RECOVERY_REQUIRED", Nobody)) /\ UNCHANGED dirs
       \/ /\ \E state \in {"CREATED", "RECOVERY_REQUIRED"} : Releases(l, Answer(state, l))
          /\ dirs' = [dirs EXCEPT ![l] = "whole"]

\* The lease is given back, or the answer becomes a recovery.
Released(l) ==
    /\ Is(l, "releases")
    /\ Tells(l, IF at[l].outcome = "RELEASED" THEN created[l]
                ELSE [created[l] EXCEPT !.state = "RECOVERY_REQUIRED"])
    /\ UNCHANGED <<dirs, created, vars>>

\* A launch that was answered may end; one in a call, or with the lease, may die.
End(l) ==
    /\ stage[l] = "ended" /\ Exit(l)
    /\ UNCHANGED <<stage, dirs, created, result>>
Die(l) == Crash(l) /\ UNCHANGED <<stage, dirs, created, result>>

BootstrapNext ==
    \E l \in Launches :
        Resolve(l) \/ Ask(l) \/ LeaseStep(l) \/ Asked(l) \/ Look(l) \/ Make(l) \/ Fill(l)
          \/ Released(l) \/ End(l) \/ Die(l)

BootstrapSpec == BootstrapInit /\ [][BootstrapNext]_bootstrapVars

-----------------------------------------------------------------------------
(* Properties.                                                             *)

\* "corrupt valid looking profile blocks silent new identity" (test_profile_bootstrap.py): however launches race
\* and die, an installation that had no profile gets one directory and no other, and one that
\* had a profile, whole or not, keeps it alone; as long as the lease has one holder.
OneFirstProfile == Cardinality({l \in Launches : dirs[l] # "none"}) <= 1

\* A launch that is told of a profile is told of one that is there and can be opened.
ToldIsThere ==
    \A l \in Launches : result[l].selected # Nobody => dirs[result[l].selected] = "whole"

=============================================================================

---------------------------- MODULE RemovalPlan ----------------------------
(***************************************************************************)
(* uninstall.py: what an uninstaller may remove.  The planner goes through *)
(* the runtime roots of the platform in their order and classifies each    *)
(* against the artist's data and against those before it; then through the *)
(* paths the platform's package manager keeps.  Nothing is deleted here.   *)
(***************************************************************************)
EXTENDS Naturals, Sequences, SequencesExt

CONSTANTS
    Paths,     \* paths, sequences of parts
    Packages   \* of them, those a package manager may claim

VARIABLES
    data,      \* data_root; profiles and their recovery snapshots are below it
    roots,     \* config_root, state_root, cache_root and log_root, in this order
    packages,  \* platform_managed_paths
    verified,  \* paths there is canonical, non-symlink evidence of
    state,     \* runtime_state of the profile
    entries,   \* the plan so far: [path, class]
    done       \* roots and packages gone through, or "REFUSED"

vars == <<data, roots, packages, verified, state, entries, done>>

Init ==
    /\ data \in Paths /\ roots \in [1..4 -> Paths]
    /\ packages \in {<<>>} \cup {<<p>> : p \in Packages}
    /\ verified \in {Paths} \cup {Paths \ {p} : p \in Paths}
    /\ state \in {"STOPPED", "RUNNING"}
    /\ entries = <<[path |-> data, class |-> "RETAIN_DURABLE_DATA"]>>
    /\ done = [roots |-> 0, packages |-> 0, refused |-> FALSE]

Within(path, parent) == IsPrefix(parent, path)

\* Mutant: a root that holds the data is not below it.
OverlapsDownwards(a, b) == Within(a, b)

Overlap(a, b) == Within(a, b) \/ Within(b, a)

\* The runtime roots gone through: all that was entered after the data root.
Prior == {entries[i].path : i \in 2..Len(entries)}

\* Mutant: a root is looked at by itself.
ClassByItself(path) ==
    IF Overlap(path, data) THEN "RETAIN_OVERLAP"
    ELSE IF state # "STOPPED" THEN "BLOCKED_RUNTIME_ACTIVE"
    ELSE IF path \notin verified THEN "BLOCKED_UNVERIFIED_PATH"
    ELSE "REMOVABLE_RUNTIME_STATE"

\* "SEEN" gets no entry, and "REFUSED" ends the plan.
Class(path) ==
    IF path = data \/ path \in Prior THEN "SEEN"
    ELSE IF Overlap(path, data) THEN "RETAIN_OVERLAP"
    ELSE IF \E p \in Prior : Within(path, p) THEN "COVERED_RUNTIME_STATE"
    ELSE IF \E p \in Prior : Within(p, path) THEN "REFUSED"
    ELSE IF state # "STOPPED" THEN "BLOCKED_RUNTIME_ACTIVE"
    ELSE IF path \notin verified THEN "BLOCKED_UNVERIFIED_PATH"
    ELSE "REMOVABLE_RUNTIME_STATE"

Enters(path, class) == entries' = Append(entries, [path |-> path, class |-> class])

\* A platform-managed path overlaps nothing the plan knows.
Managed(path) ==
    IF \E i \in DOMAIN entries : Overlap(path, entries[i].path) THEN "REFUSED"
    ELSE IF path \notin verified THEN "BLOCKED_UNVERIFIED_PATH"
    ELSE "PLATFORM_MANAGED"

PlanRoot ==
    /\ ~done.refused /\ done.roots < 4
    /\ LET path == roots[done.roots + 1] IN
       IF Class(path) = "REFUSED" THEN done' = [done EXCEPT !.refused = TRUE] /\ UNCHANGED entries
       ELSE /\ done' = [done EXCEPT !.roots = @ + 1]
            /\ IF Class(path) = "SEEN" THEN UNCHANGED entries ELSE Enters(path, Class(path))
    /\ UNCHANGED <<data, roots, packages, verified, state>>

PlanPackage ==
    /\ ~done.refused /\ done.roots = 4 /\ done.packages < Len(packages)
    /\ LET path == packages[done.packages + 1] IN
       IF Managed(path) = "REFUSED"
       THEN done' = [done EXCEPT !.refused = TRUE] /\ UNCHANGED entries
       ELSE done' = [done EXCEPT !.packages = @ + 1] /\ Enters(path, Managed(path))
    /\ UNCHANGED <<data, roots, packages, verified, state>>

Next == PlanRoot \/ PlanPackage

Spec == Init /\ [][Next]_vars

-----------------------------------------------------------------------------
(* Properties.                                                             *)

Planned == {entries[i] : i \in DOMAIN entries}
Removable == {e \in Planned : e.class = "REMOVABLE_RUNTIME_STATE"}

\* "shared uninstall policy must bias toward retention": removing a candidate takes nothing of
\* the artist's data, nor anything else of the plan but roots covered by that candidate, so no
\* two candidates remove the same thing.  A candidate may be below a root that is kept, but
\* only for the data that root holds as well, and only if the root is listed after it.
RemovalTakesOnlyItself ==
    \A e \in Removable :
        /\ state = "STOPPED" /\ ~Overlap(e.path, data)
        /\ \A f \in Planned \ {e} :
              /\ Within(f.path, e.path) => f.class = "COVERED_RUNTIME_STATE"
              /\ Within(e.path, f.path) =>
                    \E g \in Planned : /\ g.class = "RETAIN_OVERLAP"
                                       /\ Within(data, g.path) /\ Within(f.path, g.path)

=============================================================================

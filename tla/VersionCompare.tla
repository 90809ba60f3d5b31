--------------------------- MODULE VersionCompare ---------------------------
(***************************************************************************)
(* n0te/version_compare.py, version_compare_shell.py and                   *)
(* version_compare_decision.py: the page on which the current Version of   *)
(* the active Song is heard against a reference, and the artist's decision *)
(* about that pair, while Versions and their bytes change below it.        *)
(***************************************************************************)
EXTENDS SongMaterial, FiniteSetsExt

CONSTANTS
    MaxPages,      \* bound on the pages rendered
    MaxDecisions   \* bound on the decisions recorded

VARIABLES
    active,      \* metadata active_song_id
    pages,       \* comparisons rendered so far, with a form when both sides could be heard
    deciding,    \* POST /compare/decide under way
    decisions    \* version_compare_decisions, oldest first

compareVars == <<vars, active, pages, deciding, decisions>>

Pairs == [song : Songs, reference : DOMAIN versions, current : DOMAIN versions]
NoPair == [song |-> Null, reference |-> Null, current |-> Null]
NotDeciding == [at |-> "idle", pair |-> NoPair]

CompareTypeOK ==
    /\ TypeOK
    /\ active \in Songs \cup {Null}
    /\ \A p \in pages : p \in Pairs
    /\ deciding.at \in {"idle", "posted", "current heard", "both heard"}
    /\ deciding.pair \in Pairs \cup {NoPair}
    /\ \A i \in DOMAIN decisions : decisions[i] \in Pairs

CompareInit ==
    /\ Init
    /\ active = Null /\ pages = {} /\ deciding = NotDeciding /\ decisions = <<>>

\* Mutant: the nearest Version is the newest one.
ReferenceForNewest(v) ==
    LET peers == VersionsOf(versions[v].song) \ {v}
    IN  IF versions[v].parent # Null THEN versions[v].parent
        ELSE IF peers # {} THEN Max(peers)
        ELSE Null

\* _reference_for: the parent of a Version, or the nearest Version before it, or after it.
ReferenceFor(v) ==
    LET peers == VersionsOf(versions[v].song) \ {v}
        earlier == {p \in peers : p < v}
    IN  IF versions[v].parent # Null THEN versions[v].parent
        ELSE IF earlier # {} THEN Max(earlier)
        ELSE IF peers # {} THEN Min(peers)
        ELSE Null

\* _side: a Version can be heard when its bytes are managed and verified just now.
Auditionable(v) == View_asset(v) = "VERIFIED_MANAGED"

\* The two Versions of a Song that prepare compares now, Null when there is no such pair.
PairOf(song) ==
    [song |-> song, current |-> current[song],
     reference |-> IF current[song] = Null THEN Null ELSE ReferenceFor(current[song])]

\* GET /compare: the pair is bound to a one-use action when both sides can be heard.
Render_page ==
    /\ active # Null /\ Cardinality(pages) < MaxPages
    /\ LET pair == PairOf(active)
       IN  /\ pair.reference # Null
           /\ Auditionable(pair.current) /\ Auditionable(pair.reference)
           /\ pages' = pages \cup {pair}
    /\ UNCHANGED <<vars, active, deciding, decisions>>

\* _post_compare_decision consumes the action and prepares the comparison again: it reads the
\* Song and hears its current Version ...
Post_decision(pair) ==
    /\ deciding.at = "idle" /\ pair \in pages
    /\ deciding' = [at |-> "posted", pair |-> pair]
    /\ pages' = pages \ {pair}
    /\ UNCHANGED <<vars, active, decisions>>

Hear_current ==
    /\ deciding.at = "posted"
    /\ deciding' =
          IF active = deciding.pair.song /\ current[active] = deciding.pair.current
             /\ Auditionable(deciding.pair.current)
          THEN [deciding EXCEPT !.at = "current heard"] ELSE NotDeciding
    /\ UNCHANGED <<vars, active, pages, decisions>>

\* ... and then its reference, from a Song that may have moved on.
Hear_reference ==
    /\ deciding.at = "current heard"
    /\ deciding' =
          IF ReferenceFor(deciding.pair.current) = deciding.pair.reference
             /\ Auditionable(deciding.pair.reference)
          THEN [deciding EXCEPT !.at = "both heard"] ELSE NotDeciding
    /\ UNCHANGED <<vars, active, pages, decisions>>

\* Mutant: what the comparison just found is not looked at again.
StillThePairAsFound(pair) == {pair.reference, pair.current} \subseteq VersionsOf(pair.song)

\* What record requires inside its transaction.
StillThePair(pair) ==
    /\ active = pair.song
    /\ current[pair.song] = pair.current
    /\ pair.reference # pair.current
    /\ {pair.reference, pair.current} \subseteq VersionsOf(pair.song)

\* VersionCompareDecisionMemory.record: refused when the pair moved.
Record ==
    /\ deciding.at = "both heard"
    /\ IF StillThePair(deciding.pair)
          THEN decisions' = Append(decisions, deciding.pair)
          ELSE UNCHANGED decisions
    /\ deciding' = NotDeciding
    /\ UNCHANGED <<vars, active, pages>>

Select_song(song) ==
    /\ active' = song
    /\ UNCHANGED <<vars, pages, deciding, decisions>>

CompareNext ==
    \/ Next /\ UNCHANGED <<active, pages, deciding, decisions>>
    \/ Render_page
    \/ \E pair \in pages : Len(decisions) < MaxDecisions /\ Post_decision(pair)
    \/ Hear_current \/ Hear_reference \/ Record
    \/ \E song \in Songs : Select_song(song)

-----------------------------------------------------------------------------
\* record: a decision is about the pair that was heard, on the Song the artist is at and its
\* current Version, at the moment it is written, whatever moved while it was being posted.  (What a step does.)
DecidedAsHeard ==
    \A i \in DOMAIN decisions' \ DOMAIN decisions :
        /\ active = decisions'[i].song
        /\ current[active] = decisions'[i].current
        /\ ReferenceFor(decisions'[i].current) = decisions'[i].reference

\* _reference_for: a Version that has a reference keeps it for good, whatever is made later:
\* what the artist decided about a pair is shown again whenever that Version is current.
ReferencesStand ==
    \A v \in DOMAIN versions :
        ReferenceFor(v) # Null => ReferenceFor(v)' = ReferenceFor(v)

\* latest_for_pair: a decision that can be read belongs to a pair that can be prepared again.
DecisionsAreFound ==
    \A i \in DOMAIN decisions : ReferenceFor(decisions[i].current) = decisions[i].reference

=============================================================================

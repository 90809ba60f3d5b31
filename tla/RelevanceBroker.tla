--------------------------- MODULE RelevanceBroker ---------------------------
(***************************************************************************)
(* relevance_broker.py: which of the subjects that compete for the         *)
(* artist's attention are raised now.  Subjects are prepared in one        *)
(* context and arbitrated in another, by a broker bound to a third: the    *)
(* artist moves between songs, jobs and a recording meanwhile.             *)
(***************************************************************************)
EXTENDS Naturals, Sequences, FiniteSets

CONSTANTS
    Contexts,      \* bindings: [song, job, operating], an artist's in one profile
    Names,         \* ids of songs and jobs
    Songs, Jobs,   \* what a candidate may be about, NoSong and NoJob included
    NoSong, NoJob, \* no song, or no job, is bound
    Subjects,      \* what a candidate may say of itself, see RelevanceSubject
    MaxCandidates  \* bound

\* A context, and what a candidate says of its subject.
RelevanceContextBinding ==
    [song : Names, job : Names, operating : {"NORMAL", "RECORDING", "LIVE"}]
RelevanceSubject ==
    [alert : BOOLEAN, explicit : BOOLEAN, notNow : BOOLEAN,
     discussion : {"SAFE", "UNSAFE", "UNKNOWN"}, fresh : BOOLEAN, needsFresh : BOOLEAN,
     blocks : BOOLEAN, transaction : {"NONE", "PENDING", "BLOCKING", "AWAITING_ARTIST"},
     decides : BOOLEAN, urgency : {"NONE", "TIME_WINDOW", "DEADLINE"},
     operating : SUBSET {"NORMAL", "RECORDING", "LIVE"}, future : BOOLEAN]

VARIABLES
    now,        \* the context the artist is in
    broker,     \* the context the broker was made for
    candidates, \* [subject, song, job, binding]: what was prepared, where, and about what
    answer      \* the arbitration, when there was one

vars == <<now, broker, candidates, answer>>

None == [none |-> TRUE]

Init ==
    /\ now \in Contexts /\ broker = now
    /\ candidates = {} /\ answer = None

-----------------------------------------------------------------------------
(* _classify                                                               *)

\* _validate_scope: nothing of another song, while there is one; another job is no matter.
InScope(c) == now.song = NoSong \/ c.song \in {NoSong, now.song}

\* _context_reasons: all that a candidate says of where it belongs is so, and it says something.
MatchesContext(c) ==
    /\ c.song # NoSong \/ c.job # NoJob \/ c.subject.operating # {}
    /\ c.song # NoSong => c.song = now.song
    /\ c.job # NoJob => c.job = now.job
    /\ c.subject.operating # {} => now.operating \in c.subject.operating

NormalBands ==
    <<"BLOCKING", "DECISION_CHANGING", "TIME_SENSITIVE", "CURRENT_CONTEXT", "FUTURE_OPTION">>
Mandatory == {"REQUIRED_ALERT", "EXPLICIT_REQUEST"}

\* Mutant: what the artist asked for is answered, wherever it was prepared.
BandOfRequestFirst(c) ==
    LET s == c.subject IN
    IF s.alert THEN "REQUIRED_ALERT"
    ELSE IF s.explicit THEN "EXPLICIT_REQUEST"
    ELSE IF c.binding # now THEN "STALE_CANDIDATE_CONTEXT"
    ELSE IF s.notNow THEN "ARTIST_NOT_NOW"
    ELSE "BACKGROUND"

\* The first that applies.
Band(c) ==
    LET s == c.subject IN
    IF s.alert THEN "REQUIRED_ALERT"
    ELSE IF c.binding # now THEN "STALE_CANDIDATE_CONTEXT"
    ELSE IF s.explicit THEN "EXPLICIT_REQUEST"
    ELSE IF s.notNow THEN "ARTIST_NOT_NOW"
    ELSE IF s.discussion = "UNSAFE" THEN "UNSAFE_TO_DISCUSS"
    ELSE IF s.discussion = "UNKNOWN" THEN "DISCUSSION_UNKNOWN"
    ELSE IF s.needsFresh /\ ~s.fresh THEN "NEEDS_FRESH_EVIDENCE"
    ELSE IF s.blocks \/ s.transaction \in {"BLOCKING", "AWAITING_ARTIST"} THEN "BLOCKING"
    ELSE IF s.decides THEN "DECISION_CHANGING"
    ELSE IF s.urgency # "NONE" THEN "TIME_SENSITIVE"
    ELSE IF MatchesContext(c) THEN "CURRENT_CONTEXT"
    ELSE IF s.future THEN "FUTURE_OPTION"
    ELSE "BACKGROUND"

Banded(cs, band) == {c \in cs : Band(c) = band}

-----------------------------------------------------------------------------
(* arbitrate                                                               *)

\* Mutant: every band that has something is raised.
SurfacedAllBands(cs) == UNION {Banded(cs, NormalBands[i]) : i \in DOMAIN NormalBands}

\* What is required or asked for; else the first normal band there is anything in.
Surfaced(cs) ==
    LET mandatory == {c \in cs : Band(c) \in Mandatory}
        first == {i \in DOMAIN NormalBands :
                    /\ Banded(cs, NormalBands[i]) # {}
                    /\ \A j \in 1..(i - 1) : Banded(cs, NormalBands[j]) = {}} IN
    IF mandatory # {} THEN mandatory ELSE UNION {Banded(cs, NormalBands[i]) : i \in first}

\* Mutant: a broker answers for whatever context it was made for.
AdmitsAnyBinding == \A c \in candidates : InScope(c)

\* StaleRelevanceContextError and RelevanceScopeLeakError otherwise.
Admits == broker = now /\ \A c \in candidates : InScope(c)

Arbitrate ==
    /\ answer = None /\ Admits
    /\ answer' = [surfaced |-> Surfaced(candidates), held |-> candidates \ Surfaced(candidates),
                  by |-> broker]
    /\ UNCHANGED <<now, broker, candidates>>

\* Some subsystem prepares a candidate, in the context that is, about any song or job.
Propose ==
    /\ answer = None /\ Cardinality(candidates) < MaxCandidates
    /\ \E s \in Subjects, song \in Songs, job \in Jobs :
          candidates' = candidates \cup
              {[subject |-> s, song |-> song, job |-> job, binding |-> now]}
    /\ UNCHANGED <<now, broker, answer>>

Move ==
    /\ answer = None /\ now' \in Contexts \ {now}
    /\ UNCHANGED <<broker, candidates, answer>>

Rebind ==
    /\ answer = None /\ broker # now /\ broker' = now
    /\ UNCHANGED <<now, candidates, answer>>

Next == Arbitrate \/ Propose \/ Move \/ Rebind

Spec == Init /\ [][Next]_vars

-----------------------------------------------------------------------------
(* Properties.                                                             *)

\* The broker's dataclasses; a candidate keeps the context it was prepared in.
TypeOK ==
    /\ {now, broker} \subseteq RelevanceContextBinding
    /\ \A c \in candidates :
          c.subject \in RelevanceSubject /\ c.binding \in RelevanceContextBinding

Raised == IF answer = None THEN {} ELSE answer.surfaced
Held == IF answer = None THEN {} ELSE answer.held

\* "exact context identity used to prevent stale arbitration", "Song-bound arbitration cannot
\* consume another Song's candidate": in whatever order subjects are prepared, the artist moves
\* and the broker is made, whatever is raised while there is a song is of that song or of none,
\* a required alert too; and, but for a required alert, it was prepared in the context the artist
\* is in, for a broker of that context, and is neither unsafe to discuss nor put off unless the
\* artist asked.
OnlyCurrentIsRaised ==
    \A c \in Raised :
        /\ now.song # NoSong => c.song \in {NoSong, now.song}
        /\ c.subject.alert \/
            /\ c.binding = now /\ answer.by = now
            /\ c.subject.explicit \/ (~c.subject.notNow /\ c.subject.discussion = "SAFE")

\* One band at a time: while something required or asked for is raised nothing else is, and no
\* candidate is held for one that matters less.
Matters(c) ==
    IF Band(c) \in Mandatory THEN 6
    ELSE Cardinality({i \in DOMAIN NormalBands :
                        \E j \in 1..i : NormalBands[j] = Band(c)})
NothingIsHeldForLess ==
    /\ \A c, d \in Raised : Matters(c) = Matters(d)
    /\ \A c \in Raised, d \in Held : Matters(d) < Matters(c)
    /\ Raised = {} => \A d \in Held : Matters(d) = 0

=============================================================================

---------------------------- MODULE SongSessions ----------------------------
(***************************************************************************)
(* n0te/session.py over n0te/evidence.py: working sessions of a Song.      *)
(* Scratch is taken down while a session is open; an item of it may later  *)
(* be promoted to evidence.  That takes two transactions, one that records *)
(* what is asked for and one that records the claim, whose trigger links   *)
(* the two; a promotion that stops in between is taken up by the next call.*)
(***************************************************************************)
EXTENDS EvidenceMemory

CONSTANTS
    SessionIds,   \* fresh session ids (a bound)
    Items,        \* fresh scratch ids (a bound)
    Debriefs,     \* debriefs with their next actions
    Callers,      \* who asks for promotions, two of which may be alike
    SongScope,    \* the topic of the Song; the other Topics are of its Versions
    Unbound       \* no Version, no session, no request: NULL

VARIABLES
    sessions,  \* sessions of one Song
    items,     \* session_items: the session of each, and its state by then
    requests,  \* session_promotion_requests: the topic asked for
    links      \* session_promotions: <<item, claim>>

records == <<sessions, items, requests, links>>
vars == <<claims, supersedes, calls, sessions, items, requests, links>>

NoSession == [state |-> "NONE"]
OpenSession(binding) == [state |-> "OPEN", binding |-> binding, debrief |-> Unbound]
Started == {s \in SessionIds : sessions[s] # NoSession}
Open == {s \in Started : sessions[s].state = "OPEN"}
Taken == {i \in Items : items[i] # NoSession}
Linked(i) == \E link \in links : link[1] = i

\* An item may be promoted to the Song, or to the Version its session is bound to.
Permitted(i) == {SongScope} \cup
    (IF sessions[items[i].session].binding = Unbound THEN {}
     ELSE {sessions[items[i].session].binding})

TypeOK ==
    /\ EvidenceTypeOK
    /\ \A s \in Started : /\ sessions[s].state \in {"OPEN", "CLOSED"}
                          /\ sessions[s].binding \in (Topics \ {SongScope}) \cup {Unbound}
                          /\ (sessions[s].state = "CLOSED") = (sessions[s].debrief \in Debriefs)
    /\ \A i \in Taken : items[i].session \in Started
    /\ requests \in [Items -> Topics \cup {Unbound}]
    /\ links \subseteq Items \X Claims

Init ==
    /\ EvidenceInit
    /\ sessions = [s \in SessionIds |-> NoSession]
    /\ items = [i \in Items |-> NoSession]
    /\ requests = [i \in Items |-> Unbound]
    /\ links = {}

-----------------------------------------------------------------------------
\* Mutant: no unique index on the open sessions.
StartAnotherSession(s, binding) ==
    /\ sessions[s] = NoSession
    /\ sessions' = [sessions EXCEPT ![s] = OpenSession(binding)]
    /\ UNCHANGED <<claims, supersedes, calls, items, requests, links>>

\* session_one_open_per_song
Start_session(s, binding) ==
    /\ sessions[s] = NoSession
    /\ Open = {}
    /\ sessions' = [sessions EXCEPT ![s] = OpenSession(binding)]
    /\ UNCHANGED <<claims, supersedes, calls, items, requests, links>>

SessionReads(call) == Reads(call) /\ UNCHANGED <<claims, supersedes, records>>
SessionWrites(call) == Writes(call) /\ UNCHANGED supersedes

AppendReads(s, i) ==
    /\ s \in Open
    /\ items[i] = NoSession
    /\ SessionReads([op |-> "append", session |-> s, item |-> i])

\* Mutant: the session is taken as it was read.
AppendWritesLate(call) ==
    /\ call.op = "append"
    /\ SessionWrites(call)
    /\ items' = [items EXCEPT ![call.item] =
                    IF @ = NoSession
                    THEN [session |-> call.session, state |-> sessions[call.session].state] ELSE @]
    /\ UNCHANGED <<claims, sessions, requests, links>>

\* session_items_open_only; state remembers what the session was by then.
AppendWrites(call) ==
    /\ call.op = "append"
    /\ SessionWrites(call)
    /\ items' = [items EXCEPT ![call.item] =
                    IF @ = NoSession /\ call.session \in Open
                    THEN [session |-> call.session, state |-> "OPEN"] ELSE @]
    /\ UNCHANGED <<claims, sessions, requests, links>>

CloseReads(s, debrief) ==
    /\ s \in Open
    /\ SessionReads([op |-> "close", session |-> s, debrief |-> debrief])

\* Mutant: the update names only the id, and no trigger protects the first debrief.
CloseWritesAgain(call) ==
    /\ call.op = "close"
    /\ SessionWrites(call)
    /\ sessions' = [sessions EXCEPT ![call.session] =
                       [@ EXCEPT !.state = "CLOSED", !.debrief = call.debrief]]
    /\ UNCHANGED <<claims, items, requests, links>>

\* An update of no row is no error here: the later call returns the first debrief.
CloseWrites(call) ==
    /\ call.op = "close"
    /\ SessionWrites(call)
    /\ sessions' = [sessions EXCEPT ![call.session] =
                       IF @.state = "OPEN"
                       THEN [@ EXCEPT !.state = "CLOSED", !.debrief = call.debrief] ELSE @]
    /\ UNCHANGED <<claims, items, requests, links>>

\* promote_item up to its first write.  What was asked for before must be the same now;
\* what is linked already is returned.
PromoteReads(i, topic, caller) ==
    /\ i \in Taken
    /\ topic \in Permitted(i)
    /\ requests[i] \in {Unbound, topic}
    /\ ~Linked(i)
    /\ SessionReads([op |-> IF requests[i] = Unbound THEN "request" ELSE "promote",
                     item |-> i, topic |-> topic, caller |-> caller])

\* A second request for an item breaks UNIQUE(item_id), and the call raises.
RequestWrites(call) ==
    /\ call.op = "request"
    /\ call \in calls
    /\ IF requests[call.item] = Unbound
       THEN /\ requests' = [requests EXCEPT ![call.item] = call.topic]
            /\ calls' = (calls \ {call}) \cup {[call EXCEPT !.op = "promote"]}
       ELSE calls' = calls \ {call} /\ UNCHANGED requests
    /\ UNCHANGED <<claims, supersedes, sessions, items, links>>

\* Mutant: nothing keeps a source from being claimed twice.
PromoteWritesAgain(call) ==
    /\ call.op = "promote" /\ Len(claims) < MaxClaims
    /\ SessionWrites(call)
    /\ claims' = Append(claims, [topic |-> call.topic, value |-> call.item])
    /\ links' = links \cup {<<call.item, Len(claims) + 1>>}
    /\ UNCHANGED <<sessions, items, requests>>

\* record_claim with the trigger session_promotion_claim_link, which links the claim that
\* says what was asked for; session_promotion_claim_source allows one for each request.
PromoteWrites(call) ==
    /\ call.op = "promote" /\ Len(claims) < MaxClaims
    /\ SessionWrites(call)
    /\ IF \E c \in Claims : claims[c].value = call.item
       THEN UNCHANGED <<claims, links>>
       ELSE /\ claims' = Append(claims, [topic |-> call.topic, value |-> call.item])
            /\ links' = IF requests[call.item] = call.topic
                        THEN links \cup {<<call.item, Len(claims) + 1>>} ELSE links
    /\ UNCHANGED <<sessions, items, requests>>

\* The process dies: its calls are gone, and what they wrote is not.
Crash == calls # {} /\ calls' = {} /\ UNCHANGED <<claims, supersedes, records>>

Next ==
    \/ \E s \in SessionIds, binding \in (Topics \ {SongScope}) \cup {Unbound} :
          Start_session(s, binding)
    \/ \E s \in SessionIds :
          \/ \E i \in Items : AppendReads(s, i)
          \/ \E debrief \in Debriefs : CloseReads(s, debrief)
    \/ \E i \in Items, topic \in Topics, caller \in Callers : PromoteReads(i, topic, caller)
    \/ \E call \in calls :
          AppendWrites(call) \/ CloseWrites(call) \/ RequestWrites(call) \/ PromoteWrites(call)
    \/ Crash

Spec == Init /\ [][Next]_vars

-----------------------------------------------------------------------------
(* Properties.                                                             *)

\* An item becomes evidence once, under the topic first asked for, and the claim is
\* linked to it, however promotions cross or stop half-way.
PromotedOnce ==
    /\ \A c \in Claims :
          LET i == claims[c].value IN
          /\ requests[i] = claims[c].topic
          /\ {link \in links : link[1] = i} = {<<i, c>>}
    /\ \A link \in links : claims[link[2]].value = link[1]

\* session.py _validate_existing and its triggers: one session of the Song is open at a
\* time, and scratch was taken down in an open one.
SessionsOpen ==
    /\ Cardinality(Open) <= 1
    /\ \A i \in Taken : items[i].state = "OPEN"
    /\ \A i \in Items : requests[i] # Unbound => requests[i] \in Permitted(i)

\* The first debrief of a session stands, and so does the first request for an item.
SessionOutcomesStand ==
    [][/\ \A s \in Started : sessions[s].state = "CLOSED" => sessions'[s] = sessions[s]
       /\ \A i \in Items : requests[i] # Unbound => requests'[i] = requests[i]]_vars

=============================================================================

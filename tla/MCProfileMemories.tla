-------------------------- MODULE MCProfileMemories --------------------------
(***************************************************************************)
(* The memories of a profile, a behaviour about one of them: they share no *)
(* state but the evidence, and a memory that uses it has all of it here.   *)
(* Each memory is followed by what is proved of it; what the run checks,   *)
(* and the theorems about the memories together, come last.                *)
(***************************************************************************)
EXTENDS OperationJournal, FiniteSetTheorems, NaturalsInduction, WellFoundedInduction

CONSTANTS
    SplitSongs, Participants, Sheets, Whole, MaxSplitCalls, MaxConfirmations,
    Songs, Versions, None, Handoffs,
    Collaborators, Packages, Feedback, Notes, MaxOrdinal, MaxPackageCalls,
    Topic, Topic2, Values, Technical, MaxCalls,
    Owed, FollowUps, MaxEvents, NoFollowUp,
    ExternalIds, People, Nobody, MaxReviews, MaxIdentityCalls,
    SessionIds, Items, Debriefs, Unbound,
    Workspaces, Locations, OneWorkspace, OneLocation, NoFact, NoSource

\* The bounds are numbers, and the marks of an absence are nothing else.
ASSUME BoundsAreNumbers == MaxCalls \in Nat
ASSUME SplitsAreBounded ==
    IsFiniteSet(Participants) /\ Whole \in Nat /\ MaxSplitCalls \in Nat
ASSUME PackagesAreBounded ==
    MaxOrdinal \in Nat /\ MaxPackageCalls \in Nat /\ "none" \notin Notes
ASSUME HandoffsAreBounded == Handoffs \in Nat /\ None \notin Songs
ASSUME ReviewsAreBounded == MaxReviews \in Nat /\ MaxIdentityCalls \in Nat
ASSUME UnboundIsNothing == Unbound \notin {Topic, Topic2} \cup Debriefs
ASSUME NobodyIsNobody == Nobody \notin People

OutboundIdentities == {"outbound"}
Alike == Permutations(People) \cup Permutations(Debriefs)

VARIABLES
    focus,   \* the memory this behaviour is about
    credits, sheets, shares, confirmed, splitCalls,
    versionOf, current, approved, handoffs, returning, moved,
    withAssets, packages, feedback, packageCalls,
    recorded, reviews, identityCalls,
    claims, supersedes, calls,
    obligations, followups,
    sessions, items, requests, links,
    observations, batches, cases,
    a1, a2, a3, a4, a5, a6   \* careers and what is learned take turns at these

splitVars == <<credits, sheets, shares, confirmed, splitCalls>>
handoffVars == <<versionOf, current, approved, handoffs, returning, moved>>
packageVars == <<withAssets, packages, feedback, packageCalls>>
identityVars == <<recorded, reviews, identityCalls>>
evidenceVars == <<claims, supersedes, calls>>
owedVars == <<obligations, followups>>
sessionVars == <<sessions, items, requests, links>>
hostVars == <<observations, batches, cases>>
partVars == <<a1, a2, a3, a4, a5, a6>>

-----------------------------------------------------------------------------
(* Proofs, for any callers, keys, identities and operations.  The events of *)
(* an operation are one of eight histories, of which _derive makes what the *)
(* guards read; a row is there with its first event; a key has one row; and *)
(* whoever was answered was given the row of the key and identity asked.    *)

IsHistory(h) ==
    /\ h \in Seq(EventTypes) /\ Len(h) <= 4
    /\ Len(h) >= 1 => h[1] = "PREPARED"
    /\ Len(h) >= 2 => h[2] = "EXECUTION_CLAIMED"
    /\ Len(h) >= 3 => h[3] \in {"SUCCEEDED", "FAILED", "UNKNOWN"}
    /\ Len(h) = 4 => h[3] = "UNKNOWN" /\ h[4] \in {"RECONCILED_SUCCEEDED", "RECONCILED_FAILED"}

Lawful == \A o \in OpIds : /\ IsHistory(events[o])
                           /\ (events[o] = <<>>) = (rows[o] = NoRow)

OneRow == \A o, p \in OpIds : rows[o] # NoRow /\ rows[o].key = rows[p].key => o = p

Answered ==
    \A c \in Callers :
        /\ caller[c].pc = "insert" => caller[c].key \in Keys /\ caller[c].identity \in Identities
        /\ caller[c].pc = "prepared" =>
              /\ caller[c].answer \in OpIds
              /\ rows[caller[c].answer] = [key |-> caller[c].key, identity |-> caller[c].identity]
              /\ rows[caller[c].answer] # NoRow

JInv == TypeOK /\ Lawful /\ OneRow /\ Answered

\* _derive goes through the events one by one (here, through four at most).
LEMMA DeriveIs ==
  ASSUME NEW h \in Seq(EventTypes), Len(h) <= 4
  PROVE  /\ Len(h) = 0 => Derive(h) = Blank
         /\ Len(h) = 1 => Derive(h) = DeriveEvent(Blank, h[1])
         /\ Len(h) = 2 => Derive(h) = DeriveEvent(DeriveEvent(Blank, h[1]), h[2])
         /\ Len(h) = 3 =>
               Derive(h) = DeriveEvent(DeriveEvent(DeriveEvent(Blank, h[1]), h[2]), h[3])
         /\ Len(h) = 4 =>
               Derive(h) = DeriveEvent(
                  DeriveEvent(DeriveEvent(DeriveEvent(Blank, h[1]), h[2]), h[3]), h[4])
<1> DEFINE s1 == DeriveEvent(Blank, h[1])
           s2 == DeriveEvent(s1, h[2])
           s3 == DeriveEvent(s2, h[3])
           s4 == DeriveEvent(s3, h[4])
           N == 0..Len(h)
           F(d) == [n \in N |-> IF n = 0 THEN Blank ELSE DeriveEvent(d[n - 1], h[n])]
           w == [n \in N |-> IF n = 0 THEN Blank ELSE IF n = 1 THEN s1 ELSE IF n = 2 THEN s2
                              ELSE IF n = 3 THEN s3 ELSE s4]
           c == CHOOSE d : d = F(d)
<1>1. ASSUME NEW n \in N
      PROVE  w[n] = F(w)[n]
  <2>1. n \in 0..4
    OBVIOUS
  <2> QED BY <2>1
<1>2. w = F(w)
  BY <1>1, Zenon
<1>3. c = F(c)
  BY <1>2, Zenon
<1>4. Derive(h) = c[Len(h)]
  BY DEF Derive
<1>5. \A n \in N : c[n] = IF n = 0 THEN Blank ELSE DeriveEvent(c[n - 1], h[n])
  BY <1>3
<1> HIDE DEF c
<1> QED BY <1>4, <1>5

\* What _derive makes of each of the eight histories: none of them raises.
LEMMA DerivesTo ==
  ASSUME NEW h, IsHistory(h)
  PROVE  /\ Len(h) \in 0..4
         /\ Len(h) = 0 => Derive(h) = Blank
         /\ Len(h) = 1 => Derive(h) = [Blank EXCEPT !.state = "PREPARED"]
         /\ Len(h) = 2 => Derive(h) = [Blank EXCEPT !.state = "EXECUTING", !.attempts = 1]
         /\ Len(h) = 3 =>
               Derive(h) = [Blank EXCEPT !.state = h[3], !.effective = h[3], !.attempts = 1]
         /\ Len(h) = 4 =>
               Derive(h) = [ok |-> TRUE, state |-> "UNKNOWN", attempts |-> 1, reconciled |-> TRUE,
                            effective |-> IF h[4] = "RECONCILED_SUCCEEDED" THEN "SUCCEEDED"
                                          ELSE "FAILED"]
<1> DEFINE p == [Blank EXCEPT !.state = "PREPARED"]
           x == [Blank EXCEPT !.state = "EXECUTING", !.attempts = 1]
           ended(e) == [Blank EXCEPT !.state = e, !.effective = e, !.attempts = 1]
           settled(e) == [ok |-> TRUE, state |-> "UNKNOWN", attempts |-> 1, reconciled |-> TRUE,
                          effective |-> IF e = "RECONCILED_SUCCEEDED" THEN "SUCCEEDED"
                                        ELSE "FAILED"]
<1>1. DeriveEvent(Blank, "PREPARED") = p
  BY DEF DeriveEvent
<1>2. DeriveEvent(p, "EXECUTION_CLAIMED") = x
  BY DEF DeriveEvent, Blank
<1>3. \A e \in {"SUCCEEDED", "FAILED", "UNKNOWN"} : DeriveEvent(x, e) = ended(e)
  BY ZenonT(40) DEF DeriveEvent, Blank
<1>4. \A e \in {"RECONCILED_SUCCEEDED", "RECONCILED_FAILED"} :
         DeriveEvent(ended("UNKNOWN"), e) = settled(e)
  BY DEF DeriveEvent, Blank
<1> HIDE DEF p, x, ended, settled
<1>5. Len(h) \in 0..4 /\ h \in Seq(EventTypes) /\ Len(h) <= 4
  <2>1. h \in Seq(EventTypes) /\ Len(h) <= 4
    BY DEF IsHistory
  <2>2. Len(h) \in Nat
    BY <2>1
  <2>3. \A n \in Nat : n <= 4 => n \in 0..4
    OBVIOUS
  <2> QED BY <2>1, <2>2, <2>3
<1>6. CASE Len(h) = 0
  <2>1. Derive(h) = Blank
    BY <1>5, <1>6, DeriveIs
  <2> QED BY <1>6, <2>1
<1>7. CASE Len(h) = 1
  <2>1. h[1] = "PREPARED"
    BY <1>7 DEF IsHistory
  <2>2. Derive(h) = p
    BY <1>1, <1>5, <1>7, <2>1, DeriveIs
  <2> QED BY <1>7, <2>2 DEF p
<1>8. CASE Len(h) = 2
  <2>1. h[1] = "PREPARED" /\ h[2] = "EXECUTION_CLAIMED"
    BY <1>8 DEF IsHistory
  <2>2. Derive(h) = x
    BY <1>1, <1>2, <1>5, <1>8, <2>1, DeriveIs
  <2> QED BY <1>8, <2>2 DEF x
<1>9. CASE Len(h) = 3
  <2>1. /\ h[1] = "PREPARED" /\ h[2] = "EXECUTION_CLAIMED"
        /\ h[3] \in {"SUCCEEDED", "FAILED", "UNKNOWN"}
    BY <1>9 DEF IsHistory
  <2>2. Derive(h) = ended(h[3])
    <3>1. Derive(h) = DeriveEvent(DeriveEvent(DeriveEvent(Blank, h[1]), h[2]), h[3])
      BY <1>5, <1>9, DeriveIs
    <3> QED BY <1>1, <1>2, <1>3, <2>1, <3>1
  <2> QED BY <1>9, <2>2 DEF ended
<1>10. CASE Len(h) = 4
  <2>1. /\ h[1] = "PREPARED" /\ h[2] = "EXECUTION_CLAIMED" /\ h[3] = "UNKNOWN"
        /\ h[4] \in {"RECONCILED_SUCCEEDED", "RECONCILED_FAILED"}
    BY <1>10 DEF IsHistory
  <2>2. Derive(h) = settled(h[4])
    <3>1. Derive(h) = DeriveEvent(
             DeriveEvent(DeriveEvent(DeriveEvent(Blank, h[1]), h[2]), h[3]), h[4])
      BY <1>5, <1>10, DeriveIs
    <3> QED BY <1>1, <1>2, <1>3, <1>4, <2>1, <3>1
  <2> QED BY <1>10, <2>2 DEF settled
<1> QED BY <1>5, <1>6, <1>7, <1>8, <1>9, <1>10

\* What an operation reads as says how long its history is.
LEMMA HistoryIs ==
  ASSUME NEW h, IsHistory(h)
  PROVE  /\ h \in Seq(EventTypes)
         /\ Derive(h).ok
         /\ Derive(h).state = "PREPARED" <=> Len(h) = 1
         /\ Derive(h).state = "EXECUTING" <=> Len(h) = 2
         /\ Derive(h).state = "UNKNOWN" /\ ~Derive(h).reconciled => Len(h) = 3 /\ h[3] = "UNKNOWN"
<1>1. h \in Seq(EventTypes) /\ Len(h) \in 0..4
  BY DerivesTo DEF IsHistory
<1>2. Len(h) = 3 => h[3] \in {"SUCCEEDED", "FAILED", "UNKNOWN"}
  BY DEF IsHistory
<1>3. CASE Len(h) = 0
  <2>1. Derive(h) = Blank
    BY <1>3, DerivesTo
  <2> QED BY <1>1, <1>3, <2>1 DEF Blank
<1>4. CASE Len(h) = 1
  <2>1. Derive(h) = [Blank EXCEPT !.state = "PREPARED"]
    BY <1>4, DerivesTo
  <2> QED BY <1>1, <1>4, <2>1 DEF Blank
<1>5. CASE Len(h) = 2
  <2>1. Derive(h) = [Blank EXCEPT !.state = "EXECUTING", !.attempts = 1]
    BY <1>5, DerivesTo
  <2> QED BY <1>1, <1>5, <2>1 DEF Blank
<1>6. CASE Len(h) = 3
  <2>1. Derive(h) = [Blank EXCEPT !.state = h[3], !.effective = h[3], !.attempts = 1]
    BY <1>6, DerivesTo
  <2>2. /\ Derive(h).state = h[3] /\ Derive(h).ok
        /\ h[3] \in {"SUCCEEDED", "FAILED", "UNKNOWN"}
    BY <1>2, <1>6, <2>1 DEF Blank
  <2> QED BY <1>1, <1>6, <2>2
<1>7. CASE Len(h) = 4
  <2> DEFINE outcome == IF h[4] = "RECONCILED_SUCCEEDED" THEN "SUCCEEDED" ELSE "FAILED"
  <2>1. Derive(h) = [ok |-> TRUE, state |-> "UNKNOWN", attempts |-> 1, reconciled |-> TRUE,
                     effective |-> outcome]
    BY <1>7, DerivesTo
  <2> HIDE DEF outcome
  <2>2. Derive(h).state = "UNKNOWN" /\ Derive(h).ok /\ Derive(h).reconciled
    BY <2>1
  <2> QED BY <1>1, <1>7, <2>2
<1> QED BY <1>1, <1>3, <1>4, <1>5, <1>6, <1>7

\* The second event is the only claim; there is no event before the row.
LEMMA OnlyClaim ==
  ASSUME NEW h, IsHistory(h)
  PROVE  /\ \A i \in DOMAIN h : h[i] = "EXECUTION_CLAIMED" => i = 2
         /\ Len(h) = 0 <=> h = <<>>
<1>1. h \in Seq(EventTypes) /\ Len(h) \in 0..4
  BY DerivesTo DEF IsHistory
<1>2. ASSUME NEW i \in DOMAIN h, h[i] = "EXECUTION_CLAIMED"
      PROVE  i = 2
  <2>1. i \in 1..4 /\ i <= Len(h)
    BY <1>1
  <2> QED BY <1>1, <1>2, <2>1 DEF IsHistory
<1>3. Len(h) = 0 <=> h = <<>>
  BY <1>1
<1> QED BY <1>2, <1>3

\* At first there are no rows.
LEMMA JInvInit == Init => JInv
  BY DEF Init, JInv, TypeOK, Lawful, OneRow, Answered, IsHistory, Idle, NoRow

\* A key of the journal is not what stands for no row.
LEMMA KeyedRows ==
  ASSUME TypeOK
  PROVE  /\ \A o \in OpIds : rows[o] # NoRow => rows[o] \in Rows /\ rows[o].key \in Keys
         /\ \A key \in Keys, o \in OpIds :
               o \in ByKey(key) <=> rows[o] # NoRow /\ rows[o].key = key
<1>1. NoRow.key \notin Keys
  BY JournalAssumption DEF NoRow
<1>2. \A o \in OpIds : rows[o] # NoRow => rows[o] \in Rows /\ rows[o].key \in Keys
  BY DEF TypeOK, Rows
<1> QED BY <1>1, <1>2 DEF ByKey

\* What a call may append to a history of the length it has found.
Follows(h, e) ==
    \/ Len(h) = 0 /\ e = "PREPARED"
    \/ Len(h) = 1 /\ e = "EXECUTION_CLAIMED"
    \/ Len(h) = 2 /\ e \in {"SUCCEEDED", "FAILED", "UNKNOWN"}
    \/ Len(h) = 3 /\ h[3] = "UNKNOWN" /\ e \in {"RECONCILED_SUCCEEDED", "RECONCILED_FAILED"}

\* One history is made of another by the event that follows.
LEMMA HistoryGrows ==
  ASSUME NEW h, IsHistory(h), NEW e, Follows(h, e)
  PROVE  /\ IsHistory(Append(h, e)) /\ Len(Append(h, e)) = Len(h) + 1
         /\ Append(h, e)[Len(h) + 1] = e /\ Append(h, e) # <<>>
<1>1. h \in Seq(EventTypes) /\ Len(h) \in 0..4 /\ e \in EventTypes
  BY DerivesTo DEF IsHistory, Follows, EventTypes
<1> DEFINE g == Append(h, e)
<1>2. /\ g \in Seq(EventTypes) /\ Len(g) = Len(h) + 1 /\ g[Len(h) + 1] = e
      /\ \A i \in 1..Len(h) : g[i] = h[i]
  BY <1>1
<1>3. g # <<>>
  BY <1>1, <1>2
<1> HIDE DEF g
<1>4. ASSUME Len(h) = 0
      PROVE  IsHistory(g)
  BY <1>2, <1>4 DEF IsHistory, Follows
<1>5. ASSUME Len(h) = 1
      PROVE  IsHistory(g)
  BY <1>2, <1>5 DEF IsHistory, Follows
<1>6. ASSUME Len(h) = 2
      PROVE  IsHistory(g)
  BY <1>2, <1>6 DEF IsHistory, Follows
<1>7. ASSUME Len(h) = 3
      PROVE  IsHistory(g)
  BY <1>2, <1>7 DEF IsHistory, Follows
<1>8. IsHistory(g)
  BY <1>4, <1>5, <1>6, <1>7 DEF Follows
<1> QED BY <1>2, <1>3, <1>8 DEF g

\* The lookup of prepare(), and a caller that forgets: no row and no event.
LEMMA LookupStep ==
  ASSUME JInv,
         \/ \E c \in Callers, key \in Keys, identity \in Identities :
               PrepareLooksUp(c, key, identity)
         \/ \E c \in Callers : Forget(c)
  PROVE  JInv' /\ UNCHANGED <<rows, events>>
<1>1. UNCHANGED <<rows, events>>
  BY DEF PrepareLooksUp, Forget
<1>2. ASSUME NEW c \in Callers, NEW r, caller' = [caller EXCEPT ![c] = r],
             \/ r = Idle
             \/ \E key \in Keys, identity \in Identities :
                   r = [pc |-> "insert", key |-> key, identity |-> identity, answer |-> NoOp]
             \/ \E key \in Keys, identity \in Identities, o \in OpIds :
                   /\ r = [pc |-> "prepared", key |-> key, identity |-> identity, answer |-> o]
                   /\ rows[o] = [key |-> key, identity |-> identity] /\ rows[o] # NoRow
      PROVE  TypeOK' /\ Answered'
  <2> DEFINE Calls == [pc : {"idle", "insert", "prepared"}, key : Keys \cup {"none"},
                       identity : Identities \cup {"none"}, answer : OpIds \cup {NoOp}]
  <2>1. /\ r \in Calls
        /\ r.pc = "insert" => r.key \in Keys /\ r.identity \in Identities
        /\ r.pc = "prepared" =>
              /\ r.answer \in OpIds
              /\ rows[r.answer] = [key |-> r.key, identity |-> r.identity]
              /\ rows[r.answer] # NoRow
    <3>1. CASE r = Idle
      BY <3>1 DEF Idle
    <3>2. ASSUME NEW key \in Keys, NEW identity \in Identities,
                 r = [pc |-> "insert", key |-> key, identity |-> identity, answer |-> NoOp]
          PROVE  r \in Calls /\ r.pc = "insert" /\ r.key \in Keys /\ r.identity \in Identities
      BY <3>2
    <3>3. ASSUME NEW key \in Keys, NEW identity \in Identities, NEW o \in OpIds,
                 r = [pc |-> "prepared", key |-> key, identity |-> identity, answer |-> o]
          PROVE  /\ r \in Calls /\ r.pc = "prepared" /\ r.answer = o
                 /\ r.key = key /\ r.identity = identity
      BY <3>3
    <3> QED BY <1>2, <3>1, <3>2, <3>3
  <2>2. caller \in [Callers -> Calls]
    BY DEF JInv, TypeOK
  <2>3. /\ caller' \in [Callers -> Calls]
        /\ \A d \in Callers : caller'[d] = IF d = c THEN r ELSE caller[d]
    BY <1>2, <2>1, <2>2
  <2> QED BY <1>1, <2>1, <2>3 DEF JInv, TypeOK, Answered
<1>3. ASSUME NEW c \in Callers, NEW key \in Keys, NEW identity \in Identities,
             PrepareLooksUp(c, key, identity)
      PROVE  TypeOK' /\ Answered'
  <2>1. ASSUME NEW o \in ByKey(key), rows[o].identity = identity
        PROVE  rows[o] = [key |-> key, identity |-> identity] /\ rows[o] # NoRow
    BY <2>1, KeyedRows DEF JInv, Rows, ByKey
  <2>2. ByKey(key) \subseteq OpIds
    BY DEF ByKey
  <2> QED BY <1>2, <1>3, <2>1, <2>2 DEF PrepareLooksUp, Answer
<1>4. ASSUME NEW c \in Callers, Forget(c)
      PROVE  TypeOK' /\ Answered'
  BY <1>2, <1>4 DEF Forget
<1>5. TypeOK' /\ Answered'
  BY <1>3, <1>4
<1> QED BY <1>1, <1>5 DEF JInv, Lawful, OneRow

\* An event that follows is appended to an operation that has a row.
LEMMA EventStep ==
  ASSUME JInv, NEW o \in OpIds, NEW e, Follows(events[o], e), rows[o] # NoRow,
         Append_event(o, e), UNCHANGED <<rows, caller>>
  PROVE  JInv'
<1>1. IsHistory(events[o])
  BY DEF JInv, Lawful
<1>2. /\ events' = [events EXCEPT ![o] = Append(events[o], e)]
      /\ IsHistory(Append(events[o], e)) /\ Append(events[o], e) # <<>>
  BY <1>1, HistoryGrows DEF Append_event
<1>3. Append(events[o], e) \in Seq(EventTypes)
  BY <1>2 DEF IsHistory
<1>4. TypeOK'
  BY <1>2, <1>3 DEF JInv, TypeOK
<1>5. Lawful'
  BY <1>2 DEF JInv, TypeOK, Lawful
<1> QED BY <1>4, <1>5 DEF JInv, OneRow, Answered

\* The insert: a row and its first event, or the row of whoever was first.
LEMMA InsertStep ==
  ASSUME JInv, NEW c \in Callers, NEW o \in OpIds, PrepareInserts(c, o)
  PROVE  JInv'
<1> DEFINE me == caller[c]
<1>1. /\ TypeOK /\ me.pc = "insert" /\ me.key \in Keys /\ me.identity \in Identities
      /\ me \in [pc : {"idle", "insert", "prepared"}, key : Keys \cup {"none"},
                 identity : Identities \cup {"none"}, answer : OpIds \cup {NoOp}]
  BY DEF JInv, TypeOK, Answered, PrepareInserts
<1>2. CASE /\ ByKey(me.key) = {} /\ rows[o] = NoRow
           /\ rows' = [rows EXCEPT ![o] = [key |-> me.key, identity |-> me.identity]]
           /\ Append_event(o, "PREPARED")
           /\ caller' = [caller EXCEPT ![c].pc = "prepared", ![c].answer = o]
  <2> DEFINE new == [key |-> me.key, identity |-> me.identity]
  <2>1. new \in Rows /\ new.key = me.key /\ new.identity = me.identity /\ new # NoRow
    BY <1>1, JournalAssumption DEF Rows, NoRow
  <2>2. IsHistory(events[o]) /\ Follows(events[o], "PREPARED")
    BY <1>2, OnlyClaim DEF JInv, Lawful, Follows
  <2>3. /\ events' = [events EXCEPT ![o] = Append(events[o], "PREPARED")]
        /\ IsHistory(Append(events[o], "PREPARED")) /\ Append(events[o], "PREPARED") # <<>>
    BY <1>2, <2>2, HistoryGrows DEF Append_event
  <2>4. Append(events[o], "PREPARED") \in Seq(EventTypes)
    BY <2>3 DEF IsHistory
  <2>5. rows' = [rows EXCEPT ![o] = new]
    BY <1>2
  <2>6. /\ caller'[c] = [me EXCEPT !.pc = "prepared", !.answer = o]
        /\ caller' = [caller EXCEPT ![c] = [me EXCEPT !.pc = "prepared", !.answer = o]]
    BY <1>1, <1>2 DEF TypeOK
  <2> HIDE DEF new
  <2>7. TypeOK'
    BY <1>1, <2>1, <2>3, <2>4, <2>5, <2>6 DEF TypeOK
  <2>8. Lawful'
    BY <1>1, <2>1, <2>3, <2>5 DEF JInv, TypeOK, Lawful
  <2>9. OneRow'
    <3>1. \A p \in OpIds : rows[p] # NoRow => rows[p].key # me.key
      BY <1>1, <1>2, KeyedRows
    <3>2. \A p \in OpIds : rows[p] = NoRow => rows[p].key # me.key
      BY <1>1, JournalAssumption DEF NoRow
    <3> QED BY <1>1, <2>1, <2>5, <3>1, <3>2 DEF JInv, TypeOK, OneRow
  <2>10. Answered'
    <3>1. ASSUME NEW d \in Callers
          PROVE  /\ caller'[d].pc = "insert" =>
                       caller'[d].key \in Keys /\ caller'[d].identity \in Identities
                 /\ caller'[d].pc = "prepared" =>
                       /\ caller'[d].answer \in OpIds
                       /\ rows'[caller'[d].answer]
                             = [key |-> caller'[d].key, identity |-> caller'[d].identity]
                       /\ rows'[caller'[d].answer] # NoRow
      <4>1. CASE d = c
        <5>1. caller'[c].pc = "prepared" /\ caller'[c].answer = o /\ caller'[c].key = me.key
              /\ caller'[c].identity = me.identity
          BY <1>1, <2>6
        <5>2. rows'[o] = new
          BY <1>1, <2>5 DEF TypeOK
        <5> QED BY <2>1, <4>1, <5>1, <5>2 DEF new
      <4>2. CASE d # c
        <5>1. caller'[d] = caller[d]
          BY <1>1, <2>6, <4>2 DEF TypeOK
        <5>2. \A p \in OpIds : rows[p] # NoRow => rows'[p] = rows[p]
          BY <1>1, <1>2, <2>5 DEF TypeOK
        <5> QED BY <5>1, <5>2 DEF JInv, Answered
      <4> QED BY <4>1, <4>2
    <3> QED BY <3>1 DEF Answered
  <2> QED BY <2>7, <2>8, <2>9, <2>10 DEF JInv
<1>3. CASE o \in ByKey(me.key) /\ Answer(c, me.key, me.identity, o) /\ UNCHANGED <<rows, events>>
  <2>1. rows[o].identity = me.identity =>
           rows[o] = [key |-> me.key, identity |-> me.identity] /\ rows[o] # NoRow
    BY <1>1, <1>3, KeyedRows DEF Rows, ByKey
  <2>2. TypeOK' /\ Answered'
    BY <1>1, <1>3, <2>1 DEF JInv, TypeOK, Answered, Answer, Idle
  <2> QED BY <1>3, <2>2 DEF JInv, Lawful, OneRow
<1> QED BY <1>2, <1>3 DEF PrepareInserts

\* A step writes of one operation at most: an event that follows, and its row if it had none.
Changes(o, e) ==
    /\ Follows(events[o], e) /\ Append_event(o, e)
    /\ rows'[o] # NoRow /\ (rows[o] = NoRow \/ rows'[o] = rows[o])
    /\ \A p \in OpIds \ {o} : rows'[p] = rows[p]

\* Every call keeps the invariant, and writes no more than that.
LEMMA JournalStep ==
  ASSUME JInv, Next
  PROVE  JInv' /\ (UNCHANGED <<rows, events>> \/ \E o \in OpIds, e \in EventTypes : Changes(o, e))
<1>1. TypeOK
  BY DEF JInv
<1>2. CASE \/ \E c \in Callers, key \in Keys, identity \in Identities :
                 PrepareLooksUp(c, key, identity)
           \/ \E c \in Callers : Forget(c)
  BY <1>2, LookupStep
<1>3. ASSUME NEW c \in Callers, NEW o \in OpIds, PrepareInserts(c, o)
      PROVE  JInv' /\ (UNCHANGED <<rows, events>> \/ Changes(o, "PREPARED"))
  <2>1. caller[c].key \in Keys
    BY <1>3 DEF JInv, Answered, PrepareInserts
  <2>2. rows[o] = NoRow => Follows(events[o], "PREPARED")
    BY OnlyClaim DEF JInv, Lawful, Follows
  <2>3. [key |-> caller[c].key, identity |-> caller[c].identity] # NoRow
    BY <2>1, JournalAssumption DEF NoRow
  <2>4. UNCHANGED <<rows, events>> \/ Changes(o, "PREPARED")
    BY <1>1, <1>3, <2>2, <2>3 DEF PrepareInserts, Changes, TypeOK
  <2> QED BY <1>3, <2>4, InsertStep
<1>4. ASSUME NEW o \in OpIds, NEW e \in EventTypes, rows[o] # NoRow, Follows(events[o], e),
             Append_event(o, e), UNCHANGED <<rows, caller>>
      PROVE  JInv' /\ Changes(o, e)
  BY <1>4, EventStep DEF Changes
<1>5. \A o \in OpIds : IsHistory(events[o]) /\ (Len(events[o]) = 0 <=> rows[o] = NoRow)
  BY OnlyClaim DEF JInv, Lawful
<1>6. ASSUME NEW o \in OpIds, NEW identity, NEW x, NEW y, Claim_execution(o, identity, x, y)
      PROVE  \E e \in EventTypes : JInv' /\ Changes(o, e)
  <2>1. Follows(events[o], "EXECUTION_CLAIMED") /\ rows[o] # NoRow
    BY <1>5, <1>6, HistoryIs DEF Claim_execution, Get, Follows
  <2>2. "EXECUTION_CLAIMED" \in EventTypes
    BY DEF EventTypes
  <2> QED BY <1>4, <1>6, <2>1, <2>2 DEF Claim_execution
<1>7. ASSUME NEW o \in OpIds, NEW e \in {"SUCCEEDED", "FAILED", "UNKNOWN"}, Terminal(o, e)
      PROVE  JInv' /\ Changes(o, e)
  <2>1. Follows(events[o], e) /\ rows[o] # NoRow
    <3>1. Derive(events[o]).state = "EXECUTING"
      BY <1>7 DEF Terminal, Get
    <3>2. Len(events[o]) = 2
      BY <1>5, <3>1, HistoryIs
    <3> QED BY <1>5, <3>2 DEF Follows
  <2>2. e \in EventTypes
    BY DEF EventTypes
  <2> QED BY <1>4, <1>7, <2>1, <2>2 DEF Terminal
<1>8. ASSUME NEW o \in OpIds, NEW outcome, Reconcile_unknown(o, outcome)
      PROVE  \E e \in EventTypes : JInv' /\ Changes(o, e)
  <2> DEFINE e == IF outcome = "SUCCEEDED" THEN "RECONCILED_SUCCEEDED" ELSE "RECONCILED_FAILED"
  <2>1. e \in EventTypes /\ e \in {"RECONCILED_SUCCEEDED", "RECONCILED_FAILED"}
    BY DEF EventTypes
  <2>2. Append_event(o, e) /\ UNCHANGED <<rows, caller>>
    BY <1>8 DEF Reconcile_unknown
  <2> HIDE DEF e
  <2>3. Follows(events[o], e) /\ rows[o] # NoRow
    <3>1. Derive(events[o]).state = "UNKNOWN" /\ ~Derive(events[o]).reconciled
      BY <1>8 DEF Reconcile_unknown, Get
    <3>2. Len(events[o]) = 3 /\ events[o][3] = "UNKNOWN"
      BY <1>5, <3>1, HistoryIs
    <3> QED BY <1>5, <2>1, <3>2 DEF Follows
  <2> QED BY <1>4, <2>1, <2>2, <2>3
<1>9. {"PREPARED", "SUCCEEDED", "FAILED", "UNKNOWN"} \subseteq EventTypes
  BY DEF EventTypes
<1> QED BY <1>2, <1>3, <1>6, <1>7, <1>8, <1>9 DEF Next

\* What an operation was settled to, as far as its history goes.
Settlement(d) == IF d.reconciled THEN d.effective ELSE "NONE"

\* What an event makes of an operation; nothing follows an outcome that is known.
LEMMA HistoryMoves ==
  ASSUME NEW h, IsHistory(h), NEW e, Follows(h, e)
  PROVE  LET d == Derive(h)
             g == Derive(Append(h, e)) IN
         /\ d.effective \notin {"SUCCEEDED", "FAILED"} /\ Settlement(d) = "NONE"
         /\ \/ /\ Settlement(g) = "NONE"
               /\ \/ d.state = "ABSENT" /\ g.state = "PREPARED"
                  \/ d.state = "PREPARED" /\ g.state = "EXECUTING"
                  \/ d.state = "EXECUTING" /\ g.state \in {"SUCCEEDED", "FAILED", "UNKNOWN"}
            \/ /\ d.state = "UNKNOWN" /\ g.state = "UNKNOWN"
               /\ Settlement(g) \in {"SUCCEEDED", "FAILED"}
<1> DEFINE k == Append(h, e)
<1>1. IsHistory(k) /\ Len(k) = Len(h) + 1 /\ k[Len(h) + 1] = e
  BY HistoryGrows
<1> HIDE DEF k
<1>2. CASE Len(h) = 0
  <2>1. Derive(h) = Blank
    BY <1>2, DerivesTo
  <2>2. Len(k) = 1
    BY <1>1, <1>2
  <2>3. Derive(k) = [Blank EXCEPT !.state = "PREPARED"]
    BY <1>1, <2>2, DerivesTo
  <2> QED BY <2>1, <2>3 DEF Blank, Settlement, k
<1>3. CASE Len(h) = 1
  <2>1. Derive(h) = [Blank EXCEPT !.state = "PREPARED"]
    BY <1>3, DerivesTo
  <2>2. Len(k) = 2
    BY <1>1, <1>3
  <2>3. Derive(k) = [Blank EXCEPT !.state = "EXECUTING", !.attempts = 1]
    BY <1>1, <2>2, DerivesTo
  <2> QED BY <2>1, <2>3 DEF Blank, Settlement, k
<1>4. CASE Len(h) = 2
  <2>1. Derive(h) = [Blank EXCEPT !.state = "EXECUTING", !.attempts = 1]
    BY <1>4, DerivesTo
  <2>2. Len(k) = 3 /\ k[3] = e
    BY <1>1, <1>4
  <2>3. Derive(k) = [Blank EXCEPT !.state = e, !.effective = e, !.attempts = 1]
    BY <1>1, <2>2, DerivesTo
  <2>4. e \in {"SUCCEEDED", "FAILED", "UNKNOWN"}
    BY <1>4 DEF Follows
  <2> QED BY <2>1, <2>3, <2>4 DEF Blank, Settlement, k
<1>5. CASE Len(h) = 3
  <2> DEFINE outcome == IF e = "RECONCILED_SUCCEEDED" THEN "SUCCEEDED" ELSE "FAILED"
  <2>1. h[3] = "UNKNOWN"
    BY <1>5 DEF Follows
  <2>2. Derive(h) = [Blank EXCEPT !.state = "UNKNOWN", !.effective = "UNKNOWN", !.attempts = 1]
    BY <1>5, <2>1, DerivesTo
  <2>3. Len(k) = 4 /\ k[4] = e
    BY <1>1, <1>5
  <2>4. Derive(k) = [ok |-> TRUE, state |-> "UNKNOWN", attempts |-> 1, reconciled |-> TRUE,
                     effective |-> outcome]
    BY <1>1, <2>3, DerivesTo
  <2>5. outcome \in {"SUCCEEDED", "FAILED"}
    OBVIOUS
  <2> HIDE DEF outcome
  <2> QED BY <2>2, <2>4, <2>5 DEF Blank, Settlement, k
<1> QED BY <1>2, <1>3, <1>4, <1>5 DEF Follows

\* A step that changes nothing keeps the invariant too.
LEMMA JInvStep == JInv /\ [Next]_vars => JInv'
<1>1. JInv /\ Next => JInv'
  BY JournalStep
<1>2. JInv /\ UNCHANGED vars => JInv'
  BY DEF vars, JInv, TypeOK, Lawful, OneRow, Answered
<1> QED BY <1>1, <1>2

\* What the lifecycle sees of a key is what its one row's history says.
KeysRead ==
    \A key \in Keys :
        /\ \A o \in OpIds : rows[o] # NoRow /\ rows[o].key = key =>
              KeyState(key) = Get(o).state /\ KeySettled(key) = Settlement(Get(o))
        /\ (\A o \in OpIds : rows[o] # NoRow => rows[o].key # key) =>
              KeyState(key) = "ABSENT" /\ KeySettled(key) = "NONE"

\* A key with a row is read from it, since it has one only; without, the key is ABSENT.
LEMMA KeysAreRead == JInv => KeysRead
<1> SUFFICES ASSUME JInv, NEW key \in Keys
             PROVE  /\ \A o \in OpIds : rows[o] # NoRow /\ rows[o].key = key =>
                          KeyState(key) = Get(o).state /\ KeySettled(key) = Settlement(Get(o))
                    /\ (\A o \in OpIds : rows[o] # NoRow => rows[o].key # key) =>
                          KeyState(key) = "ABSENT" /\ KeySettled(key) = "NONE"
  BY DEF KeysRead
<1>1. \A o \in OpIds : o \in ByKey(key) <=> rows[o] # NoRow /\ rows[o].key = key
  BY KeyedRows DEF JInv
<1>2. ASSUME NEW o \in OpIds, rows[o] # NoRow, rows[o].key = key
      PROVE  KeyState(key) = Get(o).state /\ KeySettled(key) = Settlement(Get(o))
  <2>1. ByKey(key) = {o}
    BY <1>1, <1>2 DEF JInv, OneRow, ByKey
  <2>2. (CHOOSE p \in ByKey(key) : TRUE) = o
    BY <2>1
  <2> QED BY <2>1, <2>2 DEF KeyState, KeySettled, Settlement
<1>3. ASSUME \A o \in OpIds : rows[o] # NoRow => rows[o].key # key
      PROVE  KeyState(key) = "ABSENT" /\ KeySettled(key) = "NONE"
  <2>1. ByKey(key) = {}
    BY <1>1, <1>3 DEF ByKey
  <2> QED BY <2>1 DEF KeyState, KeySettled
<1> QED BY <1>2, <1>3

\* A write of one operation is a step of the lifecycle for its key and for no other.
LEMMA ChangeIsAStep ==
  ASSUME JInv, JInv', KeysRead, KeysRead', NEW o \in OpIds, NEW e \in EventTypes, Changes(o, e)
  PROVE  Lifecycle!Next
<1> DEFINE d == Derive(events[o])
           g == Derive(Append(events[o], e))
<1>0. rows'[o].key \in Keys /\ IsHistory(events[o]) /\ Follows(events[o], e) /\ rows'[o] # NoRow
  <2>1. rows' \in [OpIds -> Rows \cup {NoRow}]
    BY DEF JInv, TypeOK
  <2> QED BY <2>1 DEF JInv, Lawful, Changes, Rows
<1>1. PICK k \in Keys : k = rows'[o].key
  BY <1>0
<1>2. events'[o] = Append(events[o], e) /\ \A p \in OpIds \ {o} : events'[p] = events[p]
  BY DEF JInv, TypeOK, Changes, Append_event
<1>3. ASSUME NEW key \in Keys, key # k
      PROVE  KeyState(key)' = KeyState(key) /\ KeySettled(key)' = KeySettled(key)
  <2>1. CASE \E p \in OpIds : rows[p] # NoRow /\ rows[p].key = key
    <3>1. PICK p \in OpIds : rows[p] # NoRow /\ rows[p].key = key
      BY <2>1
    <3>2. p # o /\ rows'[p] = rows[p]
      BY <1>1, <1>3, <3>1 DEF Changes
    <3>3. Get(p)' = Get(p)
      BY <1>2, <3>2 DEF Get
    <3> QED BY <3>1, <3>2, <3>3 DEF KeysRead, Settlement
  <2>2. CASE \A p \in OpIds : rows[p] # NoRow => rows[p].key # key
    <3>1. \A p \in OpIds : rows'[p] # NoRow => rows'[p].key # key
      BY <1>1, <1>3, <2>2 DEF Changes
    <3> QED BY <2>2, <3>1 DEF KeysRead
  <2> QED BY <2>1, <2>2
<1>4. KeyState(k)' = g.state /\ KeySettled(k)' = Settlement(g)
  <2>1. Get(o)' = g
    BY <1>2 DEF Get
  <2> QED BY <1>0, <1>1, <2>1 DEF KeysRead, Settlement
<1>5. KeyState(k) = d.state /\ KeySettled(k) = Settlement(d)
  <2>1. CASE rows[o] # NoRow
    <3>1. rows[o].key = k
      BY <1>1, <2>1 DEF Changes
    <3> QED BY <1>0, <1>1, <2>1, <3>1 DEF KeysRead, Get
  <2>2. CASE rows[o] = NoRow
    <3>1. events[o] = <<>>
      BY <2>2 DEF JInv, Lawful
    <3>2. d = Blank
      BY <1>0, <1>1, <3>1, OnlyClaim, DerivesTo
    <3>3. \A p \in OpIds : rows[p] # NoRow => rows[p].key # k
      BY <1>0, <1>1, <2>2 DEF JInv, OneRow, Changes
    <3> QED BY <1>0, <1>1, <3>2, <3>3 DEF KeysRead, Blank, Settlement
  <2> QED BY <2>1, <2>2
<1>6. /\ Settlement(d) = "NONE"
      /\ \/ /\ Settlement(g) = "NONE"
            /\ \/ d.state = "ABSENT" /\ g.state = "PREPARED"
               \/ d.state = "PREPARED" /\ g.state = "EXECUTING"
               \/ d.state = "EXECUTING" /\ g.state \in {"SUCCEEDED", "FAILED", "UNKNOWN"}
         \/ /\ d.state = "UNKNOWN" /\ g.state = "UNKNOWN"
            /\ Settlement(g) \in {"SUCCEEDED", "FAILED"}
  BY <1>0, <1>1, HistoryMoves
<1> HIDE DEF d, g
<1>7. /\ [key \in Keys |-> KeyState(key)]'
            = [[key \in Keys |-> KeyState(key)] EXCEPT ![k] = g.state]
      /\ [key \in Keys |-> KeySettled(key)]'
            = [[key \in Keys |-> KeySettled(key)] EXCEPT ![k] = Settlement(g)]
  <2>1. \A key \in Keys : KeyState(key)' = IF key = k THEN g.state ELSE KeyState(key)
    BY <1>3, <1>4
  <2>2. \A key \in Keys : KeySettled(key)' = IF key = k THEN Settlement(g) ELSE KeySettled(key)
    BY <1>3, <1>4
  <2> QED BY <2>1, <2>2
<1>8. CASE Settlement(g) = "NONE"
  <2>0. \A key \in Keys : KeySettled(key)' = KeySettled(key)
    BY <1>3, <1>4, <1>5, <1>6, <1>8
  <2>1. [key \in Keys |-> KeySettled(key)]' = [key \in Keys |-> KeySettled(key)]
    BY <2>0
  <2>2. [key \in Keys |-> KeyState(key)][k] = d.state
    BY <1>0, <1>1, <1>5
  <2> QED
    BY <1>0, <1>1, <1>6, <1>7, <1>8, <2>1, <2>2
    DEF Lifecycle!Next, Lifecycle!Moves, Lifecycle!Outcomes
<1>9. CASE Settlement(g) # "NONE"
  <2>1. [key \in Keys |-> KeyState(key)]' = [key \in Keys |-> KeyState(key)]
    BY <1>0, <1>1, <1>5, <1>6, <1>7, <1>9
  <2>2. /\ [key \in Keys |-> KeyState(key)][k] = "UNKNOWN"
        /\ [key \in Keys |-> KeySettled(key)][k] = "NONE"
    BY <1>0, <1>1, <1>5, <1>6, <1>9
  <2> QED BY <1>0, <1>1, <1>6, <1>7, <1>9, <2>1, <2>2
      DEF Lifecycle!Next, Lifecycle!Settles, Lifecycle!Outcomes
<1> QED BY <1>8, <1>9

\* What _validate_existing asks of a journal, that a key is one operation and that it is
\* claimed once, all follow.
LEMMA JInvMeans == JInv => JournalOpens /\ OneOperationPerKey /\ ClaimedOnce
<1> SUFFICES ASSUME JInv
             PROVE  JournalOpens /\ OneOperationPerKey /\ ClaimedOnce
  OBVIOUS
<1>1. JournalOpens
  BY HistoryIs DEF JInv, Lawful, JournalOpens, Get
<1>2. \A key \in Keys : \A o, p \in ByKey(key) : o \in OpIds /\ p \in OpIds /\ o = p
  <2> TAKE key \in Keys
  <2> TAKE o, p \in ByKey(key)
  <2>1. o \in OpIds /\ p \in OpIds
    BY DEF ByKey
  <2> QED BY <2>1, KeyedRows DEF JInv, OneRow
<1>3. OneOperationPerKey
  BY <1>2 DEF JInv, Answered, OneOperationPerKey
<1>4. ClaimedOnce
  BY <1>2, OnlyClaim DEF JInv, Lawful, ClaimedOnce
<1> QED BY <1>1, <1>3, <1>4

\* The inductive invariant of the journal, for any callers that race.
THEOREM JournalInvariance == Spec => []JInv
  BY JInvInit, JInvStep, PTL DEF Spec

\* Whatever callers raced, died or went on to, the journal they leave is one that
\* _validate_existing accepts.
THEOREM JournalAlwaysOpens == Spec => []JournalOpens
<1>1. JInv => JournalOpens
  BY JInvMeans
<1> QED BY <1>1, JournalInvariance, PTL

\* However prepare() is raced, a key names one operation, the one its callers were given.
THEOREM OneOperation == Spec => []OneOperationPerKey
<1>1. JInv => OneOperationPerKey
  BY JInvMeans
<1> QED BY <1>1, JournalInvariance, PTL

\* claim_execution grants one execution per idempotency key, ever.
THEOREM OneClaim == Spec => []ClaimedOnce
<1>1. JInv => ClaimedOnce
  BY JInvMeans
<1> QED BY <1>1, JournalInvariance, PTL

\* No later event contradicts an outcome that the journal has given out.
THEOREM OutcomesAreKept == Spec => OutcomeStands
<1>1. JInv /\ [Next]_vars
        => [\A o \in OpIds : Get(o).effective \in {"SUCCEEDED", "FAILED"} =>
               Get(o)'.effective = Get(o).effective]_vars
  <2> SUFFICES ASSUME JInv, Next, NEW o \in OpIds, Get(o).effective \in {"SUCCEEDED", "FAILED"}
               PROVE  Get(o)'.effective = Get(o).effective
    BY DEF vars
  <2>1. CASE UNCHANGED <<rows, events>>
    BY <2>1 DEF Get
  <2>2. ASSUME NEW p \in OpIds, NEW e \in EventTypes, Changes(p, e)
        PROVE  Get(o)' = Get(o)
    <3>1. IsHistory(events[p]) /\ Follows(events[p], e)
      BY <2>2 DEF JInv, Lawful, Changes
    <3>2. p # o
      BY <3>1, HistoryMoves DEF Get
    <3> QED BY <2>2, <3>2 DEF Changes, Append_event, Get, JInv, TypeOK
  <2> QED BY <2>1, <2>2, JournalStep
<1> QED BY <1>1, JournalInvariance, PTL DEF Spec, OutcomeStands

\* The journal implements OperationLifecycle, an operation being its idempotency key: every
\* call is one step of the lifecycle or none that it sees.
THEOREM JournalImplementsLifecycle == Spec => ImplementsLifecycle
<1>1. Init => Lifecycle!Init
  <2> SUFFICES ASSUME Init
               PROVE  Lifecycle!Init
    OBVIOUS
  <2>1. \A key \in Keys : KeyState(key) = "ABSENT" /\ KeySettled(key) = "NONE"
    BY JInvInit, KeysAreRead DEF Init, KeysRead
  <2> QED BY <2>1 DEF Lifecycle!Init
<1>2. JInv => KeysRead
  BY KeysAreRead
<1>3. JInv /\ JInv' /\ KeysRead /\ KeysRead' /\ [Next]_vars
        => [Lifecycle!Next]_(Lifecycle!lifecycleVars)
  <2>1. UNCHANGED <<rows, events>> => UNCHANGED Lifecycle!lifecycleVars
    BY DEF Lifecycle!lifecycleVars, KeyState, KeySettled, ByKey, Get
  <2> QED BY <2>1, JournalStep, ChangeIsAStep DEF vars
<1> QED BY <1>1, <1>2, <1>3, JournalInvariance, PTL DEF Spec, ImplementsLifecycle, Lifecycle!Spec

-----------------------------------------------------------------------------
(* The memories of one focus, each on its own.  First, counting.            *)

\* A set that may take one more does not have too many with it.
LEMMA OneMore ==
  ASSUME NEW S, IsFiniteSet(S), NEW x, NEW most \in Nat, Cardinality(S) < most
  PROVE  IsFiniteSet(S \cup {x}) /\ Cardinality(S \cup {x}) <= most
<1>1. IsFiniteSet(S \cup {x}) /\ Cardinality(S) \in Nat
  BY FS_AddElement, FS_CardinalityType
<1>2. Cardinality(S \cup {x}) = Cardinality(S) \/ Cardinality(S \cup {x}) = Cardinality(S) + 1
  BY FS_AddElement
<1> QED BY <1>1, <1>2

\* Without one of them it has not more.
LEMMA OneLess ==
  ASSUME NEW S, IsFiniteSet(S), NEW x, NEW most \in Nat, Cardinality(S) <= most
  PROVE  IsFiniteSet(S \ {x}) /\ Cardinality(S \ {x}) <= most
<1>1. IsFiniteSet(S \ {x}) /\ Cardinality(S) \in Nat
  BY FS_RemoveElement, FS_CardinalityType
<1>2. Cardinality(S \ {x}) = Cardinality(S) \/ Cardinality(S \ {x}) = Cardinality(S) - 1
  BY FS_RemoveElement
<1> QED BY <1>1, <1>2

\* Natural numbers: of some there is a smallest, and of some below a bound a largest.
LEMMA Smallest ==
  ASSUME NEW T, T \subseteq Nat, T # {}
  PROVE  \E m \in T : \A n \in T : m <= n
<1> DEFINE R == OpToRel(<, Nat)
<1>1. IsWellFoundedOn(R, Nat)
  BY NatLessThanWellFounded
<1>2. \A x, y \in Nat : x < y => <<x, y>> \in R
  BY DEF OpToRel
<1> HIDE DEF R
<1>3. PICK m \in T : \A n \in T : ~(<<n, m>> \in R)
  BY <1>1, WFMin
<1>4. \A n \in T : ~(n < m)
  BY <1>2, <1>3, Zenon
<1>5. ASSUME NEW n \in T PROVE m <= n
  <2>1. n \in Nat /\ m \in Nat /\ ~(n < m)
    BY <1>4
  <2> QED BY <2>1
<1> QED BY <1>5

\* Of some natural numbers below a bound there is a largest: counted down, it is the smallest.
LEMMA Largest ==
  ASSUME NEW T, NEW N \in Nat, T \subseteq 0..N, T # {}
  PROVE  \E m \in T : \A n \in T : n <= m
<1> DEFINE U == {n \in Nat : N - n \in T}
<1>1. PICK m \in U : \A n \in U : m <= n
  <2>1. PICK t \in T : t \in 0..N
    OBVIOUS
  <2>2. N - t \in Nat /\ N - (N - t) = t
    BY <2>1
  <2>3. U \subseteq Nat /\ U # {}
    BY <2>1, <2>2
  <2> HIDE DEF U
  <2> QED BY <2>3, Smallest
<1>2. N - m \in T
  BY <1>1
<1>3. ASSUME NEW n \in T PROVE n <= N - m
  <2>1. n \in 0..N
    OBVIOUS
  <2>2. N - n \in Nat /\ N - (N - n) = n
    BY <2>1
  <2>3. N - n \in U
    BY <2>2
  <2> QED BY <1>1, <2>1, <2>3
<1> QED BY <1>2, <1>3

-----------------------------------------------------------------------------
(* The sessions of a Song (session.py): one is open, an item is asked for   *)
(* by one binding only, and whoever may still promote it asks for the same. *)

Sess == INSTANCE SongSessions WITH
    Topics <- {Topic, Topic2}, SongScope <- Topic, Values <- Items, MaxClaims <- 2

\* Sets are counted alike in all modules.
LEMMA SessCounts == ASSUME NEW S PROVE Sess!Cardinality(S) = Cardinality(S)
BY DEF Cardinality, Sess!Cardinality

Bindings == ({Topic, Topic2} \ {Topic}) \cup {Unbound}
SessRows ==
    {Sess!NoSession} \cup [state : {"OPEN"}, binding : Bindings, debrief : {Unbound}]
        \cup [state : {"CLOSED"}, binding : Bindings, debrief : Debriefs]
SessItems == {Sess!NoSession} \cup [session : SessionIds, state : {"OPEN"}]
SessClaims == [topic : {Topic, Topic2}, value : Items]
SessCalls ==
    [op : {"append"}, session : SessionIds, item : Items]
        \cup [op : {"close"}, session : SessionIds, debrief : Debriefs]
        \cup [op : {"request", "promote"}, item : Items, topic : {Topic, Topic2}, caller : Callers]

SessTyped ==
    /\ claims \in Seq(SessClaims) /\ Len(claims) <= 2 /\ supersedes = {}
    /\ calls \subseteq SessCalls /\ IsFiniteSet(calls) /\ Cardinality(calls) <= MaxCalls
    /\ sessions \in [SessionIds -> SessRows] /\ items \in [Items -> SessItems]
    /\ requests \in [Items -> {Topic, Topic2, Unbound}]
    /\ links \subseteq Items \X DOMAIN claims
OneIsOpen ==
    \A s, t \in SessionIds : sessions[s].state = "OPEN" /\ sessions[t].state = "OPEN" => s = t
TakenThere ==
    \A i \in Items :
        items[i] # Sess!NoSession => sessions[items[i].session] # Sess!NoSession
MayGo(i, topic) ==
    /\ items[i] # Sess!NoSession
    /\ topic = Topic \/ (topic = sessions[items[i].session].binding /\ topic # Unbound)
RequestsGo == \A i \in Items : requests[i] # Unbound => MayGo(i, requests[i])
CallsGo ==
    \A call \in calls :
        /\ call.op \in {"append", "close"} => sessions[call.session] # Sess!NoSession
        /\ call.op \in {"request", "promote"} => MayGo(call.item, call.topic)
        /\ call.op = "promote" => requests[call.item] = call.topic
SessInv == /\ SessTyped /\ OneIsOpen /\ TakenThere /\ RequestsGo /\ CallsGo
           /\ Sess!PromotedOnce

\* session.py: at first there is no session, and nothing is asked of one.
LEMMA SessStarts == Sess!Init => SessInv
<1> SUFFICES ASSUME Sess!Init PROVE SessInv
  OBVIOUS
<1>1. /\ claims = <<>> /\ supersedes = {} /\ calls = {} /\ links = {}
      /\ sessions = [s \in SessionIds |-> Sess!NoSession]
      /\ items = [i \in Items |-> Sess!NoSession] /\ requests = [i \in Items |-> Unbound]
  BY DEF Sess!Init, Sess!EvidenceInit
<1>2. IsFiniteSet(calls) /\ Cardinality(calls) <= MaxCalls
  BY <1>1, FS_EmptySet, BoundsAreNumbers
<1>3. SessTyped
  BY <1>1, <1>2 DEF SessTyped, SessRows, SessItems
<1>4. OneIsOpen /\ TakenThere /\ RequestsGo /\ CallsGo
  BY <1>1 DEF OneIsOpen, TakenThere, RequestsGo, CallsGo, Sess!NoSession
<1>5. Sess!PromotedOnce
  BY <1>1 DEF Sess!PromotedOnce, Sess!Claims
<1> QED BY <1>3, <1>4, <1>5 DEF SessInv

\* A session that is there is not the absence of one.
LEMMA SessRowsDiffer ==
  /\ \A b, d : /\ [state |-> "OPEN", binding |-> b, debrief |-> d] # Sess!NoSession
               /\ [state |-> "CLOSED", binding |-> b, debrief |-> d] # Sess!NoSession
  /\ \A s : [session |-> s, state |-> "OPEN"] # Sess!NoSession
<1>1. \A b, d : /\ [state |-> "OPEN", binding |-> b, debrief |-> d].state # Sess!NoSession.state
                /\ [state |-> "CLOSED", binding |-> b, debrief |-> d].state # Sess!NoSession.state
  BY DEF Sess!NoSession
<1>2. \A s : [session |-> s, state |-> "OPEN"].state # Sess!NoSession.state
  BY DEF Sess!NoSession
<1> QED BY <1>1, <1>2

\* Calls that are added or taken away.
LEMMA SessReads ==
  ASSUME SessInv, NEW call \in SessCalls, Sess!SessionReads(call),
         /\ call.op \in {"append", "close"} => sessions[call.session] # Sess!NoSession
         /\ call.op \in {"request", "promote"} => MayGo(call.item, call.topic)
         /\ call.op = "promote" => requests[call.item] = call.topic
  PROVE  SessInv'
<1>1. /\ calls' = calls \cup {call} /\ Cardinality(calls) < MaxCalls
      /\ UNCHANGED <<claims, supersedes, sessions, items, requests, links>>
  BY SessCounts DEF Sess!SessionReads, Sess!Reads, Sess!records
<1>2. IsFiniteSet(calls') /\ Cardinality(calls') <= MaxCalls
  BY <1>1, OneMore, BoundsAreNumbers DEF SessInv, SessTyped
<1>3. SessTyped'
  BY <1>1, <1>2 DEF SessInv, SessTyped
<1>4. OneIsOpen' /\ TakenThere' /\ RequestsGo' /\ (Sess!PromotedOnce)'
  BY <1>1 DEF SessInv, OneIsOpen, TakenThere, RequestsGo, MayGo, Sess!PromotedOnce, Sess!Claims
<1>5. CallsGo'
  BY <1>1 DEF SessInv, CallsGo, MayGo
<1> QED BY <1>3, <1>4, <1>5 DEF SessInv

\* session_one_open_per_song: a session is started while none is open.
LEMMA SessStarted ==
  ASSUME SessInv, NEW s \in SessionIds, NEW b \in Bindings, Sess!Start_session(s, b)
  PROVE  SessInv'
<1>1. /\ sessions[s] = Sess!NoSession
      /\ sessions' = [sessions EXCEPT ![s] =
                         [state |-> "OPEN", binding |-> b, debrief |-> Unbound]]
      /\ UNCHANGED <<claims, supersedes, calls, items, requests, links>>
  BY DEF Sess!Start_session, Sess!OpenSession
<1>2. \A t \in SessionIds : sessions[t].state # "OPEN"
  <2> SUFFICES ASSUME NEW t \in SessionIds, sessions[t].state = "OPEN" PROVE FALSE
    OBVIOUS
  <2>1. sessions[t] # Sess!NoSession
    BY DEF Sess!NoSession
  <2>2. t \in Sess!Open
    BY <2>1 DEF Sess!Open, Sess!Started
  <2> QED BY <2>2 DEF Sess!Start_session
<1>3. [state |-> "OPEN", binding |-> b, debrief |-> Unbound] \in SessRows
  BY DEF SessRows
<1>4. SessTyped'
  BY <1>1, <1>3 DEF SessInv, SessTyped
<1>5. OneIsOpen'
  BY <1>1, <1>2 DEF SessInv, SessTyped, OneIsOpen
<1>6. \A t \in SessionIds : sessions[t] # Sess!NoSession => sessions'[t] = sessions[t]
  BY <1>1 DEF SessInv, SessTyped
<1>7. \A i \in Items : items[i] # Sess!NoSession => items[i].session \in SessionIds
  BY DEF SessInv, SessTyped, SessItems
<1>8. TakenThere'
  BY <1>1, <1>6, <1>7 DEF SessInv, TakenThere
<1>9. \A i \in Items : items[i] # Sess!NoSession =>
         sessions'[items[i].session] = sessions[items[i].session]
  BY <1>6, <1>7 DEF SessInv, TakenThere
<1>10. RequestsGo'
  BY <1>1, <1>9 DEF SessInv, RequestsGo, MayGo
<1>11. \A call \in calls : /\ call.op \in {"append", "close"} => call.session \in SessionIds
                           /\ call.op \in {"request", "promote"} => call.item \in Items
  BY DEF SessInv, SessTyped, SessCalls
<1>12. CallsGo'
  BY <1>1, <1>6, <1>9, <1>11 DEF SessInv, CallsGo, MayGo
<1>13. (Sess!PromotedOnce)'
  BY <1>1 DEF SessInv, Sess!PromotedOnce, Sess!Claims
<1> QED BY <1>4, <1>5, <1>8, <1>10, <1>12, <1>13 DEF SessInv

\* A call that has written is gone.
LEMMA SessGone ==
  ASSUME SessInv, NEW call, calls' = calls \ {call}
  PROVE  /\ calls' \subseteq SessCalls /\ IsFiniteSet(calls') /\ Cardinality(calls') <= MaxCalls
         /\ calls' \subseteq calls
<1>1. IsFiniteSet(calls') /\ Cardinality(calls') <= MaxCalls
  BY OneLess, BoundsAreNumbers DEF SessInv, SessTyped
<1> QED BY <1>1 DEF SessInv, SessTyped

\* session_items_open_only: scratch is taken down while its session is open.
LEMMA SessAppends ==
  ASSUME SessInv, NEW call \in calls, Sess!AppendWrites(call)
  PROVE  SessInv'
<1>1. /\ call.op = "append" /\ calls' = calls \ {call}
      /\ UNCHANGED <<claims, supersedes, sessions, requests, links>>
      /\ items' = [items EXCEPT ![call.item] =
                      IF @ = Sess!NoSession /\ call.session \in Sess!Open
                      THEN [session |-> call.session, state |-> "OPEN"] ELSE @]
  BY DEF Sess!AppendWrites, Sess!SessionWrites, Sess!Writes
<1>2. call.session \in SessionIds /\ call.item \in Items
  BY <1>1 DEF SessInv, SessTyped, SessCalls
<1>3. sessions[call.session] # Sess!NoSession
  BY <1>1 DEF SessInv, CallsGo
<1>4. \A i \in Items : \/ items'[i] = items[i]
                       \/ /\ items[i] = Sess!NoSession
                          /\ items'[i] = [session |-> call.session, state |-> "OPEN"]
  BY <1>1, <1>2 DEF SessInv, SessTyped
<1>5. [session |-> call.session, state |-> "OPEN"] \in SessItems
  BY <1>2 DEF SessItems
<1>6. items' \in [Items -> SessItems]
  <2>1. items' = [items EXCEPT ![call.item] = items'[call.item]]
    BY <1>1, <1>2 DEF SessInv, SessTyped
  <2>2. items'[call.item] \in SessItems
    BY <1>2, <1>4, <1>5 DEF SessInv, SessTyped
  <2> QED BY <2>1, <2>2 DEF SessInv, SessTyped
<1>7. SessTyped'
  BY <1>1, <1>6, SessGone DEF SessInv, SessTyped
<1>8. TakenThere'
  BY <1>1, <1>3, <1>4 DEF SessInv, TakenThere
<1>9. \A i \in Items : items[i] # Sess!NoSession => items'[i] = items[i]
  BY <1>4
<1>10. RequestsGo'
  BY <1>1, <1>9 DEF SessInv, RequestsGo, MayGo
<1>11. \A c \in calls : c.op \in {"request", "promote"} => c.item \in Items
  BY DEF SessInv, SessTyped, SessCalls
<1>12. CallsGo'
  BY <1>1, <1>9, <1>11 DEF SessInv, CallsGo, MayGo
<1>13. OneIsOpen' /\ (Sess!PromotedOnce)'
  BY <1>1 DEF SessInv, OneIsOpen, Sess!PromotedOnce, Sess!Claims
<1> QED BY <1>7, <1>8, <1>10, <1>12, <1>13 DEF SessInv

\* The first debrief of a session closes it, and leaves its binding.
LEMMA SessCloses ==
  ASSUME SessInv, NEW call \in calls, Sess!CloseWrites(call)
  PROVE  SessInv'
<1>1. /\ call.op = "close" /\ calls' = calls \ {call}
      /\ UNCHANGED <<claims, supersedes, items, requests, links>>
      /\ sessions' = [sessions EXCEPT ![call.session] =
                         IF @.state = "OPEN"
                         THEN [@ EXCEPT !.state = "CLOSED", !.debrief = call.debrief] ELSE @]
  BY DEF Sess!CloseWrites, Sess!SessionWrites, Sess!Writes
<1>2. call.session \in SessionIds /\ call.debrief \in Debriefs
  BY <1>1 DEF SessInv, SessTyped, SessCalls
<1>3. sessions[call.session] # Sess!NoSession
  BY <1>1 DEF SessInv, CallsGo
<1>4. PICK row \in SessRows : row = sessions[call.session]
  BY <1>2 DEF SessInv, SessTyped
<1>5. ASSUME row.state = "OPEN"
      PROVE  /\ [row EXCEPT !.state = "CLOSED", !.debrief = call.debrief] \in
                    [state : {"CLOSED"}, binding : Bindings, debrief : Debriefs]
             /\ [row EXCEPT !.state = "CLOSED", !.debrief = call.debrief].binding = row.binding
  <2>1. row \in [state : {"OPEN"}, binding : Bindings, debrief : {Unbound}]
    BY <1>3, <1>4, <1>5 DEF SessRows
  <2> QED BY <2>1, <1>2
<1>6. PICK new : new = sessions'[call.session]
  OBVIOUS
<1>7. sessions' = [sessions EXCEPT ![call.session] = new]
  BY <1>1, <1>2, <1>6 DEF SessInv, SessTyped
<1>8. \/ new = row
      \/ /\ row.state = "OPEN" /\ new.binding = row.binding
         /\ new \in [state : {"CLOSED"}, binding : Bindings, debrief : Debriefs]
  <2>1. new = IF row.state = "OPEN"
              THEN [row EXCEPT !.state = "CLOSED", !.debrief = call.debrief] ELSE row
    BY <1>1, <1>2, <1>4, <1>6 DEF SessInv, SessTyped
  <2> QED BY <2>1, <1>5
<1>9. /\ new \in SessRows /\ new # Sess!NoSession /\ new.binding = row.binding
      /\ new.state = "OPEN" => row.state = "OPEN"
  <2>1. CASE new = row
    BY <2>1, <1>3, <1>4
  <2>2. CASE /\ new.binding = row.binding
             /\ new \in [state : {"CLOSED"}, binding : Bindings, debrief : Debriefs]
    BY <2>2 DEF SessRows, Sess!NoSession
  <2> QED BY <1>8, <2>1, <2>2
<1>10. SessTyped'
  BY <1>1, <1>7, <1>9, SessGone DEF SessInv, SessTyped
<1>11. \A s \in SessionIds :
          /\ sessions'[s].binding = sessions[s].binding
          /\ sessions[s] # Sess!NoSession => sessions'[s] # Sess!NoSession
          /\ sessions'[s].state = "OPEN" => sessions[s].state = "OPEN"
  BY <1>2, <1>4, <1>7, <1>9 DEF SessInv, SessTyped
<1>12. OneIsOpen'
  BY <1>11 DEF SessInv, OneIsOpen
<1>13. \A i \in Items : items[i] # Sess!NoSession => items[i].session \in SessionIds
  BY DEF SessInv, SessTyped, SessItems
<1>14. TakenThere' /\ RequestsGo'
  BY <1>1, <1>11, <1>13 DEF SessInv, TakenThere, RequestsGo, MayGo
<1>15. \A c \in calls : /\ c.op \in {"append", "close"} => c.session \in SessionIds
                        /\ c.op \in {"request", "promote"} => c.item \in Items
  BY DEF SessInv, SessTyped, SessCalls
<1>16. CallsGo'
  BY <1>1, <1>11, <1>13, <1>15 DEF SessInv, CallsGo, MayGo
<1>17. (Sess!PromotedOnce)'
  BY <1>1 DEF SessInv, Sess!PromotedOnce, Sess!Claims
<1> QED BY <1>10, <1>12, <1>14, <1>16, <1>17 DEF SessInv

\* UNIQUE(item_id): the first request of an item is recorded, and its call goes on.
LEMMA SessRequests ==
  ASSUME SessInv, NEW call \in calls, Sess!RequestWrites(call)
  PROVE  SessInv'
<1>1. /\ call.op = "request" /\ UNCHANGED <<claims, supersedes, sessions, items, links>>
  BY DEF Sess!RequestWrites
<1>2. /\ call \in [op : {"request", "promote"}, item : Items, topic : {Topic, Topic2},
                   caller : Callers]
      /\ MayGo(call.item, call.topic) /\ call.topic # Unbound
  BY <1>1, UnboundIsNothing DEF SessInv, SessTyped, SessCalls, CallsGo
<1>3. CASE requests[call.item] # Unbound
  <2>1. calls' = calls \ {call} /\ requests' = requests
    BY <1>3 DEF Sess!RequestWrites
  <2>2. SessTyped'
    BY <2>1, <1>1, SessGone DEF SessInv, SessTyped
  <2>3. OneIsOpen' /\ TakenThere' /\ RequestsGo' /\ CallsGo' /\ (Sess!PromotedOnce)'
    BY <2>1, <1>1
    DEF SessInv, OneIsOpen, TakenThere, RequestsGo, CallsGo, MayGo, Sess!PromotedOnce, Sess!Claims
  <2> QED BY <2>2, <2>3 DEF SessInv
<1>4. CASE requests[call.item] = Unbound
  <2> DEFINE next == [call EXCEPT !.op = "promote"]
  <2>1. requests' = [requests EXCEPT ![call.item] = call.topic]
        /\ calls' = (calls \ {call}) \cup {next}
    BY <1>4 DEF Sess!RequestWrites
  <2>2. /\ next \in SessCalls /\ next.op = "promote"
        /\ next.item = call.item /\ next.topic = call.topic
    BY <1>2 DEF SessCalls
  <2> HIDE DEF next
  <2>3. IsFiniteSet(calls') /\ Cardinality(calls') <= MaxCalls
    <3>1. IsFiniteSet(calls) /\ Cardinality(calls) \in Nat /\ Cardinality(calls) <= MaxCalls
      BY FS_CardinalityType DEF SessInv, SessTyped
    <3>2. IsFiniteSet(calls \ {call}) /\ Cardinality(calls \ {call}) = Cardinality(calls) - 1
      BY <3>1, FS_RemoveElement
    <3>3. Cardinality(calls \ {call}) < MaxCalls
      BY <3>1, <3>2, BoundsAreNumbers
    <3> QED BY <2>1, <3>2, <3>3, OneMore, BoundsAreNumbers
  <2>4. requests' \in [Items -> {Topic, Topic2, Unbound}]
    BY <1>2, <2>1 DEF SessInv, SessTyped
  <2>5. SessTyped'
    BY <1>1, <2>1, <2>2, <2>3, <2>4 DEF SessInv, SessTyped
  <2>6. \A i \in Items : \/ requests'[i] = requests[i]
                           \/ /\ i = call.item
                              /\ requests'[i] = call.topic
    BY <1>2, <2>1 DEF SessInv, SessTyped
  <2>7. /\ requests'[call.item] = call.topic
        /\ \A i \in Items : requests[i] # Unbound => requests'[i] = requests[i]
    BY <1>2, <1>4, <2>1 DEF SessInv, SessTyped
  <2>8. OneIsOpen' /\ TakenThere' /\ RequestsGo'
    BY <1>1, <1>2, <2>6 DEF SessInv, OneIsOpen, TakenThere, RequestsGo, MayGo
  <2>9. \A c \in calls : c.op = "promote" => /\ c.item \in Items /\ requests[c.item] = c.topic
                                             /\ c.topic # Unbound
    BY UnboundIsNothing DEF SessInv, SessTyped, SessCalls, CallsGo
  <2>10. CallsGo'
    BY <1>1, <1>2, <2>1, <2>2, <2>7, <2>9 DEF SessInv, CallsGo, MayGo
  <2>11. \A c \in DOMAIN claims : /\ claims[c].value \in Items /\ claims[c].topic # Unbound
    <3>1. \A c \in DOMAIN claims : claims[c] \in SessClaims
      BY DEF SessInv, SessTyped
    <3> QED BY <3>1, UnboundIsNothing DEF SessClaims
  <2>12. (Sess!PromotedOnce)'
    BY <1>1, <2>7, <2>11 DEF SessInv, Sess!PromotedOnce, Sess!Claims
  <2> QED BY <2>5, <2>8, <2>10, <2>12 DEF SessInv
<1> QED BY <1>3, <1>4

\* session_promotion_claim_source and session_promotion_claim_link: an item is claimed once,
\* and the claim is linked to it.
LEMMA SessPromotes ==
  ASSUME SessInv, NEW call \in calls, Sess!PromoteWrites(call)
  PROVE  SessInv'
<1>1. /\ call.op = "promote" /\ calls' = calls \ {call} /\ Len(claims) < 2
      /\ UNCHANGED <<supersedes, sessions, items, requests>>
  BY DEF Sess!PromoteWrites, Sess!SessionWrites, Sess!Writes
<1>2. /\ call.item \in Items /\ call.topic \in {Topic, Topic2}
      /\ requests[call.item] = call.topic
  BY <1>1 DEF SessInv, SessTyped, SessCalls, CallsGo
<1>3. OneIsOpen' /\ TakenThere' /\ RequestsGo' /\ CallsGo'
  BY <1>1 DEF SessInv, OneIsOpen, TakenThere, RequestsGo, CallsGo, MayGo
<1>4. CASE \E c \in DOMAIN claims : claims[c].value = call.item
  <2>1. UNCHANGED <<claims, links>>
    BY <1>4 DEF Sess!PromoteWrites, Sess!Claims
  <2>2. SessTyped'
    BY <2>1, <1>1, SessGone DEF SessInv, SessTyped
  <2>3. (Sess!PromotedOnce)'
    BY <2>1, <1>1 DEF SessInv, Sess!PromotedOnce, Sess!Claims
  <2> QED BY <1>3, <2>2, <2>3 DEF SessInv
<1>5. CASE ~\E c \in DOMAIN claims : claims[c].value = call.item
  <2> DEFINE new == [topic |-> call.topic, value |-> call.item]
  <2>1. claims' = Append(claims, new) /\ links' = links \cup {<<call.item, Len(claims) + 1>>}
    BY <1>2, <1>5 DEF Sess!PromoteWrites, Sess!Claims
  <2>2. new \in SessClaims
    BY <1>2 DEF SessClaims
  <2>3. claims \in Seq(SessClaims)
    BY DEF SessInv, SessTyped
  <2>4. /\ claims' \in Seq(SessClaims) /\ Len(claims') = Len(claims) + 1 /\ Len(claims) \in Nat
        /\ DOMAIN claims' = DOMAIN claims \cup {Len(claims) + 1}
        /\ Len(claims) + 1 \notin DOMAIN claims
        /\ claims'[Len(claims) + 1] = new
        /\ \A c \in DOMAIN claims : claims'[c] = claims[c]
    BY <2>1, <2>2, <2>3
  <2>5. Len(claims') <= 2
    BY <1>1, <2>4
  <2>6. SessTyped'
    <3>1. links' \subseteq Items \X DOMAIN claims'
      BY <1>2, <2>1, <2>4 DEF SessInv, SessTyped
    <3> QED BY <3>1, <1>1, <2>4, <2>5, SessGone DEF SessInv, SessTyped
  <2>7. \A link \in links : link[2] \in DOMAIN claims /\ link[1] # call.item
    BY <1>5 DEF SessInv, SessTyped, Sess!PromotedOnce
  <2>8. \A c \in DOMAIN claims' :
           /\ requests[claims'[c].value] = claims'[c].topic
           /\ {link \in links' : link[1] = claims'[c].value} = {<<claims'[c].value, c>>}
    <3> TAKE c \in DOMAIN claims'
    <3>1. CASE c \in DOMAIN claims
      <4>1. /\ claims'[c] = claims[c] /\ claims[c].value # call.item
            /\ requests[claims[c].value] = claims[c].topic
            /\ {link \in links : link[1] = claims[c].value} = {<<claims[c].value, c>>}
        BY <3>1, <2>4, <1>5 DEF SessInv, Sess!PromotedOnce, Sess!Claims
      <4> QED BY <4>1, <2>1
    <3>2. CASE c = Len(claims) + 1
      <4>1. claims'[c].value = call.item /\ claims'[c].topic = call.topic
        BY <3>2, <2>4
      <4>2. {link \in links' : link[1] = call.item} = {<<call.item, c>>}
        BY <3>2, <2>1, <2>7
      <4> QED BY <4>1, <4>2, <1>2
    <3> QED BY <3>1, <3>2, <2>4
  <2>9. \A link \in links' : claims'[link[2]].value = link[1]
    <3>1. claims'[Len(claims) + 1].value = call.item
      BY <2>4
    <3> QED BY <3>1, <2>1, <2>4, <2>7 DEF SessInv, Sess!PromotedOnce
  <2>10. (Sess!PromotedOnce)'
    BY <1>1, <2>8, <2>9 DEF Sess!PromotedOnce, Sess!Claims
  <2> QED BY <1>3, <2>6, <2>10 DEF SessInv
<1> QED BY <1>4, <1>5

\* session.py: whatever calls cross or die, an item is promoted once.
LEMMA SessKeeps == SessInv /\ [Sess!Next]_(Sess!vars) => SessInv'
<1> SUFFICES ASSUME SessInv, [Sess!Next]_(Sess!vars) PROVE SessInv'
  OBVIOUS
<1>1. CASE UNCHANGED Sess!vars
  BY <1>1 DEF Sess!vars, SessInv, SessTyped, OneIsOpen, TakenThere, RequestsGo, CallsGo, MayGo,
              Sess!PromotedOnce, Sess!Claims
<1>2. ASSUME NEW s \in SessionIds, NEW b \in Bindings, Sess!Start_session(s, b)
      PROVE  SessInv'
  BY <1>2, SessStarted
<1>3. ASSUME NEW s \in SessionIds, NEW i \in Items, Sess!AppendReads(s, i)
      PROVE  SessInv'
  <2> DEFINE call == [op |-> "append", session |-> s, item |-> i]
  <2>1. call \in SessCalls /\ sessions[s] # Sess!NoSession
    BY <1>3 DEF Sess!AppendReads, Sess!Open, Sess!Started, SessCalls
  <2>2. Sess!SessionReads(call)
    BY <1>3 DEF Sess!AppendReads
  <2> QED BY <2>1, <2>2, SessReads
<1>4. ASSUME NEW s \in SessionIds, NEW d \in Debriefs, Sess!CloseReads(s, d)
      PROVE  SessInv'
  <2> DEFINE call == [op |-> "close", session |-> s, debrief |-> d]
  <2>1. call \in SessCalls /\ sessions[s] # Sess!NoSession
    BY <1>4 DEF Sess!CloseReads, Sess!Open, Sess!Started, SessCalls
  <2>2. Sess!SessionReads(call)
    BY <1>4 DEF Sess!CloseReads
  <2> QED BY <2>1, <2>2, SessReads
<1>5. ASSUME NEW i \in Items, NEW topic \in {Topic, Topic2}, NEW who \in Callers,
             Sess!PromoteReads(i, topic, who)
      PROVE  SessInv'
  <2>1. PICK op \in {"request", "promote"} :
           /\ op = "promote" => requests[i] = topic
           /\ Sess!SessionReads([op |-> op, item |-> i, topic |-> topic, caller |-> who])
    BY <1>5 DEF Sess!PromoteReads
  <2> DEFINE call == [op |-> op, item |-> i, topic |-> topic, caller |-> who]
  <2>2. call \in SessCalls /\ Sess!SessionReads(call)
    BY <2>1 DEF SessCalls
  <2>3. MayGo(i, topic)
    BY <1>5, UnboundIsNothing DEF Sess!PromoteReads, Sess!Permitted, Sess!Taken, MayGo
  <2> QED BY <2>1, <2>2, <2>3, SessReads
<1>6. ASSUME NEW call \in calls,
             \/ Sess!AppendWrites(call) \/ Sess!CloseWrites(call)
             \/ Sess!RequestWrites(call) \/ Sess!PromoteWrites(call)
      PROVE  SessInv'
  BY <1>6, SessAppends, SessCloses, SessRequests, SessPromotes
<1>7. ASSUME Sess!Crash PROVE SessInv'
  <2>1. calls' = {} /\ UNCHANGED <<claims, supersedes, sessions, items, requests, links>>
    BY <1>7 DEF Sess!Crash, Sess!records
  <2>2. IsFiniteSet(calls') /\ Cardinality(calls') <= MaxCalls
    BY <2>1, FS_EmptySet, BoundsAreNumbers
  <2> QED BY <2>1, <2>2 DEF SessInv, SessTyped, OneIsOpen, TakenThere, RequestsGo, CallsGo, MayGo,
              Sess!PromotedOnce, Sess!Claims
<1> QED BY <1>1, <1>2, <1>3, <1>4, <1>5, <1>6, <1>7 DEF Sess!Next, Bindings

\* What the sessions' invariant says of the families of the profile's memories.
LEMMA SessMeans == SessInv => Sess!TypeOK /\ Sess!SessionsOpen /\ Sess!PromotedOnce
<1> SUFFICES ASSUME SessInv PROVE Sess!TypeOK /\ Sess!SessionsOpen
  BY DEF SessInv
<1>1. Sess!EvidenceTypeOK
  BY SessCounts DEF SessInv, SessTyped, SessClaims, Sess!EvidenceTypeOK
<1>2. \A s \in Sess!Started :
         /\ sessions[s].state \in {"OPEN", "CLOSED"}
         /\ sessions[s].binding \in Bindings
         /\ (sessions[s].state = "CLOSED") = (sessions[s].debrief \in Debriefs)
  <2> TAKE s \in Sess!Started
  <2>1. s \in SessionIds /\ sessions[s] # Sess!NoSession
    BY DEF Sess!Started
  <2>2. sessions[s] \in [state : {"OPEN"}, binding : Bindings, debrief : {Unbound}]
           \cup [state : {"CLOSED"}, binding : Bindings, debrief : Debriefs]
    BY <2>1 DEF SessInv, SessTyped, SessRows
  <2> QED BY <2>2, UnboundIsNothing
<1>3. Sess!TypeOK
  <2>1. \A i \in Sess!Taken : items[i].session \in Sess!Started
    BY DEF SessInv, SessTyped, SessItems, Sess!Taken, Sess!Started, TakenThere
  <2>2. requests \in [Items -> {Topic, Topic2} \cup {Unbound}]
    BY DEF SessInv, SessTyped
  <2> QED BY <1>1, <1>2, <2>1, <2>2 DEF SessInv, SessTyped, Sess!TypeOK, Bindings, Sess!Claims
<1>4. Cardinality(Sess!Open) <= 1
  <2>1. CASE Sess!Open = {}
    BY <2>1, FS_EmptySet
  <2>2. ASSUME NEW s \in Sess!Open PROVE Cardinality(Sess!Open) <= 1
    <3>1. Sess!Open = {s}
      BY <2>2 DEF Sess!Open, Sess!Started, SessInv, OneIsOpen
    <3> QED BY <3>1, FS_Singleton
  <2> QED BY <2>1, <2>2
<1>5. \A i \in Sess!Taken : items[i].state = "OPEN"
  BY DEF SessInv, SessTyped, SessItems, Sess!Taken
<1>6. \A i \in Items : requests[i] # Unbound => requests[i] \in Sess!Permitted(i)
  BY DEF SessInv, RequestsGo, MayGo, Sess!Permitted
<1> QED BY <1>3, <1>4, <1>5, <1>6, SessCounts DEF Sess!SessionsOpen

\* The first debrief of a session and the first request of an item stand, whatever is done.
SessStands ==
    /\ \A s \in Sess!Started : sessions[s].state = "CLOSED" => sessions'[s] = sessions[s]
    /\ \A i \in Items : requests[i] # Unbound => requests'[i] = requests[i]

\* session.py: no step takes back a debrief or a request.
LEMMA SessOutcomes == SessInv /\ Sess!Next => SessStands
<1> SUFFICES ASSUME SessInv, Sess!Next PROVE SessStands
  OBVIOUS
<1>1. CASE UNCHANGED <<sessions, requests>>
  BY <1>1 DEF SessStands
<1>2. ASSUME NEW s \in SessionIds, NEW b \in Bindings, Sess!Start_session(s, b)
      PROVE  SessStands
  BY <1>2 DEF Sess!Start_session, SessStands, Sess!Started, SessInv, SessTyped
<1>3. ASSUME NEW call \in calls, Sess!CloseWrites(call) PROVE SessStands
  BY <1>3 DEF Sess!CloseWrites, SessStands, Sess!Started, SessInv, SessTyped
<1>4. ASSUME NEW call \in calls, Sess!RequestWrites(call) PROVE SessStands
  BY <1>4 DEF Sess!RequestWrites, SessStands, Sess!Started, SessInv, SessTyped
<1> QED BY <1>1, <1>2, <1>3, <1>4
        DEF Sess!Next, Bindings, Sess!AppendReads, Sess!CloseReads, Sess!PromoteReads,
            Sess!SessionReads, Sess!records, Sess!AppendWrites, Sess!PromoteWrites, Sess!Crash

-----------------------------------------------------------------------------
(* Where the projects are (workspace.py): of two workspaces no one was seen *)
(* last where the other was, whatever calls were between.                   *)

\* Where the projects are, without what was seen in them ...
Places == INSTANCE HostReconciliation WITH
    Topics <- {Topic}, MaxClaims <- 0, MaxObservations <- 3, MaxBatches <- 0, MaxCases <- 0

\* ... and the cases of one project.
Cases == INSTANCE HostReconciliation WITH
    Topics <- {Topic}, Workspaces <- OneWorkspace, Locations <- OneLocation, Technical <- Values,
    MaxClaims <- 1, MaxObservations <- 2, MaxBatches <- 2, MaxCases <- 1

\* workspace.py and shadow.py count their calls as the model does.
LEMMA HostCounts ==
  ASSUME NEW S
  PROVE  Places!Cardinality(S) = Cardinality(S) /\ Cases!Cardinality(S) = Cardinality(S)
BY DEF Cardinality, Places!Cardinality, Cases!Cardinality

\* What an observation says: which workspace was seen where, and what it was derived from.
PlaceRows(workspaces, locations) ==
    [workspace : workspaces, location : locations, source : workspaces \cup {NoSource}]
AllRows == PlaceRows(Workspaces \cup OneWorkspace, Locations \cup OneLocation)

\* The last observation of a workspace, and that no two workspaces were seen last at one place.
IsLast(o) == \A q \in DOMAIN observations :
    observations[q].workspace = observations[o].workspace => q <= o
OneEach ==
    \A o, p \in DOMAIN observations :
        IsLast(o) /\ IsLast(p) /\ observations[o].location = observations[p].location
            => observations[o].workspace = observations[p].workspace
SourcesFirst ==
    \A o \in DOMAIN observations : observations[o].source # NoSource =>
        \E p \in 1..o - 1 : observations[p].workspace = observations[o].source
PlaceCalls ==
    \A call \in calls : call.op = "place" =>
        /\ [workspace |-> call.workspace, location |-> call.location, source |-> call.source]
              \in AllRows
        /\ call.source # NoSource =>
              \E p \in DOMAIN observations : observations[p].workspace = call.source
PlacesApart ==
    /\ observations \in Seq(AllRows) /\ OneEach /\ SourcesFirst /\ PlaceCalls

\* The last of the observations of a workspace that was seen.
LEMMA LastSeen ==
  ASSUME observations \in Seq(AllRows), NEW o \in DOMAIN observations
  PROVE  LET c == Places!Current(observations[o].workspace) IN
         /\ c \in DOMAIN observations /\ IsLast(c)
         /\ observations[c].workspace = observations[o].workspace
<1> DEFINE T == {q \in DOMAIN observations :
                    observations[q].workspace = observations[o].workspace}
<1>1. DOMAIN observations = 1..Len(observations) /\ Len(observations) \in Nat
  OBVIOUS
<1>2. T \subseteq 0..Len(observations) /\ T # {} /\ T \subseteq Nat
  BY <1>1
<1>3. \E m \in T : \A n \in T : n <= m
  BY <1>1, <1>2, Largest
<1>4. \E m \in T : \A n \in T : m >= n
  BY <1>2, <1>3
<1>5. PICK c : c = Places!Current(observations[o].workspace)
  OBVIOUS
<1>6. c = CHOOSE m \in T : \A n \in T : m >= n
  BY <1>5 DEF Places!Current, Places!Max
<1>7. c \in T /\ \A n \in T : c >= n
  BY <1>4, <1>6
<1>8. \A n \in T : n <= c
  BY <1>2, <1>7
<1> QED BY <1>5, <1>7, <1>8 DEF IsLast

\* Both foci speak of what is current in the same words.
LEMMA CurrentAlike ==
  ASSUME NEW w PROVE Cases!Current(w) = Places!Current(w)
BY DEF Cases!Current, Places!Current, Cases!Max, Places!Max

\* workspace_location_current_unique: whoever was seen last at a free place is alone there.
LEMMA PlaceTaken ==
  ASSUME PlacesApart, NEW w, NEW l, NEW s,
         [workspace |-> w, location |-> l, source |-> s] \in AllRows,
         observations' = Append(observations, [workspace |-> w, location |-> l, source |-> s]),
         Places!FreeFor(w, l),
         s # NoSource => \E p \in DOMAIN observations : observations[p].workspace = s,
         calls' \subseteq calls
  PROVE  PlacesApart'
<1> DEFINE n == Len(observations) + 1
           row == [workspace |-> w, location |-> l, source |-> s]
<1>1. observations \in Seq(AllRows) /\ row \in AllRows /\ observations' = Append(observations, row)
  BY DEF PlacesApart
<1> HIDE DEF row
<1>2. /\ observations' \in Seq(AllRows) /\ n \in Nat
      /\ DOMAIN observations = 1..(n - 1) /\ DOMAIN observations' = DOMAIN observations \cup {n}
      /\ \A o \in DOMAIN observations : o < n /\ o \in Nat /\ observations'[o] = observations[o]
      /\ observations'[n] = row
  BY <1>1
<1>3. row.workspace = w /\ row.location = l /\ row.source = s
  BY DEF row
<1> HIDE DEF n
<1>4. \A o \in DOMAIN observations : IsLast(o)' => IsLast(o)
  BY <1>2 DEF IsLast
<1>5. \A o \in DOMAIN observations : IsLast(o)' => observations[o].workspace # w
  BY <1>2, <1>3 DEF IsLast
<1>6. \A o \in DOMAIN observations : IsLast(o)' => observations[o].location # l
  <2> SUFFICES ASSUME NEW o \in DOMAIN observations, IsLast(o)', observations[o].location = l
               PROVE  FALSE
    OBVIOUS
  <2>1. IsLast(o) /\ observations[o].workspace # w
    BY <1>4, <1>5
  <2>2. PICK c \in DOMAIN observations :
           /\ c = Places!Current(observations[o].workspace)
           /\ IsLast(c) /\ observations[c].workspace = observations[o].workspace
    BY <1>1, LastSeen
  <2>3. c = o
    BY <1>2, <2>1, <2>2 DEF IsLast
  <2>4. observations[o].workspace \in Places!At(l)
    BY <2>2, <2>3 DEF Places!At, Places!Used
  <2> QED BY <2>1, <2>4 DEF Places!FreeFor
<1>7. OneEach'
  <2> SUFFICES ASSUME NEW o \in DOMAIN observations', NEW p \in DOMAIN observations',
                      IsLast(o)', IsLast(p)', observations'[o].location = observations'[p].location
               PROVE  observations'[o].workspace = observations'[p].workspace
    BY DEF OneEach
  <2>1. CASE o \in DOMAIN observations /\ p \in DOMAIN observations
    BY <2>1, <1>2, <1>4 DEF PlacesApart, OneEach
  <2> QED BY <2>1, <1>2, <1>3, <1>6
<1>8. SourcesFirst'
  <2> SUFFICES ASSUME NEW o \in DOMAIN observations', observations'[o].source # NoSource
               PROVE  \E p \in 1..o - 1 : observations'[p].workspace = observations'[o].source
    BY DEF SourcesFirst
  <2>1. CASE o \in DOMAIN observations
    <3>1. PICK p \in 1..o - 1 : observations[p].workspace = observations[o].source
      BY <2>1, <1>2 DEF PlacesApart, SourcesFirst
    <3>2. p \in DOMAIN observations
      BY <2>1, <3>1, <1>2
    <3> QED BY <2>1, <3>1, <3>2, <1>2
  <2>2. CASE o = n
    BY <2>2, <1>2, <1>3
  <2> QED BY <2>1, <2>2, <1>2
<1>9. PlaceCalls'
  BY <1>2 DEF PlacesApart, PlaceCalls
<1> QED BY <1>2, <1>7, <1>8, <1>9 DEF PlacesApart

\* Two workspaces are never at one place.
LEMMA PlacesMean == PlacesApart => Places!OneWorkspacePerLocation
<1> SUFFICES ASSUME PlacesApart, NEW l \in Locations PROVE Cardinality(Places!At(l)) <= 1
  BY HostCounts DEF Places!OneWorkspacePerLocation
<1>1. ASSUME NEW w \in Places!At(l)
      PROVE  \E o \in DOMAIN observations :
                IsLast(o) /\ observations[o].location = l /\ observations[o].workspace = w
  <2>1. PICK q \in DOMAIN observations : observations[q].workspace = w
    BY DEF Places!At, Places!Used
  <2>2. observations[Places!Current(w)].location = l
    BY DEF Places!At
  <2> QED BY <2>1, <2>2, LastSeen DEF PlacesApart
<1>2. \A v, w \in Places!At(l) : v = w
  BY <1>1 DEF PlacesApart, OneEach
<1>3. Places!At(l) = {} \/ \E w : Places!At(l) = {w}
  BY <1>2
<1>4. ASSUME NEW w, Places!At(l) = {w} PROVE Cardinality(Places!At(l)) <= 1
  <2>1. Cardinality({w}) = 1
    BY FS_Singleton
  <2> QED BY <1>4, <2>1
<1>5. CASE Places!At(l) = {}
  BY <1>5, FS_EmptySet
<1> QED BY <1>3, <1>4, <1>5

-----------------------------------------------------------------------------
\* Where the projects are: nothing is recorded but where they were seen.
PlacesInv ==
    /\ PlacesApart /\ observations \in Seq(PlaceRows(Workspaces, Locations))
    /\ \A call \in calls : call.op = "place" =>
          [workspace |-> call.workspace, location |-> call.location, source |-> call.source]
              \in PlaceRows(Workspaces, Locations)
    /\ claims = <<>> /\ supersedes = {} /\ batches = <<>> /\ cases = <<>>
    /\ IsFiniteSet(calls) /\ Cardinality(calls) <= MaxCalls

\* workspace.py: at first no project was seen anywhere.
LEMMA PlacesStart == Places!Init => PlacesInv
<1> SUFFICES ASSUME Places!Init PROVE PlacesInv
  OBVIOUS
<1>1. /\ claims = <<>> /\ supersedes = {} /\ calls = {} /\ observations = <<>>
      /\ batches = <<>> /\ cases = <<>>
  BY DEF Places!Init, Places!EvidenceInit
<1>2. IsFiniteSet(calls) /\ Cardinality(calls) <= MaxCalls
  BY <1>1, FS_EmptySet, BoundsAreNumbers
<1>3. PlacesApart
  BY <1>1 DEF PlacesApart, OneEach, SourcesFirst, PlaceCalls
<1> QED BY <1>1, <1>2, <1>3 DEF PlacesInv

\* A call that looked first.
LEMMA PlacesRead ==
  ASSUME PlacesInv, NEW call, Places!Reads(call),
         UNCHANGED <<claims, supersedes, observations, batches, cases>>,
         call.op = "place" =>
            /\ [workspace |-> call.workspace, location |-> call.location, source |-> call.source]
                  \in PlaceRows(Workspaces, Locations)
            /\ call.source # NoSource =>
                  \E p \in DOMAIN observations : observations[p].workspace = call.source
  PROVE  PlacesInv'
<1>1. calls' = calls \cup {call} /\ Cardinality(calls) < MaxCalls
  BY HostCounts DEF Places!Reads
<1>2. IsFiniteSet(calls') /\ Cardinality(calls') <= MaxCalls
  BY <1>1, OneMore, BoundsAreNumbers DEF PlacesInv
<1>3. PlaceRows(Workspaces, Locations) \subseteq AllRows
  BY DEF PlaceRows, AllRows
<1>4. PlacesApart'
  <2>1. PlaceCalls'
    BY <1>1, <1>3 DEF PlacesInv, PlacesApart, PlaceCalls
  <2> QED BY <2>1 DEF PlacesInv, PlacesApart, OneEach, IsLast, SourcesFirst
<1>5. \A c \in calls' : c.op = "place" =>
         [workspace |-> c.workspace, location |-> c.location, source |-> c.source]
            \in PlaceRows(Workspaces, Locations)
  BY <1>1 DEF PlacesInv
<1> QED BY <1>2, <1>4, <1>5 DEF PlacesInv

\* workspace.py: however calls cross, the projects are apart.
LEMMA PlacesKeep == PlacesInv /\ [Places!Next]_(Places!vars) => PlacesInv'
<1> SUFFICES ASSUME PlacesInv, [Places!Next]_(Places!vars) PROVE PlacesInv'
  OBVIOUS
<1>1. CASE UNCHANGED Places!vars
  BY <1>1 DEF Places!vars, PlacesInv, PlacesApart, OneEach, IsLast, SourcesFirst, PlaceCalls
<1>2. ASSUME Places!Evidence PROVE PlacesInv'
  <2>1. ASSUME NEW call \in calls, Places!ClaimWrites(call) PROVE FALSE
    BY <2>1 DEF Places!ClaimWrites, PlacesInv
  <2>2. PICK topic \in {Topic}, value \in Values, olds \in SUBSET Places!Claims :
           Places!ClaimReads(topic, value, olds)
    BY <1>2, <2>1 DEF Places!Evidence
  <2> DEFINE call == [op |-> "claim", topic |-> topic, value |-> value, olds |-> olds]
  <2>3. Places!Reads(call) /\ UNCHANGED <<claims, supersedes>> /\ call.op # "place"
    BY <2>2 DEF Places!ClaimReads
  <2> HIDE DEF call
  <2> QED BY <1>2, <2>3, PlacesRead DEF Places!Evidence, Places!host
<1>3. ASSUME NEW w \in Workspaces, NEW l \in Locations, NEW s \in Workspaces \cup {NoSource},
             s # NoSource => s \in Places!Used,
             Places!HostReads([op |-> "place", workspace |-> w, location |-> l, source |-> s])
      PROVE  PlacesInv'
  <2>1. [workspace |-> w, location |-> l, source |-> s] \in PlaceRows(Workspaces, Locations)
    BY DEF PlaceRows
  <2>2. s # NoSource => \E p \in DOMAIN observations : observations[p].workspace = s
    BY <1>3 DEF Places!Used
  <2> QED BY <1>3, <2>1, <2>2, PlacesRead DEF Places!HostReads, Places!host
<1>4. Places!Used \subseteq Workspaces
  <2>1. \A o \in DOMAIN observations : observations[o] \in PlaceRows(Workspaces, Locations)
    BY DEF PlacesInv
  <2> QED BY <2>1 DEF PlaceRows, Places!Used
<1>5. ASSUME NEW w \in Workspaces, NEW l \in Locations,
             \/ Places!CreateReads(w, l, NoSource)
             \/ \E source \in Places!Used : Places!DeriveReads(w, l, source)
             \/ Places!MoveReads(w, l)
      PROVE  PlacesInv'
  BY <1>3, <1>4, <1>5 DEF Places!CreateReads, Places!DeriveReads, Places!MoveReads
<1>6. ASSUME NEW call, call.op # "place", Places!HostReads(call) PROVE PlacesInv'
  BY <1>6, PlacesRead DEF Places!HostReads, Places!host
<1>7. ASSUME NEW w \in Places!Used, NEW coverage, NEW effect, Places!BatchReads(w, coverage, effect)
      PROVE  PlacesInv'
  <2> DEFINE call == [op |-> "batch", observation |-> Places!Current(w), coverage |-> coverage,
                      effect |-> effect]
  <2>1. call.op # "place" /\ Places!HostReads(call)
    BY <1>7 DEF Places!BatchReads
  <2> QED BY <2>1, <1>6
<1>8. ASSUME NEW w \in Places!Used, NEW topic, Places!CaseReads(w, topic) PROVE FALSE
  BY <1>8 DEF Places!CaseReads, PlacesInv
<1>9. ASSUME NEW c \in DOMAIN cases PROVE FALSE
  BY DEF PlacesInv
<1>10. ASSUME NEW call \in calls, Places!PlaceWrites(call) PROVE PlacesInv'
  <2>1. /\ call.op = "place" /\ calls' = calls \ {call}
        /\ UNCHANGED <<claims, supersedes, batches, cases>>
    BY <1>10 DEF Places!PlaceWrites, Places!HostWrites, Places!Writes
  <2>2. IsFiniteSet(calls') /\ Cardinality(calls') <= MaxCalls /\ calls' \subseteq calls
    BY <2>1, OneLess, BoundsAreNumbers DEF PlacesInv
  <2>3. CASE Places!FreeFor(call.workspace, call.location)
    <3> DEFINE row == [workspace |-> call.workspace, location |-> call.location,
                       source |-> call.source]
    <3>1. observations' = Append(observations, row)
      BY <2>3, <1>10 DEF Places!PlaceWrites
    <3>2. /\ row \in AllRows /\ row \in PlaceRows(Workspaces, Locations)
          /\ call.source # NoSource =>
                \E p \in DOMAIN observations : observations[p].workspace = call.source
      BY <2>1 DEF PlacesInv, PlacesApart, PlaceCalls
    <3>3. PlacesApart'
      BY <2>2, <2>3, <3>1, <3>2, PlaceTaken DEF PlacesInv
    <3>4. observations' \in Seq(PlaceRows(Workspaces, Locations))
      <4> HIDE DEF row
      <4> QED BY <3>1, <3>2 DEF PlacesInv
    <3> QED BY <2>1, <2>2, <3>3, <3>4 DEF PlacesInv
  <2>4. CASE ~Places!FreeFor(call.workspace, call.location)
    <3>1. observations' = observations
      BY <2>4, <1>10 DEF Places!PlaceWrites
    <3>2. PlacesApart'
      BY <2>2, <3>1 DEF PlacesInv, PlacesApart, OneEach, IsLast, SourcesFirst, PlaceCalls
    <3> QED BY <2>1, <2>2, <3>1, <3>2 DEF PlacesInv
  <2> QED BY <2>3, <2>4
<1>11. ASSUME NEW call \in calls, Places!BatchWrites(call) \/ Places!CaseWrites(call) PROVE FALSE
  BY <1>11 DEF Places!BatchWrites, Places!CaseWrites, PlacesInv
<1>12. ASSUME NEW call \in calls, Places!DecideWrites(call) PROVE PlacesInv'
  <2>1. /\ calls' = calls \ {call} /\ UNCHANGED <<claims, supersedes, observations, batches>>
        /\ cases' = [cases EXCEPT ![call.case].choices = Append(@, call.choice)]
    BY <1>12 DEF Places!DecideWrites, Places!HostWrites, Places!Writes
  <2>2. IsFiniteSet(calls') /\ Cardinality(calls') <= MaxCalls /\ calls' \subseteq calls
    BY <2>1, OneLess, BoundsAreNumbers DEF PlacesInv
  <2>3. cases' = <<>>
    BY <2>1 DEF PlacesInv
  <2>4. PlacesApart'
    BY <2>1, <2>2 DEF PlacesInv, PlacesApart, OneEach, IsLast, SourcesFirst, PlaceCalls
  <2> QED BY <2>1, <2>2, <2>3, <2>4 DEF PlacesInv
<1> QED BY <1>1, <1>2, <1>5, <1>7, <1>8, <1>9, <1>10, <1>11, <1>12 DEF Places!Next

\* What the families say of places.
LEMMA PlacesAreTrue ==
  PlacesInv => Places!TypeOK /\ Cases!HostMemoryOpens /\ Places!OneWorkspacePerLocation
<1> SUFFICES ASSUME PlacesInv PROVE Places!TypeOK /\ Cases!HostMemoryOpens
  BY PlacesMean DEF PlacesInv
<1>1. Places!EvidenceTypeOK
  BY HostCounts DEF PlacesInv, Places!EvidenceTypeOK
<1>2. Places!TypeOK
  BY <1>1 DEF PlacesInv, Places!TypeOK, PlaceRows
<1>3. Cases!HostMemoryOpens
  BY DEF PlacesInv, PlacesApart, SourcesFirst, Cases!HostMemoryOpens
<1> QED BY <1>2, <1>3


\* The cases of one project.  A batch that reports changes has a FULL one of its observation
\* before it; a case says what the shadow and the claims it was made from said.
BatchRows == [observation : Nat, coverage : {"FULL", "INCREMENTAL"}, effect : Values \cup {NoFact}]
CaseRows ==
    [workspace : OneWorkspace, topic : {Topic}, ids : SUBSET Nat, fact : Values \cup {NoFact},
     status : {"UNRESOLVED", "MATCH", "HOST_ONLY", "SONG_ONLY", "CONFLICT"},
     baseline : Nat, latest : Nat, choices : Seq(Cases!Resolutions)]
Based(o, n) == \E f \in DOMAIN batches :
    f < n /\ batches[f].observation = o /\ batches[f].coverage = "FULL"
BatchesBased ==
    \A b \in DOMAIN batches :
        /\ batches[b].observation \in DOMAIN observations
        /\ batches[b].coverage = "INCREMENTAL" => Based(batches[b].observation, b)
CasesHold ==
    \A c \in DOMAIN cases :
        /\ \E o \in DOMAIN observations : observations[o].workspace = cases[c].workspace
        /\ cases[c].ids \subseteq DOMAIN claims
        /\ cases[c].baseline \in DOMAIN batches /\ cases[c].latest \in DOMAIN batches
        /\ cases[c].fact = batches[cases[c].latest].effect
ComparedTruly ==
    \A c \in DOMAIN cases : \E values :
        /\ \A v : v \in values <=> \E x \in cases[c].ids : claims[x].value = v
        /\ cases[c].status = Cases!Comparison(values, cases[c].fact)
ClaimCalls ==
    \A call \in calls : call.op = "claim" =>
        call.topic = Topic /\ call.value \in Values /\ call.olds \subseteq DOMAIN claims
SpotCalls ==
    \A call \in calls : call.op = "place" =>
        [workspace |-> call.workspace, location |-> call.location, source |-> call.source]
            \in PlaceRows(OneWorkspace, OneLocation)
BatchCalls ==
    \A call \in calls : call.op = "batch" =>
        /\ call.observation \in DOMAIN observations
        /\ call.coverage \in {"FULL", "INCREMENTAL"} /\ call.effect \in Values \cup {NoFact}
        /\ call.coverage = "INCREMENTAL" => Based(call.observation, Len(batches) + 1)
CompareCalls ==
    \A call \in calls : call.op = "case" =>
        /\ \E o \in DOMAIN observations : observations[o].workspace = call.workspace
        /\ call.topic = Topic
        /\ call.shadow.baseline \in DOMAIN batches /\ call.shadow.latest \in DOMAIN batches
        /\ call.shadow.fact = batches[call.shadow.latest].effect
DecisionCalls ==
    \A call \in calls : call.op = "decide" => call.choice \in Cases!Resolutions
CaseCalls == ClaimCalls /\ SpotCalls /\ BatchCalls /\ CompareCalls /\ DecisionCalls

CasesTyped ==
    /\ claims \in Seq([topic : {Topic}, value : Values]) /\ Len(claims) <= 1
    /\ supersedes \subseteq (DOMAIN claims) \X (DOMAIN claims)
    /\ observations \in Seq(PlaceRows(OneWorkspace, OneLocation))
    /\ batches \in Seq(BatchRows) /\ cases \in Seq(CaseRows)
    /\ IsFiniteSet(calls) /\ Cardinality(calls) <= MaxCalls
CasesInv == PlacesApart /\ CasesTyped /\ BatchesBased /\ CasesHold /\ ComparedTruly /\ CaseCalls

\* reconcile.py: at first there is no batch and no case.
LEMMA CasesStart == Cases!Init => CasesInv
<1> SUFFICES ASSUME Cases!Init PROVE CasesInv
  OBVIOUS
<1>1. /\ claims = <<>> /\ supersedes = {} /\ calls = {} /\ observations = <<>>
      /\ batches = <<>> /\ cases = <<>>
  BY DEF Cases!Init, Cases!EvidenceInit
<1>2. IsFiniteSet(calls) /\ Cardinality(calls) <= MaxCalls
  BY <1>1, FS_EmptySet, BoundsAreNumbers
<1>3. PlacesApart
  BY <1>1 DEF PlacesApart, OneEach, SourcesFirst, PlaceCalls
<1> QED
  BY <1>1, <1>2, <1>3
  DEF CasesInv, CasesTyped, BatchesBased, CasesHold, ComparedTruly, CaseCalls,
        ClaimCalls, SpotCalls, BatchCalls, CompareCalls, DecisionCalls

\* HostShadow.state: what is current is made of batches that are there.
LEMMA ShadowIs ==
  ASSUME batches \in Seq(BatchRows), NEW w, NEW shadow, shadow = Cases!Shadow(w),
         shadow.status # "STALE"
  PROVE  /\ shadow.baseline \in DOMAIN batches /\ shadow.latest \in DOMAIN batches
         /\ shadow.fact = batches[shadow.latest].effect
<1> DEFINE o == Cases!Current(w)
           B == Cases!Baselines(o)
           seen == {b \in DOMAIN batches :
                       batches[b].observation = o /\ b >= Cases!Max(B)}
<1>1. /\ B # {}
      /\ shadow = [status |-> "CURRENT", baseline |-> Cases!Max(B), latest |-> Cases!Max(seen),
                   fact |-> batches[Cases!Max(seen)].effect]
  BY DEF Cases!Shadow
<1>2. DOMAIN batches = 1..Len(batches) /\ Len(batches) \in Nat
  OBVIOUS
<1>3. ASSUME NEW T, T \subseteq DOMAIN batches, T # {} PROVE Cases!Max(T) \in T
  <2>1. T \subseteq 0..Len(batches) /\ T \subseteq Nat
    BY <1>2, <1>3
  <2>2. \E m \in T : \A n \in T : n <= m
    BY <1>2, <1>3, <2>1, Largest
  <2>3. \E m \in T : \A n \in T : m >= n
    BY <2>1, <2>2
  <2> QED BY <2>3 DEF Cases!Max
<1>4. Cases!Max(B) \in B /\ B \subseteq DOMAIN batches
  BY <1>1, <1>3 DEF Cases!Baselines
<1>5. Cases!Max(B) \in seen
  BY <1>2, <1>4 DEF Cases!Baselines
<1>6. Cases!Max(seen) \in seen
  BY <1>3, <1>5
<1> HIDE DEF B, seen
<1>7. shadow.baseline = Cases!Max(B) /\ shadow.latest = Cases!Max(seen)
      /\ shadow.fact = batches[Cases!Max(seen)].effect
  BY <1>1
<1>8. seen \subseteq DOMAIN batches
  BY DEF seen
<1> QED BY <1>4, <1>6, <1>7, <1>8

\* What is said of batches and cases depends on nothing else.
LEMMA CasesAlike ==
  ASSUME CasesInv, UNCHANGED <<claims, observations, batches, cases>>
  PROVE  BatchesBased' /\ CasesHold' /\ ComparedTruly'
<1>1. BatchesBased' /\ CasesHold'
  BY DEF CasesInv, BatchesBased, CasesHold, Based
<1>2. ComparedTruly'
  <2> SUFFICES ASSUME NEW c \in DOMAIN cases
               PROVE  \E values :
                         /\ \A v : v \in values <=> \E x \in cases[c].ids : claims[x].value = v
                         /\ cases[c].status = Cases!Comparison(values, cases[c].fact)
    BY DEF ComparedTruly
  <2> QED BY DEF CasesInv, ComparedTruly
<1> QED BY <1>1, <1>2

\* What a call may be, when it has looked.
LEMMA CasesRead ==
  ASSUME CasesInv, NEW call, Cases!Reads(call),
         UNCHANGED <<claims, supersedes, observations, batches, cases>>,
         call.op = "claim" => /\ call.topic = Topic /\ call.value \in Values
                              /\ call.olds \subseteq DOMAIN claims,
         call.op = "place" =>
            /\ [workspace |-> call.workspace, location |-> call.location, source |-> call.source]
                  \in PlaceRows(OneWorkspace, OneLocation)
            /\ call.source # NoSource =>
                  \E p \in DOMAIN observations : observations[p].workspace = call.source,
         call.op = "batch" =>
            /\ call.observation \in DOMAIN observations
            /\ call.coverage \in {"FULL", "INCREMENTAL"} /\ call.effect \in Values \cup {NoFact}
            /\ call.coverage = "INCREMENTAL" => Based(call.observation, Len(batches) + 1),
         call.op = "case" =>
            /\ \E o \in DOMAIN observations : observations[o].workspace = call.workspace
            /\ call.topic = Topic
            /\ call.shadow.baseline \in DOMAIN batches
            /\ call.shadow.latest \in DOMAIN batches
            /\ call.shadow.fact = batches[call.shadow.latest].effect,
         call.op = "decide" => call.choice \in Cases!Resolutions
  PROVE  CasesInv'
<1>1. calls' = calls \cup {call} /\ Cardinality(calls) < MaxCalls
  BY HostCounts DEF Cases!Reads
<1>2. IsFiniteSet(calls') /\ Cardinality(calls') <= MaxCalls
  BY <1>1, OneMore, BoundsAreNumbers DEF CasesInv, CasesTyped
<1>3. PlaceRows(OneWorkspace, OneLocation) \subseteq AllRows
  BY DEF PlaceRows, AllRows
<1>4. PlacesApart'
  <2>1. PlaceCalls'
    BY <1>1, <1>3 DEF CasesInv, PlacesApart, PlaceCalls
  <2> QED BY <2>1 DEF CasesInv, PlacesApart, OneEach, IsLast, SourcesFirst
<1>5. ClaimCalls' /\ SpotCalls' /\ DecisionCalls'
  BY <1>1 DEF CasesInv, CaseCalls, ClaimCalls, SpotCalls, DecisionCalls
<1>6. BatchCalls' /\ CompareCalls'
  <2>1. BatchCalls'
    BY <1>1 DEF CasesInv, CaseCalls, BatchCalls, Based
  <2>2. CompareCalls'
    BY <1>1 DEF CasesInv, CaseCalls, CompareCalls
  <2> QED BY <2>1, <2>2
<1>7. BatchesBased' /\ CasesHold' /\ ComparedTruly'
  BY CasesAlike
<1> QED BY <1>2, <1>4, <1>5, <1>6, <1>7 DEF CasesInv, CasesTyped, CaseCalls

\* Of a call that has written nothing is left.
LEMMA CasesGone ==
  ASSUME CasesInv, NEW call, calls' = calls \ {call}
  PROVE  IsFiniteSet(calls') /\ Cardinality(calls') <= MaxCalls /\ calls' \subseteq calls
BY OneLess, BoundsAreNumbers DEF CasesInv, CasesTyped

\* While only calls go, nothing else has to be looked at.
LEMMA CasesStay ==
  ASSUME CasesInv, NEW call, calls' = calls \ {call},
         UNCHANGED <<claims, supersedes, observations, batches, cases>>
  PROVE  CasesInv'
<1>1. IsFiniteSet(calls') /\ Cardinality(calls') <= MaxCalls /\ calls' \subseteq calls
  BY CasesGone
<1>2. PlacesApart'
  BY <1>1 DEF CasesInv, PlacesApart, OneEach, IsLast, SourcesFirst, PlaceCalls
<1>4. CaseCalls'
  <2>1. ClaimCalls' /\ SpotCalls' /\ DecisionCalls'
    BY <1>1 DEF CasesInv, CaseCalls, ClaimCalls, SpotCalls, DecisionCalls
  <2>2. BatchCalls'
    BY <1>1 DEF CasesInv, CaseCalls, BatchCalls, Based
  <2>3. CompareCalls'
    BY <1>1 DEF CasesInv, CaseCalls, CompareCalls
  <2> QED BY <2>1, <2>2, <2>3 DEF CaseCalls
<1>3. BatchesBased' /\ CasesHold' /\ ComparedTruly'
  BY CasesAlike
<1> QED BY <1>1, <1>2, <1>3, <1>4 DEF CasesInv, CasesTyped

\* evidence.py: a new claim leaves what was said of the older ones.
LEMMA CaseClaims ==
  ASSUME CasesInv, NEW call \in calls, Cases!ClaimWrites(call),
         UNCHANGED <<observations, batches, cases>>
  PROVE  CasesInv'
<1> DEFINE new == [topic |-> call.topic, value |-> call.value]
<1>1. /\ call.op = "claim" /\ Len(claims) < 1 /\ calls' = calls \ {call}
      /\ claims' = Append(claims, new)
      /\ supersedes' = supersedes \cup ({Len(claims) + 1} \X call.olds)
  BY DEF Cases!ClaimWrites, Cases!Writes
<1>2. call.topic = Topic /\ call.value \in Values /\ call.olds \subseteq DOMAIN claims
  BY <1>1 DEF CasesInv, CaseCalls, ClaimCalls
<1>3. new \in [topic : {Topic}, value : Values] /\ claims \in Seq([topic : {Topic}, value : Values])
  BY <1>2 DEF CasesInv, CasesTyped
<1> HIDE DEF new
<1>4. /\ claims' \in Seq([topic : {Topic}, value : Values]) /\ Len(claims') = Len(claims) + 1
      /\ Len(claims) \in Nat
      /\ DOMAIN claims' = DOMAIN claims \cup {Len(claims) + 1}
      /\ \A c \in DOMAIN claims : claims'[c] = claims[c]
  BY <1>1, <1>3
<1>5. Len(claims') <= 1
  BY <1>1, <1>4
<1>6. supersedes' \subseteq (DOMAIN claims') \X (DOMAIN claims')
  BY <1>1, <1>2, <1>4 DEF CasesInv, CasesTyped
<1>7. IsFiniteSet(calls') /\ Cardinality(calls') <= MaxCalls /\ calls' \subseteq calls
  BY <1>1, CasesGone
<1>8. CasesTyped'
  BY <1>4, <1>5, <1>6, <1>7 DEF CasesInv, CasesTyped
<1>9. PlacesApart'
  BY <1>7 DEF CasesInv, PlacesApart, OneEach, IsLast, SourcesFirst, PlaceCalls
<1>10. BatchesBased' /\ CasesHold'
  BY <1>4 DEF CasesInv, BatchesBased, CasesHold, Based
<1>11. ComparedTruly'
  <2> SUFFICES ASSUME NEW c \in DOMAIN cases
               PROVE  \E values :
                         /\ \A v : v \in values <=> \E x \in cases[c].ids : claims'[x].value = v
                         /\ cases[c].status = Cases!Comparison(values, cases[c].fact)
    BY DEF ComparedTruly
  <2>1. \A x \in cases[c].ids : claims'[x] = claims[x]
    BY <1>4 DEF CasesInv, CasesHold
  <2> QED BY <2>1 DEF CasesInv, ComparedTruly
<1>12. ClaimCalls' /\ SpotCalls' /\ DecisionCalls'
  BY <1>4, <1>7 DEF CasesInv, CaseCalls, ClaimCalls, SpotCalls, DecisionCalls
<1>13. BatchCalls'
  BY <1>7 DEF CasesInv, CaseCalls, BatchCalls, Based
<1>14. CompareCalls'
  BY <1>7 DEF CasesInv, CaseCalls, CompareCalls
<1> QED BY <1>8, <1>9, <1>10, <1>11, <1>12, <1>13, <1>14 DEF CasesInv, CaseCalls

\* workspace.py: one more observation, if the place is free.
LEMMA CasePlaces ==
  ASSUME CasesInv, NEW call \in calls, Cases!PlaceWrites(call)
  PROVE  CasesInv'
<1>1. /\ call.op = "place" /\ calls' = calls \ {call}
      /\ UNCHANGED <<claims, supersedes, batches, cases>>
  BY DEF Cases!PlaceWrites, Cases!HostWrites, Cases!Writes
<1>2. IsFiniteSet(calls') /\ Cardinality(calls') <= MaxCalls /\ calls' \subseteq calls
  BY <1>1, CasesGone
<1>3. CASE Cases!FreeFor(call.workspace, call.location)
  <2> DEFINE row == [workspace |-> call.workspace, location |-> call.location,
                     source |-> call.source]
  <2>1. observations' = Append(observations, row)
    BY <1>3 DEF Cases!PlaceWrites
  <2>2. /\ row \in PlaceRows(OneWorkspace, OneLocation) /\ row \in AllRows
        /\ call.source # NoSource =>
              \E p \in DOMAIN observations : observations[p].workspace = call.source
    BY <1>1 DEF CasesInv, PlacesApart, PlaceCalls, CaseCalls, SpotCalls
  <2>3. Places!FreeFor(call.workspace, call.location)
    <3>1. \A w : Cases!Current(w) = Places!Current(w)
      BY CurrentAlike
    <3> QED
      BY <1>3, <3>1
      DEF Places!FreeFor, Cases!FreeFor, Places!At, Cases!At, Places!Used, Cases!Used
  <2>4. PlacesApart'
    BY <1>2, <2>1, <2>2, <2>3, PlaceTaken DEF CasesInv
  <2>5. observations \in Seq(PlaceRows(OneWorkspace, OneLocation))
    BY DEF CasesInv, CasesTyped
  <2> HIDE DEF row
  <2>6. /\ observations' \in Seq(PlaceRows(OneWorkspace, OneLocation))
        /\ DOMAIN observations \subseteq DOMAIN observations'
        /\ \A o \in DOMAIN observations : observations'[o] = observations[o]
    BY <2>1, <2>2, <2>5
  <2>7. CasesTyped'
    BY <1>1, <1>2, <2>6 DEF CasesInv, CasesTyped
  <2>8. BatchesBased'
    BY <1>1, <2>6 DEF CasesInv, BatchesBased, Based
  <2>9. CasesHold'
    BY <1>1, <2>6 DEF CasesInv, CasesHold
  <2>10. ComparedTruly'
    <3> SUFFICES ASSUME NEW c \in DOMAIN cases
                 PROVE  \E values :
                           /\ \A v : v \in values <=> \E x \in cases[c].ids : claims[x].value = v
                           /\ cases[c].status = Cases!Comparison(values, cases[c].fact)
      BY <1>1 DEF ComparedTruly
    <3> QED BY DEF CasesInv, ComparedTruly
  <2>11. ClaimCalls' /\ SpotCalls' /\ DecisionCalls'
    BY <1>1, <1>2 DEF CasesInv, CaseCalls, ClaimCalls, SpotCalls, DecisionCalls
  <2>12. BatchCalls'
    BY <1>1, <1>2, <2>6 DEF CasesInv, CaseCalls, BatchCalls, Based
  <2>13. CompareCalls'
    BY <1>1, <1>2, <2>6 DEF CasesInv, CaseCalls, CompareCalls
  <2> QED BY <2>4, <2>7, <2>8, <2>9, <2>10, <2>11, <2>12, <2>13 DEF CasesInv, CaseCalls
<1>4. CASE ~Cases!FreeFor(call.workspace, call.location)
  <2>1. observations' = observations
    BY <1>4 DEF Cases!PlaceWrites
  <2> QED BY <1>1, <2>1, CasesStay
<1> QED BY <1>3, <1>4

\* shadow.py: one more batch, if its observation is still the current one.
LEMMA CaseBatched ==
  ASSUME CasesInv, NEW call \in calls, Cases!BatchWrites(call)
  PROVE  CasesInv'
<1>1. /\ call.op = "batch" /\ calls' = calls \ {call}
      /\ UNCHANGED <<claims, supersedes, observations, cases>>
  BY DEF Cases!BatchWrites, Cases!HostWrites, Cases!Writes
<1>2. IsFiniteSet(calls') /\ Cardinality(calls') <= MaxCalls /\ calls' \subseteq calls
  BY <1>1, CasesGone
<1>3. CASE Cases!IsCurrent(call.observation)
  <2> DEFINE row == [observation |-> call.observation, coverage |-> call.coverage,
                     effect |-> call.effect]
             n == Len(batches) + 1
  <2>1. batches' = Append(batches, row)
    BY <1>3 DEF Cases!BatchWrites
  <2>2. /\ call.observation \in DOMAIN observations
        /\ call.coverage \in {"FULL", "INCREMENTAL"} /\ call.effect \in Values \cup {NoFact}
        /\ call.coverage = "INCREMENTAL" => Based(call.observation, n)
    BY <1>1 DEF CasesInv, CaseCalls, BatchCalls
  <2>3. DOMAIN observations \subseteq Nat
    BY DEF CasesInv, CasesTyped
  <2>4. row \in BatchRows /\ batches \in Seq(BatchRows)
    BY <2>2, <2>3 DEF BatchRows, CasesInv, CasesTyped
  <2>5. row.observation = call.observation /\ row.coverage = call.coverage
    OBVIOUS
  <2> HIDE DEF row
  <2>6. /\ batches' \in Seq(BatchRows) /\ n \in Nat /\ DOMAIN batches = 1..(n - 1)
        /\ DOMAIN batches' = DOMAIN batches \cup {n}
        /\ batches'[n] = row /\ Len(batches') = n
        /\ \A b \in DOMAIN batches : batches'[b] = batches[b]
    BY <2>1, <2>4
  <2>7. CasesTyped'
    BY <1>1, <1>2, <2>6 DEF CasesInv, CasesTyped
  <2>8. BatchesBased'
    <3> SUFFICES ASSUME NEW b \in DOMAIN batches'
                 PROVE  /\ batches'[b].observation \in DOMAIN observations
                        /\ batches'[b].coverage = "INCREMENTAL" =>
                              \E f \in DOMAIN batches' :
                                  /\ f < b /\ batches'[f].observation = batches'[b].observation
                                  /\ batches'[f].coverage = "FULL"
      BY <1>1 DEF BatchesBased, Based
    <3>1. CASE b \in DOMAIN batches
      BY <3>1, <2>6 DEF CasesInv, BatchesBased, Based
    <3>2. CASE b = n
      BY <3>2, <2>2, <2>5, <2>6 DEF Based
    <3> QED BY <3>1, <3>2, <2>6
  <2>9. CasesHold'
    BY <1>1, <2>6 DEF CasesInv, CasesHold
  <2>10. ComparedTruly'
    <3> SUFFICES ASSUME NEW c \in DOMAIN cases
                 PROVE  \E values :
                           /\ \A v : v \in values <=> \E x \in cases[c].ids : claims[x].value = v
                           /\ cases[c].status = Cases!Comparison(values, cases[c].fact)
      BY <1>1 DEF ComparedTruly
    <3> QED BY DEF CasesInv, ComparedTruly
  <2>11. ClaimCalls' /\ SpotCalls' /\ DecisionCalls'
    BY <1>1, <1>2 DEF CasesInv, CaseCalls, ClaimCalls, SpotCalls, DecisionCalls
  <2>12. BatchCalls'
    BY <1>1, <1>2, <2>6 DEF CasesInv, CaseCalls, BatchCalls, Based
  <2>13. CompareCalls'
    BY <1>1, <1>2, <2>6 DEF CasesInv, CaseCalls, CompareCalls
  <2>14. PlacesApart'
    BY <1>1, <1>2 DEF CasesInv, PlacesApart, OneEach, IsLast, SourcesFirst, PlaceCalls
  <2> QED BY <2>7, <2>8, <2>9, <2>10, <2>11, <2>12, <2>13, <2>14 DEF CasesInv, CaseCalls
<1>4. CASE ~Cases!IsCurrent(call.observation)
  <2>1. batches' = batches
    BY <1>4 DEF Cases!BatchWrites
  <2> QED BY <1>1, <2>1, CasesStay
<1> QED BY <1>3, <1>4

\* reconcile.py: what may be said of the cases, when only they change.
LEMMA CasesChange ==
  ASSUME CasesInv, NEW call, calls' = calls \ {call},
         UNCHANGED <<claims, supersedes, observations, batches>>,
         cases' \in Seq(CaseRows), CasesHold', ComparedTruly'
  PROVE  CasesInv'
<1>1. IsFiniteSet(calls') /\ Cardinality(calls') <= MaxCalls /\ calls' \subseteq calls
  BY CasesGone
<1>2. CasesTyped' /\ BatchesBased'
  BY <1>1 DEF CasesInv, CasesTyped, BatchesBased, Based
<1>3. ClaimCalls' /\ SpotCalls' /\ DecisionCalls'
  BY <1>1 DEF CasesInv, CaseCalls, ClaimCalls, SpotCalls, DecisionCalls
<1>4. BatchCalls'
  BY <1>1 DEF CasesInv, CaseCalls, BatchCalls, Based
<1>5. CompareCalls'
  BY <1>1 DEF CasesInv, CaseCalls, CompareCalls
<1>6. PlacesApart'
  BY <1>1 DEF CasesInv, PlacesApart, OneEach, IsLast, SourcesFirst, PlaceCalls
<1> QED BY <1>2, <1>3, <1>4, <1>5, <1>6 DEF CasesInv, CaseCalls

\* open_case: the claims are those that are active by now, the shadow is what it was.
LEMMA CaseOpened ==
  ASSUME CasesInv, NEW call \in calls, Cases!CaseWrites(call)
  PROVE  CasesInv'
<1> DEFINE ids == Cases!TechnicalClaims(call.topic)
           values == Cases!Said(ids)
           status == Cases!Comparison(values, call.shadow.fact)
           new == [workspace |-> call.workspace, topic |-> call.topic,
                   status |-> status, ids |-> ids, fact |-> call.shadow.fact,
                   baseline |-> call.shadow.baseline, latest |-> call.shadow.latest,
                   choices |-> <<>>]
<1>1. /\ call.op = "case" /\ calls' = calls \ {call}
      /\ UNCHANGED <<claims, supersedes, observations, batches>>
      /\ cases' = IF status = "MATCH" THEN cases ELSE Append(cases, new)
  BY DEF Cases!CaseWrites, Cases!HostWrites, Cases!Writes
<1>2. /\ \E o \in DOMAIN observations : observations[o].workspace = call.workspace
      /\ call.topic = Topic
      /\ call.shadow.baseline \in DOMAIN batches /\ call.shadow.latest \in DOMAIN batches
      /\ call.shadow.fact = batches[call.shadow.latest].effect
  BY <1>1 DEF CasesInv, CaseCalls, CompareCalls
<1>3. ids \subseteq DOMAIN claims /\ ids \in SUBSET Nat
  BY DEF Cases!TechnicalClaims, Cases!Active, Cases!Claims, CasesInv, CasesTyped
<1>4. \A v : v \in values <=> \E x \in ids : claims[x].value = v
  BY DEF Cases!Said
<1>5. status \in {"UNRESOLVED", "MATCH", "HOST_ONLY", "SONG_ONLY", "CONFLICT"}
  BY DEF Cases!Comparison
<1> HIDE DEF ids, values, status
<1>6. call.workspace \in OneWorkspace
  <2>1. \A o \in DOMAIN observations : observations[o] \in PlaceRows(OneWorkspace, OneLocation)
    BY DEF CasesInv, CasesTyped
  <2> QED BY <2>1, <1>2 DEF PlaceRows
<1>7. call.shadow.fact \in Values \cup {NoFact}
  <2>1. \A b \in DOMAIN batches : batches[b] \in BatchRows
    BY DEF CasesInv, CasesTyped
  <2> QED BY <2>1, <1>2 DEF BatchRows
<1>8. call.shadow.baseline \in Nat /\ call.shadow.latest \in Nat
  BY <1>2 DEF CasesInv, CasesTyped
<1>9. new \in CaseRows
  BY <1>2, <1>3, <1>5, <1>6, <1>7, <1>8 DEF CaseRows
<1>10. /\ new.workspace = call.workspace /\ new.ids = ids /\ new.fact = call.shadow.fact
       /\ new.status = status /\ new.baseline = call.shadow.baseline
       /\ new.latest = call.shadow.latest
  OBVIOUS
<1> HIDE DEF new
<1>11. CASE status = "MATCH"
  BY <1>1, <1>11, CasesStay
<1>12. CASE status # "MATCH"
  <2>1. cases \in Seq(CaseRows) /\ cases' = Append(cases, new)
    BY <1>1, <1>12 DEF CasesInv, CasesTyped
  <2>2. /\ cases' \in Seq(CaseRows) /\ DOMAIN cases' = DOMAIN cases \cup {Len(cases) + 1}
        /\ cases'[Len(cases) + 1] = new
        /\ \A c \in DOMAIN cases : cases'[c] = cases[c]
    BY <1>9, <2>1
  <2>3. CasesHold'
    <3>1. \A c \in DOMAIN cases' : c \in DOMAIN cases \/ cases'[c] = new
      BY <2>2
    <3> QED BY <1>1, <1>2, <1>3, <1>10, <2>2, <3>1 DEF CasesInv, CasesHold
  <2>4. ComparedTruly'
    <3> SUFFICES ASSUME NEW c \in DOMAIN cases'
                 PROVE  \E V : /\ \A v : v \in V <=> \E x \in cases'[c].ids : claims'[x].value = v
                               /\ cases'[c].status = Cases!Comparison(V, cases'[c].fact)
      BY Zenon DEF ComparedTruly
    <3>1. CASE c \in DOMAIN cases
      <4>1. cases'[c] = cases[c] /\ claims' = claims
        BY <3>1, <1>1, <2>2
      <4>2. PICK V : /\ \A v : v \in V <=> \E x \in cases[c].ids : claims[x].value = v
                     /\ cases[c].status = Cases!Comparison(V, cases[c].fact)
        BY <3>1 DEF CasesInv, ComparedTruly
      <4> QED BY <4>1, <4>2
    <3>2. CASE c = Len(cases) + 1
      BY <3>2, <1>1, <1>4, <1>10, <2>2 DEF status
    <3> QED BY <3>1, <3>2, <2>2
  <2> QED BY <1>1, <2>2, <2>3, <2>4, CasesChange
<1> QED BY <1>11, <1>12

\* record_decision: a choice is added to a case, and nothing else of it changes.
LEMMA CaseDecided ==
  ASSUME CasesInv, NEW call \in calls, Cases!DecideWrites(call)
  PROVE  CasesInv'
<1>1. /\ call.op = "decide" /\ calls' = calls \ {call}
      /\ UNCHANGED <<claims, supersedes, observations, batches>>
      /\ cases' = [cases EXCEPT ![call.case].choices = Append(@, call.choice)]
  BY DEF Cases!DecideWrites, Cases!HostWrites, Cases!Writes
<1>2. call.choice \in Cases!Resolutions
  BY <1>1 DEF CasesInv, CaseCalls, DecisionCalls
<1>3. CASE call.case \notin DOMAIN cases
  <2>1. cases' = cases
    BY <1>1, <1>3 DEF CasesInv, CasesTyped
  <2> QED BY <1>1, <2>1, CasesStay
<1>4. CASE call.case \in DOMAIN cases
  <2>1. PICK row \in CaseRows : row = cases[call.case]
    BY <1>4 DEF CasesInv, CasesTyped
  <2>2. PICK new : new = [row EXCEPT !.choices = Append(@, call.choice)]
    OBVIOUS
  <2>3. Append(row.choices, call.choice) \in Seq(Cases!Resolutions)
    <3>1. row.choices \in Seq(Cases!Resolutions)
      BY <2>1 DEF CaseRows
    <3> QED BY <1>2, <3>1
  <2>4. /\ new \in CaseRows /\ new.workspace = row.workspace /\ new.ids = row.ids
        /\ new.fact = row.fact /\ new.status = row.status
        /\ new.baseline = row.baseline /\ new.latest = row.latest
    BY <2>1, <2>2, <2>3 DEF CaseRows
  <2>5. cases \in Seq(CaseRows) /\ cases' = [cases EXCEPT ![call.case] = new]
    BY <1>1, <1>4, <2>1, <2>2 DEF CasesInv, CasesTyped
  <2>6. /\ cases' \in Seq(CaseRows) /\ DOMAIN cases' = DOMAIN cases
        /\ cases'[call.case] = new
        /\ \A c \in DOMAIN cases : c # call.case => cases'[c] = cases[c]
    BY <1>4, <2>4, <2>5
  <2>7. \A c \in DOMAIN cases :
           /\ cases'[c].workspace = cases[c].workspace /\ cases'[c].ids = cases[c].ids
           /\ cases'[c].fact = cases[c].fact /\ cases'[c].status = cases[c].status
           /\ cases'[c].baseline = cases[c].baseline /\ cases'[c].latest = cases[c].latest
    BY <2>1, <2>4, <2>6
  <2>8. CasesHold'
    BY <1>1, <2>6, <2>7 DEF CasesInv, CasesHold
  <2>9. ComparedTruly'
    <3> SUFFICES ASSUME NEW c \in DOMAIN cases
                 PROVE  \E V : /\ \A v : v \in V <=> \E x \in cases'[c].ids : claims[x].value = v
                               /\ cases'[c].status = Cases!Comparison(V, cases'[c].fact)
      BY <1>1, <2>6 DEF ComparedTruly
    <3> QED BY <2>7 DEF CasesInv, ComparedTruly
  <2> QED BY <1>1, <2>6, <2>8, <2>9, CasesChange
<1> QED BY <1>3, <1>4

\* reconcile.py with shadow.py and workspace.py: however calls cross, all of it holds.
LEMMA CasesKeep == CasesInv /\ [Cases!Next]_(Cases!vars) => CasesInv'
<1> SUFFICES ASSUME CasesInv, [Cases!Next]_(Cases!vars) PROVE CasesInv'
  OBVIOUS
<1>1. CASE UNCHANGED Cases!vars
  <2>1. /\ claims' = claims /\ supersedes' = supersedes /\ calls' = calls
        /\ observations' = observations /\ batches' = batches /\ cases' = cases
    BY <1>1 DEF Cases!vars
  <2>2. BatchesBased' /\ CasesHold' /\ ComparedTruly'
    BY <2>1, CasesAlike
  <2>3. PlacesApart' /\ CasesTyped'
    BY <2>1 DEF CasesInv, CasesTyped, PlacesApart, OneEach, IsLast, SourcesFirst, PlaceCalls
  <2>4. ClaimCalls' /\ SpotCalls' /\ DecisionCalls'
    BY <2>1 DEF CasesInv, CaseCalls, ClaimCalls, SpotCalls, DecisionCalls
  <2>5. BatchCalls' /\ CompareCalls'
    BY <2>1 DEF CasesInv, CaseCalls, BatchCalls, Based, CompareCalls
  <2> QED BY <2>2, <2>3, <2>4, <2>5 DEF CasesInv, CaseCalls
<1>2. ASSUME Cases!Evidence PROVE CasesInv'
  <2>1. UNCHANGED <<observations, batches, cases>>
    BY <1>2 DEF Cases!Evidence, Cases!host
  <2>2. ASSUME NEW topic \in {Topic}, NEW value \in Values, NEW olds \in SUBSET Cases!Claims,
               Cases!ClaimReads(topic, value, olds)
        PROVE  CasesInv'
    <3> DEFINE call == [op |-> "claim", topic |-> topic, value |-> value, olds |-> olds]
    <3>1. Cases!Reads(call) /\ UNCHANGED <<claims, supersedes>>
      BY <2>2 DEF Cases!ClaimReads
    <3>2. /\ call.op = "claim" /\ call.topic = Topic /\ call.value \in Values
          /\ call.olds \subseteq DOMAIN claims
      BY DEF Cases!Claims
    <3> HIDE DEF call
    <3> QED BY <2>1, <3>1, <3>2, CasesRead
  <2>3. ASSUME NEW call \in calls, Cases!ClaimWrites(call) PROVE CasesInv'
    BY <2>1, <2>3, CaseClaims
  <2> QED BY <1>2, <2>2, <2>3 DEF Cases!Evidence
<1>3. ASSUME NEW w \in OneWorkspace, NEW l \in OneLocation, NEW s \in OneWorkspace \cup {NoSource},
             s # NoSource => s \in Cases!Used,
             Cases!HostReads([op |-> "place", workspace |-> w, location |-> l, source |-> s])
      PROVE  CasesInv'
  <2> DEFINE call == [op |-> "place", workspace |-> w, location |-> l, source |-> s]
  <2>1. [workspace |-> w, location |-> l, source |-> s] \in PlaceRows(OneWorkspace, OneLocation)
    BY DEF PlaceRows
  <2>2. s # NoSource => \E p \in DOMAIN observations : observations[p].workspace = s
    BY <1>3 DEF Cases!Used
  <2>3. /\ Cases!Reads(call) /\ UNCHANGED <<claims, supersedes, observations, batches, cases>>
        /\ call.op = "place" /\ call.workspace = w /\ call.location = l /\ call.source = s
    BY <1>3 DEF Cases!HostReads, Cases!host
  <2> HIDE DEF call
  <2> QED BY <2>1, <2>2, <2>3, CasesRead
<1>4. Cases!Used \subseteq OneWorkspace
  <2>1. \A o \in DOMAIN observations : observations[o] \in PlaceRows(OneWorkspace, OneLocation)
    BY DEF CasesInv, CasesTyped
  <2> QED BY <2>1 DEF PlaceRows, Cases!Used
<1>5. ASSUME NEW w \in OneWorkspace, NEW l \in OneLocation,
             \/ Cases!CreateReads(w, l, NoSource)
             \/ \E source \in Cases!Used : Cases!DeriveReads(w, l, source)
             \/ Cases!MoveReads(w, l)
      PROVE  CasesInv'
  BY <1>3, <1>4, <1>5 DEF Cases!CreateReads, Cases!DeriveReads, Cases!MoveReads
<1>6. ASSUME NEW w \in Cases!Used, NEW coverage \in {"FULL", "INCREMENTAL"},
             NEW effect \in Cases!Effects, Cases!BatchReads(w, coverage, effect)
      PROVE  CasesInv'
  <2>1. PICK o : o = Cases!Current(w)
    OBVIOUS
  <2> DEFINE call == [op |-> "batch", observation |-> o, coverage |-> coverage, effect |-> effect]
  <2>2. o \in DOMAIN observations
    <3>1. PICK q \in DOMAIN observations : observations[q].workspace = w
      BY DEF Cases!Used
    <3> QED BY <2>1, <3>1, LastSeen, CurrentAlike DEF CasesInv, PlacesApart
  <2>3. coverage = "INCREMENTAL" => Based(o, Len(batches) + 1)
    <3>1. DOMAIN batches = 1..Len(batches) /\ Len(batches) \in Nat
      BY DEF CasesInv, CasesTyped
    <3>2. coverage = "INCREMENTAL" => Cases!Baselines(o) # {}
      BY <1>6, <2>1 DEF Cases!BatchReads
    <3> QED BY <3>1, <3>2 DEF Based, Cases!Baselines
  <2>4. /\ Cases!Reads(call) /\ UNCHANGED <<claims, supersedes, observations, batches, cases>>
        /\ call.op = "batch" /\ call.observation = o /\ call.coverage = coverage
        /\ call.effect = effect
    BY <1>6, <2>1 DEF Cases!BatchReads, Cases!HostReads, Cases!host
  <2>5. effect \in Values \cup {NoFact}
    BY DEF Cases!Effects
  <2> HIDE DEF call
  <2> QED BY <2>2, <2>3, <2>4, <2>5, CasesRead
<1>7. ASSUME NEW w \in Cases!Used, NEW topic \in {Topic}, Cases!CaseReads(w, topic)
      PROVE  CasesInv'
  <2>1. PICK shadow : shadow = Cases!Shadow(w)
    OBVIOUS
  <2> DEFINE call == [op |-> "case", workspace |-> w, topic |-> topic, shadow |-> shadow]
  <2>2. shadow.status # "STALE"
    BY <1>7, <2>1 DEF Cases!CaseReads
  <2>3. /\ shadow.baseline \in DOMAIN batches /\ shadow.latest \in DOMAIN batches
        /\ shadow.fact = batches[shadow.latest].effect
    BY <2>1, <2>2, ShadowIs DEF CasesInv, CasesTyped
  <2>4. /\ Cases!Reads(call) /\ UNCHANGED <<claims, supersedes, observations, batches, cases>>
        /\ call.op = "case" /\ call.workspace = w /\ call.topic = Topic /\ call.shadow = shadow
    BY <1>7, <2>1 DEF Cases!CaseReads, Cases!HostReads, Cases!host
  <2>5. \E o \in DOMAIN observations : observations[o].workspace = w
    BY DEF Cases!Used
  <2> HIDE DEF call
  <2> QED BY <2>3, <2>4, <2>5, CasesRead
<1>8. ASSUME NEW c \in DOMAIN cases, NEW choice \in Cases!Resolutions, Cases!DecideReads(c, choice)
      PROVE  CasesInv'
  <2> DEFINE call == [op |-> "decide", case |-> c, choice |-> choice]
  <2>1. /\ Cases!Reads(call) /\ UNCHANGED <<claims, supersedes, observations, batches, cases>>
        /\ call.op = "decide" /\ call.choice \in Cases!Resolutions
    BY <1>8 DEF Cases!DecideReads, Cases!HostReads, Cases!host
  <2> HIDE DEF call
  <2> QED BY <2>1, CasesRead
<1>9. ASSUME NEW call \in calls,
             \/ Cases!PlaceWrites(call) \/ Cases!BatchWrites(call)
             \/ Cases!CaseWrites(call) \/ Cases!DecideWrites(call)
      PROVE  CasesInv'
  BY <1>9, CasePlaces, CaseBatched, CaseOpened, CaseDecided
<1> QED BY <1>1, <1>2, <1>5, <1>6, <1>7, <1>8, <1>9 DEF Cases!Next

\* What the families say of cases.
LEMMA CasesAreTrue ==
  CasesInv => /\ Cases!TypeOK /\ Cases!HostMemoryOpens /\ Cases!DecidedIsNow
              /\ Places!OneWorkspacePerLocation
<1> SUFFICES ASSUME CasesInv PROVE Cases!TypeOK /\ Cases!HostMemoryOpens /\ Cases!DecidedIsNow
  BY PlacesMean DEF CasesInv
<1>1. Cases!EvidenceTypeOK
  BY HostCounts DEF CasesInv, CasesTyped, Cases!EvidenceTypeOK, Cases!Claims
<1>2. \A c \in DOMAIN cases : cases[c] \in CaseRows
  BY DEF CasesInv, CasesTyped
<1>3. \A b \in DOMAIN batches : batches[b] \in BatchRows
  BY DEF CasesInv, CasesTyped
<1>4. Cases!TypeOK
  <2>1. observations \in Seq([workspace : OneWorkspace, location : OneLocation,
                              source : OneWorkspace \cup {NoSource}])
    BY DEF CasesInv, CasesTyped, PlaceRows
  <2>2. batches \in Seq([observation : DOMAIN observations, coverage : {"FULL", "INCREMENTAL"},
                         effect : Cases!Effects])
    <3> DEFINE R == [observation : DOMAIN observations, coverage : {"FULL", "INCREMENTAL"},
                     effect : Cases!Effects]
    <3>1. \A b \in DOMAIN batches : batches[b] \in R
      BY <1>3 DEF BatchRows, CasesInv, BatchesBased, Cases!Effects
    <3>2. batches \in Seq(BatchRows)
      BY DEF CasesInv, CasesTyped
    <3> HIDE DEF R
    <3>3. batches \in Seq(R)
      BY <3>1, <3>2
    <3> QED BY <3>3 DEF R
  <2>3. \A c \in DOMAIN cases :
           /\ cases[c].workspace \in Cases!Used /\ cases[c].topic \in {Topic}
           /\ cases[c].ids \subseteq Cases!Claims
           /\ {cases[c].baseline, cases[c].latest} \subseteq DOMAIN batches
           /\ cases[c].choices \in Seq(Cases!Resolutions)
    BY <1>2 DEF CaseRows, CasesInv, CasesHold, Cases!Used, Cases!Claims
  <2> QED BY <1>1, <2>1, <2>2, <2>3 DEF Cases!TypeOK
<1>5. Cases!HostMemoryOpens
  <2>1. \A b \in DOMAIN batches : batches[b].coverage = "INCREMENTAL" =>
           \E f \in Cases!Baselines(batches[b].observation) : f < b
    BY DEF CasesInv, BatchesBased, Based, Cases!Baselines
  <2> QED BY <2>1 DEF CasesInv, PlacesApart, SourcesFirst, Cases!HostMemoryOpens
<1>6. Cases!DecidedIsNow
  <2> SUFFICES ASSUME NEW c \in DOMAIN cases, Cases!Status(c) # "STALE"
               PROVE  LET values == Cases!Said(Cases!TechnicalClaims(cases[c].topic))
                          fact == Cases!Shadow(cases[c].workspace).fact
                      IN /\ cases[c].fact = fact
                         /\ Cases!Said(cases[c].ids) = values
                         /\ cases[c].status = Cases!Comparison(values, fact)
    BY DEF Cases!DecidedIsNow
  <2>1. PICK shadow : shadow = Cases!Shadow(cases[c].workspace)
    OBVIOUS
  <2>2. /\ shadow.status # "STALE" /\ shadow.latest = cases[c].latest
        /\ Cases!TechnicalClaims(cases[c].topic) = cases[c].ids
    BY <2>1 DEF Cases!Status
  <2>3. shadow.fact = cases[c].fact
    <3>1. shadow.fact = batches[shadow.latest].effect
      BY <2>1, <2>2, ShadowIs DEF CasesInv, CasesTyped
    <3> QED BY <2>2, <3>1 DEF CasesInv, CasesHold
  <2>4. PICK V : /\ \A v : v \in V <=> \E x \in cases[c].ids : claims[x].value = v
                 /\ cases[c].status = Cases!Comparison(V, cases[c].fact)
    BY DEF CasesInv, ComparedTruly
  <2>5. Cases!Said(cases[c].ids) = V
    BY <2>4 DEF Cases!Said
  <2> QED BY <2>1, <2>2, <2>3, <2>4, <2>5
<1> QED BY <1>4, <1>5, <1>6

-----------------------------------------------------------------------------
(* The splits of a Song (credits.py): what may still be set was checked     *)
(* against the whole, and a proposal that all confirm is what they          *)
(* confirmed.                                                               *)

Splits == INSTANCE CompositionSplits

\* credits.py: the shares of a sheet, added up one person after the other.
Taken(share, s, sums) ==
    IF s = {} THEN 0
    ELSE share[CHOOSE x \in s : TRUE] + sums[s \ {CHOOSE x \in s : TRUE}]
AddsUp(share, sums) == sums = [s \in SUBSET Participants |-> Taken(share, s, sums)]

\* credits.py: what a sheet adds up to is what it is summed to, one after the other.
LEMMA TotalIs ==
  ASSUME NEW share
  PROVE  Splits!Total(share) = (CHOOSE sums : AddsUp(share, sums))[Participants]
BY DEF Splits!Total, Splits!FoldSet, Splits!MapThenFoldSet, AddsUp, Taken

\* A sheet without allocations adds up to nothing.
LEMMA BlankTotal == Splits!Total(Splits!Blank) = 0
<1> DEFINE Step(s, it) == Taken(Splits!Blank, s, it)
<1>1. PICK iter : iter = CHOOSE sums : AddsUp(Splits!Blank, sums)
  OBVIOUS
<1>2. PICK zero : zero = [s \in SUBSET Participants |-> 0]
  OBVIOUS
<1>3. \A s \in SUBSET Participants : Step(s, zero) = 0
  <2> TAKE s \in SUBSET Participants
  <2>1. CASE s # {}
    <3>1. PICK x : x = CHOOSE y \in s : TRUE
      OBVIOUS
    <3>2. x \in s /\ s \ {x} \in SUBSET Participants
      BY <2>1, <3>1
    <3>3. Splits!Blank[x] = 0 /\ zero[s \ {x}] = 0
      BY <1>2, <3>2 DEF Splits!Blank
    <3> QED BY <2>1, <3>1, <3>3 DEF Taken
  <2> QED BY <2>1 DEF Taken
<1>4. AddsUp(Splits!Blank, zero)
  BY <1>2, <1>3 DEF AddsUp
<1>5. AddsUp(Splits!Blank, iter)
  BY <1>1, <1>4
<1>6. \A s \in SUBSET Participants : iter[s] = Step(s, iter)
  BY <1>5 DEF AddsUp
<1>7. SUFFICES ASSUME iter[Participants] # 0 PROVE FALSE
  BY <1>1, TotalIs
<1> DEFINE Sizes == {k \in Nat : \E s \in SUBSET Participants : Cardinality(s) = k /\ iter[s] # 0}
<1>8. Cardinality(Participants) \in Sizes
  BY <1>7, SplitsAreBounded, FS_CardinalityType
<1>9. PICK k \in Sizes : \A m \in Sizes : k <= m
  BY <1>8, Smallest
<1>10. PICK s \in SUBSET Participants : Cardinality(s) = k /\ iter[s] # 0
  OBVIOUS
<1>11. s # {}
  BY <1>6, <1>10 DEF Taken
<1>12. PICK x : x = CHOOSE y \in s : TRUE
  OBVIOUS
<1>13. x \in s /\ x \in Participants /\ s \ {x} \in SUBSET Participants /\ IsFiniteSet(s)
  BY <1>10, <1>11, <1>12, SplitsAreBounded, FS_Subset
<1>14. iter[s] = 0 + iter[s \ {x}]
  <2>1. Splits!Blank[x] = 0
    BY <1>13 DEF Splits!Blank
  <2> QED BY <1>6, <1>11, <1>12, <1>13, <2>1 DEF Taken
<1>15. Cardinality(s \ {x}) = k - 1 /\ Cardinality(s \ {x}) \in Nat
  BY <1>10, <1>13, FS_RemoveElement, FS_Subset, FS_CardinalityType
<1>16. iter[s \ {x}] # 0
  BY <1>10, <1>14
<1>17. k - 1 \in Sizes
  BY <1>13, <1>15, <1>16
<1> QED BY <1>9, <1>17

\* The rows of the four tables, and the calls that have looked and not yet written.
SheetRows == [song : SplitSongs, state : Splits!States] \cup {Splits!NoSheet}
Confirmations == [person : Participants, status : Splits!Statuses, share : 0..Whole]
SplitCalls ==
    [op : {"set"}, sheet : Sheets, share : Splits!Shares]
        \cup [op : {"submit", "void"}, sheet : Sheets]
        \cup [op : {"confirm"}, sheet : Sheets, person : Participants, status : Splits!Statuses]

SplitTyped ==
    /\ credits \subseteq SplitSongs \X Participants
    /\ sheets \in [Sheets -> SheetRows]
    /\ shares \in [Sheets -> Splits!Shares]
    /\ confirmed \in [Sheets -> Seq(Confirmations)]
    /\ splitCalls \subseteq SplitCalls
    /\ IsFiniteSet(splitCalls) /\ Cardinality(splitCalls) <= MaxSplitCalls
SetsAreChecked == \A call \in splitCalls : call.op = "set" => Splits!Total(call.share) <= Whole
\* A sheet's rows at any time: what makes them right whatever is confirmed or set next.
SheetHolds(s) ==
    /\ Splits!Total(shares[s]) <= Whole
    /\ sheets[s].state = "OPEN_CONFIRMATION" => Splits!Total(shares[s]) = Whole
    /\ \A i \in DOMAIN confirmed[s] :
          /\ sheets[s].state \in {"OPEN_CONFIRMATION", "VOIDED"}
          /\ confirmed[s][i].share = shares[s][confirmed[s][i].person]
          /\ shares[s][confirmed[s][i].person] > 0
OneProposal ==
    \A s, t \in Sheets :
        sheets[s].state \in Splits!Active /\ sheets[t].state \in Splits!Active /\ s # t =>
            sheets[s].song # sheets[t].song
SplitInv == SplitTyped /\ SetsAreChecked /\ (\A s \in Sheets : SheetHolds(s)) /\ OneProposal

\* credits.py counts its calls as the model does.
LEMMA SplitCounts == ASSUME NEW S PROVE Splits!Cardinality(S) = Cardinality(S)
BY DEF Cardinality, Splits!Cardinality

\* credits.py: at first there is no sheet, and nobody has a share.
LEMMA SplitStarts == Splits!Init => SplitInv
<1> SUFFICES ASSUME Splits!Init PROVE SplitInv
  OBVIOUS
<1>1. /\ credits = {} /\ sheets = [s \in Sheets |-> Splits!NoSheet]
      /\ shares = [s \in Sheets |-> Splits!Blank]
      /\ confirmed = [s \in Sheets |-> <<>>] /\ splitCalls = {}
  BY DEF Splits!Init
<1>2. IsFiniteSet(splitCalls) /\ Cardinality(splitCalls) = 0
  BY <1>1, FS_EmptySet
<1>3. Splits!Blank \in Splits!Shares
  BY SplitsAreBounded DEF Splits!Blank, Splits!Shares
<1>4. SplitTyped
  BY <1>1, <1>2, <1>3, SplitsAreBounded DEF SplitTyped, SheetRows
<1>5. \A s \in Sheets : SheetHolds(s)
  <2> TAKE s \in Sheets
  <2>1. shares[s] = Splits!Blank /\ confirmed[s] = <<>> /\ sheets[s] = Splits!NoSheet
    BY <1>1
  <2>2. sheets[s].state # "OPEN_CONFIRMATION"
    BY <2>1 DEF Splits!NoSheet
  <2> QED BY <2>1, <2>2, BlankTotal, SplitsAreBounded DEF SheetHolds
<1>6. SetsAreChecked /\ OneProposal
  BY <1>1 DEF SetsAreChecked, OneProposal, Splits!NoSheet, Splits!Active
<1> QED BY <1>4, <1>5, <1>6 DEF SplitInv

\* The steps of a call: it is remembered when it has looked, forgotten when it writes.
LEMMA SplitReads ==
  ASSUME SplitInv, NEW call \in SplitCalls, Splits!Reads(call),
         call.op = "set" => Splits!Total(call.share) <= Whole
  PROVE  SplitInv'
<1>1. /\ splitCalls' = splitCalls \cup {call} /\ Cardinality(splitCalls) < MaxSplitCalls
      /\ UNCHANGED <<credits, sheets, shares, confirmed>>
  BY SplitCounts DEF Splits!Reads
<1>2. IsFiniteSet(splitCalls') /\ Cardinality(splitCalls') <= MaxSplitCalls
  BY <1>1, OneMore, SplitsAreBounded DEF SplitInv, SplitTyped
<1>3. SplitTyped'
  BY <1>1, <1>2 DEF SplitInv, SplitTyped
<1>4. SetsAreChecked'
  BY <1>1 DEF SplitInv, SetsAreChecked
<1>5. \A s \in Sheets : SheetHolds(s)'
  BY <1>1 DEF SplitInv, SheetHolds
<1>6. OneProposal'
  BY <1>1 DEF SplitInv, OneProposal
<1> QED BY <1>3, <1>4, <1>5, <1>6 DEF SplitInv

\* A call that has written is forgotten; those that are left were checked.
LEMMA SplitWrites ==
  ASSUME SplitInv, NEW call \in splitCalls, splitCalls' = splitCalls \ {call}
  PROVE  /\ splitCalls' \subseteq SplitCalls /\ SetsAreChecked'
         /\ IsFiniteSet(splitCalls') /\ Cardinality(splitCalls') <= MaxSplitCalls
<1>1. IsFiniteSet(splitCalls') /\ Cardinality(splitCalls') <= MaxSplitCalls
  BY OneLess, SplitsAreBounded DEF SplitInv, SplitTyped
<1>2. splitCalls' \subseteq SplitCalls /\ SetsAreChecked'
  BY DEF SplitInv, SplitTyped, SetsAreChecked
<1> QED BY <1>1, <1>2

\* credits.py: whatever calls cross, a sheet holds what was checked and confirmed of it.
LEMMA SplitKeeps ==
  ASSUME SplitInv, [Splits!Next]_(Splits!vars)
  PROVE  SplitInv'
<1>1. ASSUME NEW song \in SplitSongs, NEW p \in Participants, Splits!Record_credit(song, p)
      PROVE  SplitInv'
  <2>1. credits' = credits \cup {<<song, p>>} /\ UNCHANGED <<sheets, shares, confirmed, splitCalls>>
    BY <1>1 DEF Splits!Record_credit
  <2> QED BY <2>1 DEF SplitInv, SplitTyped, SetsAreChecked, SheetHolds, OneProposal
<1>2. ASSUME NEW s \in Sheets, NEW song \in SplitSongs, Splits!Create_split_draft(s, song)
      PROVE  SplitInv'
  <2> DEFINE row == [song |-> song, state |-> "DRAFT"]
  <2>1. /\ sheets' = [sheets EXCEPT ![s] = row] /\ sheets[s] = Splits!NoSheet
        /\ ~\E t \in Sheets : sheets[t].song = song /\ sheets[t].state \in Splits!Active
        /\ UNCHANGED <<credits, shares, confirmed, splitCalls>>
    BY <1>2 DEF Splits!Create_split_draft
  <2>2. row \in SheetRows /\ row.state = "DRAFT" /\ row.song = song
    BY DEF SheetRows, Splits!States
  <2>3. SplitTyped'
    BY <2>1, <2>2 DEF SplitInv, SplitTyped
  <2>4. \A t \in Sheets : sheets'[t] = IF t = s THEN row ELSE sheets[t]
    BY <2>1 DEF SplitInv, SplitTyped
  <2>5. OneProposal'
    BY <2>1, <2>2, <2>4 DEF SplitInv, OneProposal
  <2>6. \A t \in Sheets : SheetHolds(t)'
    <3>1. sheets[s].state \notin {"OPEN_CONFIRMATION", "VOIDED"}
      BY <2>1 DEF Splits!NoSheet
    <3> QED BY <2>1, <2>2, <2>4, <3>1 DEF SplitInv, SheetHolds
  <2>7. SetsAreChecked'
    BY <2>1 DEF SplitInv, SetsAreChecked
  <2> QED BY <2>3, <2>5, <2>6, <2>7 DEF SplitInv
<1>3. ASSUME NEW s \in Sheets, NEW share \in Splits!Shares, Splits!SetReads(s, share)
      PROVE  SplitInv'
  <2> DEFINE call == [op |-> "set", sheet |-> s, share |-> share]
  <2>1. call \in SplitCalls /\ Splits!Reads(call) /\ Splits!Total(call.share) <= Whole
    BY <1>3 DEF SplitCalls, Splits!SetReads
  <2> QED BY <2>1, SplitReads
<1>4. ASSUME NEW s \in Sheets, Splits!SubmitReads(s) \/ Splits!VoidReads(s) PROVE SplitInv'
  <2>1. PICK op \in {"submit", "void"} : Splits!Reads([op |-> op, sheet |-> s])
    BY <1>4 DEF Splits!SubmitReads, Splits!VoidReads
  <2> DEFINE call == [op |-> op, sheet |-> s]
  <2>2. call \in SplitCalls /\ call.op # "set"
    BY DEF SplitCalls
  <2> QED BY <2>1, <2>2, SplitReads
<1>5. ASSUME NEW s \in Sheets, NEW p \in Participants, NEW status \in Splits!Statuses,
             Splits!ConfirmReads(s, p, status)
      PROVE  SplitInv'
  <2> DEFINE call == [op |-> "confirm", sheet |-> s, person |-> p, status |-> status]
  <2>1. call \in SplitCalls /\ call.op # "set" /\ Splits!Reads(call)
    BY <1>5 DEF SplitCalls, Splits!ConfirmReads
  <2> QED BY <2>1, SplitReads
<1>6. ASSUME NEW call \in splitCalls, Splits!SetWrites(call) PROVE SplitInv'
  <2>1. call.op = "set" /\ call \in SplitCalls /\ Splits!Total(call.share) <= Whole
    BY <1>6 DEF Splits!SetWrites, SplitInv, SplitTyped, SetsAreChecked
  <2>2. call.sheet \in Sheets /\ call.share \in Splits!Shares
    BY <2>1 DEF SplitCalls
  <2>3. splitCalls' = splitCalls \ {call}
    BY <1>6 DEF Splits!SetWrites, Splits!Writes
  <2>4. /\ shares' = [shares EXCEPT ![call.sheet] =
              IF sheets[call.sheet].state = "DRAFT" THEN call.share ELSE shares[call.sheet]]
        /\ UNCHANGED <<credits, sheets, confirmed>>
    BY <1>6 DEF Splits!SetWrites, Splits!MaySet
  <2>5. SplitTyped'
    BY <2>2, <2>3, <2>4, SplitWrites DEF SplitInv, SplitTyped
  <2>6. \A s \in Sheets :
           \/ shares'[s] = shares[s]
           \/ s = call.sheet /\ shares'[s] = call.share /\ sheets[s].state = "DRAFT"
    BY <2>2, <2>4 DEF SplitInv, SplitTyped
  <2>7. \A s \in Sheets : SheetHolds(s)'
    BY <2>1, <2>4, <2>6 DEF SplitInv, SheetHolds
  <2>8. OneProposal'
    BY <2>4 DEF SplitInv, OneProposal
  <2> QED BY <2>3, <2>5, <2>7, <2>8, SplitWrites DEF SplitInv
<1>7. ASSUME NEW call \in splitCalls, Splits!SubmitWrites(call) \/ Splits!VoidWrites(call)
      PROVE  SplitInv'
  <2>1. call.op \in {"submit", "void"} /\ call \in SplitCalls
    BY <1>7 DEF Splits!SubmitWrites, Splits!VoidWrites, SplitInv, SplitTyped
  <2>2. call.sheet \in Sheets
    BY <2>1 DEF SplitCalls
  <2>3. splitCalls' = splitCalls \ {call} /\ UNCHANGED <<credits, shares, confirmed>>
    BY <1>7 DEF Splits!SubmitWrites, Splits!VoidWrites, Splits!Writes
  <2>4. PICK state :
          /\ sheets' = [sheets EXCEPT ![call.sheet].state = state]
          /\ \/ state = sheets[call.sheet].state
             \/ /\ state = "OPEN_CONFIRMATION" /\ sheets[call.sheet].state = "DRAFT"
                /\ Splits!Total(shares[call.sheet]) = Whole
             \/ state = "VOIDED" /\ sheets[call.sheet].state \in Splits!Active
    <3>1. CASE Splits!SubmitWrites(call)
      BY <3>1 DEF Splits!SubmitWrites, Splits!MaySubmit
    <3>2. CASE Splits!VoidWrites(call)
      BY <3>2 DEF Splits!VoidWrites
    <3> QED BY <1>7, <3>1, <3>2
  <2>5. sheets[call.sheet] \in SheetRows
    BY <2>2 DEF SplitInv, SplitTyped
  <2>6. /\ \A s \in Sheets : s # call.sheet => sheets'[s] = sheets[s]
        /\ sheets'[call.sheet].song = sheets[call.sheet].song
        /\ sheets'[call.sheet].state = state
        /\ sheets'[call.sheet] \in SheetRows
        /\ DOMAIN sheets' = Sheets /\ sheets' = [s \in Sheets |-> sheets'[s]]
    <3>1. CASE sheets[call.sheet] = Splits!NoSheet
      <4>1. state = "NONE"
        BY <2>4, <3>1 DEF Splits!NoSheet, Splits!Active
      <4>2. sheets'[call.sheet] = Splits!NoSheet
        BY <2>2, <2>4, <3>1, <4>1 DEF SplitInv, SplitTyped, Splits!NoSheet
      <4> QED BY <2>2, <2>4, <3>1, <4>1, <4>2 DEF SplitInv, SplitTyped, Splits!NoSheet, SheetRows
    <3>2. CASE sheets[call.sheet] # Splits!NoSheet
      <4>1. sheets[call.sheet] \in [song : SplitSongs, state : Splits!States]
        BY <2>5, <3>2 DEF SheetRows
      <4>2. state \in Splits!States
        BY <2>4, <4>1 DEF Splits!States
      <4> QED BY <2>2, <2>4, <4>1, <4>2 DEF SplitInv, SplitTyped, SheetRows
    <3> QED BY <3>1, <3>2
  <2>7. SplitTyped'
    <3>1. \A s \in Sheets : sheets'[s] \in SheetRows
      BY <2>6 DEF SplitInv, SplitTyped
    <3>2. sheets' \in [Sheets -> SheetRows]
      BY <2>6, <3>1
    <3> QED BY <2>3, <3>2, SplitWrites DEF SplitInv, SplitTyped
  <2>8. \A s \in Sheets : SheetHolds(s)'
    <3> TAKE s \in Sheets
    <3>1. SheetHolds(s) /\ shares' = shares /\ confirmed' = confirmed
      BY <2>3 DEF SplitInv
    <3>2. CASE s # call.sheet
      BY <2>6, <3>1, <3>2 DEF SheetHolds
    <3>3. CASE s = call.sheet
      BY <2>2, <2>4, <2>6, <3>1, <3>3 DEF SheetHolds, Splits!Active
    <3> QED BY <3>2, <3>3
  <2>9. OneProposal'
    <3>1. state \in Splits!Active => sheets[call.sheet].state \in Splits!Active
      BY <2>4 DEF Splits!Active
    <3> QED BY <2>2, <2>6, <3>1 DEF SplitInv, OneProposal
  <2> QED BY <2>3, <2>7, <2>8, <2>9, SplitWrites DEF SplitInv
<1>8. ASSUME NEW call \in splitCalls, Splits!ConfirmWrites(call) PROVE SplitInv'
  <2>1. call.op = "confirm" /\ call \in SplitCalls
    BY <1>8 DEF Splits!ConfirmWrites, SplitInv, SplitTyped
  <2>2. call.sheet \in Sheets /\ call.person \in Participants /\ call.status \in Splits!Statuses
    BY <2>1 DEF SplitCalls
  <2> DEFINE s == call.sheet
             row == [person |-> call.person, status |-> call.status,
                     share |-> shares[s][call.person]]
             may == sheets[s].state = "OPEN_CONFIRMATION" /\ shares[s][call.person] > 0
  <2>3. splitCalls' = splitCalls \ {call} /\ UNCHANGED <<credits, sheets, shares>>
    BY <1>8 DEF Splits!ConfirmWrites, Splits!Writes
  <2>4. confirmed' =
          [confirmed EXCEPT ![s] = IF may THEN Append(confirmed[s], row) ELSE confirmed[s]]
    BY <1>8, <2>2 DEF Splits!ConfirmWrites, Splits!MayConfirm, Splits!Parties
  <2>5. row \in Confirmations /\ row.person = call.person /\ row.share = shares[s][call.person]
    <3>1. shares[s] \in Splits!Shares
      BY <2>2 DEF SplitInv, SplitTyped
    <3>2. shares[s][call.person] \in 0..Whole
      BY <2>2, <3>1 DEF Splits!Shares
    <3> QED BY <2>2, <3>2 DEF Confirmations
  <2>6. confirmed[s] \in Seq(Confirmations)
    BY <2>2 DEF SplitInv, SplitTyped
  <2> HIDE DEF row
  <2>7. Append(confirmed[s], row) \in Seq(Confirmations)
    BY <2>5, <2>6
  <2>8. SplitTyped'
    BY <2>2, <2>3, <2>4, <2>6, <2>7, SplitWrites DEF SplitInv, SplitTyped
  <2>9. \A t \in Sheets : SheetHolds(t)'
    <3> TAKE t \in Sheets
    <3>1. SheetHolds(t) /\ shares' = shares /\ sheets' = sheets
      BY <2>3 DEF SplitInv
    <3>2. CASE confirmed'[t] = confirmed[t]
      BY <3>1, <3>2 DEF SheetHolds
    <3>3. CASE confirmed'[t] # confirmed[t]
      <4>1. t = s /\ may /\ confirmed'[t] = Append(confirmed[s], row)
        BY <2>2, <2>4, <3>3 DEF SplitInv, SplitTyped
      <4>2. \A i \in DOMAIN confirmed'[t] :
               \/ i \in DOMAIN confirmed[t] /\ confirmed'[t][i] = confirmed[t][i]
               \/ confirmed'[t][i] = row
        BY <2>6, <4>1
      <4> QED BY <2>5, <3>1, <4>1, <4>2 DEF SheetHolds
    <3> QED BY <3>2, <3>3
  <2>10. OneProposal'
    BY <2>3 DEF SplitInv, OneProposal
  <2> QED BY <2>3, <2>8, <2>9, <2>10, SplitWrites DEF SplitInv
<1>9. CASE UNCHANGED Splits!vars
  BY <1>9 DEF SplitInv, SplitTyped, SetsAreChecked, SheetHolds, OneProposal, Splits!vars
<1> QED BY <1>1, <1>2, <1>3, <1>4, <1>5, <1>6, <1>7, <1>8, <1>9 DEF Splits!Next

\* credits.py, what the invariant says of the memory.
LEMMA SplitsAreTrue ==
  ASSUME SplitInv
  PROVE  Splits!TypeOK /\ Splits!ConfirmedSharesStand /\ Splits!SplitsOpen
<1>1. Splits!TypeOK
  BY SplitCounts DEF SplitInv, SplitTyped, Splits!TypeOK, SheetRows, Confirmations
<1>2. Splits!ConfirmedSharesStand
  BY DEF SplitInv, SheetHolds, Splits!ConfirmedSharesStand, Splits!AllRecordedConfirmed
<1>3. Splits!SplitsOpen
  <2>1. \A s \in Sheets : \A i \in DOMAIN confirmed[s] : confirmed[s][i].person \in Participants
    <3> TAKE s \in Sheets
    <3> TAKE i \in DOMAIN confirmed[s]
    <3>1. confirmed[s] \in Seq(Confirmations)
      BY DEF SplitInv, SplitTyped
    <3>2. confirmed[s][i] \in Confirmations
      BY <3>1
    <3> QED BY <3>2 DEF Confirmations
  <2>2. \A s \in Sheets :
          /\ Splits!Total(shares[s]) <= Whole
          /\ sheets[s].state = "OPEN_CONFIRMATION" => Splits!Total(shares[s]) = Whole
          /\ \A i \in DOMAIN confirmed[s] : confirmed[s][i].person \in Splits!Parties(shares[s])
    BY <2>1 DEF SplitInv, SheetHolds, Splits!Parties
  <2> QED BY <2>2 DEF Splits!SplitsOpen, SplitInv, OneProposal
<1> QED BY <1>1, <1>2, <1>3

-----------------------------------------------------------------------------
(* What is handed to other professionals (professional_handoffs.py): which  *)
(* one is current follows from the ones that were recorded.                 *)

Hand == INSTANCE ProfessionalHandoffs

\* professional_handoffs.py counts its calls as the model does.
LEMMA HandCounts == ASSUME NEW S PROVE Hand!Cardinality(S) = Cardinality(S)
BY DEF Cardinality, Hand!Cardinality

HandRows ==
    [song : Songs, upstream : Versions, policy : Hand!Policies, supersedes : Nat \cup {None},
     state : Hand!States, expectedCurrent : Versions \cup {None},
     expectedApproved : Versions \cup {None}]
HandTyped ==
    /\ versionOf \in [Versions -> Songs \cup {None}]
    /\ DOMAIN current = Songs /\ DOMAIN approved = Songs
    /\ \A song \in Songs : /\ current[song] \in Hand!VersionsOf(song) \cup {None}
                           /\ approved[song] \in Hand!VersionsOf(song) \cup {None}
    /\ handoffs \in Seq(HandRows) /\ Len(handoffs) <= Handoffs
    /\ returning \subseteq DOMAIN handoffs /\ moved \subseteq DOMAIN handoffs
\* A package: what its policy watches is what was handed over, and it supersedes only an
\* earlier, closed one of its contract.
HandHolds(table, h) ==
    /\ table[h].policy # "EXACT" => table[h].expectedCurrent = table[h].upstream
    /\ table[h].policy = "CURRENT_APPROVED" => table[h].expectedApproved = table[h].upstream
    /\ table[h].supersedes # None =>
          /\ table[h].supersedes \in DOMAIN table /\ table[h].supersedes < h
          /\ table[table[h].supersedes].state \in Hand!Terminal
          /\ table[table[h].supersedes].song = table[h].song
          /\ table[table[h].supersedes].policy = table[h].policy
HandInv == HandTyped /\ \A h \in DOMAIN handoffs : HandHolds(handoffs, h)

\* professional_handoffs.py: at first nothing is handed to anyone.
LEMMA HandStarts == Hand!Init => HandInv
<1> SUFFICES ASSUME Hand!Init PROVE HandInv
  OBVIOUS
<1>1. /\ versionOf = [v \in Versions |-> None] /\ current = [song \in Songs |-> None]
      /\ approved = [song \in Songs |-> None]
      /\ handoffs = <<>> /\ returning = {} /\ moved = {}
  BY DEF Hand!Init, Hand!LineageInit
<1> QED BY <1>1, HandoffsAreBounded DEF HandInv, HandTyped

\* As many packages as the last one's place says.
LEMMA HandoffsMade ==
  ASSUME HandInv
  PROVE  Hand!Cardinality(DOMAIN handoffs) = Len(handoffs) /\ DOMAIN handoffs = 1..Len(handoffs)
         /\ Len(handoffs) \in Nat
<1>1. DOMAIN handoffs = 1..Len(handoffs) /\ Len(handoffs) \in Nat
  BY DEF HandInv, HandTyped
<1>2. Cardinality(1..Len(handoffs)) = Len(handoffs)
  <2>1. Cardinality(1..Len(handoffs)) = IF 1 > Len(handoffs) THEN 0 ELSE Len(handoffs) - 1 + 1
    BY <1>1, FS_Interval
  <2> QED BY <1>1, <2>1
<1> QED BY <1>1, <1>2, HandCounts

\* professional_handoffs.py: a package goes from one state to another, and never out of a
\* closed one.
HandMoves(h, state) ==
    /\ h \in DOMAIN handoffs /\ state \in Hand!States
    /\ handoffs[h].state \notin Hand!Terminal
    /\ handoffs[h].state = "ACCEPTED" => state = "STALE"
    /\ handoffs' = [handoffs EXCEPT ![h].state = state]
HandKept == returning' \subseteq DOMAIN handoffs' /\ moved' \subseteq DOMAIN handoffs'

\* professional_handoffs.py: of the rows, one has its state changed.
LEMMA HandMoved ==
  ASSUME HandInv, NEW h, NEW state, HandMoves(h, state)
  PROVE  /\ handoffs' \in Seq(HandRows) /\ Len(handoffs') = Len(handoffs)
         /\ DOMAIN handoffs' = DOMAIN handoffs
         /\ \A k \in DOMAIN handoffs : k # h => handoffs'[k] = handoffs[k]
         /\ handoffs'[h].state = state
         /\ \A k \in DOMAIN handoffs' : HandHolds(handoffs', k)
<1>1. handoffs \in Seq(HandRows) /\ h \in DOMAIN handoffs
  BY DEF HandInv, HandTyped, HandMoves
<1> DEFINE row == [handoffs[h] EXCEPT !.state = state]
<1>2. handoffs[h] \in HandRows
  BY <1>1
<1>3. row \in HandRows /\ row.state = state /\ row.song = handoffs[h].song
      /\ row.policy = handoffs[h].policy /\ row.upstream = handoffs[h].upstream
      /\ row.expectedCurrent = handoffs[h].expectedCurrent
      /\ row.expectedApproved = handoffs[h].expectedApproved
      /\ row.supersedes = handoffs[h].supersedes
  BY <1>2 DEF HandRows, HandMoves
<1>4. handoffs' = [handoffs EXCEPT ![h] = row]
  BY DEF HandMoves
<1> HIDE DEF row
<1>5. handoffs' \in Seq(HandRows) /\ Len(handoffs') = Len(handoffs)
  BY <1>1, <1>3, <1>4
<1>6. /\ DOMAIN handoffs' = DOMAIN handoffs
      /\ \A k \in DOMAIN handoffs : handoffs'[k] = IF k = h THEN row ELSE handoffs[k]
  BY <1>1, <1>4
<1>7. ASSUME NEW k \in DOMAIN handoffs' PROVE HandHolds(handoffs', k)
  <2>1. HandHolds(handoffs, k) /\ k \in DOMAIN handoffs
    BY <1>6, <1>7 DEF HandInv
  <2>2. handoffs'[k].supersedes = handoffs[k].supersedes
    BY <1>3, <1>6, <2>1
  <2>3. handoffs[k].supersedes # None => handoffs[k].supersedes # h
    BY <2>1 DEF HandHolds, HandMoves
  <2> QED BY <1>3, <1>6, <2>1, <2>2, <2>3 DEF HandHolds
<1> QED BY <1>1, <1>3, <1>5, <1>6, <1>7

\* What every step does to the packages that are there.
HandStands ==
    \A h \in DOMAIN handoffs :
        /\ handoffs[h].state \in Hand!Terminal => handoffs'[h] = handoffs[h]
        /\ handoffs[h].state = "ACCEPTED" => handoffs'[h].state \in {"ACCEPTED", "STALE"}

\* submit and resubmit: a package whose watched pointers are where the submission says.
LEMMA HandSubmits ==
  ASSUME HandInv, NEW song \in Songs, NEW v \in Versions, NEW policy \in Hand!Policies,
         NEW complete \in BOOLEAN, NEW prior \in (DOMAIN handoffs) \cup {None},
         Hand!Submit(song, v, policy, complete, prior)
  PROVE  HandInv' /\ HandStands
<1> DEFINE k == Len(handoffs) + 1
           row == [song |-> song, upstream |-> v, policy |-> policy, supersedes |-> prior,
                   state |-> IF complete THEN "SUBMITTED" ELSE "RETURNED",
                   expectedCurrent |-> current[song], expectedApproved |-> approved[song]]
<1>1. DOMAIN handoffs = 1..Len(handoffs) /\ Len(handoffs) \in Nat
      /\ Hand!Cardinality(DOMAIN handoffs) = Len(handoffs)
  BY HandoffsMade
<1>2. /\ Len(handoffs) < Handoffs
      /\ handoffs' = [h \in (DOMAIN handoffs) \cup {k} |->
                         IF h \in DOMAIN handoffs THEN handoffs[h] ELSE row]
      /\ policy # "EXACT" => current[song] = v
      /\ policy = "CURRENT_APPROVED" => approved[song] = v
      /\ prior # None => /\ handoffs[prior].state \in Hand!Terminal
                         /\ handoffs[prior].song = song /\ handoffs[prior].policy = policy
      /\ UNCHANGED <<versionOf, current, approved, returning, moved>>
  BY <1>1 DEF Hand!Submit, Hand!Made, Hand!PolicyAllows, Hand!MaySupersede, Hand!lineage
<1>3. row \in HandRows
  <2>1. current[song] \in Versions \cup {None} /\ approved[song] \in Versions \cup {None}
    BY DEF HandInv, HandTyped, Hand!VersionsOf
  <2>2. prior \in Nat \cup {None}
    BY <1>1
  <2> QED BY <2>1, <2>2 DEF HandRows, Hand!States
<1>4. row.policy = policy /\ row.expectedCurrent = current[song] /\ row.upstream = v
      /\ row.expectedApproved = approved[song] /\ row.supersedes = prior /\ row.song = song
  OBVIOUS
<1> HIDE DEF row
<1>5. handoffs \in Seq(HandRows)
  BY DEF HandInv, HandTyped
<1>6. handoffs' \in [1..k -> HandRows]
  <2>1. (DOMAIN handoffs) \cup {k} = 1..k
    BY <1>1
  <2>2. \A h \in DOMAIN handoffs : handoffs[h] \in HandRows
    BY <1>5
  <2>3. handoffs' = [h \in 1..k |-> IF h \in DOMAIN handoffs THEN handoffs[h] ELSE row]
    BY <1>2, <2>1
  <2>4. ASSUME NEW h \in 1..k
        PROVE (IF h \in DOMAIN handoffs THEN handoffs[h] ELSE row) \in HandRows
    BY <1>3, <2>2
  <2> QED BY <2>3, <2>4
<1>7. handoffs' \in Seq(HandRows) /\ Len(handoffs') = k
  BY <1>1, <1>6
<1>8. /\ \A h \in DOMAIN handoffs : h \in DOMAIN handoffs' /\ handoffs'[h] = handoffs[h]
      /\ handoffs'[k] = row
      /\ \A h \in DOMAIN handoffs' : h \in DOMAIN handoffs \/ h = k
  BY <1>1, <1>2
<1>9. HandTyped'
  <2>1. Len(handoffs') <= Handoffs
    BY <1>1, <1>2, <1>7, HandoffsAreBounded
  <2>2. \A s \in Songs : Hand!VersionsOf(s)' = Hand!VersionsOf(s)
    BY <1>2 DEF Hand!VersionsOf
  <2> QED BY <1>2, <1>7, <1>8, <2>1, <2>2 DEF HandInv, HandTyped
<1>10. ASSUME NEW h \in DOMAIN handoffs' PROVE HandHolds(handoffs', h)
  <2>1. CASE h \in DOMAIN handoffs
    BY <1>8, <2>1 DEF HandInv, HandHolds
  <2>2. CASE h = k
    <3>1. prior # None =>
            prior \in DOMAIN handoffs' /\ prior < k /\ handoffs'[prior] = handoffs[prior]
      BY <1>1, <1>8
    <3> QED BY <1>2, <1>4, <1>8, <2>2, <3>1 DEF HandHolds
  <2> QED BY <1>8, <2>1, <2>2
<1> QED BY <1>8, <1>9, <1>10 DEF HandInv, HandStands, Hand!Terminal

\* lineage.py: the pointers move among the Versions of their Song.
LEMMA HandPoints ==
  ASSUME HandInv, Hand!PointerMoves
  PROVE  HandInv' /\ HandStands
<1>1. handoffs' = handoffs /\ returning' = returning /\ moved' \subseteq DOMAIN handoffs
  BY DEF Hand!PointerMoves, HandInv, HandTyped, Hand!Made
<1>2. PICK song \in Songs, v \in Versions :
         \/ \E makeCurrent \in BOOLEAN : Hand!Create_version(song, v, makeCurrent)
         \/ Hand!Set_current_version(song, v)
         \/ Hand!Approve_version(song, v)
  BY DEF Hand!PointerMoves, Hand!LineageNext
<1>3. /\ versionOf' \in [Versions -> Songs \cup {None}]
      /\ DOMAIN current' = Songs /\ DOMAIN approved' = Songs
      /\ \A s \in Songs : /\ current'[s] \in Hand!VersionsOf(s)' \cup {None}
                          /\ approved'[s] \in Hand!VersionsOf(s)' \cup {None}
  <2>1. CASE \E makeCurrent \in BOOLEAN : Hand!Create_version(song, v, makeCurrent)
    <3>1. /\ versionOf[v] = None /\ versionOf' = [versionOf EXCEPT ![v] = song]
          /\ approved' = approved
          /\ current' = [current EXCEPT ![song] = v] \/ current' = [current EXCEPT ![song] = @]
      BY <2>1 DEF Hand!Create_version
    <3>2. \A s \in Songs : \A w \in Versions :
             versionOf[w] = s \/ (w = v /\ s = song) => versionOf'[w] = s
      BY <3>1, HandoffsAreBounded DEF HandInv, HandTyped
    <3> QED BY <3>1, <3>2 DEF HandInv, HandTyped, Hand!VersionsOf
  <2>2. CASE Hand!Set_current_version(song, v) \/ Hand!Approve_version(song, v)
    BY <2>2 DEF HandInv, HandTyped, Hand!VersionsOf, Hand!Set_current_version,
       Hand!Approve_version
  <2> QED BY <1>2, <2>1, <2>2
<1>4. HandTyped'
  BY <1>1, <1>3 DEF HandInv, HandTyped
<1>5. \A h \in DOMAIN handoffs' : HandHolds(handoffs', h)
  BY <1>1 DEF HandInv
<1> QED BY <1>1, <1>4, <1>5 DEF HandInv, HandStands

\* professional_handoffs.py: no call breaks a package or takes it out of a closed state.
LEMMA HandKeeps ==
  ASSUME HandInv, [Hand!Next]_(Hand!vars)
  PROVE  HandInv' /\ HandStands
<1>1. ASSUME NEW h \in DOMAIN handoffs, NEW state, HandMoves(h, state),
             returning' \subseteq returning,
             UNCHANGED <<versionOf, current, approved, moved>>
      PROVE  HandInv' /\ HandStands
  <2>1. /\ handoffs' \in Seq(HandRows) /\ Len(handoffs') = Len(handoffs)
        /\ DOMAIN handoffs' = DOMAIN handoffs
        /\ \A k \in DOMAIN handoffs : k # h => handoffs'[k] = handoffs[k]
        /\ handoffs'[h].state = state
        /\ \A k \in DOMAIN handoffs' : HandHolds(handoffs', k)
    BY <1>1, HandMoved
  <2>2. \A s \in Songs : Hand!VersionsOf(s)' = Hand!VersionsOf(s)
    BY <1>1 DEF Hand!VersionsOf
  <2>3. HandTyped'
    BY <1>1, <2>1, <2>2 DEF HandInv, HandTyped
  <2>4. HandStands
    BY <1>1, <2>1 DEF HandStands, HandMoves
  <2> QED BY <2>1, <2>3, <2>4 DEF HandInv
<1>2. ASSUME UNCHANGED <<versionOf, current, approved, handoffs, moved>>,
             returning' \subseteq DOMAIN handoffs
      PROVE  HandInv' /\ HandStands
  <2>1. \A s \in Songs : Hand!VersionsOf(s)' = Hand!VersionsOf(s)
    BY <1>2 DEF Hand!VersionsOf
  <2>2. HandTyped'
    BY <1>2, <2>1 DEF HandInv, HandTyped
  <2> QED BY <1>2, <2>2 DEF HandInv, HandStands
<1>3. ASSUME NEW h \in DOMAIN handoffs, Hand!Accept(h) PROVE HandInv' /\ HandStands
  <2>1. PICK state \in {"ACCEPTED", "STALE"} : Hand!Becomes(h, state)
    BY <1>3 DEF Hand!Accept
  <2>2. HandMoves(h, state)
    BY <1>3, <2>1 DEF Hand!Accept, HandMoves, Hand!Becomes, Hand!States, Hand!Terminal
  <2> QED BY <1>1, <1>3, <2>2 DEF Hand!Accept, Hand!lineage
<1>4. ASSUME NEW h \in DOMAIN handoffs, Hand!Verify_freshness(h) PROVE HandInv' /\ HandStands
  <2>1. HandMoves(h, "STALE")
    BY <1>4 DEF Hand!Verify_freshness, HandMoves, Hand!Becomes, Hand!States, Hand!Terminal
  <2> QED BY <1>1, <1>4, <2>1 DEF Hand!Verify_freshness, Hand!lineage
<1>5. ASSUME NEW h \in DOMAIN handoffs, Hand!ReturnReads(h) PROVE HandInv' /\ HandStands
  BY <1>2, <1>5 DEF Hand!ReturnReads, Hand!lineage, HandInv, HandTyped
<1>6. ASSUME NEW h \in DOMAIN handoffs, Hand!ReturnWrites(h) PROVE HandInv' /\ HandStands
  <2>1. CASE handoffs[h].state = "SUBMITTED"
    <3>1. HandMoves(h, "RETURNED")
      BY <1>6, <2>1 DEF Hand!ReturnWrites, HandMoves, Hand!Becomes, Hand!States, Hand!Terminal
    <3> QED BY <1>1, <1>6, <3>1 DEF Hand!ReturnWrites, Hand!lineage
  <2>2. CASE handoffs[h].state # "SUBMITTED"
    BY <1>2, <1>6, <2>2 DEF Hand!ReturnWrites, Hand!lineage, HandInv, HandTyped
  <2> QED BY <2>1, <2>2
<1>7. CASE UNCHANGED Hand!vars
  BY <1>2, <1>7 DEF Hand!vars, HandInv, HandTyped
<1>8. CASE Hand!PointerMoves
  BY <1>8, HandPoints
<1>9. ASSUME NEW song \in Songs, NEW v \in Versions, NEW policy \in Hand!Policies,
             NEW complete \in BOOLEAN, NEW prior \in (DOMAIN handoffs) \cup {None},
             Hand!Submit(song, v, policy, complete, prior)
      PROVE  HandInv' /\ HandStands
  BY <1>9, HandSubmits
<1> QED BY <1>3, <1>4, <1>5, <1>6, <1>7, <1>8, <1>9 DEF Hand!Next, Hand!Made

\* professional_handoffs.py, what the invariant says of the memory.
LEMMA HandoffsAreTrue ==
  ASSUME HandInv
  PROVE  Hand!TypeOK /\ Hand!CurrentMeansExact /\ Hand!HandoffsOpen
<1>1. \A h \in DOMAIN handoffs : handoffs[h] \in HandRows
  BY DEF HandInv, HandTyped
<1>2. \A h \in DOMAIN handoffs : HandHolds(handoffs, h)
  BY DEF HandInv
<1>3. Hand!TypeOK
  BY <1>1, <1>2, HandoffsMade DEF HandInv, HandTyped, HandRows, HandHolds, Hand!TypeOK, Hand!Made,
     Hand!LineageTypeOK
<1>4. Hand!CurrentMeansExact
  BY <1>2 DEF HandHolds, Hand!CurrentMeansExact, Hand!Made, Hand!Fresh
<1>5. Hand!HandoffsOpen
  BY <1>2 DEF HandHolds, Hand!HandoffsOpen, Hand!Made
<1> QED BY <1>3, <1>4, <1>5

-----------------------------------------------------------------------------
(* What is handed to collaborators (collaboration_handoff.py).              *)

Pack == INSTANCE CollaborationHandoff

\* collaboration_handoff.py counts its calls as the model does.
LEMMA PackCounts == ASSUME NEW S PROVE Pack!Cardinality(S) = Cardinality(S)
BY DEF Cardinality, Pack!Cardinality

PackRows ==
    {Pack!NoPackage}
        \cup [version : Nat, person : Collaborators, state : {"PREPARED"}, reason : {"none"}]
        \cup [version : Nat, person : Collaborators, state : {"REVOKED"}, reason : Notes]
FeedbackRows ==
    {Pack!NoFeedback}
        \cup [package : Packages, state : Pack!Resolved \cup {"OPEN"}, response : Nat,
              note : Notes \cup {"none"}, sentTo : {"PREPARED"}]
PackCalls ==
    [op : {"revoke"}, package : Packages, reason : Notes]
        \cup [op : {"feedback"}, feedback : Feedback, package : Packages]
        \cup [op : {"resolve"}, feedback : Feedback, outcome : Pack!Resolved, note : Notes,
              response : Nat]
PackTyped ==
    /\ withAssets \in Seq(BOOLEAN) /\ Len(withAssets) <= MaxOrdinal
    /\ packages \in [Packages -> PackRows] /\ feedback \in [Feedback -> FeedbackRows]
    /\ packageCalls \subseteq PackCalls
    /\ IsFiniteSet(packageCalls) /\ Cardinality(packageCalls) <= MaxPackageCalls
\* A package has Assets; feedback is of a package; what addresses it is a later Version.
PackageHolds(k) ==
    packages[k] # Pack!NoPackage =>
        packages[k].version \in DOMAIN withAssets /\ withAssets[packages[k].version]
Answers(f, outcome, n) ==
    /\ feedback[f] # Pack!NoFeedback /\ packages[feedback[f].package] # Pack!NoPackage
    /\ outcome = "ADDRESSED" =>
          n \in DOMAIN withAssets /\ n > packages[feedback[f].package].version
    /\ outcome # "ADDRESSED" => n = 0
FeedbackHolds(f) ==
    feedback[f] # Pack!NoFeedback => Answers(f, feedback[f].state, feedback[f].response)
CallHolds(call) ==
    call.op = "resolve" => Answers(call.feedback, call.outcome, call.response)
OneIsPrepared ==
    \A k, other \in Packages :
        /\ k # other /\ packages[k].state = "PREPARED" /\ packages[other].state = "PREPARED"
        /\ packages[k].person = packages[other].person
        => packages[k].version # packages[other].version
PackInv ==
    /\ PackTyped /\ OneIsPrepared
    /\ \A k \in Packages : PackageHolds(k)
    /\ \A f \in Feedback : FeedbackHolds(f)
    /\ \A call \in packageCalls : CallHolds(call)

\* collaboration_handoff.py: at first there is no package and no feedback.
LEMMA PackStarts == Pack!Init => PackInv
<1> SUFFICES ASSUME Pack!Init PROVE PackInv
  OBVIOUS
<1>1. /\ withAssets = <<>> /\ packages = [k \in Packages |-> Pack!NoPackage]
      /\ feedback = [f \in Feedback |-> Pack!NoFeedback] /\ packageCalls = {}
  BY DEF Pack!Init
<1>2. IsFiniteSet(packageCalls) /\ Cardinality(packageCalls) = 0
  BY <1>1, FS_EmptySet
<1>3. PackTyped
  BY <1>1, <1>2, PackagesAreBounded DEF PackTyped, PackRows, FeedbackRows
<1>4. OneIsPrepared
  BY <1>1 DEF OneIsPrepared, Pack!NoPackage
<1> QED BY <1>1, <1>3, <1>4 DEF PackInv, PackageHolds, FeedbackHolds, CallHolds

\* What is there stays there: a Version with its Assets, the Version of a package and its
\* person, the package of a feedback, and an outcome once it is recorded.
PackStands ==
    /\ \A k \in Packages : packages[k].state = "REVOKED" => packages'[k] = packages[k]
    /\ \A f \in Feedback : feedback[f].state \in Pack!Resolved => feedback'[f] = feedback[f]
PackGrows ==
    /\ \A n \in DOMAIN withAssets : n \in DOMAIN withAssets' /\ withAssets'[n] = withAssets[n]
    /\ \A k \in Packages : packages[k] # Pack!NoPackage =>
          /\ packages'[k] # Pack!NoPackage /\ packages'[k].version = packages[k].version
          /\ packages'[k].person = packages[k].person
    /\ \A f \in Feedback : feedback[f] # Pack!NoFeedback =>
          feedback'[f] # Pack!NoFeedback /\ feedback'[f].package = feedback[f].package

\* collaboration_handoff.py: what may answer a feedback may answer it after any step.
LEMMA PackAnswers ==
  ASSUME PackInv, PackGrows, NEW f \in Feedback, NEW outcome, NEW n,
         /\ feedback[f] # Pack!NoFeedback /\ packages[feedback[f].package] # Pack!NoPackage
         /\ outcome = "ADDRESSED" =>
               n \in DOMAIN withAssets /\ n > packages[feedback[f].package].version
         /\ outcome # "ADDRESSED" => n = 0
  PROVE  /\ feedback'[f] # Pack!NoFeedback /\ packages'[feedback'[f].package] # Pack!NoPackage
         /\ outcome = "ADDRESSED" =>
               n \in DOMAIN withAssets' /\ n > packages'[feedback'[f].package].version
         /\ outcome # "ADDRESSED" => n = 0
<1>1. feedback[f] \in FeedbackRows
  BY DEF PackInv, PackTyped
<1>2. feedback[f].package \in Packages
  BY <1>1 DEF FeedbackRows
<1> QED BY <1>2 DEF PackGrows

\* The packages, the feedback and the calls that a step leaves as they were.
LEMMA PackagesStay ==
  ASSUME PackInv, PackGrows, NEW k \in Packages, packages'[k] = packages[k]
  PROVE  PackageHolds(k)'
BY DEF PackInv, PackageHolds, PackGrows

\* The same of a feedback that a step leaves as it was.
LEMMA FeedbackStays ==
  ASSUME PackInv, PackGrows, NEW f \in Feedback, feedback'[f] = feedback[f]
  PROVE  FeedbackHolds(f)'
<1>1. CASE feedback[f] = Pack!NoFeedback
  BY <1>1 DEF FeedbackHolds
<1>2. CASE feedback[f] # Pack!NoFeedback
  <2>1. /\ packages[feedback[f].package] # Pack!NoPackage
        /\ feedback[f].state = "ADDRESSED" =>
              feedback[f].response \in DOMAIN withAssets
                 /\ feedback[f].response > packages[feedback[f].package].version
        /\ feedback[f].state # "ADDRESSED" => feedback[f].response = 0
    BY <1>2 DEF PackInv, FeedbackHolds, Answers
  <2>2. PICK outcome : outcome = feedback[f].state
    OBVIOUS
  <2>3. PICK n : n = feedback[f].response
    OBVIOUS
  <2> QED BY <1>2, <2>1, <2>2, <2>3, PackAnswers DEF FeedbackHolds, Answers
<1> QED BY <1>1, <1>2

\* The same of a call that is still under way.
LEMMA CallStays ==
  ASSUME PackInv, PackGrows, NEW call \in packageCalls, call \in packageCalls'
  PROVE  CallHolds(call)'
<1>1. CASE call.op = "resolve"
  <2>1. call \in PackCalls /\ CallHolds(call)
    BY DEF PackInv, PackTyped
  <2>2. call.feedback \in Feedback
    BY <1>1, <2>1 DEF PackCalls
  <2>3. /\ feedback[call.feedback] # Pack!NoFeedback
        /\ packages[feedback[call.feedback].package] # Pack!NoPackage
        /\ call.outcome = "ADDRESSED" =>
              call.response \in DOMAIN withAssets
                 /\ call.response > packages[feedback[call.feedback].package].version
        /\ call.outcome # "ADDRESSED" => call.response = 0
    BY <1>1, <2>1 DEF CallHolds, Answers
  <2> QED BY <2>2, <2>3, PackAnswers DEF CallHolds, Answers
<1> QED BY <1>1 DEF CallHolds

\* A call has looked.
LEMMA PackReads ==
  ASSUME PackInv, NEW call \in PackCalls, Pack!Reads(call),
         call.op = "resolve" =>
            /\ feedback[call.feedback] # Pack!NoFeedback
            /\ packages[feedback[call.feedback].package] # Pack!NoPackage
            /\ call.outcome = "ADDRESSED" =>
                  call.response \in DOMAIN withAssets
                     /\ call.response > packages[feedback[call.feedback].package].version
            /\ call.outcome # "ADDRESSED" => call.response = 0
  PROVE  PackInv' /\ PackStands
<1>1. /\ packageCalls' = packageCalls \cup {call} /\ Cardinality(packageCalls) < MaxPackageCalls
      /\ UNCHANGED <<withAssets, packages, feedback>>
  BY PackCounts DEF Pack!Reads
<1>2. IsFiniteSet(packageCalls') /\ Cardinality(packageCalls') <= MaxPackageCalls
  BY <1>1, OneMore, PackagesAreBounded DEF PackInv, PackTyped
<1>3. PackTyped' /\ PackGrows
  BY <1>1, <1>2 DEF PackInv, PackTyped, PackGrows
<1>4. \A other \in packageCalls' : CallHolds(other)'
  <2>1. CallHolds(call)'
    BY <1>1 DEF CallHolds, Answers
  <2> QED BY <1>1, <1>3, <2>1, CallStays
<1>5. (\A k \in Packages : PackageHolds(k)') /\ \A f \in Feedback : FeedbackHolds(f)'
  BY <1>1, <1>3, PackagesStay, FeedbackStays
<1>6. OneIsPrepared' /\ PackStands
  BY <1>1 DEF PackInv, OneIsPrepared, PackStands
<1> QED BY <1>3, <1>4, <1>5, <1>6 DEF PackInv

\* What a call that writes leaves of the calls.
LEMMA PackWrites ==
  ASSUME PackInv, PackGrows, NEW call \in packageCalls, Pack!Writes(call)
  PROVE  /\ packageCalls' \subseteq PackCalls
         /\ IsFiniteSet(packageCalls') /\ Cardinality(packageCalls') <= MaxPackageCalls
         /\ \A other \in packageCalls' : CallHolds(other)'
<1>1. packageCalls' = packageCalls \ {call}
  BY DEF Pack!Writes
<1>2. IsFiniteSet(packageCalls') /\ Cardinality(packageCalls') <= MaxPackageCalls
  BY <1>1, OneLess, PackagesAreBounded DEF PackInv, PackTyped
<1>3. \A other \in packageCalls' : CallHolds(other)'
  BY <1>1, CallStays
<1> QED BY <1>1, <1>2, <1>3 DEF PackInv, PackTyped

\* lineage.py: one more Version, with its Assets or without.
LEMMA PackMakes ==
  ASSUME PackInv, NEW assets \in BOOLEAN, Pack!Create_version(assets)
  PROVE  PackInv' /\ PackStands
<1> DEFINE k == Len(withAssets) + 1
<1>1. withAssets \in Seq(BOOLEAN) /\ DOMAIN withAssets = 1..Len(withAssets)
      /\ Len(withAssets) \in Nat
  BY DEF PackInv, PackTyped
<1>2. Pack!Cardinality(DOMAIN withAssets) = Len(withAssets)
  <2>1. Cardinality(1..Len(withAssets)) = IF 1 > Len(withAssets) THEN 0 ELSE Len(withAssets) - 1 + 1
    BY <1>1, FS_Interval
  <2> QED BY <1>1, <2>1, PackCounts
<1>3. /\ withAssets' = [n \in 1..k |-> IF n \in DOMAIN withAssets THEN withAssets[n] ELSE assets]
      /\ Len(withAssets) < MaxOrdinal /\ UNCHANGED <<packages, feedback, packageCalls>>
  BY <1>2 DEF Pack!Create_version, Pack!Ordinals
<1>4. withAssets' \in [1..k -> BOOLEAN]
  <2>1. \A n \in DOMAIN withAssets : withAssets[n] \in BOOLEAN
    BY <1>1
  <2> QED BY <1>3, <2>1, Zenon
<1>5. withAssets' \in Seq(BOOLEAN) /\ Len(withAssets') = k
  BY <1>1, <1>4
<1>6. PackGrows
  BY <1>1, <1>3 DEF PackGrows
<1>7. PackTyped'
  BY <1>1, <1>3, <1>5, PackagesAreBounded DEF PackInv, PackTyped
<1>8. \A call \in packageCalls' : CallHolds(call)'
  BY <1>3, <1>6, CallStays
<1>9. (\A n \in Packages : PackageHolds(n)') /\ \A f \in Feedback : FeedbackHolds(f)'
  BY <1>3, <1>6, PackagesStay, FeedbackStays
<1>10. OneIsPrepared' /\ PackStands
  BY <1>3 DEF PackInv, OneIsPrepared, PackStands
<1> QED BY <1>7, <1>8, <1>9, <1>10 DEF PackInv

\* collaboration_handoff.prepare: of a Version that has its Assets.
LEMMA PackPrepares ==
  ASSUME PackInv, NEW k \in Packages, NEW n \in DOMAIN withAssets, NEW person \in Collaborators,
         Pack!Prepare_package(k, n, person)
  PROVE  PackInv' /\ PackStands
<1> DEFINE row == [version |-> n, person |-> person, state |-> "PREPARED", reason |-> "none"]
<1>1. /\ packages[k] = Pack!NoPackage /\ withAssets[n]
      /\ packages' = [packages EXCEPT ![k] = row]
      /\ ~\E other \in Pack!Made : /\ packages[other].state = "PREPARED"
                                   /\ packages[other].version = n /\ packages[other].person = person
      /\ UNCHANGED <<withAssets, feedback, packageCalls>>
  BY DEF Pack!Prepare_package
<1>2. row \in PackRows /\ row # Pack!NoPackage /\ row.state = "PREPARED" /\ row.version = n
      /\ row.person = person
  <2>1. n \in Nat
    BY DEF PackInv, PackTyped
  <2>2. row.state # Pack!NoPackage.state
    BY DEF Pack!NoPackage
  <2> QED BY <2>1, <2>2 DEF PackRows
<1> HIDE DEF row
<1>3. \A other \in Packages : packages'[other] = IF other = k THEN row ELSE packages[other]
  BY <1>1 DEF PackInv, PackTyped
<1>4. PackGrows
  BY <1>1, <1>3 DEF PackGrows
<1>5. PackTyped'
  BY <1>1, <1>2 DEF PackInv, PackTyped
<1>6. \A other \in Packages : PackageHolds(other)'
  <2>1. PackageHolds(k)'
    BY <1>1, <1>2, <1>3 DEF PackageHolds
  <2> QED BY <1>3, <1>4, <2>1, PackagesStay
<1>7. OneIsPrepared'
  <2>1. ASSUME NEW other \in Packages, other # k, packages[other].state = "PREPARED",
               packages[other].person = person
        PROVE  packages[other].version # n
    <3>1. other \in Pack!Made
      BY <2>1 DEF Pack!Made, Pack!NoPackage
    <3> QED BY <1>1, <2>1, <3>1
  <2> QED BY <1>2, <1>3, <2>1 DEF OneIsPrepared, PackInv
<1>8. PackStands
  <2>1. packages[k].state # "REVOKED"
    BY <1>1 DEF Pack!NoPackage
  <2> QED BY <1>1, <1>3, <2>1 DEF PackStands
<1>9. (\A call \in packageCalls' : CallHolds(call)') /\ \A f \in Feedback : FeedbackHolds(f)'
  BY <1>1, <1>4, CallStays, FeedbackStays
<1> QED BY <1>5, <1>6, <1>7, <1>8, <1>9 DEF PackInv

\* collaboration_handoff.revoke: a package that was revoked stays so.
LEMMA PackRevokes ==
  ASSUME PackInv, NEW call \in packageCalls, Pack!RevokeWrites(call)
  PROVE  PackInv' /\ PackStands
<1>1. call.op = "revoke" /\ call \in PackCalls
  BY DEF Pack!RevokeWrites, PackInv, PackTyped
<1>2. call.package \in Packages /\ call.reason \in Notes
  BY <1>1 DEF PackCalls
<1> DEFINE k == call.package
           row == [packages[k] EXCEPT !.state = "REVOKED", !.reason = call.reason]
<1>3. /\ packages' = [packages EXCEPT ![k] =
            IF packages[k].state = "PREPARED" THEN row ELSE packages[k]]
      /\ Pack!Writes(call) /\ UNCHANGED <<withAssets, feedback>>
  BY DEF Pack!RevokeWrites, Pack!MayRevoke
<1>4. packages[k] \in PackRows
  BY <1>2 DEF PackInv, PackTyped
<1>5. packages[k].state = "PREPARED" =>
         /\ row \in PackRows /\ row # Pack!NoPackage /\ row.state = "REVOKED"
         /\ row.version = packages[k].version /\ row.person = packages[k].person
  <2> SUFFICES ASSUME packages[k].state = "PREPARED"
               PROVE  /\ row \in PackRows /\ row # Pack!NoPackage /\ row.state = "REVOKED"
                      /\ row.version = packages[k].version /\ row.person = packages[k].person
    OBVIOUS
  <2>1. packages[k] \in
           [version : Nat, person : Collaborators, state : {"PREPARED"}, reason : {"none"}]
    BY <1>4 DEF PackRows, Pack!NoPackage
  <2>2. row \in [version : Nat, person : Collaborators, state : {"REVOKED"}, reason : Notes]
    BY <1>2, <2>1
  <2>3. row.state # Pack!NoPackage.state
    BY <2>2 DEF Pack!NoPackage
  <2>4. row \in PackRows
    BY <2>2 DEF PackRows
  <2>5. row.version = packages[k].version /\ row.person = packages[k].person
    BY <2>1
  <2> QED BY <2>2, <2>3, <2>4, <2>5
<1> HIDE DEF row
<1>6. \A other \in Packages :
         \/ packages'[other] = packages[other]
         \/ other = k /\ packages[k].state = "PREPARED" /\ packages'[k] = row
  BY <1>2, <1>3 DEF PackInv, PackTyped
<1>7. PackGrows /\ PackStands
  BY <1>3, <1>5, <1>6 DEF PackGrows, PackStands
<1>8. packages' \in [Packages -> PackRows]
  BY <1>2, <1>3, <1>4, <1>5 DEF PackInv, PackTyped
<1>9. PackTyped'
  BY <1>3, <1>7, <1>8, PackWrites DEF PackInv, PackTyped
<1>10. \A other \in Packages : PackageHolds(other)'
  <2>1. ASSUME packages[k].state = "PREPARED", packages'[k] = row PROVE PackageHolds(k)'
    <3>1. packages[k] # Pack!NoPackage /\ PackageHolds(k)
      BY <1>2, <2>1 DEF PackInv, Pack!NoPackage
    <3> QED BY <1>3, <1>5, <2>1, <3>1 DEF PackageHolds
  <2> QED BY <1>6, <1>7, <2>1, PackagesStay
<1>11. OneIsPrepared'
  BY <1>5, <1>6 DEF PackInv, OneIsPrepared
<1>12. (\A other \in packageCalls' : CallHolds(other)') /\ \A f \in Feedback : FeedbackHolds(f)'
  BY <1>3, <1>7, PackWrites, FeedbackStays
<1> QED BY <1>7, <1>9, <1>10, <1>11, <1>12 DEF PackInv

\* record_feedback and resolve_feedback, which look again when they write.
LEMMA PackIsAnswered ==
  ASSUME PackInv, NEW call \in packageCalls,
         Pack!FeedbackWrites(call) \/ Pack!ResolveWrites(call)
  PROVE  PackInv' /\ PackStands
<1>1. call.op \in {"feedback", "resolve"} /\ call \in PackCalls /\ Pack!Writes(call)
      /\ UNCHANGED <<withAssets, packages>>
  BY DEF Pack!FeedbackWrites, Pack!ResolveWrites, PackInv, PackTyped
<1>2. call.feedback \in Feedback
  BY <1>1 DEF PackCalls
<1>3. PICK f \in Feedback : f = call.feedback
  BY <1>2
<1>4. feedback[f] \in FeedbackRows /\ feedback' = [feedback EXCEPT ![f] = feedback'[f]]
  <2>1. feedback[f] \in FeedbackRows /\ DOMAIN feedback = Feedback
    BY DEF PackInv, PackTyped
  <2> QED BY <1>3, <2>1 DEF Pack!FeedbackWrites, Pack!ResolveWrites
<1>5. \/ feedback'[f] = feedback[f]
      \/ /\ feedback[f].state \notin Pack!Resolved
         /\ feedback'[f] \in FeedbackRows /\ feedback'[f] # Pack!NoFeedback
         /\ feedback[f] # Pack!NoFeedback => feedback'[f].package = feedback[f].package
         /\ packages[feedback'[f].package] # Pack!NoPackage
         /\ feedback'[f].state = "ADDRESSED" =>
               feedback'[f].response \in DOMAIN withAssets
                  /\ feedback'[f].response > packages[feedback'[f].package].version
         /\ feedback'[f].state # "ADDRESSED" => feedback'[f].response = 0
  <2>1. CASE Pack!FeedbackWrites(call)
    <3> DEFINE row == [package |-> call.package, state |-> "OPEN", response |-> 0,
                       note |-> "none", sentTo |-> "PREPARED"]
    <3>1. call.package \in Packages
      BY <1>1, <2>1 DEF PackCalls, Pack!FeedbackWrites
    <3>2. row \in FeedbackRows /\ row.state # Pack!NoFeedback.state
      BY <3>1 DEF FeedbackRows, Pack!NoFeedback
    <3>3. feedback'[f] =
             IF feedback[f] = Pack!NoFeedback /\ packages[call.package].state = "PREPARED"
             THEN row ELSE feedback[f]
      BY <1>3, <2>1 DEF Pack!FeedbackWrites, Pack!MayGive, PackInv, PackTyped
    <3>4. packages[call.package].state = "PREPARED" => packages[call.package] # Pack!NoPackage
      BY DEF Pack!NoPackage
    <3>5. /\ row.package = call.package /\ row.state = "OPEN" /\ row.response = 0
          /\ row # Pack!NoFeedback
      BY <3>2
    <3>6. feedback[f] = Pack!NoFeedback => feedback[f].state \notin Pack!Resolved
      BY DEF Pack!NoFeedback, Pack!Resolved
    <3> HIDE DEF row
    <3> QED BY <3>2, <3>3, <3>4, <3>5, <3>6
  <2>2. CASE Pack!ResolveWrites(call)
    <3> DEFINE row == [feedback[f] EXCEPT !.state = call.outcome, !.note = call.note,
                                          !.response = call.response]
    <3>1. /\ call.outcome \in Pack!Resolved /\ call.note \in Notes /\ call.response \in Nat
          /\ call.op = "resolve"
      BY <1>1, <2>2 DEF PackCalls, Pack!ResolveWrites
    <3>2. feedback'[f] = IF feedback[f].state = "OPEN" THEN row ELSE feedback[f]
      BY <1>3, <2>2 DEF Pack!ResolveWrites, Pack!MayResolve, PackInv, PackTyped
    <3>3. /\ packages[feedback[f].package] # Pack!NoPackage
          /\ call.outcome = "ADDRESSED" =>
                call.response \in DOMAIN withAssets
                   /\ call.response > packages[feedback[f].package].version
          /\ call.outcome # "ADDRESSED" => call.response = 0
      BY <1>3, <3>1 DEF PackInv, CallHolds, Answers
    <3>4. ASSUME feedback[f].state = "OPEN"
          PROVE  /\ row \in FeedbackRows /\ row # Pack!NoFeedback
                 /\ row.package = feedback[f].package /\ row.state = call.outcome
                 /\ row.response = call.response
      <4> DEFINE Given == [package : Packages, state : Pack!Resolved \cup {"OPEN"}, response : Nat,
                           note : Notes \cup {"none"}, sentTo : {"PREPARED"}]
      <4>1. feedback[f] \in Given
        BY <1>4, <3>4 DEF FeedbackRows, Pack!NoFeedback
      <4>2. row \in Given /\ row.state = call.outcome /\ row.response = call.response
            /\ row.package = feedback[f].package
        BY <3>1, <4>1
      <4>3. row.state # Pack!NoFeedback.state
        BY <3>1, <4>2 DEF Pack!NoFeedback, Pack!Resolved
      <4>4. row \in FeedbackRows
        BY <4>2 DEF FeedbackRows
      <4> QED BY <4>2, <4>3, <4>4
    <3>5. feedback[f].state = "OPEN" => feedback[f].state \notin Pack!Resolved
      BY DEF Pack!Resolved
    <3> HIDE DEF row
    <3> QED BY <3>2, <3>3, <3>4, <3>5
  <2> QED BY <2>1, <2>2
<1>6. \A g \in Feedback : g # f => feedback'[g] = feedback[g]
  BY <1>4 DEF PackInv, PackTyped
<1>7. PackGrows /\ PackStands
  BY <1>1, <1>5, <1>6 DEF PackGrows, PackStands
<1>8. PackTyped'
  <2>1. \A g \in Feedback : feedback'[g] \in FeedbackRows
    BY <1>4, <1>5, <1>6 DEF PackInv, PackTyped
  <2>2. feedback' \in [Feedback -> FeedbackRows]
    <3>1. DOMAIN feedback' = Feedback /\ feedback' = [g \in Feedback |-> feedback'[g]]
      BY <1>4 DEF PackInv, PackTyped
    <3> QED BY <2>1, <3>1
  <2> QED BY <1>1, <1>7, <2>2, PackWrites DEF PackInv, PackTyped
<1>9. \A g \in Feedback : FeedbackHolds(g)'
  <2>1. FeedbackHolds(f)'
    <3>1. CASE feedback'[f] = feedback[f]
      BY <1>7, <3>1, FeedbackStays
    <3>2. CASE feedback'[f] # feedback[f]
      BY <1>1, <1>5, <3>2 DEF FeedbackHolds, Answers
    <3> QED BY <3>1, <3>2
  <2> QED BY <1>6, <1>7, <2>1, FeedbackStays
<1>10. (\A other \in packageCalls' : CallHolds(other)') /\ \A k \in Packages : PackageHolds(k)'
  BY <1>1, <1>7, PackWrites, PackagesStay
<1>11. OneIsPrepared'
  BY <1>1 DEF PackInv, OneIsPrepared
<1> QED BY <1>7, <1>8, <1>9, <1>10, <1>11 DEF PackInv

\* collaboration_handoff.py: whatever calls cross, the packages stay as they may be.
LEMMA PackKeeps ==
  ASSUME PackInv, [Pack!Next]_(Pack!vars)
  PROVE  PackInv' /\ PackStands
<1>1. ASSUME NEW k \in Pack!Made, NEW reason \in Notes, Pack!RevokeReads(k, reason)
      PROVE  PackInv' /\ PackStands
  <2> DEFINE call == [op |-> "revoke", package |-> k, reason |-> reason]
  <2>1. call \in PackCalls /\ call.op # "resolve" /\ Pack!Reads(call)
    BY <1>1 DEF PackCalls, Pack!RevokeReads, Pack!Made
  <2> QED BY <2>1, PackReads
<1>2. ASSUME NEW f \in Feedback, NEW k \in Pack!Made, Pack!FeedbackReads(f, k)
      PROVE  PackInv' /\ PackStands
  <2> DEFINE call == [op |-> "feedback", feedback |-> f, package |-> k]
  <2>1. call \in PackCalls /\ call.op # "resolve" /\ Pack!Reads(call)
    BY <1>2 DEF PackCalls, Pack!FeedbackReads, Pack!Made
  <2> QED BY <2>1, PackReads
<1>3. ASSUME NEW f \in Pack!Given, NEW outcome \in Pack!Resolved, NEW note \in Notes,
             NEW n \in (DOMAIN withAssets) \cup {0}, Pack!ResolveReads(f, outcome, note, n)
      PROVE  PackInv' /\ PackStands
  <2> DEFINE call == [op |-> "resolve", feedback |-> f, outcome |-> outcome, note |-> note,
                      response |-> n]
  <2>1. f \in Feedback /\ feedback[f] # Pack!NoFeedback
    BY DEF Pack!Given
  <2>2. n \in Nat
    BY DEF PackInv, PackTyped
  <2>3. call \in PackCalls /\ Pack!Reads(call)
    BY <1>3, <2>1, <2>2 DEF PackCalls, Pack!ResolveReads
  <2>4. packages[feedback[f].package] # Pack!NoPackage
    BY <2>1 DEF PackInv, FeedbackHolds, Answers
  <2>5. IF outcome = "ADDRESSED"
        THEN n \in DOMAIN withAssets /\ n > packages[feedback[f].package].version
        ELSE n = 0
    BY <1>3 DEF Pack!ResolveReads, Pack!Ordinals
  <2> QED BY <2>1, <2>3, <2>4, <2>5, PackReads
<1>4. CASE UNCHANGED Pack!vars
  <2>1. UNCHANGED <<withAssets, packages, feedback, packageCalls>>
    BY <1>4 DEF Pack!vars
  <2> QED BY <2>1 DEF PackInv, PackTyped, PackageHolds, FeedbackHolds, CallHolds, Answers,
         OneIsPrepared, PackStands
<1> QED BY <1>1, <1>2, <1>3, <1>4, PackMakes, PackPrepares, PackRevokes, PackIsAnswered
       DEF Pack!Next, Pack!Ordinals

\* collaboration_handoff.py, what the invariant says of the memory.
LEMMA PackagesAreTrue ==
  ASSUME PackInv
  PROVE  Pack!TypeOK /\ Pack!NoFeedbackAfterRevocation /\ Pack!PackagesOpen
<1>1. \A k \in Pack!Made : /\ packages[k] \in PackRows /\ packages[k] # Pack!NoPackage
                           /\ k \in Packages
  BY DEF PackInv, PackTyped, Pack!Made
<1>2. \A f \in Pack!Given : /\ feedback[f] \in FeedbackRows /\ feedback[f] # Pack!NoFeedback
                            /\ f \in Feedback
  BY DEF PackInv, PackTyped, Pack!Given
<1>3. \A f \in Pack!Given : feedback[f] \in
         [package : Packages, state : Pack!Resolved \cup {"OPEN"}, response : Nat,
          note : Notes \cup {"none"}, sentTo : {"PREPARED"}]
  BY <1>2 DEF FeedbackRows
<1>4. Pack!TypeOK
  <2>1. withAssets \in UNION {[1..n -> BOOLEAN] : n \in 0..MaxOrdinal}
    <3>1. withAssets \in Seq(BOOLEAN) /\ Len(withAssets) <= MaxOrdinal
      BY DEF PackInv, PackTyped
    <3>2. PICK n \in 0..MaxOrdinal : n = Len(withAssets)
      BY <3>1, PackagesAreBounded
    <3>3. withAssets \in [1..n -> BOOLEAN]
      BY <3>1, <3>2
    <3> QED BY <3>3
  <2>2. \A k \in Pack!Made : /\ packages[k].state \in {"PREPARED", "REVOKED"}
                             /\ packages[k].person \in Collaborators
                             /\ (packages[k].state = "REVOKED") = (packages[k].reason \in Notes)
    BY <1>1, PackagesAreBounded DEF PackRows
  <2>3. \A f \in Pack!Given : /\ feedback[f].state \in Pack!Resolved \cup {"OPEN"}
                              /\ feedback[f].package \in Pack!Made
    <3>1. \A f \in Pack!Given : packages[feedback[f].package] # Pack!NoPackage
      BY <1>2 DEF PackInv, FeedbackHolds, Answers
    <3> QED BY <1>3, <3>1 DEF Pack!Made
  <2>4. Pack!Cardinality(packageCalls) <= MaxPackageCalls
    BY PackCounts DEF PackInv, PackTyped
  <2> QED BY <2>1, <2>2, <2>3, <2>4 DEF Pack!TypeOK
<1>5. Pack!NoFeedbackAfterRevocation
  BY <1>3 DEF Pack!NoFeedbackAfterRevocation
<1>6. Pack!PackagesOpen
  <2>1. \A k \in Pack!Made : withAssets[packages[k].version]
    BY <1>1 DEF PackInv, PackageHolds
  <2>2. \A f \in Pack!Given : Answers(f, feedback[f].state, feedback[f].response)
    BY <1>2 DEF PackInv, FeedbackHolds
  <2> QED BY <1>1, <2>1, <2>2 DEF PackInv, OneIsPrepared, Answers, Pack!PackagesOpen, Pack!Ordinals
<1> QED BY <1>4, <1>5, <1>6

-----------------------------------------------------------------------------
(* Whom the identities outside stand for (person_identity.py).              *)

Id == INSTANCE PersonIdentity WITH Identities <- ExternalIds

\* Beyond PInv of PersonIdentity: identities that are reviewed are recorded, and the bounds.
IdInv ==
    /\ Id!PInv
    /\ recorded \subseteq ExternalIds
    /\ \A r \in DOMAIN reviews : reviews[r].identity \in recorded
    /\ Len(reviews) <= MaxReviews
    /\ IsFiniteSet(identityCalls) /\ Cardinality(identityCalls) <= MaxIdentityCalls
    /\ \A call \in identityCalls : call.op = "propose" => call.identity \in recorded

\* person_identity.py counts its calls as the model does.
LEMMA IdCounts == ASSUME NEW S PROVE Id!Cardinality(S) = Cardinality(S)
BY DEF Cardinality, Id!Cardinality

\* person_identity.py: at first no identity is recorded.
LEMMA IdStarts == Id!Init => IdInv
<1> SUFFICES ASSUME Id!Init PROVE IdInv
  OBVIOUS
<1>1. recorded = {} /\ reviews = <<>> /\ identityCalls = {}
  BY DEF Id!Init
<1>2. IsFiniteSet(identityCalls) /\ Cardinality(identityCalls) = 0
  BY <1>1, FS_EmptySet
<1>3. Id!PInv
  BY Id!PInvInit
<1>4. DOMAIN reviews = {} /\ Len(reviews) = 0
  BY <1>1
<1> QED BY <1>1, <1>2, <1>3, <1>4, ReviewsAreBounded DEF IdInv

\* person_identity.py: an identity that is proposed was recorded before, and stays so.
LEMMA IdKeeps ==
  ASSUME IdInv, [Id!Next]_(Id!vars)
  PROVE  IdInv'
<1>0. Id!PInv' /\ Id!PInv
  BY Id!PInvStep DEF IdInv
<1>1. reviews \in Seq(Id!Reviews)
  BY DEF IdInv, Id!PInv
<1>2. ASSUME NEW call, Id!Reads(call), call.op = "propose" => call.identity \in recorded
      PROVE  IdInv'
  <2>1. identityCalls' = identityCalls \cup {call} /\ UNCHANGED <<recorded, reviews>>
        /\ Cardinality(identityCalls) < MaxIdentityCalls
    BY <1>2, IdCounts DEF Id!Reads
  <2>2. IsFiniteSet(identityCalls') /\ Cardinality(identityCalls') <= MaxIdentityCalls
    BY <2>1, OneMore, ReviewsAreBounded DEF IdInv
  <2> QED BY <1>0, <1>2, <2>1, <2>2 DEF IdInv
<1>3. ASSUME NEW call \in identityCalls, Id!Writes(call)
      PROVE  /\ identityCalls' = identityCalls \ {call} /\ UNCHANGED recorded
             /\ IsFiniteSet(identityCalls') /\ Cardinality(identityCalls') <= MaxIdentityCalls
  <2>1. identityCalls' = identityCalls \ {call} /\ UNCHANGED recorded
    BY <1>3 DEF Id!Writes
  <2> QED BY <2>1, OneLess, ReviewsAreBounded DEF IdInv
<1>4. ASSUME NEW i \in ExternalIds, Id!Record_external_identity(i) PROVE IdInv'
  BY <1>0, <1>4 DEF Id!Record_external_identity, IdInv
<1>5. ASSUME NEW i \in ExternalIds, NEW p \in People, Id!ProposeReads(i, p) PROVE IdInv'
  <2> DEFINE call == [op |-> "propose", identity |-> i, person |-> p]
  <2>1. Id!Reads(call) /\ call.identity = i /\ i \in recorded
    BY <1>5 DEF Id!ProposeReads
  <2> QED BY <1>2, <2>1
<1>6. ASSUME NEW r \in DOMAIN reviews, NEW decision \in Id!Decisions, Id!DecideReads(r, decision)
      PROVE  IdInv'
  <2> DEFINE call == [op |-> "decide", review |-> r, decision |-> decision]
  <2>1. Id!Reads(call) /\ call.op = "decide"
    BY <1>6 DEF Id!DecideReads
  <2> QED BY <1>2, <2>1
<1>7. ASSUME NEW call \in identityCalls, Id!ProposeWrites(call) PROVE IdInv'
  <2>1. /\ identityCalls' = identityCalls \ {call} /\ UNCHANGED recorded
        /\ IsFiniteSet(identityCalls') /\ Cardinality(identityCalls') <= MaxIdentityCalls
    BY <1>3, <1>7 DEF Id!ProposeWrites
  <2>2. call.identity \in recorded /\ call.identity \in ExternalIds /\ call.person \in People
    BY <1>0, <1>7 DEF Id!ProposeWrites, IdInv, Id!PInv, Id!CallsKnow
  <2>3. CASE reviews' = reviews
    BY <1>0, <2>1, <2>3 DEF IdInv
  <2>4. CASE reviews' # reviews
    <3> DEFINE row == [identity |-> call.identity, person |-> call.person,
                       events |-> <<"REVIEW_REQUIRED">>]
    <3>1. reviews' = Append(reviews, row) /\ Len(reviews) < MaxReviews
      BY <1>7, <2>4 DEF Id!ProposeWrites
    <3>2. <<"REVIEW_REQUIRED">> \in Seq(Id!Decisions \cup {"REVIEW_REQUIRED"})
      OBVIOUS
    <3>3. row \in Id!Reviews /\ row.identity \in recorded
      BY <2>2, <3>2 DEF Id!Reviews
    <3> HIDE DEF row
    <3>4. /\ Len(reviews') = Len(reviews) + 1 /\ reviews'[Len(reviews) + 1] = row
          /\ DOMAIN reviews' = DOMAIN reviews \cup {Len(reviews) + 1}
          /\ \A r \in DOMAIN reviews : reviews'[r] = reviews[r]
          /\ Len(reviews) \in Nat
      BY <1>1, <3>1, <3>3
    <3>5. Len(reviews') <= MaxReviews
      BY <3>1, <3>4, ReviewsAreBounded
    <3>6. \A r \in DOMAIN reviews' : reviews'[r].identity \in recorded
      BY <3>3, <3>4 DEF IdInv
    <3> QED BY <1>0, <2>1, <3>5, <3>6 DEF IdInv
  <2> QED BY <2>3, <2>4
<1>8. ASSUME NEW call \in identityCalls, Id!DecideWrites(call) PROVE IdInv'
  <2>1. /\ identityCalls' = identityCalls \ {call} /\ UNCHANGED recorded
        /\ IsFiniteSet(identityCalls') /\ Cardinality(identityCalls') <= MaxIdentityCalls
    BY <1>3, <1>8 DEF Id!DecideWrites
  <2>2. PICK r \in DOMAIN reviews : r = call.review
    BY <1>0, <1>8 DEF Id!DecideWrites, Id!PInv, Id!CallsKnow
  <2>3. reviews[r] \in Id!Reviews
    BY <1>1
  <2>4. PICK h : reviews' = [reviews EXCEPT ![r].events = h]
    BY <1>8, <2>2 DEF Id!DecideWrites
  <2>5. PICK row : row = [reviews[r] EXCEPT !.events = h]
    OBVIOUS
  <2>6. reviews' = [reviews EXCEPT ![r] = row] /\ row.identity = reviews[r].identity
    BY <2>3, <2>4, <2>5 DEF Id!Reviews
  <2>7. /\ DOMAIN reviews' = DOMAIN reviews /\ Len(reviews') = Len(reviews)
        /\ \A q \in DOMAIN reviews : reviews'[q] = IF q = r THEN row ELSE reviews[q]
    <3>1. reviews' \in Seq(Id!Reviews)
      BY <1>0 DEF Id!PInv
    <3>2. DOMAIN reviews' = DOMAIN reviews
      BY <1>1, <2>6
    <3>3. Len(reviews') = Len(reviews)
      BY <1>1, <3>1, <3>2
    <3> QED BY <1>1, <2>6, <3>2, <3>3
  <2>8. \A q \in DOMAIN reviews' : reviews'[q].identity \in recorded
    BY <2>2, <2>6, <2>7 DEF IdInv
  <2> QED BY <1>0, <2>1, <2>7, <2>8 DEF IdInv
<1>9. CASE UNCHANGED Id!vars
  BY <1>0, <1>9 DEF Id!vars, IdInv
<1> QED BY <1>4, <1>5, <1>6, <1>7, <1>8, <1>9 DEF Id!Next

\* What the invariants say is what the run checks of the reviews.
LEMMA IdentitiesAreTrue ==
  ASSUME IdInv
  PROVE  Id!TypeOK /\ Id!IdentitiesOpen
<1>1. Id!PInv /\ Id!IdentitiesOpen
  BY Id!PInvMeans DEF IdInv
<1>2. reviews \in Seq(Id!Reviews)
  BY <1>1 DEF Id!PInv
<1> DEFINE ReviewRows == [identity : recorded, person : People,
                    events : Seq(Id!Decisions \cup {"REVIEW_REQUIRED"})]
<1>3. \A r \in DOMAIN reviews : reviews[r] \in ReviewRows
  <2> SUFFICES ASSUME NEW r \in DOMAIN reviews
               PROVE  reviews[r] \in ReviewRows
    OBVIOUS
  <2>1. reviews[r] \in Id!Reviews
    BY <1>2
  <2>2. reviews[r].identity \in recorded
    BY DEF IdInv
  <2> QED BY <2>1, <2>2 DEF Id!Reviews
<1>4. reviews \in Seq(ReviewRows)
  <2> HIDE DEF ReviewRows
  <2> QED BY <1>2, <1>3
<1> QED BY <1>1, <1>4, IdCounts DEF IdInv, Id!TypeOK

-----------------------------------------------------------------------------
(* Revisions of a piece of evidence (professional_evidence.py): whatever    *)
(* calls cross, each took the place of one that it may follow.              *)

Prof == INSTANCE ProfessionalEvidence WITH Topics <- {Topic}, Values <- {}, MaxClaims <- 3

\* professional_evidence.py: what may follow a revision, by the guards of the four calls.
MayFollow(old, new) == Prof!Permits(Prof!StateAfter(old), new)

RevisionCalls ==
    [op : {"claim"}, topic : {Topic}, value : Prof!Revisions, olds : SUBSET Nat]
\* Every supersession, recorded or still to come, is one that its call was allowed.
ProfInv ==
    /\ claims \in Seq([topic : {Topic}, value : Prof!Revisions])
    /\ supersedes \subseteq (DOMAIN claims) \X (DOMAIN claims)
    /\ \A c, d \in DOMAIN claims :
          <<c, d>> \in supersedes => MayFollow(claims[d].value, claims[c].value)
    /\ calls \subseteq RevisionCalls
    /\ \A call \in calls : \A d \in call.olds :
          d \in DOMAIN claims /\ MayFollow(claims[d].value, call.value)

\* professional_evidence.py: at first there is no revision.
LEMMA ProfStarts == Prof!Init => ProfInv
BY DEF Prof!Init, Prof!EvidenceInit, ProfInv

\* professional_evidence.py: a call supersedes what it was allowed to when it looked.
LEMMA ProfKeeps ==
  ASSUME ProfInv, [Prof!Next]_(Prof!vars)
  PROVE  ProfInv'
<1> DEFINE ProfRows == [topic : {Topic}, value : Prof!Revisions]
           k == Len(claims) + 1
<1>1. claims \in Seq(ProfRows)
  BY DEF ProfInv
<1>2. ASSUME NEW row \in ProfRows, claims' = Append(claims, row)
      PROVE  /\ claims' \in Seq(ProfRows)
             /\ \A n \in DOMAIN claims : n \in DOMAIN claims' /\ claims'[n] = claims[n] /\ n # k
             /\ k \in DOMAIN claims' /\ claims'[k] = row
             /\ \A n \in DOMAIN claims' : n \in DOMAIN claims \/ n = k
  <2> HIDE DEF ProfRows
  <2> QED BY <1>1, <1>2
<1>3. ASSUME NEW item \in {Topic}, Prof!Record(item) PROVE ProfInv'
  <2> DEFINE row == [topic |-> item, value |-> "CREATE"]
  <2>1. /\ row \in ProfRows /\ claims' = Append(claims, row)
        /\ supersedes' = supersedes /\ calls' = calls
    BY <1>3 DEF Prof!Record, Prof!Revisions
  <2>2. \A c, d : <<c, d>> \in supersedes => c \in DOMAIN claims /\ d \in DOMAIN claims
    BY DEF ProfInv
  <2> QED BY <1>2, <2>1, <2>2 DEF ProfInv
<1>4. ASSUME NEW item \in {Topic}, NEW revision \in Prof!Revisions,
             Prof!ReviseReads(item, revision)
      PROVE  ProfInv'
  <2>1. PICK d : d = Prof!Latest(item)
    OBVIOUS
  <2> DEFINE call == [op |-> "claim", topic |-> item, value |-> revision, olds |-> {d}]
  <2>2. /\ d \in DOMAIN claims /\ MayFollow(claims[d].value, revision)
        /\ calls' = calls \cup {call} /\ claims' = claims /\ supersedes' = supersedes
    BY <1>4, <2>1 DEF Prof!ReviseReads, Prof!ClaimReads, Prof!Active, Prof!Claims, Prof!Reads,
       Prof!State, MayFollow
  <2>3. d \in Nat
    BY <1>1, <2>2
  <2>4. call \in RevisionCalls /\ call.olds = {d} /\ call.value = revision
    BY <2>3 DEF RevisionCalls
  <2> HIDE DEF call
  <2> QED BY <2>2, <2>4 DEF ProfInv
<1>5. ASSUME NEW call \in calls, Prof!ClaimWrites(call) PROVE ProfInv'
  <2> DEFINE row == [topic |-> call.topic, value |-> call.value]
  <2>1. /\ claims' = Append(claims, row) /\ calls' = calls \ {call}
        /\ supersedes' = supersedes \cup ({k} \X call.olds)
    BY <1>5 DEF Prof!ClaimWrites, Prof!Writes
  <2>2. row \in ProfRows /\ row.value = call.value
    BY DEF ProfInv, RevisionCalls
  <2>3. \A d \in call.olds : d \in DOMAIN claims /\ MayFollow(claims[d].value, row.value)
    BY <2>2 DEF ProfInv
  <2> HIDE DEF row
  <2>4. \A c, d : <<c, d>> \in supersedes => c \in DOMAIN claims /\ d \in DOMAIN claims
    BY DEF ProfInv
  <2>5. \A c, d : <<c, d>> \in supersedes' <=> <<c, d>> \in supersedes \/ (c = k /\ d \in call.olds)
    BY <2>1
  <2>6. supersedes' \subseteq (DOMAIN claims') \X (DOMAIN claims')
    BY <1>2, <2>1, <2>2, <2>3 DEF ProfInv
  <2>7. \A c, d \in DOMAIN claims' :
           <<c, d>> \in supersedes' => MayFollow(claims'[d].value, claims'[c].value)
    BY <1>2, <2>1, <2>2, <2>3, <2>4, <2>5 DEF ProfInv
  <2> QED BY <1>2, <2>1, <2>2, <2>6, <2>7 DEF ProfInv
<1>6. CASE UNCHANGED Prof!vars
  BY <1>6 DEF Prof!vars, ProfInv
<1> QED BY <1>3, <1>4, <1>5, <1>6 DEF Prof!Next

\* professional_evidence.py: a history that reads back as one chain has only lawful links.
LEMMA RevisionsAreLawful ==
  ASSUME ProfInv
  PROVE  Prof!ReadableIsLawful
<1> SUFFICES ASSUME NEW item \in {Topic}, Prof!Readable(item), NEW c \in Prof!History(item),
                    Prof!Before(c) # {}
             PROVE  Prof!Permits(Prof!StateAfter(claims[Prof!Previous(c)].value), claims[c].value)
  BY DEF Prof!ReadableIsLawful
<1>1. PICK d : d = Prof!Previous(c)
  OBVIOUS
<1>2. {edge \in supersedes : edge[1] = c} = {<<c, d>>}
  BY <1>1 DEF Prof!Readable
<1>3. <<c, d>> \in supersedes
  BY <1>2
<1>4. c \in DOMAIN claims /\ d \in DOMAIN claims
  BY <1>3 DEF ProfInv
<1> QED BY <1>1, <1>3, <1>4 DEF ProfInv, MayFollow

-----------------------------------------------------------------------------
(* What is owed (obligations.py with evidence.py), and what it rests on.    *)

Owe == INSTANCE Obligations WITH Topics <- {Topic}, Values <- Technical, MaxClaims <- 2

\* obligations.py counts its calls as the model does.
LEMMA OweCounts == ASSUME NEW S PROVE Owe!Cardinality(S) = Cardinality(S)
BY DEF Cardinality, Owe!Cardinality

OweClaims == [topic : {Topic}, value : Technical]
OweEvents == [status : Owe!Statuses, claim : Nat]
OweRecords ==
    [topic : {Topic}, followup : FollowUps \cup {NoFollowUp}, awaits : BOOLEAN,
     triggers : SUBSET Nat, events : Seq(OweEvents)]
OweRows == {Owe!NoObligation} \cup OweRecords
OweStates == {"NONE", "OPEN", "RESOLVED", "CANCELED"}
OweCalls ==
    [op : {"claim"}, topic : {Topic}, value : Technical, olds : SUBSET Nat]
        \cup [op : {"close"}, followup : FollowUps, state : {"RESOLVED", "CANCELED"}]
        \cup [op : {"create"}, obligation : Owed, topic : {Topic}, claim : Nat,
              followup : FollowUps \cup {NoFollowUp}, awaits : BOOLEAN]
        \cup [op : {"transition"}, obligation : Owed, status : Owe!Statuses, claim : Nat]
        \cup [op : {"trigger"}, obligation : Owed, claim : Nat]
OweTyped ==
    /\ claims \in Seq(OweClaims) /\ Len(claims) <= 2
    /\ supersedes \subseteq (DOMAIN claims) \X (DOMAIN claims)
    /\ calls \subseteq OweCalls /\ IsFiniteSet(calls) /\ Cardinality(calls) <= MaxCalls
    /\ obligations \in [Owed -> OweRows] /\ followups \in [FollowUps -> OweStates]
OweLater == \A c, d : <<c, d>> \in supersedes => c > d
\* An obligation is opened first, moves as transition allows, and rests on claims that are there.
OweMayFollow(old, new) ==
    /\ old \notin Owe!Terminal /\ new # old
    /\ new = "OPEN" => old \in {"BLOCKED", "DISPUTED"}
OweLawful(past) ==
    /\ past # <<>> /\ past[1].status = "OPEN"
    /\ \A i \in 1..Len(past) - 1 : OweMayFollow(past[i].status, past[i + 1].status)
OweHolds(o) ==
    obligations[o] # Owe!NoObligation =>
       /\ OweLawful(obligations[o].events)
       /\ \A i \in DOMAIN obligations[o].events : obligations[o].events[i].claim \in DOMAIN claims
       /\ obligations[o].triggers \subseteq DOMAIN claims
       /\ obligations[o].triggers # {} => obligations[o].awaits
OweAsked(call) ==
    /\ call.op = "claim" => call.olds \subseteq DOMAIN claims
    /\ call.op = "create" => call.claim \in DOMAIN claims
    /\ call.op \in {"transition", "trigger"} =>
          /\ call.claim \in DOMAIN claims /\ obligations[call.obligation] # Owe!NoObligation
    /\ call.op = "trigger" => obligations[call.obligation].awaits
OweInv ==
    /\ OweTyped /\ OweLater
    /\ \A o \in Owed : OweHolds(o)
    /\ \A call \in calls : OweAsked(call)

\* obligations.py: at first nothing is owed.
LEMMA OweStarts == Owe!Init => OweInv
<1> SUFFICES ASSUME Owe!Init PROVE OweInv
  OBVIOUS
<1>1. /\ claims = <<>> /\ supersedes = {} /\ calls = {}
      /\ obligations = [o \in Owed |-> Owe!NoObligation] /\ followups = [f \in FollowUps |-> "NONE"]
  BY DEF Owe!Init, Owe!EvidenceInit
<1>2. IsFiniteSet(calls) /\ Cardinality(calls) = 0
  BY <1>1, FS_EmptySet
<1>3. OweTyped
  BY <1>1, <1>2, BoundsAreNumbers DEF OweTyped, OweRows, OweStates
<1> QED BY <1>1, <1>3 DEF OweInv, OweLater, OweHolds, OweAsked

\* What is there stays there: claims, obligations with what they were created with, and what
\* was recorded last of a terminal one and of a closed follow-up.
OweGrows ==
    /\ \A c \in DOMAIN claims : c \in DOMAIN claims'
    /\ \A o \in Owed : obligations[o] # Owe!NoObligation =>
          /\ obligations'[o] # Owe!NoObligation /\ obligations'[o].awaits = obligations[o].awaits
OweStands ==
    /\ \A o \in Owed :
          /\ obligations[o] # Owe!NoObligation
          /\ obligations[o].events[Len(obligations[o].events)].status \in Owe!Terminal
          => obligations'[o].events = obligations[o].events
    /\ \A f \in FollowUps :
          followups[f] \in {"RESOLVED", "CANCELED"} => followups'[f] = followups[f]

\* obligations.py: what a step leaves as it was is still as it may be.
LEMMA OweStay ==
  ASSUME OweInv, OweGrows
  PROVE  /\ \A o \in Owed : obligations'[o] = obligations[o] => OweHolds(o)'
         /\ \A call \in calls \cap calls' : OweAsked(call)'
<1>1. ASSUME NEW o \in Owed, obligations'[o] = obligations[o] PROVE OweHolds(o)'
  BY <1>1 DEF OweInv, OweGrows, OweHolds
<1>2. ASSUME NEW call \in calls \cap calls' PROVE OweAsked(call)'
  <2>1. call \in OweCalls /\ OweAsked(call)
    BY DEF OweInv, OweTyped
  <2>2. call.op \in {"transition", "trigger"} => call.obligation \in Owed
    BY <2>1 DEF OweCalls
  <2> QED BY <2>1, <2>2 DEF OweGrows, OweAsked
<1> QED BY <1>1, <1>2

\* obligations.py: a call has looked, and knows of what it will write about.
LEMMA OweReads ==
  ASSUME OweInv, NEW call \in OweCalls, Owe!Reads(call),
         UNCHANGED <<claims, supersedes, obligations, followups>>,
         /\ call.op = "claim" => call.olds \subseteq DOMAIN claims
         /\ call.op = "create" => call.claim \in DOMAIN claims
         /\ call.op \in {"transition", "trigger"} =>
               call.claim \in DOMAIN claims /\ obligations[call.obligation] # Owe!NoObligation
         /\ call.op = "trigger" => obligations[call.obligation].awaits
  PROVE  OweInv' /\ OweStands
<1>1. calls' = calls \cup {call} /\ Cardinality(calls) < MaxCalls
  BY OweCounts DEF Owe!Reads
<1>2. IsFiniteSet(calls') /\ Cardinality(calls') <= MaxCalls
  BY <1>1, OneMore, BoundsAreNumbers DEF OweInv, OweTyped
<1>3. OweTyped' /\ OweGrows /\ OweLater' /\ OweStands
  BY <1>1, <1>2 DEF OweInv, OweTyped, OweGrows, OweLater, OweStands
<1>4. \A other \in calls' : OweAsked(other)'
  <2>1. OweAsked(call)'
    BY DEF OweAsked
  <2> QED BY <1>1, <1>3, <2>1, OweStay
<1>5. \A o \in Owed : OweHolds(o)'
  BY <1>3, OweStay
<1> QED BY <1>3, <1>4, <1>5 DEF OweInv

\* A call that has written is gone, and the others still know.
LEMMA OweWrites ==
  ASSUME OweInv, OweGrows, NEW call \in calls, Owe!Writes(call)
  PROVE  /\ calls' \subseteq OweCalls /\ IsFiniteSet(calls') /\ Cardinality(calls') <= MaxCalls
         /\ \A other \in calls' : OweAsked(other)'
<1>1. calls' = calls \ {call}
  BY DEF Owe!Writes
<1>2. IsFiniteSet(calls') /\ Cardinality(calls') <= MaxCalls
  BY <1>1, OneLess, BoundsAreNumbers DEF OweInv, OweTyped
<1>3. \A other \in calls' : OweAsked(other)'
  BY <1>1, OweStay
<1> QED BY <1>1, <1>2, <1>3 DEF OweInv, OweTyped

\* evidence.record_claim, about an obligation's topic.
LEMMA OweClaimed ==
  ASSUME OweInv, Owe!Evidence
  PROVE  OweInv' /\ OweStands
<1>1. UNCHANGED <<obligations, followups>>
  BY DEF Owe!Evidence, Owe!records
<1>2. ASSUME NEW topic \in {Topic}, NEW value \in Technical, NEW olds,
             Owe!ClaimReads(topic, value, olds)
      PROVE  OweInv' /\ OweStands
  <2> DEFINE call == [op |-> "claim", topic |-> topic, value |-> value, olds |-> olds]
  <2>1. olds \subseteq DOMAIN claims
    BY <1>2 DEF Owe!ClaimReads, Owe!Active, Owe!Claims
  <2>2. olds \in SUBSET Nat
    BY <2>1 DEF OweInv, OweTyped
  <2>3. call \in OweCalls /\ Owe!Reads(call) /\ UNCHANGED <<claims, supersedes>>
    BY <1>2, <2>2 DEF OweCalls, Owe!ClaimReads
  <2>4. call.op = "claim" /\ call.olds = olds
    OBVIOUS
  <2> HIDE DEF call
  <2> QED BY <1>1, <2>1, <2>3, <2>4, OweReads
<1>3. ASSUME NEW topic \in {Topic}, NEW value \in Technical, Owe!ReconcileReads(topic, value)
      PROVE  OweInv' /\ OweStands
  BY <1>2, <1>3 DEF Owe!ReconcileReads
<1>4. ASSUME NEW call \in calls, Owe!ClaimWrites(call) PROVE OweInv' /\ OweStands
  <2> DEFINE row == [topic |-> call.topic, value |-> call.value]
             k == Len(claims) + 1
  <2>1. /\ claims' = Append(claims, row) /\ Owe!Writes(call) /\ Len(claims) < 2
        /\ supersedes' = supersedes \cup ({k} \X call.olds) /\ call.op = "claim"
    BY <1>4 DEF Owe!ClaimWrites
  <2>2. row \in OweClaims /\ call.olds \subseteq DOMAIN claims
    BY <2>1 DEF OweInv, OweTyped, OweCalls, OweClaims, OweAsked
  <2>3. claims \in Seq(OweClaims)
    BY DEF OweInv, OweTyped
  <2> HIDE DEF row
  <2>4. /\ claims' \in Seq(OweClaims) /\ Len(claims') <= 2
        /\ \A n \in DOMAIN claims : n \in DOMAIN claims' /\ n < k
        /\ k \in DOMAIN claims'
    BY <2>1, <2>2, <2>3
  <2>5. OweGrows
    BY <1>1, <2>4 DEF OweGrows
  <2>6. OweTyped'
    <3>1. supersedes' \subseteq (DOMAIN claims') \X (DOMAIN claims')
      BY <2>1, <2>2, <2>4 DEF OweInv, OweTyped
    <3> QED BY <1>1, <2>1, <2>4, <2>5, <3>1, OweWrites DEF OweInv, OweTyped
  <2>7. OweLater'
    <3>1. \A c, d :
            <<c, d>> \in supersedes' <=> <<c, d>> \in supersedes \/ (c = k /\ d \in call.olds)
      BY <2>1
    <3> QED BY <2>2, <2>4, <3>1 DEF OweInv, OweLater
  <2>8. \A o \in Owed : OweHolds(o)'
    BY <1>1, <2>5, OweStay
  <2> QED BY <1>1, <2>1, <2>5, <2>6, <2>7, <2>8, OweWrites DEF OweInv, OweStands
<1> QED BY <1>2, <1>3, <1>4 DEF Owe!Evidence

\* followups.py: a follow-up is created once, and closed once.
LEMMA OweFollowUps ==
  ASSUME OweInv,
         \/ \E f \in FollowUps : Owe!Create_followup(f)
         \/ \E call \in calls : Owe!CloseWrites(call)
  PROVE  OweInv' /\ OweStands
<1>1. /\ UNCHANGED <<claims, supersedes, obligations>>
      /\ calls' = calls \/ \E call \in calls : Owe!Writes(call)
  BY DEF Owe!Create_followup, Owe!CloseWrites, Owe!evidence
<1>2. PICK f \in FollowUps, state \in OweStates :
         /\ followups' = [followups EXCEPT ![f] = state]
         /\ followups[f] \in {"RESOLVED", "CANCELED"} => state = followups[f]
  <2>1. ASSUME NEW f \in FollowUps, Owe!Create_followup(f)
        PROVE  followups' = [followups EXCEPT ![f] = "OPEN"] /\ followups[f] = "NONE"
    BY <2>1 DEF Owe!Create_followup
  <2>2. ASSUME NEW call \in calls, Owe!CloseWrites(call)
        PROVE  /\ call.followup \in FollowUps /\ call.state \in OweStates
               /\ followups' = [followups EXCEPT ![call.followup] =
                     IF followups[call.followup] = "OPEN" THEN call.state
                     ELSE followups[call.followup]]
    <3>1. call \in OweCalls /\ call.op = "close"
      BY <2>2 DEF Owe!CloseWrites, OweInv, OweTyped
    <3> QED BY <2>2, <3>1 DEF OweCalls, OweStates, Owe!CloseWrites
  <2>3. \A f \in FollowUps : followups[f] \in OweStates
    BY DEF OweInv, OweTyped
  <2>4. CASE \E f \in FollowUps : Owe!Create_followup(f)
    BY <2>1, <2>4 DEF OweStates
  <2>5. CASE \E call \in calls : Owe!CloseWrites(call)
    <3>1. PICK call \in calls : Owe!CloseWrites(call)
      BY <2>5
    <3>2. PICK f \in FollowUps : f = call.followup
      BY <2>2, <3>1
    <3>3. PICK state : state = IF followups[f] = "OPEN" THEN call.state ELSE followups[f]
      OBVIOUS
    <3>4. state \in OweStates /\ followups' = [followups EXCEPT ![f] = state]
      BY <2>2, <2>3, <3>1, <3>2, <3>3
    <3> QED BY <3>2, <3>3, <3>4
  <2> QED BY <2>4, <2>5
<1>3. OweGrows
  BY <1>1 DEF OweGrows
<1>4. OweTyped'
  BY <1>1, <1>2, <1>3, OweWrites DEF OweInv, OweTyped
<1>5. OweStands
  BY <1>1, <1>2 DEF OweStands, OweInv, OweTyped
<1>6. \A call \in calls' : OweAsked(call)'
  BY <1>1, <1>3, OweWrites, OweStay
<1>7. (\A o \in Owed : OweHolds(o)') /\ OweLater'
  BY <1>1, <1>3, OweStay DEF OweInv, OweLater
<1> QED BY <1>4, <1>5, <1>6, <1>7 DEF OweInv

\* A write to one obligation, of a row that may be there.
LEMMA OweWritesTo ==
  ASSUME OweInv, NEW call \in calls, Owe!Writes(call), NEW o \in Owed, NEW row \in OweRows,
         obligations' = [obligations EXCEPT ![o] = row],
         UNCHANGED <<claims, supersedes, followups>>,
         obligations[o] # Owe!NoObligation =>
            /\ row # Owe!NoObligation /\ row.awaits = obligations[o].awaits
            /\ obligations[o].events[Len(obligations[o].events)].status \in Owe!Terminal
                  => row.events = obligations[o].events,
         row # Owe!NoObligation =>
            /\ OweLawful(row.events)
            /\ \A i \in DOMAIN row.events : row.events[i].claim \in DOMAIN claims
            /\ row.triggers \subseteq DOMAIN claims
            /\ row.triggers # {} => row.awaits
  PROVE  OweInv' /\ OweStands
<1>1. \A p \in Owed : obligations'[p] = IF p = o THEN row ELSE obligations[p]
  BY DEF OweInv, OweTyped
<1>2. OweGrows /\ OweStands
  BY <1>1 DEF OweGrows, OweStands
<1>3. OweTyped'
  BY <1>2, OweWrites DEF OweInv, OweTyped
<1>4. \A p \in Owed : OweHolds(p)'
  <2>1. OweHolds(o)'
    BY <1>1 DEF OweHolds
  <2> QED BY <1>1, <1>2, <2>1, OweStay
<1> QED BY <1>2, <1>3, <1>4, OweWrites DEF OweInv, OweLater

\* obligations.create, transition and record_trigger, which look again when they write.
LEMMA OweRecorded ==
  ASSUME OweInv, NEW call \in calls,
         Owe!CreateWrites(call) \/ Owe!TransitionWrites(call) \/ Owe!TriggerWrites(call)
  PROVE  OweInv' /\ OweStands
<1>1. /\ call \in OweCalls /\ call.op \in {"create", "transition", "trigger"}
      /\ Owe!Writes(call) /\ UNCHANGED <<claims, supersedes, followups>>
  BY DEF OweInv, OweTyped, Owe!CreateWrites, Owe!TransitionWrites, Owe!TriggerWrites, Owe!evidence
<1>2. PICK o \in Owed : o = call.obligation
  BY <1>1 DEF OweCalls
<1>3. obligations[o] \in OweRows /\ OweHolds(o) /\ OweAsked(call) /\ DOMAIN obligations = Owed
  BY DEF OweInv, OweTyped
<1>4. CASE Owe!CreateWrites(call)
  <2> DEFINE row == [topic |-> call.topic, followup |-> call.followup, awaits |-> call.awaits,
                     triggers |-> {}, events |-> <<[status |-> "OPEN", claim |-> call.claim]>>]
  <2>1. call.op = "create"
    BY <1>4 DEF Owe!CreateWrites
  <2>2. /\ call.topic = Topic /\ call.followup \in FollowUps \cup {NoFollowUp}
        /\ call.awaits \in BOOLEAN /\ call.claim \in Nat /\ call.claim \in DOMAIN claims
    BY <1>1, <1>3, <2>1 DEF OweCalls, OweAsked
  <2>3. /\ row.events \in Seq(OweEvents) /\ OweLawful(row.events)
        /\ \A i \in DOMAIN row.events : row.events[i].claim \in DOMAIN claims
    BY <2>2 DEF OweEvents, Owe!Statuses, OweLawful
  <2>4. row \in OweRecords /\ row.triggers = {}
    BY <2>2, <2>3 DEF OweRecords
  <2>5. obligations' = [obligations EXCEPT ![o] =
            IF obligations[o] # Owe!NoObligation THEN obligations[o] ELSE row]
    BY <1>2, <1>4 DEF Owe!CreateWrites
  <2> HIDE DEF row
  <2>6. row \in OweRows
    BY <2>4 DEF OweRows
  <2>7. PICK new \in OweRows :
           new = IF obligations[o] # Owe!NoObligation THEN obligations[o] ELSE row
    BY <1>3, <2>6
  <2>8. new # Owe!NoObligation =>
            /\ OweLawful(new.events)
            /\ \A i \in DOMAIN new.events : new.events[i].claim \in DOMAIN claims
            /\ new.triggers \subseteq DOMAIN claims
            /\ new.triggers # {} => new.awaits
    BY <1>3, <2>3, <2>4, <2>7 DEF OweHolds
  <2> QED BY <1>1, <2>5, <2>7, <2>8, OweWritesTo
<1>5. CASE Owe!TransitionWrites(call) \/ Owe!TriggerWrites(call)
  <2>1. obligations[o] # Owe!NoObligation /\ call.claim \in DOMAIN claims /\ call.claim \in Nat
    BY <1>1, <1>2, <1>3, <1>5 DEF OweAsked, OweCalls, Owe!TransitionWrites, Owe!TriggerWrites
  <2>2. obligations[o] \in OweRecords
    BY <1>3, <2>1 DEF OweRows
  <2>3. /\ OweLawful(obligations[o].events)
        /\ \A i \in DOMAIN obligations[o].events : obligations[o].events[i].claim \in DOMAIN claims
        /\ obligations[o].triggers \subseteq DOMAIN claims
        /\ obligations[o].triggers # {} => obligations[o].awaits
    BY <1>3, <2>1 DEF OweHolds
  <2>4. \A r \in OweRecords : r \in OweRows /\ DOMAIN r # DOMAIN Owe!NoObligation
    BY DEF OweRecords, OweRows, Owe!NoObligation
  <2>5. \A r \in OweRecords : r # Owe!NoObligation
    BY <2>4
  <2>6. CASE Owe!TriggerWrites(call)
    <3> DEFINE row == [obligations[o] EXCEPT !.triggers = obligations[o].triggers \cup {call.claim}]
    <3>1. row \in OweRecords
      BY <2>1, <2>2 DEF OweRecords
    <3>2. /\ row.triggers = obligations[o].triggers \cup {call.claim}
          /\ row.events = obligations[o].events /\ row.awaits = obligations[o].awaits
      BY <2>2 DEF OweRecords
    <3>3. obligations[o].awaits
      BY <1>2, <1>3, <2>6 DEF OweAsked, Owe!TriggerWrites
    <3>4. obligations' = [obligations EXCEPT ![o] = row]
      BY <1>2, <2>6 DEF Owe!TriggerWrites
    <3> HIDE DEF row
    <3>5. row \in OweRows /\ row # Owe!NoObligation
      BY <2>4, <2>5, <3>1
    <3>6. row.triggers \subseteq DOMAIN claims /\ row.awaits
      BY <2>1, <2>3, <3>2, <3>3
    <3> QED BY <1>1, <2>3, <3>2, <3>4, <3>5, <3>6, OweWritesTo
  <2>7. CASE Owe!TransitionWrites(call)
    <3> DEFINE old == obligations[o].events
               event == [status |-> call.status, claim |-> call.claim]
               may == OweMayFollow(old[Len(old)].status, call.status)
               new == IF may THEN Append(old, event) ELSE old
               row == [obligations[o] EXCEPT !.events = new]
    <3>1. old \in Seq(OweEvents) /\ Len(old) \in Nat /\ old # <<>> /\ DOMAIN old = 1..Len(old)
      BY <2>2, <2>3 DEF OweRecords, OweLawful
    <3>2. event \in OweEvents /\ event.status = call.status /\ event.claim = call.claim
      BY <1>1, <2>1, <2>7 DEF OweCalls, OweEvents, Owe!TransitionWrites
    <3>3. obligations' = [obligations EXCEPT ![o] = row]
      BY <1>2, <2>7 DEF Owe!TransitionWrites, Owe!MayBecome, Owe!Status, OweMayFollow
    <3> HIDE DEF event, may
    <3>4. new \in Seq(OweEvents)
      BY <3>1, <3>2
    <3>5. row \in OweRecords
      BY <2>2, <3>4 DEF OweRecords
    <3>6. /\ row.triggers = obligations[o].triggers
          /\ row.events = new /\ row.awaits = obligations[o].awaits
      BY <2>2 DEF OweRecords
    <3>7. OweLawful(new) /\ \A i \in DOMAIN new : new[i].claim \in DOMAIN claims
      <4>1. CASE may
        <5> DEFINE k == Len(old) + 1
        <5>1. PICK grown : grown = Append(old, event)
          OBVIOUS
        <5>2. /\ Len(grown) = k /\ DOMAIN grown = 1..k /\ grown[k] = event
              /\ \A i \in 1..Len(old) : grown[i] = old[i]
          BY <3>1, <5>1
        <5>3. grown # <<>> /\ grown[1] = old[1]
          BY <3>1, <5>2
        <5>4. \A i \in 1..Len(grown) - 1 : OweMayFollow(grown[i].status, grown[i + 1].status)
          <6> TAKE i \in 1..Len(grown) - 1
          <6>1. CASE i = Len(old)
            BY <3>1, <3>2, <4>1, <5>2, <6>1 DEF may
          <6>2. CASE i # Len(old)
            <7>1. i \in 1..Len(old) - 1 /\ i \in 1..Len(old) /\ i + 1 \in 1..Len(old)
              BY <3>1, <5>2, <6>2
            <7> QED BY <2>3, <5>2, <7>1 DEF OweLawful
          <6> QED BY <6>1, <6>2
        <5>5. OweLawful(grown)
          BY <2>3, <5>3, <5>4 DEF OweLawful
        <5>6. \A i \in DOMAIN grown : grown[i].claim \in DOMAIN claims
          <6>1. \A i \in DOMAIN grown : i \in 1..Len(old) \/ i = k
            BY <3>1, <5>2
          <6> QED BY <2>1, <2>3, <3>1, <3>2, <5>2, <6>1
        <5> QED BY <4>1, <5>1, <5>5, <5>6
      <4>2. CASE ~may
        BY <2>3, <4>2
      <4> QED BY <4>1, <4>2
    <3>8. old[Len(old)].status \in Owe!Terminal => new = old
      BY DEF may, OweMayFollow
    <3> HIDE DEF new, row
    <3>9. row \in OweRows /\ row # Owe!NoObligation
      BY <2>4, <2>5, <3>5
    <3> QED BY <1>1, <2>3, <3>3, <3>6, <3>7, <3>8, <3>9, OweWritesTo
  <2> QED BY <1>5, <2>6, <2>7
<1> QED BY <1>4, <1>5

\* obligations.py: whatever calls cross, each obligation has a lawful history.
LEMMA OweKeeps ==
  ASSUME OweInv, [Owe!Next]_(Owe!vars)
  PROVE  OweInv' /\ OweStands
<1>1. ASSUME NEW f \in FollowUps, NEW state \in {"RESOLVED", "CANCELED"}, Owe!CloseReads(f, state)
      PROVE  OweInv' /\ OweStands
  <2> DEFINE call == [op |-> "close", followup |-> f, state |-> state]
  <2>1. call \in OweCalls /\ call.op = "close" /\ Owe!Reads(call)
        /\ UNCHANGED <<claims, supersedes, obligations, followups>>
    BY <1>1 DEF OweCalls, Owe!CloseReads, Owe!evidence, Owe!records
  <2> HIDE DEF call
  <2> QED BY <2>1, OweReads
<1>2. ASSUME NEW o \in Owed, NEW topic \in {Topic}, NEW claim \in DOMAIN claims,
             NEW f \in FollowUps \cup {NoFollowUp}, NEW awaits \in BOOLEAN,
             Owe!CreateReads(o, topic, claim, f, awaits)
      PROVE  OweInv' /\ OweStands
  <2> DEFINE call == [op |-> "create", obligation |-> o, topic |-> topic, claim |-> claim,
                      followup |-> f, awaits |-> awaits]
  <2>1. claim \in Nat
    BY DEF OweInv, OweTyped
  <2>2. call \in OweCalls /\ call.op = "create" /\ call.claim = claim
    BY <2>1 DEF OweCalls
  <2>3. Owe!Reads(call) /\ UNCHANGED <<claims, supersedes, obligations, followups>>
    BY <1>2 DEF Owe!CreateReads, Owe!evidence, Owe!records
  <2> HIDE DEF call
  <2> QED BY <2>2, <2>3, OweReads
<1>3. ASSUME NEW o \in Owe!Made, NEW claim \in DOMAIN claims, NEW status \in Owe!Statuses,
             Owe!TransitionReads(o, status, claim)
      PROVE  OweInv' /\ OweStands
  <2> DEFINE call == [op |-> "transition", obligation |-> o, status |-> status, claim |-> claim]
  <2>1. claim \in Nat /\ o \in Owed /\ obligations[o] # Owe!NoObligation
    BY DEF OweInv, OweTyped, Owe!Made
  <2>2. call \in OweCalls /\ call.op = "transition" /\ call.claim = claim /\ call.obligation = o
    BY <2>1 DEF OweCalls
  <2>3. Owe!Reads(call) /\ UNCHANGED <<claims, supersedes, obligations, followups>>
    BY <1>3 DEF Owe!TransitionReads, Owe!evidence, Owe!records
  <2> HIDE DEF call
  <2> QED BY <2>1, <2>2, <2>3, OweReads
<1>4. ASSUME NEW o \in Owe!Made, NEW claim \in DOMAIN claims, Owe!TriggerReads(o, claim)
      PROVE  OweInv' /\ OweStands
  <2> DEFINE call == [op |-> "trigger", obligation |-> o, claim |-> claim]
  <2>1. claim \in Nat /\ o \in Owed /\ obligations[o] # Owe!NoObligation /\ obligations[o].awaits
    BY <1>4 DEF OweInv, OweTyped, Owe!Made, Owe!TriggerReads
  <2>2. call \in OweCalls /\ call.op = "trigger" /\ call.claim = claim /\ call.obligation = o
    BY <2>1 DEF OweCalls
  <2>3. Owe!Reads(call) /\ UNCHANGED <<claims, supersedes, obligations, followups>>
    BY <1>4 DEF Owe!TriggerReads, Owe!evidence, Owe!records
  <2> HIDE DEF call
  <2> QED BY <2>1, <2>2, <2>3, OweReads
<1>5. CASE UNCHANGED Owe!vars
  <2>1. UNCHANGED <<claims, supersedes, calls, obligations, followups>>
    BY <1>5 DEF Owe!vars
  <2> QED BY <2>1 DEF OweInv, OweTyped, OweLater, OweHolds, OweAsked, OweStands
<1> QED BY <1>1, <1>2, <1>3, <1>4, <1>5, OweClaimed, OweFollowUps, OweRecorded
       DEF Owe!Next, Owe!Claims

\* obligations.py and evidence.py, what the invariant says of the memories.
LEMMA ObligationsAreTrue ==
  ASSUME OweInv
  PROVE  Owe!TypeOK /\ Owe!ObligationsOpen /\ Owe!EvidenceNeverVanishes
<1>1. \A o \in Owe!Made : /\ o \in Owed /\ obligations[o] \in OweRecords /\ OweHolds(o)
                          /\ obligations[o] # Owe!NoObligation
  BY DEF OweInv, OweTyped, OweRows, Owe!Made
<1>2. claims \in Seq(OweClaims) /\ Len(claims) \in Nat /\ DOMAIN claims = 1..Len(claims)
  BY DEF OweInv, OweTyped
<1>3. \A o \in Owe!Made : /\ obligations[o].events \in Seq(OweEvents)
                          /\ Len(obligations[o].events) \in Nat
                          /\ DOMAIN obligations[o].events = 1..Len(obligations[o].events)
  <2> TAKE o \in Owe!Made
  <2>1. obligations[o].events \in Seq(OweEvents)
    BY <1>1 DEF OweRecords
  <2> QED BY <2>1
<1>4. Owe!TypeOK
  <2>1. Owe!EvidenceTypeOK
    BY OweCounts DEF OweInv, OweTyped, OweClaims, Owe!EvidenceTypeOK, Owe!Claims
  <2>2. ASSUME NEW o \in Owe!Made
        PROVE  obligations[o].events \in Seq([status : Owe!Statuses, claim : Owe!Claims])
    <3> DEFINE E == [status : Owe!Statuses, claim : Owe!Claims]
    <3>1. PICK s : s = obligations[o].events
      OBVIOUS
    <3>2. s \in Seq(OweEvents) /\ Len(s) \in Nat
      BY <1>3, <3>1
    <3>3. \A i \in 1..Len(s) : s[i] \in OweEvents
      BY <3>2
    <3>4. \A i \in 1..Len(s) : s[i].claim \in Owe!Claims
      BY <1>1, <1>3, <3>1 DEF OweHolds, Owe!Claims
    <3>5. \A i \in 1..Len(s) : s[i] \in E
      BY <3>3, <3>4 DEF OweEvents
    <3> HIDE DEF E
    <3>6. s \in Seq(E)
      BY <3>2, <3>5
    <3> QED BY <3>1, <3>6 DEF E
  <2>3. \A o \in Owe!Made : /\ obligations[o].followup \in FollowUps \cup {NoFollowUp}
                            /\ obligations[o].triggers \subseteq Owe!Claims
    BY <1>1 DEF OweRecords, OweHolds, Owe!Claims
  <2> QED BY <2>1, <2>2, <2>3 DEF Owe!TypeOK, OweInv, OweTyped, OweStates
<1>5. Owe!ObligationsOpen
  <2> SUFFICES ASSUME NEW o \in Owe!Made
               PROVE  LET past == obligations[o].events IN
                      /\ past[1].status = "OPEN"
                      /\ \A i \in 1..Len(past) - 1 :
                            /\ past[i].status \notin Owe!Terminal
                            /\ past[i + 1].status # past[i].status
                            /\ past[i + 1].status = "OPEN" =>
                                  past[i].status \in {"BLOCKED", "DISPUTED"}
                      /\ obligations[o].triggers # {} => obligations[o].awaits
                      /\ \A claim \in {past[i].claim : i \in DOMAIN past}
                                      \cup obligations[o].triggers :
                            claims[claim].topic = obligations[o].topic
    BY DEF Owe!ObligationsOpen
  <2>1. OweLawful(obligations[o].events) /\ (obligations[o].triggers # {} => obligations[o].awaits)
    BY <1>1 DEF OweHolds
  <2>2. \A c \in DOMAIN claims : claims[c].topic = Topic
    <3>1. \A c \in DOMAIN claims : claims[c] \in OweClaims
      BY <1>2
    <3> QED BY <3>1 DEF OweClaims
  <2>3. obligations[o].topic = Topic
    BY <1>1 DEF OweRecords
  <2>4. \A claim \in {obligations[o].events[i].claim : i \in DOMAIN obligations[o].events}
                         \cup obligations[o].triggers : claim \in DOMAIN claims
    BY <1>1 DEF OweHolds
  <2> QED BY <2>1, <2>2, <2>3, <2>4 DEF OweLawful, OweMayFollow
<1>6. Owe!EvidenceNeverVanishes
  <2>1. \A c \in DOMAIN claims : claims[c].topic = Topic
    <3>1. \A c \in DOMAIN claims : claims[c] \in OweClaims
      BY <1>2
    <3> QED BY <3>1 DEF OweClaims
  <2>2. \A edge \in supersedes : /\ edge = <<edge[1], edge[2]>> /\ edge[1] > edge[2]
                                 /\ edge[1] \in DOMAIN claims /\ edge[2] \in DOMAIN claims
    <3>1. \A edge \in supersedes : /\ edge = <<edge[1], edge[2]>>
                                   /\ edge[1] \in DOMAIN claims /\ edge[2] \in DOMAIN claims
      BY DEF OweInv, OweTyped
    <3> QED BY <3>1 DEF OweInv, OweLater
  <2>3. ASSUME NEW c \in DOMAIN claims PROVE Owe!Resolution(Topic) # "UNKNOWN"
    <3>1. Len(claims) \in DOMAIN claims /\ Len(claims) >= 1
      BY <1>2
    <3>2. Len(claims) \notin Owe!Superseded
      BY <1>2, <2>2 DEF Owe!Superseded
    <3>3. Len(claims) \in Owe!Active(Topic)
      BY <2>1, <3>1, <3>2 DEF Owe!Active, Owe!Claims
    <3>4. {claims[d].value : d \in Owe!Active(Topic)} # {}
      BY <3>3
    <3> QED BY <3>4 DEF Owe!Resolution
  <2> QED BY <2>1, <2>2, <2>3 DEF Owe!EvidenceNeverVanishes, Owe!Claims
<1> QED BY <1>4, <1>5, <1>6

-----------------------------------------------------------------------------
(* Opportunities and captures (opportunities.py, capture_opportunities.py): *)
(* what is closed was closed by someone who could, and is not taken up      *)
(* again.                                                                   *)

\* One fact of a Song, a capture and an opportunity that rest on it.
Opp == INSTANCE Opportunities WITH
    Topics <- {}, Values <- {}, MaxClaims <- 4,
    Facts <- {"fact"}, Captures <- {"capture"}, Businesses <- {"business"},
    ScopeOf <- [f \in {"fact"} |-> "SONG"], Dimensions <- {"FIT"},
    Told <- {[source |-> "USER_DECLARED", ref |-> FALSE], [source |-> "OBSERVED", ref |-> TRUE]}

\* opportunities.py counts its calls as the model does.
LEMMA OppCounts == ASSUME NEW S PROVE Opp!Cardinality(S) = Cardinality(S)
BY DEF Cardinality, Opp!Cardinality

\* opportunities.py and capture_opportunities.py: who may speak for what, of the rows alone.
OppTold == {[source |-> "USER_DECLARED", ref |-> FALSE], [source |-> "OBSERVED", ref |-> TRUE]}
OppClaims ==
    [topic : {"fact"}, value : OppTold] \cup [topic : {"capture"}, value : Opp!Capture]
        \cup [topic : {"business"}, value : Opp!Business]
OppCalls ==
    [op : {"claim"}, topic : {"capture"}, value : Opp!Capture, olds : SUBSET Nat]
        \cup [op : {"claim"}, topic : {"business"}, value : Opp!Business, olds : SUBSET Nat]
RowScope(row) ==
    CASE row.topic = "fact" -> "SONG" [] row.topic = "capture" -> row.value.target
      [] row.topic = "business" -> "ARTIST"
RowSource(row) == IF row.topic = "fact" THEN row.value.source ELSE "INFERRED"
RowIsSourced(row) ==
    row.topic = "fact" /\ RowSource(row) # "USER_DECLARED" => row.value.ref
RowMatches(row, target) ==
    \/ RowScope(row) = "ARTIST"
    \/ RowScope(row) = "SONG" /\ target \in {"SONG", "VERSION"}
    \/ RowScope(row) = "VERSION" /\ target = "VERSION"
RowMayDecide(row, target, status) ==
    /\ RowMatches(row, target) /\ RowIsSourced(row)
    /\ RowSource(row) \in {"USER_DECLARED"} \cup (IF status = "CAPTURED" THEN {"OBSERVED"} ELSE {})

\* _parse: the rows a revision of a capture, or an opportunity, needs to be read.
Admits(table, value) ==
    /\ value.basis \in DOMAIN table /\ table[value.basis].topic # "capture"
    /\ RowMatches(table[value.basis], value.target) /\ RowIsSourced(table[value.basis])
    /\ value.decision = 0 => value.status = "OPEN"
    /\ value.decision # 0 =>
          /\ value.decision \in DOMAIN table
          /\ RowMayDecide(table[value.decision], value.target, value.status)
AdmitsBusiness(table, value) ==
    /\ value.basis \in DOMAIN table /\ table[value.basis].topic = "fact"
    /\ RowScope(table[value.basis]) = "ARTIST" \/ value.song
    /\ RowIsSourced(table[value.basis])
RowIsClosed(row) == row.topic = "capture" /\ row.value.status \in Opp!TerminalStatuses

OppInv ==
    /\ claims \in Seq(OppClaims)
    /\ supersedes \subseteq (DOMAIN claims) \X (DOMAIN claims)
    /\ \A c, d : <<c, d>> \in supersedes => ~RowIsClosed(claims[d])
    /\ \A c \in DOMAIN claims :
          /\ claims[c].topic = "capture" => Admits(claims, claims[c].value)
          /\ claims[c].topic = "business" => AdmitsBusiness(claims, claims[c].value)
    /\ calls \subseteq OppCalls
    /\ \A call \in calls :
          /\ \A d \in call.olds : d \in DOMAIN claims /\ ~RowIsClosed(claims[d])
          /\ call.topic = "capture" => Admits(claims, call.value)
          /\ call.topic = "business" => AdmitsBusiness(claims, call.value)

\* opportunities.py: at first nothing is claimed.
LEMMA OppStarts == Opp!Init => OppInv
BY DEF Opp!Init, Opp!EvidenceInit, OppInv

\* evidence.record_claim: what was admitted stays so, because claims do.
LEMMA AdmittedForGood ==
  ASSUME NEW table \in Seq(OppClaims), NEW row \in OppClaims, NEW value
  PROVE  /\ Admits(table, value) => Admits(Append(table, row), value)
         /\ AdmitsBusiness(table, value) => AdmitsBusiness(Append(table, row), value)
<1>1. \A n \in DOMAIN table : n \in DOMAIN Append(table, row) /\ Append(table, row)[n] = table[n]
  OBVIOUS
<1> QED BY <1>1 DEF Admits, AdmitsBusiness

\* evidence.record_claim: one more claim, which was admitted when its call looked.
LEMMA OppAppends ==
  ASSUME OppInv, NEW row \in OppClaims, claims' = Append(claims, row),
         NEW olds, supersedes' = supersedes \cup ({Len(claims) + 1} \X olds),
         \A d \in olds : d \in DOMAIN claims /\ ~RowIsClosed(claims[d]),
         row.topic = "capture" => Admits(claims, row.value),
         row.topic = "business" => AdmitsBusiness(claims, row.value),
         calls' \subseteq calls
  PROVE  OppInv'
<1> DEFINE k == Len(claims) + 1
<1>1. claims \in Seq(OppClaims)
  BY DEF OppInv
<1>2. /\ claims' \in Seq(OppClaims)
      /\ \A n \in DOMAIN claims : n \in DOMAIN claims' /\ claims'[n] = claims[n]
      /\ k \in DOMAIN claims' /\ claims'[k] = row
      /\ \A n \in DOMAIN claims' : n \in DOMAIN claims \/ n = k
  BY <1>1
<1>3. \A value : /\ Admits(claims, value) => Admits(claims', value)
                 /\ AdmitsBusiness(claims, value) => AdmitsBusiness(claims', value)
  BY <1>1, AdmittedForGood
<1>4. \A c, d : <<c, d>> \in supersedes' => <<c, d>> \in supersedes \/ (c = k /\ d \in olds)
  OBVIOUS
<1>5. \A c, d : <<c, d>> \in supersedes => c \in DOMAIN claims /\ d \in DOMAIN claims
  BY DEF OppInv
<1>6. supersedes' \subseteq (DOMAIN claims') \X (DOMAIN claims')
  BY <1>2 DEF OppInv
<1>7. \A c, d : <<c, d>> \in supersedes' => ~RowIsClosed(claims'[d])
  BY <1>2, <1>4, <1>5 DEF OppInv
<1>8. \A c \in DOMAIN claims' :
          /\ claims'[c].topic = "capture" => Admits(claims', claims'[c].value)
          /\ claims'[c].topic = "business" => AdmitsBusiness(claims', claims'[c].value)
  BY <1>2, <1>3 DEF OppInv
<1>9. \A call \in calls' :
          /\ \A d \in call.olds : d \in DOMAIN claims' /\ ~RowIsClosed(claims'[d])
          /\ call.topic = "capture" => Admits(claims', call.value)
          /\ call.topic = "business" => AdmitsBusiness(claims', call.value)
  BY <1>2, <1>3 DEF OppInv
<1> QED BY <1>2, <1>6, <1>7, <1>8, <1>9 DEF OppInv

\* A call has looked: what it will claim is admitted, and takes the place of nothing closed.
LEMMA OppAsks ==
  ASSUME OppInv, NEW topic, NEW value, NEW olds, Opp!ClaimReads(topic, value, olds),
         \/ topic = "capture" /\ value \in Opp!Capture /\ Admits(claims, value)
         \/ topic = "business" /\ value \in Opp!Business /\ AdmitsBusiness(claims, value),
         \A d \in olds : d \in DOMAIN claims /\ ~RowIsClosed(claims[d])
  PROVE  OppInv'
<1> DEFINE call == [op |-> "claim", topic |-> topic, value |-> value, olds |-> olds]
<1>1. calls' = calls \cup {call} /\ claims' = claims /\ supersedes' = supersedes
  BY DEF Opp!ClaimReads, Opp!Reads
<1>2. olds \in SUBSET Nat
  BY DEF OppInv
<1>3. call \in OppCalls /\ call.topic = topic /\ call.value = value /\ call.olds = olds
  BY <1>2 DEF OppCalls
<1> HIDE DEF call
<1>4. \A other \in calls' :
          /\ \A d \in other.olds : d \in DOMAIN claims' /\ ~RowIsClosed(claims'[d])
          /\ other.topic = "capture" => Admits(claims', other.value)
          /\ other.topic = "business" => AdmitsBusiness(claims', other.value)
  BY <1>1, <1>3 DEF OppInv
<1> QED BY <1>1, <1>3, <1>4 DEF OppInv

\* What the memories read of a claim, they read of its row.
LEMMA OppRows ==
  ASSUME OppInv, NEW c \in DOMAIN claims
  PROVE  /\ claims[c] \in OppClaims
         /\ \A target : Opp!MatchesCapture(c, target) <=> RowMatches(claims[c], target)
         /\ Opp!HasProvenance(c) <=> RowIsSourced(claims[c])
         /\ Opp!Source(c) = RowSource(claims[c])
         /\ Opp!Scope(c) = RowScope(claims[c])
<1>1. claims[c] \in OppClaims
  BY DEF OppInv
<1>2. claims[c].topic \in {"fact", "capture", "business"}
  BY <1>1 DEF OppClaims
<1>3. Opp!Scope(c) = RowScope(claims[c])
  BY <1>2 DEF Opp!Scope, RowScope
<1>4. Opp!Source(c) = RowSource(claims[c])
  BY DEF Opp!Source, RowSource
<1> QED BY <1>1, <1>3, <1>4 DEF Opp!MatchesCapture, RowMatches, Opp!HasProvenance, RowIsSourced

\* capture_opportunities.py: whatever calls cross, nothing closed is superseded.
LEMMA OppKeeps ==
  ASSUME OppInv, [Opp!Next]_(Opp!vars)
  PROVE  OppInv'
<1>1. ASSUME NEW said \in OppTold, NEW olds \in SUBSET Opp!Active("fact"),
             Opp!Tell("fact", said, olds)
      PROVE  OppInv'
  <2> DEFINE row == [topic |-> "fact", value |-> said]
  <2>1. row \in OppClaims /\ row.topic = "fact"
    BY DEF OppClaims
  <2>2. /\ claims' = Append(claims, row) /\ calls' \subseteq calls
        /\ supersedes' = supersedes \cup ({Len(claims) + 1} \X olds)
    BY <1>1 DEF Opp!Tell
  <2>3. \A d \in olds : d \in DOMAIN claims /\ ~RowIsClosed(claims[d])
    BY DEF Opp!Active, Opp!Claims, RowIsClosed
  <2> HIDE DEF row
  <2> QED BY <2>1, <2>2, <2>3, OppAppends
<1>2. ASSUME NEW target \in Opp!Scopes, NEW basis \in DOMAIN claims,
             Opp!CreateCaptureReads("capture", target, basis)
      PROVE  OppInv'
  <2> DEFINE value == [status |-> "OPEN", target |-> target, basis |-> basis, decision |-> 0]
  <2>1. Opp!ClaimReads("capture", value, {}) /\ Opp!MayBeBasis(basis, target)
    BY <1>2 DEF Opp!CreateCaptureReads, Opp!NoDecision
  <2>2. basis \in Nat
    BY DEF OppInv
  <2>3. value \in Opp!Capture
    BY <2>2 DEF Opp!Capture, Opp!Statuses
  <2>4. Admits(claims, value)
    BY <2>1, OppRows DEF Admits, Opp!MayBeBasis
  <2> HIDE DEF value
  <2> QED BY <2>1, <2>3, <2>4, OppAsks
<1>3. ASSUME NEW status \in Opp!Statuses, NEW decision \in DOMAIN claims,
             Opp!SetStatusReads("capture", status, decision)
      PROVE  OppInv'
  <2>1. PICK old : old = Opp!Current("capture")
    OBVIOUS
  <2>2. /\ old \in DOMAIN claims
        /\ Opp!Moves(claims[old].value.status, status)
        /\ Opp!MayDecide(decision, claims[old].value.target, status)
        /\ Opp!ClaimReads("capture", [claims[old].value EXCEPT !.status = status,
                                                               !.decision = decision], {old})
        /\ old \in Opp!Active("capture")
    <3>1. Opp!Readable("capture")
      BY <1>3 DEF Opp!SetStatusReads
    <3>2. Opp!Active("capture") # {}
      BY <3>1, OppCounts, FS_EmptySet DEF Opp!Readable
    <3>3. old \in Opp!Active("capture")
      BY <2>1, <3>2 DEF Opp!Current
    <3> QED BY <1>3, <2>1, <3>3 DEF Opp!SetStatusReads, Opp!Active, Opp!Claims
  <2>3. claims[old].topic = "capture"
    BY <2>2 DEF Opp!Active
  <2>4. claims[old].value \in Opp!Capture /\ Admits(claims, claims[old].value)
    BY <2>2, <2>3, OppRows DEF OppInv, OppClaims
  <2> DEFINE value == [claims[old].value EXCEPT !.status = status, !.decision = decision]
  <2>5. decision \in Nat /\ decision # 0
    BY DEF OppInv
  <2>6. /\ value \in Opp!Capture /\ value.status = status /\ value.decision = decision
        /\ value.target = claims[old].value.target /\ value.basis = claims[old].value.basis
    BY <2>4, <2>5 DEF Opp!Capture
  <2>7. Opp!ClaimReads("capture", value, {old})
    BY <2>2
  <2> HIDE DEF value
  <2>8. RowMayDecide(claims[decision], claims[old].value.target, status)
    BY <2>2, OppRows DEF Opp!MayDecide, RowMayDecide
  <2>9. Admits(claims, value)
    BY <2>4, <2>5, <2>6, <2>8 DEF Admits
  <2>10. ~RowIsClosed(claims[old])
    BY <2>2 DEF RowIsClosed, Opp!Moves
  <2> QED BY <2>2, <2>6, <2>7, <2>9, <2>10, OppAsks
<1>4. ASSUME NEW song \in BOOLEAN, NEW basis \in DOMAIN claims,
             Opp!CreateBusinessReads("business", song, basis)
      PROVE  OppInv'
  <2> DEFINE value == [song |-> song, basis |-> basis]
  <2>1. Opp!ClaimReads("business", value, {}) /\ Opp!MayBeSource(basis, song)
    BY <1>4 DEF Opp!CreateBusinessReads
  <2>2. basis \in Nat
    BY DEF OppInv
  <2>3. value \in Opp!Business /\ value.song = song /\ value.basis = basis
    BY <2>2 DEF Opp!Business
  <2> HIDE DEF value
  <2>4. AdmitsBusiness(claims, value)
    BY <2>1, <2>3, OppRows DEF AdmitsBusiness, Opp!MayBeSource, Opp!MatchesBusiness
  <2> QED BY <2>1, <2>3, <2>4, OppAsks
<1>5. ASSUME NEW call \in calls, Opp!ClaimWrites(call) PROVE OppInv'
  <2> DEFINE row == [topic |-> call.topic, value |-> call.value]
  <2>1. /\ claims' = Append(claims, row) /\ calls' \subseteq calls
        /\ supersedes' = supersedes \cup ({Len(claims) + 1} \X call.olds)
    BY <1>5 DEF Opp!ClaimWrites, Opp!Writes
  <2>2. row \in OppClaims /\ row.topic = call.topic /\ row.value = call.value
    BY DEF OppInv, OppCalls, OppClaims
  <2> HIDE DEF row
  <2>3. /\ \A d \in call.olds : d \in DOMAIN claims /\ ~RowIsClosed(claims[d])
        /\ row.topic = "capture" => Admits(claims, row.value)
        /\ row.topic = "business" => AdmitsBusiness(claims, row.value)
    BY <2>2 DEF OppInv
  <2> QED BY <2>1, <2>2, <2>3, OppAppends
<1>6. CASE UNCHANGED Opp!vars
  BY <1>6 DEF Opp!vars, OppInv
<1> QED BY <1>1, <1>2, <1>3, <1>4, <1>5, <1>6 DEF Opp!Next, Opp!Claims, OppTold

\* There is one revision, or calls that each superseded the same one; a call that makes the
\* first is alone, and any other supersedes exactly one.
OneOf(k) ==
    /\ (\A c, d \in Opp!Active(k) : c = d) \/ Opp!Crossed(k)
    /\ \A call \in calls : call.topic = k =>
          \/ \E d \in DOMAIN claims : call.olds = {d} /\ claims[d].topic = k
          \/ /\ call.olds = {} /\ \A c \in DOMAIN claims : claims[c].topic # k
             /\ \A other \in calls : other.topic = k => other = call
CrossInv ==
    /\ \A c, d : <<c, d>> \in supersedes => claims[c].topic = claims[d].topic /\ c # d
    /\ \A call \in calls : call.topic = "business" => call.olds = {}
    /\ \A c, d : <<c, d>> \in supersedes => claims[c].topic # "business"
    /\ OneOf("capture") /\ OneOf("business")

\* What edges lead to.
LEMMA LedTo ==
  ASSUME NEW S, NEW T, S \subseteq T \X T
  PROVE  \A c : c \in {edge[2] : edge \in S} <=> \E d : <<d, c>> \in S
<1>1. \A edge \in S : edge = <<edge[1], edge[2]>>
  OBVIOUS
<1> QED BY <1>1

\* Two that each superseded the same one have crossed, now and after a step.
LEMMA Crossing ==
  ASSUME NEW k, NEW c, NEW d, NEW old
  PROVE  /\ /\ c \in DOMAIN claims /\ d \in DOMAIN claims /\ old \in DOMAIN claims /\ c # d
            /\ claims[c].topic = k /\ <<c, old>> \in supersedes /\ <<d, old>> \in supersedes
            => Opp!Crossed(k)
         /\ /\ c \in DOMAIN claims' /\ d \in DOMAIN claims' /\ old \in DOMAIN claims' /\ c # d
            /\ claims'[c].topic = k /\ <<c, old>> \in supersedes' /\ <<d, old>> \in supersedes'
            => Opp!Crossed(k)'
BY DEF Opp!Crossed, Opp!Claims

\* evidence.record_claim: one more claim of a capture or an opportunity, or of something else.
LEMMA OneRevisionMore ==
  ASSUME OppInv, CrossInv, NEW k \in {"capture", "business"}, NEW row, NEW olds,
         claims' = Append(claims, row),
         supersedes' = supersedes \cup ({Len(claims) + 1} \X olds),
         calls' \subseteq calls,
         \/ row.topic # k /\ \A d \in olds : d \in DOMAIN claims /\ claims[d].topic # k
         \/ \E call \in calls : calls' = calls \ {call} /\ call.topic = k /\ row.topic = k
                                 /\ call.olds = olds
  PROVE  OneOf(k)'
<1> DEFINE n == Len(claims) + 1
<1>1. /\ \A c \in DOMAIN claims : c \in DOMAIN claims' /\ claims'[c] = claims[c] /\ c # n
      /\ n \in DOMAIN claims' /\ claims'[n] = row /\ n \notin DOMAIN claims
      /\ \A c \in DOMAIN claims' : c \in DOMAIN claims \/ c = n
  BY DEF OppInv
<1>2. \A c, d : <<c, d>> \in supersedes' <=> <<c, d>> \in supersedes \/ (c = n /\ d \in olds)
  OBVIOUS
<1>3. \A c, d : <<c, d>> \in supersedes => c \in DOMAIN claims /\ d \in DOMAIN claims
  BY DEF OppInv
<1>4. /\ \A c : c \in Opp!Active(k) <=>
               /\ c \in DOMAIN claims /\ claims[c].topic = k
               /\ \A d : <<d, c>> \notin supersedes
      /\ \A c : c \in Opp!Active(k)' <=>
               /\ c \in DOMAIN claims' /\ claims'[c].topic = k
               /\ \A d : <<d, c>> \notin supersedes'
  <2>1. \A c : c \in Opp!Superseded <=> \E d : <<d, c>> \in supersedes
    BY LedTo DEF OppInv, Opp!Superseded
  <2>2. \A c : c \in Opp!Superseded' <=> \E d : <<d, c>> \in supersedes'
    <3>1. olds \subseteq DOMAIN claims
      BY DEF CrossInv, OneOf
    <3>2. supersedes' \subseteq (DOMAIN claims') \X (DOMAIN claims')
      BY <1>1, <3>1 DEF OppInv
    <3> QED BY <3>2, LedTo DEF Opp!Superseded
  <2> QED BY <2>1, <2>2 DEF Opp!Active, Opp!Claims
<1> HIDE DEF n
<1>5. Opp!Crossed(k) => Opp!Crossed(k)'
  <2> SUFFICES ASSUME Opp!Crossed(k) PROVE Opp!Crossed(k)'
    OBVIOUS
  <2>1. PICK c, d, old \in DOMAIN claims :
            c # d /\ claims[c].topic = k /\ <<c, old>> \in supersedes /\ <<d, old>> \in supersedes
    BY DEF Opp!Crossed, Opp!Claims
  <2>2. /\ c \in DOMAIN claims' /\ d \in DOMAIN claims' /\ old \in DOMAIN claims'
        /\ claims'[c].topic = k /\ <<c, old>> \in supersedes' /\ <<d, old>> \in supersedes'
    BY <1>1, <1>2, <2>1
  <2> QED BY <2>1, <2>2, Crossing
<1>6. CASE row.topic # k /\ \A d \in olds : d \in DOMAIN claims /\ claims[d].topic # k
  <2>1. \A c : c \in Opp!Active(k)' => c \in Opp!Active(k)
    BY <1>1, <1>2, <1>4, <1>6
  <2>2. (\A c, d \in Opp!Active(k)' : c = d) \/ Opp!Crossed(k)'
    BY <1>5, <2>1 DEF CrossInv, OneOf
  <2>3. \A call \in calls' : call.topic = k =>
          \/ \E d \in DOMAIN claims' : call.olds = {d} /\ claims'[d].topic = k
          \/ /\ call.olds = {} /\ \A c \in DOMAIN claims' : claims'[c].topic # k
             /\ \A other \in calls' : other.topic = k => other = call
    BY <1>1, <1>6 DEF CrossInv, OneOf
  <2> QED BY <2>2, <2>3 DEF OneOf
<1>7. CASE \E call \in calls : calls' = calls \ {call} /\ call.topic = k /\ row.topic = k
                               /\ call.olds = olds
  <2>1. PICK call \in calls : calls' = calls \ {call} /\ call.topic = k /\ row.topic = k
                               /\ call.olds = olds
    BY <1>7
  <2>2. CASE olds = {} /\ (\A c \in DOMAIN claims : claims[c].topic # k)
             /\ \A other \in calls : other.topic = k => other = call
    <3>1. \A c \in Opp!Active(k)' : c = n
      BY <1>1, <1>4, <2>2
    <3>2. \A other \in calls' : other.topic # k
      BY <2>1, <2>2
    <3> QED BY <3>1, <3>2 DEF OneOf
  <2>3. ASSUME NEW d \in DOMAIN claims, olds = {d}, claims[d].topic = k PROVE OneOf(k)'
    <3>1. ASSUME d \in Opp!Active(k), \A c, e \in Opp!Active(k) : c = e
          PROVE  \A c, e \in Opp!Active(k)' : c = e
      <4>1. ASSUME NEW c \in Opp!Active(k)', c # n PROVE FALSE
        <5>1. c \in DOMAIN claims /\ claims[c].topic = k
          BY <1>1, <1>4, <4>1
        <5>2. c \in Opp!Active(k)
          BY <1>2, <1>4, <4>1, <5>1
        <5>3. <<n, c>> \in supersedes'
          BY <1>2, <2>3, <3>1, <5>2
        <5> QED BY <1>4, <4>1, <5>3
      <4> QED BY <4>1
    <3>2. ASSUME d \notin Opp!Active(k) PROVE Opp!Crossed(k)'
      <4>1. PICK c : <<c, d>> \in supersedes
        BY <1>4, <2>3, <3>2
      <4>2. c \in DOMAIN claims /\ claims[c].topic = k
        BY <1>3, <2>3, <4>1 DEF CrossInv
      <4>3. /\ c \in DOMAIN claims' /\ d \in DOMAIN claims' /\ n \in DOMAIN claims' /\ c # n
            /\ claims'[c].topic = k /\ <<c, d>> \in supersedes' /\ <<n, d>> \in supersedes'
        BY <1>1, <1>2, <2>3, <4>1, <4>2
      <4> QED BY <4>3, Crossing
    <3>3. (\A c, e \in Opp!Active(k)' : c = e) \/ Opp!Crossed(k)'
      BY <1>5, <3>1, <3>2 DEF CrossInv, OneOf
    <3>4. \A other \in calls' : other.topic = k =>
             \E e \in DOMAIN claims' : other.olds = {e} /\ claims'[e].topic = k
      BY <1>1, <2>1, <2>3 DEF CrossInv, OneOf
    <3> QED BY <3>3, <3>4 DEF OneOf
  <2> QED BY <2>1, <2>2, <2>3 DEF CrossInv, OneOf
<1> QED BY <1>6, <1>7

\* Whether there is one revision is a matter of what is claimed.
LEMMA SameRevisions ==
  ASSUME NEW k, claims' = claims, supersedes' = supersedes
  PROVE  Opp!Active(k)' = Opp!Active(k) /\ (Opp!Crossed(k)' <=> Opp!Crossed(k))
BY DEF Opp!Active, Opp!Crossed, Opp!Claims, Opp!Superseded

\* A call has looked, at the only revision or where there is none and no other call makes one.
LEMMA OneRevisionAsks ==
  ASSUME CrossInv, NEW k \in {"capture", "business"}, NEW topic, NEW value, NEW olds,
         Opp!ClaimReads(topic, value, olds),
         topic = k =>
            \/ \E d \in DOMAIN claims : olds = {d} /\ claims[d].topic = k
            \/ /\ olds = {} /\ \A c \in DOMAIN claims : claims[c].topic # k
               /\ \A other \in calls : other.topic # k
  PROVE  OneOf(k)'
<1> DEFINE call == [op |-> "claim", topic |-> topic, value |-> value, olds |-> olds]
<1>1. calls' = calls \cup {call} /\ claims' = claims /\ supersedes' = supersedes
  BY DEF Opp!ClaimReads, Opp!Reads
<1>2. call.topic = topic /\ call.olds = olds
  OBVIOUS
<1> HIDE DEF call
<1>3. (\A c, d \in Opp!Active(k)' : c = d) \/ Opp!Crossed(k)'
  BY <1>1, SameRevisions DEF CrossInv, OneOf
<1>4. ASSUME NEW other \in calls', other.topic = k
      PROVE  \/ \E d \in DOMAIN claims' : other.olds = {d} /\ claims'[d].topic = k
             \/ /\ other.olds = {} /\ \A c \in DOMAIN claims' : claims'[c].topic # k
                /\ \A another \in calls' : another.topic = k => another = other
  BY <1>1, <1>2, <1>4 DEF CrossInv, OneOf
<1> QED BY <1>3, <1>4 DEF OneOf

\* capture_opportunities.py and opportunities.py: at first there is nothing to cross.
LEMMA CrossStarts == Opp!Init => CrossInv
BY DEF Opp!Init, Opp!EvidenceInit, CrossInv, OneOf, Opp!Active, Opp!Claims

\* capture_opportunities.py and opportunities.py: there are two revisions of a capture only
\* where calls crossed, and never two of an opportunity.
LEMMA CrossKeeps ==
  ASSUME OppInv, CrossInv, [Opp!Next]_(Opp!vars)
  PROVE  CrossInv'
<1> DEFINE Edges == /\ \A c, d : <<c, d>> \in supersedes => claims[c].topic = claims[d].topic /\ c # d
                    /\ \A call \in calls : call.topic = "business" => call.olds = {}
                    /\ \A c, d : <<c, d>> \in supersedes => claims[c].topic # "business"
<1>1. ASSUME NEW row, NEW olds, claims' = Append(claims, row),
             supersedes' = supersedes \cup ({Len(claims) + 1} \X olds), calls' \subseteq calls,
             \A d \in olds : d \in DOMAIN claims /\ claims[d].topic = row.topic,
             row.topic = "business" => olds = {}
      PROVE  Edges'
  <2> DEFINE n == Len(claims) + 1
  <2>1. /\ \A c \in DOMAIN claims : claims'[c] = claims[c] /\ c # n
        /\ claims'[n] = row
    BY <1>1 DEF OppInv
  <2>2. \A c, d : <<c, d>> \in supersedes' => <<c, d>> \in supersedes \/ (c = n /\ d \in olds)
    BY <1>1
  <2>3. \A c, d : <<c, d>> \in supersedes => c \in DOMAIN claims /\ d \in DOMAIN claims
    BY DEF OppInv
  <2> HIDE DEF n
  <2> QED BY <1>1, <2>1, <2>2, <2>3 DEF CrossInv
<1>2. ASSUME NEW topic, NEW value, NEW olds, Opp!ClaimReads(topic, value, olds),
             topic = "business" => olds = {}
      PROVE  Edges'
  BY <1>2 DEF CrossInv, Opp!ClaimReads, Opp!Reads
<1> HIDE DEF Edges
<1>3. Edges' /\ OneOf("capture")' /\ OneOf("business")' => CrossInv'
  BY DEF Edges, CrossInv
<1>4. ASSUME NEW said \in OppTold, NEW olds \in SUBSET Opp!Active("fact"),
             Opp!Tell("fact", said, olds)
      PROVE  CrossInv'
  <2> DEFINE row == [topic |-> "fact", value |-> said]
  <2>1. /\ claims' = Append(claims, row) /\ calls' \subseteq calls
        /\ supersedes' = supersedes \cup ({Len(claims) + 1} \X olds)
    BY <1>4 DEF Opp!Tell
  <2>2. \A d \in olds : d \in DOMAIN claims /\ claims[d].topic = "fact"
    BY DEF Opp!Active, Opp!Claims
  <2>3. row.topic = "fact"
    OBVIOUS
  <2> HIDE DEF row
  <2>4. Edges'
    BY <1>1, <2>1, <2>2, <2>3
  <2> QED BY <1>3, <2>1, <2>2, <2>3, <2>4, OneRevisionMore
<1>5. ASSUME NEW target \in Opp!Scopes, NEW basis \in DOMAIN claims,
             Opp!CreateCaptureReads("capture", target, basis)
      PROVE  CrossInv'
  <2>1. PICK value : Opp!ClaimReads("capture", value, {})
    BY <1>5 DEF Opp!CreateCaptureReads
  <2>2. /\ \A c \in DOMAIN claims : claims[c].topic # "capture"
        /\ \A other \in calls : other.topic # "capture"
    BY <1>5 DEF Opp!CreateCaptureReads, Opp!Fresh, Opp!Claims
  <2> QED BY <1>2, <1>3, <2>1, <2>2, OneRevisionAsks
<1>6. ASSUME NEW status \in Opp!Statuses, NEW decision \in DOMAIN claims,
             Opp!SetStatusReads("capture", status, decision)
      PROVE  CrossInv'
  <2>1. PICK old : old = Opp!Current("capture")
    OBVIOUS
  <2>2. PICK value : Opp!ClaimReads("capture", value, {old})
    BY <1>6, <2>1 DEF Opp!SetStatusReads
  <2>3. old \in DOMAIN claims /\ claims[old].topic = "capture"
    BY <2>2 DEF Opp!ClaimReads, Opp!Active, Opp!Claims
  <2> QED BY <1>2, <1>3, <2>2, <2>3, OneRevisionAsks
<1>7. ASSUME NEW song \in BOOLEAN, NEW basis \in DOMAIN claims,
             Opp!CreateBusinessReads("business", song, basis)
      PROVE  CrossInv'
  <2>1. PICK value : Opp!ClaimReads("business", value, {})
    BY <1>7 DEF Opp!CreateBusinessReads
  <2>2. /\ \A c \in DOMAIN claims : claims[c].topic # "business"
        /\ \A other \in calls : other.topic # "business"
    BY <1>7 DEF Opp!CreateBusinessReads, Opp!Fresh, Opp!Claims
  <2> QED BY <1>2, <1>3, <2>1, <2>2, OneRevisionAsks
<1>8. ASSUME NEW call \in calls, Opp!ClaimWrites(call) PROVE CrossInv'
  <2> DEFINE row == [topic |-> call.topic, value |-> call.value]
  <2>1. /\ claims' = Append(claims, row) /\ calls' = calls \ {call}
        /\ supersedes' = supersedes \cup ({Len(claims) + 1} \X call.olds)
    BY <1>8 DEF Opp!ClaimWrites, Opp!Writes
  <2>2. row.topic = call.topic /\ call.topic \in {"capture", "business"}
    BY DEF OppInv, OppCalls
  <2> HIDE DEF row
  <2>3. \A d \in call.olds : d \in DOMAIN claims /\ claims[d].topic = call.topic
    BY <2>2 DEF CrossInv, OneOf
  <2>4. Edges'
    BY <1>1, <2>1, <2>2, <2>3 DEF CrossInv
  <2>5. ASSUME NEW k \in {"capture", "business"} PROVE OneOf(k)'
    BY <2>1, <2>2, <2>3, OneRevisionMore
  <2> QED BY <1>3, <2>4, <2>5
<1>9. CASE UNCHANGED Opp!vars
  BY <1>9, SameRevisions DEF Opp!vars, CrossInv, OneOf
<1> QED BY <1>4, <1>5, <1>6, <1>7, <1>8, <1>9 DEF Opp!Next, Opp!Claims, OppTold

\* A set of which any two members are one has one or none.
LEMMA AtMostOne ==
  ASSUME NEW S, \A c, d \in S : c = d PROVE Opp!Cardinality(S) <= 1
<1>1. CASE S = {}
  BY <1>1, OppCounts, FS_EmptySet
<1>2. CASE S # {}
  <2>1. PICK c \in S : TRUE
    BY <1>2
  <2>2. S = {c}
    BY <2>1
  <2> QED BY <2>2, OppCounts, FS_Singleton
<1> QED BY <1>1, <1>2

\* An opportunity is never revised, so there is one of it.
LEMMA OneOpportunity == ASSUME CrossInv PROVE ~Opp!Crossed("business")
BY DEF CrossInv, Opp!Crossed

\* opportunity_advisor.py: what is ready to decide has no gap, and rests on what is active.
LEMMA OppAdvises ==
  ASSUME OppInv, NEW c \in Opp!Active("business"),
         NEW given \in SUBSET {"FIT"},
         NEW criteria \in [given -> {k \in Opp!Criteria : Opp!Assessable(claims[c].value, k)}]
  PROVE  LET opportunity == claims[c].value
             advice == Opp!Assess(opportunity, criteria) IN
         /\ advice.disposition = "READY_TO_DECIDE" <=> advice.gaps = {}
         /\ advice.gaps = {} =>
               \A basis \in {opportunity.basis} \cup UNION {criteria[d].basis : d \in given} :
                   Opp!IsActive(basis) /\ claims[basis].topic \in {"fact"}
<1> DEFINE opportunity == claims[c].value
           resolved == Opp!Resolved(criteria)
           advice == Opp!Assess(opportunity, criteria)
           there == Opp!IsActive(opportunity.basis)
<1>1. c \in DOMAIN claims /\ claims[c].topic = "business"
  BY DEF Opp!Active, Opp!Claims
<1>2. AdmitsBusiness(claims, opportunity)
  BY <1>1 DEF OppInv
<1>3. /\ DOMAIN criteria = given
      /\ \A d \in given : criteria[d] \in Opp!Criteria /\ Opp!Assessable(opportunity, criteria[d])
  OBVIOUS
<1>4. \A d \in given : criteria[d].state \in Opp!States
  BY <1>3 DEF Opp!Criteria
<1>5. PICK at : at = resolved["FIT"]
  OBVIOUS
<1>6. at \in Opp!States \cup {"NEEDS_REVALIDATION"}
  BY <1>3, <1>4, <1>5 DEF Opp!Resolved, Opp!ResolvedState, Opp!States
<1>7. {resolved[d] : d \in {"FIT"}} = {at}
  BY <1>5
<1>8. advice.disposition = Opp!Disposition(opportunity, {at})
  BY <1>7 DEF Opp!Assess
<1>9. advice.gaps = {d \in {"FIT"} : Opp!HasNextAction(resolved[d])}
                       \cup (IF there THEN {} ELSE {"SOURCE"})
  BY DEF Opp!Assess
<1>10. advice.gaps = {} <=> there /\ ~Opp!HasNextAction(at)
  BY <1>5, <1>9
<1> HIDE DEF advice, resolved, opportunity, there
<1>11. advice.disposition = "READY_TO_DECIDE" <=> there /\ ~Opp!HasNextAction(at)
  BY <1>6, <1>8 DEF Opp!Disposition, Opp!HasNextAction, Opp!States, there
<1>12. ASSUME there, ~Opp!HasNextAction(at), NEW d \in given, NEW basis \in criteria[d].basis
       PROVE  Opp!IsActive(basis) /\ claims[basis].topic = "fact"
  <2>1. d = "FIT" /\ at = Opp!ResolvedState(criteria[d])
    BY <1>3, <1>5 DEF Opp!Resolved, resolved
  <2>2. at # "NEEDS_REVALIDATION"
    BY <1>12 DEF Opp!HasNextAction
  <2>3. Opp!IsActive(basis)
    BY <1>12, <2>1, <2>2 DEF Opp!ResolvedState
  <2>4. Opp!MayBeSource(basis, opportunity.song)
    BY <1>3, <1>12 DEF Opp!Assessable
  <2> QED BY <2>3, <2>4 DEF Opp!MayBeSource
<1>13. claims[opportunity.basis].topic = "fact"
  BY <1>2 DEF AdmitsBusiness
<1>14. advice.gaps = {} =>
         \A basis \in {opportunity.basis} \cup UNION {criteria[d].basis : d \in given} :
             Opp!IsActive(basis) /\ claims[basis].topic \in {"fact"}
  <2> SUFFICES ASSUME there, ~Opp!HasNextAction(at),
                      NEW basis \in {opportunity.basis} \cup UNION {criteria[d].basis : d \in given}
               PROVE  Opp!IsActive(basis) /\ claims[basis].topic \in {"fact"}
    BY <1>10
  <2>1. CASE basis = opportunity.basis
    BY <1>13, <2>1 DEF there
  <2>2. CASE basis \in UNION {criteria[d].basis : d \in given}
    <3>1. PICK d \in given : basis \in criteria[d].basis
      BY <2>2
    <3> QED BY <1>12, <3>1
  <2> QED BY <2>1, <2>2
<1> QED BY <1>10, <1>11, <1>14 DEF advice, opportunity

\* opportunities.py and capture_opportunities.py, what the invariant says of the memory.
LEMMA OpportunitiesAreTrue ==
  ASSUME OppInv, CrossInv
  PROVE  /\ Opp!TypeOK /\ Opp!OpportunitiesOpen /\ Opp!ClosedCapturesStay
         /\ Opp!AdviceIsCurrent
<1>1. \A c \in DOMAIN claims : claims[c] \in OppClaims
  BY DEF OppInv
<1>2. Opp!TypeOK
  BY <1>1 DEF OppInv, OppClaims, Opp!TypeOK, Opp!Claims, OppTold
<1>3. Opp!OpportunitiesOpen
  <2>1. ASSUME NEW c \in Opp!Active("capture") PROVE Opp!Admissible(c)
    <3>1. c \in DOMAIN claims /\ claims[c].topic = "capture"
      BY DEF Opp!Active, Opp!Claims
    <3>2. Admits(claims, claims[c].value)
      BY <3>1 DEF OppInv
    <3> QED
      BY <3>2, OppRows
      DEF Admits, RowMayDecide, Opp!Admissible, Opp!MayBeBasis, Opp!MayDecide,
           Opp!NoDecision
  <2>2. ASSUME NEW c \in Opp!Active("business") PROVE Opp!AdmissibleBusiness(c)
    <3>1. c \in DOMAIN claims /\ claims[c].topic = "business"
      BY DEF Opp!Active, Opp!Claims
    <3>2. AdmitsBusiness(claims, claims[c].value)
      BY <3>1 DEF OppInv
    <3> QED BY <3>2, OppRows DEF AdmitsBusiness, Opp!AdmissibleBusiness, Opp!MayBeSource,
           Opp!MatchesBusiness
  <2>3. Opp!Cardinality(Opp!Active("capture")) <= 1 \/ Opp!Crossed("capture")
    BY AtMostOne DEF CrossInv, OneOf
  <2>4. Opp!Cardinality(Opp!Active("business")) <= 1
    BY AtMostOne, OneOpportunity DEF CrossInv, OneOf
  <2> QED BY <2>1, <2>2, <2>3, <2>4 DEF Opp!OpportunitiesOpen
<1>4. Opp!ClosedCapturesStay
  <2> SUFFICES ASSUME Opp!Readable("capture"), NEW c \in DOMAIN claims,
                      claims[c].topic = "capture", claims[c].value.status \in Opp!TerminalStatuses
               PROVE  Opp!Current("capture") = c
    BY DEF Opp!ClosedCapturesStay, Opp!Claims
  <2>1. c \notin Opp!Superseded
    <3>1. \A edge \in supersedes : edge = <<edge[1], edge[2]>>
      BY DEF OppInv
    <3>2. \A edge \in supersedes : ~RowIsClosed(claims[edge[2]])
      BY <3>1 DEF OppInv
    <3> QED BY <3>2 DEF Opp!Superseded, RowIsClosed
  <2>2. c \in Opp!Active("capture")
    BY <2>1 DEF Opp!Active, Opp!Claims
  <2>3. IsFiniteSet(Opp!Active("capture"))
    <3>1. PICK n \in Int : n = Len(claims)
      BY DEF OppInv
    <3>2. Opp!Active("capture") \subseteq 1..n
      BY <3>1 DEF OppInv, Opp!Active, Opp!Claims
    <3>3. IsFiniteSet(1..n)
      BY FS_Interval
    <3> QED BY <3>2, <3>3, FS_Subset
  <2>4. Cardinality(Opp!Active("capture")) = 1
    BY OppCounts DEF Opp!Readable
  <2>5. PICK only : Opp!Active("capture") = {only}
    BY <2>3, <2>4, FS_Singleton
  <2> QED BY <2>2, <2>5 DEF Opp!Current
<1>5. Opp!AdviceIsCurrent
  BY OppAdvises DEF Opp!AdviceIsCurrent
<1> QED BY <1>2, <1>3, <1>4, <1>5

-----------------------------------------------------------------------------
(* A career and its offers (career_state.py, career_roles.py).              *)

\* Two states of a career, a role of three stages, and offers whose facts run out.
Releases(n) == [k \in {"RELEASE"} |-> n]
Fact(from, through) ==
    [observed |-> from, through |-> through, territory |-> "FR", declared |-> FALSE]
Career == INSTANCE Careers WITH
    CareerStates <- {"EMERGING", "ESTABLISHED"}, MaxEntries <- 2, Kinds <- {"RELEASE"},
    Stages <- <<[skill |-> 1, counts |-> Releases(0)], [skill |-> 2, counts |-> Releases(1)],
                [skill |-> 2, counts |-> Releases(2)]>>,
    Refs <- {"r1", "r2"}, Reviewed <- {"FEE", "EXTERNAL_TERMS"}, LastDay <- 3,
    Offers <- {[terms |-> {"FEE", "EXTERNAL_TERMS"}, notApplicable |-> {}, facts |-> facts,
                territory |-> "FR"] : facts \in {{Fact(0, 1)}, {Fact(1, 2), Fact(0, 2)}}},
    career <- a1, pending <- a2, level <- a3, shown <- a4, offer <- a5, today <- a6

\* career_state.py counts its calls as the model does.
LEMMA CareerCounts == ASSUME NEW S PROVE Career!Cardinality(S) = Cardinality(S)
BY DEF Cardinality, Career!Cardinality

CareerRows == [state : {"EMERGING", "ESTABLISHED"}, reviewed : Nat]
\* Every declaration reviewed the one before it, and so does every call that is under way.
CareerInv ==
    /\ a1 \in Seq(CareerRows)
    /\ \A i \in DOMAIN a1 : /\ a1[i].reviewed = i - 1
                            /\ i > 1 => a1[i].state # a1[i - 1].state
    /\ a2 \subseteq [state : {"EMERGING", "ESTABLISHED"}, expected : Nat]
    /\ \A call \in a2 : /\ call.expected <= Len(a1)
                        /\ call.expected # 0 => a1[call.expected].state # call.state
    /\ a3 \in Nat /\ a4 \subseteq Career!RoleEvidence
    /\ Career!WellFormedOffer(a5)
    /\ \A f \in a5.facts : f.observed \in Nat /\ f.through \in Nat
    /\ a6 \in Nat

\* career_state.py: at first nothing is declared and nothing was shown.
LEMMA CareerStarts == Career!Init => CareerInv
<1> SUFFICES ASSUME Career!Init PROVE CareerInv
  OBVIOUS
<1>1. a1 = <<>> /\ a2 = {} /\ a3 = 0 /\ a4 = {} /\ a6 = 0
  BY DEF Career!Init
<1>2. PICK facts \in {{Fact(0, 1)}, {Fact(1, 2), Fact(0, 2)}} :
         a5 = [terms |-> {"FEE", "EXTERNAL_TERMS"}, notApplicable |-> {}, facts |-> facts,
               territory |-> "FR"]
  BY DEF Career!Init
<1>3. /\ facts # {}
      /\ \A f \in facts : f.observed \in Nat /\ f.through \in Nat /\ f.observed <= f.through
  <2>1. \A f \in {Fact(0, 1), Fact(1, 2), Fact(0, 2)} :
           /\ f.observed \in Nat /\ f.through \in Nat /\ f.observed <= f.through
    BY DEF Fact
  <2> HIDE DEF Fact
  <2>2. facts # {} /\ facts \subseteq {Fact(0, 1), Fact(1, 2), Fact(0, 2)}
    BY <1>2
  <2> QED BY <2>1, <2>2
<1>4. Career!WellFormedOffer(a5)
  BY <1>2, <1>3 DEF Career!WellFormedOffer
<1>5. a5.facts = facts
  BY <1>2
<1> QED BY <1>1, <1>3, <1>4, <1>5 DEF CareerInv

\* career_state.py: a declaration is written over the one that was reviewed, or not at all.
LEMMA CareerKeeps ==
  ASSUME CareerInv, [Career!Next]_(Career!vars)
  PROVE  CareerInv' /\ a3' >= a3 /\ a4 \subseteq a4'
<1>1. a1 \in Seq(CareerRows) /\ Len(a1) \in Nat /\ DOMAIN a1 = 1..Len(a1)
  BY DEF CareerInv
<1>2. ASSUME UNCHANGED <<a1, a5>>, a2' \subseteq a2, a3' \in Nat, a3' >= a3, a4 \subseteq a4',
             a4' \subseteq Career!RoleEvidence, a6' \in Nat
      PROVE  CareerInv' /\ a3' >= a3 /\ a4 \subseteq a4'
  <2>1. Career!WellFormedOffer(a5)'
    BY <1>2 DEF CareerInv, Career!WellFormedOffer
  <2> QED BY <1>2, <2>1 DEF CareerInv
<1>3. ASSUME NEW state \in {"EMERGING", "ESTABLISHED"}, Career!RecordStateReads(state)
      PROVE  CareerInv' /\ a3' >= a3 /\ a4 \subseteq a4'
  <2> DEFINE call == [state |-> state, expected |-> Len(a1)]
  <2>1. /\ a2' = a2 \cup {call} /\ UNCHANGED <<a1, a3, a4, a5, a6>>
        /\ Len(a1) # 0 => a1[Len(a1)].state # state
    BY <1>3 DEF Career!RecordStateReads, Career!CurrentState
  <2>2. Career!WellFormedOffer(a5)'
    BY <2>1 DEF CareerInv, Career!WellFormedOffer
  <2> QED BY <1>1, <2>1, <2>2 DEF CareerInv
<1>4. ASSUME NEW call \in a2, Career!RecordStateWrites(call)
      PROVE  CareerInv' /\ a3' >= a3 /\ a4 \subseteq a4'
  <2> DEFINE row == [state |-> call.state, reviewed |-> call.expected]
             k == Len(a1) + 1
  <2>1. /\ a2' = a2 \ {call} /\ a1' = Append(a1, row) /\ UNCHANGED <<a3, a4, a5, a6>>
        /\ Len(a1) = call.expected
    BY <1>4 DEF Career!RecordStateWrites, Career!Declares, Career!CurrentState
  <2>2. /\ row \in CareerRows /\ row.state = call.state /\ row.reviewed = Len(a1)
        /\ Len(a1) # 0 => a1[Len(a1)].state # call.state
    BY <2>1 DEF CareerInv, CareerRows
  <2> HIDE DEF row
  <2>3. /\ a1' \in Seq(CareerRows) /\ Len(a1') = k
        /\ \A i \in DOMAIN a1 : i \in DOMAIN a1' /\ a1'[i] = a1[i]
        /\ a1'[k] = row
        /\ \A i \in DOMAIN a1' : i \in DOMAIN a1 \/ i = k
    BY <1>1, <2>1, <2>2
  <2>4. Career!WellFormedOffer(a5)'
    BY <2>1 DEF CareerInv, Career!WellFormedOffer
  <2>5. ASSUME NEW i \in DOMAIN a1'
        PROVE  a1'[i].reviewed = i - 1 /\ (i > 1 => a1'[i].state # a1'[i - 1].state)
    <3>1. CASE i \in DOMAIN a1
      <4>1. i > 1 => i - 1 \in DOMAIN a1
        BY <1>1, <3>1
      <4> QED BY <2>3, <3>1, <4>1 DEF CareerInv
    <3>2. CASE i = k
      <4>1. i > 1 => Len(a1) \in DOMAIN a1 /\ i - 1 = Len(a1)
        BY <1>1, <3>2
      <4>2. i - 1 = Len(a1)
        BY <1>1, <3>2
      <4> QED BY <1>1, <2>2, <2>3, <3>2, <4>1, <4>2
    <3> QED BY <2>3, <3>1, <3>2
  <2>6. ASSUME NEW other \in a2'
        PROVE  /\ other.expected <= Len(a1')
               /\ other.expected # 0 => a1'[other.expected].state # other.state
    <3>1. other \in a2 /\ other.expected \in Nat
      BY <2>1 DEF CareerInv
    <3>2. other.expected <= Len(a1) /\ (other.expected # 0 => other.expected \in DOMAIN a1)
      BY <1>1, <3>1 DEF CareerInv
    <3> QED BY <1>1, <2>3, <3>1, <3>2 DEF CareerInv
  <2>7. a3' >= a3 /\ a4 \subseteq a4'
    BY <2>1 DEF CareerInv
  <2> QED BY <2>1, <2>3, <2>4, <2>5, <2>6, <2>7 DEF CareerInv
<1>5. ASSUME NEW call \in a2, Career!RecordStateStale(call)
      PROVE  CareerInv' /\ a3' >= a3 /\ a4 \subseteq a4'
  BY <1>2, <1>5 DEF Career!RecordStateStale, CareerInv
<1>6. CASE Career!Practise
  BY <1>2, <1>6 DEF Career!Practise, CareerInv
<1>7. ASSUME NEW e \in Career!RoleEvidence, Career!Show(e)
      PROVE  CareerInv' /\ a3' >= a3 /\ a4 \subseteq a4'
  BY <1>2, <1>7 DEF Career!Show, CareerInv
<1>8. CASE Career!Day
  BY <1>2, <1>8 DEF Career!Day, CareerInv
<1>9. CASE UNCHANGED Career!vars
  BY <1>2, <1>9 DEF Career!vars, CareerInv
<1> QED BY <1>3, <1>4, <1>5, <1>6, <1>7, <1>8, <1>9 DEF Career!Next

\* career_roles.assess_role: a stage and what of it is covered.
RoleStages ==
    <<[skill |-> 1, counts |-> Releases(0)], [skill |-> 2, counts |-> Releases(1)],
      [skill |-> 2, counts |-> Releases(2)]>>
RefsOf(evidence) == {e.ref : e \in {d \in Career!Verified(evidence) : d.kind = "RELEASE"}}
CoveredIn(i, rank, evidence) ==
    rank >= RoleStages[i].skill /\ Cardinality(RefsOf(evidence)) >= RoleStages[i].counts["RELEASE"]

\* The stages of the role are numbers, for the provers.
LEMMA StagesAre == \A i \in 1..3 : /\ RoleStages[i].skill \in Nat
                                   /\ RoleStages[i].counts["RELEASE"] \in Nat
BY DEF RoleStages, Releases

\* career_roles.py: a stage is covered by what is verified of its kinds.
LEMMA CoveredIs ==
  ASSUME NEW i \in 1..3, NEW rank \in Nat, NEW evidence, Cardinality(RefsOf(evidence)) \in Nat
  PROVE  Career!Covered(RoleStages[i], rank, evidence) <=> CoveredIn(i, rank, evidence)
<1>1. PICK stage : stage = RoleStages[i]
  OBVIOUS
<1>2. stage.skill \in Nat /\ stage.counts["RELEASE"] \in Nat
  BY <1>1, StagesAre
<1>3. Career!Counted(evidence, "RELEASE") = Cardinality(RefsOf(evidence))
  BY CareerCounts DEF Career!Counted, RefsOf
<1>4. Career!MissingEvidence(stage, evidence) = {} <=>
         ~(Cardinality(RefsOf(evidence)) < stage.counts["RELEASE"])
  BY <1>3 DEF Career!MissingEvidence
<1> QED BY <1>1, <1>2, <1>4 DEF Career!Covered, Career!MissingSkill, CoveredIn

\* The stages are attained one after the other, up to the first that is not covered.
LEMMA AttainedIs ==
  ASSUME NEW rank \in Nat, NEW evidence, Cardinality(RefsOf(evidence)) \in Nat
  PROVE  /\ Career!Attained(rank, evidence) \in 0..3
         /\ \A i \in 1..3 : i <= Career!Attained(rank, evidence) => CoveredIn(i, rank, evidence)
         /\ \A i \in 1..3 : i = Career!Attained(rank, evidence) + 1 => ~CoveredIn(i, rank, evidence)
<1> DEFINE Reached(n) == /\ \A i \in 1..n : Career!Covered(RoleStages[i], rank, evidence)
                         /\ n < Len(RoleStages) =>
                               ~Career!Covered(RoleStages[n + 1], rank, evidence)
           C(i) == Career!Covered(RoleStages[i], rank, evidence)
<1>1. Len(RoleStages) = 3
  BY DEF RoleStages
<1>2. PICK n : n = CHOOSE m \in 0..Len(RoleStages) : Reached(m)
  OBVIOUS
<1>3. Career!Attained(rank, evidence) = n
  BY <1>2 DEF Career!Attained, RoleStages
<1> HIDE DEF C
<1>4. \E m \in 0..3 : (\A i \in 1..m : C(i)) /\ (m < 3 => ~C(m + 1))
  <2>1. CASE ~C(1)
    <3> WITNESS 0 \in 0..3
    <3> QED BY <2>1
  <2>2. CASE C(1) /\ ~C(2)
    <3> WITNESS 1 \in 0..3
    <3> QED BY <2>2
  <2>3. CASE C(1) /\ C(2) /\ ~C(3)
    <3> WITNESS 2 \in 0..3
    <3> QED BY <2>3
  <2>4. CASE C(1) /\ C(2) /\ C(3)
    <3> WITNESS 3 \in 0..3
    <3> QED BY <2>4
  <2> QED BY <2>1, <2>2, <2>3, <2>4
<1>5. n \in 0..3 /\ Reached(n)
  <2>1. \E m \in 0..Len(RoleStages) : Reached(m)
    BY <1>1, <1>4 DEF C
  <2> QED BY <1>1, <1>2, <2>1
<1>6. \A i \in 1..3 : C(i) <=> CoveredIn(i, rank, evidence)
  BY CoveredIs DEF C
<1>7. (\A i \in 1..3 : i <= n => C(i)) /\ \A i \in 1..3 : i = n + 1 => ~C(i)
  BY <1>1, <1>5 DEF C
<1> QED BY <1>3, <1>5, <1>6, <1>7

\* career_roles.py: practice and evidence never take a stage away, and only a source not
\* counted yet or a skill gives one.
LEMMA CareerOutcomes ==
  ASSUME CareerInv, [Career!Next]_(Career!vars)
  PROVE  Career!AStageIsEarned
<1>1. CareerInv' /\ a3' >= a3 /\ a4 \subseteq a4' /\ a3 \in Nat /\ a3' \in Nat
  <2>1. CareerInv' /\ a3' >= a3 /\ a4 \subseteq a4'
    BY CareerKeeps
  <2> QED BY <2>1 DEF CareerInv
<1>2. \A evidence : evidence \subseteq Career!RoleEvidence =>
         RefsOf(evidence) \subseteq {"r1", "r2"}
  BY DEF RefsOf, Career!RoleEvidence, Career!Verified
<1>3. IsFiniteSet({"r1", "r2"})
  <2>1. IsFiniteSet({"r1"})
    BY FS_Singleton
  <2>2. IsFiniteSet({"r1"} \cup {"r2"})
    BY <2>1, FS_AddElement
  <2>3. {"r1"} \cup {"r2"} = {"r1", "r2"}
    OBVIOUS
  <2> QED BY <2>2, <2>3
<1>4. RefsOf(a4) \subseteq RefsOf(a4') /\ RefsOf(a4') \subseteq {"r1", "r2"}
  BY <1>1, <1>2 DEF CareerInv, RefsOf, Career!Verified
<1>5. IsFiniteSet(RefsOf(a4'))
  BY <1>3, <1>4, FS_Subset
<1>6. /\ Cardinality(RefsOf(a4)) \in Nat /\ Cardinality(RefsOf(a4')) \in Nat
      /\ Cardinality(RefsOf(a4)) <= Cardinality(RefsOf(a4'))
  <2>1. IsFiniteSet(RefsOf(a4)) /\ Cardinality(RefsOf(a4)) <= Cardinality(RefsOf(a4'))
    BY <1>4, <1>5, FS_Subset
  <2> QED BY <1>5, <2>1, FS_CardinalityType
<1> DEFINE old == Career!Attained(a3, a4)
           new == Career!Attained(a3', a4')
<1>7. /\ old \in 0..3
      /\ \A i \in 1..3 : i <= old => CoveredIn(i, a3, a4)
      /\ \A i \in 1..3 : i = old + 1 => ~CoveredIn(i, a3, a4)
  BY <1>1, <1>6, AttainedIs
<1>8. /\ new \in 0..3
      /\ \A i \in 1..3 : i <= new => CoveredIn(i, a3', a4')
      /\ \A i \in 1..3 : i = new + 1 => ~CoveredIn(i, a3', a4')
  BY <1>1, <1>6, AttainedIs
<1>9. \A i \in 1..3 : CoveredIn(i, a3, a4) => CoveredIn(i, a3', a4')
  BY <1>1, <1>6, StagesAre DEF CoveredIn
<1>10. RefsOf(a4') = RefsOf(a4) /\ ~(a3' > a3) =>
          \A i \in 1..3 : CoveredIn(i, a3', a4') => CoveredIn(i, a3, a4)
  BY <1>1, StagesAre DEF CoveredIn
<1> HIDE DEF old, new
<1>11. new >= old
  <2> SUFFICES ASSUME new < old PROVE FALSE
    BY <1>7, <1>8
  <2>1. new + 1 \in 1..3 /\ new + 1 <= old
    BY <1>7, <1>8
  <2> QED BY <1>7, <1>8, <1>9, <2>1
<1>12. new > old => a3' > a3 \/ RefsOf(a4') # RefsOf(a4)
  <2> SUFFICES ASSUME new > old, RefsOf(a4') = RefsOf(a4), ~(a3' > a3) PROVE FALSE
    OBVIOUS
  <2>1. old + 1 \in 1..3 /\ old + 1 <= new
    BY <1>7, <1>8
  <2> QED BY <1>7, <1>8, <1>10, <2>1
<1> QED BY <1>11, <1>12 DEF Career!AStageIsEarned, RefsOf, old, new

\* career_state.py and role_economics.py, what the invariant says.
LEMMA CareersAreTrue ==
  ASSUME CareerInv
  PROVE  Career!NothingUnreviewedIsReplaced /\ Career!EvidenceRunsOut
<1>1. Career!NothingUnreviewedIsReplaced
  BY DEF CareerInv, Career!NothingUnreviewedIsReplaced
<1>2. \A f \in a5.facts : f.observed \in Nat /\ f.through \in Nat /\ a6 \in Nat
  BY DEF CareerInv
<1>3. Career!OfferState(a5, a6) = "REVIEWABLE" =>
         \A state \in Career!FactStates(a5, a6) : state = "APPLICABLE"
  BY DEF Career!OfferState
<1>4. ASSUME NEW earlier \in 0..a6, "STALE" \in Career!FactStates(a5, earlier)
      PROVE  Career!OfferState(a5, a6) # "REVIEWABLE"
  <2>1. a5.territory # "" /\ \E f \in a5.facts :
           Career!Applicability(f, earlier, a5.territory) = "STALE"
    BY <1>4 DEF Career!FactStates
  <2>2. PICK f \in a5.facts : Career!Applicability(f, earlier, a5.territory) = "STALE"
    BY <2>1
  <2>3. f.observed <= earlier /\ f.territory = a5.territory /\ ~f.declared /\ earlier > f.through
    BY <1>2, <2>2 DEF Career!Applicability
  <2>4. ~(f.observed > a6) /\ a6 > f.through
    BY <1>2, <2>3
  <2>5. Career!Applicability(f, a6, a5.territory) = "STALE"
    BY <2>3, <2>4 DEF Career!Applicability
  <2>6. "STALE" \in Career!FactStates(a5, a6)
    BY <2>1, <2>5 DEF Career!FactStates
  <2> QED BY <1>3, <2>6
<1>5. ASSUME Career!OfferState(a5, a6) = "REVIEWABLE", NEW f \in a5.facts
      PROVE  a6 \in f.observed..f.through /\ f.territory = a5.territory /\ ~f.declared
  <2>1. PICK state : state = IF a5.territory = "" THEN "NEEDS_TERRITORY"
                             ELSE Career!Applicability(f, a6, a5.territory)
    OBVIOUS
  <2>2. state \in Career!FactStates(a5, a6)
    BY <2>1 DEF Career!FactStates
  <2>3. state = "APPLICABLE"
    BY <1>3, <1>5, <2>2
  <2>4. Career!Applicability(f, a6, a5.territory) = "APPLICABLE"
    BY <2>1, <2>3
  <2>5. ~(f.observed > a6) /\ f.territory = a5.territory /\ ~f.declared /\ ~(a6 > f.through)
    BY <2>4 DEF Career!Applicability
  <2> QED BY <1>2, <2>5
<1>6. Career!EvidenceRunsOut
  BY <1>4, <1>5 DEF CareerInv, Career!EvidenceRunsOut
<1> QED BY <1>1, <1>6

-----------------------------------------------------------------------------
(* What is learned of a change (learning.py, learning_experiment.py).       *)

\* An episode of one of two Songs, one skill, and one suggestion.
Episode == INSTANCE Learning WITH
    Works <- {"s1", "s2"}, NoWork <- "none", MaxSessions <- 1, MaxSelections <- 2,
    MaxEpisodes <- 1, MaxSeen <- 2, Levels <- {}, MaxAssessments <- 0, Suggestions <- {},
    MaxDeferrals <- 0, MaxPending <- 2, activity <- a1, work <- a2, episodes <- a3,
    assessments <- a4, deferrals <- a5, pending <- a6

TheSongs == {"s1", "s2"}
EpisodeRows ==
    [song : TheSongs, session : Nat, seen : Nat,
     decision : [by : {"NOBODY", "MEMORY", "ARTIST"}, reviewed : Nat]]
EpisodeTyped ==
    /\ a1 \in Seq([event : {"SONG_SELECTED"}, song : TheSongs, ref : {0}])
    /\ a2 \in [TheSongs -> Seq({"OPEN", "CLOSED"})]
    /\ a3 \in Seq(EpisodeRows) /\ a4 = <<>>
\* Whoever settles or decides an episode has seen an observation of it.
EpisodeCalls ==
    \A call \in a6 :
        /\ call.op \in {"start", "append", "settle", "decide"}
        /\ call.op = "start" => call.song \in TheSongs
        /\ call.op # "start" => call.episode \in DOMAIN a3
        /\ call.op \in {"settle", "decide"} => a3[call.episode].seen > 0
\* A decision rests on what was observed until then, and nothing is observed after it.
EpisodesJudged ==
    \A e \in DOMAIN a3 :
        Episode!Decided(e) => a3[e].seen > 0 /\ a3[e].decision.reviewed = a3[e].seen
EpisodeInv == EpisodeTyped /\ EpisodeCalls /\ EpisodesJudged

\* learning.py: at first there is no episode.
LEMMA EpisodeStarts == Episode!Init => EpisodeInv
<1> SUFFICES ASSUME Episode!Init PROVE EpisodeInv
  OBVIOUS
<1>1. /\ a1 = <<>> /\ a2 = [s \in TheSongs |-> <<>>] /\ a3 = <<>> /\ a4 = <<>> /\ a6 = {}
  BY DEF Episode!Init, TheSongs
<1>2. EpisodeTyped
  BY <1>1 DEF EpisodeTyped
<1> QED BY <1>1, <1>2 DEF EpisodeInv, EpisodeCalls, EpisodesJudged

\* lineage.py: the Song that is active is one that was selected.
LEMMA ActiveEpisode ==
  ASSUME EpisodeInv, Episode!ActiveSong # "none"
  PROVE  Episode!ActiveSong \in TheSongs
<1>1. DOMAIN a1 = 1..Len(a1) /\ Len(a1) \in Nat
  BY DEF EpisodeInv, EpisodeTyped
<1> DEFINE T == Episode!Selections
<1>2. T \subseteq 0..Len(a1) /\ T \subseteq DOMAIN a1
  BY <1>1 DEF Episode!Selections, Episode!Events
<1>3. T # {}
  BY DEF Episode!ActiveSong
<1>4. \E n \in T : \A m \in T : m <= n
  BY <1>1, <1>2, <1>3, Largest
<1>5. PICK n : n = CHOOSE k \in T : \A m \in T : m <= k
  OBVIOUS
<1>6. n \in T
  BY <1>4, <1>5
<1>7. Episode!ActiveSong = a1[n].song
  BY <1>3, <1>5 DEF Episode!ActiveSong
<1>8. a1[n] \in [event : {"SONG_SELECTED"}, song : TheSongs, ref : {0}]
  <2> DEFINE Selected == [event : {"SONG_SELECTED"}, song : TheSongs, ref : {0}]
  <2>1. a1 \in Seq(Selected) /\ n \in DOMAIN a1
    BY <1>2, <1>6 DEF EpisodeInv, EpisodeTyped
  <2> HIDE DEF Selected
  <2>2. a1[n] \in Selected
    BY <2>1
  <2> QED BY <2>2 DEF Selected
<1> QED BY <1>7, <1>8

\* learning.py: what is observed of an episode that is not decided, and what is decided of it
\* with all that was observed, leave every decision resting on what was seen.
LEMMA EpisodeMoves ==
  ASSUME EpisodeInv, NEW e \in DOMAIN a3, ~Episode!Decided(e), NEW seen \in Nat, NEW decision,
         seen >= a3[e].seen,
         \/ decision = Episode!Undecided
         \/ /\ decision \in [by : {"MEMORY", "ARTIST"}, reviewed : {seen}]
            /\ seen > 0,
         a3' = [a3 EXCEPT ![e] = [song |-> a3[e].song, session |-> a3[e].session,
                                  seen |-> seen, decision |-> decision]],
         a6' \subseteq a6, UNCHANGED <<a1, a2, a4>>
  PROVE  EpisodeInv'
<1> DEFINE row == [song |-> a3[e].song, session |-> a3[e].session, seen |-> seen,
                   decision |-> decision]
<1>1. a3 \in Seq(EpisodeRows) /\ a3[e] \in EpisodeRows
  BY DEF EpisodeInv, EpisodeTyped
<1>2. decision \in [by : {"NOBODY", "MEMORY", "ARTIST"}, reviewed : Nat]
  BY DEF Episode!Undecided
<1>3. row \in EpisodeRows /\ row.seen = seen /\ row.decision = decision
  BY <1>1, <1>2 DEF EpisodeRows
<1>4. a3[e].seen \in Nat
  BY <1>1 DEF EpisodeRows
<1>9. a3' = [a3 EXCEPT ![e] = row]
  OBVIOUS
<1> HIDE DEF row, EpisodeRows
<1>5. /\ a3' \in Seq(EpisodeRows) /\ DOMAIN a3' = DOMAIN a3 /\ a3'[e] = row
      /\ \A f \in DOMAIN a3 : f # e => a3'[f] = a3[f]
  BY <1>1, <1>3, <1>9
<1>6. EpisodeTyped'
  BY <1>5 DEF EpisodeInv, EpisodeTyped
<1>7. EpisodeCalls'
  <2> SUFFICES ASSUME NEW call \in a6
               PROVE  /\ call.op \in {"start", "append", "settle", "decide"}
                      /\ call.op = "start" => call.song \in TheSongs
                      /\ call.op # "start" => call.episode \in DOMAIN a3
                      /\ call.op \in {"settle", "decide"} => a3'[call.episode].seen > 0
    BY <1>5 DEF EpisodeCalls
  <2>1. CASE call.episode = e
    BY <1>3, <1>4, <1>5, <2>1 DEF EpisodeInv, EpisodeCalls
  <2>2. CASE call.episode # e
    BY <1>5, <2>2 DEF EpisodeInv, EpisodeCalls
  <2> QED BY <2>1, <2>2
<1>8. EpisodesJudged'
  <2> SUFFICES ASSUME NEW f \in DOMAIN a3, a3'[f].decision # Episode!Undecided
               PROVE  a3'[f].seen > 0 /\ a3'[f].decision.reviewed = a3'[f].seen
    BY <1>5 DEF EpisodesJudged, Episode!Decided, Episode!Undecided
  <2>1. CASE f = e
    BY <1>3, <1>5, <2>1
  <2>2. CASE f # e
    BY <1>5, <2>2 DEF EpisodeInv, EpisodesJudged, Episode!Decided
  <2> QED BY <2>1, <2>2
<1> QED BY <1>6, <1>7, <1>8 DEF EpisodeInv

\* learning.py: a new episode of a session has nothing seen and nothing decided.
LEMMA EpisodeCreated ==
  ASSUME EpisodeInv, NEW song \in TheSongs, NEW n \in DOMAIN a2[song],
         a3' = Append(a3, Episode!Episode(song, n)), a6' \subseteq a6, UNCHANGED <<a1, a2, a4>>
  PROVE  EpisodeInv'
<1>1. a3 \in Seq(EpisodeRows) /\ n \in Nat
  BY DEF EpisodeInv, EpisodeTyped
<1> DEFINE row == Episode!Episode(song, n)
<1>2. row \in EpisodeRows /\ row.decision = Episode!Undecided
  BY <1>1 DEF EpisodeRows, Episode!Episode, Episode!Undecided
<1> HIDE DEF row, EpisodeRows
<1>3. /\ a3' \in Seq(EpisodeRows) /\ Len(a3') = Len(a3) + 1 /\ a3'[Len(a3) + 1] = row
      /\ \A e \in DOMAIN a3 : e \in DOMAIN a3' /\ a3'[e] = a3[e]
      /\ DOMAIN a3' = DOMAIN a3 \cup {Len(a3) + 1}
  BY <1>1, <1>2 DEF row
<1>4. EpisodeTyped' /\ EpisodeCalls'
  BY <1>3 DEF EpisodeInv, EpisodeTyped, EpisodeCalls
<1>5. EpisodesJudged'
  BY <1>2, <1>3 DEF EpisodeInv, EpisodesJudged, Episode!Decided, Episode!Undecided
<1> QED BY <1>4, <1>5 DEF EpisodeInv

\* learning.py: a call that asks is of an episode that is there.
LEMMA EpisodeAsked ==
  ASSUME EpisodeInv, NEW call, Episode!Asks(call),
         call.op \in {"start", "append", "settle", "decide"},
         call.op = "start" => call.song \in TheSongs,
         call.op # "start" => call.episode \in DOMAIN a3,
         call.op \in {"settle", "decide"} => a3[call.episode].seen > 0
  PROVE  EpisodeInv'
<1>1. a6' = a6 \cup {call} /\ UNCHANGED <<a1, a2, a3, a4>>
  BY DEF Episode!Asks
<1>2. EpisodeCalls'
  BY <1>1 DEF EpisodeInv, EpisodeCalls
<1> QED BY <1>1, <1>2 DEF EpisodeInv, EpisodeTyped, EpisodesJudged, Episode!Decided

\* learning.py and learning_experiment.py: what an artist or the memory decides is decided of
\* all that was observed, and nothing is observed of it afterwards.
LEMMA EpisodeKeeps ==
  ASSUME EpisodeInv, [Episode!Next]_(Episode!vars)
  PROVE  EpisodeInv'
<1>1. ASSUME UNCHANGED <<a3, a4>>, a6' \subseteq a6,
             a1' \in Seq([event : {"SONG_SELECTED"}, song : TheSongs, ref : {0}]),
             a2' \in [TheSongs -> Seq({"OPEN", "CLOSED"})]
      PROVE  EpisodeInv'
  BY <1>1 DEF EpisodeInv, EpisodeTyped, EpisodeCalls, EpisodesJudged, Episode!Decided
<1>2. ASSUME NEW song \in TheSongs,
             Episode!Select_song(song) \/ Episode!Start_session(song) \/ Episode!Close_session(song)
      PROVE  EpisodeInv'
  <2>1. PICK old \in Seq({"OPEN", "CLOSED"}) : old = a2[song]
    BY DEF EpisodeInv, EpisodeTyped
  <2>2. CASE Episode!Select_song(song)
    <3> DEFINE event == [event |-> "SONG_SELECTED", song |-> song, ref |-> 0]
               Events == [event : {"SONG_SELECTED"}, song : TheSongs, ref : {0}]
    <3>1. a1 \in Seq(Events) /\ a2 \in [TheSongs -> Seq({"OPEN", "CLOSED"})]
      BY DEF EpisodeInv, EpisodeTyped
    <3>2. event \in Events /\ a1' = Append(a1, event) /\ UNCHANGED <<a2, a3, a4, a5, a6>>
      BY <2>2 DEF Episode!Select_song
    <3>3. a1' \in Seq(Events)
      <4> HIDE DEF event, Events
      <4> QED BY <3>1, <3>2
    <3> QED BY <1>1, <3>1, <3>2, <3>3
  <2>3. CASE Episode!Start_session(song)
    <3>1. Append(old, "OPEN") \in Seq({"OPEN", "CLOSED"})
      OBVIOUS
    <3>2. a2' = [a2 EXCEPT ![song] = Append(old, "OPEN")] /\ UNCHANGED <<a1, a3, a4, a5, a6>>
      BY <2>1, <2>3 DEF Episode!Start_session
    <3> QED BY <1>1, <3>1, <3>2 DEF EpisodeInv, EpisodeTyped
  <2>4. CASE Episode!Close_session(song)
    <3>1. Len(old) \in DOMAIN old
      BY <2>1, <2>4 DEF Episode!Close_session, Episode!IsOpen
    <3>3. [old EXCEPT ![Len(old)] = "CLOSED"] \in Seq({"OPEN", "CLOSED"})
      BY <3>1
    <3>2. /\ a2' = [a2 EXCEPT ![song] = [old EXCEPT ![Len(old)] = "CLOSED"]]
          /\ UNCHANGED <<a1, a3, a4, a5, a6>>
      BY <2>1, <2>4 DEF Episode!Close_session, EpisodeInv, EpisodeTyped
    <3> QED BY <1>1, <3>2, <3>3 DEF EpisodeInv, EpisodeTyped
  <2> QED BY <1>2, <2>2, <2>3, <2>4
<1>3. ASSUME NEW song \in TheSongs, NEW n, Episode!Create_episode(song, n) PROVE EpisodeInv'
  BY <1>3, EpisodeCreated DEF Episode!Create_episode
<1>4. ASSUME Episode!Start_binding PROVE EpisodeInv'
  <2> DEFINE call == [op |-> "start", song |-> Episode!ActiveSong,
                      session |-> Episode!LatestSession(Episode!ActiveSong)]
  <2>1. Episode!Asks(call) /\ call.op = "start" /\ call.song = Episode!ActiveSong
        /\ Episode!ActiveSong \in TheSongs
    BY <1>4, ActiveEpisode DEF Episode!Start_binding
  <2> QED BY <2>1, EpisodeAsked
<1>5. ASSUME NEW e \in DOMAIN a3, ~Episode!Decided(e), Episode!Observes(e), a6' \subseteq a6
      PROVE  EpisodeInv'
  <2>1. a3 \in Seq(EpisodeRows) /\ a3[e] \in EpisodeRows
    BY DEF EpisodeInv, EpisodeTyped
  <2>2. a3[e].seen \in Nat /\ a3[e].decision = Episode!Undecided
    BY <1>5, <2>1 DEF EpisodeRows, Episode!Decided
  <2>3. PICK song \in TheSongs, session \in Nat, seen \in Nat :
           a3[e] = [song |-> song, session |-> session, seen |-> seen,
                    decision |-> Episode!Undecided]
    BY <2>1, <2>2 DEF EpisodeRows
  <2>4. [a3[e] EXCEPT !.seen = @ + 1]
           = [song |-> a3[e].song, session |-> a3[e].session, seen |-> a3[e].seen + 1,
              decision |-> Episode!Undecided]
    BY <2>3
  <2>5. a3' = [a3 EXCEPT ![e] = [a3[e] EXCEPT !.seen = @ + 1]] /\ UNCHANGED <<a1, a2, a4>>
    BY <1>5 DEF Episode!Observes
  <2>6. a3' = [a3 EXCEPT ![e] = [song |-> a3[e].song, session |-> a3[e].session,
                                 seen |-> a3[e].seen + 1, decision |-> Episode!Undecided]]
    BY <2>4, <2>5
  <2>7. a3[e].seen + 1 \in Nat /\ a3[e].seen + 1 >= a3[e].seen
    BY <2>2
  <2> QED BY <1>5, <2>5, <2>6, <2>7, EpisodeMoves
<1>6. ASSUME NEW call \in a6, NEW by \in {"MEMORY", "ARTIST"}, call.op # "start",
             ~Episode!Decided(call.episode), a3[call.episode].seen > 0,
             Episode!Decides(call, by, a3[call.episode].seen)
      PROVE  EpisodeInv'
  <2>1. PICK e \in DOMAIN a3 : e = call.episode
    BY <1>6 DEF EpisodeInv, EpisodeCalls
  <2>2. a3 \in Seq(EpisodeRows) /\ a3[e] \in EpisodeRows
    BY DEF EpisodeInv, EpisodeTyped
  <2>3. PICK seen \in Nat : seen = a3[e].seen
    BY <2>2 DEF EpisodeRows
  <2>4. PICK decision : decision = [by |-> by, reviewed |-> seen]
    OBVIOUS
  <2>9. PICK song \in TheSongs, session \in Nat,
              old \in [by : {"NOBODY", "MEMORY", "ARTIST"}, reviewed : Nat] :
           a3[e] = [song |-> song, session |-> session, seen |-> seen, decision |-> old]
    BY <2>2, <2>3 DEF EpisodeRows
  <2>5. [a3[e] EXCEPT !.decision = decision]
           = [song |-> a3[e].song, session |-> a3[e].session, seen |-> seen,
              decision |-> decision]
    BY <2>9
  <2>6. /\ a3' = [a3 EXCEPT ![e] = [a3[e] EXCEPT !.decision = decision]]
        /\ a6' \subseteq a6 /\ UNCHANGED <<a1, a2, a4>>
    BY <1>6, <2>1, <2>3, <2>4 DEF Episode!Decides
  <2>7. a3' = [a3 EXCEPT ![e] = [song |-> a3[e].song, session |-> a3[e].session, seen |-> seen,
                                 decision |-> decision]]
    BY <2>5, <2>6
  <2>8. /\ decision \in [by : {"MEMORY", "ARTIST"}, reviewed : {seen}]
        /\ seen > 0 /\ seen >= a3[e].seen
    BY <1>6, <2>1, <2>3, <2>4
  <2> QED BY <1>6, <2>1, <2>6, <2>7, <2>8, EpisodeMoves
<1>7. ASSUME NEW e \in DOMAIN a3,
             \/ Episode!Append_observation(e) \/ Episode!AppendReads(e)
             \/ Episode!MemoryDecideReads(e) \/ Episode!Decision_binding(e)
      PROVE  EpisodeInv'
  <2>1. CASE Episode!Append_observation(e)
    BY <1>5, <2>1 DEF Episode!Append_observation
  <2>2. CASE Episode!AppendReads(e)
    <3> DEFINE call == [op |-> "append", episode |-> e]
    <3>1. Episode!Asks(call) /\ call.op = "append" /\ call.episode = e
      BY <2>2 DEF Episode!AppendReads
    <3> QED BY <3>1, EpisodeAsked
  <2>3. CASE Episode!MemoryDecideReads(e)
    <3> DEFINE call == [op |-> "settle", episode |-> e]
    <3>1. Episode!Asks(call) /\ call.op = "settle" /\ call.episode = e /\ a3[e].seen > 0
      BY <2>3 DEF Episode!MemoryDecideReads
    <3> QED BY <3>1, EpisodeAsked
  <2>4. CASE Episode!Decision_binding(e)
    <3> DEFINE call == [op |-> "decide", episode |-> e, seen |-> a3[e].seen]
    <3>1. Episode!Asks(call) /\ call.op = "decide" /\ call.episode = e /\ a3[e].seen > 0
      BY <2>4 DEF Episode!Decision_binding
    <3> QED BY <3>1, EpisodeAsked
  <2> QED BY <1>7, <2>1, <2>2, <2>3, <2>4
<1>8. ASSUME NEW call \in a6,
             \/ Episode!Start_episode(call) \/ Episode!Append_consequence(call)
             \/ Episode!MemoryDecides(call) \/ Episode!Decide(call) \/ Episode!Correct(call)
             \/ Episode!Defer(call) \/ Episode!Stale(call)
      PROVE  EpisodeInv'
  <2>0. /\ call.op \in {"start", "append", "settle", "decide"}
        /\ call.op = "start" => call.song \in TheSongs
        /\ call.op # "start" => call.episode \in DOMAIN a3
        /\ call.op \in {"settle", "decide"} => a3[call.episode].seen > 0
    BY DEF EpisodeInv, EpisodeCalls
  <2>1. CASE Episode!Start_episode(call)
    <3>1. call.song \in TheSongs /\ call.session \in DOMAIN a2[call.song]
      BY <2>0, <2>1 DEF Episode!Start_episode, Episode!StartHolds, Episode!IsOpen
    <3>2. /\ a3' = Append(a3, Episode!Episode(call.song, call.session))
          /\ a6' \subseteq a6 /\ UNCHANGED <<a1, a2, a4>>
      BY <2>1 DEF Episode!Start_episode
    <3> QED BY <3>1, <3>2, EpisodeCreated
  <2>2. CASE Episode!Append_consequence(call)
    BY <1>5, <2>0, <2>2 DEF Episode!Append_consequence
  <2>3. CASE Episode!MemoryDecides(call)
    BY <1>6, <2>0, <2>3 DEF Episode!MemoryDecides
  <2>4. CASE Episode!Decide(call)
    <3>1. ~Episode!Decided(call.episode) /\ a3[call.episode].seen = call.seen
          /\ Episode!Decides(call, "ARTIST", a3[call.episode].seen) /\ call.op = "decide"
      BY <2>4 DEF Episode!Decide, Episode!DecideHolds
    <3> QED BY <1>6, <2>0, <3>1
  <2>5. ~Episode!Correct(call) /\ ~Episode!Defer(call)
    BY <2>0 DEF Episode!Correct, Episode!Defer
  <2>6. CASE Episode!Stale(call)
    BY <1>1, <2>6 DEF Episode!Stale, EpisodeInv, EpisodeTyped
  <2> QED BY <1>8, <2>1, <2>2, <2>3, <2>4, <2>5, <2>6
<1>9. CASE UNCHANGED Episode!vars
  BY <1>1, <1>9 DEF Episode!vars, EpisodeInv, EpisodeTyped
<1> QED
  <2>1. CASE Episode!Next
    BY <1>2, <1>3, <1>4, <1>7, <1>8, <2>1 DEF Episode!Next, TheSongs
  <2> QED BY <1>9, <2>1

\* What the invariant says is what the run checks of the episodes.
LEMMA EpisodesAreTrue ==
  ASSUME EpisodeInv
  PROVE  Episode!JudgedAsSeen
<1>1. DOMAIN a4 = {}
  BY DEF EpisodeInv, EpisodeTyped
<1> QED BY <1>1 DEF EpisodeInv, EpisodesJudged, Episode!JudgedAsSeen

-----------------------------------------------------------------------------
(* What is learned of a skill (skills.py, skill_model.py).                  *)

Skill == INSTANCE Learning WITH
    Works <- {"s1"}, NoWork <- "none", MaxSessions <- 1, MaxSelections <- 1,
    MaxEpisodes <- 0, MaxSeen <- 2, Levels <- {"UNKNOWN", "APPLIED"},
    MaxAssessments <- 3, Suggestions <- {}, MaxDeferrals <- 0, MaxPending <- 1,
    activity <- a1, work <- a2, episodes <- a3, assessments <- a4, deferrals <- a5, pending <- a6

SkillSessions == {Skill!NoSession} \cup ({"s1"} \X (1..1))
SkillRows == [level : {"UNKNOWN", "APPLIED"}, source : Skill!Sources, session : SkillSessions,
              reviewed : Nat]
\* Every assessment is of the one before it, and the work it rests on is over.
SkillInv ==
    /\ a2 \in [{"s1"} -> Seq({"OPEN", "CLOSED"})] /\ a3 = <<>> /\ a4 \in Seq(SkillRows)
    /\ \A n \in DOMAIN a4 :
          /\ a4[n].reviewed = n - 1
          /\ Skill!Assessable(a4[n].level, a4[n].source, a4[n].session)
    /\ \A call \in a6 : call.op = "correct" /\ call.level \in {"UNKNOWN", "APPLIED"}

\* skills.py: at first nothing is assessed.
LEMMA SkillStarts == Skill!Init => SkillInv
<1> SUFFICES ASSUME Skill!Init PROVE SkillInv
  OBVIOUS
<1>1. a2 = [s \in {"s1"} |-> <<>>] /\ a3 = <<>> /\ a4 = <<>> /\ a6 = {}
  BY DEF Skill!Init
<1>2. a4 \in Seq(SkillRows) /\ DOMAIN a4 = {}
  BY <1>1
<1> QED BY <1>1, <1>2 DEF SkillInv

\* skills.py: an assessment is of all that were there, by one who may make it.
LEMMA SkillAssessed ==
  ASSUME SkillInv, NEW level \in {"UNKNOWN", "APPLIED"}, NEW source \in Skill!Sources,
         NEW session \in SkillSessions, Skill!Assessable(level, source, session),
         Skill!Assesses(level, source, session, Len(a4)), a6' \subseteq a6
  PROVE  SkillInv'
<1> DEFINE row == [level |-> level, source |-> source, session |-> session, reviewed |-> Len(a4)]
<1>1. a4 \in Seq(SkillRows) /\ Len(a4) \in Nat /\ DOMAIN a4 = 1..Len(a4)
  BY DEF SkillInv
<1>2. /\ row \in SkillRows /\ row.level = level /\ row.source = source
      /\ row.session = session /\ row.reviewed = Len(a4)
  BY <1>1 DEF SkillRows
<1>3. a4' = Append(a4, row) /\ UNCHANGED <<a1, a2, a3, a5>>
  BY DEF Skill!Assesses
<1> HIDE DEF row, SkillRows
<1>4. /\ a4' \in Seq(SkillRows) /\ a4'[Len(a4) + 1] = row
      /\ \A n \in DOMAIN a4 : a4'[n] = a4[n]
      /\ DOMAIN a4' = DOMAIN a4 \cup {Len(a4) + 1}
  BY <1>1, <1>2, <1>3
<1>6. ASSUME NEW n \in DOMAIN a4 \cup {Len(a4) + 1}
      PROVE  /\ a4'[n].reviewed = n - 1
             /\ Skill!Assessable(a4'[n].level, a4'[n].source, a4'[n].session)
  <2>1. CASE n \in DOMAIN a4
    BY <1>4, <2>1 DEF SkillInv
  <2>2. CASE n = Len(a4) + 1
    BY <1>1, <1>2, <1>4, <2>2
  <2> QED BY <2>1, <2>2
<1> QED BY <1>3, <1>4, <1>6 DEF SkillInv, Skill!Assessable, Skill!IsClosed

\* session.py: a session that is over stays over, whatever sessions follow.
LEMMA SkillWorks ==
  ASSUME SkillInv, NEW old \in Seq({"OPEN", "CLOSED"}), NEW new \in Seq({"OPEN", "CLOSED"}),
         old = a2["s1"], a2' = [a2 EXCEPT !["s1"] = new], UNCHANGED <<a3, a4, a6>>,
         \A n \in DOMAIN old : old[n] = "CLOSED" => n \in DOMAIN new /\ new[n] = "CLOSED"
  PROVE  SkillInv'
<1>1. a2'["s1"] = new /\ a2' \in [{"s1"} -> Seq({"OPEN", "CLOSED"})]
  BY DEF SkillInv
<1>2. ASSUME NEW n, Skill!IsClosed("s1", n) PROVE Skill!IsClosed("s1", n)'
  BY <1>1, <1>2 DEF Skill!IsClosed
<1>3. ASSUME NEW n \in DOMAIN a4
      PROVE  Skill!Assessable(a4[n].level, a4[n].source, a4[n].session)'
  <2>4. a4[n] \in SkillRows
    BY DEF SkillInv
  <2>1. a4[n].session \in SkillSessions
    BY <2>4 DEF SkillRows
  <2>2. a4[n].session # Skill!NoSession => a4[n].session[1] = "s1"
    BY <2>1 DEF SkillSessions
  <2>3. Skill!Assessable(a4[n].level, a4[n].source, a4[n].session)
    BY DEF SkillInv
  <2> QED BY <1>2, <2>2, <2>3 DEF Skill!Assessable
<1> QED BY <1>1, <1>3 DEF SkillInv

\* skills.py and skill_model.py: whatever page a correction comes from, it is of the assessment
\* that was on it.
LEMMA SkillKeeps ==
  ASSUME SkillInv, [Skill!Next]_(Skill!vars)
  PROVE  SkillInv'
<1>0. Len(a4) \in Nat
  BY DEF SkillInv
<1>1. ASSUME UNCHANGED <<a2, a3, a4>>, a6' \subseteq a6
      PROVE  SkillInv'
  BY <1>1 DEF SkillInv, Skill!Assessable, Skill!IsClosed
<1>2. ASSUME Skill!Select_song("s1") \/ Skill!Start_session("s1") \/ Skill!Close_session("s1")
      PROVE  SkillInv'
  <2>1. PICK old \in Seq({"OPEN", "CLOSED"}) : old = a2["s1"]
    BY DEF SkillInv
  <2>2. CASE Skill!Select_song("s1")
    BY <1>1, <2>2 DEF Skill!Select_song
  <2>3. CASE Skill!Start_session("s1")
    <3>1. PICK new : new = Append(old, "OPEN")
      OBVIOUS
    <3>2. /\ new \in Seq({"OPEN", "CLOSED"})
          /\ \A n \in DOMAIN old : n \in DOMAIN new /\ new[n] = old[n]
      BY <3>1
    <3>3. a2' = [a2 EXCEPT !["s1"] = new] /\ UNCHANGED <<a3, a4, a6>>
      BY <2>1, <2>3, <3>1 DEF Skill!Start_session
    <3> QED BY <2>1, <3>2, <3>3, SkillWorks
  <2>4. CASE Skill!Close_session("s1")
    <3>1. PICK new : new = [old EXCEPT ![Len(old)] = "CLOSED"]
      OBVIOUS
    <3>4. Len(old) \in DOMAIN old
      BY <2>1, <2>4 DEF Skill!Close_session, Skill!IsOpen
    <3>2. /\ new \in Seq({"OPEN", "CLOSED"}) /\ DOMAIN new = DOMAIN old
          /\ \A n \in DOMAIN old : old[n] = "CLOSED" => new[n] = "CLOSED"
      BY <3>1, <3>4
    <3>3. a2' = [a2 EXCEPT !["s1"] = new] /\ UNCHANGED <<a3, a4, a6>>
      BY <2>1, <2>4, <3>1 DEF Skill!Close_session, SkillInv
    <3> QED BY <2>1, <3>2, <3>3, SkillWorks
  <2> QED BY <1>2, <2>2, <2>3, <2>4
<1>3. ASSUME NEW song, NEW n, Skill!Create_episode(song, n) PROVE FALSE
  BY <1>3 DEF Skill!Create_episode, SkillInv
<1>4. ASSUME Skill!Start_binding PROVE FALSE
  BY <1>4 DEF Skill!Start_binding, SkillInv
<1>5. ASSUME NEW level \in {"UNKNOWN", "APPLIED"}, NEW source \in Skill!Sources,
             NEW session \in SkillSessions, Skill!Record_assessment(level, source, session)
      PROVE  SkillInv'
  BY <1>5, SkillAssessed DEF Skill!Record_assessment
<1>6. ASSUME NEW level \in {"UNKNOWN", "APPLIED"}, Skill!Declare(level)
      PROVE  SkillInv'
  <2>1. Skill!Assesses(level, "ARTIST_DECLARED", Skill!NoSession, Len(a4)) /\ a6' = a6
    BY <1>6 DEF Skill!Declare
  <2>2. Skill!Assessable(level, "ARTIST_DECLARED", Skill!NoSession)
    BY <1>6 DEF Skill!Declare, Skill!Assessable
  <2>3. "ARTIST_DECLARED" \in Skill!Sources /\ Skill!NoSession \in SkillSessions
    BY DEF Skill!Sources, SkillSessions
  <2> QED BY <2>1, <2>2, <2>3, SkillAssessed
<1>7. ASSUME NEW level \in {"UNKNOWN", "APPLIED"}, Skill!Binding_for(level)
      PROVE  SkillInv'
  <2> DEFINE call == [op |-> "correct", level |-> level, expected |-> Len(a4)]
  <2>1. a6' = a6 \cup {call} /\ UNCHANGED <<a1, a2, a3, a4, a5>>
    BY <1>7 DEF Skill!Binding_for, Skill!Asks
  <2>2. call.op = "correct" /\ call.level \in {"UNKNOWN", "APPLIED"}
    OBVIOUS
  <2> HIDE DEF call
  <2> QED BY <2>1, <2>2 DEF SkillInv, Skill!Assessable, Skill!IsClosed
<1>8. ASSUME NEW call \in a6,
             \/ Skill!Start_episode(call) \/ Skill!Append_consequence(call)
             \/ Skill!MemoryDecides(call) \/ Skill!Decide(call) \/ Skill!Correct(call)
             \/ Skill!Defer(call) \/ Skill!Stale(call)
      PROVE  SkillInv'
  <2>1. call.op = "correct" /\ call.level \in {"UNKNOWN", "APPLIED"}
    BY DEF SkillInv
  <2>2. Skill!Correct(call) \/ Skill!Stale(call)
    BY <1>8, <2>1 DEF Skill!Start_episode, Skill!Append_consequence, Skill!MemoryDecides,
       Skill!Decide, Skill!Defer
  <2>3. CASE Skill!Correct(call)
    <3>1. /\ Skill!Assesses(call.level, "ARTIST_CORRECTION", Skill!NoSession, Len(a4))
          /\ a6' \subseteq a6
      BY <2>3 DEF Skill!Correct
    <3>2. Skill!Assessable(call.level, "ARTIST_CORRECTION", Skill!NoSession)
      BY DEF Skill!Assessable
    <3>3. "ARTIST_CORRECTION" \in Skill!Sources /\ Skill!NoSession \in SkillSessions
      BY DEF Skill!Sources, SkillSessions
    <3> QED BY <2>1, <3>1, <3>2, <3>3, SkillAssessed
  <2>4. CASE Skill!Stale(call)
    BY <1>1, <2>4 DEF Skill!Stale
  <2> QED BY <2>2, <2>3, <2>4
<1>9. CASE UNCHANGED Skill!vars
  BY <1>1, <1>9 DEF Skill!vars
<1> QED
  <2>1. DOMAIN a3 = {} /\ {"s1"} \X (1..1) \subseteq SkillSessions
    BY DEF SkillInv, SkillSessions
  <2>2. CASE Skill!Next
    BY <1>2, <1>3, <1>4, <1>5, <1>6, <1>7, <1>8, <2>1, <2>2
       DEF Skill!Next, SkillSessions
  <2> QED BY <1>9, <2>2

\* What the invariant says is what the run checks of the skill.
LEMMA SkillsAreTrue ==
  ASSUME SkillInv
  PROVE  Skill!JudgedAsSeen
<1>1. DOMAIN a3 = {}
  BY DEF SkillInv
<1> QED BY <1>1 DEF SkillInv, Skill!JudgedAsSeen

-----------------------------------------------------------------------------
(* Suggestions put off (suggestion_deferral.py): no two equal rows are in   *)
(* force, and what was asked of one is heeded until its moment.             *)

Later == INSTANCE Learning WITH
    Works <- {"s1", "s2"}, NoWork <- "none", MaxSessions <- 1, MaxSelections <- 3,
    MaxEpisodes <- 0, MaxSeen <- 2, Levels <- {}, MaxAssessments <- 0, Suggestions <- {"key"},
    MaxDeferrals <- 2, MaxPending <- 2, activity <- a1, work <- a2, episodes <- a3,
    assessments <- a4, deferrals <- a5, pending <- a6

LaterEvents == [event : {"SONG_SELECTED", "SUGGESTION_DEFERRED"}, song : {"s1", "s2"}, ref : Nat]
LaterRows == [key : {"key"}, scope : Later!Scopes, song : {"s1", "s2"}, session : Nat]
LaterCalls ==
    [op : {"defer"}, key : {"key"}, scope : Later!Scopes, song : {"s1", "s2"}, session : Nat]
LaterTyped ==
    /\ a1 \in Seq(LaterEvents) /\ a2 \in [{"s1", "s2"} -> Seq({"OPEN", "CLOSED"})]
    /\ a3 = <<>> /\ a4 = <<>> /\ a5 \in Seq(LaterRows) /\ a6 \subseteq LaterCalls
LaterRefs ==
    \A n \in DOMAIN a1 : a1[n].event = "SUGGESTION_DEFERRED" => a1[n].ref \in DOMAIN a5
LaterSessions == \A call \in a6 : call.scope = "LATER_THIS_SONG" => call.session # 0
LaterInv == LaterTyped /\ LaterRefs /\ LaterSessions /\ Later!OneHorizon

\* suggestion_deferral.py: at first nothing is put off.
LEMMA LaterStarts == Later!Init => LaterInv
<1> SUFFICES ASSUME Later!Init PROVE LaterInv
  OBVIOUS
<1>1. /\ a1 = <<>> /\ a2 = [s \in {"s1", "s2"} |-> <<>>]
      /\ a3 = <<>> /\ a4 = <<>> /\ a5 = <<>> /\ a6 = {}
  BY DEF Later!Init
<1>2. LaterTyped
  BY <1>1 DEF LaterTyped
<1>3. LaterRefs /\ LaterSessions /\ Later!OneHorizon
  BY <1>1 DEF LaterRefs, LaterSessions, Later!OneHorizon, Later!Deferrals
<1> QED BY <1>2, <1>3 DEF LaterInv

\* lineage.py: the Song that is active is one of the Songs, or none is.
LEMMA ActiveIs ==
  ASSUME LaterInv
  PROVE  \/ Later!Selections = {} /\ Later!ActiveSong = "none"
         \/ \E n \in Later!Selections : /\ \A m \in Later!Selections : m <= n
                                        /\ Later!ActiveSong = a1[n].song
                                        /\ Later!ActiveSong \in {"s1", "s2"}
<1>1. a1 \in Seq(LaterEvents)
  BY DEF LaterInv, LaterTyped
<1>2. DOMAIN a1 = 1..Len(a1) /\ Len(a1) \in Nat
  BY <1>1
<1> DEFINE T == Later!Selections
<1>3. T \subseteq 0..Len(a1) /\ T \subseteq DOMAIN a1
  BY <1>2 DEF Later!Selections, Later!Events
<1>4. CASE T # {}
  <2>1. \E n \in T : \A m \in T : m <= n
    BY <1>2, <1>3, <1>4, Largest
  <2>2. PICK n : n = CHOOSE k \in T : \A m \in T : m <= k
    OBVIOUS
  <2>3. n \in T /\ \A m \in T : m <= n
    BY <2>1, <2>2
  <2>4. Later!ActiveSong = a1[n].song
    BY <1>4, <2>2 DEF Later!ActiveSong
  <2>5. a1[n].song \in {"s1", "s2"}
    <3>1. a1[n] \in LaterEvents
      BY <1>1, <1>3, <2>3
    <3> QED BY <3>1 DEF LaterEvents
  <2> QED BY <2>3, <2>4, <2>5
<1>5. CASE T = {}
  BY <1>5 DEF Later!ActiveSong
<1> QED BY <1>4, <1>5

\* The steps that a behaviour about deferrals can take.
LaterSelects(song) ==
    /\ song # Later!ActiveSong
    /\ a1' = Append(a1, [event |-> "SONG_SELECTED", song |-> song, ref |-> 0])
    /\ UNCHANGED <<a2, a3, a4, a5, a6>>
LaterWorks ==
    /\ a2' \in [{"s1", "s2"} -> Seq({"OPEN", "CLOSED"})] /\ a2' # a2
    /\ UNCHANGED <<a1, a3, a4, a5, a6>>
LaterAsks ==
    /\ \E call \in LaterCalls : /\ call.scope = "LATER_THIS_SONG" => call.session # 0
                                /\ a6' = a6 \cup {call}
    /\ UNCHANGED <<a1, a2, a3, a4, a5>>

\* The steps of Learning that a behaviour about deferrals can take are those.
LEMMA LaterSteps ==
  ASSUME LaterInv, [Later!Next]_(Later!vars)
  PROVE  \/ \E song \in {"s1", "s2"} : LaterSelects(song)
         \/ LaterWorks
         \/ LaterAsks
         \/ \E call \in a6 : Later!Defer(call)
         \/ UNCHANGED <<a1, a2, a3, a4, a5, a6>>
<1>1. ASSUME NEW song \in {"s1", "s2"},
             Later!Select_song(song) \/ Later!Start_session(song) \/ Later!Close_session(song)
      PROVE  LaterSelects(song) \/ LaterWorks
  <2>1. PICK old \in Seq({"OPEN", "CLOSED"}) : old = a2[song]
    BY DEF LaterInv, LaterTyped
  <2>2. CASE Later!Select_song(song)
    BY <2>2 DEF Later!Select_song, LaterSelects
  <2>3. CASE Later!Start_session(song)
    <3>1. PICK new : new = Append(old, "OPEN")
      OBVIOUS
    <3>2. new \in Seq({"OPEN", "CLOSED"}) /\ Len(new) = Len(old) + 1 /\ Len(old) \in Nat
      BY <3>1
    <3>3. new # old
      BY <3>2
    <3>4. a2' = [a2 EXCEPT ![song] = new] /\ UNCHANGED <<a1, a3, a4, a5, a6>>
      BY <2>1, <2>3, <3>1 DEF Later!Start_session
    <3> QED BY <2>1, <3>2, <3>3, <3>4 DEF LaterWorks, LaterInv, LaterTyped
  <2>4. CASE Later!Close_session(song)
    <3>1. PICK new : new = [old EXCEPT ![Len(old)] = "CLOSED"]
      OBVIOUS
    <3>2. Len(old) \in DOMAIN old /\ old[Len(old)] = "OPEN"
      BY <2>1, <2>4 DEF Later!Close_session, Later!IsOpen
    <3>3. new \in Seq({"OPEN", "CLOSED"}) /\ new[Len(old)] = "CLOSED"
      BY <3>1, <3>2
    <3>4. new # old
      BY <3>2, <3>3
    <3>5. a2' = [a2 EXCEPT ![song] = new] /\ UNCHANGED <<a1, a3, a4, a5, a6>>
      BY <2>1, <2>4, <3>1 DEF Later!Close_session, LaterInv, LaterTyped
    <3> QED BY <2>1, <3>3, <3>4, <3>5 DEF LaterWorks, LaterInv, LaterTyped
  <2> QED BY <1>1, <2>2, <2>3, <2>4
<1>2. ASSUME NEW song \in {"s1", "s2"}, NEW n, Later!Create_episode(song, n) PROVE FALSE
  BY <1>2 DEF Later!Create_episode, LaterInv, LaterTyped
<1>3. ASSUME Later!Start_binding PROVE FALSE
  BY <1>3 DEF Later!Start_binding, LaterInv, LaterTyped
<1>4. ASSUME NEW scope \in Later!Scopes, Later!DeferReads("key", scope) PROVE LaterAsks
  <2>1. Later!ActiveSong \in {"s1", "s2"}
    BY <1>4, ActiveIs DEF Later!DeferReads
  <2>2. PICK n : n = Later!LatestSession(Later!ActiveSong)
    OBVIOUS
  <2>3. n \in Nat
    BY <2>1, <2>2 DEF Later!LatestSession, LaterInv, LaterTyped
  <2> DEFINE call == [op |-> "defer", key |-> "key", scope |-> scope, song |-> Later!ActiveSong,
                      session |-> n]
  <2>4. call \in LaterCalls /\ (call.scope = "LATER_THIS_SONG" => call.session # 0)
    BY <1>4, <2>1, <2>2, <2>3 DEF LaterCalls, Later!DeferReads
  <2>5. a6' = a6 \cup {call} /\ UNCHANGED <<a1, a2, a3, a4, a5>>
    BY <1>4, <2>2 DEF Later!DeferReads, Later!Asks
  <2> QED BY <2>4, <2>5 DEF LaterAsks
<1>5. ASSUME NEW call \in a6,
             \/ Later!Start_episode(call) \/ Later!Append_consequence(call)
             \/ Later!MemoryDecides(call) \/ Later!Decide(call) \/ Later!Correct(call)
             \/ Later!Defer(call) \/ Later!Stale(call)
      PROVE  Later!Defer(call)
  <2>1. call.op = "defer"
    BY DEF LaterInv, LaterTyped, LaterCalls
  <2> QED BY <1>5, <2>1 DEF Later!Start_episode, Later!Append_consequence, Later!MemoryDecides,
             Later!Decide, Later!Correct, Later!Stale, Later!Holds
<1>6. CASE UNCHANGED Later!vars
  BY <1>6 DEF Later!vars
<1>7. \A e \in DOMAIN a3 : FALSE
  BY DEF LaterInv, LaterTyped
<1> QED BY <1>1, <1>2, <1>3, <1>4, <1>5, <1>6, <1>7 DEF Later!Next

\* _next_song_horizon_crossed and the rule about two equal rows, of the rows they read.
CrossedIn(acts, table, d) ==
    \E origin, n \in DOMAIN acts :
        /\ acts[origin].event = "SUGGESTION_DEFERRED" /\ acts[origin].ref = d
        /\ n > origin /\ acts[n].event = "SONG_SELECTED" /\ acts[n].song # table[d].song
ApartIn(acts, table, c, d) ==
    table[c].key = table[d].key /\ table[c].scope = table[d].scope =>
       /\ table[c].scope = "LATER_THIS_SONG" =>
             table[c].song # table[d].song \/ table[c].session # table[d].session
       /\ table[c].scope = "NEXT_SONG" =>
             table[c].song # table[d].song \/ CrossedIn(acts, table, c) \/ CrossedIn(acts, table, d)
       /\ table[c].scope # "NEVER_SUGGEST_AGAIN"
HorizonIn(acts, table) ==
    \A c, d \in DOMAIN table : c # d => ApartIn(acts, table, c, d)

\* suggestion_deferral.py: that rule is OneHorizon.
LEMMA HorizonsAre ==
  ASSUME LaterTyped
  PROVE  Later!OneHorizon <=> HorizonIn(a1, a5)
<1>1. \A c \in DOMAIN a5 : a5[c] \in LaterRows
  BY DEF LaterTyped
<1>2. \A c \in DOMAIN a5 : a5[c].scope \in {"LATER_THIS_SONG", "NEXT_SONG", "NEVER_SUGGEST_AGAIN"}
  BY <1>1 DEF LaterRows, Later!Scopes
<1>3. \A c \in DOMAIN a5 : Later!Crossed(c) <=> CrossedIn(a1, a5, c)
  BY DEF Later!Crossed, CrossedIn, Later!Events, Later!Selections
<1>4. \A c, d \in DOMAIN a5 : <<a5[c].song, a5[c].session>> # <<a5[d].song, a5[d].session>>
          <=> a5[c].song # a5[d].song \/ a5[c].session # a5[d].session
  OBVIOUS
<1> QED BY <1>2, <1>3, <1>4 DEF HorizonIn, ApartIn, Later!OneHorizon, Later!Deferrals

\* suggestion_deferral.py: a horizon that was crossed stays so, whatever is recorded after.
LEMMA CrossedStays ==
  ASSUME NEW acts \in Seq(LaterEvents), NEW e \in LaterEvents, NEW table, NEW more, NEW d,
         CrossedIn(acts, table, d), more[d].song = table[d].song
  PROVE  CrossedIn(Append(acts, e), more, d)
<1>1. PICK origin, n \in DOMAIN acts :
        /\ acts[origin].event = "SUGGESTION_DEFERRED" /\ acts[origin].ref = d
        /\ n > origin /\ acts[n].event = "SONG_SELECTED" /\ acts[n].song # table[d].song
  BY DEF CrossedIn
<1>2. \A k \in DOMAIN acts : k \in DOMAIN Append(acts, e) /\ Append(acts, e)[k] = acts[k]
  OBVIOUS
<1> QED BY <1>1, <1>2 DEF CrossedIn

\* suggestion_deferral.py: of calls that cross, one writes a row and the others find it.
LEMMA LaterKeeps ==
  ASSUME LaterInv, [Later!Next]_(Later!vars)
  PROVE  LaterInv'
<1>1. ASSUME NEW e \in LaterEvents, a1' = Append(a1, e)
      PROVE  a1' \in Seq(LaterEvents) /\ \A d \in DOMAIN a5 :
                CrossedIn(a1, a5, d) => CrossedIn(a1', a5, d)
  <2>1. a1 \in Seq(LaterEvents)
    BY DEF LaterInv, LaterTyped
  <2>2. ASSUME NEW d, CrossedIn(a1, a5, d) PROVE CrossedIn(Append(a1, e), a5, d)
    BY <2>1, <2>2, CrossedStays
  <2> QED BY <1>1, <2>1, <2>2
<1>2. HorizonIn(a1, a5)
  BY HorizonsAre DEF LaterInv
<1>3. ASSUME LaterTyped', HorizonIn(a1', a5') PROVE Later!OneHorizon'
  <2>1. \A c \in DOMAIN a5' :
           a5'[c].scope \in {"LATER_THIS_SONG", "NEXT_SONG", "NEVER_SUGGEST_AGAIN"}
    <3>1. \A c \in DOMAIN a5' : a5'[c] \in LaterRows
      BY <1>3 DEF LaterTyped
    <3> QED BY <3>1 DEF LaterRows, Later!Scopes
  <2>2. \A c \in DOMAIN a5' : Later!Crossed(c)' <=> CrossedIn(a1', a5', c)
    BY DEF Later!Crossed, CrossedIn, Later!Events, Later!Selections
  <2>3. \A c, d \in DOMAIN a5' :
           <<a5'[c].song, a5'[c].session>> # <<a5'[d].song, a5'[d].session>>
              <=> a5'[c].song # a5'[d].song \/ a5'[c].session # a5'[d].session
    OBVIOUS
  <2> QED BY <1>3, <2>1, <2>2, <2>3 DEF HorizonIn, ApartIn, Later!OneHorizon, Later!Deferrals
<1>4. ASSUME NEW song \in {"s1", "s2"}, LaterSelects(song) PROVE LaterInv'
  <2> DEFINE e == [event |-> "SONG_SELECTED", song |-> song, ref |-> 0]
  <2>1. e \in LaterEvents /\ a1' = Append(a1, e)
    BY <1>4 DEF LaterSelects, LaterEvents
  <2>2. a1' \in Seq(LaterEvents)
        /\ \A d \in DOMAIN a5 : CrossedIn(a1, a5, d) => CrossedIn(a1', a5, d)
    BY <1>1, <2>1
  <2>3. a2' = a2 /\ a3' = a3 /\ a4' = a4 /\ a5' = a5 /\ a6' = a6
    BY <1>4 DEF LaterSelects
  <2>4. LaterTyped'
    BY <2>2, <2>3 DEF LaterInv, LaterTyped
  <2>5. LaterRefs'
    <3>1. \A n \in DOMAIN a1' : (n \in DOMAIN a1 /\ a1'[n] = a1[n]) \/ a1'[n] = e
      BY <2>1 DEF LaterInv, LaterTyped
    <3> QED BY <2>3, <3>1 DEF LaterInv, LaterRefs
  <2>6. HorizonIn(a1', a5')
    BY <1>2, <2>2, <2>3 DEF HorizonIn, ApartIn
  <2>7. LaterSessions'
    BY <2>3 DEF LaterInv, LaterSessions
  <2> QED BY <1>3, <2>4, <2>5, <2>6, <2>7 DEF LaterInv
<1>5. CASE LaterWorks \/ LaterAsks \/ UNCHANGED <<a1, a2, a3, a4, a5, a6>>
  <2>1. LaterTyped'
    BY <1>5 DEF LaterInv, LaterTyped, LaterWorks, LaterAsks
  <2>2. a1' = a1 /\ a5' = a5
    BY <1>5 DEF LaterWorks, LaterAsks
  <2>3. LaterRefs' /\ HorizonIn(a1', a5')
    BY <1>2, <2>2 DEF LaterInv, LaterRefs
  <2>4. LaterSessions'
    BY <1>5 DEF LaterInv, LaterSessions, LaterWorks, LaterAsks
  <2> QED BY <1>3, <2>1, <2>3, <2>4 DEF LaterInv
<1>6. ASSUME NEW call \in a6, Later!Defer(call) PROVE LaterInv'
  <2>1. /\ a6' = a6 \ {call} /\ a2' = a2 /\ a3' = a3 /\ a4' = a4
    BY <1>6 DEF Later!Defer
  <2>2. LaterSessions'
    BY <2>1 DEF LaterInv, LaterSessions
  <2>3. CASE a5' = a5 /\ a1' = a1
    <3>1. LaterTyped' /\ LaterRefs' /\ HorizonIn(a1', a5')
      BY <1>2, <2>1, <2>3 DEF LaterInv, LaterTyped, LaterRefs
    <3> QED BY <1>3, <2>2, <3>1 DEF LaterInv
  <2>4. CASE ~(a5' = a5 /\ a1' = a1)
    <3> DEFINE row == [key |-> call.key, scope |-> call.scope, song |-> call.song,
                       session |-> call.session]
               new == Len(a5) + 1
               e == [event |-> "SUGGESTION_DEFERRED", song |-> call.song, ref |-> new]
    <3>1. a5' = Append(a5, row) /\ a1' = Append(a1, e) /\ Later!Existing(call) = {}
      BY <1>6, <2>4 DEF Later!Defer
    <3>2. call \in LaterCalls
      BY DEF LaterInv, LaterTyped
    <3>3. row \in LaterRows /\ a5 \in Seq(LaterRows) /\ new \in Nat
      BY <3>2 DEF LaterInv, LaterTyped, LaterRows, LaterCalls
    <3>4. e \in LaterEvents
      BY <3>2, <3>3 DEF LaterEvents, LaterCalls
    <3>5. a1' \in Seq(LaterEvents)
          /\ \A d \in DOMAIN a5 : CrossedIn(a1, a5, d) => CrossedIn(a1', a5, d)
      BY <1>1, <3>1, <3>4
    <3>6. a5' \in Seq(LaterRows)
      BY <3>1, <3>3
    <3>7. LaterTyped'
      BY <2>1, <3>5, <3>6 DEF LaterInv, LaterTyped
    <3>8. /\ \A d \in DOMAIN a5 : d \in DOMAIN a5' /\ a5'[d] = a5[d]
          /\ new \in DOMAIN a5' /\ a5'[new] = row
          /\ \A d \in DOMAIN a5' : d \in DOMAIN a5 \/ d = new
      BY <3>1, <3>3
    <3>9. LaterRefs'
      <4>1. \A n \in DOMAIN a1' : (n \in DOMAIN a1 /\ a1'[n] = a1[n]) \/ a1'[n] = e
        BY <3>1 DEF LaterInv, LaterTyped
      <4> QED BY <3>8, <4>1 DEF LaterInv, LaterRefs
    <3>10. \A d \in DOMAIN a5 : CrossedIn(a1, a5, d) => CrossedIn(a1', a5', d)
      BY <3>5, <3>8 DEF CrossedIn
    <3>11. \A d \in DOMAIN a5 :
             a5[d].key = call.key /\ a5[d].scope = call.scope =>
                /\ call.scope = "LATER_THIS_SONG" =>
                      a5[d].song # call.song \/ a5[d].session # call.session
                /\ call.scope = "NEXT_SONG" => a5[d].song # call.song \/ CrossedIn(a1, a5, d)
                /\ call.scope # "NEVER_SUGGEST_AGAIN"
      <4>1. \A d \in DOMAIN a5 : Later!Crossed(d) <=> CrossedIn(a1, a5, d)
        BY DEF Later!Crossed, CrossedIn, Later!Events, Later!Selections
      <4> QED BY <3>1, <4>1 DEF Later!Existing, Later!Deferrals
    <3>12. HorizonIn(a1', a5')
      <4> SUFFICES ASSUME NEW c \in DOMAIN a5', NEW d \in DOMAIN a5', c # d
                   PROVE  ApartIn(a1', a5', c, d)
        BY DEF HorizonIn
      <4>1. CASE c \in DOMAIN a5 /\ d \in DOMAIN a5
        <5>1. ApartIn(a1, a5, c, d)
          BY <1>2, <4>1 DEF HorizonIn
        <5> QED BY <3>8, <3>10, <4>1, <5>1 DEF ApartIn
      <4>2. CASE c = new /\ d \in DOMAIN a5
        BY <3>8, <3>10, <3>11, <4>2 DEF ApartIn
      <4>3. CASE d = new /\ c \in DOMAIN a5
        BY <3>8, <3>10, <3>11, <4>3 DEF ApartIn
      <4> QED BY <3>8, <4>1, <4>2, <4>3
    <3> QED BY <1>3, <2>2, <3>7, <3>9, <3>12 DEF LaterInv
  <2> QED BY <2>3, <2>4
<1> QED BY <1>4, <1>5, <1>6, LaterSteps

\* lineage.py: the Song selected last, of the activity; and suggestion_deferral.py:
\* is_deferred_now, of the rows that it reads.
ChosenIn(acts) == {n \in DOMAIN acts : acts[n].event = "SONG_SELECTED"}
ActiveIn(acts) ==
    IF ChosenIn(acts) = {} THEN "none"
    ELSE acts[CHOOSE n \in ChosenIn(acts) : \A m \in ChosenIn(acts) : m <= n].song
ForceIn(acts, sessionsOf, table, song, d) ==
    \/ table[d].scope = "NEVER_SUGGEST_AGAIN"
    \/ table[d].scope = "NEXT_SONG" /\ ~CrossedIn(acts, table, d)
    \/ /\ table[d].scope = "LATER_THIS_SONG"
       /\ table[d].song = song /\ table[d].session = Len(sessionsOf[song]) /\ table[d].session # 0
HeededIn(acts, sessionsOf, table, song) ==
    song # "none" /\ \E d \in DOMAIN table :
                        table[d].key = "key" /\ ForceIn(acts, sessionsOf, table, song, d)

\* lineage.py: only a selection changes which Song is active, and makes it its own.
LEMMA ActiveAfter ==
  ASSUME NEW acts \in Seq(LaterEvents), NEW e \in LaterEvents
  PROVE  ActiveIn(Append(acts, e)) =
            IF e.event = "SONG_SELECTED" THEN e.song ELSE ActiveIn(acts)
<1> DEFINE more == Append(acts, e)
           k == Len(acts) + 1
<1>1. /\ DOMAIN acts = 1..Len(acts) /\ Len(acts) \in Nat
      /\ DOMAIN more = 1..k /\ more[k] = e
      /\ \A n \in DOMAIN acts : n \in DOMAIN more /\ more[n] = acts[n]
      /\ \A n \in DOMAIN more : n \in DOMAIN acts \/ n = k
  OBVIOUS
<1> HIDE DEF more
<1>2. CASE e.event = "SONG_SELECTED"
  <2>1. k \in ChosenIn(more) /\ \A m \in ChosenIn(more) : m <= k /\ m \in Nat
    BY <1>1, <1>2 DEF ChosenIn
  <2>2. PICK n : n = CHOOSE j \in ChosenIn(more) : \A m \in ChosenIn(more) : m <= j
    OBVIOUS
  <2>3. n \in ChosenIn(more) /\ \A m \in ChosenIn(more) : m <= n
    BY <2>1, <2>2
  <2>4. n = k
    BY <2>1, <2>3
  <2>5. ActiveIn(more) = more[n].song
    BY <2>1, <2>2 DEF ActiveIn
  <2> QED BY <1>1, <1>2, <2>4, <2>5 DEF more
<1>3. CASE e.event # "SONG_SELECTED"
  <2>1. ChosenIn(more) = ChosenIn(acts)
    BY <1>1, <1>3 DEF ChosenIn
  <2>2. CASE ChosenIn(acts) = {}
    BY <1>3, <2>1, <2>2 DEF ActiveIn, more
  <2>3. CASE ChosenIn(acts) # {}
    <3>1. \E n \in ChosenIn(acts) : \A m \in ChosenIn(acts) : m <= n
      <4>1. ChosenIn(acts) \subseteq 0..Len(acts)
        BY <1>1 DEF ChosenIn
      <4> QED BY <1>1, <2>3, <4>1, Largest
    <3>2. PICK n : n = CHOOSE j \in ChosenIn(acts) : \A m \in ChosenIn(acts) : m <= j
      OBVIOUS
    <3>3. n \in DOMAIN acts
      BY <3>1, <3>2 DEF ChosenIn
    <3>4. ActiveIn(acts) = acts[n].song /\ ActiveIn(more) = more[n].song
      BY <2>1, <2>3, <3>2 DEF ActiveIn
    <3> QED BY <1>1, <1>3, <3>3, <3>4 DEF more
  <2> QED BY <2>2, <2>3
<1> QED BY <1>2, <1>3

\* suggestion_deferral.defer and is_deferred_now: a suggestion put off is out of sight when the
\* call returns, and comes back only with another Song or another session.
LEMMA LaterOutcomes ==
  ASSUME LaterInv, Later!Next
  PROVE  Later!ADeferralIsHeeded
<1> DEFINE now == Later!ActiveSong
           then == Later!ActiveSong'
           before == HeededIn(a1, a2, a5, now)
           after == HeededIn(a1', a2', a5', then)
<1>1. LaterInv' /\ now = ActiveIn(a1) /\ then = ActiveIn(a1')
  BY LaterKeeps DEF Later!ActiveSong, Later!Selections, Later!Events, ActiveIn, ChosenIn
<1>2. /\ \A d \in DOMAIN a5 : /\ Later!Crossed(d) <=> CrossedIn(a1, a5, d)
                              /\ a5[d] \in LaterRows
      /\ \A d \in DOMAIN a5' : /\ Later!Crossed(d)' <=> CrossedIn(a1', a5', d)
                               /\ a5'[d] \in LaterRows
  BY <1>1 DEF Later!Crossed, CrossedIn, Later!Events, Later!Selections, LaterInv, LaterTyped
<1>3. Later!IsDeferredNow("key") <=> before
  BY <1>2 DEF Later!IsDeferredNow, HeededIn, ForceIn, Later!Deferrals, LaterRows, Later!Scopes,
     Later!LatestSession
<1>4. Later!IsDeferredNow("key")' <=> after
  BY <1>2 DEF Later!IsDeferredNow, HeededIn, ForceIn, Later!Deferrals, LaterRows, Later!Scopes,
     Later!LatestSession
<1> HIDE DEF now, then
<1>5. SUFFICES /\ \A call \in a6 \ a6' :
                     now = call.song /\ Later!LatestSession(call.song) = call.session => after
               /\ before /\ then = now /\ a2' = a2 => after
  <2>1. \A call \in a6 : call.key = "key"
    BY DEF LaterInv, LaterTyped, LaterCalls
  <2> QED BY <1>3, <1>4, <2>1 DEF Later!ADeferralIsHeeded, now, then
<1>6. a1 \in Seq(LaterEvents) /\ a5 \in Seq(LaterRows)
  BY DEF LaterInv, LaterTyped
<1>7. ASSUME NEW song \in {"s1", "s2"}, LaterSelects(song) PROVE then # now /\ a6' = a6
  <2> DEFINE e == [event |-> "SONG_SELECTED", song |-> song, ref |-> 0]
  <2>1. e \in LaterEvents /\ a1' = Append(a1, e) /\ song # now /\ a6' = a6
    BY <1>7 DEF LaterSelects, LaterEvents, now
  <2> QED BY <1>1, <1>6, <2>1, ActiveAfter
<1>8. CASE LaterWorks \/ LaterAsks \/ UNCHANGED <<a1, a2, a3, a4, a5, a6>>
  BY <1>8 DEF LaterWorks, LaterAsks
<1>9. ASSUME NEW call \in a6, Later!Defer(call)
      PROVE  /\ now = call.song /\ Later!LatestSession(call.song) = call.session => after
             /\ before => after
             /\ a6' = a6 \ {call}
  <2>1. a6' = a6 \ {call} /\ a2' = a2 /\ call \in LaterCalls
    BY <1>9 DEF Later!Defer, LaterInv, LaterTyped
  <2>2. /\ call.scope = "LATER_THIS_SONG" => call.session # 0
        /\ call.song # "none"
        /\ Later!LatestSession(call.song) = Len(a2[call.song])
        /\ call.scope \in {"LATER_THIS_SONG", "NEXT_SONG", "NEVER_SUGGEST_AGAIN"}
        /\ call.key = "key"
    BY <2>1 DEF LaterInv, LaterSessions, LaterCalls, Later!LatestSession, Later!Scopes
  <2>3. CASE a5' = a5 /\ a1' = a1
    <3>1. then = now
      BY <1>1, <2>3
    <3>2. Later!Existing(call) # {}
      <4>1. ASSUME NEW row, Len(a5) \in Nat, a5' = Append(a5, row) PROVE FALSE
        <5>1. Len(a5') = Len(a5) + 1
          BY <1>6, <4>1
        <5> QED BY <2>3, <4>1, <5>1
      <4> QED BY <1>6, <1>9, <4>1 DEF Later!Defer
    <3>3. PICK d \in DOMAIN a5 :
             /\ a5[d].key = call.key /\ a5[d].scope = call.scope
             /\ call.scope = "LATER_THIS_SONG" => a5[d].song = call.song
                                                     /\ a5[d].session = call.session
             /\ call.scope = "NEXT_SONG" => ~CrossedIn(a1, a5, d)
      BY <1>2, <2>2, <3>2 DEF Later!Existing, Later!Deferrals
    <3>4. now = call.song /\ Later!LatestSession(call.song) = call.session
              => HeededIn(a1, a2, a5, now)
      BY <2>2, <3>3 DEF HeededIn, ForceIn
    <3> QED BY <2>1, <2>3, <3>1, <3>4
  <2>4. CASE ~(a5' = a5 /\ a1' = a1)
    <3> DEFINE row == [key |-> call.key, scope |-> call.scope, song |-> call.song,
                       session |-> call.session]
               new == Len(a5) + 1
               e == [event |-> "SUGGESTION_DEFERRED", song |-> call.song, ref |-> new]
    <3>1. a5' = Append(a5, row) /\ a1' = Append(a1, e)
      BY <1>9, <2>4 DEF Later!Defer
    <3>2. e \in LaterEvents /\ new \in Nat
      BY <1>6, <2>1 DEF LaterEvents, LaterCalls
    <3>3. then = now
      BY <1>1, <1>6, <3>1, <3>2, ActiveAfter
    <3>4. /\ \A d \in DOMAIN a5 : d \in DOMAIN a5' /\ a5'[d] = a5[d] /\ d # new
          /\ new \in DOMAIN a5' /\ a5'[new] = row
      BY <1>6, <3>1
    <3>5. /\ \A n \in DOMAIN a1' : \/ n \in DOMAIN a1 /\ a1'[n] = a1[n] /\ n < Len(a1) + 1
                                   \/ n = Len(a1) + 1 /\ a1'[n] = e
      BY <1>6, <3>1
    <3>6. \A d \in DOMAIN a5 : CrossedIn(a1', a5', d) => CrossedIn(a1, a5, d)
      BY <1>6, <3>4, <3>5 DEF CrossedIn
    <3>7. ~CrossedIn(a1', a5', new)
      <4>1. \A n \in DOMAIN a1 : a1[n].event = "SUGGESTION_DEFERRED" => a1[n].ref # new
        BY <3>4 DEF LaterInv, LaterRefs
      <4> QED BY <1>6, <3>5, <4>1 DEF CrossedIn
    <3>8. before => after
      BY <2>1, <3>3, <3>4, <3>6 DEF HeededIn, ForceIn
    <3>9. now = call.song /\ Later!LatestSession(call.song) = call.session => after
      BY <2>1, <2>2, <3>3, <3>4, <3>7 DEF HeededIn, ForceIn
    <3> QED BY <2>1, <3>8, <3>9
  <2> QED BY <2>3, <2>4
<1>10. CASE LaterAsks \/ UNCHANGED <<a1, a2, a3, a4, a5, a6>>
  BY <1>1, <1>10 DEF LaterAsks
<1> QED
  <2>1. [Later!Next]_(Later!vars)
    OBVIOUS
  <2> QED BY <1>7, <1>8, <1>9, <1>10, <2>1, LaterSteps DEF LaterWorks

-----------------------------------------------------------------------------
(* The memories together, and what the run checks of them.                  *)

MemoryInit ==
    /\ \/ /\ focus \in {"journal", "splits", "handoffs", "packages", "identities", "revisions",
                        "obligations", "sessions", "places", "cases", "opportunities"}
          /\ a1 = 0 /\ a2 = 0 /\ a3 = 0 /\ a4 = 0 /\ a5 = 0 /\ a6 = 0
       \/ focus = "careers" /\ Career!Init
       \/ focus = "episodes" /\ Episode!Init
       \/ focus = "skills" /\ Skill!Init
       \/ focus = "deferrals" /\ Later!Init
    /\ Init /\ Splits!Init /\ Hand!Init /\ Pack!Init /\ Id!Init /\ Owe!Init /\ Sess!Init
    /\ Cases!Init

\* What the behaviours about one memory leave alone.
Apart == <<splitVars, handoffVars, packageVars, identityVars>>

StoreNext ==
    \/ /\ focus = "journal" /\ Next
       /\ UNCHANGED <<Apart, evidenceVars, owedVars, sessionVars, hostVars>>
    \/ /\ focus = "splits" /\ Splits!Next
       /\ UNCHANGED <<vars, handoffVars, packageVars, identityVars>>
       /\ UNCHANGED <<evidenceVars, owedVars, sessionVars, hostVars>>
    \/ /\ focus = "handoffs" /\ Hand!Next
       /\ UNCHANGED <<vars, splitVars, packageVars, identityVars>>
       /\ UNCHANGED <<evidenceVars, owedVars, sessionVars, hostVars>>
    \/ /\ focus = "packages" /\ Pack!Next
       /\ UNCHANGED <<vars, splitVars, handoffVars, identityVars>>
       /\ UNCHANGED <<evidenceVars, owedVars, sessionVars, hostVars>>
    \/ /\ focus = "identities" /\ Id!Next
       /\ UNCHANGED <<vars, splitVars, handoffVars, packageVars>>
       /\ UNCHANGED <<evidenceVars, owedVars, sessionVars, hostVars>>
    \/ /\ focus = "revisions" /\ Prof!Next
       /\ UNCHANGED <<vars, Apart, owedVars, sessionVars, hostVars>>
    \/ /\ focus = "obligations" /\ Owe!Next
       /\ UNCHANGED <<vars, Apart, sessionVars, hostVars>>
    \/ /\ focus = "sessions" /\ Sess!Next
       /\ UNCHANGED <<vars, Apart, owedVars, hostVars>>
    \/ /\ focus = "places" /\ Places!Next
       /\ UNCHANGED <<vars, Apart, owedVars, sessionVars>>
    \/ /\ focus = "cases" /\ Cases!Next
       /\ UNCHANGED <<vars, Apart, owedVars, sessionVars>>
    \/ /\ focus = "opportunities" /\ Opp!Next
       /\ UNCHANGED <<vars, Apart, owedVars, sessionVars, hostVars>>

PartNext ==
    \/ focus = "careers" /\ Career!Next
    \/ focus = "episodes" /\ Episode!Next
    \/ focus = "skills" /\ Skill!Next
    \/ focus = "deferrals" /\ Later!Next

storeVars == <<vars, Apart, evidenceVars, owedVars, sessionVars, hostVars>>
MemoryNext ==
    \/ StoreNext /\ UNCHANGED <<focus, partVars>>
    \/ PartNext /\ UNCHANGED <<focus, storeVars>>

MemorySpec == MemoryInit /\ [][MemoryNext]_<<focus, storeVars, partVars>>

\* The rows of each memory are of its types.
WellTyped ==
    /\ TypeOK
    /\ focus = "splits" => Splits!TypeOK
    /\ focus = "handoffs" => Hand!TypeOK
    /\ focus = "packages" => Pack!TypeOK
    /\ focus = "identities" => Id!TypeOK
    /\ focus = "obligations" => Owe!TypeOK
    /\ focus = "sessions" => Sess!TypeOK
    /\ focus = "places" => Places!TypeOK
    /\ focus = "cases" => Cases!TypeOK
    /\ focus = "opportunities" => Opp!TypeOK

\* Calls that all looked before any of them wrote leave every memory as its
\* _validate_existing requires, so that the profile opens again: all but one, the captures,
\* when two set_status calls of one capture crossed (see OneCurrentCapture).
EveryMemoryOpens ==
    /\ WellTyped
    /\ JournalOpens /\ Splits!SplitsOpen /\ Hand!HandoffsOpen /\ Pack!PackagesOpen
    /\ Id!IdentitiesOpen /\ Owe!ObligationsOpen
    /\ focus = "sessions" => Sess!SessionsOpen
    /\ focus \in {"places", "cases"} => Cases!HostMemoryOpens
    /\ focus = "opportunities" => Opp!OpportunitiesOpen
    /\ focus = "careers" => Career!NothingUnreviewedIsReplaced

\* capture_opportunities.py: a capture has one current revision; see Opportunities.
OneCurrentCapture == focus = "opportunities" => Opp!OneCurrentRevision

\* What a memory calls an outcome is recorded once and stands: an operation's, accepted
\* and closed handoffs, revocations and resolutions, terminal obligations and closed follow-ups,
\* ended sessions.  A stage of a career and a deferral stand as long as
\* what gave them does.
OutcomesStand ==
    /\ OutcomeStands
    /\ Hand!HandoffOutcomesStand /\ Pack!PackageOutcomesStand /\ Owe!ObligationOutcomesStand
    /\ Sess!SessionOutcomesStand
    /\ [][/\ focus = "careers" => Career!AStageIsEarned
          /\ focus = "deferrals" => Later!ADeferralIsHeeded]_<<focus, partVars>>

\* What two calls race for happens once: an operation and its execution for a key, a
\* promotion of an item, a workspace at a place, a deferral until the same moment.
OnceInARace ==
    /\ OneOperationPerKey /\ ClaimedOnce
    /\ focus = "sessions" => Sess!PromotedOnce
    /\ focus \in {"places", "cases"} => Places!OneWorkspacePerLocation
    /\ focus = "deferrals" => Later!OneHorizon

\* Nothing is written past a decision that was there when it was written: no share of a
\* split that all have confirmed moves, no feedback follows a revocation, no capture that was
\* dismissed is open again, and an artist's judgement is of what was on the page.
DecisionsHold ==
    /\ Splits!ConfirmedSharesStand /\ Pack!NoFeedbackAfterRevocation
    /\ focus = "opportunities" => Opp!ClosedCapturesStay
    /\ focus = "episodes" => Episode!JudgedAsSeen
    /\ focus = "skills" => Skill!JudgedAsSeen

\* What a memory answers is what its rows say now, whatever raced while they were
\* written: current handoffs, revisions that can be read, evidence and decided cases,
\* opportunities that are ready to decide and offers that can be reviewed.
ReadsAreTrue ==
    /\ Hand!CurrentMeansExact
    /\ focus = "revisions" => Prof!ReadableIsLawful
    /\ focus = "obligations" => Owe!EvidenceNeverVanishes
    /\ focus = "cases" => Cases!DecidedIsNow
    /\ focus = "opportunities" => Opp!AdviceIsCurrent
    /\ focus = "careers" => Career!EvidenceRunsOut

\* person_identity.py: see PersonIdentity and IdentityLink.
ImplementsIdentityLink == Id!ImplementsIdentityLink

-----------------------------------------------------------------------------
(* The memories of a profile, together: a behaviour about one of them is a  *)
(* behaviour of that one, and leaves the others as they were.               *)

\* The invariant of the memory a behaviour is about.  Some hold of any behaviour, because what
\* they are of is changed by no other memory.
MemoryInv ==
    /\ JInv /\ SplitInv /\ HandInv /\ PackInv /\ IdInv
    /\ focus = "revisions" => ProfInv
    /\ focus = "obligations" => OweInv
    /\ focus # "obligations" => obligations = [o \in Owed |-> Owe!NoObligation]
    /\ focus = "sessions" => SessInv
    /\ focus = "places" => PlacesInv
    /\ focus = "cases" => CasesInv
    /\ focus = "opportunities" => OppInv /\ CrossInv
    /\ focus = "careers" => CareerInv
    /\ focus = "episodes" => EpisodeInv
    /\ focus = "skills" => SkillInv
    /\ focus = "deferrals" => LaterInv

\* A step is one of the memory that the behaviour is about.
StoresApart ==
    /\ focus' = focus
    /\ [Next]_vars /\ [Splits!Next]_(Splits!vars) /\ [Hand!Next]_(Hand!vars)
    /\ [Pack!Next]_(Pack!vars) /\ [Id!Next]_(Id!vars)
    /\ focus = "revisions" => [Prof!Next]_(Prof!vars)
    /\ focus = "obligations" => [Owe!Next]_(Owe!vars)
    /\ focus # "obligations" => UNCHANGED owedVars
    /\ focus = "sessions" => [Sess!Next]_(Sess!vars)
    /\ focus # "sessions" => UNCHANGED sessionVars
    /\ focus = "places" => [Places!Next]_(Places!vars)
    /\ focus = "cases" => [Cases!Next]_(Cases!vars)
    /\ focus = "opportunities" => [Opp!Next]_(Opp!vars)
PartsApart ==
    /\ focus = "careers" => [Career!Next]_(Career!vars)
    /\ focus = "episodes" => [Episode!Next]_(Episode!vars)
    /\ focus = "skills" => [Skill!Next]_(Skill!vars)
    /\ focus = "deferrals" => [Later!Next]_(Later!vars)

\* Every memory starts as its module says.
LEMMA MemoriesStart ==
  ASSUME MemoryInit
  PROVE  /\ Init /\ Splits!Init /\ Hand!Init /\ Pack!Init /\ Id!Init /\ Prof!Init /\ Owe!Init
         /\ Sess!Init /\ Places!Init /\ Cases!Init /\ Opp!Init
         /\ focus = "careers" => Career!Init
         /\ focus = "episodes" => Episode!Init
         /\ focus = "skills" => Skill!Init
         /\ focus = "deferrals" => Later!Init
<1>1. /\ Init /\ Splits!Init /\ Hand!Init /\ Pack!Init /\ Id!Init /\ Owe!Init /\ Sess!Init
      /\ Cases!Init
  BY DEF MemoryInit
<1>2. Prof!Init /\ Places!Init /\ Opp!Init
  BY <1>1 DEF Cases!Init, Cases!EvidenceInit, Places!Init, Places!EvidenceInit, Prof!Init,
     Prof!EvidenceInit, Opp!Init, Opp!EvidenceInit
<1>3. /\ focus = "careers" => Career!Init
      /\ focus = "episodes" => Episode!Init
      /\ focus = "skills" => Skill!Init
      /\ focus = "deferrals" => Later!Init
  BY DEF MemoryInit
<1> QED BY <1>1, <1>2, <1>3

\* The invariant holds at first.
LEMMA MemoryInvStarts == MemoryInit => MemoryInv
<1> SUFFICES ASSUME MemoryInit PROVE MemoryInv
  OBVIOUS
<1>1. JInv /\ SplitInv /\ HandInv /\ PackInv /\ IdInv
  BY MemoriesStart, JInvInit, SplitStarts, HandStarts, PackStarts, IdStarts
<1>2. ProfInv /\ OweInv /\ SessInv /\ PlacesInv /\ CasesInv /\ OppInv /\ CrossInv
  BY MemoriesStart, ProfStarts, OweStarts, SessStarts, PlacesStart, CasesStart, OppStarts, CrossStarts
<1>3. obligations = [o \in Owed |-> Owe!NoObligation]
  BY MemoriesStart DEF Owe!Init
<1>4. /\ focus = "careers" => CareerInv
      /\ focus = "episodes" => EpisodeInv
      /\ focus = "skills" => SkillInv
      /\ focus = "deferrals" => LaterInv
  BY MemoriesStart, CareerStarts, EpisodeStarts, SkillStarts, LaterStarts
<1> QED BY <1>1, <1>2, <1>3, <1>4 DEF MemoryInv

\* A step of a memory is one of StoresApart: the variables of the others are those it leaves.
LEMMA StoreStepsAreApart ==
  ASSUME StoreNext, UNCHANGED <<focus, partVars>>
  PROVE  StoresApart
<1> USE DEF vars, Apart, splitVars, handoffVars, packageVars, identityVars, evidenceVars, owedVars,
            sessionVars, hostVars, Splits!vars, Hand!vars, Pack!vars, Id!vars
<1>0. focus' = focus
  OBVIOUS
<1>1. CASE focus = "journal" /\ Next
           /\ UNCHANGED <<Apart, evidenceVars, owedVars, sessionVars, hostVars>>
  BY <1>0, <1>1 DEF StoresApart
<1>2. CASE focus = "splits" /\ Splits!Next
           /\ UNCHANGED <<vars, handoffVars, packageVars, identityVars>>
           /\ UNCHANGED <<evidenceVars, owedVars, sessionVars, hostVars>>
  BY <1>0, <1>2 DEF StoresApart
<1>3. CASE focus = "handoffs" /\ Hand!Next
           /\ UNCHANGED <<vars, splitVars, packageVars, identityVars>>
           /\ UNCHANGED <<evidenceVars, owedVars, sessionVars, hostVars>>
  BY <1>0, <1>3 DEF StoresApart
<1>4. CASE focus = "packages" /\ Pack!Next
           /\ UNCHANGED <<vars, splitVars, handoffVars, identityVars>>
           /\ UNCHANGED <<evidenceVars, owedVars, sessionVars, hostVars>>
  BY <1>0, <1>4 DEF StoresApart
<1>5. CASE focus = "identities" /\ Id!Next
           /\ UNCHANGED <<vars, splitVars, handoffVars, packageVars>>
           /\ UNCHANGED <<evidenceVars, owedVars, sessionVars, hostVars>>
  BY <1>0, <1>5 DEF StoresApart
<1>6. CASE focus = "revisions" /\ Prof!Next
           /\ UNCHANGED <<vars, Apart, owedVars, sessionVars, hostVars>>
  BY <1>0, <1>6 DEF StoresApart
<1>7. CASE focus = "obligations" /\ Owe!Next /\ UNCHANGED <<vars, Apart, sessionVars, hostVars>>
  BY <1>0, <1>7 DEF StoresApart
<1>8. CASE focus = "sessions" /\ Sess!Next /\ UNCHANGED <<vars, Apart, owedVars, hostVars>>
  BY <1>0, <1>8 DEF StoresApart
<1>9. CASE focus = "places" /\ Places!Next /\ UNCHANGED <<vars, Apart, owedVars, sessionVars>>
  BY <1>0, <1>9 DEF StoresApart
<1>10. CASE focus = "cases" /\ Cases!Next /\ UNCHANGED <<vars, Apart, owedVars, sessionVars>>
  BY <1>0, <1>10 DEF StoresApart
<1>11. CASE focus = "opportunities" /\ Opp!Next
            /\ UNCHANGED <<vars, Apart, owedVars, sessionVars, hostVars>>
  BY <1>0, <1>11 DEF StoresApart
<1> QED
  BY <1>1, <1>2, <1>3, <1>4, <1>5, <1>6, <1>7, <1>8, <1>9, <1>10, <1>11 DEF StoreNext

\* Whatever step is taken, it is one of the memory the behaviour is about.
LEMMA StepsAreApart ==
  ASSUME [MemoryNext]_<<focus, storeVars, partVars>>
  PROVE  StoresApart /\ PartsApart
<1>1. ASSUME UNCHANGED <<focus, storeVars>>
      PROVE  StoresApart
  BY <1>1 DEF StoresApart, storeVars, vars, Apart, splitVars, handoffVars, packageVars,
     identityVars, evidenceVars, owedVars, sessionVars, hostVars, Splits!vars, Hand!vars,
     Pack!vars, Id!vars, Prof!vars, Owe!vars, Sess!vars, Places!vars, Cases!vars, Opp!vars
<1>2. ASSUME UNCHANGED <<focus, partVars>>
      PROVE  PartsApart
  BY <1>2 DEF PartsApart, partVars, Career!vars, Episode!vars, Skill!vars, Later!vars
<1>3. CASE StoreNext /\ UNCHANGED <<focus, partVars>>
  BY <1>2, <1>3, StoreStepsAreApart
<1>4. CASE PartNext /\ UNCHANGED <<focus, storeVars>>
  <2>1. PartsApart
    BY <1>4 DEF PartNext, PartsApart
  <2> QED BY <1>1, <1>4, <2>1
<1>5. CASE UNCHANGED <<focus, storeVars, partVars>>
  BY <1>1, <1>2, <1>5
<1> QED BY <1>3, <1>4, <1>5 DEF MemoryNext

\* Every step keeps the invariant of the memory it is about, and of the others.
LEMMA MemoryInvKeeps ==
  ASSUME MemoryInv, [MemoryNext]_<<focus, storeVars, partVars>>
  PROVE  MemoryInv'
<1>1. StoresApart /\ PartsApart
  BY StepsAreApart
<1>2. JInv' /\ SplitInv' /\ HandInv' /\ PackInv' /\ IdInv'
  BY <1>1, JInvStep, SplitKeeps, HandKeeps, PackKeeps, IdKeeps DEF MemoryInv, StoresApart
<1>3. focus' = focus
  BY <1>1 DEF StoresApart
<1>4. /\ focus = "revisions" => ProfInv'
      /\ focus = "obligations" => OweInv'
      /\ focus = "sessions" => SessInv'
  BY <1>1, ProfKeeps, OweKeeps, SessKeeps DEF MemoryInv, StoresApart
<1>5. /\ focus = "places" => PlacesInv'
      /\ focus = "cases" => CasesInv'
      /\ focus = "opportunities" => OppInv' /\ CrossInv'
  BY <1>1, PlacesKeep, CasesKeep, OppKeeps, CrossKeeps DEF MemoryInv, StoresApart
<1>6. focus # "obligations" => obligations' = [o \in Owed |-> Owe!NoObligation]
  BY <1>1 DEF MemoryInv, StoresApart, owedVars
<1>7. /\ focus = "careers" => CareerInv'
      /\ focus = "episodes" => EpisodeInv'
      /\ focus = "skills" => SkillInv'
      /\ focus = "deferrals" => LaterInv'
  BY <1>1, CareerKeeps, EpisodeKeeps, SkillKeeps, LaterKeeps DEF MemoryInv, PartsApart
<1> QED BY <1>2, <1>3, <1>4, <1>5, <1>6, <1>7 DEF MemoryInv

\* The inductive invariant of the memories, whatever calls cross in any of them.
THEOREM MemoryInvariance == MemorySpec => []MemoryInv
  BY MemoryInvStarts, MemoryInvKeeps, PTL DEF MemorySpec

\* Calls that all looked before any of them wrote leave a profile that every memory's
\* _validate_existing accepts, of rows that are of their types.
THEOREM EveryMemoryAlwaysOpens == MemorySpec => []EveryMemoryOpens
<1>1. MemoryInv => EveryMemoryOpens
  <2> SUFFICES ASSUME MemoryInv PROVE EveryMemoryOpens
    OBVIOUS
  <2>1. TypeOK /\ JournalOpens
    BY JInvMeans DEF MemoryInv, JInv
  <2>2. /\ Splits!TypeOK /\ Splits!SplitsOpen /\ Hand!TypeOK /\ Hand!HandoffsOpen
        /\ Pack!TypeOK /\ Pack!PackagesOpen /\ Id!TypeOK /\ Id!IdentitiesOpen
    BY SplitsAreTrue, HandoffsAreTrue, PackagesAreTrue, IdentitiesAreTrue DEF MemoryInv
  <2>3. Owe!ObligationsOpen /\ (focus = "obligations" => Owe!TypeOK)
    <3>1. CASE focus = "obligations"
      BY <3>1, ObligationsAreTrue DEF MemoryInv
    <3>2. CASE focus # "obligations"
      <4>1. Owe!Made = {}
        BY <3>2 DEF MemoryInv, Owe!Made
      <4> QED BY <3>2, <4>1 DEF Owe!ObligationsOpen
    <3> QED BY <3>1, <3>2
  <2>4. focus = "sessions" => Sess!TypeOK /\ Sess!SessionsOpen
    BY SessMeans DEF MemoryInv
  <2>5. /\ focus = "places" => Places!TypeOK /\ Cases!HostMemoryOpens
        /\ focus = "cases" => Cases!TypeOK /\ Cases!HostMemoryOpens
    BY PlacesAreTrue, CasesAreTrue DEF MemoryInv
  <2>6. focus = "opportunities" => Opp!TypeOK /\ Opp!OpportunitiesOpen
    BY OpportunitiesAreTrue DEF MemoryInv
  <2>7. focus = "careers" => Career!NothingUnreviewedIsReplaced
    BY CareersAreTrue DEF MemoryInv
  <2> QED BY <2>1, <2>2, <2>3, <2>4, <2>5, <2>6, <2>7 DEF EveryMemoryOpens, WellTyped
<1> QED BY <1>1, MemoryInvariance, PTL

\* What two calls race for happens once: an operation and its execution for a key, a promotion
\* of an item, a workspace at a place, a deferral until the same moment.
THEOREM OnceInEveryRace == MemorySpec => []OnceInARace
<1>1. MemoryInv => OnceInARace
  <2> SUFFICES ASSUME MemoryInv PROVE OnceInARace
    OBVIOUS
  <2>1. OneOperationPerKey /\ ClaimedOnce
    BY JInvMeans DEF MemoryInv
  <2>2. focus = "sessions" => Sess!PromotedOnce
    BY SessMeans DEF MemoryInv
  <2>3. focus \in {"places", "cases"} => Places!OneWorkspacePerLocation
    BY PlacesAreTrue, CasesAreTrue DEF MemoryInv
  <2>4. focus = "deferrals" => Later!OneHorizon
    BY DEF MemoryInv, LaterInv
  <2> QED BY <2>1, <2>2, <2>3, <2>4 DEF OnceInARace
<1> QED BY <1>1, MemoryInvariance, PTL

\* Nothing is written past a decision that was there when it was written: of a split, a revoked
\* package, a closed capture, and of what an artist has judged.
THEOREM DecisionsAlwaysHold == MemorySpec => []DecisionsHold
<1>1. MemoryInv => DecisionsHold
  <2> SUFFICES ASSUME MemoryInv PROVE DecisionsHold
    OBVIOUS
  <2>1. Splits!ConfirmedSharesStand /\ Pack!NoFeedbackAfterRevocation
    BY SplitsAreTrue, PackagesAreTrue DEF MemoryInv
  <2>2. focus = "opportunities" => Opp!ClosedCapturesStay
    BY OpportunitiesAreTrue DEF MemoryInv
  <2>3. /\ focus = "episodes" => Episode!JudgedAsSeen
        /\ focus = "skills" => Skill!JudgedAsSeen
    BY EpisodesAreTrue, SkillsAreTrue DEF MemoryInv
  <2> QED BY <2>1, <2>2, <2>3 DEF DecisionsHold
<1> QED BY <1>1, MemoryInvariance, PTL

\* What a memory answers is what its rows say now, whatever raced while they were written:
\* handoffs, revisions, evidence, cases, opportunities and offers.
THEOREM ReadsAreAlwaysTrue == MemorySpec => []ReadsAreTrue
<1>1. MemoryInv => ReadsAreTrue
  <2> SUFFICES ASSUME MemoryInv PROVE ReadsAreTrue
    OBVIOUS
  <2>1. Hand!CurrentMeansExact
    BY HandoffsAreTrue DEF MemoryInv
  <2>2. /\ focus = "revisions" => Prof!ReadableIsLawful
        /\ focus = "obligations" => Owe!EvidenceNeverVanishes
    BY RevisionsAreLawful, ObligationsAreTrue DEF MemoryInv
  <2>3. /\ focus = "cases" => Cases!DecidedIsNow
        /\ focus = "opportunities" => Opp!AdviceIsCurrent
        /\ focus = "careers" => Career!EvidenceRunsOut
    BY CasesAreTrue, OpportunitiesAreTrue, CareersAreTrue DEF MemoryInv
  <2> QED BY <2>1, <2>2, <2>3 DEF ReadsAreTrue
<1> QED BY <1>1, MemoryInvariance, PTL

\* Seen from the operation journal, a behaviour of the memories is one of the journal; seen from
\* person_identity.py, it is one of the reviews.
THEOREM JournalIsAMemory == MemorySpec => Spec /\ Id!Spec
<1>1. MemoryInit => Init /\ Id!Init
  BY MemoriesStart
<1>2. [MemoryNext]_<<focus, storeVars, partVars>> => [Next]_vars /\ [Id!Next]_(Id!vars)
  BY StepsAreApart DEF StoresApart
<1> QED BY <1>1, <1>2, PTL DEF MemorySpec, Spec, Id!Spec

\* The outcomes of each memory stand: of operations, handoffs, packages, obligations, sessions,
\* the stages of a career and what was put off.
THEOREM MemoryOutcomesStand == MemorySpec => OutcomesStand
<1>1. MemorySpec => OutcomeStands
  BY JournalIsAMemory, OutcomesAreKept, PTL
<1> DEFINE HandBody == \A h \in Hand!Made :
               /\ handoffs[h].state \in Hand!Terminal => handoffs'[h] = handoffs[h]
               /\ handoffs[h].state = "ACCEPTED" => handoffs'[h].state \in {"ACCEPTED", "STALE"}
           PackBody ==
               /\ \A k \in Pack!Made : packages[k].state = "REVOKED" => packages'[k] = packages[k]
               /\ \A f \in Pack!Given :
                     feedback[f].state \in Pack!Resolved => feedback'[f] = feedback[f]
           OweBody ==
               /\ \A o \in Owe!Made : Owe!Status(o) \in Owe!Terminal =>
                     obligations'[o].events = obligations[o].events
               /\ \A f \in FollowUps :
                     followups[f] \in {"RESOLVED", "CANCELED"} => followups'[f] = followups[f]
           PartBody == /\ focus = "careers" => Career!AStageIsEarned
                       /\ focus = "deferrals" => Later!ADeferralIsHeeded
<1>2. MemoryInv /\ [MemoryNext]_<<focus, storeVars, partVars>>
        => /\ [HandBody]_(Hand!vars) /\ [PackBody]_(Pack!vars) /\ [OweBody]_(Owe!vars)
           /\ [SessStands]_(Sess!vars) /\ [PartBody]_<<focus, partVars>>
  <2> SUFFICES ASSUME MemoryInv, [MemoryNext]_<<focus, storeVars, partVars>>
               PROVE  /\ [HandBody]_(Hand!vars) /\ [PackBody]_(Pack!vars) /\ [OweBody]_(Owe!vars)
                      /\ [SessStands]_(Sess!vars) /\ [PartBody]_<<focus, partVars>>
    OBVIOUS
  <2>1. StoresApart /\ PartsApart
    BY StepsAreApart
  <2>2. HandStands /\ PackStands
    BY <2>1, HandKeeps, PackKeeps DEF MemoryInv, StoresApart
  <2>3. HandBody
    BY <2>2 DEF HandStands, Hand!Made
  <2>4. PackBody
    BY <2>2 DEF PackStands, Pack!Made, Pack!Given
  <2>5. OweBody
    <3>1. CASE focus = "obligations"
      <4>1. OweStands
        BY <2>1, <3>1, OweKeeps DEF MemoryInv, StoresApart
      <4> QED BY <4>1 DEF OweStands, Owe!Made, Owe!Status
    <3>2. CASE focus # "obligations"
      BY <2>1, <3>2 DEF StoresApart, owedVars
    <3> QED BY <3>1, <3>2
  <2>6. [SessStands]_(Sess!vars)
    <3>1. CASE focus = "sessions"
      BY <2>1, <3>1, SessOutcomes DEF MemoryInv, StoresApart
    <3>2. CASE focus # "sessions"
      BY <2>1, <3>2 DEF StoresApart, sessionVars, SessStands
    <3> QED BY <3>1, <3>2
  <2>7. [PartBody]_<<focus, partVars>>
    <3>1. CASE focus = "careers"
      <4>1. Career!AStageIsEarned
        BY <2>1, <3>1, CareerOutcomes DEF MemoryInv, PartsApart
      <4> QED BY <3>1, <4>1
    <3>2. CASE focus = "deferrals"
      <4>1. CASE Later!Next
        <5>1. Later!ADeferralIsHeeded
          BY <3>2, <4>1, LaterOutcomes DEF MemoryInv
        <5> QED BY <3>2, <5>1
      <4>2. CASE UNCHANGED Later!vars
        BY <2>1, <4>2 DEF StoresApart, Later!vars, partVars
      <4> QED BY <2>1, <3>2, <4>1, <4>2 DEF PartsApart
    <3>3. CASE focus \notin {"careers", "deferrals"}
      BY <3>3
    <3> QED BY <3>1, <3>2, <3>3
  <2> HIDE DEF HandBody, PackBody, OweBody, PartBody
  <2> QED BY <2>3, <2>4, <2>5, <2>6, <2>7
<1>3. MemorySpec => /\ [][HandBody]_(Hand!vars) /\ [][PackBody]_(Pack!vars)
                    /\ [][OweBody]_(Owe!vars) /\ [][SessStands]_(Sess!vars)
                    /\ [][PartBody]_<<focus, partVars>>
  <2> HIDE DEF HandBody, PackBody, OweBody, PartBody
  <2> QED BY <1>2, MemoryInvariance, PTL DEF MemorySpec
<1> QED
  BY <1>1, <1>3, PTL
  DEF OutcomesStand, Hand!HandoffOutcomesStand, Pack!PackageOutcomesStand,
      Owe!ObligationOutcomesStand, Sess!SessionOutcomesStand, SessStands

\* The journal of a profile implements OperationLifecycle beside its other memories.
THEOREM MemoriesImplementLifecycle == MemorySpec => ImplementsLifecycle
  BY JournalIsAMemory, JournalImplementsLifecycle, PTL

\* The identities of a profile implement IdentityLink beside its other memories: an identity
\* goes from one person to another only by way of nobody.
THEOREM MemoriesImplementIdentityLink == MemorySpec => ImplementsIdentityLink
<1>1. Id!Spec => Id!ImplementsIdentityLink
  BY NobodyIsNobody, Id!ReviewsImplementIdentityLink
<1> QED BY <1>1, JournalIsAMemory, PTL DEF ImplementsIdentityLink

=============================================================================

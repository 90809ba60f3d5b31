--------------------------- MODULE PersonIdentity ---------------------------
(***************************************************************************)
(* n0te/person_identity.py: an identity met outside (an account, a name on *)
(* a split) is reviewed before it counts as a person of the profile.       *)
(* Reviews and their events are never changed; each call looks before its  *)
(* transaction, and the triggers look again inside it.                     *)
(***************************************************************************)
EXTENDS Naturals, Sequences, FiniteSets, SequencesExt, SequenceTheorems, TLAPS

CONSTANTS
    Identities,   \* external identities
    People,       \* recorded people
    Nobody,       \* no person
    MaxReviews,   \* reviews opened (a bound)
    MaxIdentityCalls  \* calls that have read and not yet written (a bound)

VARIABLES
    recorded,      \* person_external_identities
    reviews,       \* person_identity_reviews in the order of seq, with their events
    identityCalls  \* calls between their reads and their write

vars == <<recorded, reviews, identityCalls>>

ActiveStates == {"REVIEW_REQUIRED", "LINKED"}
Decisions == {"LINKED", "REJECTED", "SPLIT"}
State(r) == Last(reviews[r].events)

\* reviews_for_identity, those that are active.
Active(i) == {r \in DOMAIN reviews : reviews[r].identity = i /\ State(r) \in ActiveStates}

TypeOK ==
    /\ recorded \subseteq Identities
    /\ reviews \in Seq([identity : recorded, person : People,
                        events : Seq(Decisions \cup {"REVIEW_REQUIRED"})])
    /\ Len(reviews) <= MaxReviews
    /\ Cardinality(identityCalls) <= MaxIdentityCalls

Init == recorded = {} /\ reviews = <<>> /\ identityCalls = {}

-----------------------------------------------------------------------------
\* The realm, namespace and subject of an identity are unique.
Record_external_identity(i) ==
    /\ i \notin recorded
    /\ recorded' = recorded \cup {i}
    /\ UNCHANGED <<reviews, identityCalls>>

Reads(call) ==
    /\ Cardinality(identityCalls) < MaxIdentityCalls
    /\ identityCalls' = identityCalls \cup {call}
    /\ UNCHANGED <<recorded, reviews>>

Writes(call) ==
    /\ call \in identityCalls
    /\ identityCalls' = identityCalls \ {call}
    /\ UNCHANGED recorded

ProposeReads(i, p) ==
    /\ i \in recorded
    /\ Active(i) = {}
    /\ Reads([op |-> "propose", identity |-> i, person |-> p])

\* Mutant: no trigger allows one active review alone.
ProposeWritesAnyway(call) ==
    /\ call.op = "propose" /\ Len(reviews) < MaxReviews
    /\ Writes(call)
    /\ reviews' = Append(reviews, [identity |-> call.identity, person |-> call.person,
                                   events |-> <<"REVIEW_REQUIRED">>])

\* The review and its first event; person_identity_review_one_active.
ProposeWrites(call) ==
    /\ call.op = "propose" /\ Len(reviews) < MaxReviews
    /\ Writes(call)
    /\ reviews' = IF Active(call.identity) # {} THEN reviews ELSE
          Append(reviews, [identity |-> call.identity, person |-> call.person,
                           events |-> <<"REVIEW_REQUIRED">>])

\* link, reject and split; person_identity_event_transition.
MayDecide(state, decision) ==
    \/ state = "REVIEW_REQUIRED" /\ decision \in {"LINKED", "REJECTED"}
    \/ state = "LINKED" /\ decision = "SPLIT"

DecideReads(r, decision) ==
    /\ MayDecide(State(r), decision)
    /\ Reads([op |-> "decide", review |-> r, decision |-> decision])

\* Mutant: no trigger looks at the last event.
DecideWritesLate(call) ==
    /\ call.op = "decide"
    /\ Writes(call)
    /\ reviews' = [reviews EXCEPT ![call.review].events = Append(@, call.decision)]

DecideWrites(call) ==
    /\ call.op = "decide"
    /\ Writes(call)
    /\ reviews' = [reviews EXCEPT ![call.review].events =
          IF MayDecide(Last(@), call.decision) THEN Append(@, call.decision) ELSE @]

Next ==
    \/ \E i \in Identities : Record_external_identity(i) \/ \E p \in People : ProposeReads(i, p)
    \/ \E r \in DOMAIN reviews, decision \in Decisions : DecideReads(r, decision)
    \/ \E call \in identityCalls : ProposeWrites(call) \/ DecideWrites(call)

Spec == Init /\ [][Next]_vars

-----------------------------------------------------------------------------
(* Properties.                                                             *)

\* _validate_existing: one active path per identity, each review a lawful history.
IdentitiesOpen ==
    /\ \A i \in Identities : \A r, q \in Active(i) : r = q
    /\ \A r \in DOMAIN reviews : reviews[r].events \in
          {<<"REVIEW_REQUIRED">>, <<"REVIEW_REQUIRED", "LINKED">>,
           <<"REVIEW_REQUIRED", "REJECTED">>, <<"REVIEW_REQUIRED", "LINKED", "SPLIT">>}

\* Whom an identity stands for.
Owner == [i \in Identities |->
    LET linked == {r \in Active(i) : State(r) = "LINKED"} IN
    IF linked = {} THEN Nobody ELSE reviews[CHOOSE r \in linked : TRUE].person]

Link == INSTANCE IdentityLink WITH owner <- Owner

\* An identity passes from one person to another only by way of nobody, however
\* proposals and decisions about it cross.
ImplementsIdentityLink == Link!Spec

-----------------------------------------------------------------------------
(* Proofs, for any identities, people and bounds.  A review takes one of    *)
(* four courses, an identity has one that is active, and a call that has    *)
(* read still knows of what it writes about.                                *)

IsCourse(h) ==
    /\ h \in Seq(Decisions \cup {"REVIEW_REQUIRED"}) /\ Len(h) \in 1..3
    /\ h[1] = "REVIEW_REQUIRED"
    /\ Len(h) >= 2 => h[2] \in {"LINKED", "REJECTED"}
    /\ Len(h) = 3 => h[2] = "LINKED" /\ h[3] = "SPLIT"

Reviews == [identity : Identities, person : People,
            events : Seq(Decisions \cup {"REVIEW_REQUIRED"})]

Courses == \A r \in DOMAIN reviews : IsCourse(reviews[r].events)

OneActive ==
    \A r, q \in DOMAIN reviews :
        (/\ reviews[r].identity = reviews[q].identity
         /\ State(r) \in ActiveStates /\ State(q) \in ActiveStates) => r = q

CallsKnow ==
    \A call \in identityCalls :
        /\ call.op = "propose" => call.identity \in Identities /\ call.person \in People
        /\ call.op = "decide" => call.review \in DOMAIN reviews

PInv == reviews \in Seq(Reviews) /\ Courses /\ OneActive /\ CallsKnow

\* What a review reads as says how far it is.
LEMMA CourseIs ==
  ASSUME NEW h, IsCourse(h)
  PROVE  /\ Last(h) \in {"REVIEW_REQUIRED", "LINKED", "REJECTED", "SPLIT"}
         /\ Last(h) = "REVIEW_REQUIRED" => Len(h) = 1
         /\ Last(h) = "LINKED" => Len(h) = 2
<1>1. Len(h) \in 1..3 /\ Last(h) = h[Len(h)]
  BY DEF IsCourse, Last
<1>2. CASE Len(h) = 1
  BY <1>1, <1>2 DEF IsCourse
<1>3. CASE Len(h) = 2
  BY <1>1, <1>3 DEF IsCourse
<1>4. CASE Len(h) = 3
  BY <1>1, <1>4 DEF IsCourse
<1> QED BY <1>1, <1>2, <1>3, <1>4

\* A decision that the trigger lets pass takes the review on.
LEMMA CourseGoesOn ==
  ASSUME NEW h, IsCourse(h), NEW decision, MayDecide(Last(h), decision)
  PROVE  /\ IsCourse(Append(h, decision)) /\ Last(Append(h, decision)) = decision
         /\ decision \in Decisions
<1> DEFINE g == Append(h, decision)
<1>1. h \in Seq(Decisions \cup {"REVIEW_REQUIRED"}) /\ decision \in Decisions
  BY DEF IsCourse, MayDecide, Decisions
<1>2. /\ g \in Seq(Decisions \cup {"REVIEW_REQUIRED"}) /\ Len(g) = Len(h) + 1
      /\ g[Len(h) + 1] = decision /\ \A i \in 1..Len(h) : g[i] = h[i]
  BY <1>1
<1> HIDE DEF g
<1>3. ASSUME Last(h) = "REVIEW_REQUIRED", decision \in {"LINKED", "REJECTED"}
      PROVE  IsCourse(g)
  <2>1. Len(h) = 1 /\ h[1] = "REVIEW_REQUIRED"
    BY <1>3, CourseIs DEF IsCourse
  <2> QED BY <1>2, <1>3, <2>1 DEF IsCourse
<1>4. ASSUME Last(h) = "LINKED", decision = "SPLIT"
      PROVE  IsCourse(g)
  <2>1. Len(h) = 2 /\ h[1] = "REVIEW_REQUIRED" /\ h[2] = "LINKED"
    BY <1>4, CourseIs DEF IsCourse, Last
  <2> QED BY <1>2, <1>4, <2>1 DEF IsCourse
<1>5. Last(g) = decision
  BY <1>2 DEF Last
<1> QED BY <1>1, <1>3, <1>4, <1>5 DEF MayDecide, g

\* At first there are no reviews and no calls.
LEMMA PInvInit == Init => PInv
  BY DEF Init, PInv, Courses, OneActive, CallsKnow

\* A call that reads, and an identity that is recorded, leave the reviews alone.
LEMMA ReadStep ==
  ASSUME PInv,
         \/ \E i \in Identities :
               Record_external_identity(i) \/ \E p \in People : ProposeReads(i, p)
         \/ \E r \in DOMAIN reviews, decision \in Decisions : DecideReads(r, decision)
  PROVE  PInv' /\ reviews' = reviews
<1>1. reviews' = reviews
  BY DEF Record_external_identity, ProposeReads, DecideReads, Reads
<1>2. \/ identityCalls' = identityCalls
      \/ \E i \in Identities, p \in People :
            identityCalls' = identityCalls \cup {[op |-> "propose", identity |-> i, person |-> p]}
      \/ \E r \in DOMAIN reviews, decision \in Decisions : identityCalls'
            = identityCalls \cup {[op |-> "decide", review |-> r, decision |-> decision]}
  BY DEF Record_external_identity, ProposeReads, DecideReads, Reads
<1>3. CallsKnow'
  BY <1>1, <1>2 DEF PInv, CallsKnow
<1> QED BY <1>1, <1>3 DEF PInv, Courses, OneActive, State

\* A review is proposed of an identity that has no active one.
LEMMA ProposeStep ==
  ASSUME PInv, NEW call \in identityCalls, ProposeWrites(call)
  PROVE  PInv'
<1> DEFINE new == [identity |-> call.identity, person |-> call.person,
                   events |-> <<"REVIEW_REQUIRED">>]
           n == Len(reviews)
<1>1. call.identity \in Identities /\ call.person \in People /\ identityCalls' \subseteq identityCalls
  BY DEF PInv, CallsKnow, ProposeWrites, Writes
<1>2. CASE reviews' = reviews
  BY <1>1, <1>2 DEF PInv, Courses, OneActive, CallsKnow, State
<1>3. CASE Active(call.identity) = {} /\ reviews' = Append(reviews, new)
  <2>1. IsCourse(<<"REVIEW_REQUIRED">>) /\ Last(<<"REVIEW_REQUIRED">>) = "REVIEW_REQUIRED"
    BY DEF IsCourse, Decisions, Last
  <2>2. /\ new \in Reviews /\ new.identity = call.identity
        /\ new.events = <<"REVIEW_REQUIRED">>
    BY <1>1, <2>1 DEF Reviews, IsCourse
  <2>3. reviews \in Seq(Reviews)
    BY DEF PInv
  <2> HIDE DEF new
  <2>4. /\ reviews' \in Seq(Reviews) /\ DOMAIN reviews' = DOMAIN reviews \cup {n + 1}
        /\ n + 1 \notin DOMAIN reviews
        /\ reviews'[n + 1] = new /\ \A r \in DOMAIN reviews : reviews'[r] = reviews[r]
    BY <1>3, <2>2, <2>3
  <2>5. Courses'
    BY <2>1, <2>2, <2>4 DEF PInv, Courses
  <2>6. \A r \in DOMAIN reviews : State(r)' = State(r)
    BY <2>4 DEF State
  <2>7. \A r \in DOMAIN reviews : reviews[r].identity = call.identity => State(r) \notin ActiveStates
    BY <1>3 DEF Active
  <2>8. OneActive'
    <3>1. ASSUME NEW r \in DOMAIN reviews', NEW q \in DOMAIN reviews',
                 reviews'[r].identity = reviews'[q].identity,
                 State(r)' \in ActiveStates, State(q)' \in ActiveStates
          PROVE  r = q
      <4>1. CASE r \in DOMAIN reviews /\ q \in DOMAIN reviews
        BY <2>4, <2>6, <3>1, <4>1 DEF PInv, OneActive
      <4>2. CASE r \in DOMAIN reviews /\ q = n + 1
        BY <2>2, <2>4, <2>6, <2>7, <3>1, <4>2
      <4>3. CASE r = n + 1 /\ q \in DOMAIN reviews
        BY <2>2, <2>4, <2>6, <2>7, <3>1, <4>3
      <4> QED BY <2>4, <4>1, <4>2, <4>3
    <3> QED BY <3>1 DEF OneActive
  <2>9. CallsKnow'
    BY <1>1, <2>4 DEF PInv, CallsKnow
  <2> QED BY <2>4, <2>5, <2>8, <2>9 DEF PInv
<1> QED BY <1>2, <1>3 DEF ProposeWrites

\* What a decision writes: nothing, or the next event of one review.
LEMMA DecideIs ==
  ASSUME PInv, NEW call \in identityCalls, DecideWrites(call)
  PROVE  \/ reviews' = reviews
         \/ \E r \in DOMAIN reviews :
               /\ MayDecide(State(r), call.decision)
               /\ reviews' \in Seq(Reviews) /\ DOMAIN reviews' = DOMAIN reviews
               /\ reviews'[r].identity = reviews[r].identity
               /\ reviews'[r].person = reviews[r].person
               /\ reviews'[r].events = Append(reviews[r].events, call.decision)
               /\ \A q \in DOMAIN reviews \ {r} : reviews'[q] = reviews[q]
<1> DEFINE r == call.review
           h == reviews[r].events
<1>1. /\ r \in DOMAIN reviews /\ reviews \in Seq(Reviews) /\ IsCourse(h)
      /\ reviews' = [reviews EXCEPT ![r].events =
            IF MayDecide(Last(h), call.decision) THEN Append(h, call.decision) ELSE h]
  BY DEF PInv, Courses, CallsKnow, DecideWrites
<1>2. reviews[r] \in Reviews
  BY <1>1
<1>3. CASE ~MayDecide(Last(h), call.decision)
  <2>1. reviews' = [reviews EXCEPT ![r] = [reviews[r] EXCEPT !.events = h]]
    BY <1>1, <1>3
  <2>2. [reviews[r] EXCEPT !.events = h] = reviews[r]
    BY <1>2 DEF Reviews
  <2> QED BY <1>1, <2>1, <2>2
<1>4. CASE MayDecide(Last(h), call.decision)
  <2> DEFINE new == [reviews[r] EXCEPT !.events = Append(h, call.decision)]
  <2>1. reviews' = [reviews EXCEPT ![r] = new]
    BY <1>1, <1>4
  <2>2. Append(h, call.decision) \in Seq(Decisions \cup {"REVIEW_REQUIRED"})
    BY <1>1, <1>4, CourseGoesOn DEF IsCourse
  <2>3. /\ new \in Reviews /\ new.identity = reviews[r].identity
        /\ new.person = reviews[r].person /\ new.events = Append(h, call.decision)
    BY <1>2, <2>2 DEF Reviews
  <2> HIDE DEF new
  <2>4. /\ reviews' \in Seq(Reviews) /\ DOMAIN reviews' = DOMAIN reviews /\ reviews'[r] = new
        /\ \A q \in DOMAIN reviews \ {r} : reviews'[q] = reviews[q]
    BY <1>1, <2>1, <2>3
  <2> QED BY <1>1, <1>4, <2>3, <2>4 DEF State
<1> QED BY <1>3, <1>4

\* A decision is about a review that was active, and leaves no second one so.
LEMMA DecideStep ==
  ASSUME PInv, NEW call \in identityCalls, DecideWrites(call)
  PROVE  PInv'
<1>1. identityCalls' \subseteq identityCalls
  BY DEF DecideWrites, Writes
<1>2. CASE reviews' = reviews
  BY <1>1, <1>2 DEF PInv, Courses, OneActive, CallsKnow, State
<1>3. ASSUME NEW r \in DOMAIN reviews, MayDecide(State(r), call.decision),
             reviews' \in Seq(Reviews), DOMAIN reviews' = DOMAIN reviews,
             reviews'[r].identity = reviews[r].identity,
             reviews'[r].events = Append(reviews[r].events, call.decision),
             \A q \in DOMAIN reviews \ {r} : reviews'[q] = reviews[q]
      PROVE  PInv'
  <2>1. IsCourse(reviews'[r].events)
    BY <1>3, CourseGoesOn DEF PInv, Courses, State
  <2>2. Courses'
    BY <1>3, <2>1 DEF PInv, Courses
  <2>3. State(r) \in ActiveStates /\ \A q \in DOMAIN reviews \ {r} : State(q)' = State(q)
    BY <1>3 DEF State, MayDecide, ActiveStates
  <2>4. \A q \in DOMAIN reviews : reviews'[q].identity = reviews[q].identity
    BY <1>3
  <2>5. OneActive'
    BY <1>3, <2>3, <2>4 DEF PInv, OneActive
  <2>6. CallsKnow'
    BY <1>1, <1>3 DEF PInv, CallsKnow
  <2> QED BY <1>3, <2>2, <2>5, <2>6 DEF PInv
<1> QED BY <1>2, <1>3, DecideIs

\* Every step keeps the invariant.
LEMMA PInvStep == PInv /\ [Next]_vars => PInv'
<1>1. PInv /\ Next => PInv'
  BY ReadStep, ProposeStep, DecideStep DEF Next
<1>2. PInv /\ UNCHANGED vars => PInv'
  BY DEF vars, PInv, Courses, OneActive, CallsKnow, State
<1> QED BY <1>1, <1>2

\* One path is active, and each review is one of the four histories.
LEMMA PInvMeans == PInv => IdentitiesOpen
<1> SUFFICES ASSUME PInv
             PROVE  IdentitiesOpen
  OBVIOUS
<1>1. \A i \in Identities : \A r, q \in Active(i) : r = q
  BY DEF PInv, OneActive, Active
<1>2. ASSUME NEW h, IsCourse(h)
      PROVE  h \in {<<"REVIEW_REQUIRED">>, <<"REVIEW_REQUIRED", "LINKED">>,
                    <<"REVIEW_REQUIRED", "REJECTED">>, <<"REVIEW_REQUIRED", "LINKED", "SPLIT">>}
  <2> DEFINE E == Decisions \cup {"REVIEW_REQUIRED"}
  <2>1. h \in Seq(E) /\ Len(h) \in 1..3
    BY <1>2 DEF IsCourse
  <2>2. ASSUME NEW t \in Seq(E), Len(t) = Len(h), \A i \in 1..Len(h) : h[i] = t[i]
        PROVE  h = t
    BY <2>1, <2>2, SeqEqual
  <2>3. CASE Len(h) = 1
    <3> DEFINE t == <<"REVIEW_REQUIRED">>
    <3>1. t \in Seq(E) /\ Len(t) = 1 /\ t[1] = "REVIEW_REQUIRED"
      OBVIOUS
    <3> HIDE DEF t
    <3>2. h = t
      BY <1>2, <2>2, <2>3, <3>1 DEF IsCourse
    <3> QED BY <3>2 DEF t
  <2>4. CASE Len(h) = 2
    <3>1. PICK d \in {"LINKED", "REJECTED"} : h[2] = d
      BY <1>2, <2>4 DEF IsCourse
    <3> DEFINE t == <<"REVIEW_REQUIRED", d>>
    <3>2. t \in Seq(E) /\ Len(t) = 2 /\ t[1] = "REVIEW_REQUIRED" /\ t[2] = d
      BY DEF Decisions
    <3> HIDE DEF t
    <3>3. h = t
      BY <1>2, <2>2, <2>4, <3>1, <3>2 DEF IsCourse
    <3> QED BY <3>3 DEF t
  <2>5. CASE Len(h) = 3
    <3> DEFINE t == <<"REVIEW_REQUIRED", "LINKED", "SPLIT">>
    <3>1. /\ t \in Seq(E) /\ Len(t) = 3 /\ t[1] = "REVIEW_REQUIRED" /\ t[2] = "LINKED"
          /\ t[3] = "SPLIT"
      <4>1. {"REVIEW_REQUIRED", "LINKED", "SPLIT"} \subseteq E
        BY DEF Decisions
      <4> HIDE DEF E
      <4> QED BY <4>1
    <3> HIDE DEF t
    <3>2. h = t
      BY <1>2, <2>2, <2>5, <3>1 DEF IsCourse
    <3> QED BY <3>2 DEF t
  <2> QED BY <2>1, <2>3, <2>4, <2>5
<1> QED BY <1>1, <1>2 DEF PInv, Courses, IdentitiesOpen

\* Whom an identity stands for is who its one linked review names.
OwnersAre ==
    \A i \in Identities :
        /\ \A r \in DOMAIN reviews : reviews[r].identity = i /\ State(r) = "LINKED" =>
              Owner[i] = reviews[r].person
        /\ (\A r \in DOMAIN reviews : reviews[r].identity = i => State(r) # "LINKED") =>
              Owner[i] = Nobody

\* The one linked review decides, since an identity has one active review only.
LEMMA OwnersAreThose == PInv => OwnersAre
<1> SUFFICES ASSUME PInv, NEW i \in Identities
             PROVE  /\ \A r \in DOMAIN reviews : reviews[r].identity = i /\ State(r) = "LINKED" =>
                          Owner[i] = reviews[r].person
                    /\ (\A r \in DOMAIN reviews : reviews[r].identity = i => State(r) # "LINKED") =>
                          Owner[i] = Nobody
  BY DEF OwnersAre
<1> DEFINE linked == {r \in Active(i) : State(r) = "LINKED"}
<1>1. Owner[i] = IF linked = {} THEN Nobody ELSE reviews[CHOOSE r \in linked : TRUE].person
  BY DEF Owner
<1>2. linked = {r \in DOMAIN reviews : reviews[r].identity = i /\ State(r) = "LINKED"}
  BY DEF Active, ActiveStates
<1> HIDE DEF linked
<1>3. ASSUME NEW r \in linked
      PROVE  (CHOOSE q \in linked : TRUE) = r
  <2>1. linked = {r}
    BY <1>2, <1>3 DEF PInv, OneActive, ActiveStates
  <2> QED BY <2>1
<1> QED BY <1>1, <1>2, <1>3

\* A decision is a step of the abstract specification, or nothing that it sees.
LEMMA DecisionLinks ==
  ASSUME PInv, OwnersAre, OwnersAre', Nobody \notin People, NEW decision,
         NEW r \in DOMAIN reviews, MayDecide(State(r), decision),
         DOMAIN reviews' = DOMAIN reviews, reviews'[r].identity = reviews[r].identity,
         reviews'[r].person = reviews[r].person,
         reviews'[r].events = Append(reviews[r].events, decision),
         \A q \in DOMAIN reviews \ {r} : reviews'[q] = reviews[q]
  PROVE  [Link!Next]_Owner
<1> DEFINE i == reviews[r].identity
           p == reviews[r].person
<1>1. i \in Identities /\ p \in People /\ IsCourse(reviews[r].events)
  <2>1. reviews[r] \in Reviews
    BY DEF PInv
  <2> QED BY <2>1 DEF Reviews, PInv, Courses
<1>2. State(r)' = decision /\ \A q \in DOMAIN reviews \ {r} : State(q)' = State(q)
  BY <1>1, CourseGoesOn DEF State
<1>3. \A q \in DOMAIN reviews \ {r} : reviews[q].identity = i => State(q) # "LINKED"
  BY DEF PInv, OneActive, MayDecide, ActiveStates
<1>4. \A q \in DOMAIN reviews :
         reviews'[q].identity = reviews[q].identity /\ reviews'[q].person = reviews[q].person
  OBVIOUS
<1>5. ASSUME NEW j \in Identities, j # i
      PROVE  Owner[j]' = Owner[j]
  <2>1. \A q \in DOMAIN reviews : reviews[q].identity = j => State(q)' = State(q)
    BY <1>2, <1>5
  <2>2. CASE \E q \in DOMAIN reviews : reviews[q].identity = j /\ State(q) = "LINKED"
    BY <1>4, <2>1, <2>2 DEF OwnersAre
  <2>3. CASE \A q \in DOMAIN reviews : reviews[q].identity = j => State(q) # "LINKED"
    BY <1>4, <2>1, <2>3 DEF OwnersAre
  <2> QED BY <2>2, <2>3
<1>6. Owner[i] = (IF State(r) = "LINKED" THEN p ELSE Nobody)
  BY <1>1, <1>3 DEF OwnersAre
<1>7. Owner[i]' = (IF decision = "LINKED" THEN p ELSE Nobody)
  <2>1. reviews'[r].identity = i /\ reviews'[r].person = p /\ r \in DOMAIN reviews'
    BY <1>4
  <2>2. CASE decision = "LINKED"
    BY <1>1, <1>2, <2>1, <2>2 DEF OwnersAre
  <2>3. CASE decision # "LINKED"
    <3>1. \A q \in DOMAIN reviews' : reviews'[q].identity = i => State(q)' # "LINKED"
      BY <1>2, <1>3, <1>4, <2>3
    <3> QED BY <1>1, <2>3, <3>1 DEF OwnersAre
  <2> QED BY <2>2, <2>3
<1>8. Owner' = [Owner EXCEPT ![i] = IF decision = "LINKED" THEN p ELSE Nobody]
  BY <1>1, <1>5, <1>7, ZenonT(40) DEF Owner
<1> HIDE DEF i, p
<1>9. CASE State(r) = "REVIEW_REQUIRED" /\ decision = "LINKED"
  BY <1>1, <1>6, <1>8, <1>9 DEF Link!Next, Link!Link
<1>10. CASE State(r) = "REVIEW_REQUIRED" /\ decision = "REJECTED"
  BY <1>1, <1>6, <1>8, <1>10 DEF Owner
<1>11. CASE State(r) = "LINKED" /\ decision = "SPLIT"
  BY <1>1, <1>6, <1>8, <1>11 DEF Link!Next, Link!Split
<1> QED BY <1>9, <1>10, <1>11 DEF MayDecide

\* A proposal changes nobody's owner.
LEMMA ProposalLinksNothing ==
  ASSUME PInv, OwnersAre, OwnersAre', NEW call \in identityCalls, ProposeWrites(call)
  PROVE  Owner' = Owner
<1> DEFINE new == [identity |-> call.identity, person |-> call.person,
                   events |-> <<"REVIEW_REQUIRED">>]
<1>0. PICK n : n = Len(reviews)
  OBVIOUS
<1>1. CASE reviews' = reviews
  BY <1>1 DEF Owner, Active, State
<1>2. CASE reviews' = Append(reviews, new)
  <2>1. new.events = <<"REVIEW_REQUIRED">> /\ Last(<<"REVIEW_REQUIRED">>) = "REVIEW_REQUIRED"
    BY DEF Last
  <2>2. reviews \in Seq(Reviews)
    BY DEF PInv
  <2> HIDE DEF new
  <2>3. /\ DOMAIN reviews' = DOMAIN reviews \cup {n + 1}
        /\ reviews'[n + 1] = new /\ \A r \in DOMAIN reviews : reviews'[r] = reviews[r]
    BY <1>0, <1>2, <2>2
  <2>4. State(n + 1)' # "LINKED" /\ \A r \in DOMAIN reviews : State(r)' = State(r)
    BY <2>1, <2>3 DEF State
  <2>5. ASSUME NEW i \in Identities
        PROVE  Owner[i]' = Owner[i]
    <3>1. CASE \E r \in DOMAIN reviews : reviews[r].identity = i /\ State(r) = "LINKED"
      BY <2>3, <2>4, <3>1 DEF OwnersAre
    <3>2. CASE \A r \in DOMAIN reviews : reviews[r].identity = i => State(r) # "LINKED"
      BY <2>3, <2>4, <3>2 DEF OwnersAre
    <3> QED BY <3>1, <3>2
  <2> QED BY <2>5 DEF Owner
<1> QED BY <1>1, <1>2 DEF ProposeWrites

\* The inductive invariant of the reviews, whatever calls cross.
THEOREM ReviewInvariance == Spec => []PInv
  BY PInvInit, PInvStep, PTL DEF Spec

\* Proposals and decisions that all looked before any of them wrote leave reviews that
\* _validate_existing accepts.
THEOREM IdentitiesAlwaysOpen == Spec => []IdentitiesOpen
  BY PInvMeans, ReviewInvariance, PTL

\* The reviews implement IdentityLink: an identity goes from one person to another only by way
\* of nobody.
THEOREM ReviewsImplementIdentityLink ==
  ASSUME Nobody \notin People
  PROVE  Spec => ImplementsIdentityLink
<1>1. Init => Link!Init
  <2> SUFFICES ASSUME Init
               PROVE  Link!Init
    OBVIOUS
  <2>1. OwnersAre
    BY PInvInit, OwnersAreThose
  <2>2. \A i \in Identities : Owner[i] = Nobody
    BY <2>1 DEF Init, OwnersAre
  <2> QED BY <2>2 DEF Link!Init, Owner
<1>2. PInv /\ OwnersAre /\ OwnersAre' /\ [Next]_vars => [Link!Next]_Owner
  <2> SUFFICES ASSUME PInv, OwnersAre, OwnersAre', [Next]_vars
               PROVE  [Link!Next]_Owner
    OBVIOUS
  <2>1. reviews' = reviews => Owner' = Owner
    BY DEF Owner, Active, State
  <2>2. ASSUME NEW call \in identityCalls, DecideWrites(call)
        PROVE  [Link!Next]_Owner
    BY <2>1, <2>2, DecideIs, DecisionLinks
  <2>3. CASE UNCHANGED vars
    BY <2>1, <2>3 DEF vars
  <2> QED BY <2>1, <2>2, <2>3, ReadStep, ProposalLinksNothing DEF Next
<1> QED BY <1>1, <1>2, OwnersAreThose, ReviewInvariance, PTL DEF Spec, ImplementsIdentityLink, Link!Spec

=============================================================================

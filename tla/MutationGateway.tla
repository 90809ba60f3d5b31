-------------------------- MODULE MutationGateway --------------------------
(***************************************************************************)
(* The coordinator execution gate: request_execution_permit of             *)
(* n0te/coordinator_mcp.py, ExecutionPermitAuthority and its ledger in     *)
(* governance/execution_permit.py, FileTrustedContextProvider, and         *)
(* CoordinatorMutationGateway.execute.  Coordinators obtain permits and    *)
(* spend them concurrently, while a trusted sync publishes new snapshots   *)
(* of what is allowed and approved, and any of them may crash.             *)
(***************************************************************************)
EXTENDS Naturals, Sequences, SequencesExt, TLAPS

CONSTANTS
    Coordinators,  \* processes that request permits and execute
    Actions,       \* exact ActionIntents
    Contents,      \* of the snapshots the trusted sync may publish, [trusted, human, approvals]
    MaxSnapshots,  \* snapshots ever published (a bound)
    MaxPermits,    \* permits ever issued (a bound)
    MaxTime        \* how far the clock runs (a bound)

VARIABLES
    contexts,     \* published snapshots; the last one is current
    permits,      \* permits issued; a permit's id is its place
    ledger,       \* consumed_execution_permits
    effects,      \* executor calls, in order, with what became of each
    coordinator,  \* where each coordinator is in its call
    now           \* time.time()

vars == <<contexts, permits, ledger, effects, coordinator, now>>

-----------------------------------------------------------------------------
\* What the gate reads of a snapshot: the actions its policies trust, those
\* they require a human for, those its approvals name, and its expiry.
Snapshots == [content : Contents, expires : Nat]

Permits == [action : Actions, snapshot : Nat, expires : Nat]

\* since: the snapshot that was current when the call to execute() began.
Effects == [action : Actions, permit : Nat, snapshot : Nat, since : Nat,
            status : {"running", "completed", "unproven"}]

Idle == [pc |-> "idle", action |-> "none", permit |-> 0, snapshot |-> 0, since |-> 0, effect |-> 0]

Labels == {"idle", "issue", "fetch", "check", "consume", "execute", "verify", "reconcile"}

Calls == [pc : Labels, action : Actions \cup {"none"}, permit : Nat, snapshot : Nat, since : Nat,
          effect : Nat]

TypeOK ==
    /\ contexts \in Seq(Snapshots)
    /\ permits \in Seq(Permits)
    /\ ledger \subseteq DOMAIN permits
    /\ effects \in Seq(Effects)
    /\ coordinator \in [Coordinators -> Calls]
    /\ now \in Nat

Init ==
    /\ contexts = <<>>
    /\ permits = <<>>
    /\ ledger = {}
    /\ effects = <<>>
    /\ coordinator = [c \in Coordinators |-> Idle]
    /\ now = 0

-----------------------------------------------------------------------------
At(c, pc) == coordinator[c].pc = pc
Become(c, me) == coordinator' = [coordinator EXCEPT ![c] = me]
Goto(c, pc) == Become(c, [coordinator[c] EXCEPT !.pc = pc])
Raise(c) == Become(c, Idle)

\* FileTrustedContextProvider.get: the named snapshot must be the current one.
IsCurrent(s) == s \in DOMAIN contexts /\ s = Len(contexts)

\* crosscheck_execution_envelope, with an envelope that says of the action's
\* authority what the snapshot's policy says; any other is refused.
Crosschecks(s, a) == now <= contexts[s].expires /\ a \in contexts[s].content.trusted

NeedsHuman(s, a) == a \in contexts[s].content.human

\* _validate_required_human_approval, done when the permit is issued only.
Approved(s, a) == NeedsHuman(s, a) => a \in contexts[s].content.approvals

\* Mutant: the permit's context_snapshot_fingerprint is not compared.
MatchesAction(n, a, s) == permits[n].action = a

\* The bindings that consume() compares with the permit's payload.
Matches(n, a, s) == permits[n].action = a /\ permits[n].snapshot = s

-----------------------------------------------------------------------------
(* Outside the gate. *)

\* The trusted sync (external) replaces the store and its current pointer.
Publish(content, life) ==
    /\ Len(contexts) < MaxSnapshots
    /\ contexts' = Append(contexts, [content |-> content, expires |-> now + life])
    /\ UNCHANGED <<permits, ledger, effects, coordinator, now>>

Tick ==
    /\ now < MaxTime
    /\ now' = now + 1
    /\ UNCHANGED <<contexts, permits, ledger, effects, coordinator>>

-----------------------------------------------------------------------------
(* request_execution_permit *)

RequestReadsContext(c, a, s) ==
    /\ At(c, "idle") /\ Len(permits) < MaxPermits
    /\ IsCurrent(s)
    /\ Become(c, [Idle EXCEPT !.pc = "issue", !.action = a, !.snapshot = s])
    /\ UNCHANGED <<contexts, permits, ledger, effects, now>>

Issue(c, ttl) ==
    LET me == coordinator[c] IN
    /\ At(c, "issue") /\ Len(permits) < MaxPermits
    /\ permits' = IF Crosschecks(me.snapshot, me.action) /\ Approved(me.snapshot, me.action)
                  THEN Append(permits, [action |-> me.action, snapshot |-> me.snapshot, expires |-> now + ttl])
                  ELSE permits
    /\ Become(c, Idle)
    /\ UNCHANGED <<contexts, ledger, effects, now>>

-----------------------------------------------------------------------------
(* CoordinatorMutationGateway.execute, with the action, the permit and the *)
(* snapshot its caller names.                                              *)

Execute(c, a, n, s) ==
    /\ At(c, "idle")
    /\ Become(c, [Idle EXCEPT !.pc = "fetch", !.action = a, !.permit = n, !.snapshot = s,
                              !.since = Len(contexts)])
    /\ UNCHANGED <<contexts, permits, ledger, effects, now>>

Fetch(c) ==
    /\ At(c, "fetch")
    /\ IF IsCurrent(coordinator[c].snapshot) THEN Goto(c, "check") ELSE Raise(c)
    /\ UNCHANGED <<contexts, permits, ledger, effects, now>>

Check(c) ==
    LET me == coordinator[c] IN
    /\ At(c, "check")
    /\ IF /\ Crosschecks(me.snapshot, me.action)
          /\ now <= permits[me.permit].expires
          /\ Matches(me.permit, me.action, me.snapshot)
       THEN Goto(c, "consume")
       ELSE Raise(c)
    /\ UNCHANGED <<contexts, permits, ledger, effects, now>>

\* Mutant: the ledger is written but not read.
ConsumeAgain(c) ==
    /\ At(c, "consume")
    /\ ledger' = ledger \cup {coordinator[c].permit}
    /\ Goto(c, "execute")
    /\ UNCHANGED <<contexts, permits, effects, now>>

\* SQLitePermitLedger.consume: one transaction.
Consume(c) ==
    /\ At(c, "consume")
    /\ IF coordinator[c].permit \in ledger
       THEN Raise(c) /\ UNCHANGED ledger
       ELSE ledger' = ledger \cup {coordinator[c].permit} /\ Goto(c, "execute")
    /\ UNCHANGED <<contexts, permits, effects, now>>

\* The registered executor is called: from here on the host may have changed.
CallExecutor(c) ==
    LET me == coordinator[c] IN
    /\ At(c, "execute")
    /\ effects' = Append(effects, [action |-> me.action, permit |-> me.permit, snapshot |-> me.snapshot,
                                   since |-> me.since, status |-> "running"])
    /\ Become(c, [me EXCEPT !.pc = "verify", !.effect = Len(effects) + 1])
    /\ UNCHANGED <<contexts, permits, ledger, now>>

Ends(c, status) == effects' = [effects EXCEPT ![coordinator[c].effect].status = status]

\* The executor raises, or the verifier does or finds nothing verified.
Verify(c, verified) ==
    /\ At(c, "verify")
    /\ IF verified
       THEN Goto(c, "reconcile") /\ UNCHANGED effects
       ELSE Raise(c) /\ Ends(c, "unproven")
    /\ UNCHANGED <<contexts, permits, ledger, now>>

Reconcile(c, receipt) ==
    /\ At(c, "reconcile")
    /\ Ends(c, IF receipt THEN "completed" ELSE "unproven")
    /\ Become(c, Idle)
    /\ UNCHANGED <<contexts, permits, ledger, now>>

\* The process dies within a call; an executor under way may have done its work.
Crash(c) ==
    /\ ~At(c, "idle")
    /\ IF coordinator[c].effect # 0 THEN Ends(c, "unproven") ELSE UNCHANGED effects
    /\ Become(c, Idle)
    /\ UNCHANGED <<contexts, permits, ledger, now>>

-----------------------------------------------------------------------------
\* ttl_seconds, and how long a snapshot is valid, in ticks of the clock.
Lifetimes == {0, 1}

Next ==
    \/ Tick
    \/ \E content \in Contents, life \in Lifetimes : Publish(content, life)
    \/ \E c \in Coordinators, a \in Actions, s \in DOMAIN contexts :
          \/ RequestReadsContext(c, a, s)
          \/ \E n \in DOMAIN permits : Execute(c, a, n, s)
    \/ \E c \in Coordinators, ttl \in Lifetimes : Issue(c, ttl)
    \/ \E c \in Coordinators : Fetch(c) \/ Check(c) \/ Consume(c) \/ CallExecutor(c) \/ Crash(c)
    \/ \E c \in Coordinators, ok \in BOOLEAN : Verify(c, ok) \/ Reconcile(c, ok)

Spec == Init /\ [][Next]_vars

-----------------------------------------------------------------------------
(* Properties *)

\* "Persistent one-time-use": however many coordinators race with one permit,
\* and whatever crashes, fails or is retried, its executor runs once at most.
OncePerPermit ==
    \A i, j \in DOMAIN effects : effects[i].permit = effects[j].permit => i = j

\* Whatever is executed was trusted and, if need be, approved by one snapshot
\* that was current at the start of the call or later: "callers cannot revive
\* superseded approvals or authority profiles with an older ID", nor with a
\* permit issued under one.  Approvals are looked at when a permit is issued, never
\* again when it is spent.
AuthorizedByCurrentContext ==
    \A i \in DOMAIN effects : LET e == effects[i] IN
        /\ permits[e.permit].action = e.action
        /\ e.snapshot >= e.since
        /\ e.action \in contexts[e.snapshot].content.trusted
        /\ Approved(e.snapshot, e.action)

-----------------------------------------------------------------------------
(* Proofs, for any coordinators, actions, snapshots and bounds.  The        *)
(* invariant says what a call knows at each of its steps, that a permit was *)
(* issued for what its snapshot allows, and that an effect spends a permit. *)

\* The snapshot is there, trusts the action and has the approval it needs.
Allows(s, a) ==
    s \in DOMAIN contexts /\ a \in contexts[s].content.trusted /\ Approved(s, a)

Issued == \A n \in DOMAIN permits : Allows(permits[n].snapshot, permits[n].action)

Spent ==
    \A i \in DOMAIN effects : LET e == effects[i] IN
        /\ e.permit \in ledger /\ Matches(e.permit, e.action, e.snapshot)
        /\ e.since <= e.snapshot

Unspent(n) == \A i \in DOMAIN effects : effects[i].permit # n

Spending == {"fetch", "check", "consume", "execute"}

Knows(me) ==
    /\ me.pc # "idle" => me.action \in Actions /\ me.snapshot \in DOMAIN contexts
    /\ me.pc \in Spending => me.permit \in DOMAIN permits /\ me.since <= Len(contexts)
    /\ me.pc \in {"check", "consume", "execute"} => me.since <= me.snapshot
    /\ me.pc \in {"consume", "execute"} => Matches(me.permit, me.action, me.snapshot)
    /\ me.pc = "execute" => me.permit \in ledger /\ Unspent(me.permit)
    /\ me.effect # 0 => me.effect \in DOMAIN effects
    /\ me.pc \in {"verify", "reconcile"} => me.effect # 0

AllKnow == \A c \in Coordinators : Knows(coordinator[c])

OneSpender ==
    \A c, d \in Coordinators :
        /\ At(c, "execute") /\ At(d, "execute")
        /\ coordinator[c].permit = coordinator[d].permit
        => c = d

GInv == TypeOK /\ Issued /\ Spent /\ AllKnow /\ OneSpender /\ OncePerPermit

\* A call's local variables are set on their own (Become).
LEMMA BecomeDoes ==
  ASSUME TypeOK, NEW c \in Coordinators, NEW me \in Calls, Become(c, me)
  PROVE  /\ coordinator' \in [Coordinators -> Calls]
         /\ coordinator'[c] = me
         /\ \A d \in Coordinators \ {c} : coordinator'[d] = coordinator[d]
  BY DEF TypeOK, Become

\* Raising, or going on to another label, keeps a call well typed and all else it has.
LEMMA CallsMove ==
  ASSUME NEW me \in Calls, NEW pc \in Labels
  PROVE  /\ Idle \in Calls /\ Idle.pc = "idle" /\ Idle.effect = 0
         /\ [me EXCEPT !.pc = pc] \in Calls
         /\ LET m == [me EXCEPT !.pc = pc] IN
            /\ m.pc = pc /\ m.action = me.action /\ m.permit = me.permit
            /\ m.snapshot = me.snapshot /\ m.since = me.since /\ m.effect = me.effect
  BY DEF Calls, Idle, Labels

\* An idle call knows nothing that could be wrong.
LEMMA IdleKnows == Knows(Idle) /\ Knows(Idle)'
  BY DEF Knows, Idle, Spending

\* What the steps of a call that leave snapshots, permits, ledger and effects alone keep:
\* all but what the call itself knows.
LEMMA Private ==
  ASSUME GInv, NEW c \in Coordinators, NEW me \in Calls, Become(c, me), Knows(me),
         me.pc # "execute", UNCHANGED <<contexts, permits, ledger, effects, now>>
  PROVE  GInv'
<1>1. /\ coordinator' \in [Coordinators -> Calls] /\ coordinator'[c] = me
      /\ \A d \in Coordinators \ {c} : coordinator'[d] = coordinator[d]
  BY BecomeDoes DEF GInv
<1>2. TypeOK'
  BY <1>1 DEF GInv, TypeOK
<1>3. Issued' /\ Spent' /\ OncePerPermit'
  BY DEF GInv, Issued, Spent, OncePerPermit, Allows, Approved, NeedsHuman, Matches
<1>4. AllKnow'
  BY <1>1 DEF GInv, AllKnow, Knows, Unspent, Matches
<1>5. OneSpender'
  BY <1>1 DEF GInv, OneSpender, At
<1> QED BY <1>2, <1>3, <1>4, <1>5 DEF GInv

\* A new snapshot, permit or row of the ledger takes nothing from what was there (Publish,
\* Issue): the places of a sequence stay what they are when it grows.
LEMMA Grows ==
  ASSUME NEW S, NEW s \in Seq(S), NEW e \in S
  PROVE  /\ Append(s, e) \in Seq(S) /\ Len(Append(s, e)) = Len(s) + 1
         /\ DOMAIN Append(s, e) = DOMAIN s \cup {Len(s) + 1} /\ Len(s) + 1 \notin DOMAIN s
         /\ Append(s, e)[Len(s) + 1] = e
         /\ \A i \in DOMAIN s : Append(s, e)[i] = s[i]
         /\ DOMAIN s = 1..Len(s) /\ Len(s) \in Nat
  OBVIOUS

\* What a snapshot allowed it allows after another was published: superseded snapshots are
\* kept, and are refused only where a call asks for the current one.
LEMMA PublishStep ==
  ASSUME GInv, NEW content \in Contents, NEW life \in Lifetimes, Publish(content, life)
  PROVE  GInv'
<1> DEFINE e == [content |-> content, expires |-> now + life]
<1>1. e \in Snapshots /\ contexts \in Seq(Snapshots)
  BY DEF GInv, TypeOK, Snapshots, Lifetimes
<1>2. contexts' = Append(contexts, e) /\ UNCHANGED <<permits, ledger, effects, coordinator, now>>
  BY DEF Publish
<1> HIDE DEF e
<1>3. /\ contexts' \in Seq(Snapshots) /\ DOMAIN contexts \subseteq DOMAIN contexts'
      /\ Len(contexts') = Len(contexts) + 1 /\ Len(contexts) \in Nat
      /\ \A s \in DOMAIN contexts : contexts'[s] = contexts[s]
  BY <1>1, <1>2, Grows
<1>4. TypeOK'
  BY <1>2, <1>3 DEF GInv, TypeOK
<1>5. Issued'
  BY <1>2, <1>3 DEF GInv, Issued, Allows, Approved, NeedsHuman
<1>6. Spent' /\ OneSpender' /\ OncePerPermit'
  BY <1>2 DEF GInv, Spent, Matches, OneSpender, At, OncePerPermit
<1>7. AllKnow'
  <2>1. ASSUME NEW c \in Coordinators
        PROVE  Knows(coordinator[c])'
    <3>1. Knows(coordinator[c]) /\ coordinator[c].since \in Nat
      BY DEF GInv, AllKnow, TypeOK, Calls
    <3> QED BY <1>2, <1>3, <3>1 DEF Knows, Unspent, Matches
  <2> QED BY <2>1 DEF AllKnow
<1> QED BY <1>4, <1>5, <1>6, <1>7 DEF GInv

\* A permit is issued only for an action that its snapshot trusts and has the approval for.
LEMMA IssueStep ==
  ASSUME GInv, NEW c \in Coordinators, NEW ttl \in Lifetimes, Issue(c, ttl)
  PROVE  GInv'
<1> DEFINE me == coordinator[c]
           e == [action |-> me.action, snapshot |-> me.snapshot, expires |-> now + ttl]
<1>1. /\ TypeOK /\ me \in Calls /\ me.pc = "issue" /\ Knows(me)
      /\ Become(c, Idle) /\ UNCHANGED <<contexts, ledger, effects, now>>
  BY DEF GInv, AllKnow, TypeOK, Issue, At
<1>2. Idle \in Calls /\ Knows(Idle) /\ Idle.pc # "execute"
  BY <1>1, CallsMove, IdleKnows DEF Labels
<1>3. CASE UNCHANGED permits
  BY <1>1, <1>2, <1>3, Private
<1>4. CASE /\ permits' = Append(permits, e) /\ Crosschecks(me.snapshot, me.action)
           /\ Approved(me.snapshot, me.action)
  <2>1. e \in Permits /\ permits \in Seq(Permits)
    BY <1>1 DEF TypeOK, Calls, Permits, Knows, Lifetimes
  <2>2. Allows(e.snapshot, e.action)
    BY <1>1, <1>4 DEF Knows, Allows, Crosschecks
  <2> HIDE DEF e
  <2>3. /\ permits' \in Seq(Permits) /\ DOMAIN permits' = DOMAIN permits \cup {Len(permits) + 1}
        /\ permits'[Len(permits) + 1] = e
        /\ \A n \in DOMAIN permits : permits'[n] = permits[n]
    BY <1>4, <2>1, Grows
  <2>4. /\ coordinator' \in [Coordinators -> Calls] /\ coordinator'[c] = Idle
        /\ \A d \in Coordinators \ {c} : coordinator'[d] = coordinator[d]
    BY <1>1, <1>2, BecomeDoes
  <2>5. TypeOK'
    BY <1>1, <2>3, <2>4 DEF TypeOK
  <2>6. Issued'
    BY <1>1, <2>2, <2>3 DEF GInv, Issued, Allows, Approved, NeedsHuman
  <2>7. Spent'
    BY <1>1, <2>3 DEF GInv, TypeOK, Spent, Matches
  <2>8. AllKnow'
    <3>1. ASSUME NEW d \in Coordinators \ {c}
          PROVE  Knows(coordinator[d])'
      <4>1. Knows(coordinator[d])
        BY DEF GInv, AllKnow
      <4> QED BY <1>1, <2>3, <2>4, <4>1 DEF Knows, Unspent, Matches, Spending
    <3>2. Knows(coordinator[c])'
      BY <2>4 DEF Knows, Idle, Spending
    <3> QED BY <3>1, <3>2 DEF AllKnow
  <2>9. OneSpender' /\ OncePerPermit'
    BY <1>1, <1>2, <2>4 DEF GInv, OneSpender, At, OncePerPermit
  <2> QED BY <2>5, <2>6, <2>7, <2>8, <2>9 DEF GInv
<1> QED BY <1>3, <1>4 DEF Issue

\* The steps before the ledger: they read, and go on with what they found or raise.
LEMMA ReadStep ==
  ASSUME GInv, NEW c \in Coordinators,
         \/ \E a \in Actions, s \in DOMAIN contexts :
               \/ RequestReadsContext(c, a, s)
               \/ \E n \in DOMAIN permits : Execute(c, a, n, s)
         \/ Fetch(c) \/ Check(c)
  PROVE  GInv'
<1> DEFINE me == coordinator[c]
<1>1. /\ TypeOK /\ me \in Calls /\ Knows(me)
      /\ Len(contexts) \in Nat /\ DOMAIN contexts = 1..Len(contexts)
      /\ DOMAIN permits = 1..Len(permits)
  BY DEF GInv, AllKnow, TypeOK
<1>2. Idle \in Calls /\ Knows(Idle) /\ Idle.pc # "execute"
  BY <1>1, CallsMove, IdleKnows DEF Labels
<1>3. ASSUME NEW a \in Actions, NEW s \in DOMAIN contexts, RequestReadsContext(c, a, s)
      PROVE  GInv'
  <2> DEFINE m == [Idle EXCEPT !.pc = "issue", !.action = a, !.snapshot = s]
  <2>1. m \in Calls /\ m.pc = "issue" /\ m.action = a /\ m.snapshot = s /\ m.effect = 0
    BY <1>1, <1>2, s \in Nat DEF Calls, Idle, Labels
  <2>2. Become(c, m) /\ UNCHANGED <<contexts, permits, ledger, effects, now>>
    BY <1>3 DEF RequestReadsContext
  <2> HIDE DEF m
  <2>3. Knows(m)
    BY <2>1 DEF Knows, Spending
  <2> QED BY <2>1, <2>2, <2>3, Private
<1>4. ASSUME NEW a \in Actions, NEW s \in DOMAIN contexts, NEW n \in DOMAIN permits,
             Execute(c, a, n, s)
      PROVE  GInv'
  <2> DEFINE m == [Idle EXCEPT !.pc = "fetch", !.action = a, !.permit = n, !.snapshot = s,
                               !.since = Len(contexts)]
  <2>1. /\ m \in Calls /\ m.pc = "fetch" /\ m.action = a /\ m.snapshot = s /\ m.effect = 0
        /\ m.permit = n /\ m.since = Len(contexts)
    BY <1>1, <1>2, s \in Nat, n \in Nat DEF Calls, Idle, Labels
  <2>2. Become(c, m) /\ UNCHANGED <<contexts, permits, ledger, effects, now>>
    BY <1>4 DEF Execute
  <2> HIDE DEF m
  <2>3. Knows(m)
    BY <1>1, <2>1 DEF Knows, Spending
  <2> QED BY <2>1, <2>2, <2>3, Private
<1>5. CASE Fetch(c)
  <2> DEFINE m == [me EXCEPT !.pc = "check"]
  <2>1. /\ me.pc = "fetch" /\ UNCHANGED <<contexts, permits, ledger, effects, now>>
        /\ Become(c, Idle) \/ (Become(c, m) /\ me.snapshot = Len(contexts))
    BY <1>5 DEF Fetch, At, IsCurrent, Goto, Raise
  <2>2. /\ m \in Calls /\ m.pc = "check" /\ m.action = me.action /\ m.permit = me.permit
        /\ m.snapshot = me.snapshot /\ m.since = me.since /\ m.effect = me.effect
    BY <1>1, CallsMove DEF Labels
  <2> HIDE DEF m
  <2>3. me.snapshot = Len(contexts) => Knows(m)
    BY <1>1, <2>1, <2>2 DEF Knows, Spending
  <2> QED BY <1>2, <2>1, <2>2, <2>3, Private
<1>6. CASE Check(c)
  <2> DEFINE m == [me EXCEPT !.pc = "consume"]
  <2>1. /\ me.pc = "check" /\ UNCHANGED <<contexts, permits, ledger, effects, now>>
        /\ Become(c, Idle) \/ (Become(c, m) /\ Matches(me.permit, me.action, me.snapshot))
    BY <1>6 DEF Check, At, Goto, Raise
  <2>2. /\ m \in Calls /\ m.pc = "consume" /\ m.action = me.action /\ m.permit = me.permit
        /\ m.snapshot = me.snapshot /\ m.since = me.since /\ m.effect = me.effect
    BY <1>1, CallsMove DEF Labels
  <2> HIDE DEF m
  <2>3. Matches(me.permit, me.action, me.snapshot) => Knows(m)
    BY <1>1, <2>1, <2>2 DEF Knows, Spending
  <2> QED BY <1>2, <2>1, <2>2, <2>3, Private
<1> QED BY <1>3, <1>4, <1>5, <1>6

\* The ledger lets one call through per permit (SQLitePermitLedger.consume).
LEMMA ConsumeStep ==
  ASSUME GInv, NEW c \in Coordinators, Consume(c)
  PROVE  GInv'
<1> DEFINE me == coordinator[c]
           m == [me EXCEPT !.pc = "execute"]
<1>1. /\ TypeOK /\ me \in Calls /\ Knows(me) /\ me.pc = "consume"
      /\ UNCHANGED <<contexts, permits, effects, now>>
  BY DEF GInv, AllKnow, TypeOK, Consume, At
<1>2. Idle \in Calls /\ Knows(Idle) /\ Idle.pc # "execute"
  BY <1>1, CallsMove, IdleKnows DEF Labels
<1>3. CASE Become(c, Idle) /\ UNCHANGED ledger
  BY <1>1, <1>2, <1>3, Private
<1>4. CASE me.permit \notin ledger /\ ledger' = ledger \cup {me.permit} /\ Become(c, m)
  <2>1. /\ m \in Calls /\ m.pc = "execute" /\ m.action = me.action /\ m.permit = me.permit
        /\ m.snapshot = me.snapshot /\ m.since = me.since /\ m.effect = me.effect
    BY <1>1, CallsMove DEF Labels
  <2>2. /\ coordinator' \in [Coordinators -> Calls] /\ coordinator'[c] = m
        /\ \A d \in Coordinators \ {c} : coordinator'[d] = coordinator[d]
    BY <1>1, <1>4, <2>1, BecomeDoes
  <2> HIDE DEF m
  <2>3. Unspent(me.permit)
    BY <1>4 DEF GInv, Spent, Unspent
  <2>4. TypeOK'
    BY <1>1, <1>4, <2>2 DEF TypeOK, Knows, Spending
  <2>5. Issued' /\ Spent' /\ OncePerPermit'
    BY <1>1, <1>4 DEF GInv, Issued, Spent, OncePerPermit, Allows, Approved, NeedsHuman, Matches
  <2>6. Knows(coordinator[c])'
    BY <1>1, <1>4, <2>1, <2>2, <2>3 DEF Knows, Spending, Unspent, Matches
  <2>7. \A d \in Coordinators \ {c} : Knows(coordinator[d])'
    BY <1>1, <1>4, <2>2 DEF GInv, AllKnow, Knows, Unspent, Matches
  <2>8. AllKnow'
    BY <2>6, <2>7 DEF AllKnow
  <2>9. OneSpender'
    BY <1>4, <2>1, <2>2 DEF GInv, AllKnow, Knows, OneSpender, At
  <2> QED BY <2>4, <2>5, <2>8, <2>9 DEF GInv
<1> QED BY <1>3, <1>4 DEF Consume, Raise, Goto

\* The executor is called by the one call that has the permit, and the permit is spent.
LEMMA CallExecutorStep ==
  ASSUME GInv, NEW c \in Coordinators, CallExecutor(c)
  PROVE  GInv'
<1> DEFINE me == coordinator[c]
           n == Len(effects) + 1
           m == [me EXCEPT !.pc = "verify", !.effect = n]
           e == [action |-> me.action, permit |-> me.permit, snapshot |-> me.snapshot,
                 since |-> me.since, status |-> "running"]
<1>1. /\ TypeOK /\ me \in Calls /\ Knows(me) /\ me.pc = "execute" /\ effects \in Seq(Effects)
      /\ UNCHANGED <<contexts, permits, ledger, now>>
      /\ effects' = Append(effects, e) /\ Become(c, m)
  BY DEF GInv, AllKnow, TypeOK, CallExecutor, At
<1>2. e \in Effects
  BY <1>1 DEF Knows, Calls, Effects
<1>3. /\ e.permit = me.permit /\ e.action = me.action /\ e.snapshot = me.snapshot
      /\ e.since = me.since
  OBVIOUS
<1> HIDE DEF e
<1>4. /\ effects' \in Seq(Effects) /\ DOMAIN effects' = DOMAIN effects \cup {n}
      /\ n \notin DOMAIN effects /\ n \in Nat /\ n # 0 /\ effects'[n] = e
      /\ \A i \in DOMAIN effects : effects'[i] = effects[i]
  BY <1>1, <1>2, Grows
<1>5. m \in Calls /\ m.pc = "verify" /\ m.effect = n /\ m.action = me.action
      /\ m.snapshot = me.snapshot
  BY <1>1, <1>4 DEF Calls, Labels
<1>6. /\ coordinator' \in [Coordinators -> Calls] /\ coordinator'[c] = m
      /\ \A d \in Coordinators \ {c} : coordinator'[d] = coordinator[d]
  BY <1>1, <1>5, BecomeDoes
<1> HIDE DEF m, n
<1>7. TypeOK'
  BY <1>1, <1>4, <1>6 DEF TypeOK
<1>8. Issued'
  BY <1>1 DEF GInv, Issued, Allows, Approved, NeedsHuman
<1>9. Spent'
  <2>1. e.permit \in ledger /\ Matches(e.permit, e.action, e.snapshot) /\ e.since <= e.snapshot
    BY <1>1, <1>3 DEF Knows
  <2> QED BY <1>1, <1>4, <2>1 DEF GInv, Spent, Matches
<1>10. OncePerPermit'
  <2>1. \A i \in DOMAIN effects : effects[i].permit # e.permit
    BY <1>1, <1>3 DEF Knows, Unspent
  <2> QED BY <1>4, <2>1 DEF GInv, OncePerPermit
<1>11. AllKnow'
  <2>1. ASSUME NEW d \in Coordinators \ {c}
        PROVE  Knows(coordinator[d])'
    <3>1. Knows(coordinator[d])
      BY DEF GInv, AllKnow
    <3>2. coordinator[d].pc = "execute" => coordinator[d].permit # me.permit
      BY <1>1 DEF GInv, OneSpender, At
    <3>3. coordinator[d].pc = "execute" => Unspent(coordinator[d].permit)'
      BY <1>3, <1>4, <1>6, <3>1, <3>2 DEF Knows, Unspent
    <3> QED BY <1>1, <1>4, <1>6, <3>1, <3>3 DEF Knows, Matches
  <2>2. Knows(coordinator[c])'
    BY <1>1, <1>4, <1>5, <1>6 DEF Knows, Spending
  <2> QED BY <2>1, <2>2 DEF AllKnow
<1>12. OneSpender'
  BY <1>5, <1>6 DEF GInv, OneSpender, At
<1> QED BY <1>7, <1>8, <1>9, <1>10, <1>11, <1>12 DEF GInv

\* What becomes of an effect changes neither its permit nor what allowed it (Ends).
LEMMA EndsStep ==
  ASSUME GInv, NEW c \in Coordinators, NEW status \in {"completed", "unproven"},
         coordinator[c].effect # 0, Ends(c, status), Become(c, Idle),
         UNCHANGED <<contexts, permits, ledger, now>>
  PROVE  GInv'
<1> DEFINE me == coordinator[c]
<1>1. /\ TypeOK /\ me \in Calls /\ Knows(me) /\ effects \in Seq(Effects)
      /\ me.effect \in DOMAIN effects
  BY DEF GInv, AllKnow, TypeOK, Knows
<1>2. /\ effects' \in Seq(Effects) /\ DOMAIN effects' = DOMAIN effects
      /\ \A i \in DOMAIN effects :
            /\ effects'[i].permit = effects[i].permit /\ effects'[i].action = effects[i].action
            /\ effects'[i].snapshot = effects[i].snapshot /\ effects'[i].since = effects[i].since
  <2>1. effects[me.effect] \in Effects
    BY <1>1
  <2> DEFINE e == [effects[me.effect] EXCEPT !.status = status]
  <2>2. /\ e \in Effects /\ e.permit = effects[me.effect].permit
        /\ e.action = effects[me.effect].action /\ e.snapshot = effects[me.effect].snapshot
        /\ e.since = effects[me.effect].since
    BY <2>1 DEF Effects
  <2>3. effects' = [effects EXCEPT ![me.effect] = e]
    BY DEF Ends
  <2> HIDE DEF e
  <2> QED BY <1>1, <2>2, <2>3
<1>3. Idle \in Calls /\ Knows(Idle)' /\ Idle.pc # "execute"
  BY <1>1, CallsMove, IdleKnows DEF Labels
<1>4. /\ coordinator' \in [Coordinators -> Calls] /\ coordinator'[c] = Idle
      /\ \A d \in Coordinators \ {c} : coordinator'[d] = coordinator[d]
  BY <1>1, <1>3, BecomeDoes
<1>5. TypeOK'
  BY <1>1, <1>2, <1>4 DEF TypeOK
<1>6. Issued'
  BY DEF GInv, Issued, Allows, Approved, NeedsHuman
<1>7. Spent' /\ OncePerPermit'
  BY <1>2 DEF GInv, Spent, OncePerPermit, Matches
<1>8. AllKnow'
  <2>1. ASSUME NEW d \in Coordinators \ {c}
        PROVE  Knows(coordinator[d])'
    <3>1. Knows(coordinator[d])
      BY DEF GInv, AllKnow
    <3> QED BY <1>2, <1>4, <3>1 DEF Knows, Unspent, Matches
  <2>2. Knows(coordinator[c])'
    BY <1>4 DEF Knows, Idle, Spending
  <2> QED BY <2>1, <2>2 DEF AllKnow
<1>9. OneSpender'
  BY <1>3, <1>4 DEF GInv, OneSpender, At
<1> QED BY <1>5, <1>6, <1>7, <1>8, <1>9 DEF GInv

\* The end of a call, by the verifier, by reconciliation or by a crash.
LEMMA EndStep ==
  ASSUME GInv, NEW c \in Coordinators, NEW ok \in BOOLEAN,
         Verify(c, ok) \/ Reconcile(c, ok) \/ Crash(c)
  PROVE  GInv'
<1> DEFINE me == coordinator[c]
<1>1. TypeOK /\ me \in Calls /\ Knows(me)
  BY DEF GInv, AllKnow, TypeOK
<1>2. Idle \in Calls /\ Knows(Idle) /\ Idle.pc # "execute"
  BY <1>1, CallsMove, IdleKnows DEF Labels
<1>3. CASE Verify(c, ok)
  <2> DEFINE m == [me EXCEPT !.pc = "reconcile"]
  <2>1. /\ me.pc = "verify" /\ me.effect # 0 /\ UNCHANGED <<contexts, permits, ledger, now>>
        /\ \/ Become(c, m) /\ UNCHANGED effects
           \/ Become(c, Idle) /\ Ends(c, "unproven")
    BY <1>1, <1>3 DEF Verify, At, Goto, Raise, Knows
  <2>2. /\ m \in Calls /\ m.pc = "reconcile" /\ m.action = me.action /\ m.permit = me.permit
        /\ m.snapshot = me.snapshot /\ m.since = me.since /\ m.effect = me.effect
    BY <1>1, CallsMove DEF Labels
  <2> HIDE DEF m
  <2>3. Knows(m)
    BY <1>1, <2>1, <2>2 DEF Knows, Spending
  <2> QED BY <2>1, <2>2, <2>3, Private, EndsStep
<1>4. CASE Reconcile(c, ok)
  <2>1. /\ me.effect # 0 /\ Become(c, Idle) /\ UNCHANGED <<contexts, permits, ledger, now>>
        /\ Ends(c, "completed") \/ Ends(c, "unproven")
    BY <1>1, <1>4 DEF Reconcile, At, Knows
  <2> QED BY <2>1, EndsStep
<1>5. CASE Crash(c)
  <2>1. /\ Become(c, Idle) /\ UNCHANGED <<contexts, permits, ledger, now>>
        /\ \/ me.effect # 0 /\ Ends(c, "unproven")
           \/ UNCHANGED effects
    BY <1>5 DEF Crash
  <2> QED BY <1>2, <2>1, Private, EndsStep
<1> QED BY <1>3, <1>4, <1>5

\* Every step of the gate keeps the invariant.
LEMMA GInvStep == GInv /\ [Next]_vars => GInv'
<1> SUFFICES ASSUME GInv, [Next]_vars PROVE GInv'
  OBVIOUS
<1>1. CASE Tick \/ UNCHANGED vars
  <2>1. UNCHANGED <<contexts, permits, ledger, effects, coordinator>> /\ now' \in Nat
    BY <1>1 DEF Tick, vars, GInv, TypeOK
  <2>2. TypeOK'
    BY <2>1 DEF GInv, TypeOK
  <2>3. Issued' /\ Spent' /\ OncePerPermit' /\ OneSpender'
    BY <2>1 DEF GInv, Issued, Spent, OncePerPermit, Allows, Approved, NeedsHuman, Matches,
                OneSpender, At
  <2>4. AllKnow'
    BY <2>1 DEF GInv, AllKnow, Knows, Unspent, Matches
  <2> QED BY <2>2, <2>3, <2>4 DEF GInv
<1>2. ASSUME NEW content \in Contents, NEW life \in Lifetimes, Publish(content, life)
      PROVE  GInv'
  BY <1>2, PublishStep
<1>3. ASSUME NEW c \in Coordinators, NEW a \in Actions, NEW s \in DOMAIN contexts,
             RequestReadsContext(c, a, s) \/ \E n \in DOMAIN permits : Execute(c, a, n, s)
      PROVE  GInv'
  BY <1>3, ReadStep
<1>4. ASSUME NEW c \in Coordinators, NEW ttl \in Lifetimes, Issue(c, ttl)
      PROVE  GInv'
  BY <1>4, IssueStep
<1>5. ASSUME NEW c \in Coordinators,
             Fetch(c) \/ Check(c) \/ Consume(c) \/ CallExecutor(c) \/ Crash(c)
      PROVE  GInv'
  <2>1. CASE Fetch(c) \/ Check(c)
    BY <2>1, ReadStep
  <2>2. CASE Consume(c)
    BY <2>2, ConsumeStep
  <2>3. CASE CallExecutor(c)
    BY <2>3, CallExecutorStep
  <2>4. CASE Crash(c)
    BY <2>4, EndStep, TRUE \in BOOLEAN
  <2> QED BY <1>5, <2>1, <2>2, <2>3, <2>4
<1>6. ASSUME NEW c \in Coordinators, NEW ok \in BOOLEAN, Verify(c, ok) \/ Reconcile(c, ok)
      PROVE  GInv'
  BY <1>6, EndStep
<1> QED BY <1>1, <1>2, <1>3, <1>4, <1>5, <1>6 DEF Next

\* Nothing is issued, spent or under way at the start.
LEMMA GInvInit == Init => GInv
<1> SUFFICES ASSUME Init PROVE GInv
  OBVIOUS
<1>1. \A c \in Coordinators : coordinator[c] = Idle
  BY DEF Init
<1>2. Idle \in Calls /\ Idle.pc # "execute"
  BY DEF Idle, Calls, Labels
<1>3. TypeOK
  BY <1>2 DEF Init, TypeOK
<1>4. AllKnow
  BY <1>1, IdleKnows DEF AllKnow
<1>5. OneSpender
  BY <1>1, <1>2 DEF OneSpender, At
<1>6. Issued /\ Spent /\ OncePerPermit
  BY DEF Init, Issued, Spent, OncePerPermit
<1> QED BY <1>3, <1>4, <1>5, <1>6 DEF GInv

\* What is executed is what its permit, and the snapshot of its permit, allow.
LEMMA GInvAuthorizes == GInv => AuthorizedByCurrentContext
<1> SUFFICES ASSUME GInv, NEW i \in DOMAIN effects
             PROVE  LET e == effects[i] IN
                    /\ permits[e.permit].action = e.action
                    /\ e.snapshot >= e.since
                    /\ e.action \in contexts[e.snapshot].content.trusted
                    /\ Approved(e.snapshot, e.action)
  BY DEF AuthorizedByCurrentContext
<1> DEFINE e == effects[i]
<1>1. /\ e.permit \in ledger /\ Matches(e.permit, e.action, e.snapshot)
      /\ e.since <= e.snapshot /\ e.permit \in DOMAIN permits
  BY DEF GInv, Spent, TypeOK
<1>2. e.since \in Nat /\ e.snapshot \in Nat
  <2>1. effects \in Seq(Effects)
    BY DEF GInv, TypeOK
  <2>2. e \in Effects
    BY <2>1
  <2> QED BY <2>2 DEF Effects
<1>3. Allows(e.snapshot, e.action)
  BY <1>1 DEF GInv, Issued, Matches
<1> QED BY <1>1, <1>2, <1>3 DEF Allows, Matches

\* The invariant holds throughout, for any coordinators that race, crash and retry while the
\* trusted sync publishes.
THEOREM GatewayInvariance == Spec => []GInv
  BY GInvInit, GInvStep, PTL DEF Spec

\* A permit runs its executor once at most, whoever races for it and whatever crashes.
THEOREM PermitsAreSpentOnce == Spec => []OncePerPermit
  BY GatewayInvariance, PTL DEF GInv

\* Whatever runs was trusted and approved by a snapshot that was current at the start of its
\* call or later, though approvals are looked at only when the permit is issued.
THEOREM NoRevivedAuthority == Spec => []AuthorizedByCurrentContext
  BY GInvAuthorizes, GatewayInvariance, PTL

=============================================================================

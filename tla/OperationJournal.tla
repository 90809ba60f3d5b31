-------------------------- MODULE OperationJournal --------------------------
(***************************************************************************)
(* n0te/operations.py: the durable execute-once journal.  An operation is  *)
(* an immutable row found by its idempotency key, and an append-only list  *)
(* of events from which _derive recomputes its state each time it is read. *)
(* Callers race: prepare() looks the key up outside the transaction that   *)
(* inserts it, every other call reads and appends within one transaction.  *)
(***************************************************************************)
EXTENDS Naturals, FiniteSets, Sequences, SequencesExt, TLAPS

CONSTANTS
    Callers,      \* processes that use the journal
    Keys,         \* idempotency keys
    Identities,   \* what a row binds: intent, approval, Song, Version, route
    Outbound,     \* the identities whose intent has a destination
    OpIds,        \* fresh operation ids (a bound on the rows)
    NoOp          \* no operation

ASSUME JournalAssumption == Outbound \subseteq Identities /\ NoOp \notin OpIds /\ "none" \notin Keys

VARIABLES
    rows,    \* operations table: the key and identity of each id
    events,  \* operation_events of each id, in sequence order
    caller   \* the call of prepare() each caller is in, and its answer

vars == <<rows, events, caller>>

-----------------------------------------------------------------------------
NoRow == [key |-> "none", identity |-> "none"]
Rows == [key : Keys, identity : Identities]

EventTypes == {"PREPARED", "EXECUTION_CLAIMED", "SUCCEEDED", "FAILED", "UNKNOWN",
               "RECONCILED_SUCCEEDED", "RECONCILED_FAILED"}

Idle == [pc |-> "idle", key |-> "none", identity |-> "none", answer |-> NoOp]

\* _derive: a loop over the events; ok is lost where it raises.
Blank == [ok |-> TRUE, state |-> "ABSENT", effective |-> "NONE", attempts |-> 0,
          reconciled |-> FALSE]

DeriveEvent(d, kind) ==
    CASE kind = "PREPARED" /\ d = Blank ->
            [d EXCEPT !.state = "PREPARED"]
      [] kind = "EXECUTION_CLAIMED" /\ d.state = "PREPARED" /\ d.attempts = 0 ->
            [d EXCEPT !.state = "EXECUTING", !.attempts = 1]
      [] kind \in {"SUCCEEDED", "FAILED", "UNKNOWN"} /\ d.state = "EXECUTING" ->
            [d EXCEPT !.state = kind, !.effective = kind]
      [] kind \in {"RECONCILED_SUCCEEDED", "RECONCILED_FAILED"}
         /\ d.state = "UNKNOWN" /\ ~d.reconciled ->
            [d EXCEPT !.effective = IF kind = "RECONCILED_SUCCEEDED" THEN "SUCCEEDED" ELSE "FAILED",
                      !.reconciled = TRUE]
      [] OTHER -> [d EXCEPT !.ok = FALSE]

Derive(history) ==
    LET d[n \in 0..Len(history)] == IF n = 0 THEN Blank ELSE DeriveEvent(d[n - 1], history[n])
    IN  d[Len(history)]

Get(o) == Derive(events[o])

\* by_idempotency_key: the id of the row with this key, if there is one.
ByKey(key) == {o \in OpIds : rows[o].key = key}

Append_event(o, kind) == events' = [events EXCEPT ![o] = Append(@, kind)]

TypeOK ==
    /\ rows \in [OpIds -> Rows \cup {NoRow}]
    /\ events \in [OpIds -> Seq(EventTypes)]
    /\ caller \in [Callers -> [pc : {"idle", "insert", "prepared"}, key : Keys \cup {"none"},
                               identity : Identities \cup {"none"}, answer : OpIds \cup {NoOp}]]

Init ==
    /\ rows = [o \in OpIds |-> NoRow]
    /\ events = [o \in OpIds |-> <<>>]
    /\ caller = [c \in Callers |-> Idle]

-----------------------------------------------------------------------------
\* prepare() answers with the row of this key if it is exactly the operation
\* asked for, and raises otherwise.
Answer(c, key, identity, o) ==
    caller' = [caller EXCEPT ![c] =
        IF rows[o].identity = identity
        THEN [pc |-> "prepared", key |-> key, identity |-> identity, answer |-> o]
        ELSE Idle]

\* The lookup that precedes the insert.
PrepareLooksUp(c, key, identity) ==
    /\ caller[c].pc = "idle"
    /\ \/ \E o \in ByKey(key) : Answer(c, key, identity, o)
       \/ /\ ByKey(key) = {}
          /\ caller' = [caller EXCEPT ![c] = [pc |-> "insert", key |-> key,
                                              identity |-> identity, answer |-> NoOp]]
    /\ UNCHANGED <<rows, events>>

\* Mutant: idempotency_key is not UNIQUE.
PrepareInsertsAnyway(c, o) ==
    /\ caller[c].pc = "insert"
    /\ rows[o] = NoRow
    /\ rows' = [rows EXCEPT ![o] = [key |-> caller[c].key, identity |-> caller[c].identity]]
    /\ Append_event(o, "PREPARED")
    /\ caller' = [caller EXCEPT ![c].pc = "prepared", ![c].answer = o]

\* The insert of row and PREPARED event in one transaction.  The key is UNIQUE:
\* a caller that lost the race gets IntegrityError and looks again.
PrepareInserts(c, o) ==
    LET me == caller[c] IN
    /\ me.pc = "insert"
    /\ \/ /\ ByKey(me.key) = {}
          /\ rows[o] = NoRow
          /\ rows' = [rows EXCEPT ![o] = [key |-> me.key, identity |-> me.identity]]
          /\ Append_event(o, "PREPARED")
          /\ caller' = [caller EXCEPT ![c].pc = "prepared", ![c].answer = o]
       \/ /\ o \in ByKey(me.key)
          /\ Answer(c, me.key, me.identity, o)
          /\ UNCHANGED <<rows, events>>

\* _gates: an outbound operation needs both decisions to ALLOW its exact route;
\* a local one must not come with any.
Gates(identity, transport, eligibility) ==
    IF identity \in Outbound THEN transport = "ALLOW" /\ eligibility = "ALLOW"
    ELSE transport = "none" /\ eligibility = "none"

\* claim_execution, by any caller that holds the intent and approval of the row.
Claim_execution(o, identity, transport, eligibility) ==
    /\ rows[o] # NoRow /\ rows[o].identity = identity
    /\ Gates(identity, transport, eligibility)
    /\ Get(o).state = "PREPARED"
    /\ Append_event(o, "EXECUTION_CLAIMED")
    /\ UNCHANGED <<rows, caller>>

\* complete_success, complete_failure and mark_unknown.
Terminal(o, event) ==
    /\ Get(o).state = "EXECUTING"
    /\ Append_event(o, event)
    /\ UNCHANGED <<rows, caller>>

Reconcile_unknown(o, outcome) ==
    /\ Get(o).state = "UNKNOWN" /\ ~Get(o).reconciled
    /\ Append_event(o, IF outcome = "SUCCEEDED" THEN "RECONCILED_SUCCEEDED"
                       ELSE "RECONCILED_FAILED")
    /\ UNCHANGED <<rows, caller>>

\* The caller goes on to other work, or dies: either way the call is forgotten.
Forget(c) ==
    /\ caller[c].pc # "idle"
    /\ caller' = [caller EXCEPT ![c] = Idle]
    /\ UNCHANGED <<rows, events>>

Decisions == {"none", "ALLOW", "DENY"}

Next ==
    \/ \E c \in Callers, key \in Keys, identity \in Identities : PrepareLooksUp(c, key, identity)
    \/ \E c \in Callers, o \in OpIds : PrepareInserts(c, o)
    \/ \E o \in OpIds, identity \in Identities, x, y \in Decisions : Claim_execution(o, identity, x, y)
    \/ \E o \in OpIds, event \in {"SUCCEEDED", "FAILED", "UNKNOWN"} : Terminal(o, event)
    \/ \E o \in OpIds, outcome \in {"SUCCEEDED", "FAILED"} : Reconcile_unknown(o, outcome)
    \/ \E c \in Callers : Forget(c)

Spec == Init /\ [][Next]_vars

-----------------------------------------------------------------------------
(* Properties.                                                             *)

\* However callers race prepare(), a key names one operation, and all that
\* were answered for the same key and identity were given that operation.
OneOperationPerKey ==
    /\ \A key \in Keys : \A o, p \in ByKey(key) : o = p
    /\ \A c \in Callers : caller[c].pc = "prepared" =>
          rows[caller[c].answer] = [key |-> caller[c].key, identity |-> caller[c].identity]

\* "execute-once": one execution is granted per idempotency key, ever.
ClaimedOnce ==
    \A key \in Keys : \A o, p \in ByKey(key) : \A i \in DOMAIN events[o], j \in DOMAIN events[p] :
        events[o][i] = "EXECUTION_CLAIMED" /\ events[p][j] = "EXECUTION_CLAIMED" => o = p /\ i = j

\* _validate_existing: whatever happened before the process died, the journal
\* opens again.
JournalOpens ==
    \A o \in OpIds : /\ Get(o).ok
                     /\ (events[o] = <<>>) = (rows[o] = NoRow)

\* An outcome the journal has given out is never taken back or contradicted;
\* only UNKNOWN may still become known.
OutcomeStands ==
    [][\A o \in OpIds : Get(o).effective \in {"SUCCEEDED", "FAILED"} =>
          Get(o)'.effective = Get(o).effective]_vars

\* The journal implements the lifecycle, an operation being its key.
KeyState(key) ==
    IF ByKey(key) = {} THEN "ABSENT" ELSE Get(CHOOSE o \in ByKey(key) : TRUE).state

KeySettled(key) ==
    LET d == Get(CHOOSE o \in ByKey(key) : TRUE) IN
    IF ByKey(key) = {} \/ ~d.reconciled THEN "NONE" ELSE d.effective

Lifecycle == INSTANCE OperationLifecycle WITH
    Operations <- Keys,
    opState <- [key \in Keys |-> KeyState(key)],
    settled <- [key \in Keys |-> KeySettled(key)]

\* Each step of the journal is a step of OperationLifecycle or changes nothing
\* the lifecycle sees.
ImplementsLifecycle == Lifecycle!Spec

=============================================================================

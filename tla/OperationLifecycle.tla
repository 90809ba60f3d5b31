------------------------- MODULE OperationLifecycle -------------------------
(***************************************************************************)
(* What the operation journal promises about one operation, without its    *)
(* rows, events, callers or transactions: it is prepared once, claimed for *)
(* execution once, ends once, and only an UNKNOWN end may still be         *)
(* settled, once.  OperationJournal and TransactionCoordinator are shown   *)
(* to implement it.                                                        *)
(***************************************************************************)
CONSTANT Operations

VARIABLES
    opState,  \* recorded_state, or ABSENT before prepare()
    settled   \* what an UNKNOWN operation was reconciled to, or NONE

lifecycleVars == <<opState, settled>>

Outcomes == {"SUCCEEDED", "FAILED"}

Init ==
    /\ opState = [o \in Operations |-> "ABSENT"]
    /\ settled = [o \in Operations |-> "NONE"]

Moves(o, from, to) ==
    /\ opState[o] = from
    /\ opState' = [opState EXCEPT ![o] = to]
    /\ UNCHANGED settled

Settles(o, outcome) ==
    /\ opState[o] = "UNKNOWN" /\ settled[o] = "NONE"
    /\ settled' = [settled EXCEPT ![o] = outcome]
    /\ UNCHANGED opState

Next ==
    \E o \in Operations :
        \/ Moves(o, "ABSENT", "PREPARED")
        \/ Moves(o, "PREPARED", "EXECUTING")
        \/ \E end \in Outcomes \cup {"UNKNOWN"} : Moves(o, "EXECUTING", end)
        \/ \E outcome \in Outcomes : Settles(o, outcome)

Spec == Init /\ [][Next]_lifecycleVars

=============================================================================

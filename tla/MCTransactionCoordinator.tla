---------------------- MODULE MCTransactionCoordinator ----------------------
(***************************************************************************)
(* Two callers race two plans of one operation.                            *)
(***************************************************************************)
EXTENDS TransactionCoordinator, TLC

CONSTANTS o1, t1, t2

\* The longer plan has a step in its middle that cannot be compensated.
RacePlanOp == t1 :> o1 @@ t2 :> o1
RacePlanLen == t1 :> 3 @@ t2 :> 1
RaceCompensatable == t1 :> {1, 3} @@ t2 :> {1}

=============================================================================

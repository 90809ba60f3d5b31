------------------------ MODULE MCApplicationUpdate ------------------------
(***************************************************************************)
(* Two releases, the second with a new schema.                             *)
(***************************************************************************)
EXTENDS ApplicationUpdate, TLC

CONSTANTS old, new

Both == {old, new}
Schemas == [r \in Both |-> IF r = new THEN 2 ELSE 1]
Alike == Permutations(Process) \cup Permutations(Update)
=============================================================================

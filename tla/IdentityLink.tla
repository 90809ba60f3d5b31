---------------------------- MODULE IdentityLink ----------------------------
(***************************************************************************)
(* What person_identity.py promises about an external identity: it is      *)
(* nobody's or one person's, and goes from one person to another only      *)
(* through a decision that takes it from the first.                        *)
(***************************************************************************)
CONSTANTS Identities, People, Nobody

VARIABLE owner

Init == owner = [i \in Identities |-> Nobody]

\* link, of an identity nobody is linked to.
Link(i, p) == owner[i] = Nobody /\ owner' = [owner EXCEPT ![i] = p]

\* split
Split(i) == owner[i] # Nobody /\ owner' = [owner EXCEPT ![i] = Nobody]

Next == \E i \in Identities : Split(i) \/ \E p \in People : Link(i, p)

Spec == Init /\ [][Next]_owner

=============================================================================

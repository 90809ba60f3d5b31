---------------------------- MODULE SongVersions ----------------------------
(***************************************************************************)
(* n0te/lineage.py: the Songs of a profile, their Versions, and the two    *)
(* pointers that other memories bind themselves to: the current Version    *)
(* and the approved one.  Versions are never changed or removed; the       *)
(* pointers move freely, back to an older Version included.                *)
(***************************************************************************)
EXTENDS Naturals, FiniteSets

CONSTANTS
    Songs,      \* Songs of the profile
    Versions,   \* fresh Version ids (a bound)
    None        \* NULL

VARIABLES
    versionOf,  \* versions.song_id: None while the id is not used
    current,    \* songs.current_version_id
    approved    \* songs.approved_version_id

lineage == <<versionOf, current, approved>>

VersionsOf(song) == {v \in Versions : versionOf[v] = song}

LineageTypeOK ==
    /\ versionOf \in [Versions -> Songs \cup {None}]
    /\ \A song \in Songs :
          /\ current[song] \in VersionsOf(song) \cup {None}
          /\ approved[song] \in VersionsOf(song) \cup {None}

LineageInit ==
    /\ versionOf = [v \in Versions |-> None]
    /\ current = [song \in Songs |-> None]
    /\ approved = [song \in Songs |-> None]

\* create_version: one transaction; the parent, label and assets are left out.
Create_version(song, v, makeCurrent) ==
    /\ versionOf[v] = None
    /\ versionOf' = [versionOf EXCEPT ![v] = song]
    /\ current' = [current EXCEPT ![song] = IF makeCurrent THEN v ELSE @]
    /\ UNCHANGED approved

\* Versions are immutable, so what is read before the transaction still holds in it.
Set_current_version(song, v) ==
    /\ v \in VersionsOf(song)
    /\ current' = [current EXCEPT ![song] = v]
    /\ UNCHANGED <<versionOf, approved>>

Approve_version(song, v) ==
    /\ v \in VersionsOf(song)
    /\ approved' = [approved EXCEPT ![song] = v]
    /\ UNCHANGED <<versionOf, current>>

LineageNext ==
    \E song \in Songs, v \in Versions :
        \/ \E makeCurrent \in BOOLEAN : Create_version(song, v, makeCurrent)
        \/ Set_current_version(song, v)
        \/ Approve_version(song, v)

=============================================================================

---------------------------- MODULE SongMaterial ----------------------------
(***************************************************************************)
(* n0te/material.py: the bytes of a Song's Versions.  An ingest writes a   *)
(* staging file, links it into a store of files named by their digest, and *)
(* only then commits the Asset and the Version to the lineage database.    *)
(* Several ingests may be under way; the process may die and the power may *)
(* go between any two steps, and a file may be altered from outside.       *)
(***************************************************************************)
EXTENDS Naturals, Sequences, FiniteSets

CONSTANTS
    Songs,
    Contents,     \* bytes that are ingested, each with its digest
    NoContent,    \* a Version made without managed bytes
    Ingests,      \* calls of ingest_stream, each with a staging file of its own
    MaxVersions,  \* bound on the Versions of all the Songs
    MaxDamages,   \* bound on what happens to files from outside
    MaxOutages    \* bound on deaths of the process, with or without the power

VARIABLES
    ingests,   \* the calls under way
    staged,    \* the staging files there are
    blobs,     \* the file at each digest, and whether its directory entry is on the disk
    damaged,   \* what was altered or removed from outside
    lost,      \* what went with the power because its entry was not on the disk yet
    versions,  \* Versions in the order they were made, which is that of their ordinals
    current,   \* songs.current_version_id: an index of versions, or 0
    outages

vars == <<ingests, staged, blobs, damaged, lost, versions, current, outages>>

Null == 0
NoCall(at) == [at |-> at, song |-> Null, of |-> NoContent, found |-> FALSE]
Ended == NoCall("ended")
UnderWay == {i \in Ingests : ingests[i].at \notin {"idle", "ended", "died"}}
VersionsOf(song) == {v \in DOMAIN versions : versions[v].song = song}

TypeOK ==
    /\ \A i \in Ingests : ingests[i] \in
          [at : {"idle", "staged", "absent", "linked", "placed", "installed", "ended", "died"},
           song : Songs \cup {Null}, of : Contents \cup {NoContent}, found : BOOLEAN]
    /\ staged \subseteq Ingests
    /\ blobs \in [Contents -> [bytes : {"none", "whole", "altered"}, onDisk : BOOLEAN]]
    /\ damaged \subseteq Contents /\ lost \subseteq Contents
    /\ Len(versions) <= MaxVersions
    /\ \A v \in DOMAIN versions :
          /\ versions[v] \in [song : Songs, parent : 0 .. MaxVersions,
                              of : Contents \cup {NoContent}, found : BOOLEAN]
          /\ versions[v].parent # Null => versions[v].parent \in VersionsOf(versions[v].song)
    /\ \A song \in Songs : current[song] \in VersionsOf(song) \cup {Null}
    /\ outages \in 0 .. MaxOutages

Init ==
    /\ ingests = [i \in Ingests |-> NoCall("idle")]
    /\ staged = {}
    /\ blobs = [c \in Contents |-> [bytes |-> "none", onDisk |-> FALSE]]
    /\ damaged = {} /\ lost = {}
    /\ versions = <<>>
    /\ current = [song \in Songs |-> Null]
    /\ outages = 0

fileVars == <<blobs, damaged, lost>>
lineageVars == <<versions, current>>

Goes(i, at) == ingests' = [ingests EXCEPT ![i].at = at]

\* The bytes of the stream, flushed to a staging file under a fresh name.
Stage(i, song, content) ==
    /\ ingests[i].at = "idle"
    /\ ingests' = [ingests EXCEPT ![i] =
                      [at |-> "staged", song |-> song, of |-> content, found |-> FALSE]]
    /\ staged' = staged \cup {i}
    /\ UNCHANGED <<fileVars, lineageVars, outages>>

\* final_path.exists(): a file that is there is verified and nothing more.  (found is kept with
\* the Version below for VersionsHaveTheirBytes only.)
Look(i) ==
    /\ ingests[i].at = "staged"
    /\ IF blobs[ingests[i].of].bytes = "none"
          THEN Goes(i, "absent")
          ELSE ingests' = [ingests EXCEPT ![i].at = "placed", ![i].found = TRUE]
    /\ UNCHANGED <<staged, fileVars, lineageVars, outages>>

\* Mutant: the staged file is moved over whatever is there.
LinkReplaces(i) ==
    /\ ingests[i].at = "absent"
    /\ Goes(i, "linked")
    /\ blobs' = [blobs EXCEPT ![ingests[i].of] = [bytes |-> "whole", onDisk |-> FALSE]]
    /\ lost' = lost \ {ingests[i].of}
    /\ UNCHANGED <<staged, damaged, lineageVars, outages>>

\* os.link never replaces a file that appeared after Look: FileExistsError is passed over.
Link(i) ==
    /\ ingests[i].at = "absent"
    /\ Goes(i, "linked")
    /\ blobs' = [blobs EXCEPT ![ingests[i].of] =
                    IF @.bytes = "none" THEN [bytes |-> "whole", onDisk |-> FALSE] ELSE @]
    /\ lost' = lost \ {ingests[i].of}
    /\ UNCHANGED <<staged, damaged, lineageVars, outages>>

\* Mutant: the directories are left to be written back when the system likes.
Sync_dirsLater(i) ==
    /\ ingests[i].at = "linked"
    /\ Goes(i, "placed")
    /\ UNCHANGED <<staged, fileVars, lineageVars, outages>>

\* _fsync_dir of the digest's directory and of the one above it.
Sync_dirs(i) ==
    /\ ingests[i].at = "linked"
    /\ Goes(i, "placed")
    /\ blobs' = [blobs EXCEPT ![ingests[i].of].onDisk = @ \/ blobs[ingests[i].of].bytes # "none"]
    /\ UNCHANGED <<staged, damaged, lost, lineageVars, outages>>

\* _verify_blob; the staging file is removed whatever it finds.
Verify_blob(i) ==
    /\ ingests[i].at = "placed"
    /\ IF blobs[ingests[i].of].bytes = "whole"
          THEN Goes(i, "installed")
          ELSE ingests' = [ingests EXCEPT ![i] = Ended]
    /\ staged' = staged \ {i}
    /\ UNCHANGED <<fileVars, lineageVars, outages>>

Add(song, parent, content, found, makeCurrent) ==
    /\ Len(versions) < MaxVersions
    /\ versions' = Append(versions,
                      [song |-> song, parent |-> parent, of |-> content, found |-> found])
    /\ current' = [current EXCEPT ![song] = IF makeCurrent THEN Len(versions) + 1 ELSE @]

\* _commit_asset_version: one transaction, and the parent is what is current in it.
Commit_asset_version(i) ==
    /\ ingests[i].at = "installed"
    /\ LET call == ingests[i]
       IN  Add(call.song, current[call.song], call.of, call.found, TRUE)
    /\ ingests' = [ingests EXCEPT ![i] = Ended]
    /\ UNCHANGED <<staged, fileVars, outages>>

\* The stream is not of the declared size, the system refuses a file, or the database the
\* transaction: the staging file goes, and a file that was linked stays without a Version.
Fail(i) ==
    /\ ingests[i].at \in {"staged", "absent", "linked", "installed"}
    /\ ingests' = [ingests EXCEPT ![i] = Ended]
    /\ staged' = staged \ {i}
    /\ UNCHANGED <<fileVars, lineageVars, outages>>

\* LineageStore.create_version, with a parent of its caller's choice.
Create_version(song, parent, makeCurrent) ==
    /\ Add(song, parent, NoContent, FALSE, makeCurrent)
    /\ UNCHANGED <<ingests, staged, fileVars, outages>>

\* LineageStore.set_current_version: an older Version is taken up again.
Set_current_version(v) ==
    /\ current' = [current EXCEPT ![versions[v].song] = v]
    /\ UNCHANGED <<ingests, staged, fileVars, versions, outages>>

\* Somebody else alters or removes a file of the store.
Damage(c, into) ==
    /\ c \notin damaged /\ Cardinality(damaged) < MaxDamages
    /\ blobs[c].bytes # "none"
    /\ blobs' = [blobs EXCEPT ![c] = [bytes |-> into, onDisk |-> @.onDisk /\ into # "none"]]
    /\ damaged' = damaged \cup {c}
    /\ UNCHANGED <<ingests, staged, lost, lineageVars, outages>>

\* The process dies, and its staging files stay.
Die ==
    /\ outages < MaxOutages
    /\ outages' = outages + 1
    /\ ingests' = [i \in Ingests |-> IF i \in UnderWay THEN NoCall("died")
                                     ELSE ingests[i]]

Crash == Die /\ UNCHANGED <<staged, fileVars, lineageVars>>

\* The power goes too, and with it some of the entries that are not on the disk.  The database
\* is synchronous = FULL: what it committed stays.
Power_fails(gone) ==
    /\ Die
    /\ \A c \in gone : blobs[c].bytes # "none" /\ ~blobs[c].onDisk
    /\ blobs' = [c \in Contents |->
                    IF c \in gone THEN [bytes |-> "none", onDisk |-> FALSE]
                    ELSE [blobs[c] EXCEPT !.onDisk = @ \/ blobs[c].bytes # "none"]]
    /\ lost' = lost \cup gone
    /\ UNCHANGED <<staged, damaged, lineageVars>>

Next ==
    \/ \E i \in Ingests :
          \/ \E song \in Songs, c \in Contents : Stage(i, song, c)
          \/ Look(i) \/ Link(i) \/ Sync_dirs(i) \/ Verify_blob(i)
          \/ Commit_asset_version(i) \/ Fail(i)
    \/ \E song \in Songs, makeCurrent \in BOOLEAN :
          \E parent \in VersionsOf(song) \cup {Null} : Create_version(song, parent, makeCurrent)
    \/ \E v \in DOMAIN versions : Set_current_version(v)
    \/ \E c \in Contents, into \in {"none", "altered"} : Damage(c, into)
    \/ Crash
    \/ \E gone \in SUBSET Contents : Power_fails(gone)

Spec == Init /\ [][Next]_vars

\* resolve_asset and view_asset: what is said of the bytes of a Version.
View_asset(v) ==
    IF versions[v].of = NoContent THEN "EXTERNAL_REFERENCE"
    ELSE IF blobs[versions[v].of].bytes = "whole" THEN "VERIFIED_MANAGED"
    ELSE "INTEGRITY_ERROR"

-----------------------------------------------------------------------------
\* SongMaterialMemory ("bytes are installed before lineage"): a Version in the lineage has its
\* bytes, whatever died between the file and the database, unless somebody else touched the
\* file.  An ingest that found the file there did not sync its directory, and the power may
\* still take it: only then may such a Version be without its bytes.
VersionsHaveTheirBytes ==
    \A v \in DOMAIN versions :
        View_asset(v) = "INTEGRITY_ERROR" =>
            \/ versions[v].of \in damaged
            \/ versions[v].found /\ versions[v].of \in lost

\* _install_blob ("never overwrites an existing digest path"): a file that is there is never
\* replaced by an ingest, an altered one included: it stays for somebody to see.  (What a step
\* does.)
NothingIsReplaced ==
    \A c \in Contents :
        blobs[c].bytes # "none" /\ damaged' = damaged /\ outages' = outages
           => blobs'[c].bytes = blobs[c].bytes

\* The staging file of a call is there only while it runs, or for good when it died in between.
StagingIsCleared == \A i \in staged : i \in UnderWay \/ ingests[i].at = "died"

=============================================================================

---------------------------- MODULE ContentLayout ----------------------------
(***************************************************************************)
(* EnsureContentLayout (internal/vault/directories.go), which every Open   *)
(* runs: the user files of an older vault move from the virtual root into  *)
(* content/.  Several processes may open one vault at once, each may be    *)
(* killed or fail between two manifest files, and a device with an older   *)
(* version may bring files at the root again.                              *)
(***************************************************************************)
EXTENDS Naturals

CONSTANTS
    Proc,       \* the processes (GUI, CLI) that open the vault
    Name,       \* the paths of user files, relative to the root or to content/
    Dir,        \* the name of content/'s directory marker, and its content
    Layouts,    \* kinds of vault: with one manifest file per path or not
    NoFile,     \* no manifest
    Deleted,    \* a manifest with a tombstone
    MaxMigrations,  \* bound: calls of Open that migrate
    MaxWrites,  \* bound: puts, removals and deliveries
    Quiet       \* assumption: nobody else changes the vault during a migration

ASSUME NamesAssumption ==
    /\ Dir \notin Name
    /\ MaxMigrations \in Nat /\ MaxWrites \in Nat
    /\ Quiet \in BOOLEAN /\ Layouts \subseteq BOOLEAN

\* A path is a name in a place: 0 is the virtual root, 1 is content/, and k + 1
\* is the conflict path in content/ that the k-th migration makes of the
\* name (conflictPath is called with the current instant).
Place    == 0 .. MaxMigrations + 1
Root(n)  == <<n, 0>>
Moved(n) == <<n, 1>>
ConflictPath(n, k) == <<n, k + 1>>
Marker   == Moved(Dir)
UserPath == Name \X Place
Path     == UserPath \cup {Marker}
Roots    == Name \X {0}

\* A version is named after the path and the write that made it.
Version == UserPath \X (0 .. MaxWrites)
Absent  == {NoFile, Deleted}

ASSUME ContentAssumption == Absent \cap (Version \cup {Dir}) = {}

VARIABLES
    sharded,    \* usesManifestStore: one file per path, or one index for all
    files,      \* what is stored for each path
    pc,         \* "closed", "saving", "burying", "open"
    idx,        \* the index of each process, as migrated in memory
    toSave,     \* the manifests it has still to save
    toBury,     \* the paths it has still to write a tombstone for
    migrations, writes,
    owed,       \* history: versions that no user has replaced or removed
    current     \* history: processes since whose load nothing came to the root

vars == <<sharded, files, pc, idx, toSave, toBury, migrations, writes, owed, current>>

Nothing == [q \in Path |-> NoFile]

\* An older vault: no marker, user files at the root and perhaps in a directory
\* that happened to be called content.
Init ==
    /\ sharded \in Layouts
    /\ \E old \in SUBSET (Name \X {0, 1}) :
          /\ files = [q \in Path |-> IF q \in old THEN <<q, 0>> ELSE NoFile]
          /\ owed = {<<q, 0>> : q \in old}
    /\ pc = [p \in Proc |-> "closed"]
    /\ idx = [p \in Proc |-> Nothing]
    /\ toSave = [p \in Proc |-> {}] /\ toBury = [p \in Proc |-> {}]
    /\ migrations = 0 /\ writes = 0
    /\ current = {}

-----------------------------------------------------------------------------
LiveIn(fs)  == {q \in DOMAIN fs : fs[q] \notin Absent}
LegacyIn(fs) == LiveIn(fs) \cap Roots
Migrating(p) == pc[p] \in {"saving", "burying"}

\* Where the k-th migration moves the file of the root that is called n.
Target(fs, n, k) ==
    IF fs[Moved(n)] \in Absent THEN Moved(n) ELSE ConflictPath(n, k)

\* The index after the loop over the sorted paths: the targets differ, so
\* their order does not matter.
Migrated(fs, k) ==
    [q \in Path |->
        IF q = Marker THEN Dir
        ELSE IF q[2] = 0 THEN NoFile
        ELSE IF Root(q[1]) \in LegacyIn(fs) /\ Target(fs, q[1], k) = q
             THEN fs[Root(q[1])]
        ELSE IF fs[q] = Deleted THEN NoFile ELSE fs[q]]

\* Open of a vault that needs no change.
OpenCurrent(p) ==
    /\ pc[p] = "closed"
    /\ files[Marker] = Dir /\ LegacyIn(files) = {}
    /\ pc' = [pc EXCEPT ![p] = "open"]
    /\ current' = current \cup {p}
    /\ UNCHANGED <<sharded, files, idx, toSave, toBury, migrations, writes, owed>>

\* Mutant: files that get a conflict path are not marked as moved.
BuriedUnlessConflict(fs) == {q \in LegacyIn(fs) : fs[Moved(q[1])] \in Absent}
\* The old paths whose tombstones are written after all new manifests.
Buried(fs) == LegacyIn(fs)

\* Open of a vault with files at the root, or without the marker: LoadIndex and
\* the loop in memory.
OpenOutdated(p) ==
    /\ pc[p] = "closed" /\ migrations < MaxMigrations
    /\ files[Marker] # Dir \/ LegacyIn(files) # {}
    /\ migrations' = migrations + 1
    /\ pc' = [pc EXCEPT ![p] = "saving"]
    /\ idx' = [idx EXCEPT ![p] = Migrated(files, migrations + 1)]
    /\ toSave' = [toSave EXCEPT ![p] = LiveIn(idx'[p])]
    /\ toBury' = [toBury EXCEPT ![p] = Buried(files)]
    /\ current' = current \cup {p}
    /\ UNCHANGED <<sharded, files, writes, owed>>

\* saveFileManifest for every file of the index, in any order: those that have
\* not moved are saved again too.
SaveManifest(p, q) ==
    /\ pc[p] = "saving" /\ sharded /\ q \in toSave[p]
    /\ files' = [files EXCEPT ![q] = idx[p][q]]
    /\ toSave' = [toSave EXCEPT ![p] = @ \ {q}]
    /\ UNCHANGED <<sharded, pc, idx, toBury, migrations, writes, owed, current>>

\* Mutant: tombstones are written while manifests are still to be saved.
BeginBuryingEarly(p) ==
    /\ pc[p] = "saving" /\ sharded
    /\ pc' = [pc EXCEPT ![p] = "burying"]
    /\ UNCHANGED <<sharded, files, idx, toSave, toBury, migrations, writes, owed, current>>

BeginBurying(p) ==
    /\ pc[p] = "saving" /\ sharded /\ toSave[p] = {}
    /\ pc' = [pc EXCEPT ![p] = "burying"]
    /\ UNCHANGED <<sharded, files, idx, toSave, toBury, migrations, writes, owed, current>>

\* saveTombstone
SaveTombstone(p, q) ==
    /\ pc[p] = "burying" /\ q \in toBury[p]
    /\ files' = [files EXCEPT ![q] = Deleted]
    /\ toBury' = [toBury EXCEPT ![p] = @ \ {q}]
    /\ UNCHANGED <<sharded, pc, idx, toSave, migrations, writes, owed, current>>

\* Mutant: the list of manifests outlives the migration.
ForgetNotList(p) ==
    /\ idx' = [idx EXCEPT ![p] = Nothing]
    /\ toBury' = [toBury EXCEPT ![p] = {}]
    /\ UNCHANGED toSave

\* What a process had in memory for its migration is gone.
Forget(p) ==
    /\ idx' = [idx EXCEPT ![p] = Nothing]
    /\ toSave' = [toSave EXCEPT ![p] = {}]
    /\ toBury' = [toBury EXCEPT ![p] = {}]

FinishBurying(p) ==
    /\ pc[p] = "burying" /\ toBury[p] = {}
    /\ pc' = [pc EXCEPT ![p] = "open"]
    /\ Forget(p)
    /\ UNCHANGED <<sharded, files, migrations, writes, owed, current>>

\* SaveIndex of a vault with a single index file.
SaveIndex(p) ==
    /\ pc[p] = "saving" /\ ~sharded
    /\ files' = idx[p]
    /\ pc' = [pc EXCEPT ![p] = "open"]
    /\ Forget(p)
    /\ UNCHANGED <<sharded, migrations, writes, owed, current>>

\* The vault is closed, the process is killed, or saving a file fails.
Leave(p) ==
    /\ pc[p] # "closed"
    /\ pc' = [pc EXCEPT ![p] = "closed"]
    /\ Forget(p)
    /\ current' = current \ {p}
    /\ UNCHANGED <<sharded, files, migrations, writes, owed>>

-----------------------------------------------------------------------------
(* The vault in use                                                        *)

\* One more write, which replaces what q holds; its steps are the subject of
\* VaultStore.
Write(q, x) ==
    /\ Quiet => \A p \in Proc : ~Migrating(p)
    /\ writes < MaxWrites
    /\ writes' = writes + 1
    /\ files' = [files EXCEPT ![q] = x]
    /\ owed' = (owed \ {files[q]}) \cup ({x} \ Absent)
    /\ UNCHANGED <<sharded, pc, idx, toSave, toBury, migrations>>

\* normalizeContentFilePath puts every user path into content/.
Put(n) ==
    /\ \E p \in Proc : pc[p] = "open"
    /\ Write(Moved(n), <<Moved(n), writes + 1>>)
    /\ UNCHANGED current

\* RemovePath of one file; without manifests the entry just goes.
Remove(q) ==
    /\ \E p \in Proc : pc[p] = "open"
    /\ q \in (LiveIn(files) \cap UserPath) \ Roots
    /\ Write(q, IF sharded THEN Deleted ELSE NoFile)
    /\ UNCHANGED current

\* The sync client brings the manifest that a device with an older version has
\* saved at the root.
Deliver(n) ==
    /\ sharded
    /\ Write(Root(n), <<Root(n), writes + 1>>)
    /\ current' = {}

Next ==
    \/ \E p \in Proc :
          \/ OpenCurrent(p) \/ OpenOutdated(p) \/ BeginBurying(p)
          \/ FinishBurying(p) \/ SaveIndex(p) \/ Leave(p)
          \/ \E q \in Path : SaveManifest(p, q) \/ SaveTombstone(p, q)
    \/ \E n \in Name : Put(n) \/ Deliver(n)
    \/ \E q \in UserPath : Remove(q)

Spec == Init /\ [][Next]_vars

-----------------------------------------------------------------------------
TypeOK ==
    /\ sharded \in BOOLEAN
    /\ files \in [Path -> Version \cup Absent \cup {Dir}]
    /\ files[Marker] \in {NoFile, Dir}
    /\ pc \in [Proc -> {"closed", "saving", "burying", "open"}]
    /\ idx \in [Proc -> [Path -> Version \cup {NoFile, Dir}]]
    /\ \A p \in Proc : idx[p][Marker] \in {NoFile, Dir}
    /\ toSave \in [Proc -> SUBSET Path] /\ toBury \in [Proc -> SUBSET Roots]
    /\ \A p \in Proc : ~Migrating(p) => toSave[p] = {} /\ toBury[p] = {}
    /\ migrations \in 0 .. MaxMigrations /\ writes \in 0 .. MaxWrites
    /\ owed \subseteq Version
    /\ current \subseteq Proc

\* No migration loses a file: wherever processes that open the vault are
\* killed, and however many migrate at once, every version that no user has
\* replaced or removed is stored at some path (EnsureContentLayout saves all
\* new manifests before the first tombstone and never moves onto a file).
Stored(v) == \E q \in Path : files[q] = v
Kept == \A v \in owed : Stored(v)

\* A process whose Open has returned shows no file outside content/ but those
\* that were delivered after its load, even though other processes were killed
\* in the middle of their migrations or are still at theirs.
OpenMeansUpgraded ==
    \A p \in current : pc[p] = "open" => LegacyIn(files) = {}

\* docs/content-layout-migration.md: a migration "preserves files that were
\* already under content/": what was written there stays until a user replaces
\* or removes it.
ContentPreserved == \A v \in owed : v[1] \notin Roots => Stored(v)
=============================================================================

----------------------------- MODULE VaultStore ------------------------------
(***************************************************************************)
(* The object store and the manifests of one vault (internal/vault), used  *)
(* by several processes at once: the web GUI, WebDAV requests, import jobs *)
(* and the command line.  The vault takes no lock.  A request loads the    *)
(* index, then PutPath stores all its chunks before it saves its manifests *)
(* one by one, RemovePath saves tombstones one by one, GetPath reads chunk *)
(* by chunk, and GarbageCollect removes the chunks its index did not       *)
(* mention.  Any request may fail or be killed between two file operations.*)
(* A file's content is the set of its chunks; duplicates of a manifest are *)
(* the subject of ManifestStore.                                           *)
(***************************************************************************)
EXTENDS Naturals

CONSTANTS Proc,     \* processes and requests that share the vault
          Path,     \* virtual paths
          Chunk,    \* encrypted chunks, named by the HMAC of their content
          Contents, \* the files that can be put, each as a set of chunks
          Absent,   \* a path without a live manifest
          GcAlone   \* TRUE: gc never runs while a put is between two steps

ASSUME ConstantsAssumption ==
    /\ Contents \subseteq SUBSET Chunk
    /\ Absent \notin Contents
    /\ GcAlone \in BOOLEAN

VARIABLES
    objects,    \* the chunks under objects/chunks
    manifests,  \* the chunks each path's manifest refers to, or Absent
    pc,         \* "idle", "storing", "saving", "reading", "sweeping"
    seen,       \* the index each request has loaded
    job,        \* what each request wants to save at each path
    pending,    \* the paths a request has still to save
    todo        \* the chunks it has still to store, to read or to remove

vars == <<objects, manifests, pc, seen, job, pending, todo>>

File == {Absent} \cup Contents

\* The chunks that an index refers to.
Refs(m) == UNION {m[q] : q \in {q \in Path : m[q] # Absent}}

Init ==
    /\ objects = {}
    /\ manifests = [q \in Path |-> Absent]
    /\ pc = [p \in Proc |-> "idle"]
    /\ seen = [p \in Proc |-> [q \in Path |-> Absent]]
    /\ job = [p \in Proc |-> [q \in Path |-> Absent]]
    /\ pending = [p \in Proc |-> {}]
    /\ todo = [p \in Proc |-> {}]

-----------------------------------------------------------------------------
Putting(p)  == pc[p] = "storing" \/ (pc[p] = "saving" /\ \E q \in pending[p] : job[p][q] # Absent)
Sweeping(p) == pc[p] = "sweeping"

\* Every request starts from an index of its own.
Start(p, phase, wanted, paths, chunks) ==
    /\ pc[p] = "idle"
    /\ pc' = [pc EXCEPT ![p] = phase]
    /\ seen' = [seen EXCEPT ![p] = manifests]
    /\ job' = [job EXCEPT ![p] = [q \in Path |-> IF q \in paths THEN wanted[q] ELSE Absent]]
    /\ pending' = [pending EXCEPT ![p] = paths]
    /\ todo' = [todo EXCEPT ![p] = chunks]
    /\ UNCHANGED <<objects, manifests>>

\* PutPath, PutReader, PutDirectoryContents: files for the paths of a tree.
StartPut(p, paths, wanted) ==
    /\ paths # {}
    /\ GcAlone => \A r \in Proc : ~Sweeping(r)
    /\ Start(p, "storing", wanted, paths, UNION {wanted[q] : q \in paths})

\* storeChunk: a chunk that is already there is not written again.
StoreChunk(p, c) ==
    /\ pc[p] = "storing" /\ c \in todo[p]
    /\ objects' = objects \cup {c}
    /\ todo' = [todo EXCEPT ![p] = @ \ {c}]
    /\ UNCHANGED <<manifests, pc, seen, job, pending>>

\* Mutant: manifests are saved while chunks are still to be stored.
BeginSavingEarly(p) ==
    /\ pc[p] = "storing"
    /\ pc' = [pc EXCEPT ![p] = "saving"]
    /\ UNCHANGED <<objects, manifests, seen, job, pending, todo>>

\* Only when every chunk of every file is stored are manifests written.
BeginSaving(p) ==
    /\ pc[p] = "storing" /\ todo[p] = {}
    /\ pc' = [pc EXCEPT ![p] = "saving"]
    /\ UNCHANGED <<objects, manifests, seen, job, pending, todo>>

\* RemovePath: the named file, or the live files below the named directory.
StartRemove(p, paths) ==
    LET targets == {q \in paths : manifests[q] # Absent} IN
    /\ targets # {}
    /\ Start(p, "saving", [q \in Path |-> Absent], targets, {})

\* saveFileManifest or saveTombstone renames one manifest into place.
SaveManifest(p, q) ==
    /\ pc[p] = "saving" /\ q \in pending[p]
    /\ manifests' = [manifests EXCEPT ![q] = job[p][q]]
    /\ pending' = [pending EXCEPT ![p] = @ \ {q}]
    /\ UNCHANGED <<objects, pc, seen, job, todo>>

\* GetPath, WriteFileTo: the chunks of one file, or of all below a directory.
StartRead(p, paths) ==
    /\ \E q \in paths : manifests[q] # Absent
    /\ Start(p, "reading", manifests, {},
             UNION {manifests[q] : q \in {q \in paths : manifests[q] # Absent}})

\* loadChunk
LoadChunk(p, c) ==
    /\ pc[p] = "reading" /\ c \in todo[p] /\ c \in objects
    /\ todo' = [todo EXCEPT ![p] = @ \ {c}]
    /\ UNCHANGED <<objects, manifests, pc, seen, job, pending>>

\* GarbageCollect: live chunks are those of the index it has just loaded.
StartGc(p) ==
    /\ GcAlone => \A r \in Proc : ~Putting(r)
    /\ Start(p, "sweeping", manifests, {}, objects \ Refs(manifests))

\* Mutant: the walk does not skip the live chunks.
RemoveChunkUnchecked(p, c) ==
    /\ pc[p] = "sweeping" /\ c \in objects \cup todo[p]
    /\ objects' = objects \ {c}
    /\ todo' = [todo EXCEPT ![p] = @ \ {c}]
    /\ UNCHANGED <<manifests, pc, seen, job, pending>>

\* The walk may also meet a chunk that was stored after the walk began, or not
\* meet one that another gc has already removed.
RemoveChunk(p, c) ==
    /\ pc[p] = "sweeping" /\ c \in (objects \cup todo[p]) \ Refs(seen[p])
    /\ objects' = objects \ {c}
    /\ todo' = [todo EXCEPT ![p] = @ \ {c}]
    /\ UNCHANGED <<manifests, pc, seen, job, pending>>

\* Mutant: a request that ends leaves its list of paths behind.
ResetKeepsPending(p) ==
    /\ pc' = [pc EXCEPT ![p] = "idle"]
    /\ seen' = [seen EXCEPT ![p] = [q \in Path |-> Absent]]
    /\ job' = [job EXCEPT ![p] = [q \in Path |-> Absent]]
    /\ todo' = [todo EXCEPT ![p] = {}]
    /\ UNCHANGED <<objects, manifests, pending>>

\* Nothing in memory outlives the request.
Reset(p) ==
    /\ pc' = [pc EXCEPT ![p] = "idle"]
    /\ seen' = [seen EXCEPT ![p] = [q \in Path |-> Absent]]
    /\ job' = [job EXCEPT ![p] = [q \in Path |-> Absent]]
    /\ pending' = [pending EXCEPT ![p] = {}]
    /\ todo' = [todo EXCEPT ![p] = {}]
    /\ UNCHANGED <<objects, manifests>>

\* Mutant: the walk ends before it has met every chunk.
FinishEarly(p) ==
    /\ pc[p] \in {"saving", "reading", "sweeping"}
    /\ pending[p] = {}
    /\ Reset(p)

Finish(p) ==
    /\ pc[p] \in {"saving", "reading", "sweeping"}
    /\ todo[p] = {} /\ pending[p] = {}
    /\ Reset(p)

\* An I/O error returns at once (a missing chunk, a chunk that another gc has
\* removed, a full disk), and so does a kill: what is on disk stays.
Fail(p) == pc[p] # "idle" /\ Reset(p)

Next ==
    \E p \in Proc :
        \/ \E paths \in SUBSET Path :
              \/ \E wanted \in [paths -> Contents] : StartPut(p, paths, wanted)
              \/ StartRemove(p, paths)
              \/ StartRead(p, paths)
        \/ \E c \in Chunk : StoreChunk(p, c) \/ LoadChunk(p, c) \/ RemoveChunk(p, c)
        \/ \E q \in Path : SaveManifest(p, q)
        \/ BeginSaving(p) \/ StartGc(p) \/ Finish(p) \/ Fail(p)

Spec == Init /\ [][Next]_vars

-----------------------------------------------------------------------------
TypeOK ==
    /\ objects \subseteq Chunk
    /\ manifests \in [Path -> File]
    /\ pc \in [Proc -> {"idle", "storing", "saving", "reading", "sweeping"}]
    /\ seen \in [Proc -> [Path -> File]]
    /\ job \in [Proc -> [Path -> File]]
    /\ pending \in [Proc -> SUBSET Path]
    /\ todo \in [Proc -> SUBSET Chunk]
    /\ \A p \in Proc : pc[p] = "idle" => pending[p] = {} /\ todo[p] = {}

\* Every chunk that a live manifest refers to is in the object store, with any
\* number of processes between any two of their steps (PutPath stores every
\* chunk before it saves the first manifest).
NoDanglingManifest == Refs(manifests) \subseteq objects

\* A garbage collection that ends without an error, and during which no
\* manifest has changed, leaves no garbage: what killed puts and replaced or
\* removed files had left is gone, and nothing else.
GcComplete ==
    [][\A p \in Proc : /\ pc[p] = "sweeping" /\ Finish(p)
                       /\ seen[p] = manifests
                       => objects = Refs(manifests)]_vars

\* The files that users can read change as FileMap says: path by path, from
\* one whole content to another that some request asked for.
Readable(q) == IF manifests[q] = Absent THEN Absent ELSE manifests[q] \cap objects
Asked(q) == {job[p][q] : p \in {p \in Proc : q \in pending[p]}}
Files == INSTANCE FileMap WITH file  <- [q \in Path |-> Readable(q)],
                               asked <- [q \in Path |-> Asked(q)]
ImplementsFileMap == Files!Spec
=============================================================================

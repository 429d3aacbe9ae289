------------------------------- MODULE LocalDav ------------------------------
(***************************************************************************)
(* The WebDAV requests that change a vault (internal/localdav/server.go).  *)
(* COPY and MOVE list the vault once and then copy file by file through    *)
(* PutReader; MOVE removes the source after that, with the files it lists  *)
(* then.  The steps of a single put or removal of a file are the subject   *)
(* of VaultStore; the one Server that all requests share, as `serve` makes *)
(* it, is the vault's only user here.                                      *)
(***************************************************************************)
EXTENDS Naturals, SequencesExt

CONSTANTS
    Request,    \* the requests that can be under way at once
    Name,       \* the names of files and directories
    Path,       \* the virtual paths, sequences of names
    Marker,     \* the name .seavault-dir, and what such a file holds
    Absent,     \* no file
    MaxPuts,    \* bound: uploads
    Apart       \* assumption: neither of source and target contains the other

\* A directory exists if it has a marker or a file below it.
MarkerOf(d) == Append(d, Marker)
UserPath == {q \in Path : Last(q) # Marker}
Dirs     == {q \in UserPath : MarkerOf(q) \in Path}

ASSUME PathAssumption ==
    /\ Path \subseteq Seq(Name \cup {Marker}) \ {<<>>}
    /\ Marker \notin Name
ASSUME BoundAssumption == MaxPuts \in Nat
ASSUME FlagAssumption == Apart \in BOOLEAN

\* A file's data is the upload it came from, and so is the size its record
\* states; PutReader does not compare them.
Version == 1 .. MaxPuts
Data    == Version \cup {Marker}
Entry   == [data : Data, size : Data]
Whole(v) == [data |-> v, size |-> v]

ASSUME DataAssumption == Marker \notin Version /\ Absent \notin Entry

VARIABLES
    files,  \* the vault: an entry or Absent for each path
    pc,     \* "idle", "copying", "removing", "hung"
    job,    \* source and target of the request, and whether it is a MOVE
    seen,   \* the entries the request has listed
    todo,   \* paths it has still to copy or to remove
    puts,
    owed    \* history: uploads that no user has replaced or deleted

vars == <<files, pc, job, seen, todo, puts, owed>>

Job   == [src : UserPath, dst : UserPath, move : BOOLEAN]
NoJob == [src |-> <<>>, dst |-> <<>>, move |-> FALSE]
None  == [q \in Path |-> Absent]

Init ==
    /\ files = None
    /\ pc = [r \in Request |-> "idle"]
    /\ job = [r \in Request |-> NoJob]
    /\ seen = [r \in Request |-> None]
    /\ todo = [r \in Request |-> {}]
    /\ puts = 0
    /\ owed = {}

-----------------------------------------------------------------------------
Stored(fs)   == {fs[q].data : q \in {q \in Path : fs[q] # Absent}}
Inside(q, d) == IsStrictPrefix(d, q)
Below(fs, d) == {q \in Path : fs[q] # Absent /\ Inside(q, d)}

\* path.Join(dst, rel)
Rebase(q, s, d) == d \o SubSeq(q, Len(s) + 1, Len(q))

\* What RemovePath takes away: a file, or else all below a directory.
Targets(fs, s) == IF fs[s] # Absent THEN {s} ELSE Below(fs, s)

\* Mutant: a request does not take the mutex.
AdmittedAlways(r) == pc[r] = "idle"
\* s.mu.Lock: one request after another.
Admitted(r) == \A x \in Request : pc[x] = "idle"

\* A user has replaced or deleted what q held: it may be gone if nothing else
\* holds it.
Superseded(q, fs) ==
    IF files[q] = Absent THEN {} ELSE {files[q].data} \ Stored(fs)

\* handlePut
Put(r, q) ==
    /\ Admitted(r) /\ puts < MaxPuts
    /\ puts' = puts + 1
    /\ files' = [files EXCEPT ![q] = Whole(puts + 1)]
    /\ owed' = (owed \ Superseded(q, files')) \cup {puts + 1}
    /\ UNCHANGED <<pc, job, seen, todo>>

\* handleMkcol
Mkcol(r, d) ==
    /\ Admitted(r)
    /\ Below(files, d) = {}
    /\ files' = [files EXCEPT ![MarkerOf(d)] = Whole(Marker)]
    /\ UNCHANGED <<pc, job, seen, todo, puts, owed>>

\* handleDelete
StartDelete(r, s) ==
    /\ Admitted(r)
    /\ Targets(files, s) # {}
    /\ pc' = [pc EXCEPT ![r] = "removing"]
    /\ job' = [job EXCEPT ![r] = [src |-> s, dst |-> s, move |-> FALSE]]
    /\ todo' = [todo EXCEPT ![r] = Targets(files, s)]
    /\ UNCHANGED <<files, seen, puts, owed>>

\* handleCopyMove refuses to move a path into itself.
Permitted(s, d, move) ==
    /\ move => s # d /\ ~Inside(d, s)
    /\ Apart => ~Inside(s, d) /\ ~Inside(d, s)

\* handleCopyMove of one file.
StartCopyFile(r, s, d, move) ==
    /\ Admitted(r) /\ Permitted(s, d, move)
    /\ files[s] # Absent
    /\ pc' = [pc EXCEPT ![r] = "copying"]
    /\ job' = [job EXCEPT ![r] = [src |-> s, dst |-> d, move |-> move]]
    /\ seen' = [seen EXCEPT ![r] = files]
    /\ todo' = [todo EXCEPT ![r] = {s}]
    /\ UNCHANGED <<files, puts, owed>>

\* handleCopyMove of a directory: the target directory is made at once.
StartCopyDir(r, s, d, move) ==
    /\ Admitted(r) /\ Permitted(s, d, move)
    /\ files[s] = Absent /\ Below(files, s) # {}
    /\ d \in Dirs /\ \A q \in Below(files, s) : Rebase(q, s, d) \in Path
    /\ pc' = [pc EXCEPT ![r] = "copying"]
    /\ job' = [job EXCEPT ![r] = [src |-> s, dst |-> d, move |-> move]]
    /\ seen' = [seen EXCEPT ![r] = files]
    /\ todo' = [todo EXCEPT ![r] = Below(files, s)]
    /\ files' = [files EXCEPT ![MarkerOf(d)] = Whole(Marker)]
    /\ UNCHANGED <<puts, owed>>

\* EnsureDirectory of a listed directory's copy.
CopyMarker(r, q) ==
    /\ pc[r] = "copying" /\ q \in todo[r] \ UserPath
    /\ files' = [files EXCEPT ![Rebase(q, job[r].src, job[r].dst)] = Whole(Marker)]
    /\ todo' = [todo EXCEPT ![r] = @ \ {q}]
    /\ UNCHANGED <<pc, job, seen, puts, owed>>

\* copyFile: the data are those of the file as it is now, the size is the one
\* that was listed.
CopyFile(r, q) ==
    /\ pc[r] = "copying" /\ q \in todo[r] \cap UserPath /\ files[q] # Absent
    /\ LET target == Rebase(q, job[r].src, job[r].dst)
       IN  /\ files' = [files EXCEPT ![target] =
                           [data |-> files[q].data, size |-> seen[r][q].size]]
           /\ owed' = owed \ Superseded(target, files')
    /\ todo' = [todo EXCEPT ![r] = @ \ {q}]
    /\ UNCHANGED <<pc, job, seen, puts>>

\* PutReader fails in copyFile and stops reading: the goroutine that writes into
\* the pipe waits for ever, and copyFile waits for it.
Hang(r, q) ==
    /\ pc[r] = "copying" /\ q \in todo[r] \cap UserPath /\ files[q] # Absent
    /\ pc' = [pc EXCEPT ![r] = "hung"]
    /\ UNCHANGED <<files, job, seen, todo, puts, owed>>

\* Mutant: the source is removed while files are still to be copied.
StartRemovalEarly(r) ==
    /\ pc[r] = "copying" /\ job[r].move
    /\ Targets(files, job[r].src) # {}
    /\ pc' = [pc EXCEPT ![r] = "removing"]
    /\ todo' = [todo EXCEPT ![r] = Targets(files, job[r].src)]
    /\ UNCHANGED <<files, job, seen, puts, owed>>

\* RemovePath of the source lists the vault anew.
StartRemoval(r) ==
    /\ pc[r] = "copying" /\ todo[r] = {} /\ job[r].move
    /\ Targets(files, job[r].src) # {}
    /\ pc' = [pc EXCEPT ![r] = "removing"]
    /\ todo' = [todo EXCEPT ![r] = Targets(files, job[r].src)]
    /\ UNCHANGED <<files, job, seen, puts, owed>>

\* saveTombstone.  Nothing is lost by the intention of a MOVE.
RemoveFile(r, q) ==
    /\ pc[r] = "removing" /\ q \in todo[r]
    /\ files' = [files EXCEPT ![q] = Absent]
    /\ owed' = IF job[r].move THEN owed ELSE owed \ Superseded(q, files')
    /\ todo' = [todo EXCEPT ![r] = @ \ {q}]
    /\ UNCHANGED <<pc, job, seen, puts>>

\* Mutant: what is left of a failed request stays on its list.
ForgetNothing(r) == UNCHANGED <<job, seen, todo>>
Forget(r) ==
    /\ job' = [job EXCEPT ![r] = NoJob]
    /\ seen' = [seen EXCEPT ![r] = None]
    /\ todo' = [todo EXCEPT ![r] = {}]

\* The request is answered, after all its steps or at an error in any.
Answer(r) ==
    /\ pc[r] \in {"copying", "removing"}
    /\ pc' = [pc EXCEPT ![r] = "idle"]
    /\ Forget(r)
    /\ UNCHANGED <<files, puts, owed>>

\* The server is killed and started again.
Restart ==
    /\ \E r \in Request : pc[r] # "idle"
    /\ pc' = [r \in Request |-> "idle"]
    /\ job' = [r \in Request |-> NoJob]
    /\ seen' = [r \in Request |-> None]
    /\ todo' = [r \in Request |-> {}]
    /\ UNCHANGED <<files, puts, owed>>

Next ==
    \/ \E r \in Request :
          \/ \E q \in UserPath : Put(r, q) \/ StartDelete(r, q)
          \/ \E d \in Dirs : Mkcol(r, d)
          \/ \E s \in UserPath, d \in UserPath, move \in BOOLEAN :
                StartCopyFile(r, s, d, move) \/ StartCopyDir(r, s, d, move)
          \/ \E q \in Path : CopyMarker(r, q) \/ CopyFile(r, q) \/ Hang(r, q) \/ RemoveFile(r, q)
          \/ StartRemoval(r) \/ Answer(r)
    \/ Restart

Spec == Init /\ [][Next]_vars

-----------------------------------------------------------------------------
TypeOK ==
    /\ files \in [Path -> Entry \cup {Absent}]
    /\ pc \in [Request -> {"idle", "copying", "removing", "hung"}]
    /\ job \in [Request -> Job \cup {NoJob}]
    /\ seen \in [Request -> [Path -> Entry \cup {Absent}]]
    /\ todo \in [Request -> SUBSET Path]
    /\ \A r \in Request : pc[r] = "idle" =>
          job[r] = NoJob /\ todo[r] = {} /\ seen[r] = None
    /\ puts \in 0 .. MaxPuts
    /\ owed \subseteq Version

\* No MOVE loses a file, wherever it fails, hangs or is killed: every upload
\* that no user has replaced or deleted is stored at some path.
Preserved == owed \subseteq Stored(files)

\* The size that a record states is that of its data (a client would otherwise
\* be sent a wrong Content-Length), although a copy takes the one from what it
\* listed and the other from what it reads.
SizesMatch ==
    \A q \in Path : files[q] # Absent => files[q].size = files[q].data
=============================================================================

------------------------------ MODULE VaultMove ------------------------------
(***************************************************************************)
(* A vault, the places that name it, and what moves it (internal/vaultmove *)
(* with profile, remotes, importer and the GUI's handlers).  A move is a   *)
(* rename or, across file systems, a copy and a removal; afterwards the    *)
(* saved location, the remote profile and the GUI's open vault have to     *)
(* follow.  Uploads, WebDAV requests and import jobs take the open vault   *)
(* once and write to it later, and a vault that is written at a place      *)
(* without a directory makes one.  Anything may fail or be killed.         *)
(***************************************************************************)
EXTENDS Naturals, FiniteSets

CONSTANTS Path,     \* directories the vault may be in
          File,     \* files it may hold
          Config,   \* vault.json
          Request,  \* uploads and WebDAV requests
          None,     \* no path, nobody
          Job,      \* the import job
          Namer,    \* who saves locations and remote profiles
          Worlds    \* pairs: whether moves are kept apart from everything else, which
                    \* the code does not see to, and who takes part

ASSUME VaultMoveAssumption ==
    /\ Path # {} /\ Config \notin File /\ None \notin Path \cup Request
    /\ Worlds \subseteq BOOLEAN \X SUBSET (Request \cup {Job, Namer})

VARIABLES
    world,      \* never changes
    disk,       \* what each directory holds
    active,     \* the open vault: s.vault and, with it, s.vaultPath
    mu,         \* the request that holds the server's mutex over several steps
    saved,      \* profiles.json: the saved location
    remote,     \* remotes.json: the vault of a remote profile
    move,       \* the move that runs
    request,    \* each request's progress
    job,        \* the import job
    owed,       \* history: what was stored where the whole vault was
    left        \* history: the names that a broken-off move may have left behind

vars == <<world, disk, active, mu, saved, remote, move, request, job, owed, left>>

Names   == <<saved, remote>>
Gui_    == <<active, mu, request, job>>
History == <<owed, left>>

Quiet == world[1]

Acts(x) == x \in world[2]

NoMove    == [by |-> None, pc |-> "idle", from |-> None, to |-> None, named |-> FALSE, listing |-> {}, staged |-> {}]
NoRequest == [pc |-> "idle", root |-> None]
NoJob     == [status |-> "none", root |-> None, files |-> {}, excluded |-> {}, todo |-> {},
              single |-> FALSE, dry |-> FALSE, skip |-> FALSE, cancel |-> FALSE, errors |-> FALSE]

Init ==
    /\ world \in Worlds
    /\ disk = [p \in Path |-> {}]
    /\ active = None /\ mu = None /\ saved = None /\ remote = None
    /\ move = NoMove
    /\ request = [r \in Request |-> NoRequest]
    /\ job = NoJob
    /\ owed = {} /\ left = {}

Moving     == move.pc # "idle"
JobRunning == job.status \in {"queued", "running"}
MayAct     == Quiet => ~Moving

\* Assumption: one move at a time.  (A second move of the same vault that replaces the
\* destination of the first, while that removes its source, would lose everything.)
MayMove(by) ==
    /\ ~Moving
    /\ Quiet => ~JobRunning /\ (\A r \in Request : request[r].pc = "idle") /\ (by = "cli" => active = None)

-----------------------------------------------------------------------------
\* CreateWithOptions: there is one vault in this model.  Its location is saved if asked.
CreateVault(p) ==
    /\ MayAct /\ ~Moving /\ owed = {} /\ \A q \in Path : disk[q] = {}
    /\ disk' = [disk EXCEPT ![p] = {Config}]
    /\ owed' = {Config}
    /\ saved' \in {saved} \cup {q \in {p} : Acts(Namer)}
    /\ UNCHANGED <<world, mu, remote, move, request, job, left>>

\* handleInit opens the new vault; cmdInit does not.
InitInGui(p) == CreateVault(p) /\ mu = None /\ active' = p
InitInCli(p) == CreateVault(p) /\ UNCHANGED active

\* handleOpen: Open needs vault.json and, from whatever source, the password.
OpenVault(p) ==
    /\ MayAct /\ mu = None /\ Config \in disk[p]
    /\ active' = p
    /\ UNCHANGED <<world, disk, mu, move, request, job>> /\ UNCHANGED Names /\ UNCHANGED History

CloseVault ==
    /\ MayAct /\ mu = None /\ active # None
    /\ active' = None
    /\ UNCHANGED <<world, disk, mu, move, request, job>> /\ UNCHANGED Names /\ UNCHANGED History

\* The user saves where the vault is, as a location or in a remote profile.
SaveProfile(p) ==
    /\ Acts(Namer) /\ MayAct /\ Config \in disk[p] /\ saved' = p /\ saved # p
    /\ UNCHANGED <<world, disk, remote, move>> /\ UNCHANGED Gui_ /\ UNCHANGED History

SaveRemote(p) ==
    /\ Acts(Namer) /\ MayAct /\ Config \in disk[p] /\ remote' = p /\ remote # p
    /\ UNCHANGED <<world, disk, saved, move>> /\ UNCHANGED Gui_ /\ UNCHANGED History

-----------------------------------------------------------------------------
\* currentVault: the pointer is copied under the mutex.
Fetch(r, pc) ==
    /\ Acts(r) /\ MayAct /\ mu = None /\ request[r].pc = "idle" /\ active # None
    /\ request' = [request EXCEPT ![r] = [pc |-> pc, root |-> active]]
    /\ UNCHANGED <<world, disk, active, mu, move, job>> /\ UNCHANGED Names /\ UNCHANGED History

FetchUpload(r) == Fetch(r, "fetched")
FetchWebDAV(r) == Fetch(r, "writing")

\* An upload takes the mutex for all its files, whatever vault is open by then.
LockUpload(r) ==
    /\ request[r].pc = "fetched" /\ mu = None
    /\ mu' = r
    /\ request' = [request EXCEPT ![r].pc = "uploading"]
    /\ UNCHANGED <<world, disk, active, move, job>> /\ UNCHANGED Names /\ UNCHANGED History

\* A file is stored below a root, which need not be where the vault is any more.
AtHome(p) ==
    /\ owed \subseteq disk[p]
    /\ move.pc \in {"copying", "removing"} => move.from # p

StoreFile(p, f) ==
    /\ disk' = [disk EXCEPT ![p] = @ \cup {f}]
    /\ owed' = IF AtHome(p) THEN owed \cup {f} ELSE owed

PutFile(r) ==
    /\ request[r].pc \in {"uploading", "writing"}
    /\ \E f \in File : StoreFile(request[r].root, f)
    /\ UNCHANGED <<world, move, left>> /\ UNCHANGED Names /\ UNCHANGED Gui_

\* Mutant: an early return of the upload leaves the mutex locked.
AnswerLocked(r) ==
    /\ request[r].pc # "idle"
    /\ request' = [request EXCEPT ![r] = NoRequest]
    /\ UNCHANGED <<world, disk, active, mu, move, job>> /\ UNCHANGED Names /\ UNCHANGED History

\* Every return of a request, the early ones included.
Answer(r) ==
    /\ request[r].pc # "idle"
    /\ request' = [request EXCEPT ![r] = NoRequest]
    /\ mu' = IF mu = r THEN None ELSE mu
    /\ UNCHANGED <<world, disk, active, move, job>> /\ UNCHANGED Names /\ UNCHANGED History

-----------------------------------------------------------------------------
JobStep == UNCHANGED <<world, active, mu, move, request, left>> /\ UNCHANGED Names

\* importer.Start.  Of a tree the walk leaves out what is in a .git or .seavault, has an
\* internal name, or is a link or a special file; of these it does not say which.
Queued(files, excluded, dry, skip, single) ==
    [NoJob EXCEPT !.status = "queued", !.root = active, !.files = files, !.excluded = excluded,
                  !.todo = files, !.single = single, !.dry = dry, !.skip = skip]

\* A job of this server that has ended makes room for another.  (Jobs run side by
\* side; one at a time is enough here, as it meets the requests.  What a dry run leaves
\* out makes no difference: it puts nothing.)
StartJob ==
    /\ Acts(Job) /\ MayAct /\ mu = None /\ active # None /\ ~JobRunning
    /\ \E files \in SUBSET File, excluded \in SUBSET File, dry, skip, single \in BOOLEAN :
        /\ excluded \subseteq files
        /\ single => Cardinality(files) = 1
        /\ single \/ dry => excluded = {}
        /\ ~(dry /\ skip)
        /\ job' = Queued(files, excluded, dry, skip, single)
    /\ JobStep /\ UNCHANGED <<disk, owed>>

CancelJob ==
    /\ JobRunning /\ ~job.cancel
    /\ job' = [job EXCEPT !.cancel = TRUE]
    /\ JobStep /\ UNCHANGED <<disk, owed>>

\* The progress that is kept of a job that has ended.
Ended(status) ==
    [NoJob EXCEPT !.status = status, !.files = job.files, !.excluded = job.excluded, !.dry = job.dry]

\* The preflight, the source and the directory in the vault are looked after first.
BeginImport ==
    /\ job.status = "queued"
    /\ job' \in {[job EXCEPT !.status = "running"], Ended("failed")}
    /\ JobStep /\ UNCHANGED <<disk, owed>>

Skipped(f) == f \in job.excluded \/ job.dry \/ (job.skip /\ f \in disk[job.root])

\* One entry of the source's tree: it is left out, scanned only, skipped, or put.
ImportEntry(f) ==
    /\ job.status = "running" /\ ~job.cancel /\ f \in job.todo
    /\ \/ Skipped(f) /\ job' = [job EXCEPT !.todo = @ \ {f}] /\ UNCHANGED <<disk, owed>>
       \/ ~Skipped(f) /\ job' = [job EXCEPT !.todo = @ \ {f}] /\ StoreFile(job.root, f)
       \/ /\ ~Skipped(f) /\ UNCHANGED <<disk, owed>>
          /\ job' = [job EXCEPT !.todo = @ \ {f}, !.errors = TRUE]
    /\ JobStep

\* Mutant: an entry that could not be put does not count as an error.
FinishedLightly == "completed"

\* A single file that cannot be put fails the job; a tree goes on and says so.
Finished ==
    IF ~job.errors THEN "completed" ELSE IF job.single THEN "failed" ELSE "completed-with-errors"

\* The job looks for a cancellation before each entry, and not after the last.
EndImport ==
    /\ job.status = "running"
    /\ \/ job.todo = {} /\ job' = Ended(Finished)
       \/ job.todo # {} /\ job.cancel /\ job' = Ended("cancelled")
    /\ JobStep /\ UNCHANGED <<disk, owed>>

\* handleUpload and handleUploadPath: the vault first, then the mutex for the files.
Upload(r) == FetchUpload(r) \/ LockUpload(r) \/ PutFile(r) \/ Answer(r)

-----------------------------------------------------------------------------
\* validateSource and validateRelationship.  (No path here is inside another.)
Movable(from, to) == from # to /\ Config \in disk[from]

\* prepareDestination empties the destination or refuses it.  (Assumption: a user who
\* replaces a directory that holds something has the whole vault at the source.)
MayEmpty(from, to, replace) == disk[to] = {} \/ (replace /\ owed \subseteq disk[from])

\* Move checks the source and the destination.  By name, the source is the saved location.
StartMove(by, from, to, named, replace) ==
    /\ MayMove(by)
    /\ Movable(from, to)
    /\ named => from = saved
    /\ MayEmpty(from, to, replace)
    /\ disk' = [disk EXCEPT ![to] = {}]
    /\ move' = [NoMove EXCEPT !.by = by, !.pc = "prepared", !.from = from, !.to = to, !.named = named]
    /\ UNCHANGED <<world, owed, left>> /\ UNCHANGED Names /\ UNCHANGED Gui_

MoveStep(pc, to) ==
    /\ move.pc = pc
    /\ move' = [move EXCEPT !.pc = to, !.listing = {}, !.staged = {}]
    /\ UNCHANGED <<world, owed>>

\* moveDir: the rename, which fails across file systems.
RenameVault ==
    /\ MoveStep("prepared", "moved")
    /\ disk[move.to] = {}
    /\ disk' = [disk EXCEPT ![move.to] = disk[move.from], ![move.from] = {}]
    /\ UNCHANGED left /\ UNCHANGED Names /\ UNCHANGED Gui_

\* copyDir copies what it finds into a temporary directory beside the destination.
BeginCopy ==
    /\ move.pc = "prepared"
    /\ move' = [move EXCEPT !.pc = "copying", !.listing = disk[move.from]]
    /\ UNCHANGED <<world, disk>> /\ UNCHANGED Names /\ UNCHANGED Gui_ /\ UNCHANGED History

CopyEntry ==
    /\ move.pc = "copying"
    /\ \E e \in (move.listing \ move.staged) \cap disk[move.from] :
        move' = [move EXCEPT !.staged = @ \cup {e}]
    /\ UNCHANGED <<world, disk>> /\ UNCHANGED Names /\ UNCHANGED Gui_ /\ UNCHANGED History

\* Mutant: the copy goes on behind an entry that could not be copied.
PlaceCopyAnyhow ==
    /\ MoveStep("copying", "removing")
    /\ Config \in move.staged /\ disk[move.to] = {}
    /\ disk' = [disk EXCEPT ![move.to] = move.staged]
    /\ UNCHANGED left /\ UNCHANGED Names /\ UNCHANGED Gui_

\* The complete copy is renamed into place, unless something has appeared there.
PlaceCopy ==
    /\ MoveStep("copying", "removing")
    /\ move.staged = move.listing /\ disk[move.to] = {}
    /\ disk' = [disk EXCEPT ![move.to] = move.staged]
    /\ UNCHANGED left /\ UNCHANGED Names /\ UNCHANGED Gui_

\* RemoveAll of the source, entry by entry; a write meanwhile makes an entry anew.
RemoveEntry ==
    /\ move.pc = "removing"
    /\ \E e \in disk[move.from] :
        /\ disk' = [disk EXCEPT ![move.from] = @ \ {e}]
        /\ MoveStep("removing", IF disk[move.from] = {e} THEN "moved" ELSE "removing")
    /\ UNCHANGED left /\ UNCHANGED Names /\ UNCHANGED Gui_

\* UpdatePath of the named location and UpdatePathsMatching; a failure is a warning.
UpdateProfiles ==
    /\ MoveStep("moved", "renamed")
    /\ \/ /\ saved' = IF saved = move.from \/ move.named THEN move.to ELSE saved
          /\ UNCHANGED left
       \/ UNCHANGED saved /\ left' = left \cup {"saved"}
    /\ UNCHANGED <<disk, remote>> /\ UNCHANGED Gui_

\* UpdateVaultPathMatching, if it is asked for and does not fail.
UpdateRemotes ==
    /\ MoveStep("renamed", "updated")
    /\ \/ remote' = (IF remote = move.from THEN move.to ELSE remote) /\ UNCHANGED left
       \/ UNCHANGED remote /\ left' = left \cup {"remote"}
    /\ UNCHANGED <<disk, saved>> /\ UNCHANGED Gui_

\* The command line is done.
EndMove ==
    /\ move.by = "cli" /\ move.pc = "updated"
    /\ move' = NoMove
    /\ UNCHANGED <<world, disk>> /\ UNCHANGED Names /\ UNCHANGED Gui_ /\ UNCHANGED History

\* Mutant: the GUI goes on with the vault it had open.
CloseMovedNever ==
    /\ move.by = "gui" /\ move.pc = "updated" /\ mu = None
    /\ move' = NoMove
    /\ UNCHANGED <<world, disk>> /\ UNCHANGED Names /\ UNCHANGED Gui_ /\ UNCHANGED History

\* handleVaultMove closes the open vault if it was at the source.
CloseMoved ==
    /\ move.by = "gui" /\ move.pc = "updated" /\ mu = None
    /\ IF active = move.from
       THEN active' = None /\ move' = [move EXCEPT !.pc = "reopening"]
       ELSE move' = NoMove /\ UNCHANGED active
    /\ UNCHANGED <<world, disk, mu, request, job>> /\ UNCHANGED Names /\ UNCHANGED History

\* It opens it again at the destination if the key store has the password, in place of
\* whatever was opened meanwhile.
ReopenMoved ==
    /\ move.pc = "reopening"
    /\ \/ Config \in disk[move.to] /\ mu = None /\ active' = move.to
       \/ UNCHANGED active
    /\ move' = NoMove
    /\ UNCHANGED <<world, disk, mu, request, job>> /\ UNCHANGED Names /\ UNCHANGED History

\* What a move that ends at this point leaves behind.
LeftBy(pc) ==
    CASE pc \in {"prepared", "copying"} -> {}
      [] pc = "removing"                -> {"active", "saved", "remote"}
      [] OTHER                          -> {"saved", "remote"}

\* A move ends before its time; what is on disk and in the names stays.
BreakOff == move' = NoMove /\ left' = left \cup LeftBy(move.pc)

\* moveDir returns an error, after it has removed its temporary copy.
FailMove ==
    /\ move.pc \in {"prepared", "copying", "removing"} /\ BreakOff
    /\ UNCHANGED <<world, disk, owed>> /\ UNCHANGED Names /\ UNCHANGED Gui_

\* A start of the GUI kills a command that runs (processguard).
KillCli ==
    /\ move.by = "cli" /\ BreakOff
    /\ UNCHANGED <<world, disk, owed>> /\ UNCHANGED Names /\ UNCHANGED Gui_

\* The server is killed, with its requests, its move and its jobs.
KillGui ==
    /\ \/ active # None \/ move.by = "gui" \/ JobRunning
       \/ \E r \in Request : request[r].pc # "idle"
    /\ active' = None /\ mu' = None /\ job' = NoJob
    /\ request' = [r \in Request |-> NoRequest]
    /\ IF move.by = "gui" THEN BreakOff ELSE UNCHANGED <<move, left>>
    /\ UNCHANGED <<world, disk, owed>> /\ UNCHANGED Names

-----------------------------------------------------------------------------
Use ==
    \/ \E p \in Path : InitInGui(p) \/ InitInCli(p) \/ OpenVault(p) \/ SaveProfile(p) \/ SaveRemote(p)
    \/ CloseVault \/ KillGui

Write ==
    \/ \E r \in Request : Upload(r) \/ FetchWebDAV(r)
    \/ StartJob \/ CancelJob \/ BeginImport \/ EndImport
    \/ \E f \in File : ImportEntry(f)

Move ==
    \/ \E by \in {"gui", "cli"}, from, to \in Path, named, replace \in BOOLEAN :
        StartMove(by, from, to, named, replace)
    \/ RenameVault \/ BeginCopy \/ CopyEntry \/ PlaceCopy \/ RemoveEntry
    \/ UpdateProfiles \/ UpdateRemotes \/ EndMove \/ CloseMoved \/ ReopenMoved \/ FailMove \/ KillCli

Next == Use \/ Write \/ Move

Spec == Init /\ [][Next]_vars

-----------------------------------------------------------------------------
\* Every variable keeps its type, and the mutex is held exactly by the upload that is
\* putting its files (server.go:1010 and 1060).
TypeOK ==
    /\ world \in Worlds
    /\ disk \in [Path -> SUBSET (File \cup {Config})]
    /\ active \in Path \cup {None} /\ saved \in Path \cup {None} /\ remote \in Path \cup {None}
    /\ move.staged \subseteq move.listing /\ (Moving <=> move.from # move.to)
    /\ owed \subseteq File \cup {Config} /\ left \subseteq {"active", "saved", "remote"}
    /\ job.todo \subseteq job.files
    /\ \A r \in Request : mu = r <=> request[r].pc = "uploading"

\* Whatever is moved, written and broken off at the same time, one directory holds the
\* whole vault: its configuration and all files that were stored there while nobody was
\* copying or removing it (vaultmove.go:159).
SomewhereWhole == \E p \in Path : owed \subseteq disk[p]

\* If moves are kept apart, every name leads to the whole vault when a move has ended,
\* except those whose update failed, was not asked for, or was broken off: the open
\* vault, the saved location and the remote profile (server.go:1449, vaultmove.go:76).
PointersFollow ==
    Quiet /\ ~Moving => \A n \in {<<"active", active>>, <<"saved", saved>>, <<"remote", remote>>} :
        n[1] \in left \/ n[2] = None \/ owed \subseteq disk[n[2]]

\* An import that reports that it has completed has put every file of its source that
\* its walk does not leave out (importer.go:171) into the vault, where later moves keep
\* it: a cancelled or failing one says so, and what is skipped as existing is there.
ImportsComplete ==
    Quiet /\ "active" \notin left /\ job.status = "completed" /\ ~job.dry =>
        job.files \ job.excluded \subseteq owed
=============================================================================

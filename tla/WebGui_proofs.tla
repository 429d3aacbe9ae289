--------------------------- MODULE WebGui_proofs ---------------------------
(***************************************************************************)
(* Proofs about the two sides of the GUI server, VaultMove and             *)
(* BrowserClose, for any number of directories, files, requests and pages: *)
(* whatever is moved, written and broken off, one directory holds the      *)
(* whole vault; if moves are kept apart, the names follow, and a completed *)
(* import is in the vault; and the server only stops when its pages have   *)
(* been gone for a while.                                                  *)
(***************************************************************************)
EXTENDS VaultMove, BrowserClose, FiniteSetTheorems, TLAPS

Entry    == File \cup {Config}
AllNames == {"active", "saved", "remote"}

-----------------------------------------------------------------------------
\* The types, part by part, and what a move, a request and a job under way have.
MoveRec == [by : {"gui", "cli", None},
            pc : {"idle", "prepared", "copying", "removing", "moved", "renamed", "updated",
                  "reopening"},
            from : Path \cup {None}, to : Path \cup {None}, named : BOOLEAN,
            listing : SUBSET Entry, staged : SUBSET Entry]

JobRec == [status : {"none", "queued", "running", "completed", "completed-with-errors", "failed",
                     "cancelled"},
           root : Path \cup {None}, files : SUBSET File, excluded : SUBSET File,
           todo : SUBSET File, single : BOOLEAN, dry : BOOLEAN, skip : BOOLEAN, cancel : BOOLEAN,
           errors : BOOLEAN]

StoreOK ==
    /\ world \in Worlds
    /\ disk \in [Path -> SUBSET Entry]
    /\ active \in Path \cup {None} /\ saved \in Path \cup {None} /\ remote \in Path \cup {None}
    /\ owed \subseteq Entry /\ left \subseteq AllNames

MoveOK ==
    /\ move \in MoveRec /\ move.staged \subseteq move.listing /\ (Moving <=> move.from # move.to)
    /\ Moving => move.from \in Path /\ move.to \in Path /\ move.by \in {"gui", "cli"}
    /\ move.pc # "copying" => move.staged = {}

RequestOK ==
    /\ request \in [Request -> [pc : {"idle", "fetched", "uploading", "writing"},
                                root : Path \cup {None}]]
    /\ \A r \in Request : request[r].pc # "idle" => request[r].root \in Path
    /\ mu \in Request \cup {None}
    /\ \A r \in Request : mu = r <=> request[r].pc = "uploading"

JobOK ==
    /\ job \in JobRec /\ job.todo \subseteq job.files
    /\ JobRunning => job.root \in Path

Types == StoreOK /\ MoveOK /\ RequestOK /\ JobOK

\* Before there is a vault, nothing names one, writes to one or moves one.
NothingYet ==
    owed = {} =>
        /\ \A p \in Path : disk[p] = {}
        /\ active = None /\ saved = None /\ remote = None
        /\ ~Moving /\ ~JobRunning /\ \A r \in Request : request[r].pc = "idle"

-----------------------------------------------------------------------------
\* A directory other than the source of the move has everything.
Elsewhere == \E p \in Path \ {move.from} : owed \subseteq disk[p]

\* What is being copied still is at the source; what has been copied is not needed there.
MoveSafe ==
    /\ move.pc = "copying" => /\ move.listing \subseteq disk[move.from]
                              /\ owed \subseteq move.listing \/ Elsewhere
    /\ move.pc = "removing" => Elsewhere

-----------------------------------------------------------------------------
\* The vault is at p and nothing is anywhere else.
OnlyAt(p) == disk[p] = owed /\ \A q \in Path \ {p} : disk[q] = {}

\* Where the vault is while a move goes on, kept apart from everything else.
Place ==
    /\ ~Moving => owed = {} \/ \E p \in Path : OnlyAt(p)
    /\ move.pc \in {"prepared", "copying"} => OnlyAt(move.from)
    /\ move.pc = "copying" => move.listing = disk[move.from]
    /\ move.pc = "removing" => /\ disk[move.to] = owed
                               /\ \A q \in Path \ {move.from, move.to} : disk[q] = {}
    /\ move.pc \in {"moved", "renamed", "updated", "reopening"} => OnlyAt(move.to)

\* A name n that says p, or leads to the vault, or says nothing, or is known to be left behind.
Says(n, value, p) == n \in left \/ value \in {None, p}

Follows(n, value) == n \in left \/ value = None \/ disk[value] = owed

\* Which names have followed so far.
Following ==
    /\ ~Moving => Follows("active", active) /\ Follows("saved", saved) /\ Follows("remote", remote)
    /\ move.pc \in {"prepared", "copying", "removing", "moved"} => Says("saved", saved, move.from)
    /\ move.pc \in {"renamed", "updated", "reopening"} => Says("saved", saved, move.to)
    /\ move.pc \in {"prepared", "copying", "removing", "moved", "renamed"}
          => Says("remote", remote, move.from)
    /\ move.pc \in {"updated", "reopening"} => Says("remote", remote, move.to)
    /\ Moving => active \in {None, move.from}
    /\ move.pc = "reopening" => active = None

\* Requests and jobs write where the vault is.
Writing ==
    /\ \A r \in Request : request[r].pc # "idle" => disk[request[r].root] = owed
    /\ JobRunning => disk[job.root] = owed

\* What a job has done with its entries.
Importing ==
    /\ job.status = "queued" => job.todo = job.files
    /\ job.status \in {"queued", "running"} /\ ~job.dry /\ ~job.errors
          => job.files \ (job.todo \cup job.excluded) \subseteq owed
    /\ job.status = "completed" /\ ~job.dry => job.files \ job.excluded \subseteq owed

Orderly == Place /\ Following /\ Writing /\ Importing

\* Moves that are kept apart meet no request, no job and, from a command, no open vault.
MovesApart ==
    Quiet /\ Moving => /\ ~JobRunning /\ \A r \in Request : request[r].pc = "idle"
                       /\ move.by = "cli" => active = None

\* Only a removal that is broken off leaves the open vault behind, and then every name.
LeftTogether == "active" \in left => left = AllNames

QuietHolds ==
    /\ NothingYet /\ MovesApart /\ LeftTogether
    /\ Quiet /\ "active" \notin left => Orderly

-----------------------------------------------------------------------------
(* The steps                                                               *)

LEMMA StepCases ==
    ASSUME [Next]_vars
    PROVE  \/ UNCHANGED vars
           \/ \E p \in Path : InitInGui(p) \/ InitInCli(p)
           \/ \E p \in Path : OpenVault(p) \/ SaveProfile(p) \/ SaveRemote(p)
           \/ CloseVault \/ KillGui
           \/ \E r \in Request : FetchUpload(r) \/ FetchWebDAV(r) \/ LockUpload(r) \/ PutFile(r) \/ Answer(r)
           \/ StartJob \/ CancelJob \/ BeginImport \/ EndImport
           \/ \E f \in File : ImportEntry(f)
           \/ \E by \in {"gui", "cli"}, from, to \in Path, named, replace \in BOOLEAN :
                  StartMove(by, from, to, named, replace)
           \/ RenameVault \/ BeginCopy \/ CopyEntry \/ PlaceCopy \/ RemoveEntry
           \/ UpdateProfiles \/ UpdateRemotes \/ EndMove \/ CloseMoved \/ ReopenMoved
           \/ FailMove \/ KillCli
BY DEF Next, Use, Write, Move, Upload

LEMMA NoneFacts == None \notin Path /\ None \notin Request
BY VaultMoveAssumption

LEMMA InitTypes == Init => Types
<1> SUFFICES ASSUME Init PROVE Types
    OBVIOUS
<1>1. StoreOK
    BY DEF Init, StoreOK, Entry
<1>2. MoveOK
    BY DEF Init, MoveOK, NoMove, MoveRec, Moving
<1>3. RequestOK
    BY NoneFacts DEF Init, RequestOK, NoRequest
<1>4. JobOK
    BY DEF Init, JobOK, NoJob, JobRec, JobRunning
<1> QED BY <1>1, <1>2, <1>3, <1>4 DEF Types

\* What a step leaves alone keeps its type.
LEMMA SameTypes ==
    ASSUME Types
    PROVE  /\ UNCHANGED <<world, disk, active, saved, remote, owed, left>> => StoreOK'
           /\ UNCHANGED move => MoveOK'
           /\ UNCHANGED <<request, mu>> => RequestOK'
           /\ UNCHANGED job => JobOK'
<1>1. UNCHANGED <<world, disk, active, saved, remote, owed, left>> => StoreOK'
    BY DEF Types, StoreOK
<1>2. UNCHANGED move => MoveOK'
    BY DEF Types, MoveOK, Moving
<1>3. UNCHANGED <<request, mu>> => RequestOK'
    BY DEF Types, RequestOK
<1>4. UNCHANGED job => JobOK'
    BY DEF Types, JobOK, JobRunning
<1> QED BY <1>1, <1>2, <1>3, <1>4

LEMMA CreateTypes ==
    ASSUME Types, NEW p \in Path, InitInGui(p) \/ InitInCli(p)
    PROVE  Types'
<1>1. UNCHANGED <<move, mu, request, job>>
    BY DEF InitInGui, InitInCli, CreateVault
<1>2. StoreOK'
    BY DEF Types, StoreOK, InitInGui, InitInCli, CreateVault, Entry
<1> QED BY <1>1, <1>2, SameTypes DEF Types

LEMMA NameTypes ==
    ASSUME Types, CloseVault \/ \E p \in Path : OpenVault(p) \/ SaveProfile(p) \/ SaveRemote(p)
    PROVE  Types'
<1>1. UNCHANGED <<move, mu, request, job>>
    BY DEF OpenVault, SaveProfile, SaveRemote, CloseVault, Gui_
<1>2. StoreOK'
    BY DEF Types, StoreOK, OpenVault, SaveProfile, SaveRemote, CloseVault, Names, Gui_, History
<1> QED BY <1>1, <1>2, SameTypes DEF Types

\* No move, and one that is broken off.
LEMMA NoMoveTypes ==
    /\ move' = NoMove => MoveOK'
    /\ Types /\ BreakOff => MoveOK' /\ left' \subseteq AllNames
<1>1. move' = NoMove => MoveOK'
    BY DEF MoveOK, NoMove, MoveRec, Moving
<1>2. LeftBy(move.pc) \subseteq AllNames
    BY DEF LeftBy, AllNames
<1> QED BY <1>1, <1>2 DEF BreakOff, Types, StoreOK

LEMMA KillGuiTypes == Types /\ KillGui => Types'
<1> SUFFICES ASSUME Types, KillGui PROVE Types'
    OBVIOUS
<1>1. /\ UNCHANGED <<world, disk, owed, saved, remote>> /\ active' = None /\ mu' = None
      /\ request' = [r \in Request |-> NoRequest] /\ job' = NoJob
      /\ BreakOff \/ UNCHANGED <<move, left>>
    BY DEF KillGui, Names
<1>2. MoveOK' /\ left' \subseteq AllNames
    BY <1>1, NoMoveTypes, SameTypes DEF Types, StoreOK
<1>3. StoreOK'
    BY <1>1, <1>2 DEF Types, StoreOK
<1>4. RequestOK'
    BY <1>1, NoneFacts DEF RequestOK, NoRequest
<1>5. JobOK'
    BY <1>1 DEF JobOK, NoJob, JobRec, JobRunning
<1> QED BY <1>2, <1>3, <1>4, <1>5 DEF Types

LEMMA RequestTypes ==
    ASSUME Types, NEW r \in Request,
           FetchUpload(r) \/ FetchWebDAV(r) \/ LockUpload(r) \/ Answer(r)
    PROVE  Types'
<1>1. UNCHANGED <<world, disk, active, saved, remote, owed, left, move, job>>
    BY DEF FetchUpload, FetchWebDAV, Fetch, LockUpload, Answer, Names, History
<1>2. CASE FetchUpload(r) \/ FetchWebDAV(r)
    <2>1. PICK pc \in {"fetched", "writing"} : Fetch(r, pc)
        BY <1>2 DEF FetchUpload, FetchWebDAV
    <2>2. active \in Path /\ mu = None /\ mu' = None
        BY <2>1 DEF Fetch, Types, StoreOK
    <2>3. RequestOK'
        BY <2>1, <2>2 DEF Fetch, Types, RequestOK
    <2> QED BY <1>1, <2>3, SameTypes DEF Types
<1>3. CASE LockUpload(r)
    <2>1. RequestOK'
        BY <1>3, NoneFacts DEF LockUpload, Types, RequestOK
    <2> QED BY <1>1, <2>1, SameTypes DEF Types
<1>4. CASE Answer(r)
    <2>1. RequestOK'
        BY <1>4, NoneFacts DEF Answer, Types, RequestOK, NoRequest
    <2> QED BY <1>1, <2>1, SameTypes DEF Types
<1> QED BY <1>2, <1>3, <1>4

\* A file is stored somewhere.
LEMMA StoreTypes ==
    ASSUME Types, NEW p \in Path, NEW f \in File, StoreFile(p, f),
           UNCHANGED <<world, active, saved, remote, left>>
    PROVE  StoreOK'
BY DEF Types, StoreOK, StoreFile, Entry

LEMMA PutTypes ==
    ASSUME Types, NEW r \in Request, PutFile(r)
    PROVE  Types'
<1>1. PICK f \in File : StoreFile(request[r].root, f)
    BY DEF PutFile
<1>2. UNCHANGED <<world, active, saved, remote, left, move, mu, request, job>>
    BY DEF PutFile, Names, Gui_
<1>3. request[r].root \in Path
    BY DEF PutFile, Types, RequestOK
<1> QED BY <1>1, <1>2, <1>3, StoreTypes, SameTypes DEF Types

\* What importer.Start queues, and what is kept of a job.
LEMMA JobRecFacts ==
    /\ \A files \in SUBSET File, excluded \in SUBSET File, dry, skip, single \in BOOLEAN :
          active \in Path => LET j == Queued(files, excluded, dry, skip, single)
                             IN  /\ j \in JobRec /\ j.todo = files /\ j.files = files
                                 /\ j.root = active /\ j.status = "queued" /\ j.dry = dry
                                 /\ j.errors = FALSE
    /\ job \in JobRec =>
          \A status \in {"completed", "completed-with-errors", "failed", "cancelled"} :
              LET j == Ended(status)
              IN  /\ j \in JobRec /\ j.todo = {} /\ j.files = job.files
                  /\ j.excluded = job.excluded /\ j.status = status
                  /\ j.dry = job.dry
<1>0. NoJob \in JobRec /\ NoJob.todo = {} /\ NoJob.errors = FALSE
    BY DEF NoJob, JobRec
<1>1. ASSUME NEW files \in SUBSET File, NEW excluded \in SUBSET File, NEW dry \in BOOLEAN,
             NEW skip \in BOOLEAN, NEW single \in BOOLEAN, active \in Path
      PROVE  LET j == Queued(files, excluded, dry, skip, single)
             IN  /\ j \in JobRec /\ j.todo = files /\ j.files = files
                 /\ j.root = active /\ j.status = "queued" /\ j.dry = dry
                 /\ j.errors = FALSE
    BY <1>0, <1>1 DEF Queued, JobRec
<1>2. ASSUME job \in JobRec,
             NEW status \in {"completed", "completed-with-errors", "failed", "cancelled"}
      PROVE  LET j == Ended(status)
             IN  /\ j \in JobRec /\ j.todo = {} /\ j.files = job.files
                 /\ j.excluded = job.excluded /\ j.status = status
                 /\ j.dry = job.dry
    BY <1>0, <1>2 DEF Ended, JobRec
<1> QED BY <1>1, <1>2

LEMMA JobTypes ==
    ASSUME Types, StartJob \/ CancelJob \/ BeginImport \/ EndImport
    PROVE  Types'
<1>1. UNCHANGED <<world, disk, active, saved, remote, owed, left, move, mu, request>>
    BY DEF StartJob, CancelJob, BeginImport, EndImport, JobStep, Names
<1>2. job \in JobRec /\ job.todo \subseteq job.files /\ (JobRunning => job.root \in Path)
    BY DEF Types, JobOK
<1>3. CASE StartJob
    <2>1. active \in Path
        BY <1>3 DEF StartJob, Types, StoreOK
    <2>2. JobOK'
        BY <1>3, <2>1, JobRecFacts DEF StartJob, JobOK, JobRunning
    <2> QED BY <1>1, <2>2, SameTypes DEF Types
<1>4. CASE CancelJob
    <2>1. JobOK'
        BY <1>2, <1>4 DEF CancelJob, JobOK, JobRunning, JobRec
    <2> QED BY <1>1, <2>1, SameTypes DEF Types
<1>5. CASE BeginImport
    <2>1. job' = [job EXCEPT !.status = "running"] => JobOK'
        BY <1>2, <1>5 DEF BeginImport, JobOK, JobRunning, JobRec
    <2>2. job' = Ended("failed") => JobOK'
        BY <1>2, JobRecFacts DEF JobOK, JobRunning
    <2> QED BY <1>1, <1>5, <2>1, <2>2, SameTypes DEF Types, BeginImport
<1>6. CASE EndImport
    <2>1. PICK status \in {"completed", "completed-with-errors", "failed", "cancelled"} : job' = Ended(status)
        BY <1>6 DEF EndImport, Finished
    <2>2. JobOK'
        BY <1>2, <2>1, JobRecFacts DEF JobOK, JobRunning
    <2> QED BY <1>1, <2>2, SameTypes DEF Types
<1> QED BY <1>3, <1>4, <1>5, <1>6

LEMMA ImportTypes ==
    ASSUME Types, NEW f \in File, ImportEntry(f)
    PROVE  Types'
<1>1. UNCHANGED <<world, active, saved, remote, left, move, mu, request>>
    BY DEF ImportEntry, JobStep, Names
<1>2. job \in JobRec /\ job.todo \subseteq job.files /\ job.root \in Path
    BY DEF Types, JobOK, JobRunning, ImportEntry
<1>3. \/ job' = [job EXCEPT !.todo = @ \ {f}]
      \/ job' = [job EXCEPT !.todo = @ \ {f}, !.errors = TRUE]
    BY DEF ImportEntry
<1>4. JobOK'
    BY <1>2, <1>3 DEF JobOK, JobRunning, JobRec
<1>5. UNCHANGED <<disk, owed>> \/ StoreFile(job.root, f)
    BY DEF ImportEntry
<1>6. StoreOK'
    BY <1>1, <1>2, <1>5, StoreTypes, SameTypes
<1> QED BY <1>1, <1>4, <1>6, SameTypes DEF Types

\* What a move is at its start.
LEMMA MoveRecFacts ==
    ASSUME NEW by \in {"gui", "cli"}, NEW from \in Path, NEW to \in Path, NEW named \in BOOLEAN,
           NEW replace, StartMove(by, from, to, named, replace)
    PROVE  /\ move' \in MoveRec /\ move'.pc = "prepared" /\ move'.from = from /\ move'.to = to
           /\ move'.by = by /\ move'.named = named /\ move'.listing = {} /\ move'.staged = {}
<1>1. NoMove \in MoveRec /\ NoMove.pc = "idle" /\ NoMove.listing = {} /\ NoMove.staged = {}
    BY DEF NoMove, MoveRec
<1>2. move' = [NoMove EXCEPT !.by = by, !.pc = "prepared", !.from = from, !.to = to, !.named = named]
    BY DEF StartMove
<1> QED BY <1>1, <1>2 DEF MoveRec

LEMMA StartMoveTypes ==
    ASSUME Types, NEW by \in {"gui", "cli"}, NEW from \in Path, NEW to \in Path,
           NEW named \in BOOLEAN, NEW replace \in BOOLEAN, StartMove(by, from, to, named, replace)
    PROVE  Types'
<1>1. UNCHANGED <<world, active, saved, remote, owed, left, mu, request, job>>
    BY DEF StartMove, Names, Gui_
<1>2. disk' = [disk EXCEPT ![to] = {}] /\ from # to
    BY DEF StartMove, Movable
<1>3. StoreOK'
    BY <1>1, <1>2 DEF Types, StoreOK
<1>4. MoveOK'
    <2>1. /\ move' \in MoveRec /\ move'.pc = "prepared" /\ move'.from = from /\ move'.to = to
          /\ move'.by = by /\ move'.listing = {} /\ move'.staged = {}
        BY MoveRecFacts
    <2> QED BY <1>2, <2>1 DEF MoveOK, Moving
<1> QED BY <1>1, <1>3, <1>4, SameTypes DEF Types

\* A step of the move to another stage.
LEMMA MoveStepTypes ==
    ASSUME Types, NEW pc \in {"prepared", "copying", "removing", "moved", "renamed"},
           NEW to \in {"removing", "moved", "renamed", "updated"}, MoveStep(pc, to)
    PROVE  /\ MoveOK' /\ move'.pc = to /\ UNCHANGED <<world, owed>> /\ Moving
           /\ move'.from = move.from /\ move'.to = move.to /\ move'.by = move.by
           /\ move'.named = move.named
<1>1. move \in MoveRec /\ move.pc = pc /\ (Moving => /\ move.from \in Path /\ move.to \in Path
                                                     /\ move.by \in {"gui", "cli"})
      /\ (Moving <=> move.from # move.to)
    BY DEF Types, MoveOK, MoveStep
<1>2. move' = [move EXCEPT !.pc = to, !.listing = {}, !.staged = {}]
    BY DEF MoveStep
<1>3. /\ move' \in MoveRec /\ move'.pc = to /\ move'.from = move.from /\ move'.to = move.to
      /\ move'.by = move.by /\ move'.named = move.named /\ move'.listing = {} /\ move'.staged = {}
    BY <1>1, <1>2 DEF MoveRec
<1>4. Moving
    BY <1>1 DEF Moving
<1> QED BY <1>1, <1>3, <1>4 DEF MoveOK, Moving, MoveStep

LEMMA MoveTypes ==
    ASSUME Types, RenameVault \/ PlaceCopy \/ RemoveEntry \/ UpdateProfiles \/ UpdateRemotes
    PROVE  Types'
<1>1. UNCHANGED <<active, mu, request, job>>
    BY DEF RenameVault, PlaceCopy, RemoveEntry, UpdateProfiles, UpdateRemotes, Gui_
<1>2. PICK pc \in {"prepared", "copying", "removing", "moved", "renamed"},
           to \in {"removing", "moved", "renamed", "updated"} : MoveStep(pc, to)
    <2>1. RemoveEntry => MoveStep("removing", "moved") \/ MoveStep("removing", "removing")
        BY DEF RemoveEntry
    <2> QED BY <2>1 DEF RenameVault, PlaceCopy, UpdateProfiles, UpdateRemotes
<1>3. MoveOK' /\ UNCHANGED <<world, owed>> /\ Moving
    BY <1>2, MoveStepTypes
<1>4. move.from \in Path /\ move.to \in Path /\ move.staged \subseteq Entry
    BY <1>3 DEF Types, MoveOK, MoveRec
<1>5. disk' \in [Path -> SUBSET Entry]
    <2>1. UNCHANGED disk => disk' \in [Path -> SUBSET Entry]
        BY DEF Types, StoreOK
    <2>2. CASE RenameVault
        BY <1>4, <2>2 DEF RenameVault, Types, StoreOK
    <2>3. CASE PlaceCopy
        BY <1>4, <2>3 DEF PlaceCopy, Types, StoreOK
    <2>4. CASE RemoveEntry
        BY <1>4, <2>4 DEF RemoveEntry, Types, StoreOK
    <2> QED BY <2>1, <2>2, <2>3, <2>4 DEF UpdateProfiles, UpdateRemotes
<1>6. saved' \in Path \cup {None} /\ remote' \in Path \cup {None} /\ left' \subseteq AllNames
    <2>1. /\ saved \in Path \cup {None} /\ remote \in Path \cup {None} /\ left \subseteq AllNames
        BY DEF Types, StoreOK
    <2>2. CASE UpdateProfiles
        BY <1>4, <2>1, <2>2 DEF UpdateProfiles, AllNames
    <2>3. CASE UpdateRemotes
        BY <1>4, <2>1, <2>3 DEF UpdateRemotes, AllNames
    <2> QED BY <2>1, <2>2, <2>3 DEF RenameVault, PlaceCopy, RemoveEntry, Names
<1>7. StoreOK'
    BY <1>1, <1>3, <1>5, <1>6 DEF Types, StoreOK
<1> QED BY <1>1, <1>3, <1>7, SameTypes DEF Types

LEMMA CopyTypes ==
    ASSUME Types, BeginCopy \/ CopyEntry
    PROVE  Types'
<1>1. UNCHANGED <<world, disk, active, saved, remote, owed, left, mu, request, job>>
    BY DEF BeginCopy, CopyEntry, Names, Gui_, History
<1>2. /\ move \in MoveRec /\ move.staged \subseteq move.listing /\ (Moving <=> move.from # move.to)
      /\ Moving /\ move.from \in Path /\ move.to \in Path /\ move.by \in {"gui", "cli"}
    BY DEF Types, MoveOK, BeginCopy, CopyEntry, Moving
<1>3. CASE BeginCopy
    <2>1. disk[move.from] \subseteq Entry
        BY <1>2 DEF Types, StoreOK
    <2>2. move' = [move EXCEPT !.pc = "copying", !.listing = disk[move.from]]
        BY <1>3 DEF BeginCopy
    <2>3. move.staged \subseteq disk[move.from]
        BY <1>3 DEF BeginCopy, Types, MoveOK
    <2>4. MoveOK'
        BY <1>2, <2>1, <2>2, <2>3 DEF MoveOK, MoveRec, Moving
    <2> QED BY <1>1, <2>4, SameTypes DEF Types
<1>4. CASE CopyEntry
    <2>1. PICK e \in move.listing : move' = [move EXCEPT !.staged = @ \cup {e}]
        BY <1>4 DEF CopyEntry
    <2>2. MoveOK'
        BY <1>2, <1>4, <2>1 DEF CopyEntry, MoveOK, MoveRec, Moving
    <2> QED BY <1>1, <2>2, SameTypes DEF Types
<1> QED BY <1>3, <1>4

LEMMA EndTypes ==
    ASSUME Types, EndMove \/ CloseMoved \/ ReopenMoved \/ FailMove \/ KillCli
    PROVE  Types'
<1>1. UNCHANGED <<world, disk, saved, remote, owed, mu, request, job>>
    BY DEF EndMove, CloseMoved, ReopenMoved, FailMove, KillCli, Names, Gui_, History
<1>2. /\ move \in MoveRec /\ move.staged \subseteq move.listing /\ (Moving <=> move.from # move.to)
      /\ (Moving => move.from \in Path /\ move.to \in Path /\ move.by \in {"gui", "cli"})
      /\ move.pc # "copying" => move.staged = {}
    BY DEF Types, MoveOK
<1>3. MoveOK' /\ left' \subseteq AllNames
    <2>1. left \subseteq AllNames
        BY DEF Types, StoreOK
    <2>2. CASE EndMove
        BY <2>1, <2>2, NoMoveTypes DEF EndMove, History
    <2>3. CASE CloseMoved
        <3>1. UNCHANGED left /\ (move' = NoMove \/ move' = [move EXCEPT !.pc = "reopening"])
            BY <2>3 DEF CloseMoved, History
        <3>2. Moving
            BY <2>3 DEF CloseMoved, Moving
        <3>3. move' = [move EXCEPT !.pc = "reopening"] => MoveOK'
            BY <1>2, <2>3, <3>2 DEF CloseMoved, MoveOK, MoveRec, Moving
        <3> QED BY <2>1, <3>1, <3>3, NoMoveTypes
    <2>4. CASE ReopenMoved
        BY <2>1, <2>4, NoMoveTypes DEF ReopenMoved, History
    <2>5. CASE FailMove \/ KillCli
        BY <2>5, NoMoveTypes DEF FailMove, KillCli
    <2> QED BY <2>2, <2>3, <2>4, <2>5
<1>4. active' \in Path \cup {None}
    <2>1. ReopenMoved => move.to \in Path
        BY <1>2 DEF ReopenMoved, Moving
    <2> QED BY <2>1 DEF EndMove, CloseMoved, ReopenMoved, FailMove, KillCli, Gui_, Types, StoreOK
<1>5. StoreOK'
    BY <1>1, <1>3, <1>4 DEF Types, StoreOK
<1> QED BY <1>1, <1>3, <1>5, SameTypes DEF Types

LEMMA StepTypes == Types /\ [Next]_vars => Types'
<1> SUFFICES ASSUME Types, [Next]_vars PROVE Types'
    OBVIOUS
<1>1. CASE UNCHANGED vars
    BY <1>1, SameTypes DEF vars, Types
<1> QED BY <1>1, StepCases, CreateTypes, NameTypes, KillGuiTypes, RequestTypes, PutTypes, JobTypes,
           ImportTypes, StartMoveTypes, MoveTypes, CopyTypes, EndTypes

LEMMA TypesTell == Types => TypeOK
BY DEF Types, StoreOK, MoveOK, RequestOK, JobOK, TypeOK, Entry, AllNames

LEMMA AlwaysTypes == Spec => []Types
<1>1. QED BY InitTypes, StepTypes, PTL DEF Spec

\* Every variable keeps its type, and the mutex is held exactly by the upload that is
\* putting its files (server.go:1010 and 1060).
THEOREM TypeCorrect == Spec => []TypeOK
BY AlwaysTypes, TypesTell, PTL

-----------------------------------------------------------------------------
(* One directory holds the whole vault.                                    *)
Whole == SomewhereWhole /\ MoveSafe

LEMMA InitWhole == Init => Whole
BY VaultMoveAssumption DEF Init, Whole, SomewhereWhole, MoveSafe, NoMove

\* A step that leaves the directories, and moves on to where nothing is promised.
LEMMA SameWhole ==
    ASSUME Whole, UNCHANGED <<disk, owed>>,
           UNCHANGED move \/ move'.pc \notin {"copying", "removing"}
    PROVE  Whole'
<1>1. SomewhereWhole'
    BY DEF Whole, SomewhereWhole
<1>2. CASE UNCHANGED move
    BY <1>1, <1>2 DEF Whole, MoveSafe, Elsewhere
<1>3. CASE move'.pc \notin {"copying", "removing"}
    BY <1>1, <1>3 DEF Whole, MoveSafe
<1> QED BY <1>2, <1>3

LEMMA StoreWhole ==
    ASSUME Types, Whole, NEW p \in Path, NEW f \in File, StoreFile(p, f), UNCHANGED move
    PROVE  Whole'
<1>1. disk' \in [Path -> SUBSET Entry] /\ \A q \in Path : disk[q] \subseteq disk'[q]
    BY DEF Types, StoreOK, StoreFile, Entry
<1>2. CASE AtHome(p)
    <2>1. owed' \subseteq disk'[p]
        BY <1>2 DEF Types, StoreOK, StoreFile, AtHome
    <2>2. move.pc \in {"copying", "removing"} => Elsewhere'
        BY <1>2, <2>1 DEF AtHome, Elsewhere
    <2>3. move.pc = "copying" => move.from \in Path /\ move.listing \subseteq disk[move.from]
        BY DEF Types, MoveOK, Moving, Whole, MoveSafe
    <2> QED BY <1>1, <2>1, <2>2, <2>3 DEF Whole, SomewhereWhole, MoveSafe
<1>3. CASE ~AtHome(p)
    <2>1. owed' = owed
        BY <1>3 DEF StoreFile
    <2>2. SomewhereWhole' /\ (Elsewhere => Elsewhere')
        BY <1>1, <2>1 DEF Whole, SomewhereWhole, Elsewhere
    <2>3. move.pc = "copying" => move.from \in Path
        BY DEF Types, MoveOK, Moving
    <2> QED BY <1>1, <2>1, <2>2, <2>3 DEF Whole, MoveSafe
<1> QED BY <1>2, <1>3

LEMMA StartWhole ==
    ASSUME Types, Whole, NEW by \in {"gui", "cli"}, NEW from \in Path, NEW to \in Path,
           NEW named \in BOOLEAN, NEW replace \in BOOLEAN, StartMove(by, from, to, named, replace)
    PROVE  Whole'
<1>1. disk' = [disk EXCEPT ![to] = {}] /\ owed' = owed /\ from # to /\ MayEmpty(from, to, replace)
    BY DEF StartMove, Movable
<1>2. move'.pc = "prepared"
    BY MoveRecFacts
<1>3. disk \in [Path -> SUBSET Entry]
    BY DEF Types, StoreOK
<1>4. SomewhereWhole'
    <2>1. CASE disk[to] = {}
        BY <1>1, <1>3, <2>1 DEF Whole, SomewhereWhole
    <2>2. CASE owed \subseteq disk[from]
        BY <1>1, <1>3, <2>2 DEF SomewhereWhole
    <2> QED BY <1>1, <2>1, <2>2 DEF MayEmpty
<1> QED BY <1>2, <1>4 DEF Whole, MoveSafe

\* The move itself: the directories change by the rename, the copy and the removal.
LEMMA MoveWhole ==
    ASSUME Types, Whole, RenameVault \/ BeginCopy \/ CopyEntry \/ PlaceCopy \/ RemoveEntry
    PROVE  Whole'
<1>1. /\ Moving /\ move \in MoveRec /\ move.from \in Path /\ move.to \in Path /\ move.from # move.to
      /\ disk \in [Path -> SUBSET Entry] /\ owed' = owed
    BY DEF Types, StoreOK, MoveOK, Moving, RenameVault, BeginCopy, CopyEntry, PlaceCopy,
           RemoveEntry, MoveStep, History
<1>2. CASE RenameVault
    <2>1. move'.pc = "moved"
        BY <1>1, <1>2 DEF RenameVault, MoveStep, MoveRec
    <2>2. PICK p \in Path : owed \subseteq disk[p]
        BY DEF Whole, SomewhereWhole
    <2>3. disk[move.to] = {} /\ disk' = [disk EXCEPT ![move.to] = disk[move.from], ![move.from] = {}]
        BY <1>2 DEF RenameVault
    <2>4. p \in {move.from, move.to} => owed \subseteq disk'[move.to]
        BY <1>1, <2>2, <2>3
    <2>5. p \notin {move.from, move.to} => owed \subseteq disk'[p]
        BY <1>1, <2>2, <2>3
    <2> QED BY <1>1, <2>1, <2>4, <2>5 DEF Whole, SomewhereWhole, MoveSafe
<1>3. CASE BeginCopy
    <2>1. move' = [move EXCEPT !.pc = "copying", !.listing = disk[move.from]] /\ disk' = disk
        BY <1>3 DEF BeginCopy
    <2>2. move'.pc = "copying" /\ move'.listing = disk[move.from] /\ move'.from = move.from
        BY <1>1, <2>1 DEF MoveRec
    <2>3. SomewhereWhole' /\ (owed \subseteq disk[move.from] \/ Elsewhere')
        BY <1>1, <2>1, <2>2 DEF Whole, SomewhereWhole, Elsewhere
    <2> QED BY <1>1, <2>1, <2>2, <2>3 DEF Whole, MoveSafe
<1>4. CASE CopyEntry
    <2>1. /\ UNCHANGED disk /\ move'.pc = "copying" /\ move.pc = "copying"
          /\ move'.listing = move.listing /\ move'.from = move.from
        BY <1>1, <1>4 DEF CopyEntry, MoveRec
    <2> QED BY <1>1, <2>1 DEF Whole, SomewhereWhole, MoveSafe, Elsewhere
<1>5. CASE PlaceCopy
    <2>1. /\ move.pc = "copying" /\ move'.pc = "removing" /\ move'.from = move.from
          /\ disk[move.to] = {} /\ disk' = [disk EXCEPT ![move.to] = move.listing]
        BY <1>1, <1>5 DEF PlaceCopy, MoveStep, MoveRec
    <2>2. CASE owed \subseteq move.listing
        BY <1>1, <2>1, <2>2 DEF Whole, SomewhereWhole, MoveSafe, Elsewhere
    <2>3. CASE Elsewhere
        BY <1>1, <2>1, <2>3 DEF Whole, SomewhereWhole, MoveSafe, Elsewhere
    <2> QED BY <2>1, <2>2, <2>3 DEF Whole, MoveSafe
<1>6. CASE RemoveEntry
    <2>1. /\ move.pc = "removing" /\ move'.pc \in {"removing", "moved"} /\ move'.from = move.from
          /\ \E e : disk' = [disk EXCEPT ![move.from] = @ \ {e}]
        BY <1>1, <1>6 DEF RemoveEntry, MoveStep, MoveRec
    <2>2. Elsewhere
        BY <2>1 DEF Whole, MoveSafe
    <2>3. Elsewhere'
        BY <1>1, <2>1, <2>2 DEF Elsewhere
    <2> QED BY <2>1, <2>3 DEF Whole, SomewhereWhole, MoveSafe, Elsewhere
<1> QED BY <1>2, <1>3, <1>4, <1>5, <1>6

LEMMA StepWhole == Types /\ Whole /\ [Next]_vars => Whole'
<1> SUFFICES ASSUME Types, Whole, [Next]_vars PROVE Whole'
    OBVIOUS
<1>1. CASE UNCHANGED vars
    BY <1>1, SameWhole DEF vars
<1>2. CASE \E p \in Path : InitInGui(p) \/ InitInCli(p)
    <2>1. PICK p \in Path : CreateVault(p)
        BY <1>2 DEF InitInGui, InitInCli
    <2>2. owed' \subseteq disk'[p] /\ UNCHANGED move /\ ~Moving
        BY <2>1 DEF CreateVault, Types, StoreOK
    <2> QED BY <2>2 DEF Whole, SomewhereWhole, MoveSafe, Moving
<1>3. CASE CloseVault \/ \E p \in Path : OpenVault(p) \/ SaveProfile(p) \/ SaveRemote(p)
    BY <1>3, SameWhole DEF CloseVault, OpenVault, SaveProfile, SaveRemote, History
<1>4. CASE KillGui
    BY <1>4, SameWhole DEF KillGui, BreakOff, NoMove
<1>5. CASE \E r \in Request : FetchUpload(r) \/ FetchWebDAV(r) \/ LockUpload(r) \/ Answer(r)
    BY <1>5, SameWhole DEF FetchUpload, FetchWebDAV, Fetch, LockUpload, Answer, History
<1>6. CASE \E r \in Request : PutFile(r)
    <2>1. PICK r \in Request, f \in File : StoreFile(request[r].root, f)
                                           /\ request[r].pc # "idle" /\ UNCHANGED move
        BY <1>6 DEF PutFile
    <2>2. request[r].root \in Path
        BY <2>1 DEF Types, RequestOK
    <2> QED BY <2>1, <2>2, StoreWhole
<1>7. CASE StartJob \/ CancelJob \/ BeginImport \/ EndImport
    BY <1>7, SameWhole DEF StartJob, CancelJob, BeginImport, EndImport, JobStep
<1>8. CASE \E f \in File : ImportEntry(f)
    <2>1. PICK f \in File : ImportEntry(f)
        BY <1>8
    <2>2. job.root \in Path /\ UNCHANGED move
        BY <2>1 DEF ImportEntry, JobStep, Types, JobOK, JobRunning
    <2>3. UNCHANGED <<disk, owed>> \/ StoreFile(job.root, f)
        BY <2>1 DEF ImportEntry
    <2> QED BY <2>2, <2>3, StoreWhole, SameWhole
<1>9. CASE UpdateProfiles \/ UpdateRemotes
    <2>1. UNCHANGED <<disk, owed>> /\ move'.pc \in {"renamed", "updated"}
        BY <1>9 DEF UpdateProfiles, UpdateRemotes, MoveStep, Types, MoveOK, MoveRec
    <2> QED BY <2>1, SameWhole
<1>10. CASE EndMove \/ CloseMoved \/ ReopenMoved \/ FailMove \/ KillCli
    <2>1. move' = NoMove => move'.pc = "idle"
        BY DEF NoMove
    <2>2. CloseMoved => move' = NoMove \/ move'.pc = "reopening"
        BY DEF CloseMoved, Types, MoveOK, MoveRec
    <2>3. UNCHANGED <<disk, owed>>
        BY <1>10 DEF EndMove, CloseMoved, ReopenMoved, FailMove, KillCli, History
    <2>4. move'.pc \in {"idle", "reopening"}
        BY <1>10, <2>1, <2>2 DEF EndMove, ReopenMoved, FailMove, KillCli, BreakOff
    <2> QED BY <2>3, <2>4, SameWhole
<1> QED BY <1>1, <1>2, <1>3, <1>4, <1>5, <1>6, <1>7, <1>8, <1>9, <1>10, StepCases, StartWhole, MoveWhole

\* Whatever is moved, written and broken off at the same time, one directory holds the
\* whole vault: its configuration and all files that were stored there while nobody was
\* copying or removing it (vaultmove.go:159).
THEOREM WholeVaultSomewhere == Spec => []SomewhereWhole
<1>1. Whole => SomewhereWhole
    BY DEF Whole
<1> QED BY <1>1, InitWhole, StepWhole, AlwaysTypes, PTL DEF Spec

-----------------------------------------------------------------------------
(* If moves are kept apart: before there is a vault, and who meets a move. *)
LEMMA StepNothingYet == Types /\ NothingYet /\ [Next]_vars => NothingYet'
<1> SUFFICES ASSUME Types, NothingYet, [Next]_vars, owed' = {}
             PROVE  NothingYet'
    BY DEF NothingYet
<1>1. CASE UNCHANGED vars
    BY <1>1 DEF vars, NothingYet, Moving, JobRunning
<1>2. CASE \E p \in Path : InitInGui(p) \/ InitInCli(p)
    BY <1>2 DEF InitInGui, InitInCli, CreateVault
<1>3. owed = {} \/ \E p \in Path : InitInGui(p) \/ InitInCli(p)
    <2>1. ASSUME NEW p \in Path, NEW f \in File, StoreFile(p, f) PROVE owed = {}
        BY <2>1 DEF StoreFile
    <2>2. ASSUME NEW r \in Request, PutFile(r) PROVE owed = {}
        <3>1. request[r].root \in Path
            BY <2>2 DEF PutFile, Types, RequestOK
        <3> QED BY <2>1, <2>2, <3>1 DEF PutFile
    <2>3. ASSUME NEW f \in File, ImportEntry(f) PROVE owed = {}
        <3>1. job.root \in Path
            BY <2>3 DEF ImportEntry, Types, JobOK, JobRunning
        <3> QED BY <2>1, <2>3, <3>1 DEF ImportEntry
    <2>4. owed' = owed \/ (\E r \in Request : PutFile(r)) \/ (\E f \in File : ImportEntry(f))
          \/ \E p \in Path : InitInGui(p) \/ InitInCli(p)
        BY StepCases DEF vars, OpenVault, SaveProfile, SaveRemote, CloseVault, KillGui,
               FetchUpload, FetchWebDAV, Fetch, LockUpload, Answer, StartJob, CancelJob,
               BeginImport, EndImport, StartMove, RenameVault, BeginCopy, CopyEntry, PlaceCopy,
               RemoveEntry, UpdateProfiles, UpdateRemotes, EndMove, CloseMoved, ReopenMoved,
               FailMove, KillCli, MoveStep, History
    <2> QED BY <2>2, <2>3, <2>4
<1>4. SUFFICES ASSUME owed = {} PROVE NothingYet'
    BY <1>2, <1>3
<1>5. /\ \A p \in Path : disk[p] = {}
      /\ active = None /\ saved = None /\ remote = None /\ move.pc = "idle"
      /\ job.status \notin {"queued", "running"} /\ \A r \in Request : request[r].pc = "idle"
    BY <1>4 DEF NothingYet, Moving, JobRunning
<1>6. CASE KillGui
    <2>1. move' = NoMove \/ UNCHANGED move
        BY <1>6 DEF KillGui, BreakOff
    <2> QED BY <1>5, <1>6, <2>1
            DEF KillGui, Names, NothingYet, NoMove, NoRequest, NoJob, Moving, JobRunning
<1>7. CASE KillCli
    BY <1>5, <1>7 DEF KillCli, BreakOff, Names, Gui_, NothingYet, NoMove, Moving, JobRunning
<1>8. \/ UNCHANGED vars \/ KillGui \/ KillCli
      \/ \E p \in Path : InitInGui(p) \/ InitInCli(p)
    BY StepCases, <1>5 DEF OpenVault, SaveProfile, SaveRemote, CloseVault,
           FetchUpload, FetchWebDAV, Fetch, LockUpload, PutFile, Answer, StartJob, CancelJob,
           BeginImport, EndImport, ImportEntry, StartMove, Movable, RenameVault, BeginCopy,
           CopyEntry, PlaceCopy, RemoveEntry, UpdateProfiles, UpdateRemotes, EndMove, CloseMoved,
           ReopenMoved, FailMove, MoveStep, JobRunning
<1> QED BY <1>1, <1>2, <1>6, <1>7, <1>8

LEMMA StepMovesApart == Types /\ MovesApart /\ [Next]_vars => MovesApart'
<1> SUFFICES ASSUME Types, MovesApart, [Next]_vars, Quiet', Moving'
             PROVE  (/\ ~JobRunning /\ \A r \in Request : request[r].pc = "idle"
                     /\ move.by = "cli" => active = None)'
    BY DEF MovesApart
<1>1. Quiet
    <2>1. UNCHANGED world
        BY StepCases DEF vars, InitInGui, InitInCli, CreateVault, OpenVault, SaveProfile, SaveRemote,
               CloseVault, KillGui, FetchUpload, FetchWebDAV, Fetch, LockUpload, PutFile, Answer,
               StartJob, CancelJob, BeginImport, EndImport, ImportEntry, JobStep, StartMove,
               RenameVault, BeginCopy, CopyEntry, PlaceCopy, RemoveEntry, UpdateProfiles,
               UpdateRemotes, EndMove, CloseMoved, ReopenMoved, FailMove, KillCli, MoveStep
    <2> QED BY <2>1 DEF Quiet
<1>2. CASE \E by \in {"gui", "cli"}, from, to \in Path, named, replace \in BOOLEAN :
               StartMove(by, from, to, named, replace)
    <2>1. PICK by \in {"gui", "cli"}, from \in Path, to \in Path, named \in BOOLEAN,
               replace \in BOOLEAN : StartMove(by, from, to, named, replace)
        BY <1>2
    <2>2. move'.by = by
        BY <2>1, MoveRecFacts
    <2> QED BY <1>1, <2>1, <2>2 DEF StartMove, MayMove, Gui_, JobRunning
<1>3. CASE ~Moving /\ UNCHANGED move
    BY <1>3 DEF Moving
<1>4. CASE Moving
    <2>1. /\ job.status \notin {"queued", "running"} /\ \A r \in Request : request[r].pc = "idle"
          /\ move.by = "cli" => active = None
        BY <1>1, <1>4 DEF MovesApart, JobRunning
    <2>2. CASE move'.by = move.by /\ UNCHANGED <<request, job>> /\ active' \in {active, None}
        BY <2>1, <2>2 DEF JobRunning
    <2>3. CASE KillGui
        BY <2>1, <2>3, NoneFacts DEF KillGui, BreakOff, NoMove, NoRequest, NoJob, Moving, JobRunning
    <2>4. CASE EndMove \/ ReopenMoved \/ FailMove \/ KillCli
        BY <2>4 DEF EndMove, ReopenMoved, FailMove, KillCli, BreakOff, NoMove, Moving
    <2>5. CASE CloseMoved
        <3>1. move' = NoMove \/ move'.by = move.by
            BY <2>5 DEF CloseMoved, Types, MoveOK, MoveRec
        <3>2. move' # NoMove
            BY DEF NoMove, Moving
        <3> QED BY <2>2, <2>5, <3>1, <3>2 DEF CloseMoved
    <2>6. CASE RenameVault \/ PlaceCopy \/ RemoveEntry \/ UpdateProfiles \/ UpdateRemotes
        <3>1. UNCHANGED <<active, request, job>>
            BY <2>6 DEF RenameVault, PlaceCopy, RemoveEntry, UpdateProfiles, UpdateRemotes, Gui_
        <3>2. move'.by = move.by
            BY <2>6 DEF RenameVault, PlaceCopy, RemoveEntry, UpdateProfiles, UpdateRemotes,
                        MoveStep, Types, MoveOK, MoveRec
        <3> QED BY <2>2, <3>1, <3>2
    <2>7. CASE BeginCopy \/ CopyEntry
        <3>1. UNCHANGED <<active, request, job>> /\ move'.by = move.by
            BY <2>7 DEF BeginCopy, CopyEntry, Gui_, Types, MoveOK, MoveRec
        <3> QED BY <2>2, <3>1
    <2>8. CASE CloseVault \/ \E p \in Path : OpenVault(p) \/ SaveProfile(p) \/ SaveRemote(p)
        BY <1>1, <1>4, <2>2, <2>8 DEF CloseVault, OpenVault, SaveProfile, SaveRemote, MayAct
    <2>9. CASE UNCHANGED vars
        BY <2>2, <2>9 DEF vars
    <2>10. UNCHANGED vars \/ KillGui \/ EndMove \/ CloseMoved \/ ReopenMoved \/ FailMove \/ KillCli
           \/ RenameVault \/ PlaceCopy \/ RemoveEntry \/ UpdateProfiles \/ UpdateRemotes
           \/ BeginCopy \/ CopyEntry \/ CloseVault
           \/ \E p \in Path : OpenVault(p) \/ SaveProfile(p) \/ SaveRemote(p)
        BY <1>1, <1>2, <1>4, <2>1, StepCases
           DEF InitInGui, InitInCli, CreateVault, FetchUpload, FetchWebDAV, Fetch, LockUpload,
               PutFile, Answer, StartJob, CancelJob, BeginImport, EndImport, ImportEntry, MayAct,
               StartMove, MayMove, JobRunning
    <2> QED BY <2>3, <2>4, <2>5, <2>6, <2>7, <2>8, <2>9, <2>10
<1>5. Moving \/ UNCHANGED move \/ \E by \in {"gui", "cli"}, from, to \in Path, named, replace \in BOOLEAN :
                                      StartMove(by, from, to, named, replace)
    <2>1. KillGui \/ KillCli => UNCHANGED move
        BY DEF KillGui, KillCli, BreakOff, NoMove, Moving
    <2> QED BY <2>1, StepCases
            DEF vars, InitInGui, InitInCli, CreateVault, OpenVault, SaveProfile, SaveRemote,
               CloseVault, FetchUpload, FetchWebDAV, Fetch, LockUpload, PutFile, Answer,
               StartJob, CancelJob, BeginImport, EndImport, ImportEntry, JobStep,
               RenameVault, BeginCopy, CopyEntry, PlaceCopy, RemoveEntry, UpdateProfiles,
               UpdateRemotes, EndMove, CloseMoved, ReopenMoved, FailMove, MoveStep, Moving
<1> QED BY <1>2, <1>3, <1>4, <1>5

LEMMA StepLeft == Types /\ LeftTogether /\ [Next]_vars => LeftTogether' /\ left \subseteq left'
<1> SUFFICES ASSUME Types, LeftTogether, [Next]_vars
             PROVE  LeftTogether' /\ left \subseteq left'
    OBVIOUS
<1>1. \/ UNCHANGED left \/ left' = left \cup {"saved"} \/ left' = left \cup {"remote"}
      \/ left' = left \cup LeftBy(move.pc)
    BY StepCases DEF vars, InitInGui, InitInCli, CreateVault, OpenVault, SaveProfile, SaveRemote,
               CloseVault, KillGui, FetchUpload, FetchWebDAV, Fetch, LockUpload, PutFile, Answer,
               StartJob, CancelJob, BeginImport, EndImport, ImportEntry, JobStep, StartMove,
               RenameVault, BeginCopy, CopyEntry, PlaceCopy, RemoveEntry, UpdateProfiles,
               UpdateRemotes, EndMove, CloseMoved, ReopenMoved, FailMove, KillCli, BreakOff, History
<1>2. LeftBy(move.pc) \in {{}, AllNames, {"saved", "remote"}}
    BY DEF LeftBy, AllNames
<1>3. left \subseteq AllNames
    BY DEF Types, StoreOK
<1> QED BY <1>1, <1>2, <1>3 DEF LeftTogether, AllNames

-----------------------------------------------------------------------------
(* If moves are kept apart: where the vault is and what says so.           *)
Good ==
    /\ Types /\ NothingYet /\ MovesApart /\ Orderly
    /\ Quiet /\ Quiet' /\ "active" \notin left /\ "active" \notin left'

\* Between moves, a directory that holds something, or is written to, is where the vault is.
LEMMA AtRest ==
    ASSUME Good, ~Moving, NEW p \in Path, disk[p] # {} \/ (disk[p] = owed /\ owed # {})
    PROVE  OnlyAt(p) /\ owed # {} /\ \A q \in Path : disk[q] = owed => q = p
<1>1. owed # {}
    BY DEF Good, NothingYet
<1>2. PICK q \in Path : OnlyAt(q)
    BY <1>1 DEF Good, Orderly, Place
<1> QED BY <1>1, <1>2 DEF OnlyAt

\* What a step leaves alone.
LEMMA SameOrder ==
    ASSUME Good
    PROVE  /\ UNCHANGED <<disk, owed, move>> => Place'
           /\ UNCHANGED <<disk, owed, left, active, saved, remote, move>> => Following'
           /\ UNCHANGED <<disk, owed, request, job>> => Writing'
           /\ UNCHANGED <<owed, job>> => Importing'
           /\ Moving /\ UNCHANGED <<request, job>> => Writing'
<1>1. UNCHANGED <<disk, owed, move>> => Place'
    BY DEF Good, Orderly, Place, OnlyAt, Moving
<1>2. UNCHANGED <<disk, owed, left, active, saved, remote, move>> => Following'
    BY DEF Good, Orderly, Following, Follows, Says, Moving
<1>3. UNCHANGED <<disk, owed, request, job>> => Writing'
    BY DEF Good, Orderly, Writing, JobRunning
<1>4. UNCHANGED <<owed, job>> => Importing'
    BY DEF Good, Orderly, Importing
<1>5. Moving /\ UNCHANGED <<request, job>> => Writing'
    BY DEF Good, MovesApart, Writing, JobRunning
<1> QED BY <1>1, <1>2, <1>3, <1>4, <1>5

LEMMA CreateOrder ==
    ASSUME Good, NEW p \in Path, InitInGui(p) \/ InitInCli(p)
    PROVE  Orderly'
<1>1. /\ ~Moving /\ owed = {} /\ disk' = [disk EXCEPT ![p] = {Config}] /\ owed' = {Config}
      /\ saved' \in {saved, p} /\ active' \in {active, p}
      /\ UNCHANGED <<remote, move, request, job, left>>
    BY DEF InitInGui, InitInCli, CreateVault
<1>2. /\ \A q \in Path : disk[q] = {}
      /\ active = None /\ saved = None /\ remote = None /\ ~JobRunning
      /\ \A r \in Request : request[r].pc = "idle"
    BY <1>1 DEF Good, NothingYet
<1>3. disk \in [Path -> SUBSET Entry]
    BY DEF Good, Types, StoreOK
<1>4. OnlyAt(p)'
    BY <1>1, <1>2, <1>3 DEF OnlyAt
<1>5. Place'
    BY <1>1, <1>4 DEF Place, Moving
<1>6. Following'
    BY <1>1, <1>2, <1>4 DEF Following, Follows, Moving, OnlyAt
<1>7. Writing'
    BY <1>1, <1>2 DEF Writing, JobRunning
<1>8. Importing'
    BY <1>1, <1>2 DEF Importing, Good, Orderly, JobRunning
<1> QED BY <1>5, <1>6, <1>7, <1>8 DEF Orderly

LEMMA NameOrder ==
    ASSUME Good, CloseVault \/ \E p \in Path : OpenVault(p) \/ SaveProfile(p) \/ SaveRemote(p)
    PROVE  Orderly'
<1>1. UNCHANGED <<disk, owed, left, move, request, job>> /\ ~Moving
    BY DEF OpenVault, SaveProfile, SaveRemote, CloseVault, Gui_, History, Good, MayAct
<1>2. CASE CloseVault
    <2>1. Following'
        BY <1>1, <1>2 DEF CloseVault, Names, Good, Orderly, Following, Follows, Moving
    <2> QED BY <1>1, <2>1, SameOrder DEF Orderly
<1>3. CASE \E p \in Path : OpenVault(p) \/ SaveProfile(p) \/ SaveRemote(p)
    <2>1. PICK p \in Path : OpenVault(p) \/ SaveProfile(p) \/ SaveRemote(p)
        BY <1>3
    <2>2. disk[p] # {}
        BY <2>1 DEF OpenVault, SaveProfile, SaveRemote
    <2>3. disk[p] = owed
        BY <1>1, <2>2, AtRest DEF OnlyAt
    <2>4. Following'
        BY <1>1, <2>1, <2>3 DEF OpenVault, SaveProfile, SaveRemote, Names, Gui_, Good, Orderly, Following,
                                Follows, Moving
    <2> QED BY <1>1, <2>4, SameOrder DEF Orderly
<1> QED BY <1>2, <1>3

LEMMA RequestOrder ==
    ASSUME Good, NEW r \in Request,
           FetchUpload(r) \/ FetchWebDAV(r) \/ LockUpload(r) \/ Answer(r)
    PROVE  Orderly'
<1>1. UNCHANGED <<disk, active, saved, remote, owed, left, move, job>>
    BY DEF FetchUpload, FetchWebDAV, Fetch, LockUpload, Answer, Names, History
<1>2. request \in [Request -> [pc : {"idle", "fetched", "uploading", "writing"}, root : Path \cup {None}]]
    BY DEF Good, Types, RequestOK
<1>3. Writing'
    <2>1. CASE FetchUpload(r) \/ FetchWebDAV(r)
        <3>1. PICK pc \in {"fetched", "writing"} : Fetch(r, pc)
            BY <2>1 DEF FetchUpload, FetchWebDAV
        <3>2. disk[active] = owed
            BY <3>1 DEF Fetch, MayAct, Good, Orderly, Following, Follows
        <3>3. request' = [request EXCEPT ![r] = [pc |-> pc, root |-> active]]
            BY <3>1 DEF Fetch
        <3> QED BY <1>1, <1>2, <3>2, <3>3 DEF Good, Orderly, Writing, JobRunning
    <2>2. CASE LockUpload(r)
        BY <1>1, <1>2, <2>2 DEF LockUpload, Good, Orderly, Writing, JobRunning
    <2>3. CASE Answer(r)
        BY <1>1, <1>2, <2>3 DEF Answer, NoRequest, Good, Orderly, Writing, JobRunning
    <2> QED BY <2>1, <2>2, <2>3
<1> QED BY <1>1, <1>3, SameOrder DEF Orderly

\* A file is stored where the vault is: it is owed, and everything follows.
LEMMA StoreOrder ==
    ASSUME Good, ~Moving, NEW p \in Path, NEW f \in File, disk[p] = owed, owed # {}, StoreFile(p, f),
           UNCHANGED <<active, saved, remote, left, move>>
    PROVE  Place' /\ Following' /\ owed' = owed \cup {f} /\ \A q \in Path : disk[q] = owed => disk'[q] = owed'
<1>1. OnlyAt(p) /\ \A q \in Path : disk[q] = owed => q = p
    BY AtRest
<1>2. disk \in [Path -> SUBSET Entry]
    BY DEF Good, Types, StoreOK
<1>3. owed' = owed \cup {f} /\ disk' = [disk EXCEPT ![p] = @ \cup {f}]
    BY DEF StoreFile, AtHome, Moving
<1>4. disk'[p] = owed' /\ OnlyAt(p)'
    BY <1>1, <1>2, <1>3 DEF OnlyAt
<1>5. Place'
    BY <1>4 DEF Place, Moving
<1>6. active \in Path \cup {None} /\ saved \in Path \cup {None} /\ remote \in Path \cup {None}
    BY DEF Good, Types, StoreOK
<1>7. Following'
    BY <1>1, <1>4, <1>6 DEF Good, Orderly, Following, Follows, Moving
<1> QED BY <1>1, <1>3, <1>4, <1>5, <1>7

LEMMA PutOrder ==
    ASSUME Good, NEW r \in Request, PutFile(r)
    PROVE  Orderly'
<1>1. request[r].pc # "idle" /\ UNCHANGED <<active, saved, remote, left, move, request, job>>
    BY DEF PutFile, Names, Gui_
<1>2. /\ ~Moving /\ owed # {} /\ request[r].root \in Path /\ disk[request[r].root] = owed
    BY <1>1 DEF Good, MovesApart, NothingYet, Types, RequestOK, Orderly, Writing
<1>3. PICK f \in File : StoreFile(request[r].root, f)
    BY DEF PutFile
<1>4. Place' /\ Following' /\ owed' = owed \cup {f} /\ \A q \in Path : disk[q] = owed => disk'[q] = owed'
    BY <1>1, <1>2, <1>3, StoreOrder
<1>5. Writing'
    BY <1>1, <1>4 DEF Good, Types, RequestOK, JobOK, JobRunning, Orderly, Writing
<1>6. Importing'
    BY <1>1, <1>4 DEF Good, Orderly, Importing
<1> QED BY <1>4, <1>5, <1>6 DEF Orderly

LEMMA JobOrder ==
    ASSUME Good, StartJob \/ CancelJob \/ BeginImport \/ EndImport
    PROVE  Orderly'
<1>1. UNCHANGED <<disk, active, saved, remote, owed, left, move, request>>
    BY DEF StartJob, CancelJob, BeginImport, EndImport, JobStep, Names
<1>2. job \in JobRec
    BY DEF Good, Types, JobOK
<1>3. Importing /\ Writing
    BY DEF Good, Orderly
<1>4. CASE StartJob
    <2>1. active \in Path /\ disk[active] = owed
        BY <1>4 DEF StartJob, MayAct, Good, Orderly, Following, Follows, Types, StoreOK
    <2>2. job'.todo = job'.files /\ job'.root = active /\ job'.status = "queued"
        BY <1>4, <2>1, JobRecFacts DEF StartJob
    <2>3. Writing' /\ Importing'
        BY <1>1, <1>3, <2>1, <2>2 DEF Writing, Importing, JobRunning
    <2> QED BY <1>1, <2>3, SameOrder DEF Orderly
<1>5. CASE CancelJob
    <2>1. /\ job'.status = job.status /\ job'.root = job.root /\ job'.todo = job.todo
          /\ job'.files = job.files /\ job'.excluded = job.excluded
          /\ job'.dry = job.dry /\ job'.errors = job.errors
        BY <1>2, <1>5 DEF CancelJob, JobRec
    <2>2. Writing' /\ Importing'
        BY <1>1, <1>3, <2>1 DEF Writing, Importing, JobRunning
    <2> QED BY <1>1, <2>2, SameOrder DEF Orderly
<1>6. CASE BeginImport
    <2>1. CASE job' = [job EXCEPT !.status = "running"]
        <3>1. /\ job'.status = "running" /\ job'.root = job.root /\ job'.todo = job.todo
              /\ job'.files = job.files /\ job'.excluded = job.excluded
              /\ job'.dry = job.dry /\ job.status = "queued"
            BY <1>2, <1>6, <2>1 DEF BeginImport, JobRec
        <3>2. Writing' /\ Importing'
            BY <1>1, <1>3, <3>1 DEF Writing, Importing, JobRunning
        <3> QED BY <1>1, <3>2, SameOrder DEF Orderly
    <2>2. CASE job' = Ended("failed")
        <3>1. job'.status = "failed"
            BY <1>2, <2>2, JobRecFacts
        <3>2. Writing' /\ Importing'
            BY <1>1, <1>3, <3>1 DEF Writing, Importing, JobRunning
        <3> QED BY <1>1, <3>2, SameOrder DEF Orderly
    <2> QED BY <1>6, <2>1, <2>2 DEF BeginImport
<1>7. CASE EndImport
    <2>1. PICK status \in {"completed", "completed-with-errors", "failed", "cancelled"} :
              /\ job' = Ended(status)
              /\ status = "completed" => job.todo = {} /\ ~job.errors
        BY <1>7 DEF EndImport, Finished
    <2>2. /\ job'.status = status /\ job'.files = job.files /\ job'.excluded = job.excluded
          /\ job'.dry = job.dry
        BY <1>2, <2>1, JobRecFacts
    <2>3. job.status = "running"
        BY <1>7 DEF EndImport
    <2>4. Writing' /\ Importing'
        BY <1>1, <1>2, <1>3, <2>1, <2>2, <2>3 DEF Writing, Importing, JobRunning, JobRec
    <2> QED BY <1>1, <2>4, SameOrder DEF Orderly
<1> QED BY <1>4, <1>5, <1>6, <1>7

LEMMA ImportOrder ==
    ASSUME Good, NEW f \in File, ImportEntry(f)
    PROVE  Orderly'
<1>1. UNCHANGED <<active, saved, remote, left, move, request>> /\ job.status = "running"
    BY DEF ImportEntry, JobStep, Names
<1>2. /\ ~Moving /\ owed # {} /\ job.root \in Path /\ disk[job.root] = owed
      /\ job \in JobRec
    BY <1>1 DEF Good, MovesApart, NothingYet, Types, JobOK, JobRunning, Orderly, Writing
<1>3. Importing /\ Writing
    BY DEF Good, Orderly
<1>4. /\ job'.status = "running" /\ job'.root = job.root /\ job'.files = job.files
      /\ job'.excluded = job.excluded
      /\ job'.dry = job.dry /\ job'.todo = job.todo \ {f}
      /\ job'.errors = job.errors \/ job'.errors = TRUE
    BY <1>1, <1>2 DEF ImportEntry, JobRec
<1>5. \/ UNCHANGED <<disk, owed>> /\ (f \in job.excluded \/ job.dry \/ f \in owed \/ job'.errors = TRUE)
      \/ StoreFile(job.root, f)
    <2>1. job' = [job EXCEPT !.todo = @ \ {f}, !.errors = TRUE] => job'.errors = TRUE
        BY <1>2 DEF JobRec
    <2> QED BY <1>2, <2>1 DEF ImportEntry, Skipped
<1>6. CASE UNCHANGED <<disk, owed>> /\ (f \in job.excluded \/ job.dry \/ f \in owed \/ job'.errors = TRUE)
    <2>1. Writing' /\ Importing'
        BY <1>1, <1>2, <1>3, <1>4, <1>6 DEF Writing, Importing, JobRunning, JobRec
    <2> QED BY <1>1, <1>6, <2>1, SameOrder DEF Orderly
<1>7. CASE StoreFile(job.root, f)
    <2>1. Place' /\ Following' /\ owed' = owed \cup {f} /\ \A q \in Path : disk[q] = owed => disk'[q] = owed'
        BY <1>1, <1>2, <1>7, StoreOrder
    <2>2. Writing'
        BY <1>1, <1>2, <1>3, <1>4, <2>1 DEF Good, Types, RequestOK, Writing, JobRunning
    <2>3. Importing'
        BY <1>1, <1>2, <1>3, <1>4, <2>1 DEF Importing, JobRec
    <2> QED BY <2>1, <2>2, <2>3 DEF Orderly
<1> QED BY <1>5, <1>6, <1>7

LEMMA StartOrder ==
    ASSUME Good, NEW by \in {"gui", "cli"}, NEW from \in Path, NEW to \in Path,
           NEW named \in BOOLEAN, NEW replace \in BOOLEAN, StartMove(by, from, to, named, replace)
    PROVE  Orderly'
<1>1. /\ disk' = [disk EXCEPT ![to] = {}] /\ disk[from] # {} /\ from # to /\ ~Moving
      /\ UNCHANGED <<active, saved, remote, owed, left, request, job>>
      /\ ~JobRunning /\ \A r \in Request : request[r].pc = "idle"
    BY DEF StartMove, Movable, MayMove, Good, Names, Gui_
<1>2. OnlyAt(from) /\ \A q \in Path : disk[q] = owed => q = from
    BY <1>1, AtRest
<1>3. move'.pc = "prepared" /\ move'.from = from /\ move'.to = to
    BY MoveRecFacts
<1>4. disk \in [Path -> SUBSET Entry]
    BY DEF Good, Types, StoreOK
<1>5. OnlyAt(from)'
    BY <1>1, <1>2, <1>4 DEF OnlyAt
<1>6. Place'
    BY <1>3, <1>5 DEF Place, Moving, OnlyAt
<1>7. active \in Path \cup {None} /\ saved \in Path \cup {None} /\ remote \in Path \cup {None}
    BY DEF Good, Types, StoreOK
<1>8. Following'
    BY <1>1, <1>2, <1>3, <1>7 DEF Good, Orderly, Following, Follows, Says, Moving
<1>9. Writing' /\ Importing'
    BY <1>1, SameOrder DEF Writing, JobRunning
<1> QED BY <1>6, <1>8, <1>9 DEF Orderly

LEMMA MoveOrder ==
    ASSUME Good, RenameVault \/ BeginCopy \/ CopyEntry \/ PlaceCopy \/ RemoveEntry
    PROVE  Orderly'
<1>1. /\ Moving /\ move \in MoveRec /\ move.from \in Path /\ move.to \in Path /\ move.from # move.to
      /\ disk \in [Path -> SUBSET Entry]
    BY DEF Good, Types, StoreOK, MoveOK, Moving, RenameVault, BeginCopy, CopyEntry, PlaceCopy,
           RemoveEntry, MoveStep
<1>2. UNCHANGED <<active, saved, remote, owed, left, request, job>>
    BY DEF RenameVault, BeginCopy, CopyEntry, PlaceCopy, RemoveEntry, MoveStep, Names, Gui_, History
<1>3. /\ move'.from = move.from /\ move'.to = move.to
      /\ move.pc \in {"prepared", "copying", "removing"}
      /\ move'.pc \in {"copying", "removing", "moved"}
    BY <1>1 DEF RenameVault, BeginCopy, CopyEntry, PlaceCopy, RemoveEntry, MoveStep, MoveRec
<1>4. Following'
    BY <1>2, <1>3 DEF Good, Orderly, Following, Follows, Says, Moving
<1>5. Place
    BY DEF Good, Orderly
<1>6. Place'
    <2>1. CASE RenameVault
        <3>1. /\ move.pc = "prepared" /\ move'.pc = "moved"
              /\ disk' = [disk EXCEPT ![move.to] = disk[move.from], ![move.from] = {}]
            BY <1>1, <2>1 DEF RenameVault, MoveStep, MoveRec
        <3>2. OnlyAt(move.from)
            BY <1>5, <3>1 DEF Place
        <3>3. OnlyAt(move.to)'
            <4>1. disk'[move.to] = owed' /\ \A q \in Path \ {move.to} : disk'[q] = {}
                BY <1>1, <1>2, <3>1, <3>2 DEF OnlyAt
            <4> QED BY <1>3, <4>1 DEF OnlyAt
        <3> QED BY <3>1, <3>3 DEF Place, Moving
    <2>2. CASE BeginCopy
        <3>1. move' = [move EXCEPT !.pc = "copying", !.listing = disk[move.from]] /\ disk' = disk
              /\ move.pc = "prepared"
            BY <2>2 DEF BeginCopy
        <3>2. move'.pc = "copying" /\ move'.listing = disk[move.from]
            BY <1>1, <3>1 DEF MoveRec
        <3> QED BY <1>2, <1>3, <1>5, <3>1, <3>2 DEF Place, Moving, OnlyAt
    <2>3. CASE CopyEntry
        <3>1. /\ UNCHANGED disk /\ move'.pc = "copying" /\ move.pc = "copying"
              /\ move'.listing = move.listing
            BY <1>1, <2>3 DEF CopyEntry, MoveRec
        <3> QED BY <1>2, <1>3, <1>5, <3>1 DEF Place, Moving, OnlyAt
    <2>4. CASE PlaceCopy
        <3>1. /\ move.pc = "copying" /\ move'.pc = "removing"
              /\ disk' = [disk EXCEPT ![move.to] = move.listing]
            BY <1>1, <2>4 DEF PlaceCopy, MoveStep, MoveRec
        <3>2. OnlyAt(move.from) /\ move.listing = owed
            BY <1>5, <3>1 DEF Place, OnlyAt
        <3>3. disk'[move.to] = owed' /\ \A q \in Path \ {move.from, move.to} : disk'[q] = {}
            BY <1>1, <1>2, <3>1, <3>2 DEF OnlyAt
        <3> QED BY <1>3, <3>1, <3>3 DEF Place, Moving
    <2>5. CASE RemoveEntry
        <3>1. PICK e \in disk[move.from] :
                  /\ move.pc = "removing" /\ disk' = [disk EXCEPT ![move.from] = @ \ {e}]
                  /\ MoveStep("removing", IF disk[move.from] = {e} THEN "moved" ELSE "removing")
            BY <2>5 DEF RemoveEntry
        <3>2. /\ disk[move.to] = owed /\ \A q \in Path \ {move.from, move.to} : disk[q] = {}
            BY <1>5, <3>1 DEF Place
        <3>3. disk'[move.to] = owed' /\ \A q \in Path \ {move.from, move.to} : disk'[q] = {}
            BY <1>1, <1>2, <3>1, <3>2
        <3>4. CASE disk[move.from] = {e}
            <4>1. move'.pc = "moved"
                BY <1>1, <3>1, <3>4 DEF MoveStep, MoveRec
            <4>2. disk'[move.from] = {}
                BY <1>1, <3>1, <3>4
            <4>3. OnlyAt(move.to)'
                BY <1>3, <3>3, <4>2 DEF OnlyAt
            <4> QED BY <4>1, <4>3 DEF Place, Moving
        <3>5. CASE disk[move.from] # {e}
            <4>1. move'.pc = "removing"
                BY <1>1, <3>1, <3>5 DEF MoveStep, MoveRec
            <4> QED BY <1>3, <3>3, <4>1 DEF Place, Moving
        <3> QED BY <3>4, <3>5
    <2> QED BY <2>1, <2>2, <2>3, <2>4, <2>5
<1> QED BY <1>1, <1>2, <1>4, <1>6, SameOrder DEF Orderly

LEMMA UpdateOrder ==
    ASSUME Good, UpdateProfiles \/ UpdateRemotes
    PROVE  Orderly'
<1>1. UNCHANGED <<disk, active, owed, request, job>>
    BY DEF UpdateProfiles, UpdateRemotes, MoveStep, Gui_
<1>2. /\ move'.from = move.from /\ move'.to = move.to /\ left \subseteq left'
      /\ UpdateProfiles => move.pc = "moved" /\ move'.pc = "renamed"
      /\ UpdateRemotes => move.pc = "renamed" /\ move'.pc = "updated"
    BY DEF UpdateProfiles, UpdateRemotes, MoveStep, Good, Types, MoveOK, MoveRec
<1>3. Place'
    BY <1>1, <1>2 DEF Good, Orderly, Place, OnlyAt, Moving
<1>4. Following'
    <2>1. CASE UpdateProfiles
        <3>1. Says("saved", saved, move.to)'
            BY <1>2, <2>1 DEF UpdateProfiles, Good, Orderly, Following, Says
        <3>2. Says("remote", remote, move.from)'
            BY <1>2, <2>1 DEF UpdateProfiles, Good, Orderly, Following, Says
        <3> QED BY <1>1, <1>2, <2>1, <3>1, <3>2
                DEF Good, Orderly, Following, Says, Moving
    <2>2. CASE UpdateRemotes
        <3>1. Says("saved", saved, move.to)'
            BY <1>2, <2>2 DEF UpdateRemotes, Good, Orderly, Following, Says
        <3>2. Says("remote", remote, move.to)'
            BY <1>2, <2>2 DEF UpdateRemotes, Good, Orderly, Following, Says
        <3> QED BY <1>1, <1>2, <2>2, <3>1, <3>2
                DEF Good, Orderly, Following, Says, Moving
    <2> QED BY <2>1, <2>2
<1>5. Moving
    BY <1>2 DEF Moving
<1> QED BY <1>1, <1>3, <1>4, <1>5, SameOrder DEF Orderly

\* A move that is done, or fails before anything has been removed, or is killed then.
LEMMA EndOrder ==
    ASSUME Good, EndMove \/ CloseMoved \/ ReopenMoved \/ FailMove \/ KillCli
    PROVE  Orderly'
<1>1. UNCHANGED <<disk, saved, remote, owed, request, job>> /\ left \subseteq left'
    BY DEF EndMove, CloseMoved, ReopenMoved, FailMove, KillCli, BreakOff, Names, Gui_, History
<1>2. Importing'
    BY <1>1, SameOrder
<1>3. Writing'
    BY <1>1, SameOrder
<1>4. Place /\ Following
    BY DEF Good, Orderly
<1>5. CASE CloseMoved /\ active = move.from
    <2>1. /\ move' = [move EXCEPT !.pc = "reopening"] /\ active' = None /\ move.pc = "updated"
          /\ left' = left
        BY <1>5 DEF CloseMoved, History
    <2>2. move'.pc = "reopening" /\ move'.from = move.from /\ move'.to = move.to
        BY <2>1 DEF Good, Types, MoveOK, MoveRec
    <2>3. Place' /\ Following'
        BY <1>1, <1>4, <2>1, <2>2 DEF Place, Following, Says, OnlyAt, Moving
    <2> QED BY <1>2, <1>3, <2>3 DEF Orderly
<1>6. CASE ~(CloseMoved /\ active = move.from)
    <2>1. move' = NoMove /\ move'.pc = "idle"
        BY <1>6 DEF EndMove, CloseMoved, ReopenMoved, FailMove, KillCli, BreakOff, NoMove
    <2>2. move.pc # "removing"
        BY DEF EndMove, CloseMoved, ReopenMoved, FailMove, KillCli, BreakOff, LeftBy, Good
    <2>3. Place'
        BY <1>1, <1>4, <2>1, <2>2 DEF Place, OnlyAt, Moving, Good, Types, MoveOK, MoveRec
    <2>4. Follows("active", active)'
        BY <1>1, <1>4, <1>6, <2>1, <2>2
           DEF EndMove, CloseMoved, ReopenMoved, FailMove, KillCli, Gui_, Place, OnlyAt, Following,
               Follows, Moving, Good, MovesApart, Types, MoveOK, MoveRec
    <2>5. Follows("saved", saved)' /\ Follows("remote", remote)'
        BY <1>1, <1>4, <2>2
           DEF EndMove, CloseMoved, ReopenMoved, FailMove, KillCli, BreakOff, LeftBy, Place, OnlyAt,
               Following, Follows, Says, Moving, Good, Types, MoveOK, MoveRec
    <2> QED BY <1>2, <1>3, <2>1, <2>3, <2>4, <2>5 DEF Orderly, Following, Moving
<1> QED BY <1>5, <1>6

LEMMA KillGuiOrder ==
    ASSUME Good, KillGui
    PROVE  Orderly'
<1>1. /\ UNCHANGED <<disk, owed, saved, remote>> /\ active' = None
      /\ request' = [r \in Request |-> NoRequest] /\ job' = NoJob
    BY DEF KillGui, Names
<1>2. Writing' /\ Importing'
    BY <1>1 DEF Writing, Importing, NoRequest, NoJob, JobRunning
<1>3. Place /\ Following
    BY DEF Good, Orderly
<1>4. CASE UNCHANGED <<move, left>>
    <2>1. Place' /\ Following'
        BY <1>1, <1>3, <1>4 DEF Place, OnlyAt, Following, Follows, Says, Moving
    <2> QED BY <1>2, <2>1 DEF Orderly
<1>5. CASE BreakOff
    <2>1. move' = NoMove /\ move'.pc = "idle" /\ left \subseteq left'
        BY <1>5 DEF BreakOff, NoMove
    <2>2. move.pc # "removing"
        BY <1>5 DEF BreakOff, LeftBy, Good
    <2>3. Place'
        BY <1>1, <1>3, <2>1, <2>2 DEF Place, OnlyAt, Moving, Good, Types, MoveOK, MoveRec
    <2>4. Follows("active", active)'
        BY <1>1 DEF Follows
    <2>5. Follows("saved", saved)' /\ Follows("remote", remote)'
        BY <1>1, <1>3, <1>5, <2>2
           DEF BreakOff, LeftBy, Place, OnlyAt, Following, Follows, Says, Moving, Good, Types, MoveOK,
               MoveRec
    <2> QED BY <1>2, <2>1, <2>3, <2>4, <2>5 DEF Orderly, Following, Moving
<1> QED BY <1>4, <1>5 DEF KillGui

LEMMA InitQuiet == Init => QuietHolds
<1> SUFFICES ASSUME Init PROVE QuietHolds
    OBVIOUS
<1>1. ~Moving /\ job.status = "none" /\ \A r \in Request : request[r].pc = "idle"
    BY DEF Init, Moving, NoMove, NoJob, NoRequest
<1>2. NothingYet /\ MovesApart /\ LeftTogether
    BY <1>1 DEF Init, NothingYet, MovesApart, LeftTogether, JobRunning
<1>3. Place /\ Following
    BY <1>1 DEF Init, Place, Following, Follows, Moving
<1>4. Writing /\ Importing
    BY <1>1 DEF Writing, Importing, JobRunning
<1> QED BY <1>2, <1>3, <1>4 DEF QuietHolds, Orderly

LEMMA StepQuiet == Types /\ QuietHolds /\ [Next]_vars => QuietHolds'
<1> SUFFICES ASSUME Types, QuietHolds, [Next]_vars PROVE QuietHolds'
    OBVIOUS
<1>1. NothingYet' /\ MovesApart' /\ LeftTogether' /\ left \subseteq left'
    BY StepNothingYet, StepMovesApart, StepLeft DEF QuietHolds
<1>2. UNCHANGED world
    BY StepCases DEF vars, InitInGui, InitInCli, CreateVault, OpenVault, SaveProfile, SaveRemote,
           CloseVault, KillGui, FetchUpload, FetchWebDAV, Fetch, LockUpload, PutFile, Answer,
           StartJob, CancelJob, BeginImport, EndImport, ImportEntry, JobStep, StartMove,
           RenameVault, BeginCopy, CopyEntry, PlaceCopy, RemoveEntry, UpdateProfiles,
           UpdateRemotes, EndMove, CloseMoved, ReopenMoved, FailMove, KillCli, MoveStep
<1>3. ASSUME Quiet', "active" \notin left' PROVE Orderly'
    <2>1. Good
        BY <1>1, <1>2, <1>3 DEF Good, QuietHolds, Quiet
    <2>2. CASE UNCHANGED vars
        BY <2>1, <2>2, SameOrder DEF vars, Orderly
    <2> QED BY <2>1, <2>2, StepCases, CreateOrder, NameOrder, KillGuiOrder, RequestOrder, PutOrder,
               JobOrder, ImportOrder, StartOrder, MoveOrder, UpdateOrder, EndOrder
<1> QED BY <1>1, <1>3 DEF QuietHolds

LEMMA AlwaysQuiet == Spec => []QuietHolds
<1>1. QED BY InitQuiet, StepQuiet, AlwaysTypes, PTL DEF Spec

\* If moves are kept apart, every name leads to the whole vault when a move has ended,
\* except those whose update failed, was not asked for, or was broken off: the open
\* vault, the saved location and the remote profile (server.go:1449, vaultmove.go:76).
THEOREM NamesFollowMoves == Spec => []PointersFollow
<1>1. QuietHolds => PointersFollow
    <2> SUFFICES ASSUME QuietHolds, Quiet, ~Moving
                 PROVE  \A n \in {<<"active", active>>, <<"saved", saved>>, <<"remote", remote>>} :
                            n[1] \in left \/ n[2] = None \/ owed \subseteq disk[n[2]]
        BY DEF PointersFollow
    <2>1. Follows("active", active) /\ Follows("saved", saved) /\ Follows("remote", remote)
        BY DEF QuietHolds, LeftTogether, AllNames, Orderly, Following, Follows
    <2> QED BY <2>1 DEF Follows
<1> QED BY <1>1, AlwaysQuiet, PTL

\* An import that reports that it has completed has put every file of its source that
\* its walk does not leave out (importer.go:171) into the vault, where later moves keep
\* it: a cancelled or failing one says so, and what is skipped as existing is there.
THEOREM CompletedImportsAreThere == Spec => []ImportsComplete
<1>1. QuietHolds => ImportsComplete
    BY DEF QuietHolds, Orderly, Importing, ImportsComplete
<1> QED BY <1>1, AlwaysQuiet, PTL

-----------------------------------------------------------------------------
(* BrowserClose                                                            *)

\* The steps, each once.
LEMMA BrowserCases ==
    ASSUME BCNext
    PROVE  \/ \E p \in Page : OpenPage(p) \/ ClosePage(p) \/ Break(p) \/ Connect(p)
           \/ RotateToken \/ KeepAlive \/ EndStream \/ Heartbeat
           \/ GraceTimer \/ Watch \/ Stop \/ Tick
BY DEF BCNext

\* What the server knows of its pages, and the times.
Flags == enabled \in BOOLEAN /\ seen \in BOOLEAN /\ stopping \in BOOLEAN /\ shutdown \in BOOLEAN

Clocks ==
    /\ age \in 0..Cap /\ silent \in 0..Cap
    /\ timers \subseteq 0..Grace

\* The pages, their streams, and the count that the server keeps of them.
Streams ==
    /\ token \in 1..MaxTokens
    /\ page \in [Page -> 0..MaxTokens]
    /\ stream \subseteq Open /\ IsFiniteSet(stream)
    /\ orphans \in 0..MaxOrphans
    /\ sessions = Cardinality(stream) + orphans

\* A page that has a stream is heard of now; without one, the server has last heard of
\* a page when there last was a stream or a heartbeat, or since then by a late ticker.
HeardOf == sessions = 0 => silent >= age

BrowserInv == Flags /\ Clocks /\ Streams /\ HeardOf

LEMMA CapFacts ==
    /\ Cap \in Nat /\ Cap > Grace /\ Cap > Timeout
    /\ \A t \in 0..Cap : Later(t) \in 0..Cap /\ Later(t) >= t
    /\ \A s, t \in 0..Cap : s >= t => Later(s) >= Later(t)
BY BrowserCloseAssumption DEF Cap, Later

LEMMA InitBrowser == BCInit => BrowserInv
<1> SUFFICES ASSUME BCInit PROVE BrowserInv
    OBVIOUS
<1>0. Flags
    BY DEF BCInit, Flags
<1>1. Clocks
    <2>1. age = 0 /\ silent = 0 /\ timers = {}
        BY DEF BCInit
    <2> QED BY <2>1, CapFacts DEF Clocks
<1>2. Streams
    BY FS_EmptySet, BrowserCloseAssumption DEF BCInit, Streams
<1>3. HeardOf
    BY DEF BCInit, HeardOf
<1> QED BY <1>0, <1>1, <1>2, <1>3 DEF BrowserInv

LEMMA StepFlags == Flags /\ [BCNext]_BCvars => Flags'
BY BrowserCases
   DEF Flags, BCvars, Server, Browser, OpenPage, ClosePage, Break, Connect, RotateToken, KeepAlive,
       EndStream, Heartbeat, GraceTimer, Watch, Stop, Tick

LEMMA StepClocks == Clocks /\ [BCNext]_BCvars => Clocks'
<1> SUFFICES ASSUME Clocks, [BCNext]_BCvars PROVE Clocks'
    OBVIOUS
<1> USE BrowserCloseAssumption, CapFacts DEF Clocks
<1>1. CASE UNCHANGED <<age, silent, timers>>
    BY <1>1
<1>2. ASSUME NEW p \in Page, OpenPage(p) \/ ClosePage(p) \/ Break(p)
      PROVE  Clocks'
    BY <1>1, <1>2 DEF OpenPage, ClosePage, Break, Server
<1>3. CASE RotateToken
    BY <1>1, <1>3 DEF RotateToken, Server
<1>7. ASSUME \/ \E p \in Page : Connect(p)
             \/ KeepAlive \/ Heartbeat
      PROVE  Clocks'
    <2>1. age' = 0 /\ timers' = timers /\ silent' \in {0, silent}
        BY <1>7 DEF Connect, KeepAlive, Heartbeat
    <2> QED BY <2>1
<1>4. CASE EndStream
    BY <1>4 DEF EndStream
<1>5. CASE GraceTimer \/ Watch \/ Stop
    BY <1>5 DEF GraceTimer, Watch, Stop
<1>6. CASE Tick
    <2>1. timers' \subseteq 0..Grace
        <3>1. timers' = {IF t = 0 THEN 0 ELSE t - 1 : t \in timers}
            BY <1>6 DEF Tick
        <3>2. \A t \in 0..Grace : (IF t = 0 THEN 0 ELSE t - 1) \in 0..Grace
            OBVIOUS
        <3> QED BY <3>1, <3>2
    <2>2. age' \in 0..Cap /\ silent' \in 0..Cap
        BY <1>6 DEF Tick
    <2> QED BY <2>1, <2>2
<1> QED BY <1>1, <1>2, <1>3, <1>4, <1>5, <1>6, <1>7, BrowserCases DEF BCvars

\* What no step of the server's does to the pages and their streams.
LEMMA SameStreams ==
    ASSUME Streams, UNCHANGED <<token, page, stream, orphans, sessions>> PROVE Streams'
BY DEF Streams, Open

LEMMA StepStreams == Streams /\ [BCNext]_BCvars => Streams'
<1> SUFFICES ASSUME Streams, [BCNext]_BCvars PROVE Streams'
    OBVIOUS
<1> USE BrowserCloseAssumption
<1>0. Cardinality(stream) \in Nat /\ orphans \in Nat /\ MaxOrphans \in Nat /\ sessions \in Nat
    BY FS_CardinalityType DEF Streams
<1>1. CASE UNCHANGED BCvars
    BY <1>1, SameStreams DEF BCvars
<1>2. ASSUME NEW p \in Page, OpenPage(p) PROVE Streams'
    <2>1. page' \in [Page -> 0..MaxTokens] /\ page[p] = 0 /\ page' = [page EXCEPT ![p] = token]
        BY <1>2 DEF OpenPage, Streams
    <2>2. Open \subseteq Open'
        BY <2>1 DEF Open, Streams
    <2> QED BY <1>2, <2>1, <2>2 DEF OpenPage, Streams, Server
<1>3. ASSUME NEW p \in Page, ClosePage(p) PROVE Streams'
    <2>1. page' \in [Page -> 0..MaxTokens] /\ page' = [page EXCEPT ![p] = 0]
        BY <1>3 DEF ClosePage, Streams
    <2>2. stream' \subseteq Open' /\ stream' = stream \ {p}
        BY <1>3, <2>1 DEF ClosePage, Streams, Open
    <2>3. /\ IsFiniteSet(stream')
          /\ Cardinality(stream') = IF p \in stream THEN Cardinality(stream) - 1
                                    ELSE Cardinality(stream)
        BY <2>2, FS_RemoveElement DEF Streams
    <2>4. orphans' \in 0..MaxOrphans /\ orphans' = IF p \in stream THEN orphans + 1 ELSE orphans
        BY <1>3, <1>0 DEF ClosePage
    <2> QED BY <1>3, <1>0, <2>1, <2>2, <2>3, <2>4 DEF ClosePage, Streams, Server
<1>4. ASSUME NEW p \in Page, Break(p) PROVE Streams'
    <2>1. /\ stream' = stream \ {p} /\ p \in stream /\ orphans' = orphans + 1
          /\ orphans' \in 0..MaxOrphans /\ UNCHANGED <<token, page, sessions>>
        BY <1>4, <1>0 DEF Break, Server
    <2>2. IsFiniteSet(stream') /\ Cardinality(stream') = Cardinality(stream) - 1
        BY <2>1, FS_RemoveElement DEF Streams
    <2> QED BY <1>0, <2>1, <2>2 DEF Streams, Open
<1>5. ASSUME NEW p \in Page, Connect(p) PROVE Streams'
    <2>1. /\ stream' = stream \cup {p} /\ p \notin stream /\ sessions' = sessions + 1
          /\ page[p] = token /\ UNCHANGED <<token, page, orphans>>
        BY <1>5 DEF Connect
    <2>2. IsFiniteSet(stream') /\ Cardinality(stream') = Cardinality(stream) + 1
        BY <2>1, FS_AddElement DEF Streams
    <2>3. stream' \subseteq Open'
        BY <2>1 DEF Streams, Open
    <2> QED BY <1>0, <2>1, <2>2, <2>3 DEF Streams
<1>6. CASE RotateToken
    BY <1>6 DEF RotateToken, Streams, Open, Server
<1>7. CASE EndStream
    <2>1. sessions' = sessions - 1 /\ orphans' = orphans - 1 /\ orphans' \in 0..MaxOrphans
        BY <1>7, <1>0 DEF EndStream, Streams
    <2> QED BY <1>7, <1>0, <2>1 DEF EndStream, Streams, Open
<1>8. CASE KeepAlive \/ Heartbeat \/ GraceTimer \/ Watch \/ Stop \/ Tick
    BY <1>8, SameStreams DEF KeepAlive, Heartbeat, GraceTimer, Watch, Stop, Tick, Browser
<1> QED BY <1>1, <1>2, <1>3, <1>4, <1>5, <1>6, <1>7, <1>8, BrowserCases

LEMMA Uncounted == Streams => (sessions = 0 <=> stream = {} /\ orphans = 0)
BY FS_CardinalityType, FS_EmptySet, BrowserCloseAssumption DEF Streams

LEMMA StepHeardOf == BrowserInv /\ [BCNext]_BCvars => HeardOf'
<1> SUFFICES ASSUME BrowserInv, [BCNext]_BCvars, sessions' = 0 PROVE silent' >= age'
    BY DEF HeardOf
<1>1. age \in 0..Cap /\ silent \in 0..Cap /\ Cap \in Nat
    BY CapFacts DEF BrowserInv, Clocks
<1>2. CASE UNCHANGED <<sessions, age, silent>>
    BY <1>2 DEF BrowserInv, HeardOf
<1>3. CASE age' = 0 /\ silent' \in 0..Cap
    BY <1>1, <1>3
<1>4. CASE Tick
    <2>1. sessions = 0 /\ silent >= age
        BY <1>4 DEF Tick, BrowserInv, HeardOf
    <2>2. silent' = Later(silent) /\ age' = Later(age)
        BY <1>4, <2>1, Uncounted DEF Tick, BrowserInv
    <2> QED BY <1>1, <2>1, <2>2, CapFacts
<1>5. ASSUME NEW p \in Page, OpenPage(p) \/ ClosePage(p) \/ Break(p) \/ Connect(p)
      PROVE  silent' >= age'
    BY <1>1, <1>2, <1>3, <1>5 DEF OpenPage, ClosePage, Break, Connect, Server
<1>6. CASE RotateToken \/ KeepAlive \/ EndStream \/ Heartbeat \/ GraceTimer \/ Watch \/ Stop
    BY <1>1, <1>2, <1>3, <1>6
       DEF RotateToken, KeepAlive, EndStream, Heartbeat, GraceTimer, Watch, Stop, Server
<1> QED BY <1>2, <1>4, <1>5, <1>6, BrowserCases DEF BCvars

LEMMA AlwaysBrowser == BCSpec => []BrowserInv
<1>1. BrowserInv /\ [BCNext]_BCvars => BrowserInv'
    BY StepFlags, StepClocks, StepStreams, StepHeardOf DEF BrowserInv
<1> QED BY <1>1, InitBrowser, PTL DEF BCSpec

\* Every variable has its type, and the server counts exactly the streams that it has,
\* for any number of pages (server.go:399 and 406).
THEOREM StreamsCounted == BCSpec => []BCTypeOK
<1>1. BrowserInv => BCTypeOK
    BY DEF BrowserInv, Flags, Clocks, Streams, BCTypeOK
<1> QED BY <1>1, AlwaysBrowser, PTL

\* The server decides to stop only if no page is connected and none has been, nor sent
\* a heartbeat, for a grace period: both the timer and the watcher ask how long ago a
\* page was heard of, while nothing is counted (server.go:342 and 359).
THEOREM ServerStopsUnattended == BCSpec => StopsUnattended
<1>1. ASSUME BrowserInv, BCNext, stopping', ~stopping
      PROVE  enabled /\ seen /\ stream = {} /\ silent >= Grace
    <2>1. GraceTimer \/ Watch
        BY <1>1, BrowserCases
           DEF OpenPage, ClosePage, Break, Connect, RotateToken, KeepAlive, EndStream, Heartbeat,
               Stop, Tick, Server, Browser, BrowserInv, Flags
    <2>2. enabled /\ seen /\ sessions = 0 /\ (age >= Grace \/ age > Timeout)
        BY <1>1, <2>1 DEF GraceTimer, Watch
    <2>3. stream = {} /\ silent >= age
        BY <1>1, <2>2, Uncounted DEF BrowserInv, HeardOf
    <2>4. age \in Nat /\ silent \in Nat
        BY <1>1, CapFacts DEF BrowserInv, Clocks
    <2> QED BY <2>2, <2>3, <2>4, BrowserCloseAssumption, GraceAssumption
<1>2. BrowserInv /\ [BCNext]_BCvars
          => [stopping' /\ ~stopping => enabled /\ seen /\ stream = {} /\ silent >= Grace]_BCvars
    BY <1>1
<1> QED BY <1>2, AlwaysBrowser, PTL DEF BCSpec, StopsUnattended
=============================================================================

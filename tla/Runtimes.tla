------------------------------ MODULE Runtimes ------------------------------
(***************************************************************************)
(* The managed rclone and rsync runtimes (internal/rclonebin, rsyncbin).   *)
(* Versions are installed side by side, each in a directory of its own;    *)
(* runtime.json names the active and the previous one with the hashes of   *)
(* their executables.  Install, update, update check and rollback run in   *)
(* the GUI and in the command line, without a lock, and may fail or be     *)
(* killed between any two file operations, while transports and imports    *)
(* resolve the executable and start it later.                              *)
(*                                                                         *)
(* The two tools share the protocol and differ in three places: how an     *)
(* executable is written, whether registering a binary clears its          *)
(* directory, and whether resolving it checks its hash.  (rsync also saves *)
(* runtime.json through one fixed temporary name, rclone through one of    *)
(* its own for each save: rsync's managers must take turns here.)          *)
(***************************************************************************)
EXTENDS Naturals

CONSTANTS Manager,  \* requests and commands that change a runtime
          User,     \* transports and imports that start it
          Version,  \* what executables print as their version: it names the directory
          Build,    \* contents of executables: any of them may print any version
          None,     \* nothing
          Torn,     \* a runtime.json cut short
          Worlds    \* pairs: the tool, and whether its managers take turns (if
                    \* not, they still do not install one version at once)

ASSUME RuntimesAssumption ==
    /\ None \notin Manager
    /\ {"missing", "torn"} \cap Build = {}
    /\ Worlds \subseteq {<<"rclone", TRUE>>, <<"rclone", FALSE>>, <<"rsync", TRUE>>}
    /\ Manager \cap User = {}

VARIABLES
    world,     \* the tool and its use; never changes
    exe,       \* the executable in each version's directory
    tmp,       \* its .tmp, through which rclone writes it
    manifest,  \* runtime.json
    draft,     \* the temporary files of runtime.json
    pc,        \* where each manager and user is
    binary,    \* the executable it installs, or has resolved and will start
    record,    \* the manifest it has loaded, or is about to save
    spoiled    \* history: executables that an installation of the same version has
               \* begun to replace, and that no installation has put back since

vars == <<world, exe, tmp, manifest, draft, pc, binary, record, spoiled>>

Rclone == world[1] = "rclone"
Rsync  == world[1] = "rsync"
Serial == world[2]

Bytes    == {"missing", "torn"} \cup Build
Binary   == [version : Version, build : Build]  \* its version and its hash
Manifest == [active : Binary \cup {None}, previous : Binary \cup {None}]
Empty    == [active |-> None, previous |-> None]

ASSUME TornAssumption == None \notin Binary /\ {Torn, None} \cap Manifest = {} /\ Torn # None

Init ==
    /\ world \in Worlds
    /\ exe = [v \in Version |-> "missing"]
    /\ tmp = [v \in Version |-> "missing"]
    /\ manifest = Empty
    /\ draft = [name \in Manager \cup {None} |-> None]
    /\ pc = [p \in Manager \cup User |-> "idle"]
    /\ binary = [p \in Manager \cup User |-> None]
    /\ record = [p \in Manager |-> Empty]
    /\ spoiled = {}

-----------------------------------------------------------------------------
\* LoadManifest fails if nothing was saved yet, or if the JSON is cut short.
Loads == manifest # Torn /\ manifest # Empty

Idle(p) == pc[p] = "idle" /\ (Serial => \A q \in Manager : pc[q] = "idle")

\* VerifyRuntime: the executable of that version is there and has the recorded hash.
Verifies(b) == b # None /\ exe[b.version] = b.build

\* Rollback swaps versions, paths and hashes.
Rolled(m) == [active |-> m.previous, previous |-> m.active]

\* Mutant: an installation keeps the previous runtime of the last one.
ActivatedKeeping(m, b) == [active |-> b, previous |-> m.previous]

\* The manifest that Install saves: its previous runtime is the active one of the
\* manifest loaded at the start.
Activated(m, b) == [active |-> b, previous |-> m.active]

\* Mutant: rclone, too, has one fixed temporary name.
DraftShared(p) == None

\* The temporary file of runtime.json: rclone's has the time in its name.
Draft(p) == IF Rclone THEN p ELSE None

-----------------------------------------------------------------------------
\* Install and Update load the former manifest, ignoring an error.  The version comes
\* from the request, from Latest, which for rclone is a check before this step, or from
\* what the user's own executable prints.
BeginInstall(p, b) ==
    /\ Idle(p) /\ \A q \in Manager : binary[q] # None => binary[q].version # b.version
    /\ pc' = [pc EXCEPT ![p] = "staging"]
    /\ binary' = [binary EXCEPT ![p] = b]
    /\ record' = [record EXCEPT ![p] = IF Loads THEN manifest ELSE Empty]
    /\ UNCHANGED <<world, exe, tmp, manifest, draft, spoiled>>

\* What an installation unpacks: an archive of the user or a download;
\* its SHA256SUMS, if they can be had; the signature mode and what gpg says.
Delivery == [from : {"archive", "download"}, sums : {"match", "differ", "none"},
             mode : {"required", "optional", "skip"}, gpg : BOOLEAN]

\* verifySignature, which skips gpg if told so.
SignatureVerified(d) == d.mode # "skip" /\ d.gpg

\* rclone refuses a download without matching SHA256SUMS or a required signature.
RcloneAccepts(d) ==
    \/ d.from = "archive" /\ d.sums # "differ"
    \/ /\ d.from = "download" /\ d.sums = "match"
       /\ d.mode = "required" => SignatureVerified(d)

\* rsync goes on if SHA256SUMS cannot be downloaded.
RsyncAccepts(d) == d.sums # "differ"

\* The new executable, in a temporary directory or where the user has it, has been run
\* for its version; the directory of that version is emptied or goes on as it is.  From
\* here on other executables of that version may be lost.
Replace(p, clear) ==
    /\ pc[p] = "staging"
    /\ pc' = [pc EXCEPT ![p] = "opening"]
    /\ spoiled' = spoiled \cup {b \in Binary : b.version = binary[p].version}
    /\ exe' = IF clear THEN [exe EXCEPT ![binary[p].version] = "missing"] ELSE exe
    /\ tmp' = IF clear THEN [tmp EXCEPT ![binary[p].version] = "missing"] ELSE tmp
    /\ UNCHANGED <<world, manifest, draft, binary, record>>

RcloneReplace(p) == Rclone /\ {d \in Delivery : RcloneAccepts(d)} # {} /\ Replace(p, TRUE)
RsyncReplace(p)  == Rsync  /\ {d \in Delivery : RsyncAccepts(d)} # {}  /\ Replace(p, TRUE)

\* A binary of the user's is registered; only rsync empties the directory.
RcloneRegister(p) == Rclone /\ Replace(p, FALSE)
RsyncRegister(p)  == Rsync  /\ Replace(p, TRUE)

Copying(p, from, to) ==
    /\ pc[p] = from
    /\ pc' = [pc EXCEPT ![p] = to]
    /\ UNCHANGED <<world, manifest, draft, binary, record, spoiled>>

\* Mutant: rclone, too, truncates the executable itself.
RcloneOpenInPlace(p) ==
    /\ Rclone /\ Copying(p, "opening", "copying")
    /\ tmp' = [tmp EXCEPT ![binary[p].version] = "torn"]
    /\ exe' = [exe EXCEPT ![binary[p].version] = "torn"]

\* rclone's copyFile truncates <exe>.tmp, writes it, and renames it into place.
RcloneOpen(p) ==
    /\ Rclone /\ Copying(p, "opening", "copying")
    /\ tmp' = [tmp EXCEPT ![binary[p].version] = "torn"]
    /\ UNCHANGED exe

RcloneWrite(p) ==
    /\ Rclone /\ Copying(p, "copying", "copied")
    /\ tmp' = [tmp EXCEPT ![binary[p].version] = binary[p].build]
    /\ UNCHANGED exe

RcloneRename(p) ==
    /\ Rclone /\ Copying(p, "copied", "installed")
    /\ exe' = [exe EXCEPT ![binary[p].version] = tmp[binary[p].version]]
    /\ tmp' = [tmp EXCEPT ![binary[p].version] = "missing"]

\* rsync's copyFile truncates the executable itself, and writes it.
RsyncOpen(p) ==
    /\ Rsync /\ Copying(p, "opening", "copying")
    /\ exe' = [exe EXCEPT ![binary[p].version] = "torn"]
    /\ UNCHANGED tmp

RsyncWrite(p) ==
    /\ Rsync /\ Copying(p, "copying", "installed")
    /\ exe' = [exe EXCEPT ![binary[p].version] = binary[p].build]
    /\ UNCHANGED tmp

\* Mutant: the runtime is activated before its executable is in place.
HashEarly(p) ==
    /\ pc[p] \in {"copying", "copied", "installed"}
    /\ pc' = [pc EXCEPT ![p] = "saving"]
    /\ record' = [record EXCEPT ![p] = Activated(record[p], binary[p])]
    /\ UNCHANGED <<world, exe, tmp, manifest, draft, binary, spoiled>>

\* The hash of the installed executable, which nobody else replaces meanwhile, and its
\* path complete the new manifest.
Hash(p) ==
    /\ pc[p] = "installed"
    /\ pc' = [pc EXCEPT ![p] = "saving"]
    /\ record' = [record EXCEPT ![p] = Activated(record[p], binary[p])]
    /\ UNCHANGED <<world, exe, tmp, manifest, draft, binary, spoiled>>

\* The manifest is loaded to be saved again, with or without a change.
Resave(p, m) ==
    /\ Idle(p) /\ Loads
    /\ pc' = [pc EXCEPT ![p] = "saving"]
    /\ record' = [record EXCEPT ![p] = m]
    /\ UNCHANGED <<world, exe, tmp, manifest, draft, binary, spoiled>>

\* The time of an update check is saved by Latest for rclone, by Status for rsync.
RcloneLatest(p) == Rclone /\ Resave(p, manifest)
RsyncStatus(p)  == Rsync  /\ Resave(p, manifest)

\* Rollback looks only whether the previous executable exists.
Rollback(p) ==
    /\ Loads /\ manifest.previous # None /\ exe[manifest.previous.version] # "missing"
    /\ Resave(p, Rolled(manifest))

Saving(p, from, to) ==
    /\ pc[p] = from
    /\ pc' = [pc EXCEPT ![p] = to]
    /\ UNCHANGED <<world, exe, tmp>>

\* SaveManifest truncates a temporary file, writes it, and renames it, which ends the
\* operation.
OpenManifest(p) ==
    /\ Saving(p, "saving", "writing")
    /\ draft' = [draft EXCEPT ![Draft(p)] = Torn]
    /\ UNCHANGED <<manifest, binary, record, spoiled>>

WriteManifest(p) ==
    /\ Saving(p, "writing", "written")
    /\ draft' = [draft EXCEPT ![Draft(p)] = record[p]]
    /\ UNCHANGED <<manifest, binary, record, spoiled>>

SaveManifest(p) ==
    /\ Saving(p, "written", "idle") /\ draft[Draft(p)] # None
    /\ manifest' = draft[Draft(p)]
    /\ draft' = [draft EXCEPT ![Draft(p)] = None]
    /\ binary' = [binary EXCEPT ![p] = None]
    /\ record' = [record EXCEPT ![p] = Empty]
    /\ spoiled' = spoiled \ {binary[p]}

\* Mutant: what was loaded is kept for the next operation.
FailKeeping(p) ==
    /\ p \in Manager /\ pc[p] # "idle"
    /\ pc' = [pc EXCEPT ![p] = "idle"]
    /\ UNCHANGED <<world, exe, tmp, manifest, draft, binary, record, spoiled>>

\* An error, a cancelled request or a kill; what is on disk stays.  (A temporary file
\* that is left counts as missing: whoever uses its name again truncates it.)
Fail(p) ==
    /\ p \in Manager /\ pc[p] # "idle"
    /\ pc' = [pc EXCEPT ![p] = "idle"]
    /\ binary' = [binary EXCEPT ![p] = None]
    /\ record' = [record EXCEPT ![p] = Empty]
    /\ tmp' = IF binary[p] = None THEN tmp ELSE [tmp EXCEPT ![binary[p].version] = "missing"]
    /\ draft' = [draft EXCEPT ![Draft(p)] = None]
    /\ UNCHANGED <<world, exe, manifest, spoiled>>

-----------------------------------------------------------------------------
Resolved(u) ==
    /\ u \in User /\ pc[u] = "idle" /\ Loads
    /\ pc' = [pc EXCEPT ![u] = "resolved"]
    /\ binary' = [binary EXCEPT ![u] = manifest.active]
    /\ UNCHANGED <<world, exe, tmp, manifest, draft, record, spoiled>>

\* BinaryPath is what runtime.json says for rclone; for rsync it has been verified, and
\* if it fails an import in method auto takes the system's rsync or none.
RcloneBinaryPath(u) == Rclone /\ Resolved(u)
RsyncBinaryPath(u)  == Rsync /\ Verifies(manifest.active) /\ Resolved(u)

\* A transport starts the executable once for every command, as it is then; that
\* fails if there is none.
Execute(u) ==
    /\ u \in User /\ pc[u] = "resolved"
    /\ pc' = [pc EXCEPT ![u] = "idle"]
    /\ binary' = [binary EXCEPT ![u] = None]
    /\ UNCHANGED <<world, exe, tmp, manifest, draft, record, spoiled>>

\* The rest of Install of either package, which Update calls, too.
InstallRclone(p) ==
    RcloneReplace(p) \/ RcloneRegister(p) \/ RcloneOpen(p) \/ RcloneWrite(p) \/ RcloneRename(p)

InstallRsync(p) == RsyncReplace(p) \/ RsyncRegister(p) \/ RsyncOpen(p) \/ RsyncWrite(p)

\* The subcommands install, update, check-update, status and rollback, and the GUI's
\* handlers for the same.
RcloneCommand(p) == Rclone /\ (RcloneLatest(p) \/ Rollback(p) \/ \E b \in Binary : BeginInstall(p, b))
RsyncCommand(p)  == Rsync  /\ (RsyncStatus(p) \/ Rollback(p) \/ \E b \in Binary : BeginInstall(p, b))

Next ==
    \/ \E p \in Manager : RcloneCommand(p) \/ RsyncCommand(p) \/ InstallRclone(p) \/ InstallRsync(p)
                         \/ Hash(p) \/ OpenManifest(p) \/ WriteManifest(p) \/ SaveManifest(p) \/ Fail(p)
    \/ \E u \in User : RcloneBinaryPath(u) \/ RsyncBinaryPath(u) \/ Execute(u)

Spec == Init /\ [][Next]_vars

-----------------------------------------------------------------------------
\* Every variable keeps its type, and nothing loaded outlives its operation
\* (the Manifest values of one Install, rclonebin.go:311).
TypeOK ==
    /\ world \in Worlds
    /\ exe \in [Version -> Bytes]
    /\ tmp \in [Version -> Bytes]
    /\ manifest \in Manifest \cup {Torn}
    /\ draft \in [Manager \cup {None} -> Manifest \cup {Torn, None}]
    /\ pc \in [Manager \cup User -> {"idle", "staging", "opening", "copying", "copied",
                            "installed", "saving", "writing", "written", "resolved"}]
    /\ binary \in [Manager \cup User -> Binary \cup {None}]
    /\ record \in [Manager -> Manifest]
    /\ spoiled \subseteq Binary
    /\ \A p \in Manager : pc[p] = "idle" => binary[p] = None /\ record[p] = Empty

\* A kill never leaves a runtime.json that no later command can load, and neither does
\* a manager that renames its file while another one is writing: two of rclone's share
\* no temporary name (atomicWriteFile), two of rsync's would.
ManifestReadable == manifest # Torn

Sound(b) == b # None /\ b \notin spoiled => Verifies(b)

\* Both recorded runtimes can be used, the active one at once and the previous one
\* after a rollback, unless an installation of the same version has replaced it, by
\* another build or by nothing as it was broken off (VerifyRuntime).  What installs,
\* updates and rollbacks of other versions do, finished or not, does not touch them,
\* even if an update check saves an older manifest over the result of an installation.
RecordedUsable == manifest # Torn => Sound(manifest.active) /\ Sound(manifest.previous)

\* Nobody starts half an executable: rclone's appears by a rename, and a transport
\* goes on with the old or the new one.  rsync's is verified when it is resolved; only
\* an installation of that version between that and the start can tear it.
RunsWhole ==
    \A u \in User : pc[u] = "resolved" /\ exe[binary[u].version] = "torn" =>
        Rsync /\ binary[u] \in spoiled

\* As long as managers take turns, the manifest is a switch: an installation makes the
\* active runtime the previous one, a rollback exchanges them, and nothing else
\* changes either, whatever fails or is killed.
Shown(field) == IF Serial /\ manifest # Torn THEN manifest[field] ELSE None

S == INSTANCE Switch WITH Runtime <- Binary, active <- Shown("active"), previous <- Shown("previous")

ImplementsSwitch == S!Spec
=============================================================================

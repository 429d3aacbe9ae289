# SeaVault Fast: a verification project

SeaVault Fast keeps files in an encrypted *vault*, a directory `.seavault` of immutable chunk objects and of one
encrypted manifest per file, which sync clients, rclone or a folder copy carry between devices. This project models
the code of `src/` in TLA+, checks the models with TLC, and proves the central invariants with TLAPS.

Contents: [1 The system](#1-the-system) · [2 Modules](#2-modules-and-their-correspondence-to-the-code) ·
[3 Runs](#3-runs-bounds-and-what-they-show) · [4 Proofs](#4-proofs) · [5 Not modelled](#5-what-is-not-modelled) ·
[6 Plan](#6-plan)

## 1 The system

| Component | State | Operations | What is hard | What makes it correct |
|---|---|---|---|---|
| Vault objects and manifests (`internal/vault/vault.go`) | chunk files named by HMAC; one manifest per path; an in-memory index per request | `PutPath`, `PutReader`, `RemovePath`, `GetPath`, `WriteFileTo`, `GarbageCollect`, `VerifyReport` | no lock anywhere: GUI, WebDAV, import jobs and the CLI interleave; kills between two files; `gc` acts on the index it loaded | no manifest refers to a missing chunk; a reader sees whole files; `gc` leaves no garbage and takes nothing else |
| Manifest settlement (`internal/vault/manifest.go`) | duplicates of a manifest under names given by sync clients | `LoadIndex`: rank, conflict copies, removal of the losers | loading *writes*: it saves copies and removes files while the sync client delivers more, and may be killed | no live version lost that was read; own writes win; deletions hold; loading converges |
| Local and rclone transport (`internal/transport/*`) | copy of `.seavault` on a remote, shared by devices | push, pull, sync, check | copy-only, cancelled at any point, overwriting, order of chunks and manifests | a published manifest's chunk can be fetched; a complete transfer copies everything; conflicts survive |
| Content layout and directories (`content.go`, `directories.go`) | the `content/` prefix, directory markers | `EnsureContentLayout`, `EnsureDirectory` | a migration that saves new manifests and tombstones old ones, killed in between | the migration can be repeated and loses nothing |
| Export (`export.go`), chunker (`chunker.go`), rsync ingestion (`rsyncput`) | files on the user's disk; a reader | `ExportPath`, `GetPath`, `ForEachChunk`, `rsyncput.PutPath` | replace = remove then rename; reads of any length; sources that change | no half-written target, no file replaced against the policy; chunks depend on the content alone |
| Settings (`appconfig`, `profile`, `remotes`, `processguard`) | `appconfig.json`, the certificate and its key, two stores | load, save, reset, guard | a start signals every other process and waits for none; files written in place or in pairs; a reset beside a GUI | one GUI stays; what was saved is kept, or known to be cut short |
| Local WebDAV (`internal/localdav`) | a mutex per `Server`: one for `serve`, a new one for each request of the GUI | GET, PUT, DELETE, MKCOL, COPY, MOVE | MOVE is a copy of many files and then a removal; a pipe between two goroutines | MOVE never loses a file |
| Web GUI server (`internal/webui/server.go`) | the open vault, the session, browser heartbeats, WebDAV state, jobs | open, close, init, upload, move, login, config, shutdown | handlers take the vault pointer under a mutex and use it after unlocking; shutdown timers race with heartbeats | a write during a move never takes the only whole copy; the names follow; shutdown only, and at last, without a browser |
| Import jobs (`internal/importer`) | a map of jobs with progress | `Start`, `Cancel`, `Get` | cancellation racing completion; retry with `SkipExisting` | a job that reports completion has put every file it does not leave out |
| Vault move (`internal/vaultmove`, `profile`, `remotes`) | the vault directory, the saved locations and remote profiles | `Move`, `UpdatePath`, `UpdateVaultPathMatching` | several files change in turn; load-modify-save without a lock | a vault is never lost; profiles follow it |
| Runtime managers (`internal/rclonebin`, `internal/rsyncbin`) | versioned binaries, `current`, `previous` | install, update, rollback, verify | a version number installed again, perhaps as another build; two installs; kill in between | the active and the previous runtime can be used; none is started half written |
| CLI (`cmd/seavault`) | none | one call of the above per command | runs next to the GUI on one vault | see the components it calls |
| Cryptography, key store, user paths, watcher, platform code | – | – | – | used through their results |

**How they interact.** Everything goes through the functions of `internal/vault`. The GUI server holds one
`*vault.Vault`; its handlers, its import jobs and its WebDAV handler (a new `localdav.Server` for every request) call it
concurrently, and a CLI process or a second device's sync client may work in the same directory. A transport copies the
directory below the vault, unaware of its meaning. The only coordination is the atomic rename in `atomicWriteFile`.

## 2 Modules and their correspondence to the code

| Module | Models | Role |
|---|---|---|
| `Manifests` | the records and ranking rules of `manifest.go` | constant-level operators |
| `ManifestStore` | `LoadIndex` and the manifest writes of one process, the sync client around it | detailed state machine |
| `FileMap` | the promise of a vault: a map from paths to whole files | abstract specification |
| `VaultStore` | chunks, manifests, put, remove, get and gc by many processes | implements `FileMap` |
| `Transport` | devices that push to and pull from one remote | state machine |
| `ContentLayout` | the migration that every `Open` runs | state machine |
| `LocalDav` | the WebDAV requests that change a vault | state machine |
| `Switch` | the promise of a runtime manager: an active and a previous runtime | abstract specification |
| `Runtimes` | install, update, check, rollback and start of the managed rclone and rsync | implements `Switch` |
| `BrowserClose` | streams, heartbeats and timers by which the GUI server stops with its browser | state machine, fairness |
| `VaultMove` | moves of a vault around uploads, WebDAV requests and import jobs | state machine |
| `Settings` | starts that signal each other to stop, the stores, the configuration and the certificate | state machine |
| `Chunker` | `ForEachChunk` and a reference definition of where a content is cut | functions |
| `RoundTrip` | puts through the chunker, exports and restores to the user's disk | composes `Chunker` |
| `VaultStore_proofs`, `ManifestStore_proofs`, `Transport_proofs`, `ContentLayout_proofs`, `LocalDav_proofs`, `Settings_proofs` | the component each is named after | theorems |
| `WebGui_proofs` | `VaultMove` and `BrowserClose` | theorems |
| `RoundTripRuntimes_proofs` | `Chunker`, `RoundTrip` and `Runtimes` | theorems |
| `MCManifestStore`, `MCVaultStore`, `MCTransport`, `MCContentLayout`, `MCLocalDav`, `MCRuntimes`, `MCBrowserClose`, `MCVaultMove`, `MCSettings`, `MCRoundTrip` | | instances for TLC |

Operators whose comment begins with *Mutant* stand for a plausible bug in the definition that follows them. No
specification uses them: each is there to be put in the place of that definition, and then breaks one property.

### ManifestStore

`files` maps a slot – a path and a file name – to a record or `NoFile`. `Main` is the name `<manifestID>.manifest`, the
only one the vault writes; `Variant` are the names that sync clients give to duplicates, all of which
`manifestIDFromFileName` accepts. A record has a generation, a stamp, a deletion flag and a content. What
`sameFileRecord` compares (size and chunk list) is the content; mode and mtime are left out.

`Walk` is the `WalkDir` of `loadManifestIndex`. `SettlePath` takes the next path of the Go map (in any order) and
its winner, and `DiscardLoser`, `KeepLoser` and `RemoveCopied` are the file operations of the loser loop, one step
each, so that the sync client (`ArriveMain`, `ArriveVariant`) and a kill (`Crash`) fit between any two. `RemoveSource`
removes whatever has the loser's name by then, as `os.Remove` does, also a version that the sync client has put there
since the walk (`Unread`). A failed `os.Remove` is ignored, as the code does; a full disk makes every save of the
request fail. `BeginPut`, `BeginRemove`, `Save` and `EndRequest` are `PutPath`/`PutReader` and `RemovePath` with the
generation rule of `putReader`.

Six history variables serve the properties. `owed` holds the live versions nobody has superseded: a user supersedes
what the index showed for that path, and a delivery to the main name what it has replaced. `known` holds the live
versions that have arrived: one that is delivered again, after a user has superseded it, is owed to nobody. `tomb` is
the newest deletion of each path, `mine` what this device last wrote as long as nothing arrived for the path, and
`origin` the record each duplicate first arrived with. `overrun` holds the live versions that this process has removed
or overwritten without having read them.

Two assumptions on the constants say what names and stamps mean. `StampAssumption`: foreign stamps are not those of
this device, since no two nanosecond stamps are equal, and a stamp tells a live payload. `ConflictAssumption`: the path
of a conflict copy, which holds a hash of its original, its stamp and its file name, differs for different originals
and is written by no other device.

### VaultStore

A request goes from `idle` to `storing` (chunks of all its files), `saving` (its manifests or tombstones, one by
one), `reading` or `sweeping`, and back by `Finish` or, at any step, by `Fail` (error, cancelled context or kill).
`seen` is the index it loaded. A file's content is a set of chunks; two files may share chunks. Loading the index is one
step here; its inner steps and the conflict copies it writes are the subject of `ManifestStore`.

`GcAlone` names an assumption the code does not enforce: that no `gc` runs while a put is between two of its steps.
The safety run and the theorems assume it; section 3 says what happens without it.

`FileMap` is implemented through `file <- Readable`, the part of each file that can be read from the chunks that
exist, and `asked <- Asked`, what requests in `saving` or `storing` have still to save.

### Transport

Each device and the remote hold `objects` (versions whose chunk is present), `manifest` (the version in the main
manifest of a path) and `leftover` (paths with a truncated `<id>.manifest.tmp` or `<id>.manifest.*.partial`, which
`copyFile` and rclone leave behind when they are killed, and which `loadManifestIndex` takes for a manifest and
refuses). A transfer runs the commands of `Plan`: for rclone `pushSequence` (chunks, then manifests) and one copy of
everything for a pull; for a local target the order of `WalkDir`, `manifests` before `objects`. `NextCommand` lists the
source as it is when the command starts; single files are copied in any order, a manifest by `OpenManifest` and the
rename of `CopyManifest` (where rclone's remote needs no partial file, by the second alone). `Interrupt` ends a transfer
at any point. Sync is a pull and then a push.

`Busy` names the devices whose owner goes on using the vault while it is pushed or pulled; no lock prevents it.
A device that is `Orderly` uses rclone and waits.

### ContentLayout

`EnsureContentLayout` moves the user files of an older vault from the virtual root into `content/`. A path is a name in
a place: the root, `content/`, or the conflict path that the k-th migration would give the name. `OpenOutdated` is
`LoadIndex` and the loop in memory, which yields the index `Migrated`; then every file of that index is saved
(`SaveManifest`, in map order), and after the last one (`BeginBurying`) each old path gets its tombstone
(`SaveTombstone`). A vault with a single index file (`sharded` is false) saves it in one step (`SaveIndex`); `Layouts`
says which of the two kinds there are. A missing marker is enough for a migration to start. `Leave` is closing, a kill,
or an error at any of these steps. `Put`, `Remove` and `Deliver` (a device with an older version saves a file at the
root) are the vault in use. How manifests of one path are ranked is left to `ManifestStore`.

`Quiet` names an assumption the code does not enforce: that nobody changes the vault during a migration, except by
another migration. `directories.go:13` takes it for granted ("before any WebDAV, GUI, CLI, or sync operation can
mutate them further"); the run `ContentLayout_busy` shows what happens without it.

### LocalDav

`files` maps a path, a sequence of names, to the upload its data come from and the upload its record takes its size
from. A directory is a marker file or any file below it. `Put` and `Mkcol` are one step, as `VaultStore` has their
inner steps. `COPY` and `MOVE` go from `idle` to `copying` with the listing of `AllEntries` (`seen`, `todo`), copy
file by file (`CopyFile`, `CopyMarker`; in any order, the code's is alphabetical), and a `MOVE` goes on to `removing`
(`StartRemoval`) with the paths that `RemovePath` lists *then*. `Answer` may come at any step: the last one or an
error. `Hang` is the state in which `PutReader` has failed and the goroutine of `copyFile` waits for ever to write
into the pipe, with the mutex held; only `Restart` ends it. `owed` holds the uploads that no user has replaced or
deleted.

`Apart` names the assumption that neither of source and target contains the other; the code only refuses to
*move* a path into itself.

### Runtimes

An executable (`Binary`) is a version, as the executable itself prints it, and a build, which is its hash: any binary
can be registered, so two builds may print one version. A *version* has a directory with one executable (`exe`: missing,
torn or a build) and, for rclone, the `.tmp` through which it is written; `runtime.json` (`manifest`) names the active
and the previous executable with path and hash. `BeginInstall` loads it, `RcloneReplace` or `RsyncReplace` has unpacked
and run an accepted `Delivery` and empties the directory of its version, `RcloneRegister` and `RsyncRegister` take a
binary of the user's instead; then come the steps of `copyFile` (which differ: rclone renames, rsync writes in place)
and `Hash`. Saving the manifest takes three steps: `OpenManifest` and `WriteManifest` write the temporary file of
`Draft`, which has a name of its own for every save of rclone's and one fixed name for rsync, and `SaveManifest` renames
it. `Resave` loads and saves the manifest, for a rollback and for the time of an update check. A user resolves the path
(`RcloneBinaryPath`, `RsyncBinaryPath`, which verifies) and starts it later (`Execute`). `Fail` is an error, a cancelled
request or a kill at any step.

`Worlds` says which tool is meant and whether its managers take turns; rsync's always do here, since two of them would
write one temporary file. If they do, `active` and `previous` implement `Switch`; if not, an update check may save an
older manifest over a newer one, which is why the refinement is stated for those who take turns, and the invariants for
all. `spoiled` remembers executables whose version number an installation has begun to replace and that no installation
has put back: for these the code promises nothing.

### BrowserClose

The constants are the periods of the code in ticks of the watcher (two seconds). `stream` and `orphans` are the event
streams whose page is there and those whose page has gone without the server noticing; the server counts both in
`sessions`. `Connect`, `KeepAlive` and `EndStream` are the start, the ticker and the deferred end of
`handleBrowserSession`; `GraceTimer` and `Watch` are the two goroutines that decide, which copy the state under the
mutex and call `shutdownOnce` (`Stop`) after releasing it. `RotateToken` is what closing the vault does to a page's
stream address. `GraceAssumption` is the relation of the two periods in the code, 8 seconds and 10. What every
specification has (`Init`, `Next`, `TypeOK`) is prefixed here with `BC`, and in `RoundTrip` with `RT`, so that one
module of proofs can extend two specifications.

### VaultMove

`disk` is what each directory holds; there is one vault. `active` is the open vault of the GUI, `saved` and `remote` the
names in the two stores. A move goes from `prepared` (the destination is emptied) to a rename or, across file systems,
through `copying`, `removing` (entry by entry), then the names, then the GUI's open vault (`CloseMoved`, `ReopenMoved`).
`Fetch` copies the vault pointer as `currentVault` does; `Upload` goes on to take the mutex for all its files, a WebDAV
request and an import job write without it. A job's entries are put, skipped, or fail, and those in `excluded` (a `.git`
or `.seavault` directory, an internal name, a link, a special file: importer.go:171) are left out without an error; it
ends as the code's `finish` says. `FailMove`, `KillCli` and `KillGui` break off at any step. `owed` is what has been
stored where the whole vault was.

`Quiet` (the first half of a world) says that moves are kept apart from requests, jobs and other processes, which the
code does not see to. Three assumptions hold in every world: one move at a time; a user who lets a move replace a
directory that holds something has the whole vault at the source; no path lies in another.

### Settings

A process is a GUI or a command. A GUI lists the other processes (`List`), sends each a signal (`Terminate`) and goes
on if none of the signals failed (`PassGuard`), else it gives up. `kill PID` returns when the signal is sent, so those
who got one (`doomed`) may take any number of further steps before they end (`Die`, at any of them). `profiles.json` is
truncated and then written, `remotes.json` and `appconfig.json` appear by a rename, the certificate and its key are two
files truncated and written in turn; each of these steps may also fail and return its error (`FailStore`, `FailSave`,
`FailCertificate`), which ends a command or a start and leaves a GUI serving (`GiveUp`). `cut` remembers which files a
kill or an error left half written. `Posted` is the merge of the page's configuration with the password verifier in
memory; `SaveConfig`, `FailSave` and `Serve` keep the order of file and memory. `ResetInCli` may run beside a GUI;
`behind` remembers the GUIs since whose last save, or start, another process has changed the configuration. `Alone`
names the assumption that one change is made at a time: the files have no lock, and of two changes at once the code
loses one.

### Chunker and RoundTrip

`Chunker` runs the loop of `ForEachChunk` byte by byte over the bytes of one read (`Feed`) and what is left at the end
(`Finish`). The rolling hash is kept modulo the power of two whose mask the code applies; the gear table is a
parameter. `IsChunking` is the reference: cut after the least length at which the hash of *these bytes alone* vanishes.
All recursion is by recursive functions, which the proofs need.

`RoundTrip` puts files through it: `Way` chooses native or staged, `Stage` copies one file by rsync, `OpenFile` takes
the size, each `Read` hands the chunker any number of bytes of a file that `Edit` may change meanwhile, and
`SaveFileManifest` saves the records when all files are read. `ExportPath` (`Export`) and `GetPath` (`Get`) load the
index once and go from target to target: `CheckOverwrite`, `WriteTemp`, `RemoveTarget`, `Rename`, in the order each
kind has them. `todo` is the set of targets still to come, of which `Current` is the first in the order of
`sort.Strings`. An object is the chunk itself. Two assumptions: `gc` does not run during a put (as `GcAlone`), and the
user makes no file at a destination while an export runs. `RoundTripAssumption` says of the constants that there is a
file, that no two files have one path, and that the marks for no file and for the user's own are not contents.

## 3 Runs, bounds and what they show

| Run | Bounds | Shows |
|---|---|---|
| `ManifestStore` | 1 shared path and its conflict copies, 1 duplicate name, 3 foreign records (older, between and ahead of the local clock; one without generation; one tombstone), 2 requests, 3 deliveries, 1 fault | `TypeOK`, `Preserved`, `ReadYourWrites`, `LoadKeepsView`, `EventuallySettled` |
| `ManifestStore_tombstones` | the same | **violates** `TombstonesHold` |
| `VaultStore` | 2 processes, 2 paths, 2 chunks, 2 contents of which one shares a chunk | `TypeOK`, `NoDanglingManifest`, `GcComplete`, `ImplementsFileMap` |
| `Transport` | 2 devices (one rclone; one local and busy), 1 path, 2 writes, any number of transfers | `TypeOK`, `PublishedReadable`, `CompleteCopies` |
| `ContentLayout` | 2 processes, 1 name (at the root, in `content/` and under its conflict paths) and the marker, 4 migrations, 2 writes | `TypeOK`, `Kept`, `OpenMeansUpgraded` |
| `ContentLayout_busy` | the same, `Quiet = FALSE`, one manifest per file | **violates** `ContentPreserved` |
| `LocalDav` | 2 requests, 2 directories with a file each, 3 uploads, `Apart` | `TypeOK`, `Preserved`, `SizesMatch` |
| `Runtimes` | 2 managers, 1 user, 2 versions with 2 builds each; rclone with and without turns, rsync with turns | `TypeOK`, `ManifestReadable`, `RecordedUsable`, `RunsWhole`, `ImplementsSwitch` |
| `BrowserClose` | 2 pages, 2 streams without a page, 2 tokens, the periods of the code (4 and 5 ticks) | `BCTypeOK`, `StopsUnattended`, `EventuallyStops` |
| `VaultMove` | 2 directories, 2 files and `vault.json`, a request or a job, with and without `Quiet` | `TypeOK`, `SomewhereWhole`, `PointersFollow`, `ImportsComplete` |
| `Settings` | 3 processes, 2 entries, 1 user, 2 passwords, 2 certificates; entries, login and protocol in worlds of their own | `TypeOK`, `OneInstance`, `StoresKept`, `SettingsHold`, `TlsUsable` |
| `RoundTrip` | 2 files, 2 contents of up to 3 chunks, 2 puts, 1 edit, 2 exports, divided into four sets of `Bounds` | `RTTypeOK`, `ChunksSound`, `DestinationWhole`, `PolicyKept`, `ResultTrue` |

**Why these bounds.** Two deliveries are the least for which a stale loser comes back, and the third lets a newer
version settle over it; with one duplicate name a path has one loser at a time, and the proofs of section 4 cover any
number. The three foreign records lie on both sides of the local instants, so that every branch of `candidateCompare`
and of the loser loop is taken. Local instants are even and foreign ones odd, since no two nanosecond stamps are equal.
Two processes and two overlapping contents let one request share, replace or remove what another one is storing. Two
writes let a version replace another or two devices write one path concurrently; every state of the transfers is
explored, since their number is not bounded. Four migrations let two processes migrate at once, be killed, and both
migrate again. In `LocalDav` a name may be a file and a directory at once, and three uploads let a moved file meet
another at its target and a third replace either.

In `Runtimes` two versions with two builds each are four executables, enough for an active, a previous and a new one, of
which two may share a directory; two managers let a check or a rollback of one fall between any two steps of the other's
installation. Two pages in `BrowserClose` let one stay while the other reloads; time is capped one tick above the longer
period, beyond which no guard tells instants apart. In `VaultMove` two files tell a partial copy from a whole one, and
two directories suffice since a move has two ends; requests, the job and the naming of places take part in separate
worlds to keep the product small. Three processes in `Settings` are two that start at once and one that works, or a
serving GUI, one that is told to stop and a command. The contents of `RoundTrip` share a chunk, hold bytes whose hash
depends on the byte before, and reach the minimum and the maximum size; each of its `Bounds` has one subject: puts under
edits, a put beside an export, two folder exports or restores, two ZIP exports. The proofs of section 4 lift the bounds
of every module for its safety properties.

`VaultStore`, `ContentLayout`, `LocalDav`, `Runtimes`, `VaultMove`, `Settings` and `RoundTrip` use symmetry (of
processes, paths, versions, names); all their properties are safety properties. Deadlock is checked in every run but
those of `ContentLayout` (a closed vault on whose migrations the bound has run out just stays as it is),
`BrowserClose` (the server has stopped) and `RoundTrip` (all puts, edits and exports are done).

**Fairness.** Two properties need it. For `EventuallySettled`, `WF_vars(Process)` says that the application goes on
with a request it has begun and that further requests come, each of which loads the index (every function of
`internal/vault` starts with `LoadIndex`). No fairness is assumed of the sync client or of faults, which the bounds
make stop. For `EventuallyStops`, `BrowserClose` has weak fairness of `EndStream` (a handler's context is cancelled
when its connection ends, and an end that is never noticed would keep the server up), of `Watch` and `Stop`
(goroutines that run) and of `Tick` (time passes). The browser owes nothing.

**What the violations show.**

- `ManifestStore_tombstones`: a user removes a conflict copy. The stale duplicate it was made from arrives once more
  (pulls copy and never delete) or was never removed (`os.Remove` failed). The next load saves the same conflict path
  again and overwrites the tombstone of the removal (manifest.go:132). The documents say that tombstones prevent this.
- `ContentLayout_busy`: a migration saves *every* file of the index it loaded, those that do not move included
  (directories.go:68). The vault has one file, already under `content/`, and no marker. One process loads it and saves
  the marker; a second one opens the vault, which now counts as current, and puts a newer version of the file; then the
  first one saves the version it had loaded, and the newer one is lost.

**Known limits.** The following are consequences of the code that the passing properties leave out: two by a named
assumption (`GcAlone`, `Apart`) that can be lifted in the cfg of the run, the two about transports because
`PublishedReadable` speaks of rclone and `CompleteCopies` of transfers that nobody disturbs, the others by an exception
in the property that a variable of the model records.

- `GcAlone = FALSE` (`VaultStore`): `gc` loads the index, a put stores its chunks, or skips one that exists
  (`storeChunk`); `gc` removes them as unreferenced, and the put saves a manifest that dangles. There is no retention
  time.
- A push to a *local* target copies manifests before objects (`WalkDir`): cancelled in between, it leaves manifests
  without chunks, or a truncated `.manifest.tmp` that makes every later `LoadIndex` of the remote fail (`leftover`).
  docs/remote-repository-threat-model.md:29 promises otherwise for interrupted transfers.
- Two devices that write one path overwrite each other's manifest by push or pull, both being called
  `<manifestID>.manifest`, so that no duplicate is left from which a conflict copy could be made
  (docs/remote-repository-threat-model.md:33).
- `Apart = FALSE` with `MCDeep` (`LocalDav`): `MOVE n/n` to `n`, where `n/n/n/x` exists, copies that file to `n/n/x`,
  inside the source, and then removes everything below `n/n`. The files are gone and the answer is 201.

- A load chooses the winner of a path from what its walk has read (manifest.go:58, 93) and removes the losers by name
  (manifest.go:104, 133). If the main slot has lost and the sync client puts a newer version there in between, that
  version is removed unread, and the next load shows another one; so is one overwritten that arrives between the walk
  of a request and its save. `Preserved` excepts such versions (`overrun`), `LoadKeepsView` such a step (`Unread`).
- Installing another build that prints the version number of a recorded runtime writes to the same path, so that a
  rollback to it no longer verifies (rclonebin.go:505), although docs/rclone-runtime-management.md:82 says that path
  and hash of the previous runtime are retained for rollback. `RecordedUsable` excepts such executables (`spoiled`).
- A GUI that starts does not wait for the old one to end (processguard_unix.go:21): for a while both run, and both may
  write. `OneInstance` says that one of the two has been told to stop.
- A reset from the command line beside a GUI (main.go:514) changes the file and not the GUI's memory; the next save from
  the page puts the old verifier back (server.go:1880). `SettingsHold` excepts such a GUI (`behind`).
- A write of `profiles.json` that fails or is killed leaves a file that no later command reads or replaces
  (profile.go:69), and a key cut short is reused with its certificate by every later start (appconfig.go:156).
  `StoresKept` and `TlsUsable` except these files (`cut`).

**Limits of single properties.** `ReadYourWrites` excludes a path created again behind a tombstone whose generation lies
ahead of the clock: `putReader` looks only at live files, so the new file then loses (`Behind` in `ManifestStore`).
`Preserved` assumes that a disk that is full stays so for one request: if the save of a conflict copy failed and a later
save of the same request succeeded, a loser in the main slot would be overwritten. `PublishedReadable` speaks of orderly
devices: a put that falls between the two copy commands of a push has its manifest published without its chunk.

The following are too fine for the models and are known from reading: the record of a native put takes its size before
the first byte is read (vault.go:400; `ChunksSound` claims the size of staged puts only); `restoreFileWithOverwrite`
and `GetPath` check and rename in two steps, so a file made in between is replaced; an import with skip-existing
compares sizes only (importer.go:270); a job outlives the vault's closing, as it has a context of its own
(server.go:1089); two installations of one version share a directory and rsync's `runtime.json` one temporary name
(rsyncbin.go:705); a ZIP download that fails in the middle has been answered with 200 (server.go:1285); a token
rotated by closing a vault keeps the page's stream from reconnecting (server.go:392), and only its heartbeats keep the
server up.

## 4 Proofs

All theorems hold for every value of the constants that satisfies the named assumptions of the modules: any number of
processes, devices, paths, pages, contents, versions, deliveries and faults. `TypeCorrect` (`Spec => []TypeOK`) is
proved in each of the eight modules, and beside it `StreamsCounted` (`BCSpec => []BCTypeOK`) and
`RoundTripTypeCorrect` (`RTSpec => []RTTypeOK`). The others are:

| Theorem | Says | Assumes |
|---|---|---|
| `VaultStore_proofs!NoManifestDangles` | `Spec => []NoDanglingManifest` | `GcAlone` |
| `VaultStore_proofs!GarbageCollectionCompletes` | `Spec => GcComplete` | `GcAlone` |
| `VaultStore_proofs!VaultImplementsFileMap` | `Spec => ImplementsFileMap` | `GcAlone` |
| `ManifestStore_proofs!LoadsKeepTheView` | `Spec => LoadKeepsView` | – |
| `ManifestStore_proofs!WritesAreRead` | `Spec => []ReadYourWrites` | – |
| `ManifestStore_proofs!NoLiveVersionLost` | `Spec => []Preserved` | `CopiesLeftAlone` |
| `Transport_proofs!PublishedIsReadable` | `Spec => []PublishedReadable` | – |
| `Transport_proofs!TransfersAreComplete` | `Spec => CompleteCopies` | – |
| `ContentLayout_proofs!NoFileIsLost` | `Spec => []Kept` | `Quiet` |
| `ContentLayout_proofs!OpenUpgrades` | `Spec => []OpenMeansUpgraded` | `Quiet` |
| `LocalDav_proofs!NoMoveLosesAFile` | `Spec => []Preserved` | `Apart` |
| `LocalDav_proofs!CopiesStateTheirSize` | `Spec => []SizesMatch` | `Apart` |
| `RoundTripRuntimes_proofs!ManifestAlwaysReadable` | `Spec => []ManifestReadable` | – |
| `RoundTripRuntimes_proofs!RecordedRuntimesUsable` | `Spec => []RecordedUsable` | – |
| `RoundTripRuntimes_proofs!NothingTornRuns` | `Spec => []RunsWhole` | – |
| `RoundTripRuntimes_proofs!RuntimesImplementSwitch` | `Spec => ImplementsSwitch` | – |
| `WebGui_proofs!WholeVaultSomewhere` | `Spec => []SomewhereWhole` | – |
| `WebGui_proofs!NamesFollowMoves` | `Spec => []PointersFollow` | – (`Quiet` in the property) |
| `WebGui_proofs!CompletedImportsAreThere` | `Spec => []ImportsComplete` | – (`Quiet` in the property) |
| `WebGui_proofs!ServerStopsUnattended` | `BCSpec => StopsUnattended` | `GraceAssumption` |
| `RoundTripRuntimes_proofs!ReadsDoNotMatter` | `Feed` of two reads in turn is `Feed` of both at once | – |
| `RoundTripRuntimes_proofs!ChunkerCorrect` | the chunks of any content satisfy `IsChunking` and have the sizes configured | – |
| `RoundTripRuntimes_proofs!ManifestsSound` | `RTSpec => []ChunksSound` | – |
| `RoundTripRuntimes_proofs!NothingHalfWritten` | `RTSpec => []DestinationWhole` | – |
| `RoundTripRuntimes_proofs!PoliciesKept` | `RTSpec => []PolicyKept` | – |
| `RoundTripRuntimes_proofs!AnswersTrue` | `RTSpec => []ResultTrue` | – |
| `Settings_proofs!OneGuiServes` | `Spec => []OneInstance` | – |
| `Settings_proofs!StoresHoldChanges` | `Spec => []StoresKept` | – |
| `Settings_proofs!GuiHasTheFile` | `Spec => []SettingsHold` | – |
| `Settings_proofs!HttpsHasACertificate` | `Spec => []TlsUsable` | – |

Hardly any property of a specification is inductive; each proof rests on an inductive invariant, which TLC has confirmed
on the instance of the run before it was proved. Every proof flattens `Next` into its actions (`StepCases`, or the steps
of the lemma), says for each action what it changes, and shows each part of the invariant to survive it.

**VaultStore.** `NoDanglingManifest` is not inductive. `PutsCovered` adds that the chunks a request still wants to refer
to are stored or on its list, and that nothing is on the list once it saves; `SweepsCurrent` that the index of a
running `gc` still covers every manifest, and that its list covers all other chunks; `SweepsAlone` that no put is
under way meanwhile. `GcComplete` follows from the second part of `SweepsCurrent`. For the refinement, `ReadableWhole`
uses the invariant to show that what a user can read is exactly what the manifest says; then a step that changes no
manifest is a `Request` and `SaveManifest` a `Write`.

**Transport.** A manifest reaches a store by detours (remote, third devices, forwarding), so `PublishedReadable` is
carried by every copy from a store where it held already. Only the writer's own push needs more: `PushOrdered` says
how far a push has come and that the listed chunks cover the writer's versions, and `OwnKept` that these chunks are on
the device or already on the remote. The remote never loses a chunk. For `CompleteCopies`, `CalmCopies` says of a
transfer that nobody has disturbed so far that each file of its source is in the target, on the list of the running
command, or of a kind that a command still to come copies; `Disturb` is what makes this survive the other devices.

**ContentLayout.** `Kept` is not inductive, because a process in the middle of its migration overwrites files from an
index it built earlier. What holds is that all migrating processes agree: `Settled` is the file a name has when all is
moved, and `IndexComplete` says that every such index has that file, nothing at the root, and every owed version;
`Agree` that an index never differs from a stored file or from another index; `SavedFirst` that what is off the list
is stored, and that all is before the first tombstone; `CopiesFresh` that later conflict paths are free. For
`OpenMeansUpgraded`, `RootsListed` adds that a migrating process to which nothing has come since its load has all
files of the root on its list.

**ManifestStore.** `Loading` relates the load to the directory while the sync client goes on: what the walk has read of
an unsettled path is still there or, in the main slot, has been replaced by what outranks it (`Unsettled`), the winner
of the path in hand stands likewise until its losers are gone (`Choice`), and the index says of each settled path what a
foremost candidate of the walk says (`IndexTells`). With it `LoadKeepsView` follows from the order alone: what is
removed, and was read, is outranked by what stays (`OutranksFacts`: the order is total, up to candidates that show the
same). `Top` says that what this device last wrote is in the main slot and outranks every duplicate, which `WritesFresh`
carries through a request.

`Preserving` is about payloads: a version that is owed is in a duplicate at its path, in a conflict copy of it, older
than a tombstone (`KeptElsewhere`), or in the main slot (`InMain`), where it may be relied on only if it is what the
load has read, or is itself the late delivery (`AllKept`). A conflict copy is saved before its source is removed
(`CopySaved`) and holds what its name says (`CopiesGenuine`). What the walk has read in a main slot is, once its path is
settled, in the index, deleted or copied (`Accounted`); so a request that saves over that slot supersedes it or leaves
it kept elsewhere. And a version whose payload the walk has read in a main slot that a delivery has replaced since is
owed only if it was delivered again (`Renewed`). `CopiesLeftAlone` says that users put and remove files, but not
conflict copies (TLC has checked `Preserving` under it). The run has no such restriction, and there `Preserved` holds as
well; to prove it, one would have to show that a duplicate whose copy a user has edited cannot win again, which needs
the history of every rank.

**LocalDav.** `CopyOrdered` says that while files are copied, those at the source are as they were listed, every copy
goes to a path outside the source, and what is off the list has been copied; `RemoveOrdered` that whatever a MOVE still
removes is at the target. Both rest on the geometry of paths: trees of which neither contains the other are disjoint
(`SeparateTrees`), and copying is one to one and keeps user files and markers apart (`RebaseFacts`). `OneAtATime` is
the mutex, `MarkersApart` that no marker holds an upload.

**Runtimes.** `Progress` says how far an installation has come: all executables of its version count as given up until
the new one is in place, which it is by the time a manifest is about to name it. `RecordsSound` says the same of every
manifest in memory as of the one on disk, `TornKnown` that only rsync has half executables and only of versions that are
given up. `Drafts` says that a temporary file about to be renamed holds what its manager saves, since rclone's managers
share no name and rsync's take turns (`Turns`); so `runtime.json` is never torn. For the refinement, `InTurn` says that
with managers that take turns the record in memory is what the operation makes of the manifest as it still is, so that
saving it is a step of `Switch`.

**VaultMove.** `SomewhereWhole` needs `MoveSafe`: a copy is of everything that is owed, or another directory has it
all, and before the first entry is removed another directory does have it all; requests that write to the source
meanwhile add to what is owed only where the whole vault is. The names need more, and only if moves are kept apart:
`Place` says for each stage of a move where the vault is and that nothing is anywhere else, `Following` which names say
so already, `Writing` and `Importing` what requests and jobs have to do with it. `LeftTogether` says that a move which
is broken off leaves the open vault behind only together with all names.

**Settings.** `OneGoesOn` is the heart of the guard: of two GUIs that have listed the processes, one has the other on
its list, has sent it the signal, or has failed; so if both have passed, with empty lists and no failure, one is doomed.
`Changing` ties a process between load and save to what the stores are to hold, `Following` ties memory and file around
a save, but for a GUI that is behind, and `TlsHolds` says that nobody promises a certificate (`Promised`: a
configuration in the file, in memory, on the page or under way) before there is one with its key (`Done`), and where the
one process that is writing the pair has got to (`Writing`).

**BrowserClose.** `HeardOf` relates the clock of the server to the history: while it counts no stream, `silent` is never
less than `age`, because whatever sets `silent` back is counted or a heartbeat. `Streams` says that the count is right,
of streams whose page has gone unnoticed as well. With these the two deciders, which look at the count and at the age
only, prove that no page has been heard of for a grace period.

**Chunker.** The library's induction theorems take a predicate as a parameter, which the provers cannot instantiate.
`Induction` states the principle for a *set* instead, from the least number of a set (`Least`, by well-founded
minimality), so that each use defines the set of the indices at which something holds. Thus the recursive functions are
shown to have values (`Recurs`), and what the fold of the loop computes can be proved for every content. The hash of
the loop is the sum of the reference (`HashAppend`: doubling a remainder is shifting a sum); a chunk in hand has not
met a cut (`InHand`), so an emitted one ends at its first (`CutOff`), and looking at the bytes behind a chunk does not
change where it ends (`FirstCutOf`). `Feeding` is the invariant of the loop, `BytesIn` what it has been fed: by
`FeedAppend` only their concatenation matters.

**RoundTrip.** None of its properties is inductive. `Putting` says that the chunks of a file being read are those of the
bytes read so far, and for a staged put that these are the beginning of the copy, so that at the end its size is
right. `Indexed` says that each manifest names stored chunks of a content the history knows. `Calling` says of every
call, from its own record alone, that each target it found is done, skipped or still to come, and that what it has
written or is about to rename is what its index wants; so other calls cannot disturb it. `Destination` then covers the
only shared state: a missing file has a call that was told to replace it and is past the removal (`Removing`), and a
call that is about to write over a file of the user's without that order can do so only because another one with that
order has removed it before (`Replacing`).

**Only model-checked**: the liveness properties `EventuallySettled` and `EventuallyStops`, since liveness under fairness
is out of the prover's reach; `Preserved` of `ManifestStore` where users edit conflict copies; and the violations.

## 5 What is not modelled

- Cryptography, encoding, key store, path cleaning: a record is read back as it was written, an id names one content.
- The legacy single-file index (`loadLegacyIndex`, `SaveIndex`) in `VaultStore`; `ContentLayout` has it.
- The door of the WebDAV server: session token, read-only mode, reserved paths, and requests that only read.
- Non-atomic loading in `VaultStore`: a manifest replaced while `WalkDir` reads the directory. A file that vanishes
  between listing and reading makes the load fail, which is `Fail`.
- Crashes that lose data the operating system had accepted; `atomicWriteFile` syncs the file before the rename.
- Downloads, unpacking and signatures of the runtimes beyond their results; two installations of one version at once,
  and two rsync managers at once.
- Login, sessions and read-only pages of the GUI, its downloads and its presentation, which is half of `server.go`.
- Concurrent changes of one settings file (`Alone`), two moves at once, moves between nested paths.
- Sizes in an import, modes and times of files, names of export targets.
- SSH keys, the check of dependencies and reading passphrases: they keep no state that another component relies on.
- `Cryptography and key store` and `User paths`, which `PROJECT.json` lists as `not_modelled`: functions without
  state.

## 6 Plan

1. Vault, transport, migration and WebDAV: `Manifests`, `ManifestStore`, `FileMap`, `VaultStore`, `Transport`,
   `ContentLayout`, `LocalDav` – done, with the proofs of section 4.
2. The program around the vault: `Runtimes` with `Switch`, `BrowserClose`, `VaultMove`, `Settings`, `Chunker` and
   `RoundTrip` – done.
3. Proofs of every safety property that a passing run checks, and of the chunker for every content – done. Next:
   `Preserved` of `ManifestStore` without `CopiesLeftAlone` (a rank that has lost at a path never wins there again,
   unless a tombstone excuses it).
4. Login and tokens of the GUI, and the legacy index in `VaultStore`, if more is to be modelled.

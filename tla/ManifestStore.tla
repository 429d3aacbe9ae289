---------------------------- MODULE ManifestStore ----------------------------
(***************************************************************************)
(* The manifest directory of one vault.  LoadIndex (internal/vault)        *)
(* settles, file by file, the duplicates that a sync client or a copy-only *)
(* pull has left; PutPath, PutReader and RemovePath then save the          *)
(* manifests of their request one by one, from the index that load built.  *)
(* The requests of this one process follow one another (VaultStore has     *)
(* several processes).  The directory is shared with a sync client, and    *)
(* the process may be killed between any two file operations.              *)
(***************************************************************************)
EXTENDS Manifests, FiniteSets

CONSTANTS
    Path,                   \* virtual paths, conflict copies included
    Synced,                 \* the paths that other devices write too
    Trees,                  \* the sets of paths one request can name
    Main,                   \* the file name <manifestID>.manifest
    Variant,                \* the names a sync client gives to duplicates
    ConflictPath(_, _, _),  \* conflictPath(original, updatedAt, source name)
    Original(_),            \* the path a conflict copy was made for
    Foreign,                \* manifests that other devices have written
    Deleted,                \* what `mine` holds for a path removed here
    MaxWrites,              \* bound: writing requests of this device
    MaxArrivals,            \* bound: deliveries by the sync client
    MaxFaults               \* bound: crashes, full disks, failed removals

Slot == (Path \X {Main}) \cup (Synced \X Variant)

ASSUME NamesAssumption ==
    /\ Synced \subseteq Path
    /\ Trees \subseteq SUBSET Path
    /\ Foreign \subseteq Record
    /\ Main \notin Variant
    /\ Deleted \notin Content \cup {Nothing}
    /\ MaxWrites \in Nat /\ MaxArrivals \in Nat /\ MaxFaults \in Nat

ASSUME OriginalAssumption == \A p \in Synced : Original(p) = p

\* The instants at which this device writes, and those of what can be in a slot
\* named n.  No two nanosecond stamps are equal.
OwnStamps == {2 * k : k \in 1 .. MaxWrites}
Stamps(n) == {r.stamp : r \in Foreign} \cup (IF n = Main THEN OwnStamps ELSE {})

ASSUME StampAssumption ==
    \A r \in Foreign :
        /\ r.stamp \notin OwnStamps /\ r.stamp <= Effective(r)
        /\ \A o \in Foreign : o.stamp = r.stamp /\ ~o.del /\ ~r.del => SameFile(o, r)

\* The name of a conflict copy holds a hash of what it was made from, and other
\* devices do not write it.
ASSUME ConflictAssumption ==
    \A p \in Synced, n \in Variant \cup {Main} : \A t \in Stamps(n) :
        /\ ConflictPath(p, t, n) \in Path \ Synced
        /\ Original(ConflictPath(p, t, n)) = p
        /\ \A q \in Synced, m \in Variant \cup {Main} : \A u \in Stamps(m) :
              ConflictPath(p, t, n) = ConflictPath(q, u, m) => p = q /\ t = u /\ n = m

VARIABLES
    files,      \* the directory: the record in each slot, or NoFile
    pc,         \* "idle", "settling", "loaded", "writing"
    walk,       \* what the walk of this load has read
    groups,     \* paths of the walk whose candidates are not settled yet
    best,       \* the slot that won the current path
    losers,     \* the current path's slots that are still to be settled
    copied,     \* the slot whose conflict copy is saved, to be removed next
    idx,        \* the index in memory
    writes,     \* the manifests this request has still to save
    diskFull,   \* atomicWriteFile fails until this request ends
    clock,      \* this device's: even, while other devices stamp odd instants,
                \* since no two nanosecond stamps are equal
    arrivals, faults,
    origin,     \* history: the record each duplicate first arrived with
    tomb,       \* history: the newest generation deleted at a path
    known,      \* history: live versions that have arrived
    owed,       \* history: live versions that no user has superseded
    overrun,    \* history: live versions that this process has removed or
                \* overwritten without having read them
    mine        \* history: what this device last wrote at a path, as long as
                \* nothing has arrived for that path

loadVars == <<walk, groups, best, losers, copied>>
history  == <<origin, tomb, known, owed, overrun, mine>>
vars == <<files, pc, loadVars, idx, writes, diskFull, clock, arrivals, faults,
          history>>

Empty == <<>>   \* no slot, and the function with no writes
NoFiles == [s \in Slot |-> NoFile]
NoIndex == [p \in Path |-> NoFile]

\* A version that never had a generation ranks below every tombstone.
Version(p, r) == [path |-> p, gen |-> RankGen(r), content |-> r.content]
Versions == [path : Path, gen : Nat, content : Content]

Init ==
    /\ files = NoFiles
    /\ pc = "idle"
    /\ walk = NoFiles /\ groups = {} /\ best = Empty /\ losers = {} /\ copied = {}
    /\ idx = NoIndex
    /\ writes = Empty
    /\ diskFull = FALSE
    /\ clock = 2 /\ arrivals = 0 /\ faults = 0
    /\ origin = NoFiles
    /\ tomb = [p \in Path |-> 0]
    /\ known = {} /\ owed = {} /\ overrun = {}
    /\ mine = [p \in Path |-> Nothing]

-----------------------------------------------------------------------------
(* LoadIndex                                                               *)

Candidates(fs, p) == {s \in Slot : s[1] = p /\ fs[s] # NoFile}

\* The sort puts first a candidate no other outranks.  Equal candidates keep
\* the order of the walk, which is left open here.
Foremost(fs, S) == {s \in S : \A t \in S : ~Outranks(fs[t], fs[s])}

\* loadManifestIndex lists, reads and decrypts every manifest file.
Walk ==
    /\ pc = "idle"
    /\ pc' = "settling"
    /\ walk' = files
    /\ groups' = {p \in Path : Candidates(files, p) # {}}
    /\ \/ diskFull' = FALSE /\ UNCHANGED faults
       \/ diskFull' = TRUE /\ faults < MaxFaults /\ faults' = faults + 1
    /\ UNCHANGED <<files, best, losers, copied, idx, writes, clock, arrivals, history>>

\* Mutant: the first candidate of the walk wins.
WinnersUnsorted(p) == Candidates(walk, p)
Winners(p) == Foremost(walk, Candidates(walk, p))

\* A winning tombstone leaves the path out of the index.
\* Mutant: a winning tombstone is put in the index.
IndexedAlways(p, r) == [idx EXCEPT ![p] = Normalized(r)]
Indexed(p, r) == IF r.del THEN idx ELSE [idx EXCEPT ![p] = Normalized(r)]

\* The next path of the map, in any order.
SettlePath(p) ==
    /\ pc = "settling" /\ losers = {} /\ copied = {} /\ p \in groups
    /\ groups' = groups \ {p}
    /\ \E w \in Winners(p) :
          /\ best' = w
          /\ losers' = Candidates(walk, p) \ {w}
          /\ idx' = Indexed(p, walk[w])
    /\ UNCHANGED <<files, pc, walk, copied, writes, diskFull, clock, arrivals,
                   faults, history>>

Claim(p, r) == IF r.del THEN {} ELSE {Version(p, r)}

\* Delivered to s after the walk of this load had passed it.
Unread(s) == files[s] \notin {NoFile, walk[s]}
Lost(s) == IF Unread(s) THEN Claim(s[1], files[s]) ELSE {}

\* os.Remove(loser.Source), whose error is ignored: whatever has that name by
\* now is removed.
\* Mutant: a settled duplicate is left where it is.
RemoveSourceNever(s) == UNCHANGED <<files, overrun, faults>>
RemoveSource(s) ==
    \/ /\ files' = [files EXCEPT ![s] = NoFile]
       /\ overrun' = overrun \cup Lost(s)
       /\ UNCHANGED faults
    \/ UNCHANGED <<files, overrun>> /\ faults < MaxFaults /\ faults' = faults + 1

DiscardLoser(s) ==
    /\ pc = "settling" /\ copied = {} /\ s \in losers
    /\ Discarded(walk[best], walk[s])
    /\ RemoveSource(s)
    /\ losers' = losers \ {s}
    /\ UNCHANGED <<pc, walk, groups, best, copied, idx, writes, diskFull, clock,
                   arrivals, origin, tomb, known, owed, mine>>

\* Mutant: the source is removed even if the conflict copy was not saved.
RemovableUnchecked(s) == {s}
Removable(s) == IF diskFull THEN {} ELSE {s}

\* The loser becomes a conflict copy: first in the index and on disk, and
\* only then, if that save succeeded, is its own file removed.
KeepLoser(s) ==
    /\ pc = "settling" /\ copied = {} /\ s \in losers
    /\ ~Discarded(walk[best], walk[s])
    /\ LET rec == Normalized(walk[s])
           c   == ConflictPath(s[1], rec.stamp, s[2])
       IN /\ idx' = [idx EXCEPT ![c] = rec]
          /\ files' = IF diskFull THEN files ELSE [files EXCEPT ![<<c, Main>>] = rec]
    /\ copied' = Removable(s)
    /\ losers' = losers \ {s}
    /\ UNCHANGED <<pc, walk, groups, best, writes, diskFull, clock, arrivals,
                   faults, history>>

RemoveCopied(s) ==
    /\ pc = "settling" /\ s \in copied
    /\ RemoveSource(s)
    /\ copied' = {}
    /\ UNCHANGED <<pc, walk, groups, best, losers, idx, writes, diskFull, clock,
                   arrivals, origin, tomb, known, owed, mine>>

Loaded ==
    /\ pc = "settling" /\ groups = {} /\ losers = {} /\ copied = {}
    /\ pc' = "loaded"
    /\ UNCHANGED <<files, loadVars, idx, writes, diskFull, clock, arrivals, faults,
                   history>>

-----------------------------------------------------------------------------
(* What a request does with the index                                      *)

\* The request is over, or the process is gone: nothing in memory is kept.
Forget ==
    /\ pc' = "idle"
    /\ walk' = NoFiles /\ groups' = {} /\ best' = Empty /\ losers' = {} /\ copied' = {}
    /\ idx' = NoIndex /\ writes' = Empty /\ diskFull' = FALSE

\* List, FileInfo, WriteFileTo, ... only read the index.
Read ==
    /\ pc = "loaded"
    /\ Forget
    /\ UNCHANGED <<files, clock, arrivals, faults, history>>

\* putReader: one new record for each path written.  The name of a conflict
\* copy holds a hash: users only write to those they are shown.
BeginPut(tree) ==
    /\ pc = "loaded" /\ clock <= 2 * MaxWrites /\ tree # {}
    /\ \A p \in tree : Original(p) = p \/ idx[p] # NoFile
    /\ \E x \in Content :
          writes' = [p \in tree |-> LiveAt(NextGen(idx[p], clock), clock, x)]
    /\ clock' = clock + 2
    /\ pc' = "writing"
    /\ UNCHANGED <<files, loadVars, idx, diskFull, arrivals, faults, history>>

\* RemovePath: one tombstone for each live path that the request names.
BeginRemove(tree) ==
    /\ pc = "loaded" /\ clock <= 2 * MaxWrites
    /\ LET targets == {p \in tree : idx[p] # NoFile} IN
          /\ targets # {}
          /\ writes' = [p \in targets |-> TombstoneAt(NextGen(idx[p], clock), clock)]
    /\ clock' = clock + 2
    /\ pc' = "writing"
    /\ UNCHANGED <<files, loadVars, idx, diskFull, arrivals, faults, history>>

\* What the user of this device has seen at p, and now replaces or deletes.
Superseded(p) ==
    {v \in owed : /\ idx[p] # NoFile /\ v.content = idx[p].content
                  /\ v.path \in {p, Original(p)}}

\* Something has arrived for p since this request has walked the directory.
Unseen(p) == \E s \in Slot : s[1] = p /\ Unread(s)

\* putReader raises a generation above that of the live file it replaces, but
\* not above a tombstone, which the index does not hold.
Behind(p, r) == ~r.del /\ idx[p] = NoFile /\ r.gen < tomb[p]

\* saveManifestRecord always writes the slot <<p, Main>>.
Save(p) ==
    /\ pc = "writing" /\ p \in DOMAIN writes /\ ~diskFull
    /\ LET r == writes[p] IN
          /\ files' = [files EXCEPT ![<<p, Main>>] = r]
          /\ owed' = (owed \ Superseded(p)) \cup (IF r.del THEN {} ELSE {Version(p, r)})
          /\ overrun' = overrun \cup Lost(<<p, Main>>)
          /\ tomb' = IF r.del /\ r.gen > tomb[p] THEN [tomb EXCEPT ![p] = r.gen] ELSE tomb
          /\ mine' = [mine EXCEPT ![p] = IF Unseen(p) \/ Behind(p, r) THEN Nothing
                                        ELSE IF r.del THEN Deleted ELSE r.content]
    /\ writes' = [q \in DOMAIN writes \ {p} |-> writes[q]]
    /\ UNCHANGED <<pc, loadVars, idx, diskFull, clock, arrivals, faults, origin, known>>

\* All manifests are saved, or the first save has failed.
EndRequest ==
    /\ pc = "writing" /\ (writes = Empty \/ diskFull)
    /\ Forget
    /\ UNCHANGED <<files, clock, arrivals, faults, history>>

Crash ==
    /\ pc # "idle" /\ faults < MaxFaults
    /\ faults' = faults + 1
    /\ Forget
    /\ UNCHANGED <<files, clock, arrivals, history>>

-----------------------------------------------------------------------------
(* The sync client                                                         *)

\* A version that arrives again, once a user has superseded it, is owed to nobody.
Arrival(p, r, kept) ==
    /\ arrivals < MaxArrivals /\ arrivals' = arrivals + 1
    /\ tomb' = IF r.del /\ Effective(r) > tomb[p]
               THEN [tomb EXCEPT ![p] = Effective(r)] ELSE tomb
    /\ known' = known \cup Claim(p, r)
    /\ owed' = kept \cup (Claim(p, r) \ (known \ owed))
    /\ overrun' = overrun \ Claim(p, r)
    /\ mine' = [mine EXCEPT ![p] = Nothing]
    /\ UNCHANGED <<pc, loadVars, idx, writes, diskFull, clock, faults>>

\* A version made concurrently arrives under a name of its own.  The same
\* file may arrive again after a load has removed it: transports copy, and
\* never delete.
ArriveVariant(p, n, r) ==
    LET s == <<p, n>> IN
    /\ origin[s] \in {NoFile, r}
    /\ files' = [files EXCEPT ![s] = r]
    /\ origin' = [origin EXCEPT ![s] = r]
    /\ Arrival(p, r, owed)

\* A version another device made from the one in <<p, Main>> replaces it, at
\* any step of this process: the sync client does not take the vault's lock.
ArriveMain(p, r) ==
    LET old == files[<<p, Main>>] IN
    /\ old # NoFile => Outranks(r, old)
    /\ files' = [files EXCEPT ![<<p, Main>>] = r]
    /\ UNCHANGED origin
    /\ Arrival(p, r, {v \in owed : v.path # p \/ old = NoFile \/ v.content # old.content})

-----------------------------------------------------------------------------
Settle ==
    \/ \E p \in Path : SettlePath(p)
    \/ \E s \in losers : DiscardLoser(s) \/ KeepLoser(s)
    \/ \E s \in copied : RemoveCopied(s)
    \/ Loaded

Write ==
    \/ \E t \in Trees : BeginPut(t) \/ BeginRemove(t)
    \/ \E p \in DOMAIN writes : Save(p)
    \/ EndRequest

Process == Walk \/ Settle \/ Read \/ Write

SyncClient ==
    \E p \in Synced, r \in Foreign :
        \/ ArriveMain(p, r)
        \/ \E n \in Variant : ArriveVariant(p, n, r)

Next == Process \/ Crash \/ SyncClient

\* The application goes on serving requests; each of them loads the index.
Spec == Init /\ [][Next]_vars /\ WF_vars(Process)

-----------------------------------------------------------------------------
TypeOK ==
    /\ files \in [Slot -> Record \cup {NoFile}]
    /\ pc \in {"idle", "settling", "loaded", "writing"}
    /\ walk \in [Slot -> Record \cup {NoFile}]
    /\ groups \subseteq Path
    /\ best \in Slot \cup {Empty}
    /\ losers \subseteq Slot /\ copied \subseteq Slot
    /\ idx \in [Path -> LiveRecord \cup {NoFile}]
    /\ DOMAIN writes \subseteq Path /\ \A p \in DOMAIN writes : writes[p] \in Record
    /\ diskFull \in BOOLEAN
    /\ clock \in 2..(2 * MaxWrites + 2)
    /\ arrivals \in 0..MaxArrivals /\ faults \in 0..MaxFaults
    /\ origin \in [Slot -> Record \cup {NoFile}]
    /\ tomb \in [Path -> Nat]
    /\ known \subseteq Versions /\ owed \subseteq Versions /\ overrun \subseteq Versions
    /\ mine \in [Path -> Content \cup {Nothing, Deleted}]

\* A manifest file still holds the payload of v, under its path or under a
\* conflict copy of it.
Held(v) ==
    \E s \in Slot : /\ files[s] # NoFile /\ ~files[s].del
                    /\ files[s].content = v.content
                    /\ v.path \in {s[1], Original(s[1])}

\* No live version of a shared path is ever silently discarded, whatever
\* duplicates arrive and wherever the process is killed: it is on disk until
\* a user replaces or deletes it or a tombstone newer than it exists
\* (loadManifestIndex saves the conflict copy before it removes the loser).
\* What is delivered to the main name of a path while this process is between
\* its walk and its own removal or save of that name is the one exception.
Preserved ==
    \A v \in owed :
        v.path \in Synced => Held(v) \/ v.gen < tomb[v.path] \/ v \in overrun

\* A device sees what it last wrote: until something arrives for that path,
\* every load shows the payload of its last put, or nothing after a removal,
\* even where the replaced version carries a generation ahead of this clock
\* (generation rules of putReader and RemovePath).  A path created again
\* behind a tombstone from the future is the exception: see Save.
ReadYourWrites ==
    pc = "loaded" =>
        \A p \in Synced :
            /\ mine[p] = Deleted => idx[p] = NoFile
            /\ mine[p] \in Content => idx[p] # NoFile /\ idx[p].content = mine[p]

\* Settling duplicates never changes what the next load of the directory
\* shows at a shared path: all devices that share it agree on the main file.
\* Only where a removal hits what was delivered after the walk may it change.
View(fs, p) == {IF fs[s].del THEN Nothing ELSE fs[s].content :
                   s \in Foremost(fs, Candidates(fs, p))}
LoadKeepsView ==
    [][pc = "settling" /\ arrivals' = arrivals
         => \A p \in Synced :
               \/ View(files', p) \subseteq View(files, p)
               \/ \E s \in Slot : s[1] = p /\ Unread(s) /\ files'[s] # files[s]]_vars

\* Once arrivals, faults and writes stop, loading leaves one manifest file
\* for each path, and never finds another duplicate.
Settled == \A p \in Path : Cardinality(Candidates(files, p)) <= 1
EventuallySettled == <>[]Settled

\* "Delete tombstones suppress older live manifests so deleted files are not
\* resurrected by stale conflicts" (SECURITY.md): a path this device has
\* removed stays removed until something arrives for that very path.
TombstonesHold ==
    pc = "loaded" => \A p \in Path : mine[p] = Deleted => idx[p] = NoFile
=============================================================================

------------------------ MODULE ContentLayout_proofs -------------------------
(***************************************************************************)
(* Proofs about ContentLayout, for any number of processes, names,         *)
(* migrations and writes: type correctness; and, when nobody else changes  *)
(* the vault during a migration, that no file is lost and that an Open     *)
(* that has returned leaves nothing outside content/.                      *)
(***************************************************************************)
EXTENDS ContentLayout, TLAPS

File  == Version \cup Absent \cup {Dir}
Entry == Version \cup {NoFile, Dir}

-----------------------------------------------------------------------------
(* Paths and the index that a migration builds                             *)

\* The root, content/ and the marker are different paths.
LEMMA PathFacts ==
    /\ Roots \subseteq UserPath /\ UserPath \subseteq Path
    /\ Marker \in Path /\ Marker \notin UserPath
    /\ \A n \in Name : /\ Root(n) \in Roots
                       /\ Moved(n) \in UserPath /\ Moved(n) \notin Roots
                       /\ Moved(n) # Marker
    /\ \A q \in Roots : q[1] \in Name /\ q = Root(q[1]) /\ q[2] = 0
    /\ \A q \in UserPath : q[1] \in Name /\ q[2] \in Place
    /\ \A q \in UserPath : q[2] = 0 <=> q \in Roots
    /\ \A q \in UserPath : q[2] = 1 <=> q = Moved(q[1])
<1>1. 0 \in Place /\ 1 \in Place
    BY NamesAssumption DEF Place
<1>2. Dir \notin Name
    BY NamesAssumption
<1> QED BY <1>1, <1>2 DEF Roots, UserPath, Path, Marker, Root, Moved, Place

\* The conflict path of a migration is a path of its own.
LEMMA ConflictFacts ==
    ASSUME NEW n \in Name, NEW k \in 1 .. MaxMigrations
    PROVE  /\ ConflictPath(n, k) \in UserPath
           /\ ConflictPath(n, k)[1] = n /\ ConflictPath(n, k)[2] = k + 1
           /\ ConflictPath(n, k) \notin Roots
           /\ ConflictPath(n, k) # Moved(n)
           /\ ConflictPath(n, k) # Marker
BY NamesAssumption DEF ConflictPath, UserPath, Place, Roots, Moved, Marker

\* No live file is absent.
LEMMA LiveFacts ==
    /\ NoFile \in Absent /\ Deleted \in Absent
    /\ \A x \in Version : x \notin Absent
    /\ Dir \notin Absent
    /\ \A x \in Entry : x \in Absent <=> x = NoFile
BY ContentAssumption DEF Absent, Entry

\* Migrated by the kind of path: the loop of EnsureContentLayout.
LEMMA MigratedFacts ==
    ASSUME NEW fs \in [Path -> File], NEW k \in 1 .. MaxMigrations
    PROVE  /\ Migrated(fs, k) \in [Path -> Entry]
           /\ Migrated(fs, k)[Marker] = Dir
           /\ \A q \in Roots : Migrated(fs, k)[q] = NoFile
           /\ \A n \in Name :
                 Migrated(fs, k)[Moved(n)] =
                    IF fs[Moved(n)] \notin Absent THEN fs[Moved(n)]
                    ELSE IF fs[Root(n)] \notin Absent THEN fs[Root(n)] ELSE NoFile
           /\ \A n \in Name :
                 fs[Root(n)] \notin Absent /\ fs[Moved(n)] \notin Absent
                 => Migrated(fs, k)[ConflictPath(n, k)] = fs[Root(n)]
           /\ \A q \in UserPath :
                 q[2] \notin {0, 1, k + 1}
                 => Migrated(fs, k)[q] = IF fs[q] \in Absent THEN NoFile ELSE fs[q]
           /\ \A q \in UserPath :
                 q[2] = k + 1 /\ fs[q] \in Absent /\ Migrated(fs, k)[q] # NoFile
                 => /\ Migrated(fs, k)[q] = fs[Root(q[1])]
                    /\ q = ConflictPath(q[1], k)
<1> DEFINE M == Migrated(fs, k)
<1> USE PathFacts, LiveFacts
<1>1. k \in Nat /\ k >= 1 /\ k + 1 # 0 /\ k + 1 # 1
    BY NamesAssumption
<1>2. \A n \in Name : Root(n) \in LegacyIn(fs) <=> fs[Root(n)] \notin Absent
    BY DEF LegacyIn, LiveIn
<1>3. M[Marker] = Dir
    BY DEF Migrated
<1>4. \A q \in UserPath :
         M[q] = IF q[2] = 0 THEN NoFile
                ELSE IF Root(q[1]) \in LegacyIn(fs) /\ Target(fs, q[1], k) = q
                     THEN fs[Root(q[1])]
                ELSE IF fs[q] = Deleted THEN NoFile ELSE fs[q]
    BY DEF Migrated
<1>5. \A q \in UserPath : M[q] \in Entry
    <2> SUFFICES ASSUME NEW q \in UserPath PROVE M[q] \in Entry
        OBVIOUS
    <2>1. Root(q[1]) \in Path /\ q \in Path
        OBVIOUS
    <2>2. Root(q[1]) \in LegacyIn(fs) => fs[Root(q[1])] \in Entry
        BY <2>1, <1>2 DEF File, Entry, Absent
    <2>3. fs[q] # Deleted => fs[q] \in Entry
        BY <2>1 DEF File, Entry, Absent
    <2> QED BY <1>4, <2>2, <2>3 DEF Entry
<1>6. M \in [Path -> Entry]
    BY <1>3, <1>5 DEF Migrated, Path, Entry
<1>7. \A q \in Roots : M[q] = NoFile
    BY <1>4
<1>8. ASSUME NEW n \in Name
      PROVE  M[Moved(n)] =
                IF fs[Moved(n)] \notin Absent THEN fs[Moved(n)]
                ELSE IF fs[Root(n)] \notin Absent THEN fs[Root(n)] ELSE NoFile
    <2>1. Moved(n)[1] = n /\ Moved(n)[2] = 1
        BY DEF Moved
    <2>2. Target(fs, n, k) = Moved(n) <=> fs[Moved(n)] \in Absent
        BY ConflictFacts DEF Target
    <2>3. fs[Moved(n)] \in Absent => fs[Moved(n)] \in {NoFile, Deleted}
        BY DEF Absent
    <2> QED BY <1>2, <1>4, <2>1, <2>2, <2>3
<1>9. ASSUME NEW n \in Name, fs[Root(n)] \notin Absent, fs[Moved(n)] \notin Absent
      PROVE  M[ConflictPath(n, k)] = fs[Root(n)]
    BY <1>1, <1>2, <1>4, <1>9, ConflictFacts DEF Target
<1>10. ASSUME NEW q \in UserPath, q[2] \notin {0, 1, k + 1}
       PROVE  M[q] = IF fs[q] \in Absent THEN NoFile ELSE fs[q]
    <2>1. Target(fs, q[1], k) # q
        BY <1>10, ConflictFacts DEF Target
    <2>2. fs[q] \in Absent => fs[q] \in {NoFile, Deleted}
        BY DEF Absent
    <2> QED BY <1>4, <1>10, <2>1, <2>2
<1>11. ASSUME NEW q \in UserPath, q[2] = k + 1, fs[q] \in Absent, M[q] # NoFile
       PROVE  M[q] = fs[Root(q[1])] /\ q = ConflictPath(q[1], k)
    <2>1. fs[q] \in {NoFile, Deleted}
        BY <1>11 DEF Absent
    <2>2. q = ConflictPath(q[1], k)
        BY <1>11 DEF UserPath, ConflictPath
    <2> QED BY <1>1, <1>4, <1>11, <2>1, <2>2
<1> HIDE DEF M
<1> QED BY <1>3, <1>6, <1>7, <1>8, <1>9, <1>10, <1>11 DEF M
-----------------------------------------------------------------------------
(* Type correctness                                                        *)

LEMMA NothingType == Nothing \in [Path -> Entry] /\ Nothing[Marker] = NoFile
BY PathFacts DEF Nothing, Entry

\* Every kind of write keeps the types.
LEMMA WriteType ==
    ASSUME TypeOK, NEW q \in UserPath, NEW x \in Version \cup Absent, Write(q, x),
           current' \subseteq Proc
    PROVE  TypeOK'
<1>1. writes' \in 0 .. MaxWrites
    BY NamesAssumption DEF TypeOK, Write
<1>2. files' \in [Path -> File] /\ files'[Marker] \in {NoFile, Dir}
    BY PathFacts DEF TypeOK, Write, File
<1>3. owed' \subseteq Version
    BY DEF TypeOK, Write
<1>4. UNCHANGED <<sharded, pc, idx, toSave, toBury, migrations>>
    BY DEF Write
<1> QED BY <1>1, <1>2, <1>3, <1>4 DEF TypeOK, Migrating, File

\* One step of a process, or of somebody who uses the vault.
LEMMA TypeStep == TypeOK /\ [Next]_vars => TypeOK'
<1> SUFFICES ASSUME TypeOK, [Next]_vars PROVE TypeOK'
    OBVIOUS
<1> USE PathFacts, NothingType DEF File, Entry
<1>1. CASE UNCHANGED vars
    BY <1>1 DEF TypeOK, vars, Migrating
<1>2. ASSUME NEW p \in Proc, OpenCurrent(p) PROVE TypeOK'
    BY <1>2 DEF TypeOK, OpenCurrent, Migrating
<1>3. ASSUME NEW p \in Proc, OpenOutdated(p) PROVE TypeOK'
    <2>1. migrations + 1 \in 1 .. MaxMigrations
        BY <1>3, NamesAssumption DEF TypeOK, OpenOutdated
    <2>2. /\ Migrated(files, migrations + 1) \in [Path -> Entry]
          /\ Migrated(files, migrations + 1)[Marker] = Dir
        BY <2>1, MigratedFacts DEF TypeOK
    <2>3. idx' \in [Proc -> [Path -> Entry]] /\ \A r \in Proc : idx'[r][Marker] \in {NoFile, Dir}
        BY <1>3, <2>2 DEF TypeOK, OpenOutdated
    <2>4. LiveIn(idx'[p]) \subseteq Path /\ Buried(files) \subseteq Roots
        BY <2>3 DEF LiveIn, Buried, LegacyIn
    <2>5. toSave' \in [Proc -> SUBSET Path] /\ toBury' \in [Proc -> SUBSET Roots]
        BY <1>3, <2>4 DEF TypeOK, OpenOutdated
    <2>6. /\ pc' \in [Proc -> {"closed", "saving", "burying", "open"}]
          /\ \A r \in Proc : ~Migrating(r)' => toSave'[r] = {} /\ toBury'[r] = {}
        BY <1>3 DEF TypeOK, OpenOutdated, Migrating
    <2>7. migrations' \in 0 .. MaxMigrations
        BY <1>3, <2>1, NamesAssumption DEF OpenOutdated
    <2>8. current' \subseteq Proc /\ UNCHANGED <<sharded, files, writes, owed>>
        BY <1>3 DEF TypeOK, OpenOutdated
    <2> QED BY <2>3, <2>5, <2>6, <2>7, <2>8 DEF TypeOK
<1>4. ASSUME NEW p \in Proc, NEW q \in Path, SaveManifest(p, q) PROVE TypeOK'
    <2>1. files' \in [Path -> File] /\ files'[Marker] \in {NoFile, Dir}
        BY <1>4 DEF TypeOK, SaveManifest, Absent
    <2>2. /\ toSave' \in [Proc -> SUBSET Path]
          /\ \A r \in Proc : ~Migrating(r) => toSave'[r] = {} /\ toBury[r] = {}
        BY <1>4 DEF TypeOK, SaveManifest
    <2> QED BY <1>4, <2>1, <2>2 DEF TypeOK, SaveManifest, Migrating
<1>5. ASSUME NEW p \in Proc, BeginBurying(p) PROVE TypeOK'
    BY <1>5 DEF TypeOK, BeginBurying, Migrating
<1>6. ASSUME NEW p \in Proc, NEW q \in Path, SaveTombstone(p, q) PROVE TypeOK'
    <2>1. files' \in [Path -> File] /\ files'[Marker] \in {NoFile, Dir}
        BY <1>6 DEF TypeOK, SaveTombstone, Absent
    <2>2. /\ toBury' \in [Proc -> SUBSET Roots]
          /\ \A r \in Proc : ~Migrating(r) => toSave[r] = {} /\ toBury'[r] = {}
        BY <1>6 DEF TypeOK, SaveTombstone
    <2> QED BY <1>6, <2>1, <2>2 DEF TypeOK, SaveTombstone, Migrating
<1>7. ASSUME NEW p \in Proc, FinishBurying(p) \/ Leave(p) PROVE TypeOK'
    <2>1. Forget(p)
        BY <1>7 DEF FinishBurying, Leave
    <2>2. idx' \in [Proc -> [Path -> Entry]] /\ \A r \in Proc : idx'[r][Marker] \in {NoFile, Dir}
        BY <2>1 DEF TypeOK, Forget
    <2>3. /\ pc' \in [Proc -> {"closed", "saving", "burying", "open"}]
          /\ toSave' \in [Proc -> SUBSET Path] /\ toBury' \in [Proc -> SUBSET Roots]
          /\ \A r \in Proc : ~Migrating(r)' => toSave'[r] = {} /\ toBury'[r] = {}
        BY <1>7, <2>1 DEF TypeOK, Forget, FinishBurying, Leave, Migrating
    <2>4. current' \subseteq Proc /\ UNCHANGED <<sharded, files, migrations, writes, owed>>
        BY <1>7 DEF TypeOK, FinishBurying, Leave
    <2> QED BY <2>2, <2>3, <2>4 DEF TypeOK
<1>8. ASSUME NEW p \in Proc, SaveIndex(p) PROVE TypeOK'
    <2>1. Forget(p)
        BY <1>8 DEF SaveIndex
    <2>2. idx' \in [Proc -> [Path -> Entry]] /\ \A r \in Proc : idx'[r][Marker] \in {NoFile, Dir}
        BY <2>1 DEF TypeOK, Forget
    <2>3. /\ pc' \in [Proc -> {"closed", "saving", "burying", "open"}]
          /\ toSave' \in [Proc -> SUBSET Path] /\ toBury' \in [Proc -> SUBSET Roots]
          /\ \A r \in Proc : ~Migrating(r)' => toSave'[r] = {} /\ toBury'[r] = {}
        BY <1>8, <2>1 DEF TypeOK, Forget, SaveIndex, Migrating
    <2>4. files' \in [Path -> File] /\ files'[Marker] \in {NoFile, Dir}
        BY <1>8 DEF TypeOK, SaveIndex, Absent
    <2> QED BY <1>8, <2>2, <2>3, <2>4 DEF TypeOK, SaveIndex
<1>9. ASSUME NEW n \in Name, Put(n) \/ Deliver(n) PROVE TypeOK'
    <2>1. writes + 1 \in 0 .. MaxWrites /\ current' \subseteq Proc
        BY <1>9, NamesAssumption DEF TypeOK, Put, Deliver, Write
    <2>2. <<Moved(n), writes + 1>> \in Version /\ <<Root(n), writes + 1>> \in Version
        BY <2>1 DEF Version
    <2> QED BY <1>9, <2>1, <2>2, WriteType DEF Put, Deliver
<1>10. ASSUME NEW q \in UserPath, Remove(q) PROVE TypeOK'
    <2>1. Write(q, IF sharded THEN Deleted ELSE NoFile) /\ current' \subseteq Proc
        BY <1>10 DEF Remove, TypeOK
    <2> QED BY <2>1, WriteType DEF Absent
<1> QED BY <1>1, <1>2, <1>3, <1>4, <1>5, <1>6, <1>7, <1>8, <1>9, <1>10 DEF Next

LEMMA TypeInit == Init => TypeOK
<1> SUFFICES ASSUME Init PROVE TypeOK
    OBVIOUS
<1>1. 0 \in 0 .. MaxWrites /\ 0 \in 0 .. MaxMigrations
    BY NamesAssumption
<1>2. PICK old \in SUBSET (Name \X {0, 1}) :
         /\ files = [q \in Path |-> IF q \in old THEN <<q, 0>> ELSE NoFile]
         /\ owed = {<<q, 0>> : q \in old}
    BY DEF Init
<1>3. old \subseteq UserPath
    BY NamesAssumption DEF UserPath, Place
<1>4. \A q \in old : <<q, 0>> \in Version
    BY <1>1, <1>3 DEF Version
<1>5. files \in [Path -> File] /\ files[Marker] \in {NoFile, Dir} /\ owed \subseteq Version
    BY <1>2, <1>3, <1>4, PathFacts DEF File, Absent
<1> QED BY <1>1, <1>5, NothingType, NamesAssumption DEF Init, TypeOK, Migrating, File, Entry

\* Every variable keeps its type, and a process that is not in the middle of a
\* migration has nothing left to save or to bury (EnsureContentLayout).
THEOREM TypeCorrect == Spec => []TypeOK
BY TypeInit, TypeStep, PTL DEF Spec

-----------------------------------------------------------------------------
(* No file is lost.  Kept alone is not inductive: a process that is in the *)
(* middle of its migration overwrites files from the index it has built,   *)
(* and so may another one.  What holds is that all of them agree.          *)

\* The file that content/ holds under the name n when all is moved: what is
\* there already, or else what is at the root.
Settled(n) ==
    IF files[Moved(n)] \notin Absent THEN files[Moved(n)]
    ELSE IF files[Root(n)] \notin Absent THEN files[Root(n)] ELSE NoFile

\* The index a migration saves has nothing at the root, every version that is
\* owed, and the settled file under each name.
IndexComplete ==
    \A p \in Proc : Migrating(p) =>
        /\ \A q \in Roots : idx[p][q] = NoFile
        /\ \A v \in owed : \E q \in Path : idx[p][q] = v
        /\ \A n \in Name : idx[p][Moved(n)] = Settled(n)

\* Wherever an index and the vault, or two indexes, both have a file, it is the
\* same one.
Agree ==
    \A p \in Proc : Migrating(p) =>
        \A q \in Path : idx[p][q] # NoFile =>
            /\ files[q] \notin Absent => files[q] = idx[p][q]
            /\ \A r \in Proc :
                  Migrating(r) /\ idx[r][q] # NoFile => idx[r][q] = idx[p][q]

\* A manifest that is not on the list any more is stored, and all are before
\* the first tombstone.
SavedFirst ==
    \A p \in Proc : Migrating(p) =>
        /\ \A q \in Path :
              idx[p][q] # NoFile /\ q \notin toSave[p]
              => sharded /\ files[q] = idx[p][q]
        /\ \A q \in toSave[p] : idx[p][q] # NoFile
        /\ pc[p] = "burying" => sharded /\ toSave[p] = {}

\* The conflict paths of later migrations are free.
CopiesFresh ==
    \A q \in UserPath : q[2] > migrations + 1 =>
        files[q] = NoFile /\ \A p \in Proc : idx[p][q] = NoFile

IInv == TypeOK /\ Kept /\ IndexComplete /\ Agree /\ SavedFirst /\ CopiesFresh

LEMMA InitIInv == Init => IInv
<1> SUFFICES ASSUME Init PROVE IInv
    OBVIOUS
<1>1. TypeOK
    BY TypeInit
<1>2. PICK old \in SUBSET (Name \X {0, 1}) :
         /\ files = [q \in Path |-> IF q \in old THEN <<q, 0>> ELSE NoFile]
         /\ owed = {<<q, 0>> : q \in old}
    BY DEF Init
<1>3. old \subseteq Path /\ \A q \in old : q[2] \in {0, 1}
    BY NamesAssumption DEF UserPath, Place, Path
<1>4. Kept
    BY <1>2, <1>3 DEF Kept, Stored
<1>5. IndexComplete /\ Agree /\ SavedFirst
    BY DEF Init, IndexComplete, Agree, SavedFirst, Migrating
<1>6. CopiesFresh
    BY <1>2, <1>3, PathFacts DEF Init, CopiesFresh, Nothing
<1> QED BY <1>1, <1>4, <1>5, <1>6 DEF IInv

\* Open of an outdated vault: the index it builds agrees with the vault and with
\* every other index, and it has all that is owed.
LEMMA OpenKeeps ==
    ASSUME IInv, TypeOK', NEW p \in Proc, OpenOutdated(p)
    PROVE  IInv'
<1> USE PathFacts, LiveFacts
<1> DEFINE k == migrations + 1
           M == Migrated(files, k)
<1>1. k \in 1 .. MaxMigrations /\ k = migrations + 1 /\ migrations \in Nat
    BY NamesAssumption DEF IInv, TypeOK, OpenOutdated
<1>2. files \in [Path -> File] /\ files[Marker] \in {NoFile, Dir}
    BY DEF IInv, TypeOK, File
<1>3. M \in [Path -> Entry] /\ M[Marker] = Dir /\ \A q \in Roots : M[q] = NoFile
    BY <1>1, <1>2, MigratedFacts
<1>4. \A n \in Name : M[Moved(n)] = Settled(n)
    BY <1>1, <1>2, MigratedFacts DEF Settled
<1>5. \A q \in UserPath : q[2] = k + 1 => /\ files[q] = NoFile
                                         /\ \A r \in Proc : idx[r][q] = NoFile
    BY <1>1 DEF IInv, CopiesFresh
<1>6. \A q \in UserPath : q[2] \notin {0, 1, k + 1}
         => M[q] = IF files[q] \in Absent THEN NoFile ELSE files[q]
    BY <1>1, <1>2, MigratedFacts
<1>7. \A n \in Name : files[Root(n)] \notin Absent /\ files[Moved(n)] \notin Absent
         => M[ConflictPath(n, k)] = files[Root(n)]
    BY <1>1, <1>2, MigratedFacts
<1>8. \A n \in Name : ConflictPath(n, k) \in Path
    BY <1>1, ConflictFacts
<1> HIDE DEF M, k
<1>9. /\ pc[p] = "closed" /\ pc' = [pc EXCEPT ![p] = "saving"]
      /\ idx' = [idx EXCEPT ![p] = M] /\ migrations' = k
      /\ toSave' = [toSave EXCEPT ![p] = LiveIn(idx'[p])]
      /\ UNCHANGED <<sharded, files, owed>>
    BY DEF OpenOutdated, M, k
<1>10. /\ idx'[p] = M /\ \A r \in Proc \ {p} : idx'[r] = idx[r]
       /\ toSave'[p] = LiveIn(M) /\ \A r \in Proc \ {p} : toSave'[r] = toSave[r]
       /\ pc'[p] = "saving" /\ \A r \in Proc \ {p} : pc'[r] = pc[r]
       /\ ~Migrating(p) /\ \A r \in Proc \ {p} : Migrating(r)' <=> Migrating(r)
    BY <1>9 DEF IInv, TypeOK, Migrating
<1>11. Kept'
    BY <1>9 DEF IInv, Kept, Stored
<1>12. \A v \in owed : \E q \in Path : M[q] = v
    <2> SUFFICES ASSUME NEW v \in owed PROVE \E q \in Path : M[q] = v
        OBVIOUS
    <2>1. PICK q \in Path : files[q] = v
        BY DEF IInv, Kept, Stored
    <2>2. v \notin Absent
        BY DEF IInv, TypeOK
    <2>3. CASE q = Marker
        BY <1>2, <1>3, <2>1, <2>2, <2>3
    <2>4. CASE q \in Roots
        <3> DEFINE n == q[1]
        <3>1. n \in Name /\ q = Root(n) /\ Moved(n) \in Path
            BY <2>4
        <3> HIDE DEF n
        <3>2. CASE files[Moved(n)] \in Absent
            BY <1>4, <2>1, <2>2, <3>1, <3>2 DEF Settled
        <3>3. CASE files[Moved(n)] \notin Absent
            BY <1>7, <1>8, <2>1, <2>2, <3>1, <3>3
        <3> QED BY <3>2, <3>3
    <2>5. CASE q \in UserPath /\ q[2] = 1
        <3>1. q[1] \in Name /\ q = Moved(q[1])
            BY <2>5
        <3> QED BY <1>4, <2>1, <2>2, <3>1 DEF Settled
    <2>6. CASE q \in UserPath /\ q[2] \notin {0, 1}
        <3>1. q[2] # k + 1
            BY <1>5, <2>1, <2>2, <2>6
        <3> QED BY <1>6, <2>1, <2>2, <2>6, <3>1
    <2> QED BY <2>3, <2>4, <2>5, <2>6 DEF Path
<1>13. IndexComplete'
    <2>1. \A n : Settled(n)' = Settled(n)
        BY <1>9 DEF Settled
    <2>2. \A q \in Roots : idx'[p][q] = NoFile
        BY <1>3, <1>10
    <2>3. \A v \in owed' : \E q \in Path : idx'[p][q] = v
        BY <1>9, <1>10, <1>12
    <2>4. \A n \in Name : idx'[p][Moved(n)] = Settled(n)'
        BY <1>4, <1>10, <2>1
    <2> QED BY <1>9, <1>10, <2>1, <2>2, <2>3, <2>4 DEF IInv, IndexComplete
<1>14. \A q \in Path : M[q] # NoFile /\ files[q] \notin Absent => files[q] = M[q]
    <2> SUFFICES ASSUME NEW q \in Path, M[q] # NoFile, files[q] \notin Absent
                 PROVE  files[q] = M[q]
        OBVIOUS
    <2>1. CASE q = Marker
        BY <1>2, <1>3, <2>1
    <2>2. CASE q \in UserPath /\ q[2] = 1
        <3>1. q[1] \in Name /\ q = Moved(q[1])
            BY <2>2
        <3> QED BY <1>4, <3>1 DEF Settled
    <2>3. CASE q \in UserPath /\ q[2] # 1
        BY <1>3, <1>5, <1>6, <2>3
    <2> QED BY <2>1, <2>2, <2>3 DEF Path
<1>15. ASSUME NEW q \in Path, NEW r \in Proc, Migrating(r), M[q] # NoFile, idx[r][q] # NoFile
       PROVE  idx[r][q] = M[q]
    <2>1. CASE q = Marker
        BY <1>3, <1>15, <2>1 DEF IInv, TypeOK
    <2>2. CASE q \in UserPath /\ q[2] = 1
        <3>1. q[1] \in Name /\ q = Moved(q[1])
            BY <2>2
        <3> QED BY <1>4, <1>15, <3>1 DEF IInv, IndexComplete
    <2>3. CASE q \in UserPath /\ q[2] # 1
        <3>1. q \notin Roots /\ q[2] \notin {0, 1, k + 1}
            BY <1>3, <1>5, <1>15, <2>3
        <3>2. files[q] \notin Absent /\ M[q] = files[q]
            BY <1>6, <1>15, <2>3, <3>1
        <3> QED BY <1>15, <3>2 DEF IInv, Agree
    <2> QED BY <2>1, <2>2, <2>3 DEF Path
<1>16. Agree'
    <2> SUFFICES ASSUME NEW s \in Proc, Migrating(s)', NEW q \in Path, idx'[s][q] # NoFile
                 PROVE  /\ files[q] \notin Absent => files[q] = idx'[s][q]
                        /\ \A r \in Proc :
                              Migrating(r)' /\ idx'[r][q] # NoFile => idx'[r][q] = idx'[s][q]
        BY <1>9 DEF Agree
    <2>1. CASE s = p
        BY <1>10, <1>14, <1>15, <2>1
    <2>2. CASE s # p
        <3>1. Migrating(s) /\ idx[s][q] # NoFile /\ idx'[s] = idx[s]
            BY <1>10, <2>2
        <3> QED BY <1>10, <1>15, <3>1 DEF IInv, Agree
    <2> QED BY <2>1, <2>2
<1>17. SavedFirst'
    <2>1. \A q \in Path : M[q] # NoFile <=> q \in LiveIn(M)
        BY <1>3 DEF LiveIn
    <2>2. LiveIn(M) \subseteq Path
        BY <1>3 DEF LiveIn
    <2> QED BY <1>9, <1>10, <2>1, <2>2 DEF IInv, SavedFirst
<1>18. CopiesFresh'
    <2> SUFFICES ASSUME NEW q \in UserPath, q[2] > k + 1
                 PROVE  files[q] = NoFile /\ \A r \in Proc : idx'[r][q] = NoFile
        BY <1>9 DEF CopiesFresh
    <2>1. q[2] > migrations + 1 /\ q[2] \notin {0, 1, k + 1}
        BY <1>1, NamesAssumption DEF Place
    <2>2. files[q] = NoFile /\ \A r \in Proc : idx[r][q] = NoFile
        BY <2>1 DEF IInv, CopiesFresh
    <2>3. M[q] = NoFile
        BY <1>6, <2>1, <2>2
    <2> QED BY <1>10, <2>2, <2>3
<1> QED BY <1>11, <1>13, <1>16, <1>17, <1>18 DEF IInv

\* A manifest is saved: no live file changes.
LEMMA SaveKeeps ==
    ASSUME IInv, TypeOK', NEW p \in Proc, NEW q \in Path, SaveManifest(p, q)
    PROVE  IInv'
<1> USE PathFacts, LiveFacts
<1> DEFINE x == idx[p][q]
<1>1. /\ Migrating(p) /\ q \in toSave[p] /\ sharded
      /\ files' = [files EXCEPT ![q] = x]
      /\ toSave' = [toSave EXCEPT ![p] = @ \ {q}]
      /\ UNCHANGED <<sharded, pc, idx, migrations, owed>>
    BY DEF SaveManifest, Migrating
<1>2. x # NoFile /\ x \notin Absent
    BY <1>1 DEF IInv, TypeOK, SavedFirst, Entry
<1>3. files'[q] = x /\ \A s \in Path : s # q => files'[s] = files[s]
    BY <1>1 DEF IInv, TypeOK
<1>4. files[q] \notin Absent => files[q] = x
    BY <1>1, <1>2 DEF IInv, Agree
<1>5. q \notin Roots
    BY <1>1, <1>2 DEF IInv, IndexComplete
<1>6. \A r \in Proc : Migrating(r) /\ idx[r][q] # NoFile => idx[r][q] = x
    BY <1>1, <1>2 DEF IInv, Agree
<1>7. \A n \in Name : q = Moved(n) => x = Settled(n)
    BY <1>1 DEF IInv, IndexComplete
<1> HIDE DEF x
<1>8. Kept'
    <2> SUFFICES ASSUME NEW v \in owed PROVE \E s \in Path : files'[s] = v
        BY <1>1 DEF Kept, Stored
    <2>1. PICK s \in Path : files[s] = v
        BY DEF IInv, Kept, Stored
    <2>2. v \notin Absent
        BY DEF IInv, TypeOK
    <2> QED BY <1>3, <1>4, <2>1, <2>2
<1>9. \A n \in Name : Settled(n)' = Settled(n)
    <2> SUFFICES ASSUME NEW n \in Name PROVE Settled(n)' = Settled(n)
        OBVIOUS
    <2>1. files'[Root(n)] = files[Root(n)]
        BY <1>3, <1>5
    <2>2. CASE q = Moved(n)
        BY <1>2, <1>3, <1>7, <2>2 DEF Settled
    <2>3. CASE q # Moved(n)
        BY <1>3, <2>1, <2>3 DEF Settled
    <2> QED BY <2>2, <2>3
<1>10. IndexComplete'
    BY <1>1, <1>9 DEF IInv, IndexComplete, Migrating
<1>11. Agree'
    BY <1>1, <1>3, <1>6 DEF IInv, Agree, Migrating
<1>12. SavedFirst'
    BY <1>1, <1>3, <1>6 DEF IInv, TypeOK, SavedFirst, Migrating
<1>13. CopiesFresh'
    BY <1>1, <1>2, <1>3 DEF IInv, CopiesFresh, x
<1> QED BY <1>8, <1>10, <1>11, <1>12, <1>13 DEF IInv

\* A tombstone is written: what the old path held is stored in content/.
LEMMA BuryKeeps ==
    ASSUME IInv, TypeOK', NEW p \in Proc, NEW q \in Path, SaveTombstone(p, q)
    PROVE  IInv'
<1> USE PathFacts, LiveFacts
<1>1. /\ Migrating(p) /\ pc[p] = "burying" /\ q \in Roots
      /\ files' = [files EXCEPT ![q] = Deleted]
      /\ UNCHANGED <<sharded, pc, idx, toSave, migrations, owed>>
    BY DEF SaveTombstone, Migrating, IInv, TypeOK
<1>2. files'[q] = Deleted /\ \A s \in Path : s # q => files'[s] = files[s]
    BY <1>1 DEF IInv, TypeOK
<1>3. toSave[p] = {} /\ sharded
    BY <1>1 DEF IInv, SavedFirst
<1>4. \A s \in Path : idx[p][s] # NoFile => files[s] = idx[p][s] /\ s \notin Roots
    BY <1>1, <1>3 DEF IInv, SavedFirst, IndexComplete
<1>5. Kept'
    <2> SUFFICES ASSUME NEW v \in owed PROVE \E s \in Path : files'[s] = v
        BY <1>1 DEF Kept, Stored
    <2>1. PICK s \in Path : idx[p][s] = v
        BY <1>1 DEF IInv, IndexComplete
    <2>2. v # NoFile
        BY DEF IInv, TypeOK
    <2> QED BY <1>1, <1>2, <1>4, <2>1, <2>2
<1>6. \A n \in Name : Settled(n)' = Settled(n)
    <2> SUFFICES ASSUME NEW n \in Name PROVE Settled(n)' = Settled(n)
        OBVIOUS
    <2>1. files'[Moved(n)] = files[Moved(n)]
        BY <1>1, <1>2
    <2>2. CASE q # Root(n)
        BY <1>2, <2>1, <2>2 DEF Settled
    <2>3. CASE q = Root(n)
        <3>1. idx[p][Moved(n)] = Settled(n)
            BY <1>1 DEF IInv, IndexComplete
        <3>2. files[Root(n)] \notin Absent => files[Moved(n)] \notin Absent
            BY <1>4, <3>1 DEF Settled
        <3> QED BY <1>2, <2>1, <2>3, <3>2 DEF Settled
    <2> QED BY <2>2, <2>3
<1>7. IndexComplete'
    BY <1>1, <1>6 DEF IInv, IndexComplete, Migrating
<1>8. Agree'
    BY <1>1, <1>2 DEF IInv, Agree, Migrating
<1>9. SavedFirst'
    BY <1>1, <1>2 DEF IInv, SavedFirst, IndexComplete, Migrating
<1>10. CopiesFresh'
    BY <1>1, <1>2, NamesAssumption DEF IInv, TypeOK, CopiesFresh
<1> QED BY <1>5, <1>7, <1>8, <1>9, <1>10 DEF IInv

\* The single index file is replaced: the new index has all that is owed.
LEMMA SaveIndexKeeps ==
    ASSUME IInv, TypeOK', NEW p \in Proc, SaveIndex(p)
    PROVE  IInv'
<1> USE PathFacts, LiveFacts
<1>1. /\ Migrating(p) /\ ~sharded /\ pc' = [pc EXCEPT ![p] = "open"]
      /\ files' = idx[p] /\ idx' = [idx EXCEPT ![p] = Nothing]
      /\ toSave' = [toSave EXCEPT ![p] = {}]
      /\ UNCHANGED <<sharded, migrations, owed>>
    BY DEF SaveIndex, Forget, Migrating
<1>2. /\ ~Migrating(p)'
      /\ \A r \in Proc : Migrating(r)' => /\ Migrating(r) /\ idx'[r] = idx[r]
                                          /\ toSave'[r] = toSave[r] /\ pc'[r] = pc[r]
    BY <1>1 DEF IInv, TypeOK, Migrating
<1>3. \A q \in Path : idx[p][q] \in Absent <=> idx[p][q] = NoFile
    BY DEF IInv, TypeOK, Entry
<1>4. Kept'
    BY <1>1 DEF IInv, IndexComplete, Kept, Stored
<1>5. \A n \in Name : Settled(n)' = Settled(n)
    BY <1>1, <1>3 DEF IInv, IndexComplete, Settled
<1>6. IndexComplete'
    BY <1>1, <1>2, <1>5 DEF IInv, IndexComplete
<1>7. Agree'
    BY <1>1, <1>2, <1>3 DEF IInv, Agree
<1>8. SavedFirst'
    BY <1>1, <1>2 DEF IInv, SavedFirst
<1>9. CopiesFresh'
    BY <1>1 DEF IInv, TypeOK, CopiesFresh, Nothing
<1> QED BY <1>4, <1>6, <1>7, <1>8, <1>9 DEF IInv

\* A process leaves its migration, or has never been in one.
LEMMA LeaveKeeps ==
    ASSUME IInv, TypeOK', NEW p \in Proc,
           OpenCurrent(p) \/ BeginBurying(p) \/ FinishBurying(p) \/ Leave(p)
    PROVE  IInv'
<1>1. UNCHANGED <<sharded, files, migrations, owed>>
    BY DEF OpenCurrent, BeginBurying, FinishBurying, Leave
<1>2. \A r \in Proc : Migrating(r)' =>
         /\ Migrating(r) /\ idx'[r] = idx[r] /\ toSave'[r] = toSave[r]
         /\ pc'[r] = "burying" => \/ pc[r] = "burying"
                                  \/ sharded /\ toSave[r] = {}
    BY DEF OpenCurrent, BeginBurying, FinishBurying, Leave, Forget, Migrating, IInv, TypeOK
<1>3. Kept'
    BY <1>1 DEF IInv, Kept, Stored
<1>4. IndexComplete' /\ Agree' /\ SavedFirst'
    BY <1>1, <1>2 DEF IInv, IndexComplete, Agree, SavedFirst, Settled
<1>5. \A r \in Proc : idx'[r] = idx[r] \/ idx'[r] = Nothing
    BY DEF OpenCurrent, BeginBurying, FinishBurying, Leave, Forget, IInv, TypeOK
<1>6. CopiesFresh'
    BY <1>1, <1>5, PathFacts DEF IInv, CopiesFresh, Nothing
<1> QED BY <1>3, <1>4, <1>6 DEF IInv

\* The vault is written while nobody migrates.
LEMMA WriteKeeps ==
    ASSUME Quiet, IInv, TypeOK', NEW q \in UserPath, NEW x, Write(q, x),
           q[2] \in {0, 1} \/ files[q] \notin Absent
    PROVE  IInv'
<1> USE PathFacts, LiveFacts
<1>1. /\ \A r \in Proc : ~Migrating(r)
      /\ files' = [files EXCEPT ![q] = x]
      /\ owed' = (owed \ {files[q]}) \cup ({x} \ Absent)
      /\ UNCHANGED <<pc, idx, migrations>>
    BY DEF Write
<1>2. files'[q] = x /\ \A s \in Path : s # q => files'[s] = files[s]
    BY <1>1 DEF IInv, TypeOK
<1>3. Kept'
    BY <1>1, <1>2 DEF IInv, Kept, Stored
<1>4. IndexComplete' /\ Agree' /\ SavedFirst'
    BY <1>1 DEF IndexComplete, Agree, SavedFirst, Migrating
<1>5. CopiesFresh'
    <2> SUFFICES ASSUME NEW s \in UserPath, s[2] > migrations + 1
                 PROVE  files'[s] = NoFile /\ \A r \in Proc : idx[r][s] = NoFile
        BY <1>1 DEF CopiesFresh
    <2>1. files[s] = NoFile /\ \A r \in Proc : idx[r][s] = NoFile
        BY DEF IInv, CopiesFresh
    <2>2. s # q
        BY <2>1, NamesAssumption DEF IInv, TypeOK
    <2> QED BY <1>2, <2>1, <2>2
<1> QED BY <1>3, <1>4, <1>5 DEF IInv

LEMMA StepIInv == Quiet /\ IInv /\ [Next]_vars => IInv'
<1> SUFFICES ASSUME Quiet, IInv, [Next]_vars PROVE IInv'
    OBVIOUS
<1>1. TypeOK'
    BY TypeStep DEF IInv
<1>2. CASE UNCHANGED vars
    BY <1>1, <1>2 DEF vars, IInv, Kept, Stored, IndexComplete, Settled, Agree,
                      SavedFirst, CopiesFresh, Migrating
<1>3. ASSUME NEW p \in Proc, OpenOutdated(p) PROVE IInv'
    BY <1>1, <1>3, OpenKeeps
<1>4. ASSUME NEW p \in Proc, SaveIndex(p) PROVE IInv'
    BY <1>1, <1>4, SaveIndexKeeps
<1>5. ASSUME NEW p \in Proc,
             OpenCurrent(p) \/ BeginBurying(p) \/ FinishBurying(p) \/ Leave(p)
      PROVE  IInv'
    BY <1>1, <1>5, LeaveKeeps
<1>6. ASSUME NEW p \in Proc, NEW q \in Path, SaveManifest(p, q) PROVE IInv'
    BY <1>1, <1>6, SaveKeeps
<1>7. ASSUME NEW p \in Proc, NEW q \in Path, SaveTombstone(p, q) PROVE IInv'
    BY <1>1, <1>7, BuryKeeps
<1>8. ASSUME NEW n \in Name, Put(n) \/ Deliver(n) PROVE IInv'
    <2>1. Moved(n)[2] = 1 /\ Root(n)[2] = 0 /\ Moved(n) \in UserPath /\ Root(n) \in UserPath
        BY PathFacts DEF Moved, Root
    <2> QED BY <1>1, <1>8, <2>1, WriteKeeps DEF Put, Deliver
<1>9. ASSUME NEW q \in UserPath, Remove(q) PROVE IInv'
    <2>1. files[q] \notin Absent
        BY <1>9 DEF Remove, LiveIn
    <2> QED BY <1>1, <1>9, <2>1, WriteKeeps DEF Remove
<1> QED BY <1>2, <1>3, <1>4, <1>5, <1>6, <1>7, <1>8, <1>9 DEF Next

\* When nobody else changes the vault during a migration, no process that opens
\* it, and no kill in the middle, loses a file (EnsureContentLayout).
THEOREM NoFileIsLost ==
    ASSUME Quiet
    PROVE  Spec => []Kept
<1>1. IInv /\ [Next]_vars => IInv'
    BY StepIInv
<1>2. IInv => Kept
    BY DEF IInv
<1> QED BY InitIInv, <1>1, <1>2, PTL DEF Spec

-----------------------------------------------------------------------------
(* An Open that has returned leaves nothing at the root.                   *)

\* What is still at the root is on the list of every migration that has seen
\* all deliveries.
RootsListed ==
    \A p \in current : Migrating(p) => LegacyIn(files) \subseteq toBury[p]

UInv == IInv /\ OpenMeansUpgraded /\ RootsListed

\* Whoever writes in content/ leaves the files at the root alone.
LEMMA LegacyFacts ==
    ASSUME TypeOK, TypeOK'
    PROVE  /\ LegacyIn(files) = {q \in Roots : files[q] \notin Absent}
           /\ LegacyIn(files)' = {q \in Roots : files'[q] \notin Absent}
BY PathFacts DEF TypeOK, LegacyIn, LiveIn

LEMMA StepUInv == Quiet /\ UInv /\ [Next]_vars => UInv'
<1> SUFFICES ASSUME Quiet, UInv, [Next]_vars PROVE UInv'
    OBVIOUS
<1> USE PathFacts, LiveFacts
<1>1. IInv'
    BY StepIInv DEF UInv
<1>2. /\ TypeOK /\ TypeOK'
      /\ LegacyIn(files) = {q \in Roots : files[q] \notin Absent}
      /\ LegacyIn(files)' = {q \in Roots : files'[q] \notin Absent}
    BY <1>1, LegacyFacts DEF UInv, IInv
<1>3. CASE UNCHANGED vars
    BY <1>1, <1>2, <1>3 DEF vars, UInv, OpenMeansUpgraded, RootsListed, Migrating
<1>4. ASSUME NEW p \in Proc, OpenCurrent(p) PROVE UInv'
    BY <1>1, <1>2, <1>4 DEF UInv, OpenMeansUpgraded, RootsListed, Migrating, OpenCurrent, TypeOK
<1>5. ASSUME NEW p \in Proc, OpenOutdated(p) PROVE UInv'
    BY <1>1, <1>2, <1>5
    DEF UInv, OpenMeansUpgraded, RootsListed, Migrating, OpenOutdated, TypeOK, Buried
<1>6. ASSUME NEW p \in Proc, BeginBurying(p) \/ FinishBurying(p) \/ Leave(p) PROVE UInv'
    <2>1. UNCHANGED files /\ current' \subseteq current
        BY <1>6 DEF BeginBurying, FinishBurying, Leave
    <2>2. \A r \in Proc : Migrating(r)' => Migrating(r) /\ toBury'[r] = toBury[r]
        BY <1>2, <1>6 DEF BeginBurying, FinishBurying, Leave, Forget, Migrating, TypeOK
    <2>3. \A r \in Proc : pc'[r] = "open" =>
                           pc[r] = "open" \/ (Migrating(r) /\ toBury[r] = {})
        BY <1>2, <1>6 DEF BeginBurying, FinishBurying, Leave, Migrating, TypeOK
    <2> QED BY <1>1, <1>2, <2>1, <2>2, <2>3 DEF UInv, OpenMeansUpgraded, RootsListed, TypeOK
<1>7. ASSUME NEW p \in Proc, NEW q \in Path, SaveManifest(p, q) PROVE UInv'
    <2>1. /\ Migrating(p) /\ q \in toSave[p] /\ files' = [files EXCEPT ![q] = idx[p][q]]
          /\ UNCHANGED <<pc, toBury, current>>
        BY <1>7 DEF SaveManifest, Migrating
    <2>2. q \notin Roots
        BY <2>1 DEF UInv, IInv, SavedFirst, IndexComplete
    <2>3. LegacyIn(files)' = LegacyIn(files)
        BY <1>2, <2>1, <2>2 DEF TypeOK
    <2> QED BY <1>1, <2>1, <2>3 DEF UInv, OpenMeansUpgraded, RootsListed, Migrating
<1>8. ASSUME NEW p \in Proc, NEW q \in Path, SaveTombstone(p, q) PROVE UInv'
    <2>1. LegacyIn(files)' = LegacyIn(files) \ {q}
        BY <1>2, <1>8 DEF SaveTombstone, TypeOK
    <2> QED BY <1>1, <1>2, <1>8, <2>1
            DEF UInv, OpenMeansUpgraded, RootsListed, Migrating, SaveTombstone, TypeOK
<1>9. ASSUME NEW p \in Proc, SaveIndex(p) PROVE UInv'
    <2>1. \A q \in Roots : files'[q] = NoFile
        BY <1>9 DEF SaveIndex, UInv, IInv, IndexComplete, Migrating
    <2>2. LegacyIn(files)' = {}
        BY <1>2, <2>1
    <2> QED BY <1>1, <2>2 DEF UInv, OpenMeansUpgraded, RootsListed
<1>10. ASSUME NEW n \in Name, Deliver(n) PROVE UInv'
    BY <1>1, <1>10 DEF Deliver, UInv, OpenMeansUpgraded, RootsListed
<1>11. ASSUME NEW q \in UserPath, NEW x, Write(q, x), UNCHANGED current, q \notin Roots
       PROVE  UInv'
    <2>1. LegacyIn(files)' = LegacyIn(files)
        BY <1>2, <1>11 DEF Write, TypeOK
    <2> QED BY <1>1, <1>11, <2>1 DEF Write, UInv, OpenMeansUpgraded, RootsListed, Migrating
<1>12. ASSUME NEW n \in Name, Put(n) PROVE UInv'
    BY <1>11, <1>12 DEF Put
<1>13. ASSUME NEW q \in UserPath, Remove(q) PROVE UInv'
    BY <1>11, <1>13 DEF Remove
<1> QED BY <1>3, <1>4, <1>5, <1>6, <1>7, <1>8, <1>9, <1>10, <1>12, <1>13 DEF Next

\* When nobody else changes the vault during a migration, a process whose Open
\* has returned shows no file outside content/ but those delivered since.
THEOREM OpenUpgrades ==
    ASSUME Quiet
    PROVE  Spec => []OpenMeansUpgraded
<1>1. Init => UInv
    BY InitIInv DEF Init, UInv, OpenMeansUpgraded, RootsListed
<1>2. UInv /\ [Next]_vars => UInv'
    BY StepUInv
<1>3. UInv => OpenMeansUpgraded
    BY DEF UInv
<1> QED BY <1>1, <1>2, <1>3, PTL DEF Spec
=============================================================================

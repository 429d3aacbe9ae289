-------------------------- MODULE VaultStore_proofs --------------------------
(***************************************************************************)
(* Proofs about VaultStore, for any number of processes, paths and chunks: *)
(* type correctness; and, when garbage collections and puts exclude each   *)
(* other, that no manifest ever dangles, that a garbage collection is      *)
(* complete, and that the vault implements the FileMap its users see.      *)
(***************************************************************************)
EXTENDS VaultStore, TLAPS

-----------------------------------------------------------------------------
(* Type correctness                                                        *)

\* Whatever phase a request starts with, it keeps the types.
LEMMA StartType ==
    ASSUME TypeOK,
           NEW p \in Proc,
           NEW phase \in {"storing", "saving", "reading", "sweeping"},
           NEW paths \in SUBSET Path,
           NEW wanted, \A q \in paths : wanted[q] \in File,
           NEW chunks \in SUBSET Chunk,
           Start(p, phase, wanted, paths, chunks)
    PROVE  TypeOK'
<1>1. objects' \subseteq Chunk /\ manifests' \in [Path -> File]
    BY DEF TypeOK, Start
<1>2. pc' \in [Proc -> {"idle", "storing", "saving", "reading", "sweeping"}]
    BY DEF TypeOK, Start
<1>3. seen' \in [Proc -> [Path -> File]]
    BY DEF TypeOK, Start
<1>4. job' \in [Proc -> [Path -> File]]
    <2>1. [q \in Path |-> IF q \in paths THEN wanted[q] ELSE Absent] \in [Path -> File]
        BY DEF File
    <2> QED BY <2>1 DEF TypeOK, Start
<1>5. pending' \in [Proc -> SUBSET Path] /\ todo' \in [Proc -> SUBSET Chunk]
    BY DEF TypeOK, Start
<1>6. \A r \in Proc : pc'[r] = "idle" => pending'[r] = {} /\ todo'[r] = {}
    BY DEF TypeOK, Start
<1> QED BY <1>1, <1>2, <1>3, <1>4, <1>5, <1>6 DEF TypeOK

\* The chunks of the files of an index are chunks.
LEMMA ContentChunks ==
    ASSUME NEW m \in [Path -> File], NEW paths \in SUBSET Path
    PROVE  UNION {m[q] : q \in {q \in paths : m[q] # Absent}} \in SUBSET Chunk
BY ConstantsAssumption DEF File

\* A step of Next is one of the operations of one process.
LEMMA TypeStep == TypeOK /\ [Next]_vars => TypeOK'
<1> SUFFICES ASSUME TypeOK, [Next]_vars PROVE TypeOK'
    OBVIOUS
<1>1. CASE UNCHANGED vars
    BY <1>1 DEF TypeOK, vars
<1>2. ASSUME NEW p \in Proc, NEW paths \in SUBSET Path,
             NEW wanted \in [paths -> Contents], StartPut(p, paths, wanted)
      PROVE  TypeOK'
    <2>1. \A q \in paths : wanted[q] \in File
        BY DEF File
    <2>2. UNION {wanted[q] : q \in paths} \in SUBSET Chunk
        BY ConstantsAssumption
    <2> QED BY <1>2, <2>1, <2>2, StartType DEF StartPut
<1>3. ASSUME NEW p \in Proc, NEW paths \in SUBSET Path, StartRemove(p, paths)
      PROVE  TypeOK'
    <2> DEFINE targets == {q \in paths : manifests[q] # Absent}
               none    == [q \in Path |-> Absent]
    <2>1. targets \in SUBSET Path /\ {} \in SUBSET Chunk
        OBVIOUS
    <2>2. \A q \in targets : none[q] \in File
        BY DEF File
    <2>3. Start(p, "saving", none, targets, {})
        BY <1>3 DEF StartRemove
    <2> HIDE DEF targets, none
    <2> QED BY <2>1, <2>2, <2>3, StartType
<1>4. ASSUME NEW p \in Proc, NEW paths \in SUBSET Path, StartRead(p, paths)
      PROVE  TypeOK'
    <2> DEFINE chunks == UNION {manifests[q] : q \in {q \in paths : manifests[q] # Absent}}
    <2>1. chunks \in SUBSET Chunk
        BY ContentChunks DEF TypeOK
    <2>2. Start(p, "reading", manifests, {}, chunks)
        BY <1>4 DEF StartRead
    <2> HIDE DEF chunks
    <2> QED BY <2>1, <2>2, StartType
<1>5. ASSUME NEW p \in Proc, StartGc(p) PROVE TypeOK'
    <2> DEFINE chunks == objects \ Refs(manifests)
    <2>1. chunks \in SUBSET Chunk
        BY DEF TypeOK
    <2>2. Start(p, "sweeping", manifests, {}, chunks)
        BY <1>5 DEF StartGc
    <2> HIDE DEF chunks
    <2> QED BY <2>1, <2>2, StartType
<1>6. ASSUME NEW p \in Proc, NEW c \in Chunk,
             StoreChunk(p, c) \/ LoadChunk(p, c) \/ RemoveChunk(p, c)
      PROVE  TypeOK'
    BY <1>6 DEF TypeOK, StoreChunk, LoadChunk, RemoveChunk
<1>7. ASSUME NEW p \in Proc, NEW q \in Path, SaveManifest(p, q) PROVE TypeOK'
    BY <1>7 DEF TypeOK, SaveManifest
<1>8. ASSUME NEW p \in Proc, BeginSaving(p) PROVE TypeOK'
    BY <1>8 DEF TypeOK, BeginSaving
<1>9. ASSUME NEW p \in Proc, Finish(p) \/ Fail(p) PROVE TypeOK'
    <2>1. Reset(p)
        BY <1>9 DEF Finish, Fail
    <2>2. [q \in Path |-> Absent] \in [Path -> File]
        BY DEF File
    <2> QED BY <2>1, <2>2 DEF TypeOK, Reset
<1> QED BY <1>1, <1>2, <1>3, <1>4, <1>5, <1>6, <1>7, <1>8, <1>9 DEF Next

\* Every variable keeps its type, and a process that is idle has nothing left
\* to save, to store or to remove (PutPath, RemovePath, GarbageCollect).
THEOREM TypeCorrect == Spec => []TypeOK
<1>1. Init => TypeOK
    <2>1. [q \in Path |-> Absent] \in [Path -> File]
        BY DEF File
    <2> QED BY <2>1 DEF Init, TypeOK
<1> QED BY <1>1, TypeStep, PTL DEF Spec

-----------------------------------------------------------------------------
(* No manifest dangles.  NoDanglingManifest alone is not inductive: it     *)
(* must be known that a put that is about to save has its chunks stored    *)
(* (PutsCovered), that no chunk a manifest refers to is unknown to a       *)
(* running garbage collection (SweepsCurrent), and that the chunks of a    *)
(* put are not swept before its manifest refers to them (SweepsAlone).     *)

PutsCovered ==
    \A p \in Proc :
        /\ pc[p] \in {"storing", "saving"} =>
              \A q \in pending[p] :
                  job[p][q] # Absent => job[p][q] \subseteq objects \cup todo[p]
        /\ pc[p] = "saving" => todo[p] = {}

SweepsCurrent ==
    \A p \in Proc : Sweeping(p) =>
        /\ Refs(manifests) \subseteq Refs(seen[p])
        /\ objects \ Refs(seen[p]) \subseteq todo[p]

SweepsAlone == \A p, r \in Proc : Sweeping(p) => ~Putting(r)

IInv == TypeOK /\ NoDanglingManifest /\ PutsCovered /\ SweepsCurrent /\ SweepsAlone

LEMMA InitIInv == Init => IInv
<1> SUFFICES ASSUME Init PROVE IInv
    OBVIOUS
<1>1. TypeOK
    <2>1. [q \in Path |-> Absent] \in [Path -> File]
        BY DEF File
    <2> QED BY <2>1 DEF Init, TypeOK
<1>2. NoDanglingManifest
    BY DEF Init, NoDanglingManifest, Refs
<1>3. PutsCovered /\ SweepsCurrent /\ SweepsAlone
    BY DEF Init, PutsCovered, SweepsCurrent, SweepsAlone, Sweeping, Putting
<1> QED BY <1>1, <1>2, <1>3 DEF IInv

\* A reader, or a request that saves tombstones only, starts.
LEMMA StartHarmless ==
    ASSUME IInv, TypeOK',
           NEW p \in Proc, NEW phase \in {"saving", "reading"},
           NEW wanted, NEW paths \in SUBSET Path, NEW chunks,
           \A q \in paths : wanted[q] = Absent,
           phase = "saving" => chunks = {},
           Start(p, phase, wanted, paths, chunks)
    PROVE  IInv'
<1>1. NoDanglingManifest'
    BY DEF IInv, Start, NoDanglingManifest, Refs
<1>2. \A r \in Proc \ {p} : /\ pc'[r] = pc[r] /\ seen'[r] = seen[r]
                            /\ job'[r] = job[r] /\ pending'[r] = pending[r]
                            /\ todo'[r] = todo[r]
    BY DEF IInv, TypeOK, Start
<1>3. /\ pc'[p] = phase /\ pending'[p] = paths /\ todo'[p] = chunks
      /\ \A q \in paths : job'[p][q] = Absent
    BY DEF IInv, TypeOK, Start
<1>4. objects' = objects /\ manifests' = manifests
    BY DEF Start
<1>5. PutsCovered'
    BY <1>2, <1>3, <1>4 DEF IInv, PutsCovered
<1>6. SweepsCurrent'
    BY <1>2, <1>3, <1>4 DEF IInv, SweepsCurrent, Sweeping, Refs
<1>7. SweepsAlone'
    BY <1>2, <1>3 DEF IInv, SweepsAlone, Sweeping, Putting
<1> QED BY <1>1, <1>5, <1>6, <1>7 DEF IInv

LEMMA StepIInv ==
    ASSUME GcAlone
    PROVE  IInv /\ [Next]_vars => IInv'
<1> SUFFICES ASSUME IInv, [Next]_vars PROVE IInv'
    OBVIOUS
<1>t. TypeOK'
    BY TypeStep DEF IInv
<1>1. CASE UNCHANGED vars
    BY <1>1 DEF IInv, TypeOK, NoDanglingManifest, PutsCovered, SweepsCurrent,
                SweepsAlone, Sweeping, Putting, Refs, vars
<1>2. ASSUME NEW p \in Proc, NEW paths \in SUBSET Path,
             NEW wanted \in [paths -> Contents], StartPut(p, paths, wanted)
      PROVE  IInv'
    <2>1. /\ objects' = objects /\ manifests' = manifests
          /\ pc' = [pc EXCEPT ![p] = "storing"]
          /\ pending' = [pending EXCEPT ![p] = paths]
          /\ todo' = [todo EXCEPT ![p] = UNION {wanted[q] : q \in paths}]
          /\ \A r \in Proc : ~Sweeping(r)
        BY <1>2 DEF StartPut, Start
    <2>2. /\ \A q \in paths : job'[p][q] = wanted[q]
          /\ \A r \in Proc \ {p} : job'[r] = job[r]
        BY <1>2 DEF StartPut, Start, IInv, TypeOK
    <2>3. NoDanglingManifest'
        BY <2>1 DEF IInv, NoDanglingManifest, Refs
    <2>4. PutsCovered'
        BY <2>1, <2>2 DEF IInv, TypeOK, PutsCovered
    <2>5. \A r \in Proc : ~Sweeping(r)'
        BY <2>1 DEF IInv, TypeOK, Sweeping
    <2> QED BY <1>t, <2>3, <2>4, <2>5 DEF IInv, SweepsCurrent, SweepsAlone
<1>3. ASSUME NEW p \in Proc, NEW paths \in SUBSET Path, StartRemove(p, paths)
      PROVE  IInv'
    <2> DEFINE targets == {q \in paths : manifests[q] # Absent}
               none    == [q \in Path |-> Absent]
    <2>1. targets \in SUBSET Path /\ \A q \in targets : none[q] = Absent
        OBVIOUS
    <2>2. Start(p, "saving", none, targets, {})
        BY <1>3 DEF StartRemove
    <2> HIDE DEF targets, none
    <2> QED BY <1>t, <2>1, <2>2, StartHarmless
<1>4. ASSUME NEW p \in Proc, NEW paths \in SUBSET Path, StartRead(p, paths)
      PROVE  IInv'
    <2> DEFINE chunks == UNION {manifests[q] : q \in {q \in paths : manifests[q] # Absent}}
    <2>1. Start(p, "reading", manifests, {}, chunks)
        BY <1>4 DEF StartRead
    <2> HIDE DEF chunks
    <2> QED BY <1>t, <2>1, StartHarmless
<1>5. ASSUME NEW p \in Proc, StartGc(p) PROVE IInv'
    <2>1. /\ objects' = objects /\ manifests' = manifests
          /\ pc' = [pc EXCEPT ![p] = "sweeping"]
          /\ seen' = [seen EXCEPT ![p] = manifests]
          /\ pending' = [pending EXCEPT ![p] = {}]
          /\ todo' = [todo EXCEPT ![p] = objects \ Refs(manifests)]
          /\ \A r \in Proc : ~Putting(r)
        BY <1>5 DEF StartGc, Start
    <2>2. \A r \in Proc \ {p} : job'[r] = job[r]
        BY <1>5 DEF StartGc, Start, IInv, TypeOK
    <2>3. NoDanglingManifest'
        BY <2>1 DEF IInv, NoDanglingManifest, Refs
    <2>4. PutsCovered'
        BY <2>1, <2>2 DEF IInv, TypeOK, PutsCovered
    <2>5. SweepsCurrent'
        <3> SUFFICES ASSUME NEW r \in Proc, Sweeping(r)'
                     PROVE  /\ Refs(manifests') \subseteq Refs(seen'[r])
                            /\ objects' \ Refs(seen'[r]) \subseteq todo'[r]
            BY DEF SweepsCurrent, Refs
        <3>1. CASE r = p
            BY <2>1, <3>1 DEF IInv, TypeOK
        <3>2. CASE r # p
            BY <2>1, <3>2 DEF IInv, TypeOK, SweepsCurrent, Sweeping
        <3> QED BY <3>1, <3>2
    <2>6. \A r \in Proc : ~Putting(r)'
        BY <2>1, <2>2 DEF IInv, TypeOK, Putting
    <2> QED BY <1>t, <2>3, <2>4, <2>5, <2>6 DEF IInv, SweepsAlone
<1>6. ASSUME NEW p \in Proc, NEW c \in Chunk, StoreChunk(p, c) PROVE IInv'
    <2>1. \A r \in Proc : ~Sweeping(r)
        BY <1>6 DEF IInv, SweepsAlone, StoreChunk, Putting
    <2>2. \A r \in Proc : ~Sweeping(r)'
        BY <1>6, <2>1 DEF StoreChunk, Sweeping
    <2>3. NoDanglingManifest'
        BY <1>6 DEF IInv, StoreChunk, NoDanglingManifest, Refs
    <2>4. PutsCovered'
        BY <1>6 DEF IInv, TypeOK, StoreChunk, PutsCovered
    <2> QED BY <1>t, <2>2, <2>3, <2>4 DEF IInv, SweepsCurrent, SweepsAlone
<1>7. ASSUME NEW p \in Proc, NEW c \in Chunk, LoadChunk(p, c) PROVE IInv'
    <2>1. NoDanglingManifest'
        BY <1>7 DEF IInv, LoadChunk, NoDanglingManifest, Refs
    <2>2. PutsCovered'
        BY <1>7 DEF IInv, TypeOK, LoadChunk, PutsCovered
    <2>3. SweepsCurrent'
        BY <1>7 DEF IInv, TypeOK, LoadChunk, SweepsCurrent, Sweeping, Refs
    <2>4. SweepsAlone'
        BY <1>7 DEF IInv, LoadChunk, SweepsAlone, Sweeping, Putting
    <2> QED BY <1>t, <2>1, <2>2, <2>3, <2>4 DEF IInv
<1>8. ASSUME NEW p \in Proc, NEW c \in Chunk, RemoveChunk(p, c) PROVE IInv'
    <2>1. Sweeping(p) /\ \A r \in Proc : ~Putting(r)
        BY <1>8 DEF IInv, SweepsAlone, RemoveChunk, Sweeping
    <2>2. c \notin Refs(manifests)
        BY <1>8, <2>1 DEF IInv, SweepsCurrent, RemoveChunk
    <2>3. NoDanglingManifest'
        BY <1>8, <2>2 DEF IInv, RemoveChunk, NoDanglingManifest, Refs
    <2>4. PutsCovered'
        BY <1>8, <2>1 DEF IInv, TypeOK, RemoveChunk, PutsCovered, Putting
    <2>5. SweepsCurrent'
        <3> SUFFICES ASSUME NEW r \in Proc, Sweeping(r)
                     PROVE  /\ Refs(manifests) \subseteq Refs(seen[r])
                            /\ objects' \ Refs(seen[r]) \subseteq todo'[r]
            BY <1>8 DEF SweepsCurrent, RemoveChunk, Sweeping, Refs
        <3> QED BY <1>8 DEF IInv, TypeOK, SweepsCurrent, RemoveChunk
    <2>6. SweepsAlone'
        BY <1>8 DEF IInv, RemoveChunk, SweepsAlone, Sweeping, Putting
    <2> QED BY <1>t, <2>3, <2>4, <2>5, <2>6 DEF IInv
<1>9. ASSUME NEW p \in Proc, NEW q \in Path, SaveManifest(p, q) PROVE IInv'
    <2>1. /\ manifests' = [manifests EXCEPT ![q] = job[p][q]]
          /\ pending' = [pending EXCEPT ![p] = @ \ {q}]
          /\ UNCHANGED <<objects, pc, seen, job, todo>>
          /\ pc[p] = "saving" /\ q \in pending[p]
        BY <1>9 DEF SaveManifest
    <2>2. Refs(manifests') \subseteq Refs(manifests) \cup
                                     (IF job[p][q] = Absent THEN {} ELSE job[p][q])
        BY <2>1 DEF IInv, TypeOK, Refs
    <2>3. NoDanglingManifest'
        <3>1. job[p][q] # Absent => job[p][q] \subseteq objects
            BY <2>1 DEF IInv, PutsCovered
        <3>2. Refs(manifests') \subseteq objects
            BY <2>2, <3>1 DEF IInv, NoDanglingManifest
        <3> QED BY <2>1, <3>2 DEF NoDanglingManifest, Refs
    <2>4. PutsCovered'
        BY <2>1 DEF IInv, TypeOK, PutsCovered
    <2>5. SweepsCurrent'
        <3> SUFFICES ASSUME NEW r \in Proc, Sweeping(r)
                     PROVE  /\ Refs(manifests') \subseteq Refs(seen[r])
                            /\ objects \ Refs(seen[r]) \subseteq todo[r]
            BY <2>1 DEF SweepsCurrent, Sweeping, Refs
        <3>1. job[p][q] = Absent
            BY <2>1 DEF IInv, SweepsAlone, Putting
        <3> QED BY <2>2, <3>1 DEF IInv, SweepsCurrent
    <2>6. SweepsAlone'
        BY <2>1 DEF IInv, TypeOK, SweepsAlone, Sweeping, Putting
    <2> QED BY <1>t, <2>3, <2>4, <2>5, <2>6 DEF IInv
<1>10. ASSUME NEW p \in Proc, BeginSaving(p) PROVE IInv'
    <2>1. NoDanglingManifest'
        BY <1>10 DEF IInv, BeginSaving, NoDanglingManifest, Refs
    <2>2. PutsCovered'
        BY <1>10 DEF IInv, TypeOK, BeginSaving, PutsCovered
    <2>3. SweepsCurrent'
        BY <1>10 DEF IInv, TypeOK, BeginSaving, SweepsCurrent, Sweeping, Refs
    <2>4. SweepsAlone'
        BY <1>10 DEF IInv, TypeOK, BeginSaving, SweepsAlone, Sweeping, Putting
    <2> QED BY <1>t, <2>1, <2>2, <2>3, <2>4 DEF IInv
<1>11. ASSUME NEW p \in Proc, Finish(p) \/ Fail(p) PROVE IInv'
    <2>1. Reset(p)
        BY <1>11 DEF Finish, Fail
    <2>2. NoDanglingManifest'
        BY <2>1 DEF IInv, Reset, NoDanglingManifest, Refs
    <2>3. PutsCovered'
        BY <2>1 DEF IInv, TypeOK, Reset, PutsCovered
    <2>4. SweepsCurrent'
        BY <2>1 DEF IInv, TypeOK, Reset, SweepsCurrent, Sweeping, Refs
    <2>5. SweepsAlone'
        BY <2>1 DEF IInv, TypeOK, Reset, SweepsAlone, Sweeping, Putting
    <2> QED BY <1>t, <2>2, <2>3, <2>4, <2>5 DEF IInv
<1> QED BY <1>1, <1>2, <1>3, <1>4, <1>5, <1>6, <1>7, <1>8, <1>9, <1>10, <1>11 DEF Next

\* Every chunk that a live manifest refers to is in the object store, as long
\* as no put is between two of its steps while a garbage collection runs.
THEOREM NoManifestDangles ==
    ASSUME GcAlone
    PROVE  Spec => []NoDanglingManifest
<1>1. IInv /\ [Next]_vars => IInv'
    BY StepIInv
<1>2. IInv => NoDanglingManifest
    BY DEF IInv
<1> QED BY InitIInv, <1>1, <1>2, PTL DEF Spec

\* A garbage collection that ends without an error, and whose index is still
\* the one on disk, has removed all garbage and nothing else.
THEOREM GarbageCollectionCompletes ==
    ASSUME GcAlone
    PROVE  Spec => GcComplete
<1>1. IInv /\ [Next]_vars => IInv'
    BY StepIInv
<1>2. ASSUME IInv, NEW p \in Proc, pc[p] = "sweeping", Finish(p), seen[p] = manifests
      PROVE  objects = Refs(manifests)
    <2>1. objects \ Refs(manifests) \subseteq todo[p]
        BY <1>2 DEF IInv, SweepsCurrent, Sweeping
    <2>2. todo[p] = {}
        BY <1>2 DEF Finish
    <2> QED BY <1>2, <2>1, <2>2 DEF IInv, NoDanglingManifest
<1>3. IInv => [\A p \in Proc : /\ pc[p] = "sweeping" /\ Finish(p)
                               /\ seen[p] = manifests
                               => objects = Refs(manifests)]_vars
    BY <1>2
<1> QED BY InitIInv, <1>1, <1>3, PTL DEF Spec, GcComplete

-----------------------------------------------------------------------------
(* The vault implements FileMap.                                           *)

\* With no manifest dangling, what a user reads is the whole file.
LEMMA ReadableWhole ==
    ASSUME TypeOK, NoDanglingManifest, NEW q \in Path
    PROVE  Readable(q) = manifests[q]
BY ConstantsAssumption DEF TypeOK, NoDanglingManifest, Refs, Readable, File

\* What requests ask for is a file or its removal.
LEMMA AskedType ==
    ASSUME TypeOK, NEW q \in Path
    PROVE  Asked(q) \in SUBSET (Contents \cup {Absent})
BY DEF TypeOK, Asked, File

\* A step that changes no manifest is a Request of FileMap.
LEMMA SameManifestsRequest ==
    ASSUME TypeOK, TypeOK', NoDanglingManifest, NoDanglingManifest',
           manifests' = manifests
    PROVE  Files!Request
<1>1. [q \in Path |-> Readable(q)]' = [q \in Path |-> Readable(q)]
    <2>1. \A q \in Path : Readable(q)' = manifests'[q]
        BY ConstantsAssumption DEF TypeOK, NoDanglingManifest, Refs, Readable, File
    <2>2. \A q \in Path : Readable(q) = manifests[q]
        BY ReadableWhole
    <2> QED BY <2>1, <2>2
<1>2. [q \in Path |-> Asked(q)]' \in [Path -> SUBSET (Contents \cup {Absent})]
    <2>1. \A q \in Path : Asked(q)' \in SUBSET (Contents \cup {Absent})
        BY DEF TypeOK, Asked, File
    <2> QED BY <2>1
<1> QED BY <1>1, <1>2 DEF Files!Request

\* Saving one manifest is a Write of FileMap.
LEMMA SaveIsWrite ==
    ASSUME IInv, IInv', NEW p \in Proc, NEW q \in Path, SaveManifest(p, q)
    PROVE  Files!Write(q)
<1>1. \A r \in Path : Readable(r) = manifests[r]
    BY ReadableWhole DEF IInv
<1>2. \A r \in Path : Readable(r)' = manifests'[r]
    BY ConstantsAssumption DEF IInv, TypeOK, NoDanglingManifest, Refs, Readable, File
<1>3. /\ manifests' = [manifests EXCEPT ![q] = job[p][q]]
      /\ pending' = [pending EXCEPT ![p] = @ \ {q}]
      /\ job' = job /\ q \in pending[p]
    BY DEF SaveManifest
<1>4. job[p][q] \in Asked(q)
    BY <1>3 DEF Asked
<1>5. [r \in Path |-> Readable(r)]' =
          [[r \in Path |-> Readable(r)] EXCEPT ![q] = job[p][q]]
    BY <1>1, <1>2, <1>3 DEF IInv, TypeOK
<1>6. Asked(q)' \in SUBSET Asked(q)
    BY <1>3 DEF IInv, TypeOK, Asked
<1>7. \A r \in Path \ {q} : Asked(r)' = Asked(r)
    BY <1>3 DEF IInv, TypeOK, Asked
<1>8. [r \in Path |-> Asked(r)]' =
          [[r \in Path |-> Asked(r)] EXCEPT ![q] = Asked(q)']
    BY <1>7
<1> QED BY <1>4, <1>5, <1>6, <1>8 DEF Files!Write

LEMMA StepFileMap ==
    ASSUME IInv, IInv', [Next]_vars
    PROVE  [Files!Next]_Files!vars
<1>1. CASE UNCHANGED vars
    BY <1>1 DEF vars, Files!vars, Readable, Asked
<1>2. CASE \E p \in Proc, q \in Path : SaveManifest(p, q)
    BY <1>2, SaveIsWrite DEF Files!Next
<1>3. CASE manifests' = manifests
    BY <1>3, SameManifestsRequest DEF IInv, Files!Next
<1>4. \/ UNCHANGED vars
      \/ manifests' = manifests
      \/ \E p \in Proc, q \in Path : SaveManifest(p, q)
    BY DEF Next, StartPut, StartRemove, StartRead, StartGc, Start, StoreChunk,
           LoadChunk, RemoveChunk, BeginSaving, Finish, Fail, Reset
<1> QED BY <1>1, <1>2, <1>3, <1>4

\* What users read changes path by path, from one whole content to another
\* that some request asked for (PutPath, RemovePath, GarbageCollect, kills).
THEOREM VaultImplementsFileMap ==
    ASSUME GcAlone
    PROVE  Spec => ImplementsFileMap
<1>1. Init => Files!Init
    BY DEF Init, Files!Init, Readable, Asked
<1>2. IInv /\ [Next]_vars => IInv'
    BY StepIInv
<1>3. IInv /\ IInv' /\ [Next]_vars => [Files!Next]_Files!vars
    BY StepFileMap
<1> QED BY InitIInv, <1>1, <1>2, <1>3, PTL DEF Spec, ImplementsFileMap, Files!Spec
=============================================================================

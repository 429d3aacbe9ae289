--------------------------- MODULE LocalDav_proofs ---------------------------
(***************************************************************************)
(* Proofs about LocalDav, for any number of requests, names and paths: the *)
(* size in a record is that of its data, and no MOVE loses a file, if      *)
(* neither of source and target contains the other.                        *)
(***************************************************************************)
EXTENDS LocalDav, SequenceTheorems, TLAPS

\* A path and all that may lie below it.
Tree(s) == {q \in Path : q = s \/ Inside(q, s)}

-----------------------------------------------------------------------------
(* Paths                                                                   *)

LEMMA PathType ==
    ASSUME NEW q \in Path
    PROVE  q \in Seq(Name \cup {Marker}) /\ Len(q) \in Nat \ {0} /\ q # <<>>
BY PathAssumption, EmptySeq, LenProperties

LEMMA UserPathType == UserPath \subseteq Path /\ \A q \in UserPath : q[Len(q)] # Marker
BY PathAssumption DEF UserPath, Last

\* What lies in the tree of a path goes on from it.
LEMMA TreeElement ==
    ASSUME NEW s \in Path, NEW q \in Tree(s)
    PROVE  /\ q \in Path /\ Len(s) <= Len(q) /\ \A i \in 1..Len(s) : q[i] = s[i]
           /\ q # s => Len(s) < Len(q)
<1>1. /\ q \in Seq(Name \cup {Marker}) /\ s \in Seq(Name \cup {Marker})
      /\ Len(s) \in Nat /\ Len(q) \in Nat /\ q \in Path
    BY PathType DEF Tree
<1>2. CASE q = s
    BY <1>1, <1>2
<1>3. CASE q # s
    <2>1. Len(s) <= Len(q) /\ SubSeq(s, 1, Len(s)) = SubSeq(q, 1, Len(s))
        BY <1>3 DEF Tree, Inside, IsStrictPrefix, IsPrefix
    <2>2. \A i \in 1..Len(s) : q[i] = s[i]
        <3> SUFFICES ASSUME NEW i \in 1..Len(s) PROVE q[i] = s[i]
            OBVIOUS
        <3>1. SubSeq(s, 1, Len(s))[i] = s[i] /\ SubSeq(q, 1, Len(s))[i] = q[i]
            BY <1>1, <2>1
        <3> QED BY <2>1, <3>1
    <2>3. Len(s) # Len(q)
        BY <1>1, <1>3, <2>1, <2>2, SeqEqual
    <2> QED BY <1>1, <2>1, <2>2, <2>3
<1> QED BY <1>2, <1>3

LEMMA TreeByPrefix ==
    ASSUME NEW s \in Path, NEW q \in Path,
           Len(s) <= Len(q), \A i \in 1..Len(s) : q[i] = s[i]
    PROVE  q \in Tree(s)
<1>1. /\ q \in Seq(Name \cup {Marker}) /\ s \in Seq(Name \cup {Marker})
      /\ Len(s) \in Nat /\ Len(q) \in Nat
    BY PathType
<1>2. /\ SubSeq(s, 1, Len(s)) \in Seq(Name \cup {Marker}) /\ Len(SubSeq(s, 1, Len(s))) = Len(s)
      /\ SubSeq(q, 1, Len(s)) \in Seq(Name \cup {Marker}) /\ Len(SubSeq(q, 1, Len(s))) = Len(s)
    BY <1>1
<1>3. \A i \in 1..Len(s) : SubSeq(s, 1, Len(s))[i] = SubSeq(q, 1, Len(s))[i]
    BY <1>1
<1>4. SubSeq(s, 1, Len(s)) = SubSeq(q, 1, Len(s))
    BY <1>1, <1>2, <1>3, SeqEqual
<1> QED BY <1>4 DEF Tree, Inside, IsStrictPrefix, IsPrefix

\* Two paths of which neither contains the other have nothing below them in common.
Separate(s, d) == s # d /\ ~Inside(s, d) /\ ~Inside(d, s)

LEMMA SeparateTrees ==
    ASSUME NEW s \in Path, NEW d \in Path, Separate(s, d)
    PROVE  Tree(s) \cap Tree(d) = {}
<1> SUFFICES ASSUME NEW q \in Tree(s), q \in Tree(d) PROVE FALSE
    OBVIOUS
<1>1. Len(s) \in Nat /\ Len(d) \in Nat
    BY PathType
<1>2. /\ \A i \in 1..Len(s) : q[i] = s[i]
      /\ \A i \in 1..Len(d) : q[i] = d[i]
    BY TreeElement
<1>3. CASE Len(s) <= Len(d)
    <2>1. \A i \in 1..Len(s) : d[i] = s[i]
        BY <1>1, <1>2, <1>3
    <2>2. d \in Tree(s)
        BY <1>3, <2>1, TreeByPrefix
    <2> QED BY <2>2 DEF Tree, Separate
<1>4. CASE Len(d) <= Len(s)
    <2>1. \A i \in 1..Len(d) : d[i] = s[i]
        BY <1>1, <1>2, <1>4
    <2>2. s \in Tree(d)
        BY <1>4, <2>1, TreeByPrefix
    <2> QED BY <2>2 DEF Tree, Separate
<1> QED BY <1>1, <1>3, <1>4

\* The copy of a path, element by element.
LEMMA RebaseShape ==
    ASSUME NEW s \in Path, NEW d \in Path, NEW q \in Tree(s)
    PROVE  LET t == Rebase(q, s, d) IN
           /\ t \in Seq(Name \cup {Marker}) /\ Len(t) = Len(d) + (Len(q) - Len(s))
           /\ \A i \in 1..Len(d) : t[i] = d[i]
           /\ \A i \in 1..(Len(q) - Len(s)) : t[Len(d) + i] = q[Len(s) + i]
<1> DEFINE r == SubSeq(q, Len(s) + 1, Len(q))
<1>1. /\ q \in Seq(Name \cup {Marker}) /\ s \in Seq(Name \cup {Marker})
      /\ d \in Seq(Name \cup {Marker})
      /\ Len(s) \in Nat /\ Len(q) \in Nat /\ Len(d) \in Nat /\ Len(s) <= Len(q)
    BY PathType, TreeElement
<1>2. /\ r \in Seq(Name \cup {Marker}) /\ Len(r) = Len(q) - Len(s)
      /\ \A i \in 1..(Len(q) - Len(s)) : r[i] = q[Len(s) + i]
    <2>1. \A i \in (Len(s) + 1)..Len(q) : q[i] \in Name \cup {Marker}
        BY <1>1, ElementOfSeq
    <2>2. /\ r \in Seq(Name \cup {Marker})
          /\ Len(r) = IF Len(s) + 1 <= Len(q) THEN Len(q) - (Len(s) + 1) + 1 ELSE 0
          /\ \A i \in 1..(Len(q) - (Len(s) + 1) + 1) : r[i] = q[(Len(s) + 1) + i - 1]
        BY <1>1, <2>1, SubSeqProperties
    <2> QED BY <1>1, <2>2
<1> HIDE DEF r
<1>3. /\ d \o r \in Seq(Name \cup {Marker}) /\ Len(d \o r) = Len(d) + Len(r)
      /\ \A i \in 1..(Len(d) + Len(r)) :
            (d \o r)[i] = IF i <= Len(d) THEN d[i] ELSE r[i - Len(d)]
    BY <1>1, <1>2, ConcatProperties
<1>4. Rebase(q, s, d) = d \o r
    BY DEF Rebase, r
<1>5. \A i \in 1..Len(d) : (d \o r)[i] = d[i]
    BY <1>1, <1>2, <1>3
<1>6. \A i \in 1..(Len(q) - Len(s)) : (d \o r)[Len(d) + i] = q[Len(s) + i]
    BY <1>1, <1>2, <1>3
<1> QED BY <1>2, <1>3, <1>4, <1>5, <1>6

\* A copy lies in the tree of the target, is a file where the original is one, and
\* is a copy of nothing else.
LEMMA RebaseFacts ==
    ASSUME NEW s \in UserPath, NEW d \in UserPath, NEW q \in Tree(s), Rebase(q, s, d) \in Path
    PROVE  /\ Rebase(q, s, d) \in Tree(d)
           /\ Rebase(q, s, d) \in UserPath <=> q \in UserPath
           /\ s = d => Rebase(q, s, d) = q
           /\ \A p \in Tree(s) : Rebase(p, s, d) = Rebase(q, s, d) => p = q
<1> DEFINE t == Rebase(q, s, d)
<1>0. s \in Path /\ d \in Path /\ q \in Path
    BY UserPathType DEF Tree
<1>1. /\ q \in Seq(Name \cup {Marker}) /\ t \in Seq(Name \cup {Marker})
      /\ Len(s) \in Nat /\ Len(q) \in Nat /\ Len(d) \in Nat /\ Len(t) \in Nat \ {0}
      /\ Len(s) # 0 /\ Len(d) # 0
    BY <1>0, PathType
<1>2. /\ Len(t) = Len(d) + (Len(q) - Len(s))
      /\ \A i \in 1..Len(d) : t[i] = d[i]
      /\ \A i \in 1..(Len(q) - Len(s)) : t[Len(d) + i] = q[Len(s) + i]
    BY <1>0, RebaseShape
<1>3. Len(s) <= Len(q) /\ \A i \in 1..Len(s) : q[i] = s[i]
    BY <1>0, TreeElement
<1>4. t \in Tree(d)
    BY <1>0, <1>1, <1>2, <1>3, TreeByPrefix
<1>5. t \in UserPath <=> q \in UserPath
    <2>1. CASE q = s
        <3>1. Len(t) = Len(d) /\ t[Len(t)] = d[Len(d)]
            BY <1>1, <1>2, <2>1
        <3> QED BY <2>1, <3>1, UserPathType DEF UserPath, Last
    <2>2. CASE q # s
        <3>1. Len(q) - Len(s) \in 1..(Len(q) - Len(s))
            BY <1>0, <1>1, <2>2, TreeElement
        <3>2. t[Len(t)] = q[Len(q)]
            <4>1. Len(d) + (Len(q) - Len(s)) = Len(t) /\ Len(s) + (Len(q) - Len(s)) = Len(q)
                BY <1>1, <1>2
            <4> QED BY <1>2, <3>1, <4>1
        <3> QED BY <1>0, <3>2 DEF UserPath, Last
    <2> QED BY <2>1, <2>2
<1>6. ASSUME s = d PROVE t = q
    <2>1. Len(t) = Len(q)
        BY <1>1, <1>2, <1>6
    <2>2. ASSUME NEW i \in 1..Len(q) PROVE t[i] = q[i]
        <3>1. CASE i <= Len(s)
            BY <1>1, <1>2, <1>3, <1>6, <3>1
        <3>2. CASE ~(i <= Len(s))
            <4>1. i - Len(s) \in 1..(Len(q) - Len(s)) /\ Len(s) + (i - Len(s)) = i
                BY <1>1, <3>2
            <4> QED BY <1>2, <1>6, <4>1
        <3> QED BY <3>1, <3>2
    <2> QED BY <1>1, <2>1, <2>2, SeqEqual
<1>7. ASSUME NEW p \in Tree(s), Rebase(p, s, d) = t PROVE p = q
    <2>1. /\ p \in Path /\ p \in Seq(Name \cup {Marker}) /\ Len(p) \in Nat
          /\ Len(s) <= Len(p) /\ \A i \in 1..Len(s) : p[i] = s[i]
        BY <1>0, PathType, TreeElement
    <2>2. /\ Len(t) = Len(d) + (Len(p) - Len(s))
          /\ \A i \in 1..(Len(p) - Len(s)) : t[Len(d) + i] = p[Len(s) + i]
        <3>1. /\ Len(Rebase(p, s, d)) = Len(d) + (Len(p) - Len(s))
              /\ \A i \in 1..(Len(p) - Len(s)) : Rebase(p, s, d)[Len(d) + i] = p[Len(s) + i]
            BY <1>0, RebaseShape
        <3> HIDE DEF t
        <3> QED BY <1>7, <3>1
    <2>3. Len(p) = Len(q)
        BY <1>1, <1>2, <2>1, <2>2
    <2>4. ASSUME NEW i \in 1..Len(q) PROVE p[i] = q[i]
        <3>1. CASE i <= Len(s)
            BY <1>1, <1>3, <2>1, <3>1
        <3>2. CASE ~(i <= Len(s))
            <4>1. i - Len(s) \in 1..(Len(q) - Len(s)) /\ Len(s) + (i - Len(s)) = i
                BY <1>1, <3>2
            <4> QED BY <1>2, <2>2, <2>3, <4>1
        <3> QED BY <3>1, <3>2
    <2> QED BY <1>1, <2>1, <2>3, <2>4, SeqEqual
<1> QED BY <1>4, <1>5, <1>6, <1>7

\* The marker of a directory lies below it, and no user puts a file there.
LEMMA MarkerFacts ==
    ASSUME NEW d \in UserPath, MarkerOf(d) \in Path
    PROVE  MarkerOf(d) \in Tree(d) /\ MarkerOf(d) \notin UserPath /\ Inside(MarkerOf(d), d)
<1>1. /\ d \in Path /\ d \in Seq(Name \cup {Marker}) /\ Len(d) \in Nat
      /\ Marker \in Name \cup {Marker}
    BY PathType, UserPathType
<1>2. /\ Len(MarkerOf(d)) = Len(d) + 1 /\ MarkerOf(d)[Len(d) + 1] = Marker
      /\ \A i \in 1..Len(d) : MarkerOf(d)[i] = d[i]
    BY <1>1, AppendProperties DEF MarkerOf
<1>3. MarkerOf(d) \in Tree(d)
    BY <1>1, <1>2, TreeByPrefix
<1>4. MarkerOf(d) # d
    BY <1>1, <1>2
<1> QED BY <1>2, <1>3, <1>4 DEF UserPath, Last, Tree

LEMMA TargetsFacts ==
    ASSUME NEW fs, NEW s \in UserPath
    PROVE  /\ Targets(fs, s) \subseteq Tree(s)
           /\ \A q \in Targets(fs, s) : fs[q] # Absent
BY UserPathType DEF Targets, Below, Tree

-----------------------------------------------------------------------------
(* Type correctness                                                        *)

\* What a request has still to copy is among what it has listed.
Listed ==
    \A r \in Request :
        /\ pc[r] \in {"copying", "removing"} => job[r] \in Job
        /\ pc[r] = "copying" => todo[r] \subseteq Targets(seen[r], job[r].src)

TypeInv == TypeOK /\ Listed

LEMMA EntryFacts ==
    /\ \A v \in Data : Whole(v) \in Entry
    /\ Marker \in Data /\ \A v \in Version : v \in Data
    /\ None \in [Path -> Entry \cup {Absent}]
BY DEF Entry, Whole, Data, None

LEMMA InitTypeInv == Init => TypeInv
BY EntryFacts, BoundAssumption DEF Init, TypeInv, TypeOK, Listed

LEMMA StepTypeInv == TypeInv /\ [Next]_vars => TypeInv'
<1> SUFFICES ASSUME TypeInv, [Next]_vars PROVE TypeInv'
    OBVIOUS
<1> USE EntryFacts DEF TypeInv, Listed
<1>1. CASE UNCHANGED vars
    BY <1>1 DEF TypeOK, vars
<1>2. ASSUME NEW r \in Request, NEW q \in UserPath, Put(r, q) PROVE TypeInv'
    <2>1. puts + 1 \in Version /\ puts' \in 0 .. MaxPuts
        BY <1>2, BoundAssumption DEF TypeOK, Put, Version
    <2> QED BY <1>2, <2>1 DEF TypeOK, Put
<1>3. ASSUME NEW r \in Request, NEW s \in UserPath, StartDelete(r, s) PROVE TypeInv'
    <2>1. Targets(files, s) \subseteq Path
        BY TargetsFacts DEF Tree
    <2>2. [src |-> s, dst |-> s, move |-> FALSE] \in Job
        BY DEF Job
    <2> QED BY <1>3, <2>1, <2>2 DEF TypeOK, StartDelete
<1>4. ASSUME NEW r \in Request, NEW d \in Dirs, Mkcol(r, d) PROVE TypeInv'
    BY <1>4 DEF TypeOK, Mkcol
<1>5. ASSUME NEW r \in Request, NEW s \in UserPath, NEW d \in UserPath, NEW move \in BOOLEAN,
             StartCopyFile(r, s, d, move)
      PROVE  TypeInv'
    <2>1. [src |-> s, dst |-> d, move |-> move] \in Job /\ {s} = Targets(files, s)
          /\ s \in Path
        BY <1>5, UserPathType DEF Job, Targets, StartCopyFile
    <2> QED BY <1>5, <2>1 DEF TypeOK, StartCopyFile
<1>6. ASSUME NEW r \in Request, NEW s \in UserPath, NEW d \in UserPath, NEW move \in BOOLEAN,
             StartCopyDir(r, s, d, move)
      PROVE  TypeInv'
    <2>1. [src |-> s, dst |-> d, move |-> move] \in Job
        BY DEF Job
    <2>2. Below(files, s) = Targets(files, s) /\ Below(files, s) \subseteq Path
        BY <1>6 DEF StartCopyDir, Targets, Below
    <2> QED BY <1>6, <2>1, <2>2 DEF TypeOK, StartCopyDir
<1>7. ASSUME NEW r \in Request, NEW q \in Path, CopyMarker(r, q) PROVE TypeInv'
    BY <1>7 DEF TypeOK, CopyMarker
<1>8. ASSUME NEW r \in Request, NEW q \in Path, CopyFile(r, q) PROVE TypeInv'
    <2>1. job[r].src \in UserPath /\ q \in Targets(seen[r], job[r].src)
        BY <1>8 DEF CopyFile, Job
    <2>2. seen[r][q] \in Entry /\ files[q] \in Entry
        BY <1>8, <2>1, TargetsFacts DEF TypeOK, CopyFile
    <2>3. [data |-> files[q].data, size |-> seen[r][q].size] \in Entry
        BY <2>2 DEF Entry
    <2> QED BY <1>8, <2>3 DEF TypeOK, CopyFile
<1>9. ASSUME NEW r \in Request, NEW q \in Path, Hang(r, q) PROVE TypeInv'
    BY <1>9 DEF TypeOK, Hang
<1>10. ASSUME NEW r \in Request, NEW q \in Path, RemoveFile(r, q) PROVE TypeInv'
    BY <1>10 DEF TypeOK, RemoveFile
<1>11. ASSUME NEW r \in Request, StartRemoval(r) PROVE TypeInv'
    <2>1. job[r].src \in UserPath
        BY <1>11 DEF StartRemoval, Job
    <2>2. Targets(files, job[r].src) \subseteq Path
        BY <2>1, TargetsFacts DEF Tree
    <2> QED BY <1>11, <2>2 DEF TypeOK, StartRemoval
<1>12. ASSUME NEW r \in Request, Answer(r) PROVE TypeInv'
    BY <1>12 DEF TypeOK, Answer, Forget
<1>13. CASE Restart
    BY <1>13 DEF TypeOK, Restart
<1> QED BY <1>1, <1>2, <1>3, <1>4, <1>5, <1>6, <1>7, <1>8, <1>9, <1>10, <1>11, <1>12, <1>13
        DEF Next

\* Every variable keeps its type, and an answered request leaves nothing on its
\* list (handleCopyMove, handleDelete).
THEOREM TypeCorrect == Spec => []TypeOK
<1>1. TypeInv => TypeOK
    BY DEF TypeInv
<1> QED BY InitTypeInv, StepTypeInv, <1>1, PTL DEF Spec

-----------------------------------------------------------------------------
(* No file is lost, and every size is that of its data.  Neither is        *)
(* inductive: a MOVE removes what it relies on having copied, and a copy   *)
(* takes the size from a listing.                                          *)

\* Holding the mutex, a request is alone until it is answered.
OneAtATime == \A r, x \in Request : pc[r] # "idle" /\ pc[x] # "idle" => r = x

\* A marker holds nothing that a user has uploaded, and every other file does.
MarkersApart ==
    \A q \in Path : files[q] # Absent => (q \in UserPath <=> files[q].data \in Version)

\* The file at q is also at t.
AlsoAt(q, t) == t \in Path /\ files[t] # Absent /\ files[t].data = files[q].data

\* While files are copied, those at the source are as they were listed, the copies
\* go elsewhere, and what is off the list has been copied.
CopyOrdered ==
    \A r \in Request : pc[r] = "copying" =>
        LET s == job[r].src
            d == job[r].dst
            listed == Targets(seen[r], s)
        IN  /\ Separate(s, d) \/ (s = d /\ ~job[r].move)
            /\ \A q \in Tree(s) \cap UserPath : files[q] = seen[r][q]
            /\ \A q \in listed : Rebase(q, s, d) \in Path
            /\ job[r].move => \A q \in (listed \cap UserPath) \ todo[r] : AlsoAt(q, Rebase(q, s, d))

\* While a MOVE removes its source, everything that is on the list is at the target.
RemoveOrdered ==
    \A r \in Request : pc[r] = "removing" /\ job[r].move =>
        LET s == job[r].src
            d == job[r].dst
        IN  /\ Separate(s, d) /\ todo[r] \subseteq Tree(s)
            /\ \A q \in todo[r] \cap UserPath : AlsoAt(q, Rebase(q, s, d))

IInv ==
    /\ TypeInv /\ OneAtATime /\ MarkersApart /\ CopyOrdered /\ RemoveOrdered
    /\ SizesMatch /\ Preserved

LEMMA InitIInv == Init => IInv
<1> SUFFICES ASSUME Init PROVE IInv
    OBVIOUS
<1>1. TypeInv /\ \A q \in Path : files[q] = Absent
    BY InitTypeInv DEF Init, None
<1> QED BY <1>1 DEF Init, IInv, OneAtATime, MarkersApart, CopyOrdered, RemoveOrdered,
                    SizesMatch, Preserved

\* What a write to one path keeps of what is stored.
LEMMA StoredAfter ==
    ASSUME TypeOK, NEW t \in Path, NEW e, files' = [files EXCEPT ![t] = e]
    PROVE  /\ \A v \in Stored(files) :
                  v \in Stored(files') \/ (files[t] # Absent /\ v = files[t].data)
           /\ e # Absent => e.data \in Stored(files')
<1>1. ASSUME NEW v \in Stored(files), v \notin Stored(files')
      PROVE  files[t] # Absent /\ v = files[t].data
    <2>1. PICK q \in Path : files[q] # Absent /\ v = files[q].data
        BY DEF Stored
    <2>2. q = t
        BY <1>1, <2>1 DEF Stored, TypeOK
    <2> QED BY <2>1, <2>2
<1>2. ASSUME e # Absent PROVE e.data \in Stored(files')
    <2>1. files'[t] = e
        BY DEF TypeOK
    <2> QED BY <1>2, <2>1 DEF Stored
<1> QED BY <1>1, <1>2

\* If what was at a path was a marker's, or counts as replaced, nothing owed is lost.
LEMMA PreservedAfter ==
    ASSUME TypeOK, MarkersApart, Preserved, NEW t \in Path, NEW e, e # Absent,
           files' = [files EXCEPT ![t] = e],
           \/ t \notin UserPath /\ owed' = owed
           \/ owed' = owed \ Superseded(t, files')
    PROVE  Preserved'
<1> SUFFICES ASSUME NEW v \in owed' PROVE v \in Stored(files')
    BY DEF Preserved
<1>1. v \in owed /\ v \in Stored(files) /\ v \in Version
    BY DEF Preserved, TypeOK
<1>2. CASE t \notin UserPath /\ owed' = owed
    BY <1>1, <1>2, StoredAfter DEF MarkersApart
<1>3. CASE owed' = owed \ Superseded(t, files')
    BY <1>1, <1>3, StoredAfter DEF Superseded
<1> QED BY <1>2, <1>3

\* A request that is admitted finds all others idle.
LEMMA AdmittedAlone ==
    ASSUME TypeOK, NEW r \in Request, Admitted(r), NEW place,
           pc' = [pc EXCEPT ![r] = place]
    PROVE  /\ \A x \in Request : x # r => pc'[x] = "idle"
           /\ pc'[r] = place /\ OneAtATime'
BY DEF TypeOK, Admitted, OneAtATime

\* A request that goes on is the only one.
LEMMA OthersIdle ==
    ASSUME TypeOK, OneAtATime, NEW r \in Request, pc[r] # "idle"
    PROVE  \A x \in Request : x # r => pc[x] = "idle"
BY DEF OneAtATime

\* A single file that is written, with no request under way before or after.
LEMMA KeepPut ==
    ASSUME IInv, TypeInv', NEW r \in Request, NEW q \in UserPath, Put(r, q)
    PROVE  IInv'
<1>1. /\ q \in Path /\ puts + 1 \in Version /\ Whole(puts + 1) # Absent
      /\ \A x \in Request : pc[x] = "idle" /\ pc'[x] = "idle"
      /\ files' = [files EXCEPT ![q] = Whole(puts + 1)]
      /\ owed' = (owed \ Superseded(q, files')) \cup {puts + 1}
    BY UserPathType, EntryFacts, BoundAssumption, DataAssumption
       DEF Put, Admitted, IInv, TypeInv, TypeOK, Version
<1>2. files \in [Path -> Entry \cup {Absent}] /\ TypeOK
    BY DEF IInv, TypeInv, TypeOK
<1>3. MarkersApart' /\ SizesMatch'
    BY <1>1, <1>2 DEF IInv, MarkersApart, SizesMatch, Whole
<1>4. Preserved'
    <2>1. puts + 1 \in Stored(files')
        <3>1. Whole(puts + 1).data \in Stored(files')
            BY <1>1, <1>2, StoredAfter
        <3> QED BY <3>1 DEF Whole
    <2>2. ASSUME NEW v \in owed \ Superseded(q, files') PROVE v \in Stored(files')
        BY <1>1, <1>2, StoredAfter DEF IInv, Preserved, Superseded
    <2> QED BY <1>1, <2>1, <2>2 DEF Preserved
<1> QED BY <1>1, <1>3, <1>4 DEF IInv, OneAtATime, CopyOrdered, RemoveOrdered

LEMMA KeepMkcol ==
    ASSUME IInv, TypeInv', NEW r \in Request, NEW d \in Dirs, Mkcol(r, d)
    PROVE  IInv'
<1>1. /\ d \in UserPath /\ MarkerOf(d) \in Path /\ MarkerOf(d) \notin UserPath
      /\ Whole(Marker) # Absent
      /\ \A x \in Request : pc[x] = "idle" /\ pc'[x] = "idle"
      /\ files' = [files EXCEPT ![MarkerOf(d)] = Whole(Marker)] /\ owed' = owed
    BY MarkerFacts, EntryFacts, DataAssumption DEF Mkcol, Admitted, Dirs
<1>2. files \in [Path -> Entry \cup {Absent}] /\ TypeOK
    BY DEF IInv, TypeInv, TypeOK
<1>3. MarkersApart' /\ SizesMatch'
    BY <1>1, <1>2, DataAssumption DEF IInv, MarkersApart, SizesMatch, Whole
<1>4. Preserved'
    BY <1>1, <1>2, PreservedAfter DEF IInv
<1> QED BY <1>1, <1>3, <1>4 DEF IInv, OneAtATime, CopyOrdered, RemoveOrdered

LEMMA KeepStartDelete ==
    ASSUME IInv, TypeInv', NEW r \in Request, NEW s \in UserPath, StartDelete(r, s)
    PROVE  IInv'
<1>1. /\ files' = files /\ owed' = owed /\ ~job'[r].move /\ pc'[r] = "removing"
      /\ \A x \in Request : x # r => pc'[x] = "idle"
      /\ OneAtATime'
    BY AdmittedAlone DEF StartDelete, IInv, TypeInv, TypeOK
<1>2. CopyOrdered' /\ RemoveOrdered'
    BY <1>1 DEF CopyOrdered, RemoveOrdered
<1> QED BY <1>1, <1>2 DEF IInv, MarkersApart, SizesMatch, Preserved, Stored

\* The paths of a request, if neither contains the other.
LEMMA PermittedSeparate ==
    ASSUME Apart, NEW s, NEW d, NEW move \in BOOLEAN, Permitted(s, d, move)
    PROVE  Separate(s, d) \/ (s = d /\ ~move)
BY DEF Permitted, Separate

\* A path is its own copy's original.
LEMMA RebaseRoot ==
    ASSUME NEW s \in Path, NEW d \in Path
    PROVE  s \in Tree(s) /\ Rebase(s, s, d) = d
<1>1. /\ d \in Seq(Name \cup {Marker}) /\ Len(s) \in Nat /\ s \in Tree(s)
    BY PathType DEF Tree
<1>2. SubSeq(s, Len(s) + 1, Len(s)) = <<>>
    BY <1>1, SubSeqEmpty
<1> QED BY <1>1, <1>2, ConcatEmptySeq DEF Rebase

LEMMA KeepStartCopyFile ==
    ASSUME Apart, IInv, TypeInv', NEW r \in Request, NEW s \in UserPath, NEW d \in UserPath,
           NEW move \in BOOLEAN, StartCopyFile(r, s, d, move)
    PROVE  IInv'
<1>1. /\ files' = files /\ owed' = owed /\ seen'[r] = files /\ todo'[r] = {s}
      /\ job'[r].src = s /\ job'[r].dst = d /\ job'[r].move = move /\ pc'[r] = "copying"
      /\ \A x \in Request : x # r => pc'[x] = "idle"
      /\ OneAtATime' /\ files[s] # Absent /\ Permitted(s, d, move)
    BY AdmittedAlone DEF StartCopyFile, IInv, TypeInv, TypeOK
<1>2. Targets(files, s) = {s} /\ Rebase(s, s, d) \in Path
    BY <1>1, UserPathType, RebaseRoot DEF Targets
<1>3. CopyOrdered'
    <2>1. ASSUME NEW x \in Request, pc'[x] = "copying" PROVE x = r
        BY <1>1, <2>1
    <2> QED BY <1>1, <1>2, <2>1, PermittedSeparate DEF CopyOrdered
<1>4. RemoveOrdered'
    BY <1>1 DEF RemoveOrdered
<1> QED BY <1>1, <1>3, <1>4 DEF IInv, MarkersApart, SizesMatch, Preserved, Stored

LEMMA KeepStartCopyDir ==
    ASSUME Apart, IInv, TypeInv', NEW r \in Request, NEW s \in UserPath, NEW d \in UserPath,
           NEW move \in BOOLEAN, StartCopyDir(r, s, d, move)
    PROVE  IInv'
<1> DEFINE m == MarkerOf(d)
<1>0. m \in Path /\ m \notin UserPath /\ Whole(Marker) # Absent
    BY MarkerFacts, EntryFacts, DataAssumption DEF StartCopyDir, Dirs
<1>1. /\ files' = [files EXCEPT ![m] = Whole(Marker)] /\ owed' = owed
      /\ seen'[r] = files /\ todo'[r] = Below(files, s)
      /\ job'[r].src = s /\ job'[r].dst = d /\ job'[r].move = move /\ pc'[r] = "copying"
      /\ \A x \in Request : x # r => pc'[x] = "idle"
      /\ OneAtATime' /\ files[s] = Absent /\ Permitted(s, d, move)
      /\ \A q \in Below(files, s) : Rebase(q, s, d) \in Path
    <2>1. /\ \A x \in Request : x # r => pc'[x] = "idle"
          /\ pc'[r] = "copying" /\ OneAtATime'
        BY AdmittedAlone DEF StartCopyDir, IInv, TypeInv
    <2>2. /\ seen'[r] = files /\ todo'[r] = Below(files, s)
          /\ job'[r] = [src |-> s, dst |-> d, move |-> move]
        BY DEF StartCopyDir, IInv, TypeInv, TypeOK
    <2> QED BY <2>1, <2>2 DEF StartCopyDir
<1>2. files \in [Path -> Entry \cup {Absent}] /\ TypeOK
    BY DEF IInv, TypeInv, TypeOK
<1> HIDE DEF m
<1>3. Targets(files, s) = Below(files, s)
    BY <1>1 DEF Targets
<1>4. CopyOrdered'
    <2>1. ASSUME NEW x \in Request, pc'[x] = "copying" PROVE x = r
        BY <1>1, <2>1
    <2>2. \A q \in Tree(s) \cap UserPath : files'[q] = files[q]
        BY <1>0, <1>1, <1>2 DEF Tree
    <2> QED BY <1>1, <1>3, <2>1, <2>2, PermittedSeparate DEF CopyOrdered
<1>5. RemoveOrdered'
    BY <1>1 DEF RemoveOrdered
<1>6. MarkersApart' /\ SizesMatch'
    BY <1>0, <1>1, <1>2, DataAssumption DEF IInv, MarkersApart, SizesMatch, Whole
<1>7. Preserved'
    BY <1>0, <1>1, <1>2, PreservedAfter DEF IInv
<1> QED BY <1>1, <1>4, <1>5, <1>6, <1>7 DEF IInv

\* The facts about the copy of a listed path that the next two lemmas share.
LEMMA CopyFacts ==
    ASSUME IInv, NEW r \in Request, pc[r] = "copying", NEW q \in todo[r]
    PROVE  LET s == job[r].src
               d == job[r].dst
               t == Rebase(q, s, d)
           IN  /\ s \in UserPath /\ d \in UserPath /\ q \in Targets(seen[r], s)
               /\ q \in Tree(s) /\ t \in Tree(d) /\ t \in Path
               /\ Separate(s, d) \/ (s = d /\ ~job[r].move)
               /\ t \in UserPath <=> q \in UserPath
               /\ s = d => t = q
               /\ Separate(s, d) => t \notin Tree(s)
               /\ \A p \in Tree(s) : Rebase(p, s, d) = t => p = q
               /\ \A x \in Request : x # r => pc[x] = "idle"
<1>1. /\ job[r].src \in UserPath /\ job[r].dst \in UserPath
      /\ q \in Targets(seen[r], job[r].src) /\ TypeOK
    BY DEF IInv, TypeInv, Listed, Job
<1>2. q \in Tree(job[r].src)
    BY <1>1, TargetsFacts
<1>3. /\ Rebase(q, job[r].src, job[r].dst) \in Path
      /\ Separate(job[r].src, job[r].dst) \/ (job[r].src = job[r].dst /\ ~job[r].move)
    BY <1>1 DEF IInv, CopyOrdered
<1>4. \A x \in Request : x # r => pc[x] = "idle"
    BY <1>1, OthersIdle DEF IInv
<1> QED BY <1>1, <1>2, <1>3, <1>4, RebaseFacts, SeparateTrees, UserPathType

LEMMA KeepCopyMarker ==
    ASSUME IInv, TypeInv', NEW r \in Request, NEW q \in Path, CopyMarker(r, q)
    PROVE  IInv'
<1> DEFINE s == job[r].src
           d == job[r].dst
           t == Rebase(q, s, d)
<1>1. /\ pc[r] = "copying" /\ q \in todo[r] /\ q \notin UserPath
      /\ files' = [files EXCEPT ![t] = Whole(Marker)]
      /\ todo' = [todo EXCEPT ![r] = @ \ {q}]
      /\ UNCHANGED <<pc, job, seen, puts, owed>> /\ Whole(Marker) # Absent
    BY EntryFacts, DataAssumption DEF CopyMarker
<1>2. files \in [Path -> Entry \cup {Absent}] /\ TypeOK /\ todo'[r] = todo[r] \ {q}
    BY <1>1 DEF IInv, TypeInv, TypeOK
<1>3. /\ s \in UserPath /\ d \in UserPath /\ t \in Path /\ t \notin UserPath
      /\ \A x \in Request : x # r => pc[x] = "idle"
    BY <1>1, CopyFacts
<1> HIDE DEF t
<1>4. \A p \in UserPath : files'[p] = files[p]
    BY <1>1, <1>2, <1>3, UserPathType
<1>5. CopyOrdered'
    <2>1. ASSUME NEW x \in Request, pc'[x] = "copying" PROVE x = r
        BY <1>1, <1>3, <2>1
    <2>2. \A p \in Tree(s) \cap UserPath : files'[p] = seen[r][p]
        BY <1>1, <1>4 DEF IInv, CopyOrdered
    <2>3. ASSUME job[r].move, NEW p \in (Targets(seen[r], s) \cap UserPath) \ todo'[r]
          PROVE  AlsoAt(p, Rebase(p, s, d))'
        <3>1. p \notin todo[r]
            BY <1>1, <1>2, <2>3
        <3>2. AlsoAt(p, Rebase(p, s, d))
            BY <1>1, <2>3, <3>1 DEF IInv, CopyOrdered
        <3>3. Rebase(p, s, d) \in UserPath
            BY <1>3, <3>2, <2>3, TargetsFacts, RebaseFacts DEF AlsoAt
        <3> QED BY <1>1, <1>4, <2>3, <3>2, <3>3 DEF AlsoAt
    <2> QED BY <1>1, <2>1, <2>2, <2>3 DEF IInv, CopyOrdered
<1>6. RemoveOrdered' /\ OneAtATime'
    BY <1>1, <1>3 DEF IInv, RemoveOrdered, OneAtATime
<1>7. MarkersApart' /\ SizesMatch'
    BY <1>1, <1>2, <1>3, DataAssumption DEF IInv, MarkersApart, SizesMatch, Whole
<1>8. Preserved'
    BY <1>1, <1>2, <1>3, PreservedAfter DEF IInv
<1> QED BY <1>5, <1>6, <1>7, <1>8 DEF IInv

\* The size is that of the listed file, which is still there as it was.
LEMMA KeepCopyFile ==
    ASSUME IInv, TypeInv', NEW r \in Request, NEW q \in Path, CopyFile(r, q)
    PROVE  IInv'
<1> DEFINE s == job[r].src
           d == job[r].dst
           t == Rebase(q, s, d)
           copy == [data |-> files[q].data, size |-> seen[r][q].size]
<1>1. /\ pc[r] = "copying" /\ q \in todo[r] /\ q \in UserPath /\ files[q] # Absent
      /\ files' = [files EXCEPT ![t] = copy] /\ owed' = owed \ Superseded(t, files')
      /\ todo' = [todo EXCEPT ![r] = @ \ {q}]
      /\ UNCHANGED <<pc, job, seen, puts>>
    BY DEF CopyFile
<1>2. files \in [Path -> Entry \cup {Absent}] /\ TypeOK /\ todo'[r] = todo[r] \ {q}
    BY <1>1 DEF IInv, TypeInv, TypeOK
<1>3. /\ s \in UserPath /\ d \in UserPath /\ t \in Path /\ t \in UserPath /\ q \in Tree(s)
      /\ Separate(s, d) \/ (s = d /\ ~job[r].move)
      /\ s = d => t = q
      /\ Separate(s, d) => t \notin Tree(s)
      /\ \A p \in Tree(s) : Rebase(p, s, d) = t => p = q
      /\ \A x \in Request : x # r => pc[x] = "idle"
    BY <1>1, CopyFacts
<1>4. copy = files[q]
    <2>1. files[q] = seen[r][q] /\ files[q].size = files[q].data
        BY <1>1, <1>3 DEF IInv, CopyOrdered, SizesMatch
    <2>2. files[q] = [data |-> files[q].data, size |-> files[q].size]
        BY <1>1, <1>2 DEF Entry
    <2> QED BY <2>1, <2>2
<1> HIDE DEF t, copy
<1>5. /\ files' = [files EXCEPT ![t] = files[q]] /\ files'[t] = files[q]
      /\ \A p \in Path : p # t => files'[p] = files[p]
    BY <1>1, <1>2, <1>3, <1>4
<1>6. \A p \in Tree(s) : files'[p] = files[p]
    BY <1>3, <1>5 DEF Tree
<1>7. CopyOrdered'
    <2>1. ASSUME NEW x \in Request, pc'[x] = "copying" PROVE x = r
        BY <1>1, <1>3, <2>1
    <2>2. \A p \in Tree(s) \cap UserPath : files'[p] = seen[r][p]
        BY <1>1, <1>6 DEF IInv, CopyOrdered
    <2>3. ASSUME job[r].move, NEW p \in (Targets(seen[r], s) \cap UserPath) \ todo'[r]
          PROVE  AlsoAt(p, Rebase(p, s, d))'
        <3>1. p \in Tree(s) /\ files'[p] = files[p]
            BY <1>3, <1>6, <2>3, TargetsFacts
        <3>2. CASE p = q
            BY <1>1, <1>3, <1>5, <3>1, <3>2 DEF AlsoAt, t
        <3>3. CASE p # q
            <4>1. p \notin todo[r]
                BY <1>2, <2>3, <3>3
            <4>2. AlsoAt(p, Rebase(p, s, d))
                BY <1>1, <2>3, <4>1 DEF IInv, CopyOrdered
            <4>3. Rebase(p, s, d) # t
                BY <1>3, <3>1, <3>3
            <4> QED BY <1>1, <1>5, <3>1, <4>2, <4>3 DEF AlsoAt
        <3> QED BY <3>2, <3>3
    <2> QED BY <1>1, <2>1, <2>2, <2>3 DEF IInv, CopyOrdered
<1>8. RemoveOrdered' /\ OneAtATime'
    BY <1>1, <1>3 DEF IInv, RemoveOrdered, OneAtATime
<1>9. MarkersApart' /\ SizesMatch'
    BY <1>1, <1>3, <1>5 DEF IInv, MarkersApart, SizesMatch
<1>10. Preserved'
    BY <1>1, <1>2, <1>3, <1>5, PreservedAfter DEF IInv
<1> QED BY <1>7, <1>8, <1>9, <1>10 DEF IInv

LEMMA KeepHang ==
    ASSUME IInv, TypeInv', NEW r \in Request, NEW q \in Path, Hang(r, q)
    PROVE  IInv'
<1>1. /\ UNCHANGED <<files, job, seen, todo, puts, owed>>
      /\ pc[r] # "idle" /\ \A x \in Request : pc'[x] = IF x = r THEN "hung" ELSE pc[x]
    BY DEF Hang, IInv, TypeInv, TypeOK
<1>2. CopyOrdered' /\ RemoveOrdered' /\ OneAtATime'
    BY <1>1 DEF IInv, CopyOrdered, RemoveOrdered, OneAtATime, AlsoAt
<1> QED BY <1>1, <1>2 DEF IInv, MarkersApart, SizesMatch, Preserved, Stored

\* What is removed of the source is what was listed there, and all of it is copied.
LEMMA KeepStartRemoval ==
    ASSUME IInv, TypeInv', NEW r \in Request, StartRemoval(r)
    PROVE  IInv'
<1> DEFINE s == job[r].src
           d == job[r].dst
<1>1. /\ UNCHANGED <<files, job, seen, puts, owed>> /\ todo[r] = {} /\ job[r].move
      /\ pc[r] = "copying" /\ \A x \in Request : pc'[x] = IF x = r THEN "removing" ELSE pc[x]
      /\ todo'[r] = Targets(files, s)
    BY DEF StartRemoval, IInv, TypeInv, TypeOK
<1>2. s \in UserPath /\ d \in UserPath
    BY <1>1 DEF IInv, TypeInv, Listed, Job
<1>3. /\ Separate(s, d)
      /\ \A q \in Tree(s) \cap UserPath : files[q] = seen[r][q]
      /\ \A q \in Targets(seen[r], s) \cap UserPath : AlsoAt(q, Rebase(q, s, d))
    BY <1>1 DEF IInv, CopyOrdered
<1>4. Targets(files, s) \subseteq Tree(s)
    BY <1>2, TargetsFacts
<1>5. \A q \in Targets(files, s) \cap UserPath : q \in Targets(seen[r], s)
    <2>1. files[s] = seen[r][s]
        BY <1>2, <1>3, UserPathType DEF Tree
    <2>2. ASSUME NEW q \in Targets(files, s) \cap UserPath PROVE files[q] = seen[r][q]
        BY <1>3, <1>4
    <2> QED BY <2>1, <2>2 DEF Targets, Below
<1> HIDE DEF s, d
<1>6. \A x \in Request : pc'[x] # "idle" => x = r
    BY <1>1, OthersIdle DEF IInv, TypeInv
<1>7. CopyOrdered' /\ OneAtATime'
    BY <1>1, <1>6 DEF CopyOrdered, OneAtATime
<1>8. RemoveOrdered'
    <2>1. \A q \in todo'[r] \cap UserPath : AlsoAt(q, Rebase(q, s, d))'
        BY <1>1, <1>3, <1>5 DEF AlsoAt, s, d
    <2> QED BY <1>1, <1>3, <1>4, <1>6, <2>1 DEF RemoveOrdered, s, d
<1> QED BY <1>1, <1>7, <1>8 DEF IInv, MarkersApart, SizesMatch, Preserved, Stored

\* A MOVE takes away a file whose copy is stored elsewhere.
LEMMA KeepRemoveFile ==
    ASSUME IInv, TypeInv', NEW r \in Request, NEW q \in Path, RemoveFile(r, q)
    PROVE  IInv'
<1> DEFINE s == job[r].src
           d == job[r].dst
<1>1. /\ pc[r] = "removing" /\ q \in todo[r]
      /\ files' = [files EXCEPT ![q] = Absent]
      /\ owed' = IF job[r].move THEN owed ELSE owed \ Superseded(q, files')
      /\ UNCHANGED <<pc, job, seen, puts>>
    BY DEF RemoveFile
<1>2. /\ files \in [Path -> Entry \cup {Absent}] /\ TypeOK /\ todo'[r] = todo[r] \ {q}
      /\ files'[q] = Absent /\ \A p \in Path : p # q => files'[p] = files[p]
    BY <1>1 DEF RemoveFile, IInv, TypeInv, TypeOK
<1>3. s \in UserPath /\ d \in UserPath /\ \A x \in Request : x # r => pc[x] = "idle"
    BY <1>1, OthersIdle DEF IInv, TypeInv, Listed, Job
<1>4. ASSUME job[r].move
      PROVE  /\ Separate(s, d) /\ todo[r] \subseteq Tree(s)
             /\ \A p \in todo[r] \cap UserPath :
                   AlsoAt(p, Rebase(p, s, d)) /\ Rebase(p, s, d) # q
    <2>1. /\ Separate(s, d) /\ todo[r] \subseteq Tree(s)
          /\ \A p \in todo[r] \cap UserPath : AlsoAt(p, Rebase(p, s, d))
        BY <1>1, <1>4 DEF IInv, RemoveOrdered
    <2>2. ASSUME NEW p \in todo[r] \cap UserPath PROVE Rebase(p, s, d) # q
        <3>1. p \in Tree(s) /\ q \in Tree(s) /\ Rebase(p, s, d) \in Path
            BY <1>1, <2>1 DEF AlsoAt
        <3>2. Rebase(p, s, d) \in Tree(d)
            BY <1>3, <3>1, RebaseFacts
        <3> QED BY <1>3, <2>1, <3>1, <3>2, SeparateTrees, UserPathType
    <2> QED BY <2>1, <2>2
<1> HIDE DEF s, d
<1>5. RemoveOrdered'
    <2>1. ASSUME NEW x \in Request, pc'[x] = "removing" PROVE x = r
        BY <1>1, <1>3, <2>1
    <2>2. ASSUME job[r].move, NEW p \in todo'[r] \cap UserPath
          PROVE  AlsoAt(p, Rebase(p, s, d))'
        <3>1. /\ p \in todo[r] \cap UserPath /\ p # q /\ p \in Path
              /\ AlsoAt(p, Rebase(p, s, d)) /\ Rebase(p, s, d) # q
            BY <1>2, <1>4, <2>2, UserPathType
        <3> QED BY <1>1, <1>2, <3>1 DEF AlsoAt, s, d
    <2> QED BY <1>1, <1>2, <1>4, <2>1, <2>2 DEF RemoveOrdered, s, d
<1>6. CopyOrdered' /\ OneAtATime'
    BY <1>1, <1>3 DEF IInv, CopyOrdered, OneAtATime
<1>7. MarkersApart' /\ SizesMatch'
    BY <1>2 DEF IInv, MarkersApart, SizesMatch
<1>8. Preserved'
    <2> SUFFICES ASSUME NEW v \in owed' PROVE v \in Stored(files')
        BY DEF Preserved
    <2>1. v \in owed /\ v \in Stored(files) /\ v \in Version
        BY <1>1, <1>2 DEF IInv, Preserved, TypeOK
    <2>2. CASE files[q] = Absent \/ v # files[q].data
        BY <1>1, <1>2, <2>1, <2>2, StoredAfter
    <2>3. CASE files[q] # Absent /\ v = files[q].data /\ job[r].move
        <3>1. q \in todo[r] \cap UserPath
            BY <1>1, <2>1, <2>3 DEF IInv, MarkersApart
        <3>2. AlsoAt(q, Rebase(q, s, d)) /\ Rebase(q, s, d) # q
            BY <1>4, <2>3, <3>1
        <3>3. /\ Rebase(q, s, d) \in Path /\ files'[Rebase(q, s, d)] # Absent
              /\ files'[Rebase(q, s, d)].data = v
            BY <1>2, <2>3, <3>2 DEF AlsoAt
        <3> QED BY <3>3 DEF Stored
    <2>4. CASE files[q] # Absent /\ v = files[q].data /\ ~job[r].move
        BY <1>1, <2>1, <2>4 DEF Superseded
    <2> QED BY <2>2, <2>3, <2>4
<1> QED BY <1>5, <1>6, <1>7, <1>8 DEF IInv

\* A request that is answered, and one that is killed, leaves the vault as it is.
LEMMA KeepEnd ==
    ASSUME IInv, TypeInv', (\E r \in Request : Answer(r)) \/ Restart
    PROVE  IInv'
<1>1. UNCHANGED <<files, puts, owed>> /\ \A x \in Request :
          pc'[x] = "idle" \/ (pc'[x] = pc[x] /\ job'[x] = job[x] /\ seen'[x] = seen[x]
                                            /\ todo'[x] = todo[x])
    BY DEF Answer, Restart, Forget, IInv, TypeInv, TypeOK
<1>2. OneAtATime' /\ CopyOrdered' /\ RemoveOrdered'
    BY <1>1 DEF IInv, OneAtATime, CopyOrdered, RemoveOrdered, AlsoAt
<1> QED BY <1>1, <1>2 DEF IInv, MarkersApart, SizesMatch, Preserved, Stored

LEMMA StepIInv == Apart /\ IInv /\ [Next]_vars => IInv'
<1> SUFFICES ASSUME Apart, IInv, [Next]_vars PROVE IInv'
    OBVIOUS
<1>1. TypeInv'
    BY StepTypeInv DEF IInv
<1>2. CASE UNCHANGED vars
    BY <1>1, <1>2 DEF vars, IInv, OneAtATime, MarkersApart, AlsoAt, CopyOrdered, RemoveOrdered,
                      SizesMatch, Preserved, Stored
<1>3. CASE Next
    BY <1>1, <1>3, KeepPut, KeepMkcol, KeepStartDelete, KeepStartCopyFile, KeepStartCopyDir,
       KeepCopyMarker, KeepCopyFile, KeepHang, KeepStartRemoval, KeepRemoveFile, KeepEnd
       DEF Next
<1> QED BY <1>2, <1>3

\* If neither of source and target contains the other, no MOVE loses a file, at
\* whatever step it fails, hangs or is killed (handleCopyMove, copyFile).
THEOREM NoMoveLosesAFile ==
    ASSUME Apart PROVE Spec => []Preserved
<1>1. IInv => Preserved
    BY DEF IInv
<1>2. IInv /\ [Next]_vars => IInv'
    BY StepIInv
<1> QED BY InitIInv, <1>1, <1>2, PTL DEF Spec

\* Under the same assumption a record states the size of its data, although
\* copyFile takes the size from a listing made before the copy.
THEOREM CopiesStateTheirSize ==
    ASSUME Apart PROVE Spec => []SizesMatch
<1>1. IInv => SizesMatch
    BY DEF IInv
<1>2. IInv /\ [Next]_vars => IInv'
    BY StepIInv
<1> QED BY InitIInv, <1>1, <1>2, PTL DEF Spec
=============================================================================

------------------------- MODULE ManifestStore_proofs -------------------------
(***************************************************************************)
(* Proofs about ManifestStore, for any number of paths, duplicates,        *)
(* deliveries, requests and faults: a device sees what it last wrote,      *)
(* settling duplicates changes nothing that is shown, and no live version  *)
(* is lost as long as users leave the conflict copies alone.               *)
(***************************************************************************)
EXTENDS ManifestStore, TLAPS

Slots(p)      == {s \in Slot : s[1] = p}
Copy(p, t, n) == <<ConflictPath(p, t, n), Main>>
CopyOf(s, r)  == Copy(s[1], r.stamp, s[2])

\* A slot holds a live record with this payload.
Holds(s, x) == files[s] # NoFile /\ ~files[s].del /\ files[s].content = x

-----------------------------------------------------------------------------
\* What an idle process, and one that is done with settling, has in memory.
Phases ==
    /\ pc = "idle" => idx = NoIndex
    /\ pc # "settling" => groups = {} /\ losers = {} /\ copied = {}
    /\ pc # "writing" => writes = Empty
    /\ \E k \in 1 .. (MaxWrites + 1) : clock = 2 * k

\* A name a sync client gives stands for one record, which other devices wrote.
VariantsFixed ==
    /\ origin \in [Slot -> Foreign \cup {NoFile}]
    /\ \A s \in Slot : s[2] # Main => {files[s], walk[s]} \subseteq {NoFile, origin[s]}

\* A slot holds what the walk has read there or, the main one, what was delivered
\* over it since then.
Stands(s) ==
    /\ files[s] # NoFile
    /\ files[s] # walk[s] => s[2] = Main /\ Outranks(files[s], walk[s])

\* What the walk has read of a path is still there when the path is settled.
Unsettled ==
    pc = "settling" =>
        \A s \in Slot :
            s[1] \in Synced /\ s[1] \in groups /\ walk[s] # NoFile => Stands(s)

\* What the index says of a path, given the slot that won.
Told(w) == IF walk[w].del THEN NoFile ELSE Normalized(walk[w])

\* While a path is settled, its winner stays where it is.
Choice ==
    losers \cup copied # {} =>
        /\ best \in Winners(best[1]) /\ best[1] \notin groups /\ best[1] \in Synced
        /\ losers \cup copied \subseteq Candidates(walk, best[1]) \ {best}
        /\ Stands(best)
        /\ idx[best[1]] = Told(best)
        /\ losers \cap copied = {}

IndexTells ==
    pc # "idle" =>
        \A p \in Synced :
            IF p \in groups \/ Candidates(walk, p) = {} THEN idx[p] = NoFile
            ELSE \E w \in Winners(p) : idx[p] = Told(w)

\* No tombstone is newer than the newest generation that was deleted.
TombTells ==
    \A s \in Slot : \A r \in {files[s], walk[s]} :
        r # NoFile /\ r.del => Effective(r) <= tomb[s[1]]

WritesFresh ==
    \A p \in DOMAIN writes :
        /\ writes[p].stamp = clock - 2 /\ writes[p].gen = NextGen(idx[p], clock - 2)
        /\ writes[p].del => idx[p] # NoFile
        /\ clock > 2

\* What a shared slot can hold was written at an instant of its own.
StampsKnown ==
    \A s \in Slot : \A r \in {files[s], walk[s]} :
        s[1] \in Synced /\ r # NoFile => r.stamp \in Stamps(s[2])

Loading ==
    /\ TypeOK /\ Phases /\ VariantsFixed /\ Unsettled /\ Choice
    /\ IndexTells /\ TombTells /\ WritesFresh /\ StampsKnown

-----------------------------------------------------------------------------
\* What this device last wrote is in the main slot and outranks every duplicate.
TopIn(fs, p) ==
    LET r == fs[<<p, Main>>] IN
    /\ r # NoFile
    /\ IF r.del THEN mine[p] = Deleted ELSE mine[p] = r.content
    /\ \A s \in Candidates(fs, p) \ {<<p, Main>>} : Outranks(r, fs[s])

Top ==
    \A p \in Synced : mine[p] # Nothing =>
        /\ TopIn(files, p)
        /\ pc \in {"settling", "loaded"} => TopIn(walk, p)

-----------------------------------------------------------------------------
\* Hypothesis: users put and remove files, and leave their conflict copies alone.
CopiesLeftAlone == \A t \in Trees : \A p \in t : Original(p) = p

\* The stamp of a live record tells its payload.
Known ==
    Foreign \cup (({files[s] : s \in Slot} \cup {walk[s] : s \in Slot}
                     \cup {writes[p] : p \in DOMAIN writes}) \ {NoFile})
StampsTell ==
    /\ \A r, o \in Known : r.stamp = o.stamp /\ ~r.del /\ ~o.del => r.content = o.content
    /\ \A r \in Known : r.stamp \in OwnStamps => r.stamp < clock

WritesToOriginals == \A p \in DOMAIN writes : Original(p) = p

\* A conflict copy is what it was made from.
CopiesGenuine ==
    \A p \in Synced, n \in Variant \cup {Main} : \A t \in Stamps(n) :
        LET r == files[Copy(p, t, n)] IN r # NoFile => ~r.del /\ r.stamp = t

CopySaved ==
    \A s \in copied : ~walk[s].del /\ Holds(CopyOf(s, walk[s]), walk[s].content)

\* A version at its path, as new as it was or newer.
AtPath(v, s) == Holds(s, v.content) /\ RankGen(files[s]) >= v.gen

\* What keeps a version, whatever happens to the main slot of its path.
KeptElsewhere(v) ==
    \/ v.gen < tomb[v.path]
    \/ \E n \in Variant : AtPath(v, <<v.path, n>>)
    \/ \E n \in Variant \cup {Main} : \E t \in Stamps(n) : Holds(Copy(v.path, t, n), v.content)

\* In the main slot.  What this load has not read there is overrun by whatever the
\* process does to that slot, and nothing else may depend on it.
InMain(v) ==
    LET m == <<v.path, Main>> IN
    /\ AtPath(v, m)
    /\ pc # "idle" /\ Unread(m) => v \in Lost(m)

Kept(v) == KeptElsewhere(v) \/ InMain(v)

SharedOwed == {v \in owed \ overrun : v.path \in Synced}

AllKept == \A v \in SharedOwed : Kept(v)

\* What other devices have put under a name of their own has arrived.
VariantsKnown ==
    \A s \in Slot : s[2] # Main =>
        \A r \in {files[s], walk[s]} : r # NoFile => Claim(s[1], r) \subseteq known

\* Delivered under a name at which the walk had found nothing.
Late(v) == \E n \in Variant : walk[<<v.path, n>>] = NoFile /\ AtPath(v, <<v.path, n>>)

\* The main slot may win, or has won, and a delivery has replaced what it had when
\* the walk read it: a version with that very payload.
Replaced(v) ==
    LET m == <<v.path, Main>> IN
    /\ v.path \in Synced
    /\ v.path \in groups \/ (best = m /\ losers \cup copied # {})
    /\ walk[m] # NoFile /\ ~walk[m].del /\ walk[m].content = v.content /\ Unread(m)

\* It is owed to nobody any more, unless it was delivered again.
Renewed ==
    pc = "settling" => \A v \in owed : Replaced(v) => v \in Lost(<<v.path, Main>>) \/ Late(v)

\* What the walk has read in a main slot is in the index, deleted or copied, once the
\* slot is settled.
InAccount(p) ==
    LET m == <<p, Main>> IN
    \/ idx[p] # NoFile /\ idx[p].content = walk[m].content
    \/ Effective(walk[m]) < tomb[p]
    \/ Holds(CopyOf(m, walk[m]), walk[m].content)

Accountable(p) ==
    LET m == <<p, Main>> IN
    walk[m] # NoFile /\ ~walk[m].del /\ p \notin groups /\ m \notin losers

Accounted == pc # "idle" /\ ~diskFull => \A p \in Synced : Accountable(p) => InAccount(p)

Preserving ==
    /\ StampsTell /\ WritesToOriginals /\ CopiesGenuine /\ CopySaved
    /\ VariantsKnown /\ Renewed /\ AllKept /\ Accounted

-----------------------------------------------------------------------------
(* Records and slots                                                       *)

LEMMA RecordFacts ==
    ASSUME NEW r \in Record
    PROVE  /\ r # NoFile /\ r.gen \in Nat /\ r.stamp \in Nat /\ r.del \in BOOLEAN
           /\ Effective(r) \in Nat /\ RankGen(r) \in Nat /\ RankGen(r) <= Effective(r)
           /\ r.del => RankGen(r) = Effective(r) /\ r.content = Nothing
           /\ ~r.del => r \in LiveRecord /\ r.content \in Content /\ RankGen(r) = r.gen
           /\ r.gen > 0 => Effective(r) = r.gen
<1>1. r # NoFile
    BY NoFileAssumption
<1>2. /\ r.gen \in Nat /\ r.stamp \in Nat /\ r.del \in BOOLEAN
      /\ r.del => r.content = Nothing
      /\ ~r.del => r \in LiveRecord /\ r.content \in Content
    BY DEF Record, LiveRecord, Tombstone
<1>3. /\ Effective(r) = IF r.gen = 0 THEN r.stamp ELSE r.gen
      /\ RankGen(r) = IF r.del THEN Effective(r) ELSE r.gen
    BY DEF Effective, RankGen
<1>4. Effective(r) \in Nat /\ r.gen <= Effective(r) /\ (r.gen > 0 => Effective(r) = r.gen)
    BY <1>2, <1>3
<1>5. RankGen(r) \in Nat /\ RankGen(r) <= Effective(r)
    <2>1. CASE r.del
        BY <1>3, <1>4, <2>1
    <2>2. CASE ~r.del
        BY <1>2, <1>3, <1>4, <2>2
    <2> QED BY <2>1, <2>2
<1> QED BY <1>1, <1>2, <1>3, <1>4, <1>5

LEMMA NormalizedFacts ==
    ASSUME NEW r \in LiveRecord
    PROVE  /\ Normalized(r) \in LiveRecord /\ Normalized(r) \in Record
           /\ Normalized(r).gen = Effective(r) /\ Normalized(r).stamp = r.stamp
           /\ Normalized(r).content = r.content /\ Normalized(r).del = FALSE /\ r.del = FALSE
BY DEF LiveRecord, Record, Normalized, Effective

LEMMA SlotFacts ==
    /\ \A s \in Slot : /\ s = <<s[1], s[2]>> /\ s[1] \in Path /\ s[2] \in Variant \cup {Main}
                       /\ s[1] \notin Synced => s[2] = Main
    /\ \A q \in Path : <<q, Main>> \in Slot
    /\ \A q \in Synced : \A n \in Variant \cup {Main} : <<q, n>> \in Slot
    /\ Empty \notin Slot
BY NamesAssumption DEF Slot, Empty

\* The order of the candidates is total, and two that are equal in it have one stamp.
LEMMA OutranksFacts ==
    ASSUME NEW a \in Record, NEW b \in Record, ~Outranks(a, b)
    PROVE  /\ RankGen(b) >= RankGen(a)
           /\ RankGen(b) = RankGen(a) => b.stamp >= a.stamp
           /\ \A c \in Record : ~Outranks(c, a) => ~Outranks(c, b)
           /\ \A c \in Record : ~Outranks(b, c) => ~Outranks(a, c)
<1>1. /\ RankGen(a) \in Nat /\ RankGen(b) \in Nat /\ a.stamp \in Nat /\ b.stamp \in Nat
      /\ a.del \in BOOLEAN /\ b.del \in BOOLEAN
    BY RecordFacts
<1>2. ASSUME NEW c \in Record
      PROVE  RankGen(c) \in Nat /\ c.stamp \in Nat /\ c.del \in BOOLEAN
    BY RecordFacts
<1> QED BY <1>1, <1>2 DEF Outranks

LEMMA OutranksOrder ==
    ASSUME NEW a \in Record, NEW b \in Record, NEW c \in Record, Outranks(a, b)
    PROVE  /\ ~Outranks(c, b) => ~Outranks(c, a)
           /\ Outranks(b, c) => Outranks(a, c)
           /\ ~Outranks(b, a) /\ RankGen(a) >= RankGen(b)
<1>1. /\ RankGen(a) \in Nat /\ RankGen(b) \in Nat /\ RankGen(c) \in Nat
      /\ a.stamp \in Nat /\ b.stamp \in Nat /\ c.stamp \in Nat
      /\ a.del \in BOOLEAN /\ b.del \in BOOLEAN /\ c.del \in BOOLEAN
    BY RecordFacts
<1> QED BY <1>1 DEF Outranks

LEMMA CandidateFacts ==
    ASSUME NEW fs \in [Slot -> Record \cup {NoFile}], NEW q
    PROVE  \A s \in Candidates(fs, q) : s \in Slot /\ s[1] = q /\ fs[s] \in Record
BY DEF Candidates

\* The files that a step of the sync client or of the process replaces: Next, action
\* by action.
LEMMA StepCases ==
    ASSUME [Next]_vars
    PROVE  \/ UNCHANGED vars
           \/ Walk
           \/ \E q \in Path : SettlePath(q)
           \/ \E s \in losers : DiscardLoser(s) \/ KeepLoser(s)
           \/ \E s \in copied : RemoveCopied(s)
           \/ Loaded \/ Read \/ EndRequest \/ Crash
           \/ \E tree \in Trees : BeginPut(tree) \/ BeginRemove(tree)
           \/ \E q \in DOMAIN writes : Save(q)
           \/ \E q \in Synced, r \in Foreign :
                 ArriveMain(q, r) \/ \E n \in Variant : ArriveVariant(q, n, r)
BY DEF Next, Process, Settle, Write, SyncClient

-----------------------------------------------------------------------------
(* The steps, by what they change                                          *)

\* A duplicate is removed, or is not, and is settled.
Removal(s) ==
    /\ s \in losers \cup copied /\ pc = "settling"
    /\ \/ files' = files /\ overrun' = overrun
       \/ files' = [files EXCEPT ![s] = NoFile] /\ overrun' = overrun \cup Lost(s)
    /\ losers' \subseteq losers /\ copied' \subseteq copied /\ losers \ {s} \subseteq losers'
    /\ faults' \in 0 .. MaxFaults
    /\ UNCHANGED <<pc, walk, groups, best, idx, writes, diskFull, clock, arrivals>>
    /\ UNCHANGED <<origin, tomb, known, owed, mine>>

LEMMA RemovalStep ==
    ASSUME TypeOK, NEW s, DiscardLoser(s) \/ RemoveCopied(s)
    PROVE  Removal(s)
<1>1. RemoveSource(s) =>
          /\ \/ files' = files /\ overrun' = overrun
             \/ files' = [files EXCEPT ![s] = NoFile] /\ overrun' = overrun \cup Lost(s)
          /\ faults' \in 0 .. MaxFaults
    BY NamesAssumption DEF RemoveSource, TypeOK
<1> QED BY <1>1 DEF DiscardLoser, RemoveCopied, Removal, TypeOK

\* The process is idle, and what is on disk stays.
Idle ==
    /\ pc' = "idle" /\ groups' = {} /\ losers' = {} /\ copied' = {} /\ best' = Empty
    /\ walk' = NoFiles /\ idx' = NoIndex /\ writes' = Empty /\ diskFull' = FALSE
    /\ faults' \in 0 .. MaxFaults
    /\ UNCHANGED <<files, clock, arrivals, history>>

LEMMA IdleStep ==
    ASSUME TypeOK, Read \/ EndRequest \/ Crash
    PROVE  Idle
BY NamesAssumption DEF Read, EndRequest, Crash, Forget, Idle, TypeOK

\* A request is going to write, what and at which paths.
Begin(tree) ==
    /\ pc = "loaded" /\ pc' = "writing" /\ clock' = clock + 2 /\ clock <= 2 * MaxWrites
    /\ DOMAIN writes' \subseteq tree
    /\ \/ \E x \in Content : \A p \in DOMAIN writes' :
            writes'[p] = LiveAt(NextGen(idx[p], clock), clock, x)
       \/ \A p \in DOMAIN writes' :
            idx[p] # NoFile /\ writes'[p] = TombstoneAt(NextGen(idx[p], clock), clock)
    /\ UNCHANGED <<files, loadVars, idx, diskFull, arrivals, faults, history>>

LEMMA BeginStep ==
    ASSUME NEW tree, BeginPut(tree) \/ BeginRemove(tree)
    PROVE  Begin(tree)
<1>1. CASE BeginPut(tree)
    BY <1>1 DEF BeginPut, Begin
<1>2. CASE BeginRemove(tree)
    BY <1>2 DEF BeginRemove, Begin
<1> QED BY <1>1, <1>2

\* The slot a record arrives in.
Arrives(s, r) ==
    /\ s \in Slot /\ s[1] \in Synced /\ r \in Foreign
    /\ files' = [files EXCEPT ![s] = r]
    /\ \/ /\ s[2] = Main /\ UNCHANGED origin
          /\ files[s] # NoFile => Outranks(r, files[s])
          /\ files[s] # NoFile =>
                \A v \in owed' \ Claim(s[1], r) : v.path # s[1] \/ v.content # files[s].content
       \/ s[2] # Main /\ origin[s] \in {NoFile, r} /\ origin' = [origin EXCEPT ![s] = r]
    /\ arrivals' \in 0 .. MaxArrivals /\ arrivals' # arrivals
    /\ tomb' = IF r.del /\ Effective(r) > tomb[s[1]]
               THEN [tomb EXCEPT ![s[1]] = Effective(r)] ELSE tomb
    /\ mine' = [mine EXCEPT ![s[1]] = Nothing]
    /\ known' = known \cup Claim(s[1], r)
    /\ owed' \subseteq owed \cup (Claim(s[1], r) \ known)
    /\ overrun' = overrun \ Claim(s[1], r)
    /\ UNCHANGED <<pc, loadVars, idx, writes, diskFull, clock, faults>>

LEMMA ArriveStep ==
    ASSUME TypeOK, NEW q \in Synced, NEW r \in Foreign
    PROVE  /\ ArriveMain(q, r) => Arrives(<<q, Main>>, r)
           /\ \A n \in Variant : ArriveVariant(q, n, r) => Arrives(<<q, n>>, r)
<1>1. <<q, Main>> \in Slot /\ \A n \in Variant : <<q, n>> \in Slot /\ n # Main
    BY SlotFacts, NamesAssumption
<1>2. ASSUME NEW kept, kept \subseteq owed, Arrival(q, r, kept)
      PROVE  /\ arrivals' \in 0 .. MaxArrivals /\ arrivals' # arrivals
             /\ owed' \subseteq kept \cup Claim(q, r)
             /\ owed' \subseteq owed \cup (Claim(q, r) \ known)
    BY <1>2, NamesAssumption DEF Arrival, TypeOK
<1>3. ASSUME ArriveMain(q, r) PROVE Arrives(<<q, Main>>, r)
    BY <1>1, <1>2, <1>3 DEF ArriveMain, Arrival, Arrives
<1>4. ASSUME NEW n \in Variant, ArriveVariant(q, n, r) PROVE Arrives(<<q, n>>, r)
    BY <1>1, <1>2, <1>4 DEF ArriveVariant, Arrival, Arrives
<1> QED BY <1>3, <1>4

-----------------------------------------------------------------------------
(* How a load goes, and what it leaves in the index                        *)

LEMMA LostFacts ==
    ASSUME TypeOK, NEW s \in Slot
    PROVE  /\ Lost(s) \subseteq Versions
           /\ \A v \in Lost(s) : v.path = s[1]
           /\ files[s] \in {NoFile, walk[s]} => Lost(s) = {}
<1>1. ASSUME files[s] # NoFile, ~files[s].del
      PROVE  Version(s[1], files[s]) \in Versions /\ Version(s[1], files[s]).path = s[1]
    <2>1. files[s] \in Record /\ s[1] \in Path
        BY <1>1, SlotFacts DEF TypeOK
    <2> QED BY <1>1, <2>1, RecordFacts DEF Version, Versions
<1> QED BY <1>1 DEF Lost, Unread, Claim

LEMMA EmptyFacts == DOMAIN Empty = {}
BY DEF Empty

LEMMA InitLoading == Init => Loading
<1> SUFFICES ASSUME Init PROVE Loading
    OBVIOUS
<1>1. /\ NoFiles \in [Slot -> Record \cup {NoFile}]
      /\ NoIndex \in [Path -> LiveRecord \cup {NoFile}]
      /\ \A s \in Slot : NoFiles[s] = NoFile
    BY DEF NoFiles, NoIndex
<1>2. TypeOK
    <2>1. clock \in 2 .. (2 * MaxWrites + 2) /\ arrivals \in 0 .. MaxArrivals /\ faults \in 0 .. MaxFaults
        BY NamesAssumption DEF Init
    <2>2. /\ tomb \in [Path -> Nat] /\ mine \in [Path -> Content \cup {Nothing, Deleted}]
          /\ DOMAIN writes = {} /\ diskFull \in BOOLEAN
        BY EmptyFacts DEF Init
    <2> QED BY <1>1, <2>1, <2>2 DEF Init, TypeOK
<1>3. Phases
    BY NamesAssumption DEF Init, Phases
<1>4. VariantsFixed /\ TombTells /\ StampsKnown
    BY <1>1 DEF Init, VariantsFixed, TombTells, StampsKnown, NoFiles
<1>5. Unsettled /\ Choice /\ IndexTells /\ WritesFresh
    BY EmptyFacts DEF Init, Unsettled, Stands, Choice, IndexTells, WritesFresh
<1> QED BY <1>2, <1>3, <1>4, <1>5 DEF Loading

LEMMA WalkLoading == Loading /\ Walk => Loading'
<1> SUFFICES ASSUME Loading, Walk PROVE Loading'
    OBVIOUS
<1>1. /\ pc = "idle" /\ pc' = "settling" /\ walk' = files /\ UNCHANGED files
      /\ groups' = {p \in Path : Candidates(files, p) # {}}
      /\ losers' = {} /\ copied' = {} /\ idx' = NoIndex /\ writes' = Empty
      /\ UNCHANGED <<clock, arrivals, history>>
    BY DEF Walk, Loading, Phases
<1>2. TypeOK'
    <2>1. faults' \in 0 .. MaxFaults
        BY NamesAssumption DEF Walk, Loading, TypeOK
    <2>3. diskFull' \in BOOLEAN
        BY DEF Walk
    <2>2. NoIndex \in [Path -> LiveRecord \cup {NoFile}]
        BY DEF NoIndex
    <2> QED BY <1>1, <2>1, <2>2, <2>3, EmptyFacts DEF Loading, TypeOK, Walk, history
<1>3. Phases' /\ VariantsFixed' /\ TombTells' /\ StampsKnown'
    BY <1>1 DEF Loading, Phases, VariantsFixed, TombTells, StampsKnown, history
<1>4. Unsettled' /\ Choice' /\ WritesFresh'
    BY <1>1, EmptyFacts DEF Unsettled, Stands, Choice, WritesFresh
<1>5. IndexTells'
    BY <1>1, NamesAssumption DEF IndexTells, NoIndex
<1> QED BY <1>2, <1>3, <1>4, <1>5 DEF Loading

LEMMA SettleLoading ==
    ASSUME Loading, NEW q \in Path, SettlePath(q)
    PROVE  Loading'
<1>1. PICK w \in Winners(q) :
          /\ pc = "settling" /\ losers = {} /\ copied = {} /\ q \in groups
          /\ groups' = groups \ {q} /\ best' = w
          /\ losers' = Candidates(walk, q) \ {w} /\ idx' = Indexed(q, walk[w])
          /\ UNCHANGED <<files, pc, walk, copied, writes, diskFull, clock, arrivals, faults, history>>
    BY DEF SettlePath
<1>2. /\ TypeOK /\ w \in Candidates(walk, q) /\ w \in Slot /\ w[1] = q /\ walk[w] \in Record
    BY <1>1 DEF Winners, Foremost, Candidates, Loading, TypeOK
<1>3. ~walk[w].del => Normalized(walk[w]) \in LiveRecord
    BY <1>2, RecordFacts, NormalizedFacts
<1>4. /\ idx' \in [Path -> LiveRecord \cup {NoFile}]
      /\ \A p \in Path : p # q => idx'[p] = idx[p]
      /\ q \in Synced => idx'[q] = Told(w)
    <2>1. q \in Synced => idx[q] = NoFile
        BY <1>1 DEF Loading, IndexTells
    <2> QED BY <1>1, <1>2, <1>3, <2>1 DEF Indexed, Told, TypeOK
<1>5. TypeOK'
    BY <1>1, <1>2, <1>4, SlotFacts DEF TypeOK, Candidates, history
<1>6. Phases' /\ VariantsFixed' /\ TombTells' /\ StampsKnown' /\ WritesFresh'
    BY <1>1, EmptyFacts DEF Loading, Phases, VariantsFixed, TombTells, StampsKnown, WritesFresh, history
<1>7. Unsettled'
    BY <1>1 DEF Loading, Unsettled, Stands
<1>8. Choice'
    <2> SUFFICES ASSUME losers' \cup copied' # {} PROVE Choice'
        BY DEF Choice
    <2>1. PICK s \in Candidates(walk, q) : s # w
        BY <1>1
    <2>2. q \in Synced
        BY <1>2, <2>1, SlotFacts DEF Candidates
    <2>3. Stands(w)
        BY <1>1, <1>2, <2>2, RecordFacts DEF Loading, Unsettled, Stands
    <2>4. w \in Winners(q)'
        BY <1>1 DEF Winners, Foremost, Candidates
    <2> QED BY <1>1, <1>2, <1>4, <2>2, <2>3, <2>4 DEF Choice, Stands, Told, Candidates
<1>9. IndexTells'
    <2> SUFFICES ASSUME NEW p \in Synced
                 PROVE  IF p \in groups' \/ Candidates(walk, p) = {} THEN idx'[p] = NoFile
                        ELSE \E x \in Winners(p) : idx'[p] = Told(x)
        BY <1>1 DEF IndexTells, Winners, Told, Foremost, Candidates
    <2>1. p \in Path
        BY NamesAssumption
    <2>2. CASE p = q
        BY <1>1, <1>2, <1>4, <2>2
    <2>3. CASE p # q
        BY <1>1, <1>4, <2>1, <2>3 DEF Loading, IndexTells
    <2> QED BY <2>2, <2>3
<1> QED BY <1>5, <1>6, <1>7, <1>8, <1>9 DEF Loading

\* What a duplicate that is settled has to do with the winner.
LEMMA ChoiceFacts ==
    ASSUME Loading, NEW s \in losers \cup copied
    PROVE  /\ pc = "settling" /\ best \in Slot /\ s \in Slot /\ s # best /\ s[1] = best[1]
           /\ best[1] \in Synced /\ best[1] \in Path /\ best[1] \notin groups
           /\ walk[s] \in Record /\ walk[best] \in Record
           /\ Stands(best) /\ files[best] \in Record
           /\ ~Outranks(walk[s], walk[best]) /\ ~Outranks(walk[s], files[best])
           /\ s[2] # Main => files[s] \in {NoFile, walk[s]}
           /\ best \in Candidates(walk, best[1]) /\ s \in Candidates(walk, best[1])
           /\ idx[best[1]] = Told(best)
           /\ walk[s].stamp \in Stamps(s[2])
<1>1. pc = "settling"
    BY DEF Loading, Phases
<1>2. /\ best \in Winners(best[1]) /\ best[1] \in Synced /\ s \in Candidates(walk, best[1])
      /\ s # best /\ Stands(best) /\ best[1] \notin groups /\ idx[best[1]] = Told(best)
    BY DEF Loading, Choice
<1>3. /\ best \in Candidates(walk, best[1]) /\ ~Outranks(walk[s], walk[best])
    BY <1>2 DEF Winners, Foremost
<1>4. /\ best \in Slot /\ s \in Slot /\ s[1] = best[1] /\ walk[s] \in Record /\ walk[best] \in Record
    BY <1>2, <1>3 DEF Candidates, Loading, TypeOK
<1>5. s[2] # Main => files[s] \in {NoFile, walk[s]}
    BY <1>4, RecordFacts DEF Loading, VariantsFixed
<1>7. files[best] \in Record /\ ~Outranks(walk[s], files[best])
    <2>1. files[best] \in Record
        BY <1>2, <1>4 DEF Stands, Loading, TypeOK
    <2> QED BY <1>2, <1>3, <1>4, <2>1, OutranksOrder DEF Stands
<1>6. walk[s].stamp \in Stamps(s[2])
    BY <1>2, <1>4, RecordFacts DEF Loading, StampsKnown
<1> QED BY <1>1, <1>2, <1>3, <1>4, <1>5, <1>6, <1>7, NamesAssumption

LEMMA RemovalLoading ==
    ASSUME Loading, NEW s, Removal(s)
    PROVE  Loading'
<1>1. /\ s \in losers \cup copied /\ pc = "settling" /\ pc' = pc
      /\ losers' \subseteq losers /\ copied' \subseteq copied /\ faults' \in 0 .. MaxFaults
      /\ UNCHANGED <<walk, groups, best, idx, writes, diskFull, clock, arrivals>>
      /\ UNCHANGED <<origin, tomb, known, owed, mine>> /\ TypeOK
    BY DEF Removal, Loading, history
<1>2. s \in Slot /\ s # best /\ s[1] = best[1] /\ best[1] \notin groups
    BY <1>1, ChoiceFacts
<1>3. /\ files' \in [Slot -> Record \cup {NoFile}]
      /\ \A x \in Slot : /\ files'[x] \in {files[x], NoFile}
                         /\ x # s => files'[x] = files[x]
    BY <1>1, <1>2 DEF Removal, TypeOK
<1>4. TypeOK'
    <2>1. overrun' \subseteq Versions
        BY <1>1, <1>2, LostFacts DEF Removal, TypeOK
    <2> QED BY <1>1, <1>3, <2>1 DEF TypeOK
<1>5. Phases' /\ WritesFresh' /\ IndexTells'
    BY <1>1 DEF Loading, Phases, WritesFresh, IndexTells, Winners, Told, Foremost, Candidates
<1>6. VariantsFixed' /\ TombTells' /\ StampsKnown'
    BY <1>1, <1>3 DEF Loading, VariantsFixed, TombTells, StampsKnown
<1>7. Unsettled'
    BY <1>1, <1>2, <1>3 DEF Loading, Unsettled, Stands
<1>8. Choice'
    <2>1. best \in Slot
        BY <1>1, ChoiceFacts
    <2> QED BY <1>1, <1>3, <1>2, <2>1 DEF Loading, Choice, Stands, Winners, Told, Foremost, Candidates
<1> QED BY <1>4, <1>5, <1>6, <1>7, <1>8 DEF Loading

\* What a conflict copy is made of.
LEMMA LoserFacts ==
    ASSUME Loading, NEW s \in losers, ~Discarded(walk[best], walk[s])
    PROVE  LET r == Normalized(walk[s])
               c == ConflictPath(s[1], r.stamp, s[2])
           IN  /\ r \in LiveRecord /\ r \in Record /\ r # NoFile /\ r.del = FALSE
               /\ r.stamp = walk[s].stamp /\ r.content = walk[s].content /\ ~walk[s].del
               /\ c \in Path /\ c \notin Synced /\ Original(c) = s[1]
               /\ <<c, Main>> \in Slot /\ CopyOf(s, walk[s]) = <<c, Main>>
<1>1. /\ walk[s] \in Record /\ s \in Slot /\ s[1] \in Synced /\ walk[s].stamp \in Stamps(s[2])
    BY ChoiceFacts
<1>2. ~walk[s].del /\ walk[s] \in LiveRecord
    BY <1>1, RecordFacts DEF Discarded
<1>3. LET r == Normalized(walk[s])
      IN  /\ r \in LiveRecord /\ r \in Record /\ r.del = FALSE /\ r # NoFile
          /\ r.stamp = walk[s].stamp /\ r.content = walk[s].content
    BY <1>2, NormalizedFacts, NoFileAssumption
<1>4. s[2] \in Variant \cup {Main}
    BY <1>1, SlotFacts
<1> QED BY <1>1, <1>2, <1>3, <1>4, ConflictAssumption, SlotFacts DEF CopyOf, Copy

LEMMA KeepLoading ==
    ASSUME Loading, NEW s \in losers, KeepLoser(s)
    PROVE  Loading'
<1> DEFINE r == Normalized(walk[s])
           c == ConflictPath(s[1], r.stamp, s[2])
<1>1. /\ r \in LiveRecord /\ r \in Record /\ r # NoFile /\ r.del = FALSE
      /\ c \in Path /\ c \notin Synced /\ <<c, Main>> \in Slot
    BY LoserFacts DEF KeepLoser
<1>2. /\ pc = "settling" /\ copied = {} /\ losers' = losers \ {s} /\ copied' \subseteq {s}
      /\ idx' = [idx EXCEPT ![c] = r]
      /\ files' = files \/ files' = [files EXCEPT ![<<c, Main>>] = r]
      /\ UNCHANGED <<pc, walk, groups, best, writes, diskFull, clock, arrivals, faults>>
      /\ UNCHANGED <<origin, tomb, known, owed, overrun, mine>> /\ TypeOK
    BY DEF KeepLoser, Removable, Loading, history
<1> HIDE DEF r, c
<1>3. /\ idx' \in [Path -> LiveRecord \cup {NoFile}]
      /\ files' \in [Slot -> Record \cup {NoFile}]
      /\ \A p \in Synced : idx'[p] = idx[p]
      /\ \A x \in Slot : x # <<c, Main>> => files'[x] = files[x]
      /\ files'[<<c, Main>>] \in {files[<<c, Main>>], r}
    BY <1>1, <1>2, NamesAssumption DEF TypeOK
<1>4. \A x \in Slot : x[1] \in Synced \/ x[2] # Main => files'[x] = files[x]
    BY <1>1, <1>3
<1>5. TypeOK'
    BY <1>2, <1>3, ChoiceFacts DEF TypeOK
<1>6. Phases' /\ WritesFresh' /\ IndexTells'
    BY <1>2, <1>3, EmptyFacts DEF Loading, Phases, WritesFresh, IndexTells, Winners, Told, Foremost, Candidates
<1>7. VariantsFixed' /\ StampsKnown' /\ Unsettled'
    BY <1>2, <1>4 DEF Loading, VariantsFixed, StampsKnown, Unsettled, Stands
<1>8. TombTells'
    <2> SUFFICES ASSUME NEW x \in Slot, NEW o \in {files'[x], walk[x]}, o # NoFile, o.del
                 PROVE  Effective(o) <= tomb[x[1]]
        BY <1>2 DEF TombTells
    <2>1. o \in {files[x], walk[x]}
        BY <1>1, <1>3
    <2> QED BY <2>1 DEF Loading, TombTells
<1>9. Choice'
    <2>1. /\ best \in Slot /\ best[1] \in Synced /\ idx'[best[1]] = idx[best[1]]
          /\ files'[best] = files[best]
        BY <1>3, <1>4, ChoiceFacts
    <2> QED BY <1>2, <2>1 DEF Loading, Choice, Stands, Winners, Told, Foremost, Candidates
<1> QED BY <1>5, <1>6, <1>7, <1>8, <1>9 DEF Loading

LEMMA LoadedLoading == Loading /\ Loaded => Loading'
<1> SUFFICES ASSUME Loading, Loaded PROVE Loading'
    OBVIOUS
<1> USE DEF Loaded, Loading, loadVars, history
<1>1. TypeOK' /\ Phases' /\ VariantsFixed' /\ TombTells' /\ StampsKnown'
    BY DEF TypeOK, Phases, VariantsFixed, TombTells, StampsKnown
<1>2. Unsettled' /\ Choice' /\ WritesFresh'
    BY DEF Unsettled, Stands, Choice, WritesFresh
<1>3. IndexTells'
    BY DEF IndexTells, Winners, Told, Foremost, Candidates
<1> QED BY <1>1, <1>2, <1>3

LEMMA IdleLoading == Loading /\ Idle => Loading'
<1> SUFFICES ASSUME Loading, Idle PROVE Loading'
    OBVIOUS
<1>1. /\ NoFiles \in [Slot -> Record \cup {NoFile}] /\ \A s \in Slot : NoFiles[s] = NoFile
      /\ NoIndex \in [Path -> LiveRecord \cup {NoFile}]
    BY DEF NoFiles, NoIndex
<1>2. TypeOK'
    BY <1>1, EmptyFacts DEF Loading, TypeOK, Idle, history
<1>3. VariantsFixed' /\ TombTells' /\ StampsKnown' /\ Phases'
    BY <1>1 DEF Loading, VariantsFixed, TombTells, StampsKnown, Phases, Idle, history
<1>4. Unsettled' /\ Choice' /\ WritesFresh' /\ IndexTells'
    BY EmptyFacts DEF Unsettled, Stands, Choice, WritesFresh, IndexTells, Idle
<1> QED BY <1>2, <1>3, <1>4 DEF Loading

\* The instant at which a request writes is one of this device's, and not before.
LEMMA ClockFacts ==
    ASSUME Loading
    PROVE  /\ clock \in Nat /\ clock >= 2
           /\ clock <= 2 * MaxWrites => clock \in OwnStamps
           /\ clock > 2 => clock - 2 \in OwnStamps /\ clock - 2 \in Nat \ {0}
<1>1. PICK k \in 1 .. (MaxWrites + 1) : clock = 2 * k
    BY DEF Loading, Phases
<1>2. ASSUME clock <= 2 * MaxWrites PROVE clock \in OwnStamps
    <2>1. k \in 1 .. MaxWrites
        BY <1>1, <1>2, NamesAssumption
    <2> QED BY <1>1, <2>1 DEF OwnStamps
<1>3. ASSUME clock > 2 PROVE clock - 2 \in OwnStamps
    <2>1. k - 1 \in 1 .. MaxWrites /\ clock - 2 = 2 * (k - 1)
        BY <1>1, <1>3, NamesAssumption
    <2> QED BY <2>1 DEF OwnStamps
<1> QED BY <1>1, <1>2, <1>3, NamesAssumption

LEMMA NextGenFacts ==
    ASSUME NEW o \in LiveRecord \cup {NoFile}, NEW now \in Nat
    PROVE  /\ NextGen(o, now) \in Nat /\ NextGen(o, now) >= now
           /\ o # NoFile => NextGen(o, now) > o.gen
           /\ o = NoFile => NextGen(o, now) = now
<1>1. o # NoFile => o.gen \in Nat
    BY DEF LiveRecord
<1>2. NextGen(o, now) = IF o # NoFile /\ o.gen >= now THEN o.gen + 1 ELSE now
    BY DEF NextGen
<1> QED BY <1>1, <1>2

LEMMA BeginLoading ==
    ASSUME Loading, NEW tree \in Trees, Begin(tree)
    PROVE  Loading'
<1>1. /\ pc = "loaded" /\ pc' = "writing" /\ clock' = clock + 2 /\ clock <= 2 * MaxWrites
      /\ DOMAIN writes' \subseteq Path
      /\ UNCHANGED <<files, walk, groups, best, losers, copied, idx, diskFull, arrivals, faults>>
      /\ UNCHANGED <<origin, tomb, known, owed, overrun, mine>> /\ TypeOK /\ clock \in Nat
    BY NamesAssumption, ClockFacts DEF Begin, loadVars, history, Loading
<1>2. \A p \in DOMAIN writes' :
          /\ writes'[p] \in Record /\ writes'[p].stamp = clock
          /\ writes'[p].gen = NextGen(idx[p], clock)
          /\ writes'[p].del => idx[p] # NoFile
    <2>1. \A p \in DOMAIN writes' : NextGen(idx[p], clock) \in Nat
        BY <1>1, NextGenFacts DEF TypeOK
    <2>2. CASE \E x \in Content : \A p \in DOMAIN writes' :
                   writes'[p] = LiveAt(NextGen(idx[p], clock), clock, x)
        <3> PICK x \in Content : \A p \in DOMAIN writes' :
                writes'[p] = LiveAt(NextGen(idx[p], clock), clock, x)
            BY <2>2
        <3> SUFFICES ASSUME NEW p \in DOMAIN writes'
                     PROVE  LET r == writes'[p]
                            IN  /\ r \in Record /\ r.stamp = clock /\ ~r.del
                                /\ r.gen = NextGen(idx[p], clock)
            OBVIOUS
        <3> DEFINE g == NextGen(idx[p], clock)
        <3>1. g \in Nat /\ writes'[p] = [gen |-> g, stamp |-> clock, del |-> FALSE, content |-> x]
            BY <2>1 DEF LiveAt
        <3> HIDE DEF g
        <3>2. writes'[p] \in LiveRecord
            BY <1>1, <3>1 DEF LiveRecord
        <3> QED BY <3>1, <3>2 DEF Record, g
    <2>3. CASE \A p \in DOMAIN writes' :
                   idx[p] # NoFile /\ writes'[p] = TombstoneAt(NextGen(idx[p], clock), clock)
        <3> SUFFICES ASSUME NEW p \in DOMAIN writes'
                     PROVE  LET r == writes'[p]
                            IN  /\ r \in Record /\ r.stamp = clock /\ idx[p] # NoFile
                                /\ r.gen = NextGen(idx[p], clock)
            OBVIOUS
        <3> DEFINE g == NextGen(idx[p], clock)
        <3>1. g \in Nat /\ writes'[p] = [gen |-> g, stamp |-> clock, del |-> TRUE, content |-> Nothing]
            BY <2>1, <2>3 DEF TombstoneAt
        <3> HIDE DEF g
        <3>2. writes'[p] \in Tombstone
            BY <1>1, <3>1 DEF Tombstone
        <3> QED BY <2>3, <3>1, <3>2 DEF Record, g
    <2> QED BY <2>2, <2>3 DEF Begin
<1>3. PICK k \in 1 .. (MaxWrites + 1) : clock = 2 * k
    BY DEF Loading, Phases
<1>4. clock + 2 = 2 * (k + 1) /\ k + 1 \in 1 .. (MaxWrites + 1)
      /\ clock + 2 \in 2 .. (2 * MaxWrites + 2)
    BY <1>1, <1>3, NamesAssumption
<1>5. TypeOK'
    BY <1>1, <1>2, <1>4 DEF TypeOK
<1>6. Phases' /\ WritesFresh'
    <2>1. clock' - 2 = clock /\ clock' > 2
        BY <1>1, ClockFacts
    <2> QED BY <1>1, <1>2, <1>4, <2>1 DEF Phases, WritesFresh, Loading
<1>7. VariantsFixed' /\ TombTells' /\ StampsKnown' /\ Unsettled'
    BY <1>1 DEF Loading, VariantsFixed, TombTells, StampsKnown, Unsettled, Stands
<1>8. Choice' /\ IndexTells'
    BY <1>1 DEF Loading, Choice, Stands, IndexTells, Winners, Told, Foremost, Candidates
<1> QED BY <1>5, <1>6, <1>7, <1>8 DEF Loading

\* What a request saves.
LEMMA SaveFacts ==
    ASSUME Loading, NEW q \in DOMAIN writes, Save(q)
    PROVE  /\ pc = "writing" /\ q \in Path /\ writes[q] \in Record /\ <<q, Main>> \in Slot
           /\ ~diskFull /\ clock > 2 /\ pc' = pc /\ losers = {} /\ copied = {} /\ groups = {}
           /\ files' = [files EXCEPT ![<<q, Main>>] = writes[q]]
           /\ files' \in [Slot -> Record \cup {NoFile}]
           /\ files'[<<q, Main>>] = writes[q]
           /\ \A x \in Slot : x # <<q, Main>> => files'[x] = files[x]
           /\ DOMAIN writes' = DOMAIN writes \ {q}
           /\ \A p \in DOMAIN writes' : writes'[p] = writes[p]
           /\ tomb' \in [Path -> Nat] /\ \A p \in Path : tomb[p] <= tomb'[p]
           /\ writes[q].del => writes[q].gen <= tomb'[q]
           /\ writes[q].gen > 0 /\ Effective(writes[q]) = writes[q].gen
           /\ RankGen(writes[q]) = writes[q].gen
           /\ UNCHANGED <<loadVars, idx, diskFull, clock, arrivals, faults, origin, known>>
<1>1. /\ pc = "writing" /\ q \in Path /\ writes[q] \in Record /\ <<q, Main>> \in Slot /\ TypeOK
      /\ idx[q] \in LiveRecord \cup {NoFile}
    BY SlotFacts DEF Save, Loading, TypeOK
<1>2. /\ clock > 2 /\ writes[q].gen = NextGen(idx[q], clock - 2) /\ clock - 2 \in Nat \ {0}
    BY ClockFacts DEF Loading, WritesFresh
<1>3. writes[q].gen > 0 /\ writes[q].gen \in Nat
    <2>1. NextGen(idx[q], clock - 2) \in Nat /\ NextGen(idx[q], clock - 2) >= clock - 2
        BY <1>1, <1>2, NextGenFacts
    <2>2. \A g \in Nat, j \in Nat \ {0} : g >= j => g > 0
        OBVIOUS
    <2> QED BY <1>2, <2>1, <2>2
<1>4. Effective(writes[q]) = writes[q].gen /\ RankGen(writes[q]) = writes[q].gen
    BY <1>1, <1>3, RecordFacts
<1>5. /\ tomb' \in [Path -> Nat] /\ \A p \in Path : tomb[p] <= tomb'[p]
      /\ writes[q].del => writes[q].gen <= tomb'[q]
    BY <1>1, <1>3 DEF Save, TypeOK
<1>6. losers = {} /\ copied = {} /\ groups = {}
    BY <1>1 DEF Loading, Phases
<1>7. /\ files' = [files EXCEPT ![<<q, Main>>] = writes[q]]
      /\ files' \in [Slot -> Record \cup {NoFile}] /\ files'[<<q, Main>>] = writes[q]
      /\ \A x \in Slot : x # <<q, Main>> => files'[x] = files[x]
    BY <1>1 DEF Save, TypeOK
<1> QED BY <1>1, <1>2, <1>3, <1>4, <1>5, <1>6, <1>7 DEF Save

LEMMA SaveLoading ==
    ASSUME Loading, NEW q \in DOMAIN writes, Save(q)
    PROVE  Loading'
<1>1. /\ pc = "writing" /\ q \in Path /\ writes[q] \in Record /\ <<q, Main>> \in Slot
      /\ pc' = pc /\ losers = {} /\ copied = {} /\ groups = {}
      /\ files' \in [Slot -> Record \cup {NoFile}] /\ files'[<<q, Main>>] = writes[q]
      /\ \A x \in Slot : x # <<q, Main>> => files'[x] = files[x]
      /\ DOMAIN writes' = DOMAIN writes \ {q}
      /\ \A p \in DOMAIN writes' : writes'[p] = writes[p]
      /\ tomb' \in [Path -> Nat] /\ \A p \in Path : tomb[p] <= tomb'[p]
      /\ writes[q].del => writes[q].gen <= tomb'[q]
      /\ Effective(writes[q]) = writes[q].gen /\ RankGen(writes[q]) = writes[q].gen
      /\ UNCHANGED <<walk, groups, best, losers, copied, idx, diskFull, clock, arrivals, faults, origin, known>>
      /\ TypeOK
    BY SaveFacts DEF loadVars, Loading
<1>2. /\ owed' \subseteq Versions /\ overrun' \subseteq Versions
      /\ mine' \in [Path -> Content \cup {Nothing, Deleted}]
    <2>1. writes[q].gen \in Nat /\ (~writes[q].del => writes[q].content \in Content)
        BY <1>1, RecordFacts
    <2>2. ~writes[q].del => Version(q, writes[q]) \in Versions
        BY <1>1, <2>1 DEF Version, Versions
    <2>3. owed' = (owed \ Superseded(q)) \cup (IF writes[q].del THEN {} ELSE {Version(q, writes[q])})
        BY DEF Save
    <2>4. owed' \subseteq Versions
        BY <1>1, <2>2, <2>3 DEF TypeOK
    <2>5. mine' \in [Path -> Content \cup {Nothing, Deleted}]
        BY <1>1, <2>1 DEF Save, TypeOK
    <2>6. overrun' \subseteq Versions
        BY <1>1, LostFacts DEF Save, TypeOK
    <2> QED BY <2>4, <2>5, <2>6
<1>3. TypeOK'
    BY <1>1, <1>2 DEF TypeOK
<1>4. Phases' /\ WritesFresh'
    BY <1>1 DEF Loading, Phases, WritesFresh
<1>5. VariantsFixed' /\ Unsettled' /\ Choice' /\ IndexTells'
    BY <1>1, NamesAssumption
       DEF Loading, VariantsFixed, Unsettled, Stands, Choice, IndexTells, Winners, Told, Foremost, Candidates
<1>6. TombTells'
    <2> SUFFICES ASSUME NEW x \in Slot, NEW o \in {files'[x], walk[x]}, o # NoFile, o.del
                 PROVE  Effective(o) <= tomb'[x[1]]
        BY <1>1 DEF TombTells
    <2>1. CASE x = <<q, Main>> /\ o = files'[x]
        BY <1>1, <2>1
    <2>2. CASE ~(x = <<q, Main>> /\ o = files'[x])
        <3>1. o \in {files[x], walk[x]} /\ x[1] \in Path /\ o \in Record
            BY <1>1, <2>2, SlotFacts DEF TypeOK
        <3>2. Effective(o) <= tomb[x[1]]
            BY <3>1 DEF Loading, TombTells
        <3>3. Effective(o) \in Nat /\ tomb[x[1]] \in Nat /\ tomb'[x[1]] \in Nat
            BY <1>1, <3>1, RecordFacts DEF TypeOK
        <3> QED BY <1>1, <3>1, <3>2, <3>3
    <2> QED BY <2>1, <2>2
<1>7. StampsKnown'
    <2>1. writes[q].stamp \in Stamps(Main)
        BY ClockFacts, SaveFacts DEF Loading, WritesFresh, Stamps
    <2> QED BY <1>1, <2>1 DEF Loading, StampsKnown
<1> QED BY <1>3, <1>4, <1>5, <1>6, <1>7 DEF Loading

LEMMA ArriveLoading ==
    ASSUME Loading, NEW s, NEW r, Arrives(s, r)
    PROVE  Loading'
<1>1. /\ s \in Slot /\ s[1] \in Synced /\ s[1] \in Path /\ r \in Foreign /\ r \in Record /\ r # NoFile
      /\ files' = [files EXCEPT ![s] = r] /\ arrivals' \in 0 .. MaxArrivals
      /\ UNCHANGED <<pc, walk, groups, best, losers, copied, idx, writes, diskFull, clock, faults>>
      /\ TypeOK
    BY NamesAssumption, NoFileAssumption DEF Arrives, loadVars, Loading
<1>2. /\ files' \in [Slot -> Record \cup {NoFile}] /\ files'[s] = r
      /\ \A x \in Slot : x # s => files'[x] = files[x]
    BY <1>1 DEF TypeOK
<1>3. /\ origin' \in [Slot -> Foreign \cup {NoFile}]
      /\ \A x \in Slot : x # s => origin'[x] = origin[x]
      /\ s[2] # Main => origin'[s] = r /\ origin[s] \in {NoFile, r}
    <2>0. origin \in [Slot -> Foreign \cup {NoFile}]
        BY DEF Loading, VariantsFixed
    <2>1. CASE s[2] = Main
        <3>1. origin' = origin
            BY <2>1 DEF Arrives
        <3> QED BY <2>0, <2>1, <3>1
    <2>2. CASE s[2] # Main
        <3>1. origin[s] \in {NoFile, r} /\ origin' = [origin EXCEPT ![s] = r]
            BY <2>2 DEF Arrives
        <3> QED BY <1>1, <2>0, <2>2, <3>1
    <2> QED BY <2>1, <2>2
<1>4. /\ tomb' \in [Path -> Nat] /\ \A p \in Path : tomb[p] <= tomb'[p]
      /\ r.del => Effective(r) <= tomb'[s[1]]
    BY <1>1, RecordFacts DEF Arrives, TypeOK
<1>5. s[2] # Main => walk[s] \in {NoFile, r} /\ files[s] \in {NoFile, r}
    BY <1>1, <1>3 DEF Loading, VariantsFixed
<1>6. TypeOK'
    <2>1. Claim(s[1], r) \subseteq Versions
        BY <1>1, RecordFacts DEF Claim, Version, Versions
    <2>2. known' \subseteq Versions /\ owed' \subseteq Versions /\ overrun' \subseteq Versions
        BY <1>1, <2>1 DEF Arrives, TypeOK
    <2>3. mine' \in [Path -> Content \cup {Nothing, Deleted}]
        BY <1>1 DEF Arrives, TypeOK
    <2>4. origin' \in [Slot -> Record \cup {NoFile}]
        BY <1>3, NamesAssumption
    <2> QED BY <1>1, <1>2, <1>4, <2>2, <2>3, <2>4 DEF TypeOK
<1>7. Phases' /\ WritesFresh' /\ IndexTells'
    BY <1>1 DEF Loading, Phases, WritesFresh, IndexTells, Winners, Told, Foremost, Candidates
<1>8. VariantsFixed'
    BY <1>1, <1>2, <1>3, <1>5 DEF Loading, VariantsFixed
<1>13. ASSUME NEW x \in Slot, walk[x] \in Record, Stands(x) PROVE Stands(x)'
    <2>1. CASE x # s
        BY <1>1, <1>2, <1>13, <2>1 DEF Stands
    <2>2. CASE x = s /\ s[2] # Main
        BY <1>1, <1>2, <1>5, <1>13, <2>2, NoFileAssumption DEF Stands
    <2>3. CASE x = s /\ s[2] = Main
        <3>1. files[s] \in Record /\ Outranks(r, files[s])
            BY <1>1, <1>13, <2>3 DEF Arrives, Stands, TypeOK
        <3>2. Outranks(r, walk[s])
            BY <1>1, <1>13, <2>3, <3>1, OutranksOrder DEF Stands
        <3> QED BY <1>1, <1>2, <2>3, <3>2 DEF Stands
    <2> QED BY <2>1, <2>2, <2>3
<1>9. Unsettled'
    <2> SUFFICES ASSUME pc = "settling", NEW x \in Slot,
                        x[1] \in Synced, x[1] \in groups, walk[x] # NoFile
                 PROVE  Stands(x)'
        BY <1>1 DEF Unsettled
    <2>1. walk[x] \in Record /\ Stands(x)
        BY <1>1 DEF Loading, Unsettled, TypeOK
    <2> QED BY <1>13, <2>1
<1>10. Choice'
    <2> SUFFICES ASSUME losers \cup copied # {} PROVE Choice'
        BY <1>1 DEF Choice
    <2>1. best \in Slot /\ walk[best] \in Record /\ Stands(best)
        BY ChoiceFacts
    <2>2. PICK w \in Slot : w = best
        BY <2>1
    <2>3. Stands(w)' /\ best' = w
        BY <1>1, <1>13, <2>1, <2>2
    <2> QED BY <1>1, <2>2, <2>3 DEF Loading, Choice, Stands, Winners, Told, Foremost, Candidates
<1>11. TombTells'
    <2> SUFFICES ASSUME NEW x \in Slot, NEW o \in {files'[x], walk[x]}, o # NoFile, o.del
                 PROVE  Effective(o) <= tomb'[x[1]]
        BY <1>1 DEF TombTells
    <2>1. CASE x = s /\ o = files'[x]
        BY <1>2, <1>4, <2>1
    <2>2. CASE ~(x = s /\ o = files'[x])
        <3>1. o \in {files[x], walk[x]} /\ x[1] \in Path /\ o \in Record
            BY <1>1, <1>2, <2>2, SlotFacts DEF TypeOK
        <3>2. Effective(o) <= tomb[x[1]]
            BY <3>1 DEF Loading, TombTells
        <3>3. Effective(o) \in Nat /\ tomb[x[1]] \in Nat /\ tomb'[x[1]] \in Nat
            BY <1>1, <1>4, <3>1, RecordFacts DEF TypeOK
        <3> QED BY <1>4, <3>1, <3>2, <3>3
    <2> QED BY <2>1, <2>2
<1>12. StampsKnown'
    <2>1. r.stamp \in Stamps(s[2])
        BY <1>1 DEF Stamps
    <2> QED BY <1>1, <1>2, <2>1 DEF Loading, StampsKnown
<1> QED BY <1>6, <1>7, <1>8, <1>9, <1>10, <1>11, <1>12 DEF Loading

LEMMA StepLoading == Loading /\ [Next]_vars => Loading'
<1> SUFFICES ASSUME Loading, [Next]_vars PROVE Loading'
    OBVIOUS
<1>1. TypeOK
    BY DEF Loading
<1>2. CASE UNCHANGED vars
    BY <1>2 DEF vars, loadVars, history, Loading, TypeOK, Phases, VariantsFixed, Unsettled, Stands, Choice,
                IndexTells, TombTells, WritesFresh, StampsKnown, Winners, Told, Foremost, Candidates
<1>3. CASE \E s \in losers : DiscardLoser(s) \/ KeepLoser(s)
    BY <1>1, <1>3, RemovalStep, RemovalLoading, KeepLoading
<1>4. CASE \E s \in copied : RemoveCopied(s)
    BY <1>1, <1>4, RemovalStep, RemovalLoading
<1>5. CASE Read \/ EndRequest \/ Crash
    BY <1>1, <1>5, IdleStep, IdleLoading
<1>6. CASE \E tree \in Trees : BeginPut(tree) \/ BeginRemove(tree)
    BY <1>6, BeginStep, BeginLoading
<1>7. CASE \E q \in Synced, r \in Foreign :
               ArriveMain(q, r) \/ \E n \in Variant : ArriveVariant(q, n, r)
    BY <1>1, <1>7, ArriveStep, ArriveLoading
<1> QED BY <1>2, <1>3, <1>4, <1>5, <1>6, <1>7, StepCases, WalkLoading, SettleLoading,
           LoadedLoading, SaveLoading

\* Every variable keeps its type (manifest.go's loadManifestIndex, the writes of
\* vault.go, the deliveries of a sync client).
THEOREM TypeCorrect == Spec => []TypeOK
<1>1. Loading => TypeOK
    BY DEF Loading
<1> QED BY InitLoading, StepLoading, <1>1, PTL DEF Spec

-----------------------------------------------------------------------------
(* Loading changes nothing that is shown                                   *)

LEMMA ViewSame ==
    ASSUME NEW p, \A s \in Slot : s[1] = p => files'[s] = files[s]
    PROVE  View(files', p) = View(files, p)
<1>1. Candidates(files', p) = Candidates(files, p)
    BY DEF Candidates
<1>2. \A s \in Candidates(files, p) : files'[s] = files[s]
    BY DEF Candidates
<1>3. Foremost(files', Candidates(files', p)) = Foremost(files, Candidates(files, p))
    BY <1>1, <1>2 DEF Foremost
<1> QED BY <1>2, <1>3 DEF View, Foremost

\* What a removal changes at a path behind the back of a load: see LoadKeepsView.
RemovedUnread(p) == \E s \in Slot : s[1] = p /\ Unread(s) /\ files'[s] # files[s]

\* What the load has read and removes is outranked, or equalled, by the winner or by
\* what was delivered over it.
LEMMA RemovalKeepsView ==
    ASSUME Loading, NEW s, Removal(s), NEW p \in Synced, ~RemovedUnread(p)
    PROVE  View(files', p) \subseteq View(files, p)
<1>1. /\ best \in Slot /\ s \in Slot /\ s # best /\ s[1] = best[1]
      /\ walk[s] \in Record /\ files[best] \in Record
      /\ ~Outranks(walk[s], files[best]) /\ TypeOK
    BY ChoiceFacts DEF Removal, Loading
<1>2. \A x \in Slot : files'[x] \in {files[x], NoFile} /\ (x # s => files'[x] = files[x])
    BY <1>1 DEF Removal, TypeOK
<1>3. CASE p # s[1]
    BY <1>1, <1>2, <1>3, ViewSame
<1>4. CASE p = s[1]
    <2>1. best \in Candidates(files', p) /\ files'[best] = files[best]
        BY <1>1, <1>2, <1>4, RecordFacts DEF Candidates
    <2>2. ASSUME NEW x \in Foremost(files', Candidates(files', p))
          PROVE  x \in Foremost(files, Candidates(files, p)) /\ files'[x] = files[x]
        <3>1. /\ x \in Slot /\ x[1] = p /\ files'[x] # NoFile /\ files'[x] = files[x]
              /\ x \in Candidates(files, p) /\ files[x] \in Record
            BY <1>1, <1>2 DEF Foremost, Candidates, TypeOK
        <3>2. ~Outranks(files[best], files[x])
            BY <1>1, <1>2, <2>1, <3>1 DEF Foremost
        <3>3. ASSUME NEW y \in Candidates(files, p) PROVE ~Outranks(files[y], files[x])
            <4>1. CASE y \in Candidates(files', p)
                <5>1. files'[y] = files[y]
                    BY <1>2, <4>1 DEF Candidates
                <5> QED BY <3>1, <4>1, <5>1 DEF Foremost
            <4>2. CASE y \notin Candidates(files', p)
                <5>1. y = s /\ files[y] # NoFile /\ files'[y] = NoFile
                    BY <1>1, <1>2, <4>2 DEF Candidates
                <5>2. files[y] = walk[s]
                    BY <1>1, <1>4, <5>1 DEF RemovedUnread, Unread
                <5> QED BY <1>1, <3>1, <3>2, <5>2, OutranksFacts
            <4> QED BY <4>1, <4>2
        <3> QED BY <3>1, <3>3 DEF Foremost
    <2> QED BY <2>2 DEF View
<1> QED BY <1>3, <1>4

LEMMA StepKeepsView ==
    ASSUME Loading, [Next]_vars, pc = "settling", arrivals' = arrivals, NEW p \in Synced,
           ~RemovedUnread(p)
    PROVE  View(files', p) \subseteq View(files, p)
<1>1. TypeOK
    BY DEF Loading
<1>2. UNCHANGED files => View(files', p) \subseteq View(files, p)
    BY ViewSame
<1>3. UNCHANGED vars => UNCHANGED files
    BY DEF vars
<1>4. ASSUME NEW s \in losers, KeepLoser(s) PROVE View(files', p) \subseteq View(files, p)
    <2> DEFINE c == ConflictPath(s[1], Normalized(walk[s]).stamp, s[2])
    <2>1. c \notin Synced
        BY <1>4, LoserFacts DEF KeepLoser
    <2>2. \A x \in Slot : x # <<c, Main>> => files'[x] = files[x]
        BY <1>1, <1>4 DEF KeepLoser, TypeOK
    <2> HIDE DEF c
    <2>3. \A x \in Slot : x[1] = p => files'[x] = files[x]
        BY <2>1, <2>2
    <2> QED BY <2>3, ViewSame
<1>5. ASSUME NEW s, DiscardLoser(s) \/ RemoveCopied(s) PROVE View(files', p) \subseteq View(files, p)
    BY <1>1, <1>5, RemovalStep, RemovalKeepsView
<1>6. ~(\E q \in Synced, r \in Foreign :
           ArriveMain(q, r) \/ \E n \in Variant : ArriveVariant(q, n, r))
    BY <1>1, ArriveStep DEF Arrives
<1>7. Read \/ EndRequest \/ Crash => UNCHANGED files
    BY DEF Read, EndRequest, Crash
<1>8. (\E q \in Path : SettlePath(q)) \/ Loaded => UNCHANGED files
    BY DEF SettlePath, Loaded
<1>9. ~Walk /\ (\A tree \in Trees : ~BeginPut(tree) /\ ~BeginRemove(tree)) /\ (\A q : ~Save(q))
    BY DEF Walk, BeginPut, BeginRemove, Save
<1> QED BY <1>2, <1>3, <1>4, <1>5, <1>6, <1>7, <1>8, <1>9, StepCases

\* Settling duplicates leaves every shared path as the next load shows it, whatever
\* fails, is killed or is delivered meanwhile (loadManifestIndex: the losers go, the
\* winner stays), but for a removal that hits what was delivered after the walk.
THEOREM LoadsKeepTheView == Spec => LoadKeepsView
<1> DEFINE A == pc = "settling" /\ arrivals' = arrivals
                  => \A p \in Synced :
                        \/ View(files', p) \subseteq View(files, p)
                        \/ \E s \in Slot : s[1] = p /\ Unread(s) /\ files'[s] # files[s]
<1>1. Loading /\ [Next]_vars => [A]_vars
    BY StepKeepsView DEF RemovedUnread
<1> QED BY InitLoading, StepLoading, <1>1, PTL DEF Spec, LoadKeepsView

-----------------------------------------------------------------------------
(* A device sees what it has written                                       *)

LEMMA TopFacts ==
    ASSUME NEW fs \in [Slot -> Record \cup {NoFile}], NEW p \in Synced, TopIn(fs, p)
    PROVE  /\ <<p, Main>> \in Slot /\ <<p, Main>> \in Candidates(fs, p)
           /\ \A w \in Foremost(fs, Candidates(fs, p)) : w = <<p, Main>>
<1>1. <<p, Main>> \in Slot /\ <<p, Main>> \in Candidates(fs, p)
    BY SlotFacts, NamesAssumption DEF Candidates, TopIn
<1> QED BY <1>1 DEF TopIn, Foremost

LEMMA TopShown ==
    ASSUME Loading, Top, pc = "loaded", NEW p \in Synced, mine[p] # Nothing
    PROVE  /\ mine[p] = Deleted => idx[p] = NoFile
           /\ mine[p] \in Content => idx[p] # NoFile /\ idx[p].content = mine[p]
<1>1. TopIn(walk, p) /\ TypeOK /\ p \notin groups
    BY DEF Top, Loading, Phases
<1>2. /\ <<p, Main>> \in Candidates(walk, p) /\ \A w \in Winners(p) : w = <<p, Main>>
    BY <1>1, TopFacts DEF Winners, TypeOK
<1>3. idx[p] = Told(<<p, Main>>) /\ walk[<<p, Main>>] \in Record
    BY <1>1, <1>2 DEF Loading, IndexTells, Candidates, TypeOK
<1>4. CASE walk[<<p, Main>>].del
    BY <1>1, <1>3, <1>4, NamesAssumption DEF TopIn, Told
<1>5. CASE ~walk[<<p, Main>>].del
    <2>1. walk[<<p, Main>>] \in LiveRecord
        BY <1>3, <1>5, RecordFacts
    <2>2. /\ idx[p] = Normalized(walk[<<p, Main>>]) /\ idx[p] \in Record
          /\ idx[p].content = walk[<<p, Main>>].content /\ idx[p].content \in Content
        BY <1>3, <1>5, <2>1, NormalizedFacts, RecordFacts DEF Told
    <2> QED BY <1>1, <1>5, <2>2, NamesAssumption, NoFileAssumption DEF TopIn
<1> QED BY <1>4, <1>5

\* What was written last outranks what the walk had found and nothing has arrived since.
LEMMA SaveTop ==
    ASSUME Loading, NEW q \in DOMAIN writes, Save(q), q \in Synced, mine'[q] # Nothing
    PROVE  TopIn(files, q)'
<1> DEFINE r == writes[q]
           k == clock - 2
<1>1. /\ pc = "writing" /\ q \in Path /\ r \in Record /\ TypeOK /\ groups = {}
      /\ files'[<<q, Main>>] = r /\ \A x \in Slot : x # <<q, Main>> => files'[x] = files[x]
      /\ RankGen(r) = r.gen /\ r.gen \in Nat
    BY SaveFacts, RecordFacts DEF Loading
<1>2. /\ r.stamp = k /\ r.gen = NextGen(idx[q], k) /\ k \in Nat \ {0} /\ k \in OwnStamps
      /\ idx[q] \in LiveRecord \cup {NoFile} /\ (r.del => idx[q] # NoFile)
    BY <1>1, ClockFacts DEF Loading, WritesFresh, TypeOK
<1>3. /\ ~Unseen(q) /\ ~Behind(q, r)
      /\ IF r.del THEN mine'[q] = Deleted ELSE mine'[q] = r.content
    BY <1>1 DEF Save, TypeOK
<1> HIDE DEF r, k
<1>4. ASSUME NEW s \in Slot, s[1] = q, s # <<q, Main>>, files'[s] # NoFile
      PROVE  Outranks(r, files'[s])
    <2>1. /\ files'[s] = walk[s] /\ walk[s] \in Record /\ s \in Candidates(walk, q)
        BY <1>1, <1>3, <1>4 DEF Unseen, Unread, Candidates, TypeOK
    <2>2. PICK w \in Winners(q) : idx[q] = Told(w)
        BY <1>1, <2>1 DEF Loading, IndexTells
    <2>3. /\ w \in Slot /\ w[1] = q /\ walk[w] \in Record /\ ~Outranks(walk[s], walk[w])
        BY <1>1, <2>1, <2>2 DEF Winners, Foremost, Candidates, TypeOK
    <2>4. RankGen(walk[s]) <= RankGen(walk[w])
        BY <2>1, <2>3, OutranksFacts
    <2>5. /\ RankGen(walk[s]) \in Nat /\ RankGen(walk[w]) \in Nat /\ Effective(walk[w]) \in Nat
          /\ RankGen(walk[w]) <= Effective(walk[w]) /\ walk[s].stamp \in Nat
        BY <2>1, <2>3, RecordFacts
    <2>6. CASE idx[q] # NoFile
        <3>1. ~walk[w].del /\ walk[w] \in LiveRecord /\ idx[q] = Normalized(walk[w])
            BY <2>2, <2>3, <2>6, RecordFacts DEF Told
        <3>2. idx[q].gen = Effective(walk[w])
            BY <3>1, NormalizedFacts
        <3>3. r.gen > idx[q].gen
            BY <1>2, <2>6, NextGenFacts
        <3>4. r.gen > RankGen(walk[s])
            BY <1>1, <2>4, <2>5, <3>2, <3>3
        <3> QED BY <1>1, <2>1, <3>4 DEF Outranks
    <2>7. CASE idx[q] = NoFile
        <3>1. walk[w].del
            <4>1. ASSUME ~walk[w].del PROVE FALSE
                <5>1. walk[w] \in LiveRecord
                    BY <2>3, <4>1, RecordFacts
                <5>2. Normalized(walk[w]) \in Record
                    BY <5>1, NormalizedFacts
                <5> QED BY <2>2, <2>7, <4>1, <5>2, NoFileAssumption DEF Told
            <4> QED BY <4>1
        <3>2. r.gen = k /\ ~r.del
            BY <1>2, <2>7, NextGenFacts
        <3>3. Effective(walk[w]) <= tomb[q] /\ tomb[q] \in Nat
            BY <1>1, <2>3, <3>1, RecordFacts DEF Loading, TombTells, TypeOK
        <3>4. tomb[q] <= k
            BY <1>1, <1>2, <1>3, <2>7, <3>2, <3>3 DEF Behind
        <3>5. RankGen(walk[s]) <= k
            BY <1>2, <2>4, <2>5, <3>3, <3>4
        <3>6. walk[s] \in Foreign
            <4>1. s[2] # Main
                BY <1>4, SlotFacts
            <4>2. walk[s] \in {NoFile, origin[s]} /\ origin[s] \in Foreign \cup {NoFile}
                BY <4>1 DEF Loading, VariantsFixed
            <4> QED BY <2>1, <4>2, NoFileAssumption
        <3>7. walk[s].stamp # k /\ walk[s].stamp <= Effective(walk[s])
            BY <1>2, <3>6, StampAssumption
        <3>8. RankGen(walk[s]) = k => walk[s].stamp < k
            <4>1. ASSUME RankGen(walk[s]) = k PROVE Effective(walk[s]) = k
                <5>1. CASE walk[s].del
                    BY <2>1, <4>1, <5>1, RecordFacts
                <5>2. CASE ~walk[s].del
                    <6>1. walk[s].gen = k
                        BY <2>1, <4>1, <5>2, RecordFacts
                    <6> QED BY <1>2, <6>1 DEF Effective
                <5> QED BY <5>1, <5>2
            <4> QED BY <1>2, <2>5, <3>7, <4>1
        <3>9. RankGen(r) = k /\ r.stamp = k
            BY <1>1, <1>2, <3>2
        <3> QED BY <1>2, <2>1, <2>5, <3>5, <3>8, <3>9 DEF Outranks
    <2> QED BY <2>6, <2>7
<1>5. r # NoFile
    BY <1>1, NoFileAssumption
<1> QED BY <1>1, <1>3, <1>4, <1>5 DEF TopIn, Candidates

\* Nothing at a path has changed that its being on top depends on.
LEMMA TopSame ==
    ASSUME NEW p, TopIn(files, p), mine'[p] = mine[p],
           \A s \in Slot : s[1] = p => files'[s] = files[s], <<p, Main>> \in Slot
    PROVE  TopIn(files, p)'
BY DEF TopIn, Candidates

LEMMA InitTop == Init => Top
BY NamesAssumption DEF Init, Top

LEMMA StepTop == Loading /\ Top /\ [Next]_vars => Top'
<1> SUFFICES ASSUME Loading, Top, [Next]_vars PROVE Top'
    OBVIOUS
<1>0. TypeOK /\ \A p \in Synced : p \in Path /\ <<p, Main>> \in Slot
    BY SlotFacts, NamesAssumption DEF Loading
<1>1. CASE UNCHANGED vars
    BY <1>1 DEF vars, loadVars, history, Top, TopIn, Candidates
<1>2. CASE Walk
    BY <1>2 DEF Walk, history, Top, TopIn, Candidates
<1>3. CASE \E q \in Path : SettlePath(q)
    BY <1>3 DEF SettlePath, history, Top, TopIn, Candidates
<1>4. ASSUME NEW s, Removal(s) PROVE Top'
    <2> SUFFICES ASSUME NEW p \in Synced, mine[p] # Nothing PROVE TopIn(files, p)'
        BY <1>4 DEF Removal, history, Top, TopIn, Candidates
    <2>1. TopIn(files, p) /\ TopIn(walk, p)
        BY <1>4 DEF Top, Removal
    <2>2. /\ s \in Slot /\ s # best /\ s[1] = best[1] /\ best \in Winners(best[1]) /\ mine' = mine
        BY <1>4, ChoiceFacts DEF Removal, history, Loading, Choice
    <2>3. \A x \in Slot : files'[x] \in {files[x], NoFile} /\ (x # s => files'[x] = files[x])
        BY <1>0, <1>4, <2>2 DEF Removal, TypeOK
    <2>4. s # <<p, Main>>
        <3>1. s[1] = p => best = <<p, Main>>
            BY <1>0, <2>1, <2>2, TopFacts DEF TypeOK, Winners
        <3> QED BY <2>2, <3>1
    <2>5. files'[<<p, Main>>] = files[<<p, Main>>]
        BY <1>0, <2>3, <2>4
    <2> QED BY <2>1, <2>2, <2>3, <2>5 DEF TopIn, Candidates
<1>5. ASSUME NEW s \in losers, KeepLoser(s) PROVE Top'
    <2> DEFINE c == ConflictPath(s[1], Normalized(walk[s]).stamp, s[2])
    <2>1. c \notin Synced
        BY <1>5, LoserFacts DEF KeepLoser
    <2>2. \A x \in Slot : x # <<c, Main>> => files'[x] = files[x]
        BY <1>0, <1>5 DEF KeepLoser, TypeOK
    <2> HIDE DEF c
    <2>3. \A x \in Slot : x[1] \in Synced => files'[x] = files[x]
        BY <2>1, <2>2
    <2>4. UNCHANGED <<pc, walk, mine>>
        BY <1>5 DEF KeepLoser, history
    <2>5. \A p \in Synced : TopIn(files, p) => TopIn(files, p)'
        BY <1>0, <2>3, <2>4, TopSame
    <2> QED BY <2>4, <2>5 DEF Top, TopIn, Candidates
<1>6. CASE Loaded
    BY <1>6 DEF Loaded, loadVars, history, Top, TopIn, Candidates
<1>7. CASE Idle
    BY <1>7 DEF Idle, history, Top, TopIn, Candidates
<1>8. ASSUME NEW tree, Begin(tree) PROVE Top'
    BY <1>8 DEF Begin, loadVars, history, Top, TopIn, Candidates
<1>9. ASSUME NEW q \in DOMAIN writes, Save(q) PROVE Top'
    <2>1. /\ pc' = "writing" /\ \A x \in Slot : x # <<q, Main>> => files'[x] = files[x]
          /\ \A p \in Synced : p # q => mine'[p] = mine[p]
        BY <1>0, <1>9, SaveFacts DEF Save, TypeOK
    <2> SUFFICES ASSUME NEW p \in Synced, mine'[p] # Nothing PROVE TopIn(files, p)'
        BY <2>1 DEF Top
    <2>2. CASE p = q
        BY <1>9, <2>2, SaveTop
    <2>3. CASE p # q
        <3>1. \A x \in Slot : x[1] = p => files'[x] = files[x]
            BY <2>1, <2>3
        <3> QED BY <1>0, <2>1, <2>3, <3>1, TopSame DEF Top
    <2> QED BY <2>2, <2>3
<1>10. ASSUME NEW s, NEW r, Arrives(s, r) PROVE Top'
    <2>1. /\ s \in Slot /\ s[1] \in Path /\ UNCHANGED <<pc, walk>> /\ mine'[s[1]] = Nothing
          /\ \A x \in Slot : x # s => files'[x] = files[x]
          /\ \A p \in Path : p # s[1] => mine'[p] = mine[p]
        BY <1>0, <1>10 DEF Arrives, TypeOK, loadVars
    <2> SUFFICES ASSUME NEW p \in Synced, mine'[p] # Nothing
                 PROVE  TopIn(files, p)' /\ (pc' \in {"settling", "loaded"} => TopIn(walk, p)')
        BY DEF Top
    <2>2. /\ p # s[1] /\ mine'[p] = mine[p] /\ p \in Path
          /\ \A x \in Slot : x[1] = p => files'[x] = files[x]
        BY <1>0, <2>1
    <2>3. TopIn(files, p)'
        BY <1>0, <2>2, TopSame DEF Top
    <2>4. pc' \in {"settling", "loaded"} => TopIn(walk, p)'
        BY <2>1, <2>2 DEF Top, TopIn, Candidates
    <2> QED BY <2>3, <2>4
<1> QED BY <1>0, <1>1, <1>2, <1>3, <1>4, <1>5, <1>6, <1>7, <1>8, <1>9, <1>10, StepCases,
           RemovalStep, IdleStep, BeginStep, ArriveStep

\* After a put or a removal, and until something arrives for the path, every load shows
\* what was put, or nothing (the generation rules of putReader and RemovePath).
THEOREM WritesAreRead == Spec => []ReadYourWrites
<1>1. Loading /\ Top => ReadYourWrites
    BY TopShown, NamesAssumption, NothingAssumption DEF ReadYourWrites
<1>2. Loading /\ Top /\ [Next]_vars => (Loading /\ Top)'
    BY StepLoading, StepTop
<1> QED BY InitLoading, InitTop, <1>1, <1>2, PTL DEF Spec

-----------------------------------------------------------------------------
(* No live version is lost                                                 *)

\* Every conflict copy of p still holds the payload it held.
CopiesRemain(p) ==
    \A n \in Variant \cup {Main} : \A t \in Stamps(n) : \A x :
        Holds(Copy(p, t, n), x) => Holds(Copy(p, t, n), x)'

LEMMA CopyFacts ==
    ASSUME NEW p \in Synced, NEW n \in Variant \cup {Main}, NEW t \in Stamps(n)
    PROVE  /\ Copy(p, t, n) \in Slot /\ Copy(p, t, n)[1] \notin Synced
           /\ Copy(p, t, n)[1] \in Path /\ Copy(p, t, n)[2] = Main
           /\ Original(Copy(p, t, n)[1]) = p
BY ConflictAssumption, SlotFacts DEF Copy

\* Files that are no conflict copies can be written without touching those.
LEMMA CopiesUntouched ==
    ASSUME \A s \in Slot : s[1] \notin Synced /\ Original(s[1]) # s[1] => files'[s] = files[s]
    PROVE  /\ \A p \in Synced : CopiesRemain(p)
           /\ CopiesGenuine => CopiesGenuine'
<1>1. ASSUME NEW p \in Synced, NEW n \in Variant \cup {Main}, NEW t \in Stamps(n)
      PROVE  files'[Copy(p, t, n)] = files[Copy(p, t, n)]
    <2>1. /\ Copy(p, t, n) \in Slot /\ Copy(p, t, n)[1] \notin Synced
          /\ Original(Copy(p, t, n)[1]) = p
        BY CopyFacts
    <2> QED BY <2>1
<1>2. \A p \in Synced : CopiesRemain(p)
    BY <1>1 DEF CopiesRemain, Holds
<1>3. CopiesGenuine => CopiesGenuine'
    BY <1>1 DEF CopiesGenuine
<1> QED BY <1>2, <1>3

LEMMA ElsewhereStays ==
    ASSUME NEW v \in Versions, TypeOK, TypeOK', tomb[v.path] <= tomb'[v.path],
           CopiesRemain(v.path), KeptElsewhere(v),
           \A n \in Variant : AtPath(v, <<v.path, n>>) => AtPath(v, <<v.path, n>>)'
    PROVE  KeptElsewhere(v)'
<1>1. v.gen \in Nat /\ tomb[v.path] \in Nat /\ tomb'[v.path] \in Nat
    BY DEF Versions, TypeOK
<1>2. CASE v.gen < tomb[v.path]
    BY <1>1, <1>2 DEF KeptElsewhere
<1>3. CASE \E n \in Variant : AtPath(v, <<v.path, n>>)
    BY <1>3 DEF KeptElsewhere
<1>4. CASE \E n \in Variant \cup {Main} : \E t \in Stamps(n) : Holds(Copy(v.path, t, n), v.content)
    BY <1>4 DEF KeptElsewhere, CopiesRemain
<1> QED BY <1>2, <1>3, <1>4 DEF KeptElsewhere

\* The files and the deletions stay, and so does what they keep.
LEMMA KeptSame ==
    ASSUME UNCHANGED <<files, tomb>>, NEW v
    PROVE  /\ KeptElsewhere(v)' <=> KeptElsewhere(v)
           /\ CopiesGenuine' <=> CopiesGenuine
           /\ Kept(v) /\ (pc' = "idle" \/ walk' = files \/ (pc # "idle" /\ walk' = walk)) => Kept(v)'
<1>1. /\ KeptElsewhere(v)' <=> KeptElsewhere(v)
      /\ CopiesGenuine' <=> CopiesGenuine
      /\ AtPath(v, <<v.path, Main>>)' <=> AtPath(v, <<v.path, Main>>)
    BY DEF KeptElsewhere, AtPath, Holds, CopiesGenuine
<1>2. ASSUME InMain(v), pc' = "idle" \/ walk' = files \/ (pc # "idle" /\ walk' = walk)
      PROVE  InMain(v)'
    <2>1. CASE pc' = "idle"
        BY <1>1, <1>2, <2>1 DEF InMain
    <2>2. CASE walk' = files
        BY <1>1, <1>2, <2>2 DEF InMain, Unread
    <2>3. CASE pc # "idle" /\ walk' = walk
        BY <1>1, <1>2, <2>3 DEF InMain, Unread, Lost
    <2> QED BY <1>2, <2>1, <2>2, <2>3
<1> QED BY <1>1, <1>2 DEF Kept

LEMMA VariantsKnownStep ==
    ASSUME VariantsKnown, known \subseteq known',
           \A s \in Slot : s[2] # Main =>
               {files'[s], walk'[s]} \subseteq {NoFile, files[s], walk[s]}
    PROVE  VariantsKnown'
BY DEF VariantsKnown, Claim, Version

\* What is in the account of a path stays there.
LEMMA InAccountStays ==
    ASSUME Loading, Loading', NEW p \in Synced, walk[<<p, Main>>] # NoFile, InAccount(p),
           walk' = walk, idx'[p] = idx[p], tomb[p] <= tomb'[p], CopiesRemain(p)
    PROVE  InAccount(p)'
<1> DEFINE r == walk[<<p, Main>>]
<1>1. r \in Record /\ r.stamp \in Stamps(Main) /\ p \in Path
    BY SlotFacts, NamesAssumption DEF Loading, TypeOK, StampsKnown
<1>2. Effective(r) \in Nat /\ tomb[p] \in Nat /\ tomb'[p] \in Nat
    BY <1>1, RecordFacts DEF Loading, TypeOK
<1>3. walk'[<<p, Main>>] = r
    OBVIOUS
<1>4. CASE idx[p] # NoFile /\ idx[p].content = r.content
    BY <1>3, <1>4 DEF InAccount
<1>5. CASE Effective(r) < tomb[p]
    <2>1. Effective(r) < tomb'[p]
        BY <1>2, <1>5
    <2> QED BY <1>3, <2>1 DEF InAccount
<1>6. CASE Holds(CopyOf(<<p, Main>>, r), r.content)
    <2>1. CopyOf(<<p, Main>>, r) = Copy(p, r.stamp, Main)
        BY DEF CopyOf
    <2>2. Holds(Copy(p, r.stamp, Main), r.content)'
        BY <1>1, <1>6, <2>1, NamesAssumption DEF CopiesRemain
    <2> QED BY <1>3, <2>1, <2>2 DEF InAccount, CopyOf
<1> QED BY <1>4, <1>5, <1>6 DEF InAccount

LEMMA AccountedStays ==
    ASSUME Loading, Loading', Accounted, pc' # "idle" => pc # "idle", diskFull' = diskFull,
           walk' = walk, groups' = groups, losers \subseteq losers',
           \A p \in Synced : idx'[p] = idx[p] /\ tomb[p] <= tomb'[p] /\ CopiesRemain(p)
    PROVE  Accounted'
<1> SUFFICES ASSUME pc' # "idle", ~diskFull', NEW p \in Synced, Accountable(p)'
             PROVE  InAccount(p)'
    BY DEF Accounted
<1>1. Accountable(p) /\ walk[<<p, Main>>] # NoFile
    BY DEF Accountable
<1>2. InAccount(p)
    BY <1>1 DEF Accounted
<1> QED BY <1>1, <1>2, InAccountStays

\* No new live payload under a stamp that is in use.
LEMMA KnownStep ==
    ASSUME Loading, Loading', StampsTell, clock <= clock',
           \A r \in Known' : \E o \in Known :
               r.stamp = o.stamp /\ r.del = o.del /\ r.content = o.content
    PROVE  StampsTell'
<1>1. ASSUME NEW r \in Known', NEW o \in Known', r.stamp = o.stamp, ~r.del, ~o.del
      PROVE  r.content = o.content
    BY <1>1 DEF StampsTell
<1>2. ASSUME NEW r \in Known', r.stamp \in OwnStamps
      PROVE  r.stamp < clock'
    <2>1. PICK o \in Known : r.stamp = o.stamp
        OBVIOUS
    <2>2. o.stamp \in OwnStamps /\ o.stamp < clock
        BY <1>2, <2>1 DEF StampsTell
    <2>3. clock \in Nat /\ clock' \in Nat /\ o.stamp \in Nat
        BY <2>2, NamesAssumption DEF Loading, TypeOK, OwnStamps
    <2> QED BY <2>1, <2>2, <2>3
<1> QED BY <1>1, <1>2 DEF StampsTell

\* What is in memory and on disk comes from there.
LEMMA KnownFewer ==
    ASSUME Loading, Loading', StampsTell, clock' = clock,
           \A s \in Slot : /\ files'[s] \in {NoFile, files[s], walk[s]} \cup Foreign
                                \cup {writes[p] : p \in DOMAIN writes}
                           /\ walk'[s] \in {NoFile, files[s], walk[s]},
           DOMAIN writes' \subseteq DOMAIN writes,
           \A p \in DOMAIN writes' : writes'[p] = writes[p]
    PROVE  StampsTell'
<1>1. Known' \subseteq Known
    BY DEF Known
<1>2. clock <= clock'
    BY DEF Loading, TypeOK
<1> QED BY <1>1, <1>2, KnownStep

LEMMA InitPreserving == Init => Preserving
<1> SUFFICES ASSUME Init PROVE Preserving
    OBVIOUS
<1>1. Known = Foreign
    BY EmptyFacts, NamesAssumption DEF Init, Known, NoFiles
<1>2. StampsTell
    BY <1>1, StampAssumption DEF StampsTell, SameFile
<1>3. /\ owed = {} /\ copied = {} /\ DOMAIN writes = {} /\ \A s \in Slot : files[s] = NoFile
      /\ pc = "idle"
    BY EmptyFacts DEF Init, NoFiles
<1>4. CopiesGenuine
    BY <1>3, CopyFacts DEF CopiesGenuine
<1>5. VariantsKnown
    BY DEF Init, VariantsKnown, NoFiles
<1> QED BY <1>2, <1>3, <1>4, <1>5
        DEF Preserving, WritesToOriginals, CopySaved, AllKept, SharedOwed, Accounted, Renewed

\* A duplicate is removed because it is worth nothing, or because its copy is saved.
Spent(s) == (s \in losers /\ Discarded(walk[best], walk[s])) \/ s \in copied

\* The winner, as the walk has read it, has this payload and is as new.
Won(v) == ~walk[best].del /\ walk[best].content = v.content /\ RankGen(walk[best]) >= v.gen

\* What a duplicate that is spent has kept is deleted, or is kept by the winner or by a
\* conflict copy, if the load has read that duplicate.
LEMMA SpentFacts ==
    ASSUME Loading, CopySaved, NEW s, Spent(s), ~Unread(s), NEW v \in Versions,
           v.path = s[1], AtPath(v, s)
    PROVE  \/ v.gen < tomb[v.path]
           \/ Won(v)
           \/ s \in copied /\ Holds(Copy(v.path, walk[s].stamp, s[2]), v.content)
<1>1. /\ s \in losers \cup copied /\ v.gen \in Nat
    BY DEF Spent, Versions
<1>2. /\ best \in Slot /\ s \in Slot /\ s[1] = best[1] /\ walk[s] \in Record
      /\ walk[best] \in Record /\ ~Outranks(walk[s], walk[best])
    BY <1>1, ChoiceFacts
<1>3. /\ files[s] = walk[s] /\ ~walk[s].del /\ walk[s].content = v.content
      /\ RankGen(walk[s]) >= v.gen
    BY <1>2 DEF AtPath, Holds, Unread
<1>4. /\ RankGen(walk[s]) \in Nat /\ RankGen(walk[best]) \in Nat /\ Effective(walk[s]) \in Nat
      /\ RankGen(walk[s]) <= Effective(walk[s]) /\ Effective(walk[best]) \in Nat
      /\ walk[s].del \in BOOLEAN /\ walk[best].del \in BOOLEAN /\ walk[best] # NoFile
    BY <1>2, RecordFacts
<1>5. CASE s \in copied
    BY <1>3, <1>5 DEF CopySaved, CopyOf
<1>6. CASE Discarded(walk[best], walk[s]) /\ walk[best].del
    <2>1. Effective(walk[s]) < Effective(walk[best])
        BY <1>3, <1>6 DEF Discarded
    <2>2. Effective(walk[best]) <= tomb[v.path] /\ tomb[v.path] \in Nat
        BY <1>2, <1>4, <1>6 DEF Loading, TombTells, TypeOK, Versions
    <2> QED BY <1>1, <1>3, <1>4, <2>1, <2>2
<1>7. CASE Discarded(walk[best], walk[s]) /\ ~walk[best].del
    <2>1. walk[best].content = v.content
        BY <1>3, <1>7 DEF Discarded, SameFile
    <2>2. RankGen(walk[best]) >= RankGen(walk[s])
        BY <1>2, OutranksFacts
    <2>3. RankGen(walk[best]) >= v.gen
        BY <1>1, <1>3, <1>4, <2>2
    <2> QED BY <1>7, <2>1, <2>3 DEF Won
<1> QED BY <1>5, <1>6, <1>7 DEF Spent

\* What the winner had when it was read is still kept, whatever has replaced it.
LEMMA WonKept ==
    ASSUME Loading, Renewed, NEW s \in losers \cup copied,
           NEW v \in owed, v \in Versions, v.path = s[1], Won(v)
    PROVE  \/ best[2] # Main /\ AtPath(v, best)
           \/ best = <<v.path, Main>> /\ InMain(v)
           \/ Late(v)
<1>1. /\ pc = "settling" /\ best \in Slot /\ v.path = best[1] /\ v.path \in Synced
      /\ walk[best] \in Record /\ files[best] \in Record /\ Stands(best)
      /\ best = <<best[1], best[2]>>
      /\ losers \cup copied # {}
    BY ChoiceFacts, SlotFacts
<1>2. files[best] # NoFile /\ walk[best] # NoFile
    BY <1>1, RecordFacts
<1>3. CASE files[best] = walk[best]
    <2>1. AtPath(v, best) /\ ~Unread(best)
        BY <1>2, <1>3 DEF AtPath, Holds, Won, Unread
    <2> QED BY <1>1, <2>1 DEF InMain
<1>4. CASE files[best] # walk[best]
    <2>1. best[2] = Main /\ Unread(best) /\ best = <<v.path, Main>>
        BY <1>1, <1>2, <1>4 DEF Stands, Unread
    <2>2. Replaced(v)
        BY <1>1, <1>2, <2>1 DEF Replaced, Won
    <2>3. v \in Lost(best) \/ Late(v)
        BY <1>1, <2>1, <2>2 DEF Renewed
    <2>4. ASSUME v \in Lost(best) PROVE InMain(v)
        <3>1. ~files[best].del /\ v = Version(best[1], files[best])
            BY <2>1, <2>4 DEF Lost, Claim
        <3>2. v.content = files[best].content /\ v.gen = RankGen(files[best])
            BY <3>1 DEF Version
        <3>3. RankGen(files[best]) \in Nat
            BY <1>1, RecordFacts
        <3>4. AtPath(v, best)
            BY <1>2, <3>1, <3>2, <3>3 DEF AtPath, Holds
        <3> QED BY <2>1, <2>4, <3>4 DEF InMain
    <2> QED BY <2>1, <2>3, <2>4
<1> QED BY <1>3, <1>4

\* What removing a duplicate leaves of a version: everything, or it was overrun.
LEMMA RemovalKeeps ==
    ASSUME Loading, Loading', CopySaved, Renewed, NEW s, Removal(s), Spent(s),
           NEW v \in SharedOwed, Kept(v)
    PROVE  Kept(v)' \/ v \in overrun'
<1>0. v \in owed /\ v \in Versions /\ v.path \in Synced /\ v.path \in Path
    BY NamesAssumption DEF SharedOwed, Loading, TypeOK
<1>1. /\ s \in losers \cup copied /\ s \in Slot /\ s # best /\ s[1] = best[1] /\ s[1] \in Synced
      /\ best \in Slot /\ walk[s].stamp \in Stamps(s[2]) /\ s[2] \in Variant \cup {Main}
      /\ s = <<s[1], s[2]>> /\ best = <<best[1], best[2]>> /\ best[2] \in Variant \cup {Main}
      /\ tomb' = tomb /\ walk' = walk /\ pc' = pc /\ TypeOK /\ TypeOK' /\ walk[s] # NoFile
      /\ pc = "settling"
    BY ChoiceFacts, SlotFacts, RecordFacts DEF Removal, Loading
<1>2. \A x \in Slot : x # s => files'[x] = files[x]
    BY <1>1 DEF Removal, TypeOK
<1>3. CopiesRemain(v.path)
    BY <1>0, <1>1, <1>2, CopiesUntouched
<1>4. \A x \in Slot : x # s /\ AtPath(v, x) => AtPath(v, x)'
    BY <1>2 DEF AtPath, Holds
<1>5. \A n \in Variant \cup {Main} : <<v.path, n>> \in Slot
    BY <1>0, SlotFacts
<1>6. tomb[v.path] <= tomb'[v.path]
    BY <1>0, <1>1 DEF TypeOK
<1>7. ASSUME \A n \in Variant : <<v.path, n>> # s \/ ~AtPath(v, s), KeptElsewhere(v)
      PROVE  Kept(v)'
    <2>1. \A n \in Variant : AtPath(v, <<v.path, n>>) => AtPath(v, <<v.path, n>>)'
        BY <1>4, <1>5, <1>7
    <2> QED BY <1>0, <1>1, <1>3, <1>6, <1>7, <2>1, ElsewhereStays DEF Kept
<1>8. ASSUME InMain(v), s # <<v.path, Main>> PROVE Kept(v)'
    <2>1. files'[<<v.path, Main>>] = files[<<v.path, Main>>]
        BY <1>2, <1>5, <1>8
    <2>2. InMain(v)'
        BY <1>1, <1>8, <2>1 DEF InMain, AtPath, Holds, Unread, Lost
    <2> QED BY <2>2 DEF Kept
<1>9. CASE s = <<v.path, Main>> /\ Unread(s)
    <2>1. \A n \in Variant : <<v.path, n>> # s
        BY <1>9, NamesAssumption
    <2>2. CASE KeptElsewhere(v)
        BY <1>7, <2>1, <2>2
    <2>3. CASE InMain(v)
        <3>1. v \in Lost(s)
            BY <1>1, <1>9, <2>3 DEF InMain
        <3>2. CASE UNCHANGED <<files, overrun>>
            BY <1>1, <2>3, <3>2, KeptSame DEF Kept
        <3>3. CASE overrun' = overrun \cup Lost(s)
            BY <3>1, <3>3
        <3> QED BY <3>2, <3>3 DEF Removal
    <2> QED BY <2>2, <2>3 DEF Kept
<1>10. CASE ~(v.path = s[1] /\ AtPath(v, s))
    <2>1. s = <<v.path, Main>> => ~InMain(v)
        BY <1>10 DEF InMain
    <2>2. \A n \in Variant : <<v.path, n>> # s \/ ~AtPath(v, s)
        BY <1>10
    <2> QED BY <1>7, <1>8, <2>1, <2>2 DEF Kept
<1>11. CASE v.path = s[1] /\ AtPath(v, s) /\ ~(s = <<v.path, Main>> /\ Unread(s))
    <2>1. ~Unread(s)
        <3>1. s[2] = Main => s = <<v.path, Main>>
            BY <1>1, <1>11
        <3>2. s[2] # Main => files[s] \in {NoFile, walk[s]}
            BY <1>1, ChoiceFacts
        <3> QED BY <1>11, <3>1, <3>2 DEF Unread
    <2>2. \/ v.gen < tomb[v.path]
          \/ Won(v)
          \/ Holds(Copy(v.path, walk[s].stamp, s[2]), v.content)
        BY <1>0, <1>11, <2>1, SpentFacts
    <2>3. CASE v.gen < tomb[v.path]
        BY <1>1, <2>3 DEF Kept, KeptElsewhere
    <2>4. CASE Holds(Copy(v.path, walk[s].stamp, s[2]), v.content)
        BY <1>1, <1>3, <2>4 DEF Kept, KeptElsewhere, CopiesRemain
    <2>5. CASE Won(v)
        <3>1. CASE best[2] # Main /\ AtPath(v, best)
            <4>1. best = <<v.path, best[2]>> /\ best[2] \in Variant
                BY <1>1, <1>11, <3>1
            <4>2. AtPath(v, best)' /\ best' = best
                <5>1. files'[best] = files[best] /\ best' = best
                    BY <1>1, <1>2 DEF Removal
                <5> QED BY <3>1, <5>1 DEF AtPath, Holds
            <4>3. \A n : best = <<v.path, n>> => AtPath(v, <<v.path, n>>)'
                BY <3>1, <4>2 DEF AtPath, Holds
            <4> QED BY <4>1, <4>3 DEF Kept, KeptElsewhere
        <3>2. CASE best = <<v.path, Main>> /\ InMain(v)
            BY <1>1, <1>8, <3>2
        <3>3. CASE Late(v)
            <4>1. PICK n \in Variant : walk[<<v.path, n>>] = NoFile /\ AtPath(v, <<v.path, n>>)
                BY <3>3 DEF Late
            <4>2. AtPath(v, <<v.path, n>>)'
                BY <1>1, <1>4, <1>5, <4>1
            <4> QED BY <4>2 DEF Kept, KeptElsewhere
        <3> QED BY <1>0, <1>1, <1>11, <2>5, <3>1, <3>2, <3>3, WonKept
    <2> QED BY <2>2, <2>3, <2>4, <2>5
<1> QED BY <1>9, <1>10, <1>11

\* The files stay, nothing is superseded, and what the load has read is what it was.
LEMMA FilesStay ==
    ASSUME Preserving, UNCHANGED <<files, tomb, owed, overrun>>,
           pc' = "idle" \/ walk' = files \/ (pc # "idle" /\ walk' = walk)
    PROVE  CopiesGenuine' /\ AllKept' /\ \A p : CopiesRemain(p)
<1>1. \A p : CopiesRemain(p)
    BY DEF CopiesRemain, Holds
<1> QED BY <1>1, KeptSame DEF Preserving, AllKept, SharedOwed

LEMMA WalkPreserving == Loading /\ Loading' /\ Preserving /\ Walk => Preserving'
<1> SUFFICES ASSUME Loading, Loading', Preserving, Walk PROVE Preserving'
    OBVIOUS
<1>1. /\ walk' = files /\ groups' = {p \in Path : Candidates(files, p) # {}}
      /\ UNCHANGED <<files, clock, tomb, known, owed, overrun>>
      /\ copied' = {} /\ writes' = writes /\ writes = Empty
    BY DEF Walk, history, Loading, Phases
<1>2. CopiesGenuine' /\ AllKept'
    BY <1>1, FilesStay
<1>3. StampsTell'
    BY <1>1, EmptyFacts, KnownFewer DEF Preserving
<1>4. WritesToOriginals' /\ CopySaved'
    BY <1>1, EmptyFacts DEF WritesToOriginals, CopySaved
<1>5. VariantsKnown'
    BY <1>1, VariantsKnownStep DEF Preserving
<1>6. Renewed'
    BY <1>1 DEF Renewed, Replaced, Unread
<1>7. Accounted'
    <2> SUFFICES ASSUME NEW p \in Synced PROVE ~Accountable(p)'
        BY DEF Accounted
    <2>1. p \in Path /\ <<p, Main>> \in Slot
        BY NamesAssumption, SlotFacts
    <2>2. files[<<p, Main>>] # NoFile => p \in groups'
        BY <1>1, <2>1 DEF Candidates
    <2> QED BY <1>1, <2>2 DEF Accountable
<1> QED BY <1>2, <1>3, <1>4, <1>5, <1>6, <1>7 DEF Preserving

LEMMA SettlePreserving ==
    ASSUME Loading, Loading', Preserving, NEW q \in Path, SettlePath(q)
    PROVE  Preserving'
<1>1. PICK w \in Winners(q) :
          /\ pc = "settling" /\ losers = {} /\ copied = {} /\ q \in groups
          /\ groups' = groups \ {q} /\ losers' = Candidates(walk, q) \ {w} /\ best' = w
          /\ idx' = Indexed(q, walk[w])
          /\ UNCHANGED <<files, pc, walk, copied, writes, diskFull, clock, tomb, known, owed, overrun>>
          /\ TypeOK
    BY DEF SettlePath, history, Loading
<1>2. CopiesGenuine' /\ AllKept' /\ \A p : CopiesRemain(p)
    BY <1>1, FilesStay
<1>3. StampsTell'
    BY <1>1, KnownFewer DEF Preserving
<1>4. WritesToOriginals' /\ CopySaved' /\ VariantsKnown'
    BY <1>1, VariantsKnownStep DEF WritesToOriginals, CopySaved, Preserving
<1>5. ASSUME q \in Synced, Accountable(q)' PROVE InAccount(q)'
    <2>1. <<q, Main>> \in Candidates(walk, q) /\ ~walk[<<q, Main>>].del
        BY <1>1, <1>5, SlotFacts DEF Accountable, Candidates
    <2>2. <<q, Main>> = w
        BY <1>1, <1>5, <2>1 DEF Accountable
    <2>3. walk[w] \in Record /\ ~walk[w].del
        BY <1>1, <2>1, <2>2 DEF Candidates, TypeOK
    <2>4. idx'[q] = Normalized(walk[w])
        BY <1>1, <2>3 DEF Indexed, TypeOK
    <2>5. walk[w] \in LiveRecord
        BY <2>3, RecordFacts
    <2>6. idx'[q] # NoFile /\ idx'[q].content = walk[w].content
        BY <2>4, <2>5, NormalizedFacts, RecordFacts
    <2> QED BY <1>1, <2>2, <2>6 DEF InAccount
<1>6. ASSUME NEW p \in Synced, p # q, ~diskFull, Accountable(p)' PROVE InAccount(p)'
    <2>1. idx'[p] = idx[p] /\ tomb[p] <= tomb'[p]
        BY <1>1, <1>6, NamesAssumption DEF Indexed, TypeOK
    <2>2. Accountable(p) /\ walk[<<p, Main>>] # NoFile
        BY <1>1, <1>6 DEF Accountable
    <2>3. InAccount(p)
        BY <1>1, <1>6, <2>2 DEF Preserving, Accounted
    <2> QED BY <1>1, <1>2, <2>1, <2>2, <2>3, InAccountStays
<1>7. Accounted'
    BY <1>1, <1>5, <1>6 DEF Accounted
<1>8. Renewed'
    <2>1. w[1] = q
        BY <1>1 DEF Winners, Foremost, Candidates
    <2>2. \A v : Replaced(v)' => Replaced(v)
        BY <1>1, <2>1 DEF Replaced, Unread
    <2>3. \A v : (v \in Lost(<<v.path, Main>>) \/ Late(v)) =>
                     (v \in Lost(<<v.path, Main>>) \/ Late(v))'
        BY <1>1 DEF Lost, Unread, Late, AtPath, Holds
    <2> QED BY <1>1, <2>2, <2>3 DEF Preserving, Renewed
<1> QED BY <1>2, <1>3, <1>4, <1>7, <1>8 DEF Preserving

LEMMA RemovalPreserving ==
    ASSUME Loading, Loading', Preserving, NEW s, Removal(s), Spent(s)
    PROVE  Preserving'
<1>1. /\ s \in losers \cup copied /\ pc = "settling" /\ losers \ {s} \subseteq losers'
      /\ copied' \subseteq copied
      /\ UNCHANGED <<pc, walk, groups, best, idx, writes, diskFull, clock, tomb, known, owed>>
      /\ overrun \subseteq overrun' /\ TypeOK
    BY DEF Removal, Loading
<1>2. /\ s \in Slot /\ s[1] = best[1] /\ s[1] \in Synced /\ idx[best[1]] = Told(best)
      /\ best \in Slot /\ s # best /\ best[1] \notin groups
      /\ walk[s] \in Record /\ walk[best] \in Record
    BY <1>1, ChoiceFacts
<1>3. \A x \in Slot : files'[x] \in {files[x], NoFile} /\ (x # s => files'[x] = files[x])
    BY <1>1, <1>2 DEF Removal, TypeOK
<1>4. StampsTell'
    BY <1>1, <1>3, KnownFewer DEF Preserving
<1>5. CopiesGenuine' /\ \A p \in Synced : CopiesRemain(p)
    BY <1>2, <1>3, CopiesUntouched DEF Preserving
<1>6. WritesToOriginals'
    BY <1>1 DEF WritesToOriginals, Preserving
<1>7. CopySaved'
    <2> SUFFICES ASSUME NEW x \in copied'
                 PROVE  ~walk[x].del /\ Holds(CopyOf(x, walk[x]), walk[x].content)'
        BY <1>1 DEF CopySaved, CopyOf, Copy, Holds
    <2>1. ~walk[x].del /\ Holds(CopyOf(x, walk[x]), walk[x].content) /\ x \in losers \cup copied
        BY <1>1 DEF CopySaved, Preserving
    <2>2. /\ x[1] \in Synced /\ walk[x].stamp \in Stamps(x[2]) /\ x[2] \in Variant \cup {Main}
        BY <2>1, ChoiceFacts, SlotFacts
    <2> QED BY <1>1, <1>5, <2>1, <2>2 DEF CopiesRemain, CopyOf, Copy, Holds
<1>8. AllKept'
    <2> SUFFICES ASSUME NEW v \in SharedOwed' PROVE Kept(v)'
        BY DEF AllKept
    <2>1. v \in SharedOwed /\ v \notin overrun'
        BY <1>1 DEF SharedOwed
    <2> QED BY <2>1, RemovalKeeps DEF Preserving, AllKept
<1>9. VariantsKnown'
    BY <1>1, <1>3, VariantsKnownStep DEF Preserving
<1>10. Renewed'
    <2> SUFFICES ASSUME NEW v \in owed, Replaced(v)'
                 PROVE  (v \in Lost(<<v.path, Main>>) \/ Late(v))'
        BY <1>1 DEF Renewed
    <2>1. v.path \in Synced /\ losers' \cup copied' \subseteq losers \cup copied /\ <<v.path, Main>> # s
        <3>1. losers' \subseteq losers
            BY DEF Removal
        <3>2. v.path \in Synced /\ (v.path \in groups \/ best = <<v.path, Main>>)
            BY <1>1 DEF Replaced
        <3>3. <<v.path, Main>>[1] = v.path
            OBVIOUS
        <3>4. <<v.path, Main>> # s
            BY <1>2, <3>2, <3>3
        <3> QED BY <1>1, <3>1, <3>2, <3>4
    <2>2. \A n \in Variant \cup {Main} : <<v.path, n>> \in Slot
        BY <2>1, SlotFacts
    <2>3. files'[<<v.path, Main>>] = files[<<v.path, Main>>]
        BY <1>3, <2>1, <2>2
    <2>4. Replaced(v)
        BY <1>1, <2>1, <2>3 DEF Replaced, Unread
    <2>5. v \in Lost(<<v.path, Main>>) \/ Late(v)
        BY <1>1, <2>4 DEF Preserving, Renewed
    <2>6. v \in Lost(<<v.path, Main>>) => v \in Lost(<<v.path, Main>>)'
        BY <1>1, <2>3 DEF Lost, Unread
    <2>7. Late(v) => Late(v)'
        <3> SUFFICES ASSUME NEW n \in Variant, walk[<<v.path, n>>] = NoFile, AtPath(v, <<v.path, n>>)
                     PROVE  AtPath(v, <<v.path, n>>)'
            BY <1>1 DEF Late
        <3>1. files'[<<v.path, n>>] = files[<<v.path, n>>]
            BY <1>2, <1>3, <2>2, RecordFacts
        <3> QED BY <3>1 DEF AtPath, Holds
    <2> QED BY <2>5, <2>6, <2>7
<1>11. ASSUME s \in losers, s[2] = Main, ~walk[s].del PROVE InAccount(s[1])
    <2>1. Discarded(walk[best], walk[s]) /\ s = <<s[1], Main>>
        <3>1. s \notin copied
            BY <1>1, <1>11 DEF Loading, Choice
        <3> QED BY <1>2, <1>11, <3>1, SlotFacts DEF Spent
    <2>2. CASE walk[best].del
        <3>1. Effective(walk[s]) < Effective(walk[best])
            BY <1>11, <2>1, <2>2 DEF Discarded
        <3>2. Effective(walk[best]) <= tomb[s[1]] /\ tomb[s[1]] \in Nat
            BY <1>1, <1>2, <2>2, RecordFacts, NamesAssumption DEF Loading, TombTells, TypeOK
        <3>3. Effective(walk[s]) \in Nat /\ Effective(walk[best]) \in Nat
            BY <1>2, RecordFacts
        <3>4. Effective(walk[s]) < tomb[s[1]]
            BY <3>1, <3>2, <3>3
        <3> QED BY <2>1, <3>4 DEF InAccount
    <2>3. CASE ~walk[best].del
        <3>1. walk[best].content = walk[s].content
            BY <1>11, <2>1, <2>3 DEF Discarded, SameFile
        <3>2. walk[best] \in LiveRecord /\ idx[s[1]] = Normalized(walk[best])
            BY <1>2, <2>3, RecordFacts DEF Told
        <3>3. idx[s[1]] # NoFile /\ idx[s[1]].content = walk[s].content
            BY <3>1, <3>2, NormalizedFacts, RecordFacts
        <3> QED BY <2>1, <3>3 DEF InAccount
    <2> QED BY <2>2, <2>3
<1>12. Accounted'
    <2> SUFFICES ASSUME ~diskFull, NEW p \in Synced, Accountable(p)' PROVE InAccount(p)'
        BY <1>1 DEF Accounted
    <2>1. walk[<<p, Main>>] # NoFile /\ ~walk[<<p, Main>>].del /\ p \notin groups
        BY <1>1 DEF Accountable
    <2>2. InAccount(p)
        <3>1. CASE s = <<p, Main>> /\ s \in losers
            <4>1. s[1] = p /\ s[2] = Main
                BY <3>1
            <4>2. ~walk[s].del
                BY <2>1, <3>1
            <4>3. InAccount(s[1])
                BY <1>11, <3>1, <4>1, <4>2
            <4> QED BY <4>1, <4>3
        <3>2. CASE ~(s = <<p, Main>> /\ s \in losers)
            <4>1. Accountable(p)
                BY <1>1, <3>2 DEF Accountable
            <4>2. pc # "idle"
                BY <1>1
            <4>3. Accountable(p) => InAccount(p)
                BY <4>2 DEF Preserving, Accounted
            <4> QED BY <4>1, <4>3
        <3> QED BY <3>1, <3>2
    <2>3. tomb[p] <= tomb'[p]
        BY <1>1, NamesAssumption DEF TypeOK
    <2> QED BY <1>1, <1>5, <2>1, <2>2, <2>3, InAccountStays
<1> QED BY <1>4, <1>5, <1>6, <1>7, <1>8, <1>9, <1>10, <1>12 DEF Preserving

LEMMA KeepPreserving ==
    ASSUME Loading, Loading', Preserving, NEW s \in losers, KeepLoser(s)
    PROVE  Preserving'
<1> DEFINE r == Normalized(walk[s])
           d == CopyOf(s, walk[s])
<1>1. /\ r # NoFile /\ r.del = FALSE /\ r.stamp = walk[s].stamp /\ r.content = walk[s].content
      /\ ~walk[s].del /\ d \in Slot /\ d = <<ConflictPath(s[1], r.stamp, s[2]), Main>>
      /\ ConflictPath(s[1], r.stamp, s[2]) \notin Synced
    BY LoserFacts DEF KeepLoser
<1>2. /\ pc = "settling" /\ pc' = pc /\ losers' = losers \ {s}
      /\ copied' = IF diskFull THEN {} ELSE {s}
      /\ idx' = [idx EXCEPT ![ConflictPath(s[1], r.stamp, s[2])] = r]
      /\ files' = IF diskFull THEN files ELSE [files EXCEPT ![d] = r]
      /\ UNCHANGED <<walk, groups, best, writes, diskFull, clock, tomb, known, owed, overrun>> /\ TypeOK
    BY <1>1 DEF KeepLoser, Removable, history, Loading
<1>3. /\ s \in Slot /\ s[1] \in Synced /\ walk[s] \in Record
      /\ walk[s].stamp \in Stamps(s[2]) /\ s[2] \in Variant \cup {Main}
      /\ d = Copy(s[1], walk[s].stamp, s[2])
    BY ChoiceFacts, SlotFacts DEF CopyOf
<1> HIDE DEF r, d
<1>4. /\ \A x \in Slot : x # d => files'[x] = files[x]
      /\ files'[d] = IF diskFull THEN files[d] ELSE r
      /\ \A p \in Synced : idx'[p] = idx[p]
    BY <1>1, <1>2, NamesAssumption DEF TypeOK
<1>5. \A x \in Slot : x[1] \in Synced => files'[x] = files[x]
    BY <1>1, <1>4
<1>6. walk[s] \in Known /\ files'[d] \in {files[d], r}
    BY <1>3, <1>4, RecordFacts DEF Known
<1>7. StampsTell'
    <2>1. ASSUME NEW o \in Known' PROVE o \in Known \cup {r}
        BY <1>1, <1>2, <1>4, <1>6 DEF Known
    <2>2. \A o \in Known' : \E k \in Known :
              o.stamp = k.stamp /\ o.del = k.del /\ o.content = k.content
        <3> SUFFICES ASSUME NEW o \in Known'
                     PROVE  \E k \in Known : o.stamp = k.stamp /\ o.del = k.del /\ o.content = k.content
            OBVIOUS
        <3>1. CASE o \in Known
            BY <3>1
        <3>2. CASE o = r
            <4>1. walk[s].del = FALSE
                BY <1>1, <1>3, RecordFacts
            <4> QED BY <1>1, <1>6, <3>2, <4>1
        <3> QED BY <2>1, <3>1, <3>2
    <2>3. clock <= clock'
        BY <1>2 DEF TypeOK
    <2> QED BY <2>2, <2>3, KnownStep DEF Preserving
<1>8. CopiesGenuine'
    <2> SUFFICES ASSUME NEW p \in Synced, NEW n \in Variant \cup {Main}, NEW t \in Stamps(n),
                        files'[Copy(p, t, n)] # NoFile
                 PROVE  ~files'[Copy(p, t, n)].del /\ files'[Copy(p, t, n)].stamp = t
        BY DEF CopiesGenuine
    <2>1. files[Copy(p, t, n)] # NoFile => ~files[Copy(p, t, n)].del /\ files[Copy(p, t, n)].stamp = t
        BY DEF Preserving, CopiesGenuine
    <2>2. CASE Copy(p, t, n) # d \/ diskFull
        BY <1>4, <2>1, <2>2, CopyFacts
    <2>3. CASE Copy(p, t, n) = d /\ ~diskFull
        <3>1. t = walk[s].stamp
            BY <1>3, <2>3, ConflictAssumption DEF Copy
        <3> QED BY <1>1, <1>4, <2>3, <3>1
    <2> QED BY <2>2, <2>3
<1>9. ASSUME NEW p \in Synced PROVE CopiesRemain(p)
    <2> SUFFICES ASSUME NEW n \in Variant \cup {Main}, NEW t \in Stamps(n), NEW x,
                        Holds(Copy(p, t, n), x)
                 PROVE  Holds(Copy(p, t, n), x)'
        BY DEF CopiesRemain
    <2>1. CASE Copy(p, t, n) # d \/ diskFull
        <3>1. files'[Copy(p, t, n)] = files[Copy(p, t, n)]
            BY <1>4, <2>1, CopyFacts
        <3> QED BY <3>1 DEF Holds
    <2>2. CASE Copy(p, t, n) = d /\ ~diskFull
        <3>1. files[d] # NoFile /\ ~files[d].del /\ files[d].content = x /\ files[d].stamp = t
            BY <2>2 DEF Holds, Preserving, CopiesGenuine
        <3>2. t = walk[s].stamp /\ files[d] \in Known
            BY <1>1, <1>3, <2>2, <3>1, ConflictAssumption DEF Copy, Known
        <3>3. walk[s].content = x
            BY <1>1, <1>6, <3>1, <3>2 DEF Preserving, StampsTell
        <3> QED BY <1>1, <1>4, <2>2, <3>3 DEF Holds
    <2> QED BY <2>1, <2>2
<1>10. WritesToOriginals'
    BY <1>2 DEF WritesToOriginals, Preserving
<1>11. ~diskFull => Holds(Copy(s[1], walk[s].stamp, s[2]), walk[s].content)'
    BY <1>1, <1>2, <1>3, <1>4 DEF Holds
<1>12. CopySaved'
    BY <1>1, <1>2, <1>11 DEF CopySaved, CopyOf, Copy, Holds
<1>13. AllKept'
    <2> SUFFICES ASSUME NEW v \in SharedOwed PROVE Kept(v)'
        BY <1>2 DEF AllKept, SharedOwed
    <2>1. v \in Versions /\ v.path \in Synced /\ Kept(v) /\ TypeOK' /\ tomb[v.path] <= tomb'[v.path]
        BY <1>2, NamesAssumption DEF SharedOwed, TypeOK, Preserving, AllKept, Versions, Loading
    <2>2. \A n \in Variant \cup {Main} : files'[<<v.path, n>>] = files[<<v.path, n>>]
        BY <1>5, <2>1, SlotFacts
    <2>3. \A n \in Variant \cup {Main} : AtPath(v, <<v.path, n>>) => AtPath(v, <<v.path, n>>)'
        BY <2>2 DEF AtPath, Holds
    <2>4. KeptElsewhere(v) => KeptElsewhere(v)'
        BY <1>2, <1>9, <2>1, <2>3, ElsewhereStays
    <2>5. InMain(v) => InMain(v)'
        BY <1>2, <2>2, <2>3 DEF InMain, Unread, Lost
    <2> QED BY <2>1, <2>4, <2>5 DEF Kept
<1>14. VariantsKnown'
    <2>1. \A x \in Slot : x[2] # Main => files'[x] = files[x]
        BY <1>1, <1>4
    <2> QED BY <1>2, <2>1, VariantsKnownStep DEF Preserving
<1>15. Renewed'
    <2> SUFFICES ASSUME NEW v \in owed, Replaced(v)'
                 PROVE  (v \in Lost(<<v.path, Main>>) \/ Late(v))'
        BY <1>2 DEF Renewed
    <2>1. v.path \in Synced /\ \A n \in Variant \cup {Main} : files'[<<v.path, n>>] = files[<<v.path, n>>]
        BY <1>5, SlotFacts DEF Replaced
    <2>2. Replaced(v)
        BY <1>2, <2>1 DEF Replaced, Unread
    <2>3. v \in Lost(<<v.path, Main>>) \/ Late(v)
        BY <1>2, <2>2 DEF Preserving, Renewed
    <2> QED BY <1>2, <2>1, <2>3 DEF Lost, Unread, Late, AtPath, Holds
<1>16. Accounted'
    <2> SUFFICES ASSUME ~diskFull, NEW p \in Synced, Accountable(p)' PROVE InAccount(p)'
        BY <1>2 DEF Accounted
    <2>1. CASE s = <<p, Main>>
        <3>1. s[1] = p /\ s[2] = Main
            BY <2>1
        <3> QED BY <1>2, <1>11, <2>1, <3>1 DEF InAccount, CopyOf
    <2>2. CASE s # <<p, Main>>
        <3>1. Accountable(p) /\ walk[<<p, Main>>] # NoFile /\ tomb[p] <= tomb'[p]
            BY <1>2, <2>2, NamesAssumption DEF Accountable, TypeOK
        <3>2. InAccount(p)
            BY <1>2, <3>1 DEF Preserving, Accounted
        <3> QED BY <1>2, <1>4, <1>9, <3>1, <3>2, InAccountStays
    <2> QED BY <2>1, <2>2
<1> QED BY <1>7, <1>8, <1>10, <1>12, <1>13, <1>14, <1>15, <1>16 DEF Preserving

LEMMA LoadedPreserving == Loading /\ Loading' /\ Preserving /\ Loaded => Preserving'
<1> SUFFICES ASSUME Loading, Loading', Preserving, Loaded PROVE Preserving'
    OBVIOUS
<1>1. /\ pc = "settling" /\ pc' = "loaded"
      /\ UNCHANGED <<files, walk, groups, losers, copied, idx, writes, diskFull, clock, tomb>>
      /\ UNCHANGED <<known, owed, overrun>> /\ TypeOK
    BY DEF Loaded, loadVars, history, Loading
<1>2. CopiesGenuine' /\ AllKept' /\ \A p : CopiesRemain(p)
    BY <1>1, FilesStay
<1>3. StampsTell'
    BY <1>1, KnownFewer DEF Preserving
<1>4. WritesToOriginals' /\ CopySaved' /\ VariantsKnown'
    BY <1>1, VariantsKnownStep DEF WritesToOriginals, CopySaved, CopyOf, Copy, Holds, Preserving
<1>5. Renewed'
    BY <1>1 DEF Renewed
<1>6. Accounted'
    <2>1. \A p \in Synced : tomb[p] <= tomb'[p]
        BY <1>1, NamesAssumption DEF TypeOK
    <2> QED BY <1>1, <1>2, <2>1, AccountedStays DEF Preserving
<1> QED BY <1>2, <1>3, <1>4, <1>5, <1>6 DEF Preserving

LEMMA IdlePreserving == Loading /\ Loading' /\ Preserving /\ Idle => Preserving'
<1> SUFFICES ASSUME Loading, Loading', Preserving, Idle PROVE Preserving'
    OBVIOUS
<1>1. /\ pc' = "idle" /\ copied' = {} /\ writes' = Empty
      /\ walk' = NoFiles /\ \A s \in Slot : NoFiles[s] = NoFile
      /\ UNCHANGED <<files, clock, tomb, known, owed, overrun>>
    BY DEF Idle, history, NoFiles
<1>2. CopiesGenuine' /\ AllKept'
    BY <1>1, FilesStay
<1>3. StampsTell'
    BY <1>1, EmptyFacts, KnownFewer DEF Preserving
<1>4. WritesToOriginals' /\ CopySaved' /\ VariantsKnown'
    BY <1>1, EmptyFacts, VariantsKnownStep DEF WritesToOriginals, CopySaved, Preserving
<1>5. Renewed' /\ Accounted'
    BY <1>1 DEF Renewed, Accounted
<1> QED BY <1>2, <1>3, <1>4, <1>5 DEF Preserving

LEMMA BeginPreserving ==
    ASSUME CopiesLeftAlone, Loading, Loading', Preserving, NEW tree \in Trees, Begin(tree)
    PROVE  Preserving'
<1>1. /\ pc = "loaded" /\ pc' = "writing" /\ clock' = clock + 2 /\ clock <= 2 * MaxWrites /\ DOMAIN writes' \subseteq tree
      /\ UNCHANGED <<files, walk, groups, losers, copied, idx, diskFull, tomb, known, owed, overrun>>
      /\ writes = Empty /\ losers = {} /\ copied = {} /\ TypeOK
    BY DEF Begin, loadVars, history, Loading, Phases
<1>2. CopiesGenuine' /\ AllKept' /\ \A p : CopiesRemain(p)
    BY <1>1, FilesStay
<1>3. clock \in Nat /\ clock \in OwnStamps
    BY <1>1, ClockFacts
<1>4. StampsTell'
    <2>1. \A r \in Known' : r \in Known \/ \E p \in DOMAIN writes' : r = writes'[p]
        BY <1>1 DEF Known
    <2>2. \A p \in DOMAIN writes' : writes'[p].stamp = clock
        BY DEF Begin, LiveAt, TombstoneAt
    <2>3. \A p, q \in DOMAIN writes' :
              ~writes'[p].del /\ ~writes'[q].del => writes'[p].content = writes'[q].content
        BY DEF Begin, LiveAt, TombstoneAt
    <2>4. ASSUME NEW r \in Known, r.stamp \in OwnStamps
          PROVE  r.stamp < clock /\ r.stamp \in Nat
        BY <2>4, NamesAssumption DEF Preserving, StampsTell, OwnStamps
    <2>5. \A r \in Known : r.stamp # clock
        BY <1>3, <2>4
    <2>6. ASSUME NEW r \in Known', NEW o \in Known', r.stamp = o.stamp, ~r.del, ~o.del
          PROVE  r.content = o.content
        BY <2>1, <2>2, <2>3, <2>5, <2>6 DEF Preserving, StampsTell
    <2>7. ASSUME NEW r \in Known', r.stamp \in OwnStamps PROVE r.stamp < clock'
        <3>1. CASE r \in Known
            BY <1>1, <1>3, <2>4, <2>7, <3>1
        <3>2. CASE \E p \in DOMAIN writes' : r = writes'[p]
            BY <1>1, <1>3, <2>2, <3>2
        <3> QED BY <2>1, <3>1, <3>2
    <2> QED BY <2>6, <2>7 DEF StampsTell
<1>5. WritesToOriginals'
    BY <1>1 DEF WritesToOriginals, CopiesLeftAlone
<1>6. CopySaved' /\ VariantsKnown' /\ Renewed'
    BY <1>1, VariantsKnownStep DEF CopySaved, Renewed, Preserving
<1>7. Accounted'
    <2>1. \A p \in Synced : tomb[p] <= tomb'[p]
        BY <1>1, NamesAssumption DEF TypeOK
    <2> QED BY <1>1, <1>2, <2>1, AccountedStays DEF Preserving
<1> QED BY <1>2, <1>4, <1>5, <1>6, <1>7 DEF Preserving

LEMMA SavePreserving ==
    ASSUME Loading, Loading', Preserving, NEW q \in DOMAIN writes, Save(q)
    PROVE  Preserving'
<1> DEFINE r == writes[q]
<1>1. /\ pc = "writing" /\ q \in Path /\ r \in Record /\ <<q, Main>> \in Slot /\ ~diskFull
      /\ losers = {} /\ copied = {} /\ groups = {}
      /\ files'[<<q, Main>>] = r /\ RankGen(r) = r.gen
      /\ \A x \in Slot : x # <<q, Main>> => files'[x] = files[x]
      /\ DOMAIN writes' = DOMAIN writes \ {q} /\ \A p \in DOMAIN writes' : writes'[p] = writes[p]
      /\ \A p \in Path : tomb[p] <= tomb'[p]
      /\ UNCHANGED <<pc, walk, groups, losers, copied, idx, diskFull, clock>> /\ TypeOK /\ TypeOK'
    BY SaveFacts DEF loadVars, Loading
<1>2. /\ owed' = (owed \ Superseded(q)) \cup (IF r.del THEN {} ELSE {Version(q, r)})
      /\ overrun' = overrun \cup Lost(<<q, Main>>) /\ UNCHANGED known
    BY DEF Save
<1>3. Original(q) = q
    BY DEF Preserving, WritesToOriginals
<1> HIDE DEF r
<1>4. StampsTell'
    <2>1. r \in {writes[p] : p \in DOMAIN writes}
        BY DEF r
    <2>2. \A x \in Slot : files'[x] \in {files[x], r} /\ walk'[x] = walk[x]
        BY <1>1
    <2> QED BY <1>1, <2>1, <2>2, KnownFewer DEF Preserving
<1>5. CopiesGenuine' /\ \A p \in Synced : CopiesRemain(p)
    BY <1>1, <1>3, CopiesUntouched DEF Preserving
<1>6. WritesToOriginals' /\ CopySaved' /\ VariantsKnown' /\ Renewed'
    <2>1. \A x \in Slot : x[2] # Main => files'[x] = files[x]
        BY <1>1
    <2> QED BY <1>1, <1>2, <2>1, VariantsKnownStep
            DEF WritesToOriginals, CopySaved, Renewed, Preserving
<1>7. ASSUME NEW v \in owed \ overrun', v.path \in Synced, v \notin Superseded(q)
      PROVE  Kept(v)'
    <2>1. v \in SharedOwed /\ v \in Versions /\ Kept(v) /\ tomb[v.path] <= tomb'[v.path]
        BY <1>1, <1>2, <1>7, NamesAssumption DEF TypeOK, Preserving, AllKept, SharedOwed
    <2>2. \A n \in Variant \cup {Main} : <<v.path, n>> \in Slot
        BY <1>7, SlotFacts
    <2>3. \A n \in Variant : AtPath(v, <<v.path, n>>) => AtPath(v, <<v.path, n>>)'
        BY <1>1, <2>2, NamesAssumption DEF AtPath, Holds
    <2>4. KeptElsewhere(v) => KeptElsewhere(v)'
        BY <1>1, <1>5, <1>7, <2>1, <2>3, ElsewhereStays
    <2>5. CASE v.path # q
        <3>1. files'[<<v.path, Main>>] = files[<<v.path, Main>>]
            BY <1>1, <2>2, <2>5
        <3>2. InMain(v) => InMain(v)'
            BY <1>1, <3>1 DEF InMain, AtPath, Holds, Unread, Lost
        <3> QED BY <2>1, <2>4, <3>2 DEF Kept
    <2>6. CASE v.path = q
        <3> SUFFICES ASSUME InMain(v) PROVE KeptElsewhere(v)
            BY <2>1, <2>4 DEF Kept
        <3> DEFINE m == <<q, Main>>
        <3>1. ~Unread(m)
            BY <1>1, <1>2, <1>7, <2>6 DEF InMain
        <3>2. files[m] = walk[m] /\ walk[m] # NoFile /\ ~walk[m].del /\ walk[m].content = v.content
              /\ RankGen(walk[m]) >= v.gen
            BY <2>6, <3>1 DEF InMain, AtPath, Holds, Unread
        <3>3. q \in Synced /\ Accountable(q)
            BY <1>1, <1>7, <2>6, <3>2 DEF Accountable
        <3>4. InAccount(q)
            BY <1>1, <3>3 DEF Preserving, Accounted
        <3>5. ~(idx[q] # NoFile /\ idx[q].content = walk[m].content)
            BY <1>7, <2>6, <3>2 DEF Superseded
        <3>6. walk[m] \in Record /\ walk[m].stamp \in Stamps(Main) /\ m \in Slot
            BY <1>1, <3>2, <3>3 DEF Loading, TypeOK, StampsKnown
        <3>7. CASE Effective(walk[m]) < tomb[q]
            <4>1. /\ v.gen \in Nat /\ RankGen(walk[m]) \in Nat /\ Effective(walk[m]) \in Nat
                  /\ tomb[q] \in Nat /\ RankGen(walk[m]) <= Effective(walk[m])
                BY <1>1, <2>1, <3>6, RecordFacts DEF Versions, TypeOK
            <4>2. v.gen < tomb[v.path]
                BY <2>6, <3>2, <3>7, <4>1
            <4> QED BY <4>2 DEF KeptElsewhere
        <3>8. CASE Holds(CopyOf(m, walk[m]), walk[m].content)
            <4>1. CopyOf(m, walk[m]) = Copy(v.path, walk[m].stamp, Main)
                BY <2>6 DEF CopyOf
            <4>2. Holds(Copy(v.path, walk[m].stamp, Main), v.content)
                BY <3>2, <3>8, <4>1
            <4> QED BY <3>6, <4>2 DEF KeptElsewhere
        <3> QED BY <3>4, <3>5, <3>7, <3>8 DEF InAccount
    <2> QED BY <2>5, <2>6
<1>8. ASSUME NEW v, ~r.del, v = Version(q, r) PROVE Kept(v)'
    <2>1. /\ v.path = q /\ v.gen = r.gen /\ v.content = r.content
          /\ r # NoFile /\ r.gen \in Nat
        BY <1>1, <1>8, RecordFacts DEF Version
    <2>2. AtPath(v, <<q, Main>>)'
        BY <1>1, <1>8, <2>1 DEF AtPath, Holds
    <2>3. Unread(<<q, Main>>)' => v \in Lost(<<q, Main>>)'
        BY <1>1, <1>8 DEF Lost, Claim
    <2> QED BY <2>1, <2>2, <2>3 DEF Kept, InMain
<1>9. AllKept'
    <2> SUFFICES ASSUME NEW v \in owed', v \notin overrun', v.path \in Synced PROVE Kept(v)'
        BY DEF AllKept, SharedOwed
    <2> QED BY <1>2, <1>7, <1>8
<1>10. Accounted'
    BY <1>1, <1>5, NamesAssumption, AccountedStays DEF Preserving
<1> QED BY <1>4, <1>5, <1>6, <1>9, <1>10 DEF Preserving

LEMMA ArrivePreserving ==
    ASSUME Loading, Loading', Preserving, NEW s, NEW r, Arrives(s, r)
    PROVE  Preserving'
<1>1. /\ s \in Slot /\ s[1] \in Synced /\ s[1] \in Path /\ r \in Foreign /\ r \in Record /\ r # NoFile
      /\ owed' \subseteq owed \cup (Claim(s[1], r) \ known) /\ overrun' = overrun \ Claim(s[1], r)
      /\ known' = known \cup Claim(s[1], r) /\ s = <<s[1], s[2]>> /\ s[2] \in Variant \cup {Main}
      /\ UNCHANGED <<pc, walk, groups, best, losers, copied, idx, writes, diskFull, clock>>
      /\ TypeOK /\ TypeOK'
    BY NamesAssumption, NoFileAssumption, SlotFacts DEF Arrives, loadVars, Loading
<1>2. files'[s] = r /\ \A x \in Slot : x # s => files'[x] = files[x]
    BY <1>1 DEF Arrives, TypeOK
<1>3. \A p \in Path : tomb[p] <= tomb'[p]
    <2>1. Effective(r) \in Nat
        BY <1>1, RecordFacts
    <2> QED BY <1>1, <2>1 DEF Arrives, TypeOK
<1>4. s[2] # Main => {files[s], walk[s]} \subseteq {NoFile, r}
    <2>1. ASSUME s[2] # Main
          PROVE  origin[s] \in {NoFile, r} /\ {files[s], walk[s]} \subseteq {NoFile, origin[s]}
        BY <1>1, <2>1 DEF Arrives, Loading, VariantsFixed
    <2> QED BY <2>1
<1>5. s[2] = Main /\ files[s] # NoFile =>
          \A v \in owed' \ Claim(s[1], r) : v.path # s[1] \/ v.content # files[s].content
    BY DEF Arrives
<1>6. StampsTell'
    BY <1>1, <1>2, KnownFewer DEF Preserving
<1>7. CopiesGenuine' /\ \A p \in Synced : CopiesRemain(p)
    BY <1>1, <1>2, CopiesUntouched DEF Preserving
<1>8. WritesToOriginals' /\ CopySaved'
    <2>1. ASSUME NEW x \in copied
          PROVE  Holds(CopyOf(x, walk[x]), walk[x].content) =>
                     Holds(CopyOf(x, walk[x]), walk[x].content)'
        <3>1. /\ x[1] \in Synced /\ walk[x].stamp \in Stamps(x[2]) /\ x[2] \in Variant \cup {Main}
            BY ChoiceFacts, SlotFacts
        <3> QED BY <1>1, <1>7, <3>1 DEF CopiesRemain, CopyOf, Copy, Holds
    <2> QED BY <1>1, <2>1 DEF WritesToOriginals, CopySaved, Preserving
<1>9. ASSUME NEW v \in owed' \ Claim(s[1], r), v \notin overrun', v.path \in Synced
      PROVE  Kept(v)'
    <2>1. /\ v \in SharedOwed /\ v \in Versions /\ Kept(v) /\ tomb[v.path] <= tomb'[v.path]
        BY <1>1, <1>3, <1>9, NamesAssumption DEF TypeOK, Preserving, AllKept, SharedOwed
    <2>2. \A n \in Variant \cup {Main} : <<v.path, n>> \in Slot
        BY <1>9, SlotFacts
    <2>3. ASSUME NEW n \in Variant \cup {Main}, AtPath(v, <<v.path, n>>)
          PROVE  files'[<<v.path, n>>] = files[<<v.path, n>>]
        <3>1. CASE <<v.path, n>> # s
            BY <1>2, <2>2, <3>1
        <3>2. CASE <<v.path, n>> = s
            <4>1. s[2] # Main
                BY <1>5, <1>9, <2>3, <3>2 DEF AtPath, Holds
            <4> QED BY <1>2, <1>4, <2>3, <3>2, <4>1 DEF AtPath, Holds
        <3> QED BY <3>1, <3>2
    <2>4. \A n \in Variant \cup {Main} : AtPath(v, <<v.path, n>>) => AtPath(v, <<v.path, n>>)'
        BY <2>3 DEF AtPath, Holds
    <2>5. KeptElsewhere(v) => KeptElsewhere(v)'
        BY <1>1, <1>7, <1>9, <2>1, <2>4, ElsewhereStays
    <2>6. InMain(v) => InMain(v)'
        <3> SUFFICES ASSUME InMain(v) PROVE InMain(v)'
            OBVIOUS
        <3>1. files'[<<v.path, Main>>] = files[<<v.path, Main>>]
            BY <2>3 DEF InMain
        <3> QED BY <1>1, <2>4, <3>1 DEF InMain, Unread, Lost
    <2> QED BY <2>1, <2>5, <2>6 DEF Kept
<1>10. ASSUME NEW v \in Claim(s[1], r)
       PROVE  /\ v.path = s[1] /\ v.content = r.content /\ AtPath(v, s)'
              /\ Kept(v)'
    <2>1. v.path = s[1] /\ v.gen = RankGen(r) /\ v.content = r.content /\ ~r.del
        BY DEF Claim, Version
    <2>2. RankGen(r) \in Nat
        BY <1>1, RecordFacts
    <2>3. AtPath(v, s)'
        BY <1>1, <1>2, <2>1, <2>2 DEF AtPath, Holds
    <2>4. \A n : s = <<v.path, n>> => AtPath(v, <<v.path, n>>)'
        BY <2>3
    <2>5. Unread(s)' => v \in Lost(s)'
        BY <1>1, <1>2 DEF Lost
    <2>6. CASE s[2] = Main
        <3>1. s = <<v.path, Main>>
            BY <1>1, <2>1, <2>6
        <3> QED BY <2>1, <2>3, <2>5, <3>1 DEF Kept, InMain
    <2>7. CASE s[2] # Main
        BY <1>1, <2>1, <2>3, <2>4, <2>7 DEF Kept, KeptElsewhere
    <2> QED BY <2>6, <2>7
<1>11. AllKept'
    <2> SUFFICES ASSUME NEW v \in owed', v \notin overrun', v.path \in Synced PROVE Kept(v)'
        BY DEF AllKept, SharedOwed
    <2> QED BY <1>9, <1>10
<1>12. Accounted'
    BY <1>1, <1>3, <1>7, NamesAssumption, AccountedStays DEF Preserving
<1>13. VariantsKnown'
    <2> SUFFICES ASSUME NEW x \in Slot, x[2] # Main, NEW o \in {files'[x], walk[x]}, o # NoFile
                 PROVE  Claim(x[1], o) \subseteq known'
        BY <1>1 DEF VariantsKnown, Claim, Version
    <2>1. CASE x = s /\ o = r
        BY <1>1, <2>1
    <2>2. CASE ~(x = s /\ o = r)
        BY <1>1, <1>2, <2>2 DEF Preserving, VariantsKnown
    <2> QED BY <2>1, <2>2
<1>14. Renewed'
    <2> SUFFICES ASSUME pc = "settling", NEW v \in owed', Replaced(v)'
                 PROVE  (v \in Lost(<<v.path, Main>>) \/ Late(v))'
        BY <1>1 DEF Renewed
    <2> DEFINE m == <<v.path, Main>>
    <2>1. /\ v.path \in Synced /\ (v.path \in groups \/ (best = m /\ losers \cup copied # {}))
          /\ walk[m] # NoFile /\ ~walk[m].del /\ walk[m].content = v.content /\ m \in Slot /\ m[2] = Main
        BY <1>1, SlotFacts DEF Replaced
    <2>2. files[m] # NoFile
        <3>1. CASE v.path \in groups
            <4>1. m \in Slot /\ m[1] = v.path /\ walk[m] # NoFile
                BY <2>1
            <4>2. Stands(m)
                BY <2>1, <3>1, <4>1 DEF Loading, Unsettled
            <4> QED BY <4>2 DEF Stands
        <3>2. CASE best = m /\ losers \cup copied # {}
            BY <3>2, RecordFacts, ChoiceFacts
        <3> QED BY <2>1, <3>1, <3>2
    <2>3. Late(v) => Late(v)'
        <3> SUFFICES ASSUME NEW n \in Variant, walk[<<v.path, n>>] = NoFile, AtPath(v, <<v.path, n>>)
                     PROVE  AtPath(v, <<v.path, n>>)'
            BY <1>1 DEF Late
        <3>1. <<v.path, n>> \in Slot /\ <<v.path, n>>[2] # Main
            <4>1. v.path \in Synced /\ n # Main
                BY <2>1, NamesAssumption
            <4>2. <<v.path, n>>[2] = n
                OBVIOUS
            <4> QED BY <4>1, <4>2, SlotFacts
        <3>2. files'[<<v.path, n>>] = files[<<v.path, n>>]
            <4>1. CASE <<v.path, n>> = s
                BY <1>2, <1>4, <3>1, <4>1 DEF AtPath, Holds
            <4>2. CASE <<v.path, n>> # s
                BY <1>2, <3>1, <4>2
            <4> QED BY <4>1, <4>2
        <3> QED BY <3>2 DEF AtPath, Holds
    <2>4. CASE s = m /\ v \in Claim(s[1], r)
        BY <1>1, <1>2, <2>1, <2>4 DEF Replaced, Lost
    <2>5. CASE s = m /\ v \notin Claim(s[1], r)
        <3>1. v \in owed /\ v.content # files[m].content
            BY <1>1, <1>5, <2>1, <2>2, <2>5
        <3>2. Replaced(v)
            BY <2>1, <2>2, <3>1 DEF Replaced, Unread
        <3>3. v \notin Lost(m)
            BY <3>1 DEF Lost, Claim, Version
        <3> QED BY <2>3, <3>1, <3>2, <3>3 DEF Preserving, Renewed
    <2>6. CASE s # m
        <3>1. files'[m] = files[m]
            BY <1>2, <2>1, <2>6
        <3>2. Replaced(v)
            BY <1>1, <2>1, <3>1 DEF Replaced, Unread
        <3>3. v \in owed => v \in Lost(m)' \/ Late(v)'
            BY <1>1, <2>3, <3>1, <3>2 DEF Preserving, Renewed, Lost, Unread
        <3>4. CASE v \notin owed
            <4>1. v \in Claim(s[1], r) /\ v \notin known
                BY <1>1, <3>4
            <4>2. s = <<v.path, s[2]>> /\ s[2] \in Variant /\ s[2] # Main
                BY <1>1, <1>10, <2>6, <4>1
            <4>3. walk[s] = NoFile
                <5>1. walk[s] # r
                    BY <1>1, <4>1, <4>2 DEF Preserving, VariantsKnown
                <5> QED BY <1>4, <4>2, <5>1
            <4>4. AtPath(v, s)'
                BY <1>10, <4>1
            <4>5. \A n : s = <<v.path, n>> => AtPath(v, <<v.path, n>>)' /\ walk'[<<v.path, n>>] = NoFile
                BY <1>1, <4>3, <4>4
            <4> QED BY <4>2, <4>5 DEF Late
        <3> QED BY <3>3, <3>4
    <2> QED BY <2>4, <2>5, <2>6
<1> QED BY <1>6, <1>7, <1>8, <1>11, <1>12, <1>13, <1>14 DEF Preserving

LEMMA StepPreserving ==
    ASSUME CopiesLeftAlone
    PROVE  Loading /\ Preserving /\ [Next]_vars => Preserving'
<1> SUFFICES ASSUME Loading, Preserving, [Next]_vars PROVE Preserving'
    OBVIOUS
<1>1. Loading' /\ TypeOK
    BY StepLoading DEF Loading
<1>2. CASE UNCHANGED vars
    <2>1. /\ UNCHANGED <<files, walk, groups, best, losers, copied, idx, writes, diskFull, clock, pc>>
          /\ UNCHANGED <<tomb, known, owed, overrun>>
        BY <1>2 DEF vars, loadVars, history
    <2>2. CopiesGenuine' /\ AllKept' /\ \A p : CopiesRemain(p)
        BY <2>1, FilesStay
    <2>3. StampsTell'
        BY <1>1, <2>1, KnownFewer DEF Preserving
    <2>4. WritesToOriginals' /\ CopySaved' /\ VariantsKnown'
        BY <2>1, VariantsKnownStep DEF WritesToOriginals, CopySaved, CopyOf, Copy, Holds, Preserving
    <2>5. Renewed'
        BY <2>1 DEF Renewed, Replaced, Unread, Lost, Late, AtPath, Holds, Preserving
    <2>6. Accounted'
        BY <2>1 DEF Accounted, Accountable, InAccount, CopyOf, Copy, Holds, Preserving
    <2> QED BY <2>2, <2>3, <2>4, <2>5, <2>6 DEF Preserving
<1>3. ASSUME NEW s \in losers, DiscardLoser(s) PROVE Preserving'
    BY <1>1, <1>3, RemovalStep, RemovalPreserving DEF DiscardLoser, Spent
<1>4. ASSUME NEW s \in copied, RemoveCopied(s) PROVE Preserving'
    BY <1>1, <1>4, RemovalStep, RemovalPreserving DEF Spent
<1>5. CASE Read \/ EndRequest \/ Crash
    BY <1>1, <1>5, IdleStep, IdlePreserving
<1>6. CASE \E tree \in Trees : BeginPut(tree) \/ BeginRemove(tree)
    BY <1>1, <1>6, BeginStep, BeginPreserving
<1>7. CASE \E q \in Synced, r \in Foreign :
               ArriveMain(q, r) \/ \E n \in Variant : ArriveVariant(q, n, r)
    BY <1>1, <1>7, ArriveStep, ArrivePreserving
<1> QED BY <1>1, <1>2, <1>3, <1>4, <1>5, <1>6, <1>7, StepCases, WalkPreserving,
           SettlePreserving, KeepPreserving, LoadedPreserving, SavePreserving

\* As long as users leave the conflict copies alone, no live version of a shared path is
\* lost, whatever is delivered at any step, whatever a full disk or a crash interrupts:
\* the winner has its payload, or its conflict copy is saved before its file is removed
\* (loadManifestIndex), or a user or a newer tombstone has done away with it, or it was
\* delivered to the main name after the walk and hit there by this process (`overrun`).
THEOREM NoLiveVersionLost ==
    ASSUME CopiesLeftAlone
    PROVE  Spec => []Preserved
<1>1. Loading /\ Preserving => Preserved
    <2> SUFFICES ASSUME Loading, Preserving, NEW v \in owed, v.path \in Synced,
                        ~(v.gen < tomb[v.path]), v \notin overrun
                 PROVE  Held(v)
        BY DEF Preserved
    <2>1. Kept(v) /\ \A n \in Variant \cup {Main} : <<v.path, n>> \in Slot
        BY SlotFacts DEF Preserving, AllKept, SharedOwed
    <2>2. CASE \E n \in Variant \cup {Main} : AtPath(v, <<v.path, n>>)
        BY <2>1, <2>2 DEF AtPath, Holds, Held
    <2>3. CASE \E n \in Variant \cup {Main} : \E t \in Stamps(n) : Holds(Copy(v.path, t, n), v.content)
        BY <2>3, CopyFacts DEF Holds, Held
    <2> QED BY <2>1, <2>2, <2>3 DEF Kept, KeptElsewhere, InMain
<1>2. Loading /\ Preserving /\ [Next]_vars => (Loading /\ Preserving)'
    BY StepLoading, StepPreserving
<1> QED BY InitLoading, InitPreserving, <1>1, <1>2, PTL DEF Spec
=============================================================================

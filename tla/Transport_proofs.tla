--------------------------- MODULE Transport_proofs ---------------------------
(***************************************************************************)
(* Proofs about Transport, for any number of devices, paths and writes:    *)
(* type correctness, and that what an rclone device publishes is readable  *)
(* wherever its manifest has travelled, unless the device writes to its    *)
(* vault while it pushes.                                                  *)
(***************************************************************************)
EXTENDS Transport, TLAPS

Command == SUBSET {"chunk", "manifest"}

\* A transfer starts as a sequence of commands, and gives them up from the
\* front.
LEMMA PlanType ==
    ASSUME NEW d, NEW o
    PROVE  Plan(d, o) \in Seq(Command)
<1>1. {"chunk"} \in Command /\ {"manifest"} \in Command
          /\ {"chunk", "manifest"} \in Command
    BY DEF Command
<1>2. \A a, b \in Command : <<a, b>> \in Seq(Command) /\ <<a>> \in Seq(Command)
    OBVIOUS
<1> QED BY <1>1, <1>2 DEF Plan

LEMMA TailType ==
    ASSUME NEW s \in Seq(Command), s # <<>>
    PROVE  Head(s) \in Command /\ Tail(s) \in Seq(Command)
OBVIOUS

LEMMA ListingType ==
    ASSUME TypeOK, NEW s \in Store, NEW t \in Store, NEW kinds
    PROVE  Listing(s, t, kinds) \in SUBSET Item
BY DEF TypeOK, Listing, Item

LEMMA StoreType ==
    ASSUME NEW d \in Device
    PROVE  Source(d) \in Store /\ Target(d) \in Store /\ d \in Store /\ Remote \in Store
BY DEF Source, Target, Store

LEMMA DisturbType ==
    ASSUME TypeOK, NEW D, NEW S, Disturb(D, S)
    PROVE  calm' \in [Device -> BOOLEAN]
<1>1. \A e \in Device : (calm[e] /\ (\/ op[e] = "idle" \/ e \in D
                                    \/ {Source(e), Target(e)} \cap S = {})) \in BOOLEAN
    BY DEF TypeOK
<1> QED BY <1>1 DEF Disturb

-----------------------------------------------------------------------------
(* Type correctness                                                        *)

LEMMA TypeStep == TypeOK /\ [Next]_vars => TypeOK'
<1> SUFFICES ASSUME TypeOK, [Next]_vars PROVE TypeOK'
    OBVIOUS
<1>1. CASE UNCHANGED vars
    BY <1>1 DEF TypeOK, vars
<1>2. ASSUME NEW d \in Device, NEW q \in Path, NEW del \in BOOLEAN, Write(d, q, del)
      PROVE  TypeOK'
    <2> DEFINE v == [by |-> d, gen |-> clock + 1, del |-> del]
    <2>1. /\ clock < MaxWrites /\ clock' = clock + 1
          /\ objects' = [objects EXCEPT ![d] = @ \cup Chunks({v})]
          /\ manifest' = [manifest EXCEPT ![d][q] = v]
          /\ UNCHANGED <<leftover, op, left, items, writing>>
        BY <1>2 DEF Write
    <2>2. clock' \in 0..MaxWrites /\ v \in Version
        BY <2>1, ConstantsAssumption DEF TypeOK, Version
    <2>3. Chunks({v}) \in SUBSET Version
        BY <2>2 DEF Chunks
    <2> HIDE DEF v
    <2>4. objects' \in [Store -> SUBSET Version]
        BY <2>1, <2>3 DEF TypeOK
    <2>5. manifest' \in [Store -> [Path -> Version \cup {Absent}]]
        BY <2>1, <2>2 DEF TypeOK
    <2>7. calm' \in [Device -> BOOLEAN]
        BY <1>2, DisturbType DEF Write
    <2> QED BY <2>1, <2>2, <2>4, <2>5, <2>7 DEF TypeOK
<1>3. ASSUME NEW d \in Device, Gc(d) PROVE TypeOK'
    <2>1. calm' \in [Device -> BOOLEAN]
        BY <1>3, DisturbType DEF Gc
    <2> QED BY <1>3, <2>1 DEF TypeOK, Gc
<1>4. ASSUME NEW d \in Device, NEW o \in {"push", "pull"}, Start(d, o) PROVE TypeOK'
    <2>1. left' \in [Device -> Seq(SUBSET {"chunk", "manifest"})]
        BY <1>4, PlanType DEF TypeOK, Start, Command
    <2>2. calm' \in [Device -> BOOLEAN]
        <3>1. (\A e \in Device \ {d} : op[e] = "idle") \in BOOLEAN
            OBVIOUS
        <3> QED BY <1>4, <3>1 DEF TypeOK, Start
    <2> QED BY <1>4, <2>1, <2>2 DEF TypeOK, Start
<1>5. ASSUME NEW d \in Device, NextCommand(d) PROVE TypeOK'
    <2>1. left' \in [Device -> Seq(SUBSET {"chunk", "manifest"})]
        BY <1>5, TailType DEF TypeOK, NextCommand, Command
    <2>2. items' \in [Device -> SUBSET Item]
        BY <1>5, StoreType, ListingType DEF TypeOK, NextCommand
    <2> QED BY <1>5, <2>1, <2>2 DEF TypeOK, NextCommand
<1>6. ASSUME NEW d \in Device, NEW v \in Version, CopyChunk(d, v) PROVE TypeOK'
    <2>1. calm' \in [Device -> BOOLEAN]
        BY <1>6, DisturbType DEF CopyChunk
    <2>2. objects' \in [Store -> SUBSET Version]
        BY <1>6, StoreType DEF TypeOK, CopyChunk
    <2> QED BY <1>6, <2>1, <2>2 DEF TypeOK, CopyChunk
<1>7. ASSUME NEW d \in Device, NEW q \in Path, OpenManifest(d, q) PROVE TypeOK'
    <2>1. calm' \in [Device -> BOOLEAN]
        BY <1>7, DisturbType DEF OpenManifest
    <2>2. leftover' \in [Store -> SUBSET Path]
        BY <1>7, StoreType DEF TypeOK, OpenManifest
    <2>3. op[d] # "idle"
        BY <1>7 DEF TypeOK, OpenManifest
    <2> QED BY <1>7, <2>1, <2>2, <2>3 DEF TypeOK, OpenManifest
<1>8. ASSUME NEW d \in Device, NEW q \in Path, CopyManifest(d, q) PROVE TypeOK'
    <2>1. calm' \in [Device -> BOOLEAN]
        BY <1>8, DisturbType DEF CopyManifest
    <2>2. leftover' \in [Store -> SUBSET Path]
        BY <1>8, StoreType DEF TypeOK, CopyManifest
    <2>3. manifest' \in [Store -> [Path -> Version \cup {Absent}]]
        BY <1>8, StoreType DEF TypeOK, CopyManifest
    <2> QED BY <1>8, <2>1, <2>2, <2>3 DEF TypeOK, CopyManifest
<1>9. ASSUME NEW d \in Device, NEW q \in Path, CopyLeftover(d, q) PROVE TypeOK'
    <2>1. calm' \in [Device -> BOOLEAN]
        BY <1>9, DisturbType DEF CopyLeftover
    <2>2. leftover' \in [Store -> SUBSET Path]
        BY <1>9, StoreType DEF TypeOK, CopyLeftover
    <2> QED BY <1>9, <2>1, <2>2 DEF TypeOK, CopyLeftover
<1>10. ASSUME NEW d \in Device, Complete(d) \/ Interrupt(d) PROVE TypeOK'
    <2>1. End(d)
        BY <1>10 DEF Complete, Interrupt
    <2> QED BY <2>1 DEF TypeOK, End
<1> QED BY <1>1, <1>2, <1>3, <1>4, <1>5, <1>6, <1>7, <1>8, <1>9, <1>10 DEF Next

LEMMA TypeInit == Init => TypeOK
BY ConstantsAssumption DEF Init, TypeOK

\* Every variable keeps its type, and an idle device has nothing left to copy
\* (runSequence and copyDir end their transfer on every path).
THEOREM TypeCorrect == Spec => []TypeOK
BY TypeInit, TypeStep, PTL DEF Spec

-----------------------------------------------------------------------------
(* What is published is readable.  A manifest may reach any store by any   *)
(* detour, so the invariant follows it back to the one step that matters:  *)
(* the push of its writer.                                                 *)

\* The versions with a chunk that d itself has written, and has at a path.
Own(d) == {v \in Live(d) : v.by = d /\ ~v.del}

\* An own version's chunk is on the device, or else on the remote: an older
\* manifest may come back by a pull after gc has removed its chunk here.
OwnKept == \A d \in Orderly : Own(d) \subseteq objects[d] \cup objects[Remote]

\* A push first covers the own versions with the chunks it lists, and does
\* not list a manifest before these are copied.
PushOrdered ==
    \A d \in Orderly : op[d] = "push" =>
        \/ left[d] = <<{"chunk"}, {"manifest"}>> /\ items[d] = {}
        \/ /\ left[d] = <<{"manifest"}>>
           /\ items[d] \subseteq {"chunk"} \X Version
           /\ \A v \in Own(d) : v \in objects[Remote] \/ <<"chunk", v>> \in items[d]
        \/ left[d] = <<>> /\ Own(d) \subseteq objects[Remote]

IInv == TypeOK /\ PublishedReadable /\ OwnKept /\ PushOrdered

LEMMA OrderlyType == Orderly \subseteq Rclone /\ Orderly \subseteq Device
BY ConstantsAssumption DEF Orderly

LEMMA InitIInv == Init => IInv
<1> SUFFICES ASSUME Init PROVE IInv
    OBVIOUS
<1>1. \A s \in Store, q \in Path : manifest[s][q] = Absent
    BY DEF Init
<1>2. PublishedReadable
    BY <1>1 DEF PublishedReadable
<1>3. \A d \in Orderly : Own(d) = {} /\ op[d] = "idle"
    BY <1>1, ConstantsAssumption, OrderlyType DEF Init, Own, Live, Store
<1> QED BY <1>2, <1>3, TypeInit DEF IInv, OwnKept, PushOrdered

\* The invariant is kept by a step that leaves the manifests and the plans of
\* the devices alone, removes no chunk from the remote, and removes from a
\* device no chunk that one of its manifests refers to.
LEMMA Undisturbed ==
    ASSUME IInv, TypeOK', manifest' = manifest,
           objects[Remote] \subseteq objects'[Remote],
           \A d \in Orderly : Own(d) \cap objects[d] \subseteq objects'[d],
           \A d \in Orderly : op'[d] = "push" =>
               /\ op[d] = "push" /\ left'[d] = left[d]
               /\ items'[d] \subseteq items[d]
               /\ \A v : <<"chunk", v>> \in items[d] \ items'[d] => v \in objects'[Remote]
    PROVE  IInv'
<1>1. PublishedReadable'
    BY DEF IInv, PublishedReadable
<1>2. \A d \in Orderly : Own(d)' = Own(d)
    BY DEF Own, Live
<1>3. OwnKept'
    BY <1>2 DEF IInv, OwnKept
<1>4. PushOrdered'
    <2> SUFFICES ASSUME NEW d \in Orderly, op'[d] = "push"
                 PROVE  \/ left'[d] = <<{"chunk"}, {"manifest"}>> /\ items'[d] = {}
                        \/ /\ left'[d] = <<{"manifest"}>>
                           /\ items'[d] \subseteq {"chunk"} \X Version
                           /\ \A v \in Own(d) : \/ v \in objects'[Remote]
                                                \/ <<"chunk", v>> \in items'[d]
                        \/ left'[d] = <<>> /\ Own(d) \subseteq objects'[Remote]
        BY <1>2 DEF PushOrdered
    <2>1. /\ op[d] = "push" /\ left'[d] = left[d] /\ items'[d] \subseteq items[d]
          /\ \A v : <<"chunk", v>> \in items[d] \ items'[d] => v \in objects'[Remote]
        OBVIOUS
    <2>2. CASE left[d] = <<{"chunk"}, {"manifest"}>> /\ items[d] = {}
        BY <2>1, <2>2
    <2>3. CASE /\ left[d] = <<{"manifest"}>>
               /\ items[d] \subseteq {"chunk"} \X Version
               /\ \A v \in Own(d) : v \in objects[Remote] \/ <<"chunk", v>> \in items[d]
        BY <2>1, <2>3
    <2>4. CASE left[d] = <<>> /\ Own(d) \subseteq objects[Remote]
        BY <2>1, <2>4
    <2> QED BY <2>1, <2>2, <2>3, <2>4 DEF IInv, PushOrdered
<1> QED BY <1>1, <1>3, <1>4 DEF IInv

\* A device that puts or removes a file.
LEMMA WriteIInv ==
    ASSUME IInv, TypeOK', NEW d \in Device, NEW q \in Path, NEW del \in BOOLEAN,
           Write(d, q, del)
    PROVE  IInv'
<1> DEFINE v == [by |-> d, gen |-> clock + 1, del |-> del]
<1>1. /\ d \in Orderly => op[d] = "idle"
      /\ objects' = [objects EXCEPT ![d] = @ \cup Chunks({v})]
      /\ manifest' = [manifest EXCEPT ![d][q] = v]
      /\ UNCHANGED <<op, left, items>>
    BY DEF Write, Usable, Orderly
<1>2. d \in Store /\ Remote \in Store /\ d # Remote /\ Orderly \subseteq Device
    BY ConstantsAssumption, OrderlyType DEF Store
<1>3. v.by = d /\ v.del = del
    OBVIOUS
<1>4. ~del => v \in objects'[d]
    BY <1>1, <1>2, <1>3 DEF Chunks, IInv, TypeOK
<1> HIDE DEF v
<1>5. objects'[Remote] = objects[Remote] /\ \A e \in Device : objects[e] \subseteq objects'[e]
    BY <1>1, <1>2 DEF IInv, TypeOK, Store
<1>6. /\ manifest'[d][q] = v
      /\ \A s \in Store, r \in Path : s # d \/ r # q => manifest'[s][r] = manifest[s][r]
    BY <1>1, <1>2 DEF IInv, TypeOK
<1>7. PublishedReadable'
    BY <1>3, <1>5, <1>6 DEF IInv, PublishedReadable
<1>8. OwnKept'
    <2> SUFFICES ASSUME NEW e \in Orderly, NEW w \in Own(e)'
                 PROVE  w \in objects'[e] \cup objects'[Remote]
        BY DEF OwnKept
    <2>1. e \in Store
        BY <1>2 DEF Store
    <2>2. PICK r \in Path : w = manifest'[e][r] /\ w # Absent /\ w.by = e /\ ~w.del
        BY DEF Own, Live
    <2>3. CASE e = d /\ r = q
        BY <1>3, <1>4, <1>6, <2>2, <2>3
    <2>4. CASE e # d \/ r # q
        <3>1. w \in Own(e)
            BY <1>6, <2>1, <2>2, <2>4 DEF Own, Live
        <3> QED BY <1>2, <1>5, <3>1 DEF IInv, OwnKept
    <2> QED BY <2>3, <2>4
<1>9. PushOrdered'
    <2>1. \A e \in Orderly : e # d => Own(e)' = Own(e)
        BY <1>1, <1>2 DEF Own, Live, IInv, TypeOK, Store
    <2> QED BY <1>1, <1>5, <2>1 DEF IInv, PushOrdered
<1> QED BY <1>7, <1>8, <1>9 DEF IInv

\* A manifest replaces the target's: by the push of its writer, when its chunk
\* is already on the remote, or on from a store where it was readable before.
LEMMA CopyManifestIInv ==
    ASSUME IInv, TypeOK', NEW d \in Device, NEW q \in Path, CopyManifest(d, q)
    PROVE  IInv'
<1> DEFINE v == manifest[Source(d)][q]
           t == Target(d)
<1>1. /\ <<"manifest", q>> \in items[d]
      /\ manifest' = [manifest EXCEPT ![t][q] = v]
      /\ items' = [items EXCEPT ![d] = @ \ {<<"manifest", q>>}]
      /\ UNCHANGED <<objects, op, left>>
    BY DEF CopyManifest
<1>2. /\ d \in Store /\ Remote \in Store /\ d # Remote /\ Orderly \subseteq Device
      /\ t \in Store /\ Source(d) \in Store
    BY ConstantsAssumption, OrderlyType, StoreType DEF Store
<1>3. op[d] = "push" \/ op[d] = "pull"
    BY <1>1 DEF IInv, TypeOK
<1>4. op[d] = "push" /\ d \in Orderly => left[d] = <<>> /\ Own(d) \subseteq objects[Remote]
    BY <1>1 DEF IInv, PushOrdered
<1>5. v # Absent /\ ~v.del /\ v.by \in Orderly => v \in objects[Remote]
    <2>1. CASE op[d] = "push"
        <3>1. Source(d) = d
            BY <2>1 DEF Source
        <3>2. v # Absent /\ ~v.del /\ v.by = d => v \in Own(d)
            BY <3>1 DEF Own, Live
        <3>3. v # Absent /\ ~v.del /\ v.by \in Orderly /\ v.by # d => v \in objects[Remote]
            BY <1>2, <3>1 DEF IInv, PublishedReadable
        <3> QED BY <1>4, <2>1, <3>2, <3>3
    <2>2. CASE op[d] = "pull"
        <3>1. Source(d) = Remote
            BY <2>2 DEF Source
        <3>2. v = manifest[Remote][q] /\ \A e \in Orderly : Remote # e
            BY <1>2, <3>1, ConstantsAssumption, OrderlyType
        <3> HIDE DEF v
        <3> QED BY <1>2, <3>2 DEF IInv, PublishedReadable
    <2> QED BY <1>3, <2>1, <2>2
<1> HIDE DEF v
<1>6. /\ manifest'[t][q] = v
      /\ \A s \in Store, r \in Path : s # t \/ r # q => manifest'[s][r] = manifest[s][r]
    BY <1>1, <1>2 DEF IInv, TypeOK
<1>7. PublishedReadable'
    BY <1>1, <1>5, <1>6 DEF IInv, PublishedReadable
<1>8. \A e \in Orderly : Own(e)' \subseteq Own(e) \cup objects[Remote]
    <2> SUFFICES ASSUME NEW e \in Orderly, NEW w \in Own(e)', w \notin Own(e)
                 PROVE  w \in objects[Remote]
        OBVIOUS
    <2>1. e \in Store
        BY <1>2 DEF Store
    <2>2. PICK r \in Path : w = manifest'[e][r] /\ w # Absent /\ w.by = e /\ ~w.del
        BY DEF Own, Live
    <2>3. e = t /\ r = q
        BY <1>6, <2>1, <2>2 DEF Own, Live
    <2> QED BY <1>5, <1>6, <2>2, <2>3
<1>9. OwnKept'
    BY <1>1, <1>8 DEF IInv, OwnKept
<1>10. PushOrdered'
    <2> SUFFICES ASSUME NEW e \in Orderly, op[e] = "push"
                 PROVE  \/ left[e] = <<{"chunk"}, {"manifest"}>> /\ items'[e] = {}
                        \/ /\ left[e] = <<{"manifest"}>>
                           /\ items'[e] \subseteq {"chunk"} \X Version
                           /\ \A w \in Own(e)' : \/ w \in objects[Remote]
                                                 \/ <<"chunk", w>> \in items'[e]
                        \/ left[e] = <<>> /\ Own(e)' \subseteq objects[Remote]
        BY <1>1 DEF PushOrdered
    <2>1. CASE e = d
        BY <1>4, <1>8, <2>1
    <2>2. CASE e # d
        <3>1. items'[e] = items[e]
            BY <1>1, <1>2, <2>2 DEF IInv, TypeOK
        <3> QED BY <1>8, <3>1 DEF IInv, PushOrdered
    <2> QED BY <2>1, <2>2
<1> QED BY <1>7, <1>9, <1>10 DEF IInv

\* The next command of a push: the chunks it lists cover the own versions, and
\* the manifests are listed when these chunks have been copied.
LEMMA NextCommandIInv ==
    ASSUME IInv, TypeOK', NEW d \in Device, NextCommand(d)
    PROVE  IInv'
<1>1. /\ items[d] = {} /\ left[d] # <<>>
      /\ items' = [items EXCEPT ![d] = Listing(Source(d), Target(d), Head(left[d]))]
      /\ left' = [left EXCEPT ![d] = Tail(@)]
      /\ UNCHANGED <<objects, manifest, op>>
    BY DEF NextCommand
<1>2. PublishedReadable' /\ OwnKept'
    BY <1>1 DEF IInv, PublishedReadable, OwnKept, Own, Live
<1>3. PushOrdered'
    <2> SUFFICES ASSUME NEW e \in Orderly, op[e] = "push"
                 PROVE  \/ left'[e] = <<{"chunk"}, {"manifest"}>> /\ items'[e] = {}
                        \/ /\ left'[e] = <<{"manifest"}>>
                           /\ items'[e] \subseteq {"chunk"} \X Version
                           /\ \A v \in Own(e) : \/ v \in objects[Remote]
                                                \/ <<"chunk", v>> \in items'[e]
                        \/ left'[e] = <<>> /\ Own(e) \subseteq objects[Remote]
        <3>1. \A e \in Orderly : Own(e)' = Own(e)
            BY <1>1 DEF Own, Live
        <3> QED BY <1>1, <3>1 DEF PushOrdered
    <2>1. CASE e # d
        <3>1. items'[e] = items[e] /\ left'[e] = left[e]
            BY <1>1, <2>1, ConstantsAssumption, OrderlyType DEF IInv, TypeOK
        <3> QED BY <3>1 DEF IInv, PushOrdered
    <2>2. CASE e = d /\ left[d] = <<{"chunk"}, {"manifest"}>>
        <3>1. Head(left[d]) = {"chunk"} /\ Tail(left[d]) = <<{"manifest"}>>
            BY <2>2
        <3>2. items'[d] = Listing(d, Remote, {"chunk"}) /\ left'[d] = <<{"manifest"}>>
            BY <1>1, <2>2, <3>1 DEF IInv, TypeOK, Source, Target
        <3>3. "manifest" \notin {"chunk"}
            OBVIOUS
        <3>4. Listing(d, Remote, {"chunk"}) = {<<"chunk", v>> : v \in objects[d] \ objects[Remote]}
            BY <3>3 DEF Listing
        <3>5. objects[d] \subseteq Version
            BY StoreType DEF IInv, TypeOK
        <3>6. Own(d) \subseteq objects[d] \cup objects[Remote]
            BY <2>2 DEF IInv, OwnKept
        <3> QED BY <2>2, <3>2, <3>4, <3>5, <3>6
    <2>3. CASE e = d /\ left[d] = <<{"manifest"}>>
        <3>1. Tail(left[d]) = <<>>
            BY <2>3
        <3>2. left'[d] = <<>>
            BY <1>1, <3>1 DEF IInv, TypeOK
        <3>3. Own(d) \subseteq objects[Remote]
            <4>1. Len(left[d]) = 1
                BY <2>3
            <4>2. left[d] # <<{"chunk"}, {"manifest"}>> /\ left[d] # <<>>
                <5>1. ASSUME left[d] = <<{"chunk"}, {"manifest"}>> PROVE FALSE
                    <6>1. Len(left[d]) = 2
                        BY <5>1
                    <6> QED BY <4>1, <6>1
                <5>2. ASSUME left[d] = <<>> PROVE FALSE
                    <6>1. Len(left[d]) = 0
                        BY <5>2
                    <6> QED BY <4>1, <6>1
                <5> QED BY <5>1, <5>2, Zenon
            <4>3. \A v \in Own(d) : v \in objects[Remote] \/ <<"chunk", v>> \in items[d]
                BY <2>3, <4>2 DEF IInv, PushOrdered
            <4> QED BY <1>1, <4>3
        <3> QED BY <2>3, <3>2, <3>3
    <2> QED BY <1>1, <2>1, <2>2, <2>3 DEF IInv, PushOrdered
<1> QED BY <1>2, <1>3 DEF IInv

LEMMA StepIInv == IInv /\ [Next]_vars => IInv'
<1> SUFFICES ASSUME IInv, [Next]_vars PROVE IInv'
    OBVIOUS
<1>t. TypeOK'
    BY TypeStep DEF IInv
<1>s. /\ Remote \in Store /\ Remote \notin Device /\ Orderly \subseteq Device
      /\ Device \subseteq Store
    BY ConstantsAssumption, OrderlyType DEF Store
<1>1. CASE UNCHANGED vars
    BY <1>1, <1>t, Undisturbed DEF vars
<1>2. ASSUME NEW d \in Device, NEW q \in Path, NEW del \in BOOLEAN, Write(d, q, del)
      PROVE  IInv'
    BY <1>2, <1>t, WriteIInv
<1>3. ASSUME NEW d \in Device, Gc(d) PROVE IInv'
    <2>1. /\ objects' = [objects EXCEPT ![d] = @ \cap Live(d)]
          /\ UNCHANGED <<manifest, op, left, items>>
        BY <1>3 DEF Gc
    <2>2. objects'[Remote] = objects[Remote]
        BY <1>s, <2>1 DEF IInv, TypeOK
    <2>3. \A e \in Orderly : Own(e) \cap objects[e] \subseteq objects'[e]
        BY <1>s, <2>1 DEF IInv, TypeOK, Own
    <2> QED BY <1>t, <2>1, <2>2, <2>3, Undisturbed
<1>4. ASSUME NEW d \in Device, NEW o \in {"push", "pull"}, Start(d, o) PROVE IInv'
    <2>1. /\ op[d] = "idle"
          /\ op' = [op EXCEPT ![d] = o]
          /\ left' = [left EXCEPT ![d] = Plan(d, o)]
          /\ UNCHANGED <<objects, manifest, items>>
        BY <1>4 DEF Start
    <2>2. PublishedReadable' /\ OwnKept'
        BY <2>1 DEF IInv, PublishedReadable, OwnKept, Own, Live
    <2>3. PushOrdered'
        <3> SUFFICES ASSUME NEW e \in Orderly, op'[e] = "push"
                     PROVE  \/ left'[e] = <<{"chunk"}, {"manifest"}>> /\ items[e] = {}
                            \/ /\ left'[e] = <<{"manifest"}>>
                               /\ items[e] \subseteq {"chunk"} \X Version
                               /\ \A v \in Own(e) : \/ v \in objects[Remote]
                                                    \/ <<"chunk", v>> \in items[e]
                            \/ left'[e] = <<>> /\ Own(e) \subseteq objects[Remote]
            <4>1. \A e \in Orderly : Own(e)' = Own(e)
                BY <2>1 DEF Own, Live
            <4> QED BY <2>1, <4>1 DEF PushOrdered
        <3>1. CASE e = d
            BY <1>s, <2>1, <3>1, OrderlyType DEF IInv, TypeOK, Plan
        <3>2. CASE e # d
            BY <1>s, <2>1, <3>2 DEF IInv, TypeOK, PushOrdered
        <3> QED BY <3>1, <3>2
    <2> QED BY <1>t, <2>2, <2>3 DEF IInv
<1>5. ASSUME NEW d \in Device, NextCommand(d) PROVE IInv'
    BY <1>5, <1>t, NextCommandIInv
<1>6. ASSUME NEW d \in Device, NEW v \in Version, CopyChunk(d, v) PROVE IInv'
    <2>1. /\ objects' = [objects EXCEPT ![Target(d)] = @ \cup {v}]
          /\ items' = [items EXCEPT ![d] = @ \ {<<"chunk", v>>}]
          /\ UNCHANGED <<manifest, op, left>>
        BY <1>6 DEF CopyChunk
    <2>2. \A s \in Store : objects[s] \subseteq objects'[s]
        BY <2>1, StoreType DEF IInv, TypeOK
    <2>3. op[d] = "push" => v \in objects'[Remote]
        BY <1>s, <2>1 DEF IInv, TypeOK, Target
    <2>4. \A e \in Orderly : op[e] = "push" =>
              /\ items'[e] \subseteq items[e]
              /\ \A w : <<"chunk", w>> \in items[e] \ items'[e] => w \in objects'[Remote]
        BY <1>s, <2>1, <2>3 DEF IInv, TypeOK
    <2> QED BY <1>s, <1>t, <2>1, <2>2, <2>4, Undisturbed
<1>7. ASSUME NEW d \in Device, NEW q \in Path, OpenManifest(d, q) PROVE IInv'
    BY <1>7, <1>t, Undisturbed DEF OpenManifest
<1>8. ASSUME NEW d \in Device, NEW q \in Path, CopyManifest(d, q) PROVE IInv'
    BY <1>8, <1>t, CopyManifestIInv
<1>9. ASSUME NEW d \in Device, NEW q \in Path, CopyLeftover(d, q) PROVE IInv'
    <2>1. /\ items' = [items EXCEPT ![d] = @ \ {<<"leftover", q>>}]
          /\ UNCHANGED <<objects, manifest, op, left>>
        BY <1>9 DEF CopyLeftover
    <2>2. \A e \in Orderly : /\ items'[e] \subseteq items[e]
                            /\ \A w : <<"chunk", w>> \notin items[e] \ items'[e]
        BY <1>s, <2>1 DEF IInv, TypeOK
    <2> QED BY <1>t, <2>1, <2>2, Undisturbed
<1>10. ASSUME NEW d \in Device, Complete(d) \/ Interrupt(d) PROVE IInv'
    <2>1. /\ op' = [op EXCEPT ![d] = "idle"]
          /\ left' = [left EXCEPT ![d] = <<>>]
          /\ items' = [items EXCEPT ![d] = {}]
          /\ UNCHANGED <<objects, manifest>>
        BY <1>10 DEF Complete, Interrupt, End
    <2>2. \A e \in Orderly : op'[e] = "push" =>
              op[e] = "push" /\ left'[e] = left[e] /\ items'[e] = items[e]
        BY <1>s, <2>1 DEF IInv, TypeOK
    <2> QED BY <1>t, <2>1, <2>2, Undisturbed
<1> QED BY <1>1, <1>2, <1>3, <1>4, <1>5, <1>6, <1>7, <1>8, <1>9, <1>10 DEF Next

\* A manifest that an orderly device has made reaches no other store before its
\* chunk is on the remote (pushSequence), and the remote never loses a chunk.
THEOREM PublishedIsReadable == Spec => []PublishedReadable
<1>1. IInv => PublishedReadable
    BY DEF IInv
<1> QED BY InitIInv, StepIInv, <1>1, PTL DEF Spec

-----------------------------------------------------------------------------
(* A transfer that nobody disturbs copies everything: at each moment, what *)
(* its source holds is in the target, on the list of the current command,  *)
(* or of a kind that a later command copies.                               *)

\* A command that is still to be started copies files of this kind.
ToCome(d, kind) == \E i \in 1..Len(left[d]) : kind \in left[d][i]

ChunksCopied(d) ==
    \/ ToCome(d, "chunk")
    \/ \A v \in objects[Source(d)] : v \in objects[Target(d)] \/ <<"chunk", v>> \in items[d]

ManifestsCopied(d) ==
    \/ ToCome(d, "manifest")
    \/ \A q \in Path : \/ manifest[Source(d)][q] \in {Absent, manifest[Target(d)][q]}
                       \/ <<"manifest", q>> \in items[d]

CalmCopies ==
    \A d \in Device : op[d] # "idle" /\ calm[d] => ChunksCopied(d) /\ ManifestsCopied(d)

\* The source and the target of a transfer are two stores, one of them the device.
LEMMA Ends ==
    ASSUME NEW d \in Device
    PROVE  /\ Source(d) # Target(d)
           /\ d \in {Source(d), Target(d)} /\ {Source(d), Target(d)} = {d, Remote}
BY ConstantsAssumption DEF Source, Target

\* The first command of a list is the one to start, the others remain.
LEMMA FirstCommand ==
    ASSUME NEW s \in Seq(Command), s # <<>>, NEW kind,
           \E i \in 1..Len(s) : kind \in s[i]
    PROVE  kind \in Head(s) \/ \E i \in 1..Len(Tail(s)) : kind \in Tail(s)[i]
<1>1. PICK i \in 1..Len(s) : kind \in s[i]
    OBVIOUS
<1>2. Len(s) \in Nat /\ Len(Tail(s)) = Len(s) - 1 /\ Head(s) = s[1]
          /\ \A j \in 1..(Len(s) - 1) : Tail(s)[j] = s[j + 1]
    OBVIOUS
<1>3. CASE i = 1
    BY <1>1, <1>2, <1>3
<1>4. CASE i # 1
    <2>1. i - 1 \in 1..(Len(s) - 1) /\ (i - 1) + 1 = i
        BY <1>2, <1>4
    <2> QED BY <1>1, <1>2, <2>1
<1> QED BY <1>3, <1>4

\* Every plan has both kinds of file.
LEMMA PlanComplete ==
    ASSUME NEW d, NEW o, NEW kind \in {"chunk", "manifest"}
    PROVE  \E i \in 1..Len(Plan(d, o)) : kind \in Plan(d, o)[i]
<1>1. CASE Plan(d, o) = <<{"manifest"}, {"chunk"}>>
    <2>1. Len(Plan(d, o)) = 2 /\ Plan(d, o)[1] = {"manifest"} /\ Plan(d, o)[2] = {"chunk"}
        BY <1>1
    <2> QED BY <2>1
<1>2. CASE Plan(d, o) = <<{"chunk"}, {"manifest"}>>
    <2>1. Len(Plan(d, o)) = 2 /\ Plan(d, o)[1] = {"chunk"} /\ Plan(d, o)[2] = {"manifest"}
        BY <1>2
    <2> QED BY <2>1
<1>3. CASE Plan(d, o) = <<{"chunk", "manifest"}>>
    <2>1. Len(Plan(d, o)) = 1 /\ Plan(d, o)[1] = {"chunk", "manifest"}
        BY <1>3
    <2> QED BY <2>1
<1> QED BY <1>1, <1>2, <1>3 DEF Plan

\* What nobody has done to the transfer of e leaves what it has copied.
LEMMA CopiedElsewhere ==
    ASSUME CalmCopies, NEW e \in Device, op'[e] = op[e], left'[e] = left[e],
           items'[e] = items[e], op[e] # "idle", calm[e],
           \A s \in {e, Remote} : objects'[s] = objects[s] /\ manifest'[s] = manifest[s]
    PROVE  ChunksCopied(e)' /\ ManifestsCopied(e)'
<1>1. ChunksCopied(e) /\ ManifestsCopied(e)
    BY DEF CalmCopies
<1>2. Source(e) \in {e, Remote} /\ Target(e) \in {e, Remote}
    BY DEF Source, Target
<1>3. Source(e)' = Source(e) /\ Target(e)' = Target(e)
    BY DEF Source, Target
<1>4. ToCome(e, "chunk")' = ToCome(e, "chunk") /\ ToCome(e, "manifest")' = ToCome(e, "manifest")
    BY DEF ToCome
<1>5. ChunksCopied(e)'
    BY <1>1, <1>2, <1>3, <1>4 DEF ChunksCopied
<1>6. ManifestsCopied(e)'
    BY <1>1, <1>2, <1>3, <1>4 DEF ManifestsCopied
<1> QED BY <1>5, <1>6

\* Whoever changes a store of a transfer that is under way, disturbs it.
LEMMA DisturbKnown ==
    ASSUME NEW D, NEW S, Disturb(D, S), NEW e \in Device, e \notin D,
           op[e] # "idle", calm'[e]
    PROVE  calm[e] /\ {e, Remote} \cap S = {}
BY Ends DEF Disturb

LEMMA WriteCopies ==
    ASSUME TypeOK, CalmCopies, NEW d \in Device, NEW e \in Device,
           Gc(d) \/ \E q \in Path, del \in BOOLEAN : Write(d, q, del),
           op'[e] # "idle", calm'[e]
    PROVE  ChunksCopied(e)' /\ ManifestsCopied(e)'
<1>1. /\ \A s \in Store \ {d} : objects'[s] = objects[s] /\ manifest'[s] = manifest[s]
      /\ UNCHANGED <<op, left, items>> /\ Disturb({}, {d})
    BY DEF TypeOK, Gc, Write
<1>2. calm[e] /\ {e, Remote} \cap {d} = {}
    BY <1>1, DisturbKnown
<1> QED BY <1>1, <1>2, CopiedElsewhere DEF Store

LEMMA StartCopies ==
    ASSUME TypeOK, CalmCopies, NEW d \in Device, NEW o, Start(d, o), NEW e \in Device,
           op'[e] # "idle", calm'[e]
    PROVE  ChunksCopied(e)' /\ ManifestsCopied(e)'
<1>1. CASE e = d
    <2>1. left'[d] = Plan(d, o)
        BY DEF TypeOK, Start
    <2>2. ToCome(d, "chunk")' /\ ToCome(d, "manifest")'
        BY <2>1, PlanComplete DEF ToCome
    <2> QED BY <1>1, <2>2 DEF ChunksCopied, ManifestsCopied
<1>2. CASE e # d
    BY <1>2, CopiedElsewhere DEF TypeOK, Start
<1> QED BY <1>1, <1>2

LEMMA NextCommandCopies ==
    ASSUME TypeOK, CalmCopies, NEW d \in Device, NextCommand(d), NEW e \in Device,
           op'[e] # "idle", calm'[e]
    PROVE  ChunksCopied(e)' /\ ManifestsCopied(e)'
<1> DEFINE s == Source(d)
           t == Target(d)
           kinds == Head(left[d])
<1>1. /\ items' = [items EXCEPT ![d] = Listing(s, t, kinds)]
      /\ left' = [left EXCEPT ![d] = Tail(@)]
      /\ items[d] = {} /\ left[d] # <<>> /\ op[d] # "idle"
      /\ UNCHANGED <<objects, manifest, op, calm>>
    BY DEF NextCommand
<1>2. CASE e # d
    BY <1>1, <1>2, CopiedElsewhere DEF TypeOK
<1>3. CASE e = d
    <2>1. left[d] \in Seq(Command) /\ left'[d] = Tail(left[d]) /\ items'[d] = Listing(s, t, kinds)
        BY <1>1 DEF TypeOK, Command
    <2>2. Source(d)' = s /\ Target(d)' = t
        BY <1>1 DEF Source, Target
    <2>3. ChunksCopied(d) /\ ManifestsCopied(d)
        BY <1>1, <1>3 DEF CalmCopies
    <2>4. ToCome(d, "chunk") => "chunk" \in kinds \/ ToCome(d, "chunk")'
        BY <1>1, <2>1, FirstCommand DEF ToCome
    <2>5. ToCome(d, "manifest") => "manifest" \in kinds \/ ToCome(d, "manifest")'
        BY <1>1, <2>1, FirstCommand DEF ToCome
    <2>6. "chunk" \in kinds =>
              \A v \in objects[s] : v \in objects[t] \/ <<"chunk", v>> \in items'[d]
        BY <2>1 DEF Listing
    <2>7. "manifest" \in kinds =>
              \A q \in Path : manifest[s][q] = Absent \/ <<"manifest", q>> \in items'[d]
        BY <2>1 DEF Listing
    <2> HIDE DEF s, t, kinds
    <2>8. ChunksCopied(d)'
        <3>1. ~ToCome(d, "chunk") => objects[s] \subseteq objects[t]
            BY <1>1, <2>3 DEF ChunksCopied, s, t
        <3> QED BY <1>1, <2>2, <2>4, <2>6, <3>1 DEF ChunksCopied
    <2>9. ManifestsCopied(d)'
        <3>1. ~ToCome(d, "manifest") =>
                  \A q \in Path : manifest[s][q] \in {Absent, manifest[t][q]}
            BY <1>1, <2>3 DEF ManifestsCopied, s, t
        <3> QED BY <1>1, <2>2, <2>5, <2>7, <3>1 DEF ManifestsCopied
    <2> QED BY <1>3, <2>8, <2>9
<1> QED BY <1>2, <1>3

LEMMA CopyChunkCopies ==
    ASSUME TypeOK, CalmCopies, NEW d \in Device, NEW v \in Version, CopyChunk(d, v),
           NEW e \in Device, op'[e] # "idle", calm'[e]
    PROVE  ChunksCopied(e)' /\ ManifestsCopied(e)'
<1> DEFINE s == Source(d)
           t == Target(d)
<1>1. /\ objects' = [objects EXCEPT ![t] = @ \cup {v}]
      /\ items' = [items EXCEPT ![d] = @ \ {<<"chunk", v>>}]
      /\ UNCHANGED <<manifest, op, left>> /\ Disturb({d}, {t})
    BY DEF CopyChunk
<1>2. CASE e # d
    <2>1. calm[e] /\ {e, Remote} \cap {t} = {}
        BY <1>1, <1>2, DisturbKnown
    <2>2. e \in Store /\ Remote \in Store
        BY DEF Store
    <2>3. \A r \in {e, Remote} : objects'[r] = objects[r]
        BY <1>1, <2>1, <2>2 DEF TypeOK
    <2> QED BY <1>1, <1>2, <2>1, <2>3, CopiedElsewhere DEF TypeOK
<1>3. CASE e = d
    <2>1. calm[d] /\ op[d] # "idle"
        BY <1>1, <1>3 DEF Disturb
    <2>2. ChunksCopied(d) /\ ManifestsCopied(d)
        BY <2>1 DEF CalmCopies
    <2>3. Source(d)' = s /\ Target(d)' = t
        BY <1>1 DEF Source, Target
    <2>4. ToCome(d, "chunk")' = ToCome(d, "chunk") /\ ToCome(d, "manifest")' = ToCome(d, "manifest")
        BY <1>1 DEF ToCome
    <2>5. s \in Store /\ t \in Store /\ s # t
        BY StoreType, Ends
    <2> HIDE DEF s, t
    <2>6. objects'[s] = objects[s] /\ objects'[t] = objects[t] \cup {v}
        BY <1>1, <2>5 DEF TypeOK
    <2>7. items'[d] = items[d] \ {<<"chunk", v>>}
        BY <1>1 DEF TypeOK
    <2>8. ChunksCopied(d)'
        BY <2>2, <2>3, <2>4, <2>6, <2>7 DEF ChunksCopied, s, t
    <2>9. ManifestsCopied(d)'
        BY <1>1, <2>2, <2>3, <2>4, <2>7 DEF ManifestsCopied, s, t
    <2> QED BY <1>3, <2>8, <2>9
<1> QED BY <1>2, <1>3

LEMMA CopyManifestCopies ==
    ASSUME TypeOK, CalmCopies, NEW d \in Device, NEW q \in Path, CopyManifest(d, q),
           NEW e \in Device, op'[e] # "idle", calm'[e]
    PROVE  ChunksCopied(e)' /\ ManifestsCopied(e)'
<1> DEFINE s == Source(d)
           t == Target(d)
<1>1. /\ manifest' = [manifest EXCEPT ![t][q] = manifest[s][q]]
      /\ items' = [items EXCEPT ![d] = @ \ {<<"manifest", q>>}]
      /\ UNCHANGED <<objects, op, left>> /\ Disturb({d}, {t})
    BY DEF CopyManifest
<1>2. CASE e # d
    <2>1. calm[e] /\ {e, Remote} \cap {t} = {}
        BY <1>1, <1>2, DisturbKnown
    <2>2. e \in Store /\ Remote \in Store
        BY DEF Store
    <2>3. \A r \in {e, Remote} : manifest'[r] = manifest[r]
        BY <1>1, <2>1, <2>2 DEF TypeOK
    <2> QED BY <1>1, <1>2, <2>1, <2>3, CopiedElsewhere DEF TypeOK
<1>3. CASE e = d
    <2>1. calm[d] /\ op[d] # "idle"
        BY <1>1, <1>3 DEF Disturb
    <2>2. ChunksCopied(d) /\ ManifestsCopied(d)
        BY <2>1 DEF CalmCopies
    <2>3. Source(d)' = s /\ Target(d)' = t
        BY <1>1 DEF Source, Target
    <2>4. ToCome(d, "chunk")' = ToCome(d, "chunk") /\ ToCome(d, "manifest")' = ToCome(d, "manifest")
        BY <1>1 DEF ToCome
    <2>5. s \in Store /\ t \in Store /\ s # t
        BY StoreType, Ends
    <2> HIDE DEF s, t
    <2>6. /\ manifest'[s] = manifest[s] /\ manifest'[t][q] = manifest[s][q]
          /\ \A r \in Path \ {q} : manifest'[t][r] = manifest[t][r]
        BY <1>1, <2>5 DEF TypeOK
    <2>7. items'[d] = items[d] \ {<<"manifest", q>>}
        BY <1>1 DEF TypeOK
    <2>8. ChunksCopied(d)'
        BY <1>1, <2>2, <2>3, <2>4, <2>7 DEF ChunksCopied, s, t
    <2>9. ManifestsCopied(d)'
        BY <2>2, <2>3, <2>4, <2>6, <2>7 DEF ManifestsCopied, s, t
    <2> QED BY <1>3, <2>8, <2>9
<1> QED BY <1>2, <1>3

\* A temporary file says nothing about what has been copied.
LEMMA LeftoverCopies ==
    ASSUME TypeOK, CalmCopies, NEW d \in Device, NEW q \in Path,
           OpenManifest(d, q) \/ CopyLeftover(d, q),
           NEW e \in Device, op'[e] # "idle", calm'[e]
    PROVE  ChunksCopied(e)' /\ ManifestsCopied(e)'
<1>1. /\ UNCHANGED <<objects, manifest, op, left>> /\ Disturb({d}, {Target(d)})
      /\ items' \in {items, [items EXCEPT ![d] = @ \ {<<"leftover", q>>}]}
    BY DEF OpenManifest, CopyLeftover
<1>2. calm[e]
    BY <1>1 DEF Disturb
<1>3. ChunksCopied(e) /\ ManifestsCopied(e)
    BY <1>1, <1>2 DEF CalmCopies
<1>4. /\ \A v : <<"chunk", v>> \in items[e] => <<"chunk", v>> \in items'[e]
      /\ \A r : <<"manifest", r>> \in items[e] => <<"manifest", r>> \in items'[e]
    <2>1. items'[e] = items[e] \/ items'[e] = items[e] \ {<<"leftover", q>>}
        BY <1>1 DEF TypeOK
    <2> QED BY <2>1
<1>5. Source(e)' = Source(e) /\ Target(e)' = Target(e)
    BY <1>1 DEF Source, Target
<1>6. ToCome(e, "chunk")' = ToCome(e, "chunk") /\ ToCome(e, "manifest")' = ToCome(e, "manifest")
    BY <1>1 DEF ToCome
<1>7. ChunksCopied(e)'
    BY <1>1, <1>3, <1>4, <1>5, <1>6 DEF ChunksCopied
<1>8. ManifestsCopied(e)'
    BY <1>1, <1>3, <1>4, <1>5, <1>6 DEF ManifestsCopied
<1> QED BY <1>7, <1>8

LEMMA CalmCopiesStep == TypeOK /\ CalmCopies /\ [Next]_vars => CalmCopies'
<1> SUFFICES ASSUME TypeOK, CalmCopies, [Next]_vars,
                    NEW e \in Device, op'[e] # "idle", calm'[e]
             PROVE  ChunksCopied(e)' /\ ManifestsCopied(e)'
    BY DEF CalmCopies
<1>1. CASE UNCHANGED vars
    BY <1>1, CopiedElsewhere DEF vars
<1>2. ASSUME NEW d \in Device, Gc(d) \/ \E q \in Path, del \in BOOLEAN : Write(d, q, del)
      PROVE  ChunksCopied(e)' /\ ManifestsCopied(e)'
    BY <1>2, WriteCopies
<1>3. ASSUME NEW d \in Device, Start(d, "push") \/ Start(d, "pull")
      PROVE  ChunksCopied(e)' /\ ManifestsCopied(e)'
    BY <1>3, StartCopies
<1>4. ASSUME NEW d \in Device, NextCommand(d)
      PROVE  ChunksCopied(e)' /\ ManifestsCopied(e)'
    BY <1>4, NextCommandCopies
<1>5. ASSUME NEW d \in Device, NEW v \in Version, CopyChunk(d, v)
      PROVE  ChunksCopied(e)' /\ ManifestsCopied(e)'
    BY <1>5, CopyChunkCopies
<1>6. ASSUME NEW d \in Device, NEW q \in Path, CopyManifest(d, q)
      PROVE  ChunksCopied(e)' /\ ManifestsCopied(e)'
    BY <1>6, CopyManifestCopies
<1>7. ASSUME NEW d \in Device, NEW q \in Path, OpenManifest(d, q) \/ CopyLeftover(d, q)
      PROVE  ChunksCopied(e)' /\ ManifestsCopied(e)'
    BY <1>7, LeftoverCopies
<1>8. ASSUME NEW d \in Device, Complete(d) \/ Interrupt(d)
      PROVE  ChunksCopied(e)' /\ ManifestsCopied(e)'
    <2>1. /\ op' = [op EXCEPT ![d] = "idle"]
          /\ left' = [left EXCEPT ![d] = <<>>]
          /\ items' = [items EXCEPT ![d] = {}]
          /\ calm' = [calm EXCEPT ![d] = TRUE]
          /\ UNCHANGED <<objects, manifest>>
        BY <1>8 DEF Complete, Interrupt, End
    <2>2. e # d
        BY <2>1 DEF TypeOK
    <2> QED BY <2>1, <2>2, CopiedElsewhere DEF TypeOK
<1> QED BY <1>1, <1>2, <1>3, <1>4, <1>5, <1>6, <1>7, <1>8 DEF Next

\* A transfer that ends without an error and that nobody has disturbed has made
\* the target hold every chunk and every manifest of the source, for any number
\* of devices and whatever commands its plan has (runSequence, copyDir).
THEOREM TransfersAreComplete == Spec => CompleteCopies
<1> DEFINE Copied(d) == /\ objects[Source(d)] \subseteq objects[Target(d)]
                        /\ \A q \in Path : manifest[Source(d)][q] \in
                                               {Absent, manifest[Target(d)][q]}
<1>1. Init => CalmCopies
    BY DEF Init, CalmCopies
<1>2. CalmCopies => \A d \in Device : Complete(d) /\ calm[d] => Copied(d)
    <2> SUFFICES ASSUME CalmCopies, NEW d \in Device, Complete(d), calm[d]
                 PROVE  Copied(d)
        OBVIOUS
    <2>1. op[d] # "idle" /\ left[d] = <<>> /\ items[d] = {}
        BY DEF Complete
    <2>2. \A k : ~ToCome(d, k)
        <3>1. Len(left[d]) = 0
            BY <2>1
        <3> QED BY <3>1 DEF ToCome
    <2>3. ChunksCopied(d) /\ ManifestsCopied(d)
        BY <2>1 DEF CalmCopies
    <2>4. objects[Source(d)] \subseteq objects[Target(d)]
        BY <2>1, <2>2, <2>3 DEF ChunksCopied
    <2>5. \A q \in Path : manifest[Source(d)][q] \in {Absent, manifest[Target(d)][q]}
        BY <2>1, <2>2, <2>3 DEF ManifestsCopied
    <2> QED BY <2>4, <2>5
<1>3. CalmCopies => [\A d \in Device : Complete(d) /\ calm[d] => Copied(d)]_vars
    BY <1>2
<1> QED BY TypeCorrect, <1>1, <1>3, CalmCopiesStep, PTL DEF Spec, CompleteCopies
=============================================================================

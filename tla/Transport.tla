------------------------------ MODULE Transport ------------------------------
(***************************************************************************)
(* Devices that share one remote copy of a vault through `remote push` and *)
(* `remote pull` (internal/transport).  An rclone device pushes by         *)
(* pushSequence, chunks before manifests, and pulls the whole tree in one  *)
(* `rclone copy`; a local device copies by WalkDir (copyDir), which meets  *)
(* manifests before objects.  Both copy and never delete, overwrite what   *)
(* differs, take no lock, and may be cancelled or killed at any point.     *)
(* A version of a file is known by its writer and generation, and has one  *)
(* chunk of its own unless it is a tombstone.                              *)
(***************************************************************************)
EXTENDS Naturals, Sequences

CONSTANTS Device,    \* devices, each with a vault directory
          Remote,    \* the shared remote target
          Rclone,    \* the devices whose remote profile is not of type local
          Busy,      \* the devices used while they transfer: no lock prevents it
          Path,      \* virtual paths
          Absent,    \* a path without a manifest file
          MaxWrites  \* bound: puts and removals

ASSUME ConstantsAssumption ==
    /\ Rclone \subseteq Device
    /\ Busy \subseteq Device
    /\ Remote \notin Device
    /\ MaxWrites \in Nat

Store == Device \cup {Remote}
Version == [by : Device, gen : 1..MaxWrites, del : BOOLEAN]

ASSUME AbsentAssumption == Absent \notin Version

VARIABLES
    objects,    \* per store, the versions whose chunk is there
    manifest,   \* per store and path, the version in <id>.manifest
    leftover,   \* per store, the paths with a truncated <id>.manifest.tmp or .partial
    op,         \* per device: "idle", "push" or "pull"
    left,       \* the copy commands of that transfer still to be started
    items,      \* what the current command has still to copy
    writing,    \* the manifest whose temporary file is being written, if any
    clock,      \* generations given out
    calm        \* history: nobody else has touched source or target since
                \* this transfer began

vars == <<objects, manifest, leftover, op, left, items, writing, clock, calm>>

Init ==
    /\ objects = [s \in Store |-> {}]
    /\ manifest = [s \in Store |-> [q \in Path |-> Absent]]
    /\ leftover = [s \in Store |-> {}]
    /\ op = [d \in Device |-> "idle"]
    /\ left = [d \in Device |-> <<>>]
    /\ items = [d \in Device |-> {}]
    /\ writing = [d \in Device |-> {}]
    /\ clock = 0
    /\ calm = [d \in Device |-> TRUE]

Source(d) == IF op[d] = "push" THEN d ELSE Remote
Target(d) == IF op[d] = "push" THEN Remote ELSE d

Chunks(vs) == {v \in vs : ~v.del}
Live(s) == {manifest[s][q] : q \in {q \in Path : manifest[s][q] # Absent}}

\* A change of the directories in S disturbs the transfers they take part in,
\* but for those that the devices in D are making.
Disturb(D, S) ==
    calm' = [e \in Device |-> calm[e] /\ (\/ op[e] = "idle" \/ e \in D
                                         \/ {Source(e), Target(e)} \cap S = {})]

-----------------------------------------------------------------------------
(* The vault on a device.  A directory with a truncated manifest cannot be *)
(* loaded, and so neither written to nor collected.                        *)

Usable(d) == (op[d] = "idle" \/ d \in Busy) /\ leftover[d] = {}

\* PutPath or RemovePath: the new generation is above that of the old version.
Write(d, q, del) ==
    /\ Usable(d) /\ clock < MaxWrites
    /\ del => manifest[d][q] # Absent /\ ~manifest[d][q].del
    /\ clock' = clock + 1
    /\ LET v == [by |-> d, gen |-> clock + 1, del |-> del] IN
          /\ objects' = [objects EXCEPT ![d] = @ \cup Chunks({v})]
          /\ manifest' = [manifest EXCEPT ![d][q] = v]
    /\ Disturb({}, {d})
    /\ UNCHANGED <<leftover, op, left, items, writing>>

\* GarbageCollect
Gc(d) ==
    /\ Usable(d)
    /\ objects' = [objects EXCEPT ![d] = @ \cap Live(d)]
    /\ Disturb({}, {d})
    /\ UNCHANGED <<manifest, leftover, op, left, items, writing, clock>>

-----------------------------------------------------------------------------
(* A transfer                                                              *)

\* The commands of a transfer, each by the kinds of file it copies.
\* Mutant: every device copies in the order of copyDir.
PlanManifestsFirst(d, o) == <<{"manifest"}, {"chunk"}>>
Plan(d, o) == IF d \notin Rclone THEN <<{"manifest"}, {"chunk"}>>
              ELSE IF o = "push" THEN <<{"chunk"}, {"manifest"}>>
              ELSE <<{"chunk", "manifest"}>>

Start(d, o) ==
    /\ op[d] = "idle"
    /\ op' = [op EXCEPT ![d] = o]
    /\ left' = [left EXCEPT ![d] = Plan(d, o)]
    /\ calm' = [calm EXCEPT ![d] = \A e \in Device \ {d} : op[e] = "idle"]
    /\ UNCHANGED <<objects, manifest, leftover, items, writing, clock>>

\* The files a command finds when it lists its source directory.
Listing(s, t, kinds) ==
    {<<"chunk", v>> : v \in IF "chunk" \in kinds THEN objects[s] \ objects[t] ELSE {}}
      \cup {<<"manifest", q>> : q \in {q \in Path : "manifest" \in kinds
                                                    /\ manifest[s][q] # Absent}}
      \cup {<<"leftover", q>> : q \in {q \in leftover[s] : "manifest" \in kinds}}

NextCommand(d) ==
    /\ op[d] # "idle" /\ items[d] = {} /\ writing[d] = {} /\ left[d] # <<>>
    /\ items' = [items EXCEPT ![d] = Listing(Source(d), Target(d), Head(left[d]))]
    /\ left' = [left EXCEPT ![d] = Tail(@)]
    /\ UNCHANGED <<objects, manifest, leftover, op, writing, clock, calm>>

CopyChunk(d, v) ==
    /\ <<"chunk", v>> \in items[d] /\ writing[d] = {}
    /\ v \in objects[Source(d)]
    /\ objects' = [objects EXCEPT ![Target(d)] = @ \cup {v}]
    /\ items' = [items EXCEPT ![d] = @ \ {<<"chunk", v>>}]
    /\ Disturb({d}, {Target(d)})
    /\ UNCHANGED <<manifest, leftover, op, left, writing, clock>>

\* copyFile writes <id>.manifest.tmp first, and rclone <id>.manifest.*.partial where its
\* remote needs that: both look like manifests to loadManifestIndex.
OpenManifest(d, q) ==
    /\ <<"manifest", q>> \in items[d] /\ writing[d] = {}
    /\ writing' = [writing EXCEPT ![d] = {q}]
    /\ leftover' = [leftover EXCEPT ![Target(d)] = @ \cup {q}]
    /\ Disturb({d}, {Target(d)})
    /\ UNCHANGED <<objects, manifest, op, left, items, clock>>

\* The rename that replaces whatever manifest the target has.
CopyManifest(d, q) ==
    /\ <<"manifest", q>> \in items[d]
    /\ writing[d] = {q} \/ (d \in Rclone /\ writing[d] = {})
    /\ manifest' = [manifest EXCEPT ![Target(d)][q] = manifest[Source(d)][q]]
    /\ leftover' = [leftover EXCEPT ![Target(d)] = @ \ writing[d]]
    /\ writing' = [writing EXCEPT ![d] = {}]
    /\ items' = [items EXCEPT ![d] = @ \ {<<"manifest", q>>}]
    /\ Disturb({d}, {Target(d)})
    /\ UNCHANGED <<objects, op, left, clock>>

\* A truncated file in the source is copied like any other file.
CopyLeftover(d, q) ==
    /\ <<"leftover", q>> \in items[d] /\ writing[d] = {}
    /\ leftover' = [leftover EXCEPT ![Target(d)] = @ \cup ({q} \cap leftover[Source(d)])]
    /\ items' = [items EXCEPT ![d] = @ \ {<<"leftover", q>>}]
    /\ Disturb({d}, {Target(d)})
    /\ UNCHANGED <<objects, manifest, op, left, writing, clock>>

\* Mutant: a transfer that ends leaves its listing behind.
EndKeepsItems(d) ==
    /\ op' = [op EXCEPT ![d] = "idle"]
    /\ left' = [left EXCEPT ![d] = <<>>]
    /\ writing' = [writing EXCEPT ![d] = {}]
    /\ calm' = [calm EXCEPT ![d] = TRUE]
    /\ UNCHANGED <<objects, manifest, leftover, items, clock>>

End(d) ==
    /\ op' = [op EXCEPT ![d] = "idle"]
    /\ left' = [left EXCEPT ![d] = <<>>]
    /\ items' = [items EXCEPT ![d] = {}]
    /\ writing' = [writing EXCEPT ![d] = {}]
    /\ calm' = [calm EXCEPT ![d] = TRUE]
    /\ UNCHANGED <<objects, manifest, leftover, clock>>

\* Mutant: the sequence stops after any of its commands.
CompleteEarly(d) ==
    /\ op[d] # "idle" /\ items[d] = {} /\ writing[d] = {}
    /\ End(d)

Complete(d) ==
    /\ op[d] # "idle" /\ left[d] = <<>> /\ items[d] = {} /\ writing[d] = {}
    /\ End(d)

\* A failed command ends the sequence; the browser tab that asked for the
\* transfer is closed; the process is killed.
Interrupt(d) == op[d] # "idle" /\ End(d)

Next ==
    \E d \in Device :
        \/ \E q \in Path, del \in BOOLEAN : Write(d, q, del)
        \/ Gc(d)
        \/ Start(d, "push") \/ Start(d, "pull")
        \/ NextCommand(d)
        \/ \E v \in Version : CopyChunk(d, v)
        \/ \E q \in Path : OpenManifest(d, q) \/ CopyManifest(d, q) \/ CopyLeftover(d, q)
        \/ Complete(d) \/ Interrupt(d)

Spec == Init /\ [][Next]_vars

-----------------------------------------------------------------------------
Item == ({"chunk"} \X Version) \cup ({"manifest", "leftover"} \X Path)

TypeOK ==
    /\ objects \in [Store -> SUBSET Version]
    /\ manifest \in [Store -> [Path -> Version \cup {Absent}]]
    /\ leftover \in [Store -> SUBSET Path]
    /\ op \in [Device -> {"idle", "push", "pull"}]
    /\ left \in [Device -> Seq(SUBSET {"chunk", "manifest"})]
    /\ items \in [Device -> SUBSET Item]
    /\ writing \in [Device -> SUBSET Path]
    /\ clock \in 0..MaxWrites
    /\ calm \in [Device -> BOOLEAN]
    /\ \A d \in Device : op[d] = "idle" => left[d] = <<>> /\ items[d] = {} /\ writing[d] = {}

\* The devices that push chunks first and are not used meanwhile.
Orderly == Rclone \ Busy

\* Whatever an orderly device has made, no other store ever holds its manifest
\* before its chunk is on the remote, from which every device can pull it:
\* interrupted pushes, pulls of half-pushed states, forwarding by a third
\* device and garbage collection included (pushSequence copies chunks first).
PublishedReadable ==
    \A s \in Store, q \in Path :
        LET v == manifest[s][q] IN
        v # Absent => \/ v.del \/ v.by \notin Orderly \/ s = v.by
                      \/ v \in objects[Remote]

\* A transfer that ends without an error and that nobody disturbed has made
\* the target hold every manifest and every chunk of the source.
CompleteCopies ==
    [][\A d \in Device : Complete(d) /\ calm[d]
          => /\ objects[Source(d)] \subseteq objects[Target(d)]
             /\ \A q \in Path : manifest[Source(d)][q] \in
                                    {Absent, manifest[Target(d)][q]}]_vars
=============================================================================

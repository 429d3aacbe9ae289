------------------------------ MODULE Manifests ------------------------------
(***************************************************************************)
(* The encrypted manifest records of internal/vault/manifest.go and the    *)
(* rules by which several manifest files of one virtual path are ranked.   *)
(* A payload (size and chunk list) is a member of Content; generations and *)
(* UpdatedAt stamps are nanosecond instants, both drawn from Nat.          *)
(***************************************************************************)
EXTENDS Naturals

CONSTANTS Content,   \* what a file can hold: sameFileRecord compares only this
          Nothing,   \* the empty payload a tombstone carries
          NoFile     \* no manifest file, and no entry of an index

ASSUME NothingAssumption == Nothing \notin Content

\* Generation 0 is a record that never had one (omitted JSON field).
LiveRecord == [gen : Nat, stamp : Nat, del : {FALSE}, content : Content]
Tombstone  == [gen : Nat, stamp : Nat, del : {TRUE}, content : {Nothing}]
Record     == LiveRecord \cup Tombstone

ASSUME NoFileAssumption == NoFile \notin Record

Live(r) == r \in LiveRecord

\* unixNanoOrNow(UpdatedAt) stands in for a missing generation.
Effective(r) == IF r.gen = 0 THEN r.stamp ELSE r.gen

\* candidateCompare looks through a missing generation for tombstones only.
RankGen(r) == IF r.del THEN Effective(r) ELSE r.gen

\* candidateCompare(a, b) > 0: generation, then stamp, then the tombstone.
Outranks(a, b) ==
    \/ RankGen(a) > RankGen(b)
    \/ /\ RankGen(a) = RankGen(b)
       /\ \/ a.stamp > b.stamp
          \/ a.stamp = b.stamp /\ a.del /\ ~b.del

\* sameFileRecord
SameFile(a, b) == a.content = b.content

\* The loser of a path is deleted without a conflict copy.
Discarded(winner, loser) ==
    \/ loser.del = winner.del /\ SameFile(loser, winner)
    \/ loser.del
    \/ winner.del /\ Effective(loser) < Effective(winner)

\* normalizeRecordMetadata
Normalized(r) == [r EXCEPT !.gen = Effective(r)]

\* Mutant: the generation of the replaced version is ignored.
NextGenNow(old, now) == now
\* The generation putReader and RemovePath give to a write that follows `old`.
NextGen(old, now) ==
    IF old # NoFile /\ old.gen >= now THEN old.gen + 1 ELSE now

LiveAt(gen, stamp, x) == [gen |-> gen, stamp |-> stamp, del |-> FALSE, content |-> x]
TombstoneAt(gen, stamp) ==
    [gen |-> gen, stamp |-> stamp, del |-> TRUE, content |-> Nothing]
=============================================================================

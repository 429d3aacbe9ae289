------------------------------- MODULE Chunker -------------------------------
(***************************************************************************)
(* ForEachChunk (internal/vault/chunker.go) one byte at a time, and what   *)
(* it is meant to compute: where a content is cut depends on its bytes     *)
(* alone, so that equal data becomes equal chunks.                         *)
(***************************************************************************)
EXTENDS Integers, SequencesExt

CONSTANTS
    MinSize, AvgSize, MaxSize,  \* ChunkParams, in bytes
    Gear                        \* gearTable: the number of each byte

\* ChunkParams.Validate; the cap of 128 MiB is out of any instance's reach.
ASSUME ChunkParamsAssumption ==
    /\ MinSize \in Nat \ {0} /\ AvgSize \in Nat /\ MaxSize \in Nat
    /\ MinSize <= AvgSize /\ AvgSize <= MaxSize
    /\ \A b \in DOMAIN Gear : Gear[b] \in Nat

Byte == DOMAIN Gear

\* 1 << k, and the smallest such power of two that is not below n.
Shifted[k \in Nat] == IF k = 0 THEN 1 ELSE 2 * Shifted[k - 1]

nextPowerOfTwo(n) ==
    Shifted[CHOOSE k \in 0 .. n : Shifted[k] >= n /\ \A j \in 0 .. k - 1 : Shifted[j] < n]

\* The rolling hash is a uint64, of which only the bits under the mask matter,
\* and addition and shift carry nothing down: it is kept modulo mask + 1.
Modulus == nextPowerOfTwo(AvgSize)

\* The state of the loop: the chunk in hand, the hash, the chunks emitted.
NothingFed == [chunk |-> <<>>, h |-> 0, refs |-> <<>>]

Cut(chunk, h) == Len(chunk) >= MinSize /\ (h = 0 \/ Len(chunk) >= MaxSize)

Emit(s) == [chunk |-> <<>>, h |-> 0, refs |-> Append(s.refs, s.chunk)]

FeedByte(s, b) ==
    LET h     == (2 * s.h + Gear[b]) % Modulus
        chunk == Append(s.chunk, b)
        fed   == [s EXCEPT !.h = h, !.chunk = chunk]
    IN IF Cut(chunk, h) THEN Emit(fed) ELSE fed

\* Mutant: what a read leaves over is a chunk.
FeedByBlock(s, bytes) ==
    LET fed == FoldLeft(FeedByte, s, bytes) IN IF fed.chunk = <<>> THEN fed ELSE Emit(fed)

\* One read of the reader, whatever its length, and the rest at the end.
Feed(s, bytes) ==
    LET fed[i \in 0 .. Len(bytes)] == IF i = 0 THEN s ELSE FeedByte(fed[i - 1], bytes[i])
    IN fed[Len(bytes)]

Finish(s) == IF s.chunk = <<>> THEN s.refs ELSE Append(s.refs, s.chunk)

-----------------------------------------------------------------------------
\* The reference: a content is cut after its first n bytes, n being the least
\* length at which the hash of those n bytes alone vanishes.
HashOf(s) ==
    LET sum[i \in 0 .. Len(s)] ==
            IF i = 0 THEN 0 ELSE (sum[i - 1] + Gear[s[i]] * Shifted[Len(s) - i]) % Modulus
    IN sum[Len(s)]

CutsAt(s, n) ==
    /\ n >= MinSize /\ n <= Len(s)
    /\ n = MaxSize \/ HashOf(SubSeq(s, 1, n)) = 0

FirstCut(s) ==
    IF \E n \in 1 .. Len(s) : CutsAt(s, n)
    THEN CHOOSE n \in 1 .. Len(s) : CutsAt(s, n) /\ \A k \in 1 .. n - 1 : ~CutsAt(s, k)
    ELSE Len(s)

\* IsChunking(refs, s): the sequence refs is s, cut where the reference cuts it.
StartOf(refs, i) == Len(FlattenSeq(SubSeq(refs, 1, i - 1)))
IsChunking(refs, s) ==
    /\ FlattenSeq(refs) = s
    /\ \A i \in 1 .. Len(refs) :
          LET rest == SubSeq(s, StartOf(refs, i) + 1, Len(s))
          IN Len(refs[i]) = FirstCut(rest)
=============================================================================

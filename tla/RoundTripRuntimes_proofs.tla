---------------------- MODULE RoundTripRuntimes_proofs ----------------------
(***************************************************************************)
(* Proofs about the way of a file into a vault and out of it.  Chunker:    *)
(* the cuts of a file depend on its bytes alone, and its chunks hold these *)
(* bytes in the sizes that ChunkParams allows.  RoundTrip, for any files,  *)
(* contents and number of exports: manifests and exports are of files as   *)
(* they were read, and no export destroys what it was not told to.         *)
(* Runtimes, the tools that puts and transports start, for any number of   *)
(* managers, users and versions: runtime.json can always be read, what it  *)
(* records can be used, nobody starts half an executable, and managers     *)
(* that take turns implement Switch.                                       *)
(***************************************************************************)
EXTENDS Runtimes, RoundTrip, FiniteSetTheorems, SequenceTheorems, WellFoundedInduction, TLAPS

-----------------------------------------------------------------------------
(* Induction, without a predicate as a parameter                           *)

\* A set of numbers that is not empty has a least one.
LEMMA Least == ASSUME NEW T \in SUBSET Nat, T # {} PROVE \E m \in T : \A k \in T : m <= k
<1> DEFINE R == {p \in Nat \X Nat : p[1] < p[2]}
<1>1. IsWellFoundedOn(R, Nat)
    BY NatLessThanWellFounded DEF OpToRel
<1> HIDE DEF R
<1>2. PICK m \in T : \A k \in T : <<k, m>> \notin R
    BY <1>1, WFMin
<1>3. \A k \in T : ~(k < m)
    BY <1>2 DEF R
<1> QED BY <1>3

LEMMA Induction ==
    ASSUME NEW n \in Nat, NEW Good, 0 \in Good, \A i \in 0 .. n - 1 : i \in Good => i + 1 \in Good
    PROVE  0 .. n \subseteq Good
<1> DEFINE T == (0 .. n) \ Good
<1>1. SUFFICES ASSUME T # {} PROVE FALSE
    OBVIOUS
<1>2. T \in SUBSET Nat
    OBVIOUS
<1>3. PICK m \in T : \A k \in T : m <= k
    BY <1>1, <1>2, Least
<1>4. m # 0 /\ m - 1 \in 0 .. n - 1
    BY <1>3
<1>5. m - 1 \in Good
    BY <1>3, <1>4
<1> QED BY <1>3, <1>4, <1>5

\* f is the recursion that begins with base and goes on by step, up to n.
Recurs(f, n, V, base, step) ==
    /\ f \in [0 .. n -> V] /\ f[0] = base
    /\ \A i \in 1 .. n : f[i] = step[<<i, f[i - 1]>>]

\* There is such a recursion, and only one.
LEMMA RecursionUnique ==
    ASSUME NEW n \in Nat, NEW m \in Nat, n <= m, NEW V, NEW base, NEW step,
           NEW f, NEW g, Recurs(f, n, V, base, step), Recurs(g, m, V, base, step)
    PROVE  \A i \in 0 .. n : f[i] = g[i]
<1> DEFINE Good == {i \in 0 .. n : f[i] = g[i]}
<1>1. 0 \in Good
    BY DEF Recurs
<1>2. ASSUME NEW i \in 0 .. n - 1, i \in Good PROVE i + 1 \in Good
    <2>1. i + 1 \in 1 .. n /\ i + 1 \in 1 .. m /\ (i + 1) - 1 = i
        OBVIOUS
    <2>2. f[i + 1] = step[<<i + 1, f[i]>>] /\ g[i + 1] = step[<<i + 1, g[i]>>]
        BY <2>1 DEF Recurs
    <2> QED BY <1>2, <2>1, <2>2
<1>3. 0 .. n \subseteq Good
    <2> HIDE DEF Good
    <2> QED BY <1>1, <1>2, Induction
<1> QED BY <1>3

LEMMA RecursionExists ==
    ASSUME NEW n \in Nat, NEW V, NEW base \in V, NEW step \in [(1 .. n) \X V -> V]
    PROVE  \E f : Recurs(f, n, V, base, step)
<1> DEFINE Good == {k \in 0 .. n : \E f : Recurs(f, k, V, base, step)}
<1>1. 0 \in Good
    <2> DEFINE f == [i \in 0 .. 0 |-> base]
    <2>1. f \in [0 .. 0 -> V] /\ f[0] = base
        OBVIOUS
    <2> HIDE DEF f
    <2>2. Recurs(f, 0, V, base, step)
        BY <2>1 DEF Recurs
    <2> QED BY <2>2
<1>2. ASSUME NEW k \in 0 .. n - 1, k \in Good PROVE k + 1 \in Good
    <2>1. PICK f : Recurs(f, k, V, base, step)
        BY <1>2
    <2> DEFINE g == [i \in 0 .. k + 1 |-> IF i <= k THEN f[i] ELSE step[<<k + 1, f[k]>>]]
    <2>2. step[<<k + 1, f[k]>>] \in V /\ f \in [0 .. k -> V] /\ f[0] = base
        BY <2>1 DEF Recurs
    <2>3. g \in [0 .. k + 1 -> V] /\ g[0] = base
        BY <2>2
    <2>4. ASSUME NEW i \in 1 .. k + 1 PROVE g[i] = step[<<i, g[i - 1]>>]
        <3>1. i - 1 \in 0 .. k /\ g[i - 1] = f[i - 1]
            OBVIOUS
        <3>2. CASE i = k + 1
            <4>1. g[i] = step[<<k + 1, f[k]>>] /\ i - 1 = k
                BY <3>2
            <4> QED BY <3>1, <3>2, <4>1
        <3>3. CASE i \in 1 .. k
            BY <3>1, <3>3, <2>1 DEF Recurs
        <3> QED BY <3>2, <3>3
    <2> HIDE DEF g
    <2>5. Recurs(g, k + 1, V, base, step)
        BY <2>3, <2>4 DEF Recurs
    <2>6. k + 1 \in 0 .. n
        OBVIOUS
    <2> QED BY <2>5, <2>6
<1>3. 0 .. n \subseteq Good
    <2> HIDE DEF Good
    <2> QED BY <1>1, <1>2, Induction
<1> QED BY <1>3

\* The same over all numbers.
RecursOverNat(f, V, base, step) ==
    f \in [Nat -> V] /\ f[0] = base /\ \A i \in Nat \ {0} : f[i] = step[<<i, f[i - 1]>>]

LEMMA RecursionOverNat ==
    ASSUME NEW V, NEW base \in V, NEW step \in [Nat \X V -> V]
    PROVE  \E f : RecursOverNat(f, V, base, step)
<1> DEFINE upTo(k) == CHOOSE f : Recurs(f, k, V, base, step)
           F == [k \in Nat |-> upTo(k)[k]]
<1>1. ASSUME NEW k \in Nat PROVE Recurs(upTo(k), k, V, base, step)
    <2> DEFINE part == [p \in (1 .. k) \X V |-> step[p]]
    <2>1. part \in [(1 .. k) \X V -> V]
        OBVIOUS
    <2>2. \A p \in (1 .. k) \X V : part[p] = step[p]
        OBVIOUS
    <2> HIDE DEF part
    <2>3. PICK f : Recurs(f, k, V, base, part)
        BY <2>1, RecursionExists
    <2>4. ASSUME NEW i \in 1 .. k PROVE f[i] = step[<<i, f[i - 1]>>]
        <3>1. f[i - 1] \in V /\ f[i] = part[<<i, f[i - 1]>>]
            BY <2>3 DEF Recurs
        <3> QED BY <2>2, <3>1
    <2>5. Recurs(f, k, V, base, step)
        BY <2>3, <2>4 DEF Recurs
    <2> QED BY <2>5
<1> HIDE DEF upTo
<1>2. ASSUME NEW k \in Nat, NEW i \in 0 .. k PROVE upTo(i)[i] = upTo(k)[i]
    <2>1. i \in Nat /\ i <= k /\ i \in 0 .. i
        OBVIOUS
    <2>2. Recurs(upTo(i), i, V, base, step) /\ Recurs(upTo(k), k, V, base, step)
        BY <1>1, <2>1
    <2> QED BY <2>1, <2>2, RecursionUnique
<1>3. F \in [Nat -> V]
    BY <1>1 DEF Recurs
<1>4. F[0] = base
    BY <1>1 DEF Recurs
<1>5. ASSUME NEW i \in Nat \ {0} PROVE F[i] = step[<<i, F[i - 1]>>]
    <2>1. upTo(i)[i] = step[<<i, upTo(i)[i - 1]>>]
        BY <1>1 DEF Recurs
    <2>2. upTo(i - 1)[i - 1] = upTo(i)[i - 1]
        BY <1>2
    <2> QED BY <2>1, <2>2
<1> HIDE DEF F
<1>6. RecursOverNat(F, V, base, step)
    BY <1>3, <1>4, <1>5 DEF RecursOverNat
<1> QED BY <1>6

-----------------------------------------------------------------------------
(* Shifts and remainders                                                   *)

LEMMA ShiftedFacts ==
    /\ Shifted \in [Nat -> Nat] /\ Shifted[0] = 1
    /\ \A k \in Nat : Shifted[k + 1] = 2 * Shifted[k] /\ Shifted[k] > k
<1> DEFINE step == [p \in Nat \X Nat |-> 2 * p[2]]
           Body(f) == [k \in Nat |-> IF k = 0 THEN 1 ELSE 2 * f[k - 1]]
<1>1. step \in [Nat \X Nat -> Nat] /\ \A i, v \in Nat : step[<<i, v>>] = 2 * v
    OBVIOUS
<1> HIDE DEF step
<1>2. PICK f : RecursOverNat(f, Nat, 1, step)
    BY <1>1, RecursionOverNat
<1>3. f = Body(f)
    <2>1. ASSUME NEW k \in Nat PROVE f[k] = IF k = 0 THEN 1 ELSE 2 * f[k - 1]
        <3>1. CASE k = 0
            BY <1>2, <3>1 DEF RecursOverNat
        <3>2. CASE k # 0
            <4>1. f[k] = step[<<k, f[k - 1]>>] /\ k - 1 \in Nat /\ f[k - 1] \in Nat
                BY <1>2, <3>2 DEF RecursOverNat
            <4> QED BY <1>1, <3>2, <4>1
        <3> QED BY <3>1, <3>2
    <2> QED BY <1>2, <2>1 DEF RecursOverNat
<1>4. Shifted = CHOOSE g : g = Body(g)
    BY DEF Shifted
<1> HIDE DEF Body
<1>5. Shifted = Body(Shifted)
    BY <1>3, <1>4
<1> USE DEF Body
<1>6. Shifted[0] = 1 /\ \A k \in Nat : Shifted[k + 1] = 2 * Shifted[k]
    BY <1>5
<1> HIDE DEF Body
<1> DEFINE Good == {k \in Nat : Shifted[k] \in Nat /\ Shifted[k] > k}
<1>7. ASSUME NEW k \in Nat PROVE k \in Good
    <2>1. 0 \in Good
        BY <1>6
    <2>2. \A i \in 0 .. k - 1 : i \in Good => i + 1 \in Good
        BY <1>6
    <2> HIDE DEF Good
    <2>3. 0 .. k \subseteq Good
        BY <2>1, <2>2, Induction
    <2> QED BY <2>3
<1>8. Shifted \in [Nat -> Nat]
    BY <1>5, <1>7 DEF Body
<1> QED BY <1>6, <1>7, <1>8

LEMMA ModulusType == Modulus \in Nat \ {0}
<1> DEFINE T == {k \in Nat : Shifted[k] >= AvgSize}
           Fits(k) == k \in 0 .. AvgSize /\ Shifted[k] >= AvgSize
                      /\ \A j \in 0 .. k - 1 : Shifted[j] < AvgSize
<1>1. AvgSize \in T
    BY ShiftedFacts, ChunkParamsAssumption
<1>2. PICK k \in T : \A j \in T : k <= j
    BY <1>1, Least
<1>3. Fits(k)
    BY <1>1, <1>2, ShiftedFacts, ChunkParamsAssumption
<1>4. \E i \in 0 .. AvgSize : Shifted[i] >= AvgSize /\ \A j \in 0 .. i - 1 : Shifted[j] < AvgSize
    BY <1>3
<1>5. Modulus = Shifted[CHOOSE i \in 0 .. AvgSize : Shifted[i] >= AvgSize
                                          /\ \A j \in 0 .. i - 1 : Shifted[j] < AvgSize]
    BY DEF Modulus, nextPowerOfTwo
<1>6. \E i \in 0 .. AvgSize : Modulus = Shifted[i]
    BY <1>4, <1>5
<1> QED BY <1>6, ShiftedFacts, ChunkParamsAssumption

LEMMA Remainder ==
    ASSUME NEW m \in Nat \ {0}, NEW q \in Nat, NEW r \in 0 .. m - 1
    PROVE  (m * q + r) % m = r
OBVIOUS

LEMMA Quotient ==
    ASSUME NEW a \in Nat, NEW m \in Nat \ {0}
    PROVE  (a % m) \in 0 .. m - 1 /\ \E q \in Nat : a = m * q + (a % m)
<1>1. (a % m) \in 0 .. m - 1
    OBVIOUS
<1>2. (a \div m) \in Nat
    OBVIOUS
<1>3. a = m * (a \div m) + (a % m)
    OBVIOUS
<1> QED BY <1>1, <1>2, <1>3

LEMMA RemainderOfSum ==
    ASSUME NEW a \in Nat, NEW b \in Nat, NEW m \in Nat \ {0}
    PROVE  ((a % m) + b) % m = (a + b) % m
<1> DEFINE r == a % m
           s == (r + b) % m
<1>1. PICK q \in Nat : r \in 0 .. m - 1 /\ a = m * q + r
    BY Quotient
<1>2. r + b \in Nat
    BY <1>1
<1>3. PICK p \in Nat : s \in 0 .. m - 1 /\ r + b = m * p + s
    <2> HIDE DEF r
    <2> QED BY <1>2, Quotient
<1> HIDE DEF r, s
<1>4. q + p \in Nat /\ a + b = m * (q + p) + s
    BY <1>1, <1>3
<1>5. (m * (q + p) + s) % m = s
    BY <1>3, <1>4, Remainder
<1> QED BY <1>4, <1>5 DEF r, s

LEMMA RemainderOfDouble ==
    ASSUME NEW a \in Nat, NEW m \in Nat \ {0}
    PROVE  (2 * (a % m)) % m = (2 * a) % m
<1> DEFINE r == a % m
<1>1. r \in Nat /\ r + r = 2 * r
    BY Quotient
<1>2. (r + r) % m = (a + r) % m
    BY <1>1, RemainderOfSum
<1>3. (r + a) % m = (a + a) % m
    BY <1>1, RemainderOfSum
<1> HIDE DEF r
<1> QED BY <1>1, <1>2, <1>3 DEF r

-----------------------------------------------------------------------------
(* The hash                                                                *)

Numbers == 0 .. Modulus - 1

\* The weighted sums of the first bytes of s, of which HashOf is the last.
SumsOf(s) ==
    CHOOSE f : f = [i \in 0 .. Len(s) |->
        IF i = 0 THEN 0 ELSE (f[i - 1] + Gear[s[i]] * Shifted[Len(s) - i]) % Modulus]

LEMMA SumsFacts ==
    ASSUME NEW s \in Seq(Byte)
    PROVE  /\ SumsOf(s) \in [0 .. Len(s) -> Numbers] /\ SumsOf(s)[0] = 0
           /\ \A i \in 1 .. Len(s) :
                 SumsOf(s)[i] = (SumsOf(s)[i - 1] + Gear[s[i]] * Shifted[Len(s) - i]) % Modulus
<1> DEFINE V == Numbers
           n == Len(s)
           step == [p \in (1 .. n) \X V |-> (p[2] + Gear[s[p[1]]] * Shifted[n - p[1]]) % Modulus]
           Body(f) == [i \in 0 .. n |->
               IF i = 0 THEN 0 ELSE (f[i - 1] + Gear[s[i]] * Shifted[n - i]) % Modulus]
<1>1. n \in Nat /\ 0 \in V
    BY ModulusType DEF Numbers
<1>2. ASSUME NEW i \in 1 .. n PROVE Gear[s[i]] * Shifted[n - i] \in Nat
    <2>1. s[i] \in Byte /\ n - i \in Nat
        OBVIOUS
    <2>2. Gear[s[i]] \in Nat /\ Shifted[n - i] \in Nat
        BY <2>1, ChunkParamsAssumption, ShiftedFacts DEF Byte
    <2> QED BY <2>2
<1>3. \A i \in 1 .. n : \A v \in V : (v + Gear[s[i]] * Shifted[n - i]) % Modulus \in V
    <2> SUFFICES ASSUME NEW i \in 1 .. n, NEW v \in V
                 PROVE  (v + Gear[s[i]] * Shifted[n - i]) % Modulus \in V
        OBVIOUS
    <2>1. v \in Nat
        BY ModulusType DEF Numbers
    <2>2. v + Gear[s[i]] * Shifted[n - i] \in Nat
        BY <2>1, <1>2
    <2> QED BY <2>2, Quotient, ModulusType DEF Numbers
<1>4. \A i \in 1 .. n : \A v \in V : step[<<i, v>>] = (v + Gear[s[i]] * Shifted[n - i]) % Modulus
    OBVIOUS
<1>5. step \in [(1 .. n) \X V -> V]
    BY <1>3
<1> HIDE DEF step, V
<1>6. PICK f : Recurs(f, n, V, 0, step)
    BY <1>1, <1>5, RecursionExists
<1>7. f = Body(f)
    <2>1. f \in [0 .. n -> V]
        BY <1>6 DEF Recurs
    <2>2. ASSUME NEW i \in 0 .. n PROVE f[i] = Body(f)[i]
        <3>1. CASE i = 0
            BY <1>6, <3>1 DEF Recurs
        <3>2. CASE i \in 1 .. n
            <4>1. f[i] = step[<<i, f[i - 1]>>] /\ f[i - 1] \in V
                BY <1>6, <3>2 DEF Recurs
            <4> QED BY <1>4, <3>2, <4>1
        <3> QED BY <3>1, <3>2
    <2> QED BY <2>1, <2>2
<1>8. SumsOf(s) = CHOOSE g : g = Body(g)
    BY DEF SumsOf
<1> HIDE DEF Body
<1>9. SumsOf(s) = Body(SumsOf(s))
    BY <1>7, <1>8
<1>10. SumsOf(s)[0] = 0
    BY <1>1, <1>9 DEF Body
<1>11. \A i \in 1 .. n : SumsOf(s)[i] = (SumsOf(s)[i - 1] + Gear[s[i]] * Shifted[n - i]) % Modulus
    BY <1>1, <1>9 DEF Body
<1>12. SumsOf(s) \in [0 .. n -> V]
    <2> DEFINE Good == {i \in 0 .. n : SumsOf(s)[i] \in V}
    <2>1. 0 \in Good
        BY <1>1, <1>10
    <2>2. ASSUME NEW i \in 0 .. n - 1, i \in Good PROVE i + 1 \in Good
        <3>1. i + 1 \in 1 .. n /\ (i + 1) - 1 = i
            BY <1>1
        <3>2. (SumsOf(s)[i] + Gear[s[i + 1]] * Shifted[n - (i + 1)]) % Modulus \in V
            BY <1>3, <2>2, <3>1
        <3>3. SumsOf(s)[i + 1] \in V
            BY <1>11, <3>1, <3>2
        <3> QED BY <3>1, <3>3
    <2>3. 0 .. n \subseteq Good
        <3> HIDE DEF Good
        <3> QED BY <1>1, <2>1, <2>2, Induction
    <2>4. DOMAIN SumsOf(s) = 0 .. n /\ SumsOf(s) = [i \in 0 .. n |-> SumsOf(s)[i]]
        BY <1>9 DEF Body
    <2> QED BY <2>3, <2>4
<1> QED BY <1>10, <1>11, <1>12 DEF V

LEMMA HashIsSum == ASSUME NEW s PROVE HashOf(s) = SumsOf(s)[Len(s)]
BY DEF HashOf, SumsOf

LEMMA EmptyHash == HashOf(<<>>) = 0
<1>1. <<>> \in Seq(Byte) /\ Len(<<>>) = 0
    BY EmptySeq
<1> QED BY <1>1, SumsFacts, HashIsSum

\* One byte more: what the loop computes from the hash before.
LEMMA HashAppend ==
    ASSUME NEW c \in Seq(Byte), NEW b \in Byte
    PROVE  HashOf(c) \in Numbers /\ HashOf(Append(c, b)) = (2 * HashOf(c) + Gear[b]) % Modulus
<1> DEFINE n == Len(c)
           d == Append(c, b)
           T == SumsOf(d)
           U == SumsOf(c)
           Good == {i \in 0 .. n : T[i] = (2 * U[i]) % Modulus}
<1>1. /\ n \in Nat /\ d \in Seq(Byte) /\ Len(d) = n + 1 /\ d[n + 1] = b
      /\ \A i \in 1 .. n : d[i] = c[i]
    BY AppendProperties
<1>2. /\ U \in [0 .. n -> Numbers] /\ U[0] = 0
      /\ \A i \in 1 .. n : U[i] = (U[i - 1] + Gear[c[i]] * Shifted[n - i]) % Modulus
    BY SumsFacts
<1>3. /\ T \in [0 .. n + 1 -> Numbers] /\ T[0] = 0
      /\ \A i \in 1 .. n + 1 : T[i] = (T[i - 1] + Gear[d[i]] * Shifted[(n + 1) - i]) % Modulus
    BY <1>1, SumsFacts
<1>4. HashOf(c) = U[n] /\ HashOf(d) = T[n + 1]
    BY <1>1, HashIsSum
<1> HIDE DEF d, T, U
<1>5. \A j \in Byte : Gear[j] \in Nat
    BY ChunkParamsAssumption DEF Byte
<1>6. 0 \in Good
    BY <1>1, <1>2, <1>3, ModulusType
<1>7. ASSUME NEW i \in 0 .. n - 1, i \in Good PROVE i + 1 \in Good
    <2> DEFINE A == U[i]
               g == Gear[c[i + 1]]
               w == Shifted[n - (i + 1)]
    <2>1. i + 1 \in 1 .. n /\ i + 1 \in 1 .. n + 1 /\ (i + 1) - 1 = i
          /\ n - (i + 1) \in Nat /\ (n + 1) - (i + 1) = (n - (i + 1)) + 1
        BY <1>1
    <2>2. A \in Nat
        <3>1. i \in 0 .. n
            BY <1>1
        <3>2. U[i] \in Numbers
            BY <1>2, <3>1
        <3> QED BY <3>2, ModulusType DEF Numbers
    <2>3. c[i + 1] \in Byte /\ d[i + 1] = c[i + 1]
        BY <1>1, <2>1
    <2>4. g \in Nat /\ w \in Nat /\ Shifted[(n + 1) - (i + 1)] = 2 * w
        BY <1>5, <2>1, <2>3, ShiftedFacts
    <2>5. T[i + 1] = (T[i] + g * (2 * w)) % Modulus
        BY <1>3, <2>1, <2>3, <2>4
    <2>6. U[i + 1] = (A + g * w) % Modulus
        BY <1>2, <2>1
    <2>7. T[i] = (2 * A) % Modulus
        BY <1>7
    <2> HIDE DEF A, g, w
    <2> DEFINE v == g * w
    <2>8. v \in Nat /\ g * (2 * w) = 2 * v
        BY <2>4
    <2> HIDE DEF v
    <2>9. T[i + 1] = (2 * A + 2 * v) % Modulus
        <3>1. 2 * A \in Nat /\ 2 * v \in Nat
            BY <2>2, <2>8
        <3>2. (((2 * A) % Modulus) + 2 * v) % Modulus = (2 * A + 2 * v) % Modulus
            BY <3>1, RemainderOfSum, ModulusType
        <3> QED BY <3>2, <2>5, <2>7, <2>8
    <2>10. (2 * U[i + 1]) % Modulus = (2 * (A + v)) % Modulus
        <3>1. A + v \in Nat /\ U[i + 1] = (A + v) % Modulus
            BY <2>2, <2>6, <2>8 DEF v
        <3>2. (2 * ((A + v) % Modulus)) % Modulus = (2 * (A + v)) % Modulus
            BY <3>1, RemainderOfDouble, ModulusType
        <3> QED BY <3>1, <3>2
    <2>11. 2 * A + 2 * v = 2 * (A + v)
        BY <2>2, <2>8
    <2>12. i + 1 \in 0 .. n
        BY <2>1
    <2> QED BY <2>9, <2>10, <2>11, <2>12
<1>8. 0 .. n \subseteq Good
    <2> HIDE DEF Good
    <2> QED BY <1>1, <1>6, <1>7, Induction
<1>9. T[n] = (2 * U[n]) % Modulus
    BY <1>1, <1>8
<1>10. U[n] \in Numbers /\ U[n] \in Nat
    BY <1>1, <1>2, ModulusType DEF Numbers
<1>11. T[n + 1] = (T[n] + Gear[b]) % Modulus
    <2>1. T[n + 1] = (T[n] + Gear[b] * Shifted[0]) % Modulus
        <3>1. n + 1 \in 1 .. n + 1 /\ (n + 1) - 1 = n /\ (n + 1) - (n + 1) = 0
            BY <1>1
        <3> QED BY <1>1, <1>3, <3>1
    <2>2. Gear[b] * Shifted[0] = Gear[b]
        <3>1. Gear[b] \in Nat /\ Shifted[0] = 1
            BY <1>5, ShiftedFacts
        <3> QED BY <3>1
    <2> QED BY <2>1, <2>2
<1>12. (((2 * U[n]) % Modulus) + Gear[b]) % Modulus = (2 * U[n] + Gear[b]) % Modulus
    <2>1. 2 * U[n] \in Nat /\ Gear[b] \in Nat
        BY <1>5, <1>10
    <2> QED BY <2>1, RemainderOfSum, ModulusType
<1> QED BY <1>4, <1>9, <1>10, <1>11, <1>12 DEF d

-----------------------------------------------------------------------------
(* Chunks one after another                                                *)

\* The recursion of FlattenSeq.
PartsOf(s) == CHOOSE f : f = [i \in 1 .. Len(s) |-> IF i = 1 THEN s[i] ELSE f[i - 1] \o s[i]]

LEMMA PartsFacts ==
    ASSUME NEW A, NEW s \in Seq(Seq(A))
    PROVE  \A i \in 1 .. Len(s) : /\ PartsOf(s)[i] \in Seq(A)
                                  /\ PartsOf(s)[i] = IF i = 1 THEN s[i] ELSE PartsOf(s)[i - 1] \o s[i]
<1> DEFINE n == Len(s)
           V == Seq(A)
           step == [p \in (1 .. n) \X V |-> p[2] \o s[p[1]]]
           Body(f) == [i \in 1 .. n |-> IF i = 1 THEN s[i] ELSE f[i - 1] \o s[i]]
<1>1. n \in Nat /\ <<>> \in V
    BY EmptySeq
<1>2. \A i \in 1 .. n : s[i] \in V
    BY ElementOfSeq
<1>3. \A i \in 1 .. n : \A v \in V : v \o s[i] \in V
    BY <1>2, ConcatProperties
<1>4. \A i \in 1 .. n : \A v \in V : step[<<i, v>>] = v \o s[i]
    OBVIOUS
<1>5. step \in [(1 .. n) \X V -> V]
    BY <1>3
<1>6. \A i \in 1 .. n : <<>> \o s[i] = s[i]
    BY <1>2, ConcatEmptySeq
<1> HIDE DEF step, V
<1>7. PICK g : Recurs(g, n, V, <<>>, step)
    BY <1>1, <1>5, RecursionExists
<1> DEFINE f == [i \in 1 .. n |-> g[i]]
<1>8. \A i \in 1 .. n : g[i] \in V /\ g[i - 1] \in V /\ g[i] = g[i - 1] \o s[i]
    <2> SUFFICES ASSUME NEW i \in 1 .. n
                 PROVE  g[i] \in V /\ g[i - 1] \in V /\ g[i] = g[i - 1] \o s[i]
        OBVIOUS
    <2>1. g[i] \in V /\ g[i - 1] \in V /\ g[i] = step[<<i, g[i - 1]>>]
        <3>1. i \in 0 .. n /\ i - 1 \in 0 .. n
            BY <1>1
        <3> QED BY <3>1, <1>7 DEF Recurs
    <2> QED BY <2>1, <1>4
<1>9. f = Body(f)
    <2>1. ASSUME NEW i \in 1 .. n PROVE f[i] = Body(f)[i]
        <3>1. CASE i = 1
            <4>1. g[0] = <<>> /\ i - 1 = 0
                BY <1>7, <3>1 DEF Recurs
            <4>2. g[i] = <<>> \o s[i]
                BY <1>8, <4>1
            <4>3. g[i] = s[i]
                BY <1>6, <4>2
            <4> QED BY <3>1, <4>3
        <3>2. CASE i \in 2 .. n
            <4>1. i - 1 \in 1 .. n /\ i # 1
                BY <1>1, <3>2
            <4>2. f[i] = g[i] /\ f[i - 1] = g[i - 1]
                BY <4>1
            <4> QED BY <1>8, <4>1, <4>2
        <3>3. i = 1 \/ i \in 2 .. n
            BY <1>1
        <3> QED BY <3>1, <3>2, <3>3
    <2> QED BY <2>1
<1>10. PartsOf(s) = CHOOSE h : h = Body(h)
    BY DEF PartsOf
<1> HIDE DEF Body, f
<1>11. PartsOf(s) = Body(PartsOf(s))
    BY <1>9, <1>10
<1>12. \A i \in 1 .. n :
          PartsOf(s)[i] = IF i = 1 THEN s[i] ELSE PartsOf(s)[i - 1] \o s[i]
    BY <1>11 DEF Body
<1>13. \A i \in 1 .. n : PartsOf(s)[i] \in V
    <2> DEFINE Good == {i \in 0 .. n : i = 0 \/ PartsOf(s)[i] \in V}
    <2>1. 0 \in Good
        BY <1>1
    <2>2. ASSUME NEW i \in 0 .. n - 1, i \in Good PROVE i + 1 \in Good
        <3>1. i + 1 \in 1 .. n /\ (i + 1) - 1 = i
            BY <1>1
        <3>2. CASE i = 0
            BY <1>2, <1>12, <3>1, <3>2 DEF V
        <3>3. CASE i # 0
            <4>1. PartsOf(s)[i] \in V
                BY <2>2, <3>3
            <4>2. PartsOf(s)[i + 1] = PartsOf(s)[i] \o s[i + 1]
                <5>1. i + 1 # 1
                    BY <3>3
                <5> QED BY <1>12, <3>1, <5>1
            <4>3. PartsOf(s)[i + 1] \in V
                BY <1>3, <3>1, <4>1, <4>2
            <4> QED BY <3>1, <4>3
        <3> QED BY <3>2, <3>3
    <2>3. 0 .. n \subseteq Good
        <3> HIDE DEF Good
        <3> QED BY <1>1, <2>1, <2>2, Induction
    <2> QED BY <1>1, <2>3
<1> QED BY <1>12, <1>13 DEF V

LEMMA FlattenIsPart == ASSUME NEW s PROVE Len(s) # 0 => FlattenSeq(s) = PartsOf(s)[Len(s)]
BY DEF FlattenSeq, PartsOf

LEMMA FlattenEmpty == FlattenSeq(<<>>) = <<>>
BY EmptySeq DEF FlattenSeq

LEMMA FlattenType == ASSUME NEW A, NEW s \in Seq(Seq(A)) PROVE FlattenSeq(s) \in Seq(A)
<1>1. CASE Len(s) = 0
    <2>1. s = <<>>
        BY <1>1, EmptySeq
    <2> QED BY <2>1, FlattenEmpty, EmptySeq
<1>2. CASE Len(s) # 0
    <2>1. Len(s) \in 1 .. Len(s)
        BY <1>2, LenProperties
    <2> QED BY <1>2, <2>1, PartsFacts, FlattenIsPart
<1> QED BY <1>1, <1>2

LEMMA FlattenAppend ==
    ASSUME NEW A, NEW s \in Seq(Seq(A)), NEW c \in Seq(A)
    PROVE  FlattenSeq(Append(s, c)) = FlattenSeq(s) \o c
<1> DEFINE n == Len(s)
           d == Append(s, c)
           Good == {i \in 0 .. n : i = 0 \/ PartsOf(d)[i] = PartsOf(s)[i]}
<1>1. /\ n \in Nat /\ d \in Seq(Seq(A)) /\ Len(d) = n + 1 /\ d[n + 1] = c
      /\ \A i \in 1 .. n : d[i] = s[i]
    BY AppendProperties
<1>2. FlattenSeq(d) = PartsOf(d)[n + 1]
    <2>1. Len(d) # 0
        BY <1>1
    <2> HIDE DEF d
    <2> QED BY <1>1, <2>1, FlattenIsPart
<1> HIDE DEF d
<1>3. \A i \in 1 .. n + 1 : PartsOf(d)[i] = IF i = 1 THEN d[i] ELSE PartsOf(d)[i - 1] \o d[i]
    BY <1>1, PartsFacts
<1>4. \A i \in 1 .. n : PartsOf(s)[i] = IF i = 1 THEN s[i] ELSE PartsOf(s)[i - 1] \o s[i]
    BY PartsFacts
<1>5. 0 \in Good
    BY <1>1
<1>6. ASSUME NEW i \in 0 .. n - 1, i \in Good PROVE i + 1 \in Good
    <2>1. i + 1 \in 1 .. n /\ i + 1 \in 1 .. n + 1 /\ (i + 1) - 1 = i /\ i + 1 \in 0 .. n
        BY <1>1
    <2>2. d[i + 1] = s[i + 1]
        BY <1>1, <2>1
    <2>3. CASE i = 0
        BY <1>3, <1>4, <2>1, <2>2, <2>3
    <2>4. CASE i # 0
        <3>1. PartsOf(d)[i] = PartsOf(s)[i] /\ i + 1 # 1
            BY <1>6, <2>4
        <3>2. PartsOf(d)[i + 1] = PartsOf(d)[i] \o d[i + 1]
            BY <1>3, <2>1, <3>1
        <3>3. PartsOf(s)[i + 1] = PartsOf(s)[i] \o s[i + 1]
            BY <1>4, <2>1, <3>1
        <3>4. PartsOf(d)[i + 1] = PartsOf(s)[i + 1]
            BY <2>2, <3>1, <3>2, <3>3
        <3> QED BY <2>1, <3>4
    <2> QED BY <2>3, <2>4
<1>7. 0 .. n \subseteq Good
    <2> HIDE DEF Good
    <2> QED BY <1>1, <1>5, <1>6, Induction
<1>8. CASE n = 0
    <2>1. s = <<>> /\ FlattenSeq(s) = <<>>
        BY <1>8, EmptySeq, FlattenEmpty
    <2>2. PartsOf(d)[n + 1] = c
        BY <1>1, <1>3, <1>8
    <2> QED BY <1>2, <2>1, <2>2, ConcatEmptySeq DEF d
<1>9. CASE n # 0
    <2>1. n \in 1 .. n /\ n + 1 \in 1 .. n + 1 /\ n + 1 # 1 /\ (n + 1) - 1 = n
        BY <1>1, <1>9
    <2>2. PartsOf(d)[n] = PartsOf(s)[n]
        BY <1>7, <1>9, <2>1
    <2>3. FlattenSeq(s) = PartsOf(s)[n]
        BY <1>9, FlattenIsPart
    <2>4. PartsOf(d)[n + 1] = PartsOf(s)[n] \o c
        BY <1>1, <1>3, <2>1, <2>2
    <2> QED BY <1>2, <2>3, <2>4 DEF d
<1> QED BY <1>8, <1>9

-----------------------------------------------------------------------------
(* The loop                                                                *)

\* No cut within the first n bytes; a chunk in hand, and a chunk cut off.
Uncut(c, n)  == \A k \in 1 .. n : ~CutsAt(c, k)
InHand(c)    == c \in Seq(Byte) /\ Uncut(c, Len(c))
CutOff(c)    == c \in Seq(Byte) /\ CutsAt(c, Len(c)) /\ Uncut(c, Len(c) - 1)

Feeding == {st \in [chunk : Seq(Byte), h : Numbers, refs : Seq(Seq(Byte))] :
              /\ InHand(st.chunk) /\ st.h = HashOf(st.chunk)
              /\ \A i \in 1 .. Len(st.refs) : CutOff(st.refs[i])}

\* What has been fed.
BytesIn(st) == FlattenSeq(st.refs) \o st.chunk

LEMMA Sizes == MinSize \in Nat \ {0} /\ MaxSize \in Nat /\ MinSize <= MaxSize
BY ChunkParamsAssumption

\* The first bytes of a sequence do not depend on those that follow.
LEMMA Prefix ==
    ASSUME NEW A, NEW c \in Seq(A), NEW t \in Seq(A), NEW k \in 0 .. Len(c)
    PROVE  SubSeq(c \o t, 1, k) = SubSeq(c, 1, k)
<1>1. CASE k = 0
    BY <1>1, SubSeqEmpty
<1>2. CASE k # 0
    <2>1. 1 \in 1 .. Len(c) /\ k \in 1 .. Len(c)
        BY <1>2, LenProperties
    <2> QED BY <2>1, SubSeqOfConcat1
<1> QED BY <1>1, <1>2

LEMMA CutsAtPrefix ==
    ASSUME NEW c \in Seq(Byte), NEW t \in Seq(Byte), NEW k \in 0 .. Len(c)
    PROVE  CutsAt(c \o t, k) <=> CutsAt(c, k)
<1>1. SubSeq(c \o t, 1, k) = SubSeq(c, 1, k)
    BY Prefix
<1>2. k <= Len(c) /\ k <= Len(c \o t)
    BY ConcatProperties, LenProperties
<1> QED BY <1>1, <1>2 DEF CutsAt

LEMMA InHandShort == ASSUME NEW c, InHand(c) PROVE Len(c) < MaxSize
<1>1. c \in Seq(Byte) /\ Len(c) \in Nat
    BY LenProperties DEF InHand
<1>2. CASE Len(c) >= MaxSize
    <2>1. MaxSize \in 1 .. Len(c) /\ CutsAt(c, MaxSize)
        BY <1>1, <1>2, Sizes DEF CutsAt
    <2> QED BY <2>1 DEF InHand, Uncut
<1> QED BY <1>1, <1>2, Sizes

LEMMA CutOffShort == ASSUME NEW c, CutOff(c) PROVE Len(c) \in MinSize .. MaxSize
<1>1. c \in Seq(Byte) /\ Len(c) \in Nat /\ Len(c) >= MinSize
    BY LenProperties DEF CutOff, CutsAt
<1>2. CASE Len(c) > MaxSize
    <2>1. MaxSize \in 1 .. Len(c) - 1 /\ CutsAt(c, MaxSize)
        BY <1>1, <1>2, Sizes DEF CutsAt
    <2> QED BY <2>1 DEF CutOff, Uncut
<1> QED BY <1>1, <1>2, Sizes

LEMMA StartFeeding == NothingFed \in Feeding /\ BytesIn(NothingFed) = <<>>
<1>1. <<>> \in Seq(Byte) /\ <<>> \in Seq(Seq(Byte)) /\ Len(<<>>) = 0
    BY EmptySeq
<1>2. 0 \in Numbers
    BY ModulusType DEF Numbers
<1>3. InHand(<<>>)
    BY <1>1 DEF InHand, Uncut
<1>4. <<>> \o <<>> = <<>>
    BY <1>1, ConcatEmptySeq
<1> QED BY <1>1, <1>2, <1>3, <1>4, EmptyHash, FlattenEmpty DEF Feeding, NothingFed, BytesIn

\* Whether the loop cuts is whether the reference does.
LEMMA CutIsCutsAt ==
    ASSUME NEW c, InHand(c), NEW b \in Byte
    PROVE  LET d == Append(c, b)
               h == (2 * HashOf(c) + Gear[b]) % Modulus
           IN /\ d \in Seq(Byte) /\ Len(d) = Len(c) + 1 /\ d = c \o <<b>>
              /\ h \in Numbers /\ h = HashOf(d) /\ Uncut(d, Len(d) - 1)
              /\ Cut(d, h) <=> CutsAt(d, Len(d))
<1> DEFINE d == Append(c, b)
           h == (2 * HashOf(c) + Gear[b]) % Modulus
<1>1. c \in Seq(Byte) /\ Len(c) \in Nat /\ Len(c) < MaxSize
    BY InHandShort, LenProperties DEF InHand
<1>2. d \in Seq(Byte) /\ Len(d) = Len(c) + 1 /\ d = c \o <<b>>
    BY <1>1, AppendProperties, AppendIsConcat
<1>3. h = HashOf(d) /\ h \in Numbers
    BY <1>1, <1>2, HashAppend
<1>4. \A k \in 1 .. Len(c) : CutsAt(d, k) <=> CutsAt(c, k)
    <2>1. <<b>> \in Seq(Byte)
        OBVIOUS
    <2> DEFINE e == <<b>>
    <2>2. \A k \in 1 .. Len(c) : CutsAt(c \o e, k) <=> CutsAt(c, k)
        <3>1. e \in Seq(Byte) /\ \A k \in 1 .. Len(c) : k \in 0 .. Len(c)
            BY <1>1, <2>1
        <3> HIDE DEF e
        <3> QED BY <1>1, <3>1, CutsAtPrefix
    <2> HIDE DEF d
    <2> QED BY <1>2, <2>2
<1>5. Uncut(d, Len(d) - 1)
    <2>1. Len(d) - 1 = Len(c)
        BY <1>1, <1>2
    <2> QED BY <1>4, <2>1 DEF InHand, Uncut
<1>6. SubSeq(d, 1, Len(d)) = d
    BY <1>2, SubSeqFull
<1> HIDE DEF d, h
<1>7. Cut(d, h) <=> CutsAt(d, Len(d))
    <2>1. Len(d) <= MaxSize /\ Len(d) \in Nat
        BY <1>1, <1>2, Sizes
    <2>2. Len(d) >= MaxSize <=> Len(d) = MaxSize
        BY <2>1, Sizes
    <2>3. Len(d) <= Len(d)
        BY <2>1
    <2> QED BY <1>3, <1>6, <2>2, <2>3 DEF Cut, CutsAt
<1>8. d \in Seq(Byte) /\ Len(d) = Len(c) + 1 /\ d = c \o <<b>>
      /\ h \in Numbers /\ h = HashOf(d) /\ Uncut(d, Len(d) - 1)
      /\ (Cut(d, h) <=> CutsAt(d, Len(d)))
    BY <1>2, <1>3, <1>5, <1>7
<1> QED BY <1>8 DEF d, h

LEMMA FeedByteFacts ==
    ASSUME NEW st \in Feeding, NEW b \in Byte
    PROVE  FeedByte(st, b) \in Feeding /\ BytesIn(FeedByte(st, b)) = BytesIn(st) \o <<b>>
<1> DEFINE d == Append(st.chunk, b)
           h == (2 * st.h + Gear[b]) % Modulus
           F == FlattenSeq(st.refs)
<1>1. /\ st \in [chunk : Seq(Byte), h : Numbers, refs : Seq(Seq(Byte))]
      /\ InHand(st.chunk) /\ st.h = HashOf(st.chunk)
      /\ \A i \in 1 .. Len(st.refs) : CutOff(st.refs[i])
    BY DEF Feeding
<1>2. /\ d \in Seq(Byte) /\ Len(d) = Len(st.chunk) + 1 /\ d = st.chunk \o <<b>>
      /\ h \in Numbers /\ h = HashOf(d) /\ Uncut(d, Len(d) - 1)
      /\ Cut(d, h) <=> CutsAt(d, Len(d))
    BY <1>1, CutIsCutsAt
<1>3. F \in Seq(Byte) /\ st.chunk \in Seq(Byte) /\ <<b>> \in Seq(Byte)
    BY <1>1, FlattenType
<1>4. BytesIn(st) \o <<b>> = F \o d
    <2>1. (F \o st.chunk) \o <<b>> = F \o (st.chunk \o <<b>>)
        <3> DEFINE C == st.chunk
                   e == <<b>>
        <3> HIDE DEF F, C, e
        <3>1. F \in Seq(Byte) /\ C \in Seq(Byte) /\ e \in Seq(Byte)
            BY <1>3 DEF C, e
        <3>2. (F \o C) \o e = F \o (C \o e)
            BY <3>1, ConcatAssociative
        <3> QED BY <3>2 DEF C, e
    <2> HIDE DEF d
    <2> QED BY <1>2, <2>1 DEF BytesIn
<1>5. CASE Cut(d, h)
    <2> DEFINE new == [chunk |-> <<>>, h |-> 0, refs |-> Append(st.refs, d)]
    <2>1. FeedByte(st, b) = new
        BY <1>1, <1>5 DEF FeedByte, Emit
    <2>2. CutOff(d)
        BY <1>2, <1>5 DEF CutOff
    <2>3. /\ Append(st.refs, d) \in Seq(Seq(Byte)) /\ Len(Append(st.refs, d)) = Len(st.refs) + 1
          /\ \A i \in 1 .. Len(st.refs) : Append(st.refs, d)[i] = st.refs[i]
          /\ Append(st.refs, d)[Len(st.refs) + 1] = d /\ Len(st.refs) \in Nat
        BY <1>1, <1>2, AppendProperties, LenProperties
    <2>4. \A i \in 1 .. Len(Append(st.refs, d)) : CutOff(Append(st.refs, d)[i])
        <3> SUFFICES ASSUME NEW i \in 1 .. Len(Append(st.refs, d)) PROVE CutOff(Append(st.refs, d)[i])
            OBVIOUS
        <3>1. i \in 1 .. Len(st.refs) \/ i = Len(st.refs) + 1
            BY <2>3
        <3> QED BY <1>1, <2>2, <2>3, <3>1
    <2>5. InHand(<<>>) /\ 0 = HashOf(<<>>) /\ 0 \in Numbers /\ <<>> \in Seq(Byte)
        BY StartFeeding DEF Feeding, NothingFed
    <2> HIDE DEF d
    <2>6. new \in Feeding
        BY <2>3, <2>4, <2>5 DEF Feeding
    <2>7. BytesIn(new) = FlattenSeq(Append(st.refs, d)) \o <<>>
        BY DEF BytesIn
    <2>8. FlattenSeq(Append(st.refs, d)) = F \o d
        BY <1>1, <1>2, FlattenAppend
    <2>9. (F \o d) \o <<>> = F \o d
        <3>1. F \o d \in Seq(Byte)
            BY <1>2, <1>3, ConcatProperties
        <3> QED BY <3>1, ConcatEmptySeq
    <2> QED BY <1>4, <2>1, <2>6, <2>7, <2>8, <2>9
<1>6. CASE ~Cut(d, h)
    <2> DEFINE new == [chunk |-> d, h |-> h, refs |-> st.refs]
    <2>1. FeedByte(st, b) = new
        BY <1>1, <1>6 DEF FeedByte
    <2>2. InHand(d)
        <3>1. \A k \in 1 .. Len(d) : k \in 1 .. Len(d) - 1 \/ k = Len(d)
            BY <1>2, LenProperties
        <3> QED BY <1>2, <1>6, <3>1 DEF InHand, Uncut
    <2> HIDE DEF d, h
    <2>3. new \in Feeding
        BY <1>1, <1>2, <2>2 DEF Feeding
    <2>4. BytesIn(new) = F \o d
        BY DEF BytesIn
    <2> QED BY <1>4, <2>1, <2>3, <2>4
<1> QED BY <1>5, <1>6

\* The recursion of Feed.
FedOf(s, bytes) == CHOOSE f : f = [i \in 0 .. Len(bytes) |->
                                    IF i = 0 THEN s ELSE FeedByte(f[i - 1], bytes[i])]

LEMMA FedFacts ==
    ASSUME NEW st \in Feeding, NEW a \in Seq(Byte)
    PROVE  /\ FedOf(st, a)[0] = st /\ Feed(st, a) = FedOf(st, a)[Len(a)]
           /\ \A i \in 0 .. Len(a) : FedOf(st, a)[i] \in Feeding
           /\ \A i \in 1 .. Len(a) : FedOf(st, a)[i] = FeedByte(FedOf(st, a)[i - 1], a[i])
<1> DEFINE n == Len(a)
           step == [p \in (1 .. n) \X Feeding |-> FeedByte(p[2], a[p[1]])]
           Body(f) == [i \in 0 .. n |-> IF i = 0 THEN st ELSE FeedByte(f[i - 1], a[i])]
           T == FedOf(st, a)
<1>1. n \in Nat
    BY LenProperties
<1>2. \A i \in 1 .. n : \A v \in Feeding : FeedByte(v, a[i]) \in Feeding
    BY FeedByteFacts, ElementOfSeq
<1>3. \A i \in 1 .. n : \A v \in Feeding : step[<<i, v>>] = FeedByte(v, a[i])
    OBVIOUS
<1>4. step \in [(1 .. n) \X Feeding -> Feeding]
    BY <1>2
<1> HIDE DEF step
<1>5. PICK f : Recurs(f, n, Feeding, st, step)
    BY <1>1, <1>4, RecursionExists
<1>6. f = Body(f)
    <2>1. f \in [0 .. n -> Feeding]
        BY <1>5 DEF Recurs
    <2>2. ASSUME NEW i \in 0 .. n PROVE f[i] = Body(f)[i]
        <3>1. CASE i = 0
            BY <1>5, <3>1 DEF Recurs
        <3>2. CASE i \in 1 .. n
            <4>1. f[i] = step[<<i, f[i - 1]>>] /\ f[i - 1] \in Feeding
                BY <1>5, <3>2 DEF Recurs
            <4>2. f[i] = FeedByte(f[i - 1], a[i])
                BY <1>3, <3>2, <4>1
            <4> QED BY <3>2, <4>2
        <3> QED BY <3>1, <3>2
    <2> QED BY <2>1, <2>2
<1>7. T = CHOOSE g : g = Body(g)
    BY DEF FedOf
<1> HIDE DEF Body, T
<1>8. T = Body(T)
    BY <1>6, <1>7
<1>9. T[0] = st
    BY <1>1, <1>8 DEF Body
<1>10. \A i \in 1 .. n : T[i] = FeedByte(T[i - 1], a[i])
    BY <1>1, <1>8 DEF Body
<1>11. \A i \in 0 .. n : T[i] \in Feeding
    <2> DEFINE Good == {i \in 0 .. n : T[i] \in Feeding}
    <2>1. 0 \in Good
        BY <1>1, <1>9
    <2>2. ASSUME NEW i \in 0 .. n - 1, i \in Good PROVE i + 1 \in Good
        <3>1. i + 1 \in 1 .. n /\ (i + 1) - 1 = i /\ i + 1 \in 0 .. n
            BY <1>1
        <3>2. T[i + 1] = FeedByte(T[i], a[i + 1]) /\ T[i] \in Feeding
            BY <1>10, <2>2, <3>1
        <3>3. T[i + 1] \in Feeding
            BY <1>2, <3>1, <3>2
        <3> QED BY <3>1, <3>3
    <2>3. 0 .. n \subseteq Good
        <3> HIDE DEF Good
        <3> QED BY <1>1, <2>1, <2>2, Induction
    <2> QED BY <2>3
<1>12. Feed(st, a) = T[n]
    BY DEF Feed, FedOf, T
<1> QED BY <1>9, <1>10, <1>11, <1>12 DEF T

\* A sequence and one element more, and its first elements.
LEMMA NextPrefix ==
    ASSUME NEW A, NEW a \in Seq(A), NEW i \in 0 .. Len(a) - 1
    PROVE  /\ SubSeq(a, 1, i) \in Seq(A) /\ <<a[i + 1]>> \in Seq(A) /\ a[i + 1] \in A
           /\ SubSeq(a, 1, i + 1) = SubSeq(a, 1, i) \o <<a[i + 1]>>
           /\ SubSeq(a, 1, i + 1) = Append(SubSeq(a, 1, i), a[i + 1])
<1>1. Len(a) \in Nat /\ i + 1 \in 1 .. Len(a) /\ 1 \in 1 .. Len(a) /\ i \in Int /\ (i + 1) - 1 = i
    BY LenProperties
<1>2. \A j \in 1 .. i : a[j] \in A
    BY <1>1, ElementOfSeq
<1>3. SubSeq(a, 1, i) \in Seq(A)
    BY <1>1, <1>2, SubSeqProperties
<1>4. a[i + 1] \in A
    BY <1>1, ElementOfSeq
<1>5. i + 1 \in 1 .. Len(a) /\ SubSeq(a, 1, i + 1) = SubSeq(a, 1, (i + 1) - 1) \o <<a[i + 1]>>
    BY <1>1, SubSeqRecursiveSecond
<1>6. SubSeq(a, 1, i + 1) = SubSeq(a, 1, i) \o <<a[i + 1]>>
    BY <1>1, <1>5
<1>7. Append(SubSeq(a, 1, i), a[i + 1]) = SubSeq(a, 1, i) \o <<a[i + 1]>>
    BY <1>3, <1>4, AppendIsConcat
<1> QED BY <1>3, <1>4, <1>6, <1>7

\* The loop keeps its invariant, and every byte.
LEMMA FeedFacts ==
    ASSUME NEW st \in Feeding, NEW a \in Seq(Byte)
    PROVE  Feed(st, a) \in Feeding /\ BytesIn(Feed(st, a)) = BytesIn(st) \o a
<1> DEFINE n == Len(a)
           T == FedOf(st, a)
           Good == {i \in 0 .. n : BytesIn(T[i]) = BytesIn(st) \o SubSeq(a, 1, i)}
<1>1. n \in Nat
    BY LenProperties
<1>2. /\ T[0] = st /\ Feed(st, a) = T[n]
      /\ \A i \in 0 .. n : T[i] \in Feeding
      /\ \A i \in 1 .. n : T[i] = FeedByte(T[i - 1], a[i])
    BY FedFacts
<1> HIDE DEF T
<1>3. BytesIn(st) \in Seq(Byte)
    BY FlattenType, ConcatProperties DEF BytesIn, Feeding
<1>4. 0 \in Good
    <2>1. SubSeq(a, 1, 0) = <<>>
        BY SubSeqEmpty
    <2>2. BytesIn(st) \o <<>> = BytesIn(st)
        BY <1>3, ConcatEmptySeq
    <2>3. BytesIn(T[0]) = BytesIn(st) \o SubSeq(a, 1, 0)
        BY <1>2, <2>1, <2>2, Zenon
    <2>4. 0 \in 0 .. n
        BY <1>1
    <2> QED BY <2>3, <2>4
<1>5. ASSUME NEW i \in 0 .. n - 1, i \in Good PROVE i + 1 \in Good
    <2> DEFINE e == <<a[i + 1]>>
               p == SubSeq(a, 1, i)
               B == BytesIn(st)
    <2>1. i + 1 \in 1 .. n /\ (i + 1) - 1 = i /\ i + 1 \in 0 .. n /\ i \in 0 .. n
        BY <1>1
    <2>2. p \in Seq(Byte) /\ e \in Seq(Byte) /\ a[i + 1] \in Byte /\ SubSeq(a, 1, i + 1) = p \o e
        BY NextPrefix
    <2>3. T[i + 1] = FeedByte(T[i], a[i + 1]) /\ T[i] \in Feeding
        BY <1>2, <2>1
    <2>4. BytesIn(T[i + 1]) = BytesIn(T[i]) \o e
        BY <2>2, <2>3, FeedByteFacts
    <2>5. BytesIn(T[i]) = B \o p
        BY <1>5
    <2> HIDE DEF e, p, B
    <2>6. B \in Seq(Byte)
        BY <1>3 DEF B
    <2>7. (B \o p) \o e = B \o (p \o e)
        BY <2>2, <2>6, ConcatAssociative
    <2>8. BytesIn(T[i + 1]) = B \o SubSeq(a, 1, i + 1)
        BY <2>2, <2>4, <2>5, <2>7
    <2> QED BY <2>1, <2>8 DEF B
<1>6. 0 .. n \subseteq Good
    <2> HIDE DEF Good
    <2> QED BY <1>1, <1>4, <1>5, Induction
<1>7. BytesIn(T[n]) = BytesIn(st) \o SubSeq(a, 1, n)
    BY <1>1, <1>6
<1>8. SubSeq(a, 1, n) = a
    BY SubSeqFull
<1> QED BY <1>1, <1>2, <1>7, <1>8

\* One byte more of what is fed is one step more.
LEMMA FeedAppend ==
    ASSUME NEW st \in Feeding, NEW a \in Seq(Byte), NEW b \in Byte
    PROVE  Feed(st, Append(a, b)) = FeedByte(Feed(st, a), b)
<1> DEFINE n == Len(a)
           d == Append(a, b)
           T == FedOf(st, a)
           U == FedOf(st, d)
           Good == {i \in 0 .. n : U[i] = T[i]}
<1>1. /\ n \in Nat /\ d \in Seq(Byte) /\ Len(d) = n + 1 /\ d[n + 1] = b
      /\ \A i \in 1 .. n : d[i] = a[i]
    BY AppendProperties
<1>2. /\ T[0] = st /\ Feed(st, a) = T[n]
      /\ \A i \in 1 .. n : T[i] = FeedByte(T[i - 1], a[i])
    BY FedFacts
<1>3. /\ U[0] = st /\ Feed(st, d) = U[n + 1]
      /\ \A i \in 1 .. n + 1 : U[i] = FeedByte(U[i - 1], d[i])
    <2> HIDE DEF d
    <2> QED BY <1>1, FedFacts
<1> HIDE DEF d, T, U
<1>4. 0 \in Good
    BY <1>1, <1>2, <1>3
<1>5. ASSUME NEW i \in 0 .. n - 1, i \in Good PROVE i + 1 \in Good
    <2>1. i + 1 \in 1 .. n /\ i + 1 \in 1 .. n + 1 /\ (i + 1) - 1 = i /\ i + 1 \in 0 .. n
        BY <1>1
    <2>2. T[i + 1] = FeedByte(T[i], a[i + 1]) /\ U[i + 1] = FeedByte(U[i], d[i + 1])
        BY <1>2, <1>3, <2>1
    <2> QED BY <1>1, <1>5, <2>1, <2>2
<1>6. 0 .. n \subseteq Good
    <2> HIDE DEF Good
    <2> QED BY <1>1, <1>4, <1>5, Induction
<1>7. U[n + 1] = FeedByte(U[n], d[n + 1])
    BY <1>1, <1>3
<1> QED BY <1>1, <1>2, <1>3, <1>6, <1>7 DEF d

\* ForEachChunk: the state after some bytes does not depend on how many of them each
\* read of the reader returned.
THEOREM ReadsDoNotMatter ==
    ASSUME NEW st \in Feeding, NEW a \in Seq(Byte), NEW b \in Seq(Byte)
    PROVE  Feed(Feed(st, a), b) = Feed(st, a \o b)
<1> DEFINE n == Len(b)
           U == FedOf(Feed(st, a), b)
           Good == {i \in 0 .. n : U[i] = Feed(st, a \o SubSeq(b, 1, i))}
<1>1. n \in Nat /\ Feed(st, a) \in Feeding
    BY LenProperties, FeedFacts
<1>2. /\ U[0] = Feed(st, a) /\ Feed(Feed(st, a), b) = U[n]
      /\ \A i \in 1 .. n : U[i] = FeedByte(U[i - 1], b[i])
    BY <1>1, FedFacts
<1> HIDE DEF U
<1>3. 0 \in Good
    <2>1. SubSeq(b, 1, 0) = <<>>
        BY SubSeqEmpty
    <2>2. a \o <<>> = a
        BY ConcatEmptySeq
    <2>3. U[0] = Feed(st, a \o SubSeq(b, 1, 0))
        BY <1>2, <2>1, <2>2, Zenon
    <2>4. 0 \in 0 .. n
        BY <1>1
    <2> QED BY <2>3, <2>4
<1>4. ASSUME NEW i \in 0 .. n - 1, i \in Good PROVE i + 1 \in Good
    <2> DEFINE e == <<b[i + 1]>>
               p == SubSeq(b, 1, i)
    <2>1. i + 1 \in 1 .. n /\ (i + 1) - 1 = i /\ i + 1 \in 0 .. n
        BY <1>1
    <2>2. p \in Seq(Byte) /\ e \in Seq(Byte) /\ b[i + 1] \in Byte /\ SubSeq(b, 1, i + 1) = p \o e
        BY NextPrefix
    <2>3. a \o p \in Seq(Byte) /\ Append(a \o p, b[i + 1]) = (a \o p) \o e
        <3>1. a \o p \in Seq(Byte)
            BY <2>2, ConcatProperties
        <3> QED BY <3>1, <2>2, AppendIsConcat
    <2>4. U[i + 1] = FeedByte(Feed(st, a \o p), b[i + 1])
        BY <1>2, <1>4, <2>1
    <2>5. Feed(st, Append(a \o p, b[i + 1])) = FeedByte(Feed(st, a \o p), b[i + 1])
        BY <2>2, <2>3, FeedAppend
    <2> HIDE DEF e, p
    <2>6. (a \o p) \o e = a \o (p \o e)
        <3>1. a \in Seq(Byte) /\ p \in Seq(Byte) /\ e \in Seq(Byte)
            BY <2>2
        <3> QED BY <3>1, ConcatAssociative
    <2>7. U[i + 1] = Feed(st, a \o SubSeq(b, 1, i + 1))
        BY <2>2, <2>3, <2>4, <2>5, <2>6
    <2> QED BY <2>1, <2>7
<1>5. 0 .. n \subseteq Good
    <2> HIDE DEF Good
    <2> QED BY <1>1, <1>3, <1>4, Induction
<1>6. SubSeq(b, 1, n) = b
    BY SubSeqFull
<1>7. U[n] = Feed(st, a \o SubSeq(b, 1, n))
    BY <1>1, <1>5
<1> QED BY <1>2, <1>6, <1>7

-----------------------------------------------------------------------------
(* What comes out                                                          *)

\* Chunks cut off, and perhaps a rest after them.
WellCut(refs) ==
    /\ refs \in Seq(Seq(Byte))
    /\ \A i \in 1 .. Len(refs) :
          /\ refs[i] # <<>>
          /\ CutOff(refs[i]) \/ (i = Len(refs) /\ InHand(refs[i]))

LEMMA FinishFacts ==
    ASSUME NEW st \in Feeding
    PROVE  WellCut(Finish(st)) /\ FlattenSeq(Finish(st)) = BytesIn(st)
<1> DEFINE n == Len(st.refs)
           d == Append(st.refs, st.chunk)
<1>1. /\ st.chunk \in Seq(Byte) /\ st.refs \in Seq(Seq(Byte)) /\ InHand(st.chunk)
      /\ \A i \in 1 .. n : CutOff(st.refs[i])
    BY DEF Feeding
<1>2. n \in Nat
    BY <1>1, LenProperties
<1>3. \A i \in 1 .. n : st.refs[i] # <<>>
    <2> SUFFICES ASSUME NEW i \in 1 .. n, st.refs[i] = <<>> PROVE FALSE
        OBVIOUS
    <2>1. Len(<<>>) \in MinSize .. MaxSize
        BY <1>1, CutOffShort
    <2> QED BY <2>1, EmptySeq, Sizes
<1>4. CASE st.chunk = <<>>
    <2>1. Finish(st) = st.refs
        BY <1>4 DEF Finish
    <2>2. FlattenSeq(st.refs) \in Seq(Byte)
        BY <1>1, FlattenType
    <2>3. FlattenSeq(st.refs) \o <<>> = FlattenSeq(st.refs)
        BY <2>2, ConcatEmptySeq
    <2> QED BY <1>1, <1>3, <1>4, <2>1, <2>3 DEF WellCut, BytesIn
<1>5. CASE st.chunk # <<>>
    <2>1. Finish(st) = d
        BY <1>5 DEF Finish
    <2>2. /\ d \in Seq(Seq(Byte)) /\ Len(d) = n + 1 /\ d[n + 1] = st.chunk
          /\ \A i \in 1 .. n : d[i] = st.refs[i]
        BY <1>1, AppendProperties
    <2>3. FlattenSeq(d) = BytesIn(st)
        BY <1>1, FlattenAppend DEF BytesIn
    <2> HIDE DEF d
    <2>4. ASSUME NEW i \in 1 .. Len(d)
          PROVE  d[i] # <<>> /\ (CutOff(d[i]) \/ (i = Len(d) /\ InHand(d[i])))
        <3>1. CASE i \in 1 .. n
            BY <1>1, <1>3, <2>2, <3>1
        <3>2. CASE i = n + 1
            BY <1>1, <1>5, <2>2, <3>2
        <3>3. i \in 1 .. n \/ i = n + 1
            BY <1>2, <2>2
        <3> QED BY <3>1, <3>2, <3>3
    <2> QED BY <2>1, <2>2, <2>3, <2>4 DEF WellCut
<1> QED BY <1>4, <1>5

\* What follows a chunk cut off does not move the cut.
LEMMA FirstCutOf ==
    ASSUME NEW c \in Seq(Byte), NEW t \in Seq(Byte), c # <<>>,
           CutOff(c) \/ (t = <<>> /\ InHand(c))
    PROVE  FirstCut(c \o t) = Len(c)
<1> DEFINE s == c \o t
           n == Len(c)
<1>1. n \in Nat \ {0} /\ s \in Seq(Byte) /\ Len(s) = n + Len(t) /\ Len(t) \in Nat
    BY EmptySeq, ConcatProperties, LenProperties
<1>2. \A k \in 0 .. n : CutsAt(s, k) <=> CutsAt(c, k)
    BY CutsAtPrefix
<1> HIDE DEF s
<1>3. CASE CutOff(c)
    <2>1. CutsAt(s, n) /\ \A k \in 1 .. n - 1 : ~CutsAt(s, k)
        BY <1>1, <1>2, <1>3 DEF CutOff, Uncut
    <2>2. n \in 1 .. Len(s)
        BY <1>1
    <2>3. \A m \in 1 .. Len(s) : (CutsAt(s, m) /\ \A k \in 1 .. m - 1 : ~CutsAt(s, k)) => m = n
        <3> SUFFICES ASSUME NEW m \in 1 .. Len(s), CutsAt(s, m),
                            \A k \in 1 .. m - 1 : ~CutsAt(s, k), m # n
                     PROVE  FALSE
            OBVIOUS
        <3>1. n \in 1 .. m - 1 \/ m \in 1 .. n - 1
            BY <1>1, <2>2
        <3> QED BY <2>1, <3>1
    <2>4. (CHOOSE m \in 1 .. Len(s) : CutsAt(s, m) /\ \A k \in 1 .. m - 1 : ~CutsAt(s, k)) = n
        BY <2>1, <2>2, <2>3
    <2> QED BY <2>1, <2>2, <2>4 DEF FirstCut, s
<1>4. CASE t = <<>> /\ InHand(c)
    <2>1. Len(s) = n
        BY <1>1, <1>4, EmptySeq
    <2>2. \A k \in 1 .. Len(s) : ~CutsAt(s, k)
        BY <1>1, <1>2, <1>4, <2>1 DEF InHand, Uncut
    <2>3. FirstCut(s) = n
        BY <2>1, <2>2 DEF FirstCut
    <2> QED BY <2>3 DEF s
<1> QED BY <1>3, <1>4

\* The flattened sequence begins with its flattened first elements.
LEMMA FlattenPrefix ==
    ASSUME NEW A, NEW r \in Seq(Seq(A)), NEW i \in 0 .. Len(r)
    PROVE  \E t \in Seq(A) : /\ FlattenSeq(r) = FlattenSeq(SubSeq(r, 1, i)) \o t
                             /\ i = Len(r) => t = <<>>
<1> DEFINE n == Len(r)
           P(j) == FlattenSeq(SubSeq(r, 1, j))
           Good == {j \in 0 .. n - i : \E t \in Seq(A) : P(i + j) = P(i) \o t /\ (j = 0 => t = <<>>)}
<1>1. n \in Nat /\ n - i \in Nat
    BY LenProperties
<1>2. \A j \in 0 .. n : SubSeq(r, 1, j) \in Seq(Seq(A))
    <2> SUFFICES ASSUME NEW j \in 0 .. n PROVE SubSeq(r, 1, j) \in Seq(Seq(A))
        OBVIOUS
    <2>1. \A k \in 1 .. j : r[k] \in Seq(A)
        BY <1>1, ElementOfSeq
    <2> QED BY <2>1, SubSeqProperties
<1>3. \A j \in 0 .. n : P(j) \in Seq(A)
    BY <1>2, FlattenType
<1>4. 0 \in Good
    <2>1. P(i) \o <<>> = P(i) /\ <<>> \in Seq(A) /\ i + 0 = i
        BY <1>3, ConcatEmptySeq, EmptySeq
    <2> HIDE DEF P
    <2>2. P(i + 0) = P(i) \o <<>>
        BY <2>1
    <2>3. \E t \in Seq(A) : P(i + 0) = P(i) \o t /\ (0 = 0 => t = <<>>)
        BY <2>1, <2>2
    <2>4. 0 \in 0 .. n - i
        BY <1>1
    <2> QED BY <2>3, <2>4
<1>5. ASSUME NEW j \in 0 .. (n - i) - 1, j \in Good PROVE j + 1 \in Good
    <2>1. PICK t \in Seq(A) : P(i + j) = P(i) \o t
        BY <1>5
    <2> DEFINE c == r[(i + j) + 1]
    <2>2. i + j \in 0 .. n - 1 /\ i + j \in 0 .. n /\ j + 1 \in 0 .. n - i /\ j + 1 # 0
          /\ i + (j + 1) = (i + j) + 1
        BY <1>1
    <2>3. c \in Seq(A) /\ SubSeq(r, 1, (i + j) + 1) = Append(SubSeq(r, 1, i + j), c)
        BY <2>2, NextPrefix
    <2>4. P((i + j) + 1) = P(i + j) \o c
        BY <1>2, <2>2, <2>3, FlattenAppend
    <2>5. P(i) \in Seq(A)
        BY <1>3
    <2> HIDE DEF P, c
    <2>6. (P(i) \o t) \o c = P(i) \o (t \o c) /\ t \o c \in Seq(A)
        <3>1. P(i) \in Seq(A) /\ t \in Seq(A) /\ c \in Seq(A)
            BY <2>1, <2>3, <2>5
        <3>2. (P(i) \o t) \o c = P(i) \o (t \o c)
            <4> DEFINE B == P(i)
            <4>1. B \in Seq(A) /\ t \in Seq(A) /\ c \in Seq(A)
                BY <3>1
            <4> HIDE DEF B
            <4>2. (B \o t) \o c = B \o (t \o c)
                BY <4>1, ConcatAssociative
            <4> QED BY <4>2 DEF B
        <3> QED BY <3>1, <3>2, ConcatProperties
    <2>7. P(i + (j + 1)) = P(i) \o (t \o c)
        BY <2>1, <2>2, <2>4, <2>6
    <2> QED BY <2>2, <2>6, <2>7
<1>6. 0 .. n - i \subseteq Good
    <2> HIDE DEF Good
    <2> QED BY <1>1, <1>4, <1>5, Induction
<1>7. n - i \in Good /\ i + (n - i) = n /\ (i = n => n - i = 0)
    <2>1. n - i \in 0 .. n - i /\ i + (n - i) = n /\ (i = n => n - i = 0)
        BY <1>1
    <2> HIDE DEF Good
    <2> QED BY <1>6, <2>1
<1>8. P(n) = FlattenSeq(r)
    BY SubSeqFull
<1> HIDE DEF P
<1>9. PICK t \in Seq(A) : P(n) = P(i) \o t /\ (i = n => t = <<>>)
    BY <1>7
<1> QED BY <1>8, <1>9 DEF P

\* Chunks cut off one after another are the chunking of their concatenation.
LEMMA WellCutIsChunking ==
    ASSUME NEW r, WellCut(r)
    PROVE  IsChunking(r, FlattenSeq(r))
<1> DEFINE s == FlattenSeq(r)
<1>1. r \in Seq(Seq(Byte)) /\ Len(r) \in Nat /\ s \in Seq(Byte)
    BY FlattenType, LenProperties DEF WellCut
<1>2. ASSUME NEW i \in 1 .. Len(r)
      PROVE  Len(r[i]) = FirstCut(SubSeq(s, StartOf(r, i) + 1, Len(s)))
    <2> DEFINE p == FlattenSeq(SubSeq(r, 1, i - 1))
               c == r[i]
    <2>1. i - 1 \in 0 .. Len(r) - 1 /\ (i - 1) + 1 = i /\ i \in 0 .. Len(r)
        BY <1>1
    <2>2. SubSeq(r, 1, i - 1) \in Seq(Seq(Byte)) /\ c \in Seq(Byte)
          /\ SubSeq(r, 1, i) = Append(SubSeq(r, 1, i - 1), c)
        BY <1>1, <2>1, NextPrefix
    <2>3. p \in Seq(Byte) /\ FlattenSeq(SubSeq(r, 1, i)) = p \o c
        BY <2>2, FlattenType, FlattenAppend
    <2>4. PICK t \in Seq(Byte) : s = (p \o c) \o t /\ (i = Len(r) => t = <<>>)
        BY <1>1, <2>1, <2>3, FlattenPrefix
    <2>5. StartOf(r, i) = Len(p)
        BY DEF StartOf
    <2>6. c # <<>> /\ (CutOff(c) \/ (t = <<>> /\ InHand(c)))
        BY <2>4 DEF WellCut
    <2> HIDE DEF p, c, s
    <2>7. s = p \o (c \o t) /\ c \o t \in Seq(Byte)
        BY <2>2, <2>3, <2>4, ConcatAssociative, ConcatProperties
    <2>8. SubSeq(s, Len(p) + 1, Len(s)) = c \o t
        <3> DEFINE u == c \o t
        <3>1. u # <<>> /\ u \in Seq(Byte) /\ s = p \o u
            BY <2>2, <2>6, <2>7, ConcatEqualIffEmpty, ConcatSimplifications
        <3> HIDE DEF u
        <3>2. Len(p) \in Nat /\ Len(u) \in Nat \ {0} /\ Len(s) = Len(p) + Len(u)
            BY <2>3, <3>1, LenProperties, EmptySeq, ConcatProperties
        <3>3. Len(p) + 1 \in Len(p) + 1 .. Len(p) + Len(u)
              /\ Len(p) + Len(u) \in Len(p) + 1 .. Len(p) + Len(u)
              /\ (Len(p) + 1) - Len(p) = 1 /\ (Len(p) + Len(u)) - Len(p) = Len(u)
            BY <3>2
        <3>4. SubSeq(p \o u, Len(p) + 1, Len(p) + Len(u)) = SubSeq(u, 1, Len(u))
            BY <2>3, <3>1, <3>3, SubSeqOfConcat2
        <3>5. SubSeq(u, 1, Len(u)) = u
            BY <3>1, SubSeqFull
        <3> QED BY <3>1, <3>2, <3>4, <3>5 DEF u
    <2>9. FirstCut(c \o t) = Len(c)
        BY <2>2, <2>6, FirstCutOf
    <2> QED BY <2>5, <2>8, <2>9 DEF c
<1> QED BY <1>2 DEF IsChunking

\* Every chunk has at most MaxSize bytes, and all but the last at least MinSize.
LEMMA WellCutSizes ==
    ASSUME NEW r, WellCut(r), NEW i \in 1 .. Len(r)
    PROVE  Len(r[i]) <= MaxSize /\ (i < Len(r) => Len(r[i]) >= MinSize)
<1>1. r[i] \in Seq(Byte) /\ Len(r[i]) \in Nat /\ Len(r) \in Nat
    BY LenProperties, ElementOfSeq DEF WellCut
<1>2. CASE CutOff(r[i])
    BY <1>1, <1>2, CutOffShort, Sizes
<1>3. CASE i = Len(r) /\ InHand(r[i])
    BY <1>1, <1>3, InHandShort, Sizes
<1> QED BY <1>2, <1>3 DEF WellCut

\* ForEachChunk, of any content: the chunks are those of the reference, and together they
\* are the content.
THEOREM ChunkerCorrect ==
    ASSUME NEW c \in Seq(Byte)
    PROVE  /\ IsChunking(Finish(Feed(NothingFed, c)), c)
           /\ \A i \in 1 .. Len(Finish(Feed(NothingFed, c))) :
                 LET n == Len(Finish(Feed(NothingFed, c))[i])
                 IN n <= MaxSize /\ (i < Len(Finish(Feed(NothingFed, c))) => n >= MinSize)
<1> DEFINE st == Feed(NothingFed, c)
           r == Finish(st)
<1>1. st \in Feeding /\ BytesIn(st) = <<>> \o c
    BY StartFeeding, FeedFacts
<1>2. <<>> \o c = c
    BY ConcatEmptySeq
<1> HIDE DEF st
<1>3. WellCut(r) /\ FlattenSeq(r) = c
    BY <1>1, <1>2, FinishFacts
<1> HIDE DEF r
<1>4. IsChunking(r, c)
    BY <1>3, WellCutIsChunking
<1>5. \A i \in 1 .. Len(r) : Len(r[i]) <= MaxSize /\ (i < Len(r) => Len(r[i]) >= MinSize)
    BY <1>3, WellCutSizes
<1> QED BY <1>4, <1>5 DEF r, st

-----------------------------------------------------------------------------
(* The inductive invariant                                                 *)

\* A manifest: chunks well cut, and for a staged put the size of what they hold.
Recs == {r \in [size : Nat, chunks : Seq(Seq(Byte)), method : {"native", "rsync"}] :
            WellCut(r.chunks) /\ (r.method = "rsync" => r.size = Len(Plain(r)))}

\* What may be written at a target: a content, or the contents of some files.
Whole == Seq(Byte) \cup UNION {[some -> Seq(Byte)] : some \in SUBSET File}

World ==
    /\ bounds \in Bounds /\ source \in [File -> Content]
    /\ own \subseteq Target /\ puts \in 0 .. bounds.puts /\ edits \in 0 .. bounds.edits

\* The index names stored chunks, of a content that the history knows.
Indexed ==
    /\ index \in [File -> Recs \cup {NoFile}] /\ saved \in [File -> SUBSET Seq(Byte)]
    /\ \A f \in File : index[f] # NoFile =>
          /\ index[f] \in Recs /\ Range(index[f].chunks) \subseteq objects
          /\ Plain(index[f]) \in saved[f]

Copies == UNION {[some -> Content] : some \in SUBSET File}

PutShape == [pc : {"idle", "staging", "open", "read", "save"}, method : {"native", "rsync"},
             todo : Seq(File), copies : Copies,
             size : Nat, pos : Nat, feed : Feeding, recs : Seq(File \X Recs)]

\* A put: files to read, of which rsync has copied the first ones; what was read of the
\* first of them; the records made.
Putting ==
    /\ put \in PutShape
    /\ put.pc = "idle" => put = NoPut
    /\ put.pc \in {"staging", "open", "read"} => put.todo # <<>>
    /\ put.pc = "save" => put.recs # <<>>
    /\ \A i \in 1 .. Len(put.recs) : Range(put.recs[i][2].chunks) \subseteq objects
    /\ put.pc = "staging" =>
          LET k == Cardinality(DOMAIN put.copies)
          IN /\ put.todo \in Whatever /\ k \in 0 .. Len(put.todo) - 1
             /\ IsFiniteSet(DOMAIN put.copies)
             /\ DOMAIN put.copies = {put.todo[i] : i \in 1 .. k}
    /\ put.method = "rsync" /\ put.pc \in {"open", "read"} =>
          \A i \in 1 .. Len(put.todo) : put.todo[i] \in DOMAIN put.copies
    /\ put.method = "rsync" /\ put.pc = "read" =>
          LET c == put.copies[put.todo[1]]
          IN put.size = Len(c) /\ put.pos <= Len(c) /\ BytesIn(put.feed) = SubSeq(c, 1, put.pos)

\* Targets and Wanted, of the record of a call.
TargetsOf(e) == IF e.order.kind = "zip" THEN {Archive} ELSE DOMAIN e.idx

WantedOf(e, t) ==
    IF t = Archive THEN [f \in DOMAIN e.idx |-> Plain(e.idx[f])] ELSE Plain(e.idx[t])

Active == {"check", "write", "remove", "rename"}

Found == UNION {[some -> Recs] : some \in SUBSET File}
Outs  == UNION {[some -> Whole] : some \in SUBSET Target}

CallShape == [pc : {"idle", "ok", "failed"} \cup Active, order : Order, todo : SUBSET Target,
              idx : Found, tmp : Whole,
              out : Outs, skipped : SUBSET Target]

\* A call: its targets are done, skipped or still to come; what it has written, and what
\* it is about to rename, is what it found in the index.
Calling(e, had) ==
    /\ e \in CallShape
    /\ \A f \in DOMAIN e.idx : Plain(e.idx[f]) \in had[f]
    /\ e.pc = "idle" => e = NotBegun
    /\ e.pc \in {"check", "ok", "failed"} => e.tmp = <<>>
    /\ e.order.dry => e.pc \notin Active /\ e.out = <<>>
    /\ e.todo \subseteq TargetsOf(e) /\ DOMAIN e.out \subseteq TargetsOf(e)
    /\ e.todo \cap DOMAIN e.out = {}
    /\ \A t \in DOMAIN e.out : e.out[t] = WantedOf(e, t)
    /\ e.skipped # {} => e.order.overwrite = "skip"
    /\ e.pc \in Active => e.todo # {}
    /\ e.pc \in Active \cup {"ok"} =>
          TargetsOf(e) \subseteq e.todo \cup DOMAIN e.out \cup e.skipped
    /\ e.pc = "ok" /\ ~e.order.dry => e.todo = {}
    /\ e.pc = "remove" => e.order.overwrite = "replace"
    /\ e.pc = "rename" \/ (e.pc = "remove" /\ e.order.kind = "folder") =>
          e.tmp = WantedOf(e, Current(e))

\* A call that was asked to replace what is at t, and one that has removed it.
Replacing(e, t) ==
    e.pc # "idle" /\ ~e.order.dry /\ t \in TargetsOf(e) /\ e.order.overwrite = "replace"

Removing(e, t) ==
    /\ Replacing(e, t) /\ t \notin DOMAIN e.out
    /\ \/ e.pc = "failed"
       \/ e.pc = "write" /\ e.order.kind = "zip"
       \/ e.pc = "rename" /\ t = Current(e)

Destination ==
    /\ dest \in [Target -> {NoFile, Own} \cup Whole]
    /\ \A f \in File : dest[f] \in {NoFile, Own} \cup saved[f]
    /\ dest[Archive] \notin {NoFile, Own} =>
          \E x \in Exporter : /\ export[x].pc # "idle" /\ ~export[x].order.dry
                              /\ dest[Archive] = WantedOf(export[x], Archive)
    /\ \A t \in own : dest[t] = NoFile => \E x \in Exporter : Removing(export[x], t)
    /\ \A t \in own : dest[t] # Own => \E x \in Exporter : Replacing(export[x], t)
    /\ \A x \in Exporter :
          /\ export[x].pc \in {"write", "rename"} /\ export[x].order.overwrite # "replace"
          /\ Current(export[x]) \in own
          => \E y \in Exporter : Replacing(export[y], Current(export[x]))

Calls == export \in [Exporter -> CallShape] /\ \A x \in Exporter : Calling(export[x], saved)

RTInv == World /\ Indexed /\ Putting /\ Calls /\ Destination

-----------------------------------------------------------------------------
(* The way in                                                              *)

LEMMA FilesFacts ==
    /\ Files \in Seq(File) /\ Files # <<>> /\ Len(Files) \in Nat \ {0} /\ DOMAIN Files = 1 .. Len(Files)
    /\ \A f \in File : \E i \in 1 .. Len(Files) : Files[i] = f
    /\ \A i, j \in 1 .. Len(Files) : Files[i] = Files[j] => i = j
<1>1. Files \in Seq(File) /\ Files # <<>>
    BY RoundTripAssumption
<1>2. Len(Files) \in Nat \ {0} /\ DOMAIN Files = 1 .. Len(Files)
    BY <1>1, LenProperties, EmptySeq
<1>3. \A f \in File : \E i \in 1 .. Len(Files) : Files[i] = f
    BY <1>2 DEF File, Range
<1>4. \A i, j \in 1 .. Len(Files) : Files[i] = Files[j] => i = j
    BY <1>2, RoundTripAssumption DEF IsInjective
<1> QED BY <1>1, <1>2, <1>3, <1>4

LEMMA WhateverFacts ==
    ASSUME NEW files \in Whatever
    PROVE  /\ files \in Seq(File) /\ files # <<>> /\ Len(files) \in Nat \ {0}
           /\ \A i, j \in 1 .. Len(files) : files[i] = files[j] => i = j
<1>1. CASE files = Files
    BY <1>1, FilesFacts
<1>2. CASE \E f \in File : files = <<f>>
    <2>1. PICK f \in File : files = <<f>>
        BY <1>2
    <2>2. files \in Seq(File) /\ Len(files) = 1 /\ files # <<>>
        BY <2>1
    <2> QED BY <2>2
<1> QED BY <1>1, <1>2 DEF Whatever

LEMMA PlainType == ASSUME NEW r \in Recs PROVE Plain(r) \in Seq(Byte)
BY FlattenType DEF Recs, Plain

LEMMA StoredFacts ==
    ASSUME NEW c \in Seq(Byte) PROVE Stored(c) \in Recs /\ Plain(Stored(c)) = c
<1> DEFINE st == Feed(NothingFed, c)
           r == Finish(st)
<1>1. st \in Feeding /\ BytesIn(st) = <<>> \o c
    BY StartFeeding, FeedFacts
<1>2. <<>> \o c = c
    BY ConcatEmptySeq
<1> HIDE DEF st
<1>3. WellCut(r) /\ FlattenSeq(r) = c
    BY <1>1, <1>2, FinishFacts
<1>4. r \in Seq(Seq(Byte)) /\ Len(c) \in Nat
    BY <1>3, LenProperties DEF WellCut
<1>5. Stored(c) = [size |-> Len(c), chunks |-> r, method |-> "native"]
    BY DEF Stored, st
<1> HIDE DEF r
<1> QED BY <1>3, <1>4, <1>5 DEF Recs, Plain

LEMMA NoPutShape == NoPut \in PutShape /\ Len(<<>>) = 0
<1>1. <<>> \in Seq(File) /\ <<>> \in Seq(File \X Recs) /\ Len(<<>>) = 0
    BY EmptySeq
<1>2. <<>> \in Copies
    <2>1. <<>> \in [{} -> Content]
        OBVIOUS
    <2> QED BY <2>1 DEF Copies
<1> QED BY <1>1, <1>2, StartFeeding DEF NoPut, PutShape

LEMMA NothingPut == put' = NoPut => Putting'
<1> SUFFICES ASSUME put' = NoPut PROVE Putting'
    OBVIOUS
<1>1. put'.pc = "idle" /\ put'.recs = <<>>
    BY DEF NoPut
<1>2. \A i \in 1 .. Len(put'.recs) : Range(put'.recs[i][2].chunks) \subseteq objects'
    BY <1>1, NoPutShape
<1> QED BY <1>1, <1>2, NoPutShape DEF Putting

\* What the file in hand holds.
LEMMA GivenType ==
    ASSUME World, Putting, put.pc \in {"open", "read"}
    PROVE  /\ put.todo[1] \in File /\ Given(put.todo[1]) \in Seq(Byte)
           /\ Len(Given(put.todo[1])) \in Nat /\ Len(put.todo) \in Nat \ {0}
           /\ put.method = "rsync" => put.todo[1] \in DOMAIN put.copies
<1>1. put.todo \in Seq(File) /\ put.todo # <<>>
    BY DEF Putting, PutShape
<1>2. Len(put.todo) \in Nat \ {0} /\ 1 \in 1 .. Len(put.todo)
    BY <1>1, EmptySeq
<1>3. put.todo[1] \in File
    BY <1>1, <1>2, ElementOfSeq
<1>4. put.method = "rsync" => put.todo[1] \in DOMAIN put.copies
    BY <1>2 DEF Putting
<1>5. PICK some \in SUBSET File : put.copies \in [some -> Content]
    BY DEF Putting, PutShape, Copies
<1>6. Given(put.todo[1]) \in Content
    BY <1>3, <1>4, <1>5 DEF Given, World
<1>7. Given(put.todo[1]) \in Seq(Byte)
    BY <1>6, RoundTripAssumption
<1> QED BY <1>2, <1>3, <1>4, <1>7, LenProperties

\* The way in leaves the way out alone, and only adds to the history.
LEMMA CallsFrame ==
    ASSUME Calls, Destination, UNCHANGED <<export, dest, own>>, saved \in [File -> SUBSET Seq(Byte)],
           \A f \in File : saved[f] \subseteq saved'[f]
    PROVE  Calls' /\ Destination'
<1>1. ASSUME NEW e, Calling(e, saved) PROVE Calling(e, saved')
    <2>1. \A f \in DOMAIN e.idx : f \in File
        BY <1>1 DEF Calling, CallShape, Found
    <2>2. \A f \in DOMAIN e.idx : Plain(e.idx[f]) \in saved'[f]
        BY <1>1, <2>1 DEF Calling
    <2> QED BY <1>1, <2>2 DEF Calling
<1>2. Calls'
    BY <1>1 DEF Calls
<1>3. Destination'
    BY DEF Destination
<1> QED BY <1>2, <1>3

LEMMA EditCase ==
    ASSUME RTInv, NEW f \in File, NEW c \in Content, Edit(f, c)
    PROVE  RTInv'
<1> USE DEF Edit
<1>1. World'
    <2>1. bounds.edits \in Nat
        BY RoundTripAssumption DEF RTInv, World
    <2> QED BY <2>1 DEF RTInv, World
<1>2. Indexed' /\ Putting'
    BY DEF RTInv, Indexed, Putting
<1>3. Calls' /\ Destination'
    BY CallsFrame DEF RTInv, Indexed
<1> QED BY <1>1, <1>2, <1>3 DEF RTInv

LEMMA BeginPutCase ==
    ASSUME RTInv, NEW method \in Method, NEW found \in SUBSET Runtime, NEW files \in Whatever,
           BeginPut(Way(method, found), files)
    PROVE  RTInv'
<1> DEFINE way == Way(method, found)
<1>1. way \in {"native", "rsync"}
    BY DEF Way, BeginPut
<1>2. World' /\ Indexed'
    <2>1. bounds.puts \in Nat
        BY RoundTripAssumption DEF RTInv, World
    <2> QED BY <2>1 DEF RTInv, World, Indexed, BeginPut
<1>3. Calls' /\ Destination'
    BY CallsFrame DEF RTInv, Indexed, BeginPut
<1>4. put' = [NoPut EXCEPT !.pc = IF way = "rsync" THEN "staging" ELSE "open",
                           !.method = way, !.todo = files]
    BY DEF BeginPut
<1> HIDE DEF way
<1>5. put' \in PutShape
    BY <1>1, <1>4, NoPutShape, WhateverFacts DEF PutShape
<1>6. /\ put'.pc \in {"staging", "open"} /\ put'.method = way /\ put'.todo = files
      /\ put'.copies = <<>> /\ put'.recs = <<>> /\ (way = "rsync" => put'.pc = "staging")
    BY <1>1, <1>4 DEF NoPut
<1>7. DOMAIN <<>> = {} /\ Cardinality({}) = 0 /\ IsFiniteSet({})
    BY FS_EmptySet
<1>8. put'.pc = "staging" =>
          LET k == Cardinality(DOMAIN put'.copies)
          IN /\ put'.todo \in Whatever /\ k \in 0 .. Len(put'.todo) - 1
             /\ IsFiniteSet(DOMAIN put'.copies)
             /\ DOMAIN put'.copies = {put'.todo[i] : i \in 1 .. k}
    <2>1. {files[i] : i \in 1 .. 0} = {} /\ 0 \in 0 .. Len(files) - 1
        BY WhateverFacts
    <2> QED BY <1>6, <1>7, <2>1
<1>9. \A i \in 1 .. Len(put'.recs) : Range(put'.recs[i][2].chunks) \subseteq objects'
    BY <1>6, NoPutShape
<1>10. Putting'
    BY <1>5, <1>6, <1>8, <1>9, WhateverFacts DEF Putting
<1> QED BY <1>2, <1>3, <1>10 DEF RTInv

LEMMA StageCase ==
    ASSUME RTInv, Stage PROVE RTInv'
<1> DEFINE k == Cardinality(DOMAIN put.copies)
           f == put.todo[k + 1]
           copies == With(put.copies, f, source[f])
<1>1. World' /\ Indexed'
    BY DEF RTInv, World, Indexed, Stage
<1>2. Calls' /\ Destination'
    BY CallsFrame DEF RTInv, Indexed, Stage
<1>3. /\ put.pc = "staging" /\ put \in PutShape /\ put.todo # <<>> /\ put.todo \in Whatever
      /\ k \in 0 .. Len(put.todo) - 1 /\ IsFiniteSet(DOMAIN put.copies)
      /\ DOMAIN put.copies = {put.todo[i] : i \in 1 .. k}
      /\ \A i \in 1 .. Len(put.recs) : Range(put.recs[i][2].chunks) \subseteq objects
    BY DEF RTInv, Putting, Stage
<1>4. put' = [put EXCEPT !.copies = copies,
                         !.pc = IF Cardinality(DOMAIN copies) = Len(put.todo)
                                THEN "open" ELSE "staging"]
    BY DEF Stage
<1>5. /\ put.todo \in Seq(File) /\ Len(put.todo) \in Nat \ {0}
      /\ \A i, j \in 1 .. Len(put.todo) : put.todo[i] = put.todo[j] => i = j
    BY <1>3, WhateverFacts
<1>6. k + 1 \in 1 .. Len(put.todo) /\ f \in File
    <2>1. k + 1 \in 1 .. Len(put.todo)
        BY <1>3, <1>5
    <2> QED BY <2>1, <1>5, ElementOfSeq
<1>7. PICK some \in SUBSET File : put.copies \in [some -> Content]
    BY <1>3 DEF PutShape, Copies
<1>8. source[f] \in Content
    BY <1>6 DEF RTInv, World
<1>9. copies \in [some \cup {f} -> Content] /\ DOMAIN copies = DOMAIN put.copies \cup {f}
    BY <1>7, <1>8 DEF With
<1>10. f \notin DOMAIN put.copies
    BY <1>3, <1>5, <1>6
<1>11. IsFiniteSet(DOMAIN copies) /\ Cardinality(DOMAIN copies) = k + 1
    BY <1>3, <1>9, <1>10, FS_AddElement
<1>12. DOMAIN copies = {put.todo[i] : i \in 1 .. k + 1}
    <2>1. k \in Nat /\ 1 .. k + 1 = (1 .. k) \cup {k + 1}
        BY <1>3, <1>5
    <2>2. {put.todo[i] : i \in 1 .. k + 1} = {put.todo[i] : i \in 1 .. k} \cup {f}
        BY <2>1
    <2> QED BY <1>3, <1>9, <2>2
<1>13. copies \in Copies
    BY <1>6, <1>9 DEF Copies
<1> HIDE DEF copies, k, f
<1>14. put' \in PutShape
    BY <1>3, <1>4, <1>13 DEF PutShape
<1>15. /\ put'.pc = IF k + 1 = Len(put.todo) THEN "open" ELSE "staging"
       /\ put'.method = put.method /\ put'.todo = put.todo /\ put'.copies = copies
       /\ put'.recs = put.recs
    BY <1>3, <1>4, <1>11 DEF PutShape
<1>16. put'.pc = "staging" => k + 1 \in 0 .. Len(put.todo) - 1
    BY <1>3, <1>5, <1>6, <1>15
<1>17. put'.pc = "open" => \A i \in 1 .. Len(put.todo) : put.todo[i] \in DOMAIN copies
    BY <1>12, <1>15
<1>18. objects' = objects /\ put'.pc \in {"open", "staging"}
    BY <1>15 DEF Stage
<1>19. Putting'
    BY <1>3, <1>11, <1>12, <1>14, <1>15, <1>16, <1>17, <1>18 DEF Putting
<1> QED BY <1>1, <1>2, <1>19 DEF RTInv

LEMMA OpenFileCase ==
    ASSUME RTInv, OpenFile PROVE RTInv'
<1>1. World' /\ Indexed'
    BY DEF RTInv, World, Indexed, OpenFile
<1>2. Calls' /\ Destination'
    BY CallsFrame DEF RTInv, Indexed, OpenFile
<1> DEFINE c == Given(put.todo[1])
<1>3. /\ put.pc = "open" /\ put \in PutShape /\ put.todo # <<>>
      /\ \A i \in 1 .. Len(put.recs) : Range(put.recs[i][2].chunks) \subseteq objects
      /\ put.method = "rsync" => \A i \in 1 .. Len(put.todo) : put.todo[i] \in DOMAIN put.copies
    BY DEF RTInv, Putting, OpenFile
<1>4. put' = [put EXCEPT !.pc = "read", !.pos = 0, !.feed = NothingFed, !.size = Len(c)]
    BY DEF OpenFile
<1>5. c \in Seq(Byte) /\ Len(c) \in Nat /\ (put.method = "rsync" => c = put.copies[put.todo[1]])
    BY <1>3, GivenType DEF RTInv, Given
<1>6. NothingFed \in Feeding /\ BytesIn(NothingFed) = SubSeq(c, 1, 0) /\ 0 <= Len(c)
    BY <1>5, StartFeeding, SubSeqEmpty
<1> HIDE DEF c
<1>7. put' \in PutShape
    BY <1>3, <1>4, <1>5, <1>6 DEF PutShape
<1>8. /\ put'.pc = "read" /\ put'.method = put.method /\ put'.todo = put.todo
      /\ put'.copies = put.copies /\ put'.recs = put.recs /\ put'.size = Len(c)
      /\ put'.pos = 0 /\ put'.feed = NothingFed /\ objects' = objects
    BY <1>3, <1>4 DEF PutShape, OpenFile
<1>9. Putting'
    BY <1>3, <1>5, <1>6, <1>7, <1>8 DEF Putting
<1> QED BY <1>1, <1>2, <1>9 DEF RTInv

\* More chunks are stored.
LEMMA StoreFrame ==
    ASSUME RTInv, objects \subseteq objects',
           UNCHANGED <<bounds, source, index, export, dest, puts, edits, saved, own>>
    PROVE  /\ World' /\ Indexed' /\ Calls' /\ Destination'
           /\ \A i \in 1 .. Len(put.recs) : Range(put.recs[i][2].chunks) \subseteq objects'
<1>1. World' /\ Indexed'
    BY DEF RTInv, World, Indexed
<1>2. Calls' /\ Destination'
    BY CallsFrame DEF RTInv, Indexed
<1>3. \A i \in 1 .. Len(put.recs) : Range(put.recs[i][2].chunks) \subseteq objects'
    BY DEF RTInv, Putting
<1> QED BY <1>1, <1>2, <1>3

LEMMA ReadCase ==
    ASSUME RTInv, Read PROVE RTInv'
<1> DEFINE c == Given(put.todo[1])
<1>1. /\ put.pc = "read" /\ put \in PutShape /\ put.todo # <<>>
      /\ put.method = "rsync" => \A i \in 1 .. Len(put.todo) : put.todo[i] \in DOMAIN put.copies
      /\ put.method = "rsync" => /\ put.size = Len(put.copies[put.todo[1]])
                                 /\ put.pos <= Len(put.copies[put.todo[1]])
                                 /\ BytesIn(put.feed) = SubSeq(put.copies[put.todo[1]], 1, put.pos)
    BY DEF RTInv, Putting, Read
<1>2. c \in Seq(Byte) /\ Len(c) \in Nat /\ (put.method = "rsync" => c = put.copies[put.todo[1]])
    BY <1>1, GivenType DEF RTInv, Given
<1>3. PICK n \in put.pos + 1 .. Len(c) :
          /\ put' = [put EXCEPT !.pos = n, !.feed = Feed(put.feed, SubSeq(c, put.pos + 1, n))]
          /\ objects' = objects \cup Range(Feed(put.feed, SubSeq(c, put.pos + 1, n)).refs)
    BY DEF Read
<1> DEFINE a == SubSeq(c, put.pos + 1, n)
           feed == Feed(put.feed, a)
<1>4. put.pos \in Nat /\ put.feed \in Feeding
    BY <1>1 DEF PutShape
<1>5. a \in Seq(Byte)
    <2>1. \A i \in put.pos + 1 .. n : c[i] \in Byte
        BY <1>2, <1>4, ElementOfSeq
    <2>2. put.pos + 1 \in Int /\ n \in Int
        BY <1>2, <1>4
    <2> QED BY <2>1, <2>2, SubSeqProperties
<1>6. feed \in Feeding /\ BytesIn(feed) = BytesIn(put.feed) \o a
    BY <1>4, <1>5, FeedFacts
<1>7. SubSeq(c, 1, put.pos) \o a = SubSeq(c, 1, n)
    <2>1. /\ 1 \in 1 .. Len(c) + 1 /\ put.pos \in 1 - 1 .. Len(c) /\ n \in put.pos .. Len(c)
        BY <1>2, <1>4
    <2> QED BY <1>2, <2>1, ConcatAdjacentSubSeq
<1>8. n \in Nat /\ n <= Len(c)
    BY <1>2, <1>4
<1> HIDE DEF a, feed, c
<1>9. put' = [put EXCEPT !.pos = n, !.feed = feed] /\ objects \subseteq objects'
    BY <1>3 DEF a, feed
<1>10. put' \in PutShape
    BY <1>1, <1>6, <1>8, <1>9 DEF PutShape
<1>11. /\ put'.pc = "read" /\ put'.method = put.method /\ put'.todo = put.todo
       /\ put'.copies = put.copies /\ put'.recs = put.recs /\ put'.size = put.size
       /\ put'.pos = n /\ put'.feed = feed
    BY <1>1, <1>9 DEF PutShape
<1>12. /\ World' /\ Indexed' /\ Calls' /\ Destination'
       /\ \A i \in 1 .. Len(put.recs) : Range(put.recs[i][2].chunks) \subseteq objects'
    BY <1>9, StoreFrame DEF Read
<1>13. put'.method = "rsync" => BytesIn(feed) = SubSeq(put.copies[put.todo[1]], 1, n)
    BY <1>1, <1>2, <1>6, <1>7, <1>11
<1>14. put'.method = "rsync" => LET d == put'.copies[put'.todo[1]]
                                IN /\ put'.size = Len(d) /\ put'.pos <= Len(d)
                                   /\ BytesIn(put'.feed) = SubSeq(d, 1, put'.pos)
    BY <1>1, <1>2, <1>8, <1>11, <1>13
<1>15. put'.method = "rsync" => \A i \in 1 .. Len(put'.todo) : put'.todo[i] \in DOMAIN put'.copies
    BY <1>1, <1>11
<1>16. put'.todo # <<>> /\ put'.pc = "read"
       /\ \A i \in 1 .. Len(put'.recs) : Range(put'.recs[i][2].chunks) \subseteq objects'
    BY <1>1, <1>11, <1>12
<1>17. Putting'
    BY <1>10, <1>14, <1>15, <1>16 DEF Putting
<1> QED BY <1>12, <1>17 DEF RTInv

LEMMA EndOfFileCase ==
    ASSUME RTInv, EndOfFile PROVE RTInv'
<1> DEFINE c == Given(put.todo[1])
           refs == Finish(put.feed)
           rec  == [size |-> put.size, chunks |-> refs, method |-> put.method]
           rest == Tail(put.todo)
           recs == Append(put.recs, <<put.todo[1], rec>>)
<1>1. /\ put.pc = "read" /\ put.pos >= Len(c) /\ put \in PutShape /\ put.todo # <<>>
      /\ put.method = "rsync" => \A i \in 1 .. Len(put.todo) : put.todo[i] \in DOMAIN put.copies
      /\ put.method = "rsync" => /\ put.size = Len(put.copies[put.todo[1]])
                                 /\ put.pos <= Len(put.copies[put.todo[1]])
                                 /\ BytesIn(put.feed) = SubSeq(put.copies[put.todo[1]], 1, put.pos)
    BY DEF RTInv, Putting, EndOfFile
<1>2. /\ c \in Seq(Byte) /\ Len(c) \in Nat /\ put.todo[1] \in File
      /\ put.method = "rsync" => c = put.copies[put.todo[1]]
    BY <1>1, GivenType DEF RTInv, Given
<1>3. /\ put' = [put EXCEPT !.pc = IF rest = <<>> THEN "save" ELSE "open",
                            !.todo = rest, !.recs = recs]
      /\ objects' = objects \cup Range(refs)
    BY DEF EndOfFile
<1>4. /\ put.pos \in Nat /\ put.feed \in Feeding /\ put.size \in Nat /\ put.method \in {"native", "rsync"}
      /\ put.todo \in Seq(File) /\ put.recs \in Seq(File \X Recs)
    BY <1>1 DEF PutShape
<1>5. WellCut(refs) /\ FlattenSeq(refs) = BytesIn(put.feed)
    BY <1>4, FinishFacts
<1>6. put.method = "rsync" => put.size = Len(FlattenSeq(refs))
    <2>1. put.method = "rsync" => put.pos = Len(c)
        BY <1>1, <1>2, <1>4
    <2>2. SubSeq(c, 1, Len(c)) = c
        BY <1>2, SubSeqFull
    <2> QED BY <1>1, <1>2, <1>5, <2>1, <2>2
<1> HIDE DEF refs, c
<1>7. rec \in Recs /\ rec.chunks = refs
    <2>1. refs \in Seq(Seq(Byte))
        BY <1>5 DEF WellCut
    <2> QED BY <1>4, <1>5, <1>6, <2>1 DEF Recs, Plain
<1> HIDE DEF rec
<1>8. /\ recs \in Seq(File \X Recs) /\ recs # <<>> /\ Len(recs) = Len(put.recs) + 1
      /\ \A i \in 1 .. Len(put.recs) : recs[i] = put.recs[i]
      /\ recs[Len(put.recs) + 1] = <<put.todo[1], rec>> /\ Len(put.recs) \in Nat
    <2>1. <<put.todo[1], rec>> \in File \X Recs
        BY <1>2, <1>7
    <2> DEFINE new == <<put.todo[1], rec>>
    <2> HIDE DEF new
    <2>2. recs = Append(put.recs, new) /\ new \in File \X Recs
        BY <2>1 DEF new
    <2>3. new = <<put.todo[1], rec>>
        BY DEF new
    <2> QED BY <1>4, <2>2, <2>3, AppendProperties, LenProperties
<1>9. /\ rest \in Seq(File) /\ Len(rest) = Len(put.todo) - 1 /\ Len(put.todo) \in Nat
      /\ \A i \in 1 .. Len(rest) : rest[i] = put.todo[i + 1]
    BY <1>1, <1>4, HeadTailProperties, LenProperties
<1> HIDE DEF recs, rest
<1>10. put' \in PutShape
    BY <1>1, <1>3, <1>8, <1>9 DEF PutShape
<1>11. /\ put'.pc = IF rest = <<>> THEN "save" ELSE "open"
       /\ put'.method = put.method /\ put'.todo = rest /\ put'.copies = put.copies
       /\ put'.recs = recs
    BY <1>1, <1>3 DEF PutShape
<1>12. /\ World' /\ Indexed' /\ Calls' /\ Destination'
       /\ \A i \in 1 .. Len(put.recs) : Range(put.recs[i][2].chunks) \subseteq objects'
    <2>1. objects \subseteq objects'
        BY <1>3
    <2> QED BY <2>1, StoreFrame DEF EndOfFile
<1>13. \A i \in 1 .. Len(recs) : Range(recs[i][2].chunks) \subseteq objects'
    <2> SUFFICES ASSUME NEW i \in 1 .. Len(recs) PROVE Range(recs[i][2].chunks) \subseteq objects'
        OBVIOUS
    <2>1. CASE i \in 1 .. Len(put.recs)
        BY <1>8, <1>12, <2>1
    <2>2. CASE i = Len(put.recs) + 1
        <3>1. recs[i][2] = rec
            BY <1>8, <2>2
        <3> QED BY <1>3, <1>7, <3>1
    <2> QED BY <1>8, <2>1, <2>2
<1>14. put.method = "rsync" => \A i \in 1 .. Len(rest) : rest[i] \in DOMAIN put.copies
    <2>1. \A i \in 1 .. Len(rest) : i + 1 \in 1 .. Len(put.todo)
        BY <1>9
    <2> QED BY <1>1, <1>9, <2>1
<1>15. /\ put'.pc \in {"save", "open"} /\ (put'.pc = "save" => put'.recs # <<>>)
       /\ put'.pc = "open" => put'.todo # <<>>
    BY <1>8, <1>11
<1>16. Putting'
    BY <1>10, <1>11, <1>13, <1>14, <1>15 DEF Putting
<1> QED BY <1>12, <1>16 DEF RTInv

LEMMA SaveFileManifestCase ==
    ASSUME RTInv, SaveFileManifest PROVE RTInv'
<1> DEFINE f == Head(put.recs)[1]
           rec == Head(put.recs)[2]
           rest == Tail(put.recs)
<1>1. /\ put.pc = "save" /\ put \in PutShape /\ put.recs # <<>>
      /\ put.recs \in Seq(File \X Recs)
      /\ \A i \in 1 .. Len(put.recs) : Range(put.recs[i][2].chunks) \subseteq objects
    BY DEF RTInv, Putting, PutShape, SaveFileManifest
<1>2. /\ Head(put.recs) \in File \X Recs /\ Head(put.recs) = put.recs[1]
      /\ rest \in Seq(File \X Recs) /\ Len(put.recs) \in Nat \ {0} /\ Len(rest) = Len(put.recs) - 1
      /\ \A i \in 1 .. Len(rest) : rest[i] = put.recs[i + 1]
    BY <1>1, HeadTailProperties, LenProperties, EmptySeq
<1>3. f \in File /\ rec \in Recs
    BY <1>2
<1>4. Range(rec.chunks) \subseteq objects
    BY <1>1, <1>2
<1>5. Plain(rec) \in Seq(Byte)
    BY <1>3, PlainType
<1>6. /\ index' = [index EXCEPT ![f] = rec]
      /\ saved' = [saved EXCEPT ![f] = @ \cup {Plain(rec)}]
      /\ put' = IF rest = <<>> THEN NoPut ELSE [put EXCEPT !.recs = rest]
      /\ UNCHANGED <<bounds, source, objects, export, dest, puts, edits, own>>
    BY DEF SaveFileManifest
<1> HIDE DEF f, rec, rest
<1>7. World'
    BY <1>6 DEF RTInv, World
<1>8. \A g \in File : saved[g] \subseteq saved'[g]
    BY <1>6 DEF RTInv, Indexed
<1>9. Indexed'
    <2>1. index' \in [File -> Recs \cup {NoFile}] /\ saved' \in [File -> SUBSET Seq(Byte)]
        BY <1>3, <1>5, <1>6 DEF RTInv, Indexed
    <2>2. ASSUME NEW g \in File, index'[g] # NoFile
          PROVE  /\ index'[g] \in Recs /\ Range(index'[g].chunks) \subseteq objects'
                 /\ Plain(index'[g]) \in saved'[g]
        <3>1. CASE g = f
            <4>1. index'[g] = rec /\ Plain(rec) \in saved'[g] /\ objects' = objects
                BY <1>3, <1>6, <3>1 DEF RTInv, Indexed
            <4> QED BY <1>3, <1>4, <4>1
        <3>2. CASE g # f
            <4>1. index'[g] = index[g] /\ objects' = objects
                BY <1>3, <1>6, <3>2 DEF RTInv, Indexed
            <4> QED BY <1>8, <2>2, <4>1 DEF RTInv, Indexed
        <3> QED BY <3>1, <3>2
    <2> QED BY <2>1, <2>2 DEF Indexed
<1>10. Calls' /\ Destination'
    BY <1>6, <1>8, CallsFrame DEF RTInv, Indexed
<1>11. Putting'
    <2>1. CASE rest = <<>>
        BY <1>6, <2>1, NothingPut
    <2>2. CASE rest # <<>>
        <3>1. put' = [put EXCEPT !.recs = rest]
            BY <1>6, <2>2
        <3>2. put' \in PutShape
            BY <1>1, <1>2, <3>1 DEF PutShape
        <3>3. put'.pc = "save" /\ put'.recs = rest /\ objects' = objects
            BY <1>1, <1>6, <3>1 DEF PutShape
        <3>4. \A i \in 1 .. Len(rest) : Range(rest[i][2].chunks) \subseteq objects
            <4>1. \A i \in 1 .. Len(rest) : i + 1 \in 1 .. Len(put.recs)
                BY <1>2
            <4> QED BY <1>1, <1>2, <4>1
        <3> QED BY <2>2, <3>2, <3>3, <3>4 DEF Putting
    <2> QED BY <2>1, <2>2
<1> QED BY <1>7, <1>9, <1>10, <1>11 DEF RTInv

LEMMA FailPutCase ==
    ASSUME RTInv, FailPut PROVE RTInv'
<1>1. World' /\ Indexed'
    BY DEF RTInv, World, Indexed, FailPut
<1>2. Calls' /\ Destination'
    BY CallsFrame DEF RTInv, Indexed, FailPut
<1> QED BY <1>1, <1>2, NothingPut DEF RTInv, FailPut

LEMMA RemovePathCase ==
    ASSUME RTInv, NEW f \in File, RemovePath(f) PROVE RTInv'
<1>1. World'
    BY DEF RTInv, World, RemovePath
<1>2. Indexed'
    BY DEF RTInv, Indexed, RemovePath
<1>3. Calls' /\ Destination'
    BY CallsFrame DEF RTInv, Indexed, RemovePath
<1>4. put' = NoPut
    BY DEF RTInv, Putting, RemovePath
<1> QED BY <1>1, <1>2, <1>3, <1>4, NothingPut DEF RTInv

LEMMA GarbageCollectCase ==
    ASSUME RTInv, GarbageCollect PROVE RTInv'
<1>1. World'
    BY DEF RTInv, World, GarbageCollect
<1>2. \A f \in File : index[f] # NoFile => Range(index[f].chunks) \subseteq objects'
    BY DEF GarbageCollect, Referenced
<1>3. Indexed'
    BY <1>2 DEF RTInv, Indexed, GarbageCollect
<1>4. Calls' /\ Destination'
    BY CallsFrame DEF RTInv, Indexed, GarbageCollect
<1>5. put' = NoPut
    BY DEF RTInv, Putting, GarbageCollect
<1> QED BY <1>1, <1>3, <1>4, <1>5, NothingPut DEF RTInv

-----------------------------------------------------------------------------
(* The way out                                                             *)

\* No content of a file or an archive is one of the two marks.
LEMMA WholeFacts == NoFile \notin Whole /\ Own \notin Whole /\ NoFile # Own /\ Archive \notin File
BY RoundTripAssumption DEF Whole

LEMMA PlaceFacts ==
    ASSUME NEW t \in Target
    PROVE  Place(t) \in Nat
<1>1. CASE t = Archive
    BY <1>1 DEF Place
<1>2. CASE t # Archive
    <2>1. t \in File
        BY <1>2 DEF Target
    <2>2. \E i \in DOMAIN Files : Files[i] = t
        BY <2>1, FilesFacts
    <2>3. (CHOOSE i \in DOMAIN Files : Files[i] = t) \in DOMAIN Files
        BY <2>2
    <2> QED BY <1>2, <2>3, FilesFacts DEF Place
<1> QED BY <1>1, <1>2

\* There is a next target as long as any is to come.
LEMMA CurrentFacts ==
    ASSUME NEW e, e.todo \subseteq Target, e.todo # {}
    PROVE  Current(e) \in e.todo
<1> DEFINE T == {Place(t) : t \in e.todo}
<1>1. T \in SUBSET Nat /\ T # {}
    BY PlaceFacts
<1>2. PICK m \in T : \A k \in T : m <= k
    BY <1>1, Least
<1>3. PICK t \in e.todo : Place(t) = m
    BY <1>2
<1>4. \A u \in e.todo : Place(t) <= Place(u)
    BY <1>2, <1>3
<1> QED BY <1>3, <1>4 DEF Current

LEMMA CurrentOfTodo ==
    ASSUME NEW e, NEW e2, e2.todo = e.todo PROVE Current(e2) = Current(e)
BY DEF Current

\* What a call of a shape finds, wants and has.
LEMMA CallFacts ==
    ASSUME NEW e, NEW had, Calling(e, had)
    PROVE  /\ e \in CallShape /\ DOMAIN e.idx \subseteq File /\ e.idx \in [DOMAIN e.idx -> Recs]
           /\ e.out \in [DOMAIN e.out -> Whole] /\ TargetsOf(e) \subseteq Target
           /\ \A t \in TargetsOf(e) : WantedOf(e, t) \in Whole
           /\ \A t \in TargetsOf(e) : t \in File => WantedOf(e, t) \in had[t]
           /\ e.pc \in Active => Current(e) \in e.todo
<1>1. e \in CallShape
    BY DEF Calling
<1>2. PICK some \in SUBSET File : e.idx \in [some -> Recs]
    BY <1>1 DEF CallShape, Found
<1>3. PICK done \in SUBSET Target : e.out \in [done -> Whole]
    BY <1>1 DEF CallShape, Outs
<1>4. TargetsOf(e) \subseteq Target
    BY <1>2 DEF TargetsOf, Target
<1>5. ASSUME NEW t \in TargetsOf(e) PROVE WantedOf(e, t) \in Whole
    <2>1. CASE t = Archive
        <3>1. \A f \in DOMAIN e.idx : Plain(e.idx[f]) \in Seq(Byte)
            BY <1>2, PlainType
        <3>2. [f \in DOMAIN e.idx |-> Plain(e.idx[f])] \in [some -> Seq(Byte)]
            BY <1>2, <3>1
        <3> QED BY <2>1, <3>2 DEF WantedOf, Whole
    <2>2. CASE t # Archive
        <3>1. t \in DOMAIN e.idx
            BY <2>2 DEF TargetsOf
        <3>2. Plain(e.idx[t]) \in Seq(Byte)
            BY <1>2, <3>1, PlainType
        <3> QED BY <2>2, <3>2 DEF WantedOf, Whole
    <2> QED BY <2>1, <2>2
<1>6. ASSUME NEW t \in TargetsOf(e), t \in File PROVE WantedOf(e, t) \in had[t]
    <2>1. t # Archive
        BY <1>6, WholeFacts
    <2>2. t \in DOMAIN e.idx
        BY <2>1 DEF TargetsOf
    <2> QED BY <2>1, <2>2 DEF WantedOf, Calling
<1>7. e.pc \in Active => Current(e) \in e.todo
    <2>1. e.todo \subseteq Target
        BY <1>1 DEF CallShape
    <2> QED BY <2>1, CurrentFacts DEF Calling
<1>8. DOMAIN e.idx \subseteq File /\ e.idx \in [DOMAIN e.idx -> Recs]
    BY <1>2
<1>9. e.out \in [DOMAIN e.out -> Whole]
    BY <1>3
<1> QED BY <1>1, <1>4, <1>5, <1>6, <1>7, <1>8, <1>9

LEMMA NoBytes == <<>> \in Whole /\ <<>> \in Outs /\ DOMAIN <<>> = {}
<1>1. <<>> \in Seq(Byte)
    BY EmptySeq
<1>2. <<>> \in [{} -> Whole]
    OBVIOUS
<1> QED BY <1>1, <1>2 DEF Whole, Outs

LEMMA NotBegunCalling == ASSUME NEW had PROVE Calling(NotBegun, had)
<1>1. <<>> \in [{} -> Recs]
    OBVIOUS
<1>2. <<>> \in Found
    BY <1>1 DEF Found
<1>3. NotBegun.order \in Order
    BY DEF NotBegun, Order
<1>4. NotBegun \in CallShape
    BY <1>2, <1>3, NoBytes DEF NotBegun, CallShape
<1>5. /\ NotBegun.pc = "idle" /\ NotBegun.todo = {} /\ NotBegun.idx = <<>> /\ NotBegun.tmp = <<>>
      /\ NotBegun.out = <<>> /\ NotBegun.skipped = {} /\ NotBegun.order.dry = FALSE
    BY DEF NotBegun
<1> QED BY <1>4, <1>5, NoBytes DEF Calling, Active

\* The next target, or an answer: in both, one target is done.
LEMMA AdvanceFacts ==
    ASSUME NEW e \in CallShape
    PROVE  LET a == Advance(e)
           IN /\ a \in CallShape /\ a.order = e.order /\ a.idx = e.idx /\ a.tmp = <<>>
              /\ a.out = e.out /\ a.skipped = e.skipped /\ a.todo = e.todo \ {Current(e)}
              /\ a.pc \in {"ok", "check"} /\ (a.pc = "ok" <=> e.todo = {Current(e)})
<1> DEFINE c == Current(e)
<1> HIDE DEF c
<1> DEFINE nextPc == IF e.todo = {c} THEN "ok" ELSE "check"
           todo == e.todo \ {c}
<1>1. Advance(e) = [e EXCEPT !.todo = todo, !.tmp = <<>>, !.pc = nextPc]
    BY DEF Advance, c
<1>2. nextPc \in {"ok", "check"} /\ (nextPc = "ok" <=> e.todo = {c}) /\ todo \in SUBSET Target
    BY DEF CallShape
<1> HIDE DEF nextPc, todo
<1>3. Advance(e) \in CallShape
    BY <1>1, <1>2, NoBytes DEF CallShape, Active
<1>4. /\ Advance(e).pc = nextPc /\ Advance(e).todo = todo /\ Advance(e).tmp = <<>>
      /\ Advance(e).order = e.order /\ Advance(e).idx = e.idx /\ Advance(e).out = e.out
      /\ Advance(e).skipped = e.skipped
    BY <1>1 DEF CallShape
<1> QED BY <1>2, <1>3, <1>4 DEF c, todo

\* How a call goes on: what it was asked and what it found never changes.
Goes(e, e2) == e.pc # "idle" => e2.pc # "idle" /\ e2.order = e.order /\ e2.idx = e.idx

LEMMA GoesFacts ==
    ASSUME NEW e, NEW e2, Goes(e, e2)
    PROVE  /\ \A t : Replacing(e, t) => Replacing(e2, t)
           /\ e.pc # "idle" => TargetsOf(e2) = TargetsOf(e) /\ \A t : WantedOf(e2, t) = WantedOf(e, t)
BY DEF Goes, Replacing, TargetsOf, WantedOf

\* A call takes a step: the others stay, and what it was asked goes on being asked.
LEMMA Witnesses ==
    ASSUME RTInv, NEW x \in Exporter, NEW e2, export' = [export EXCEPT ![x] = e2],
           Goes(export[x], e2)
    PROVE  /\ export'[x] = e2 /\ \A y \in Exporter \ {x} : export'[y] = export[y]
           /\ \A t : (\E y \in Exporter : Replacing(export[y], t))
                        => \E y \in Exporter : Replacing(export'[y], t)
           /\ \A v : (\E y \in Exporter : /\ export[y].pc # "idle" /\ ~export[y].order.dry
                                          /\ v = WantedOf(export[y], Archive))
                        => \E y \in Exporter : /\ export'[y].pc # "idle" /\ ~export'[y].order.dry
                                               /\ v = WantedOf(export'[y], Archive)
<1>1. export'[x] = e2 /\ \A y \in Exporter \ {x} : export'[y] = export[y]
    BY DEF RTInv, Calls
<1>2. ASSUME NEW t, NEW y \in Exporter, Replacing(export[y], t)
      PROVE  \E z \in Exporter : Replacing(export'[z], t)
    <2>1. CASE y = x
        <3>1. Replacing(export'[x], t)
            BY <1>1, <1>2, <2>1, GoesFacts
        <3> QED BY <3>1
    <2>2. CASE y # x
        <3>1. export'[y] = export[y]
            BY <1>1, <2>2
        <3> QED BY <1>2, <3>1
    <2> QED BY <2>1, <2>2
<1>3. ASSUME NEW v, NEW y \in Exporter, export[y].pc # "idle", ~export[y].order.dry,
             v = WantedOf(export[y], Archive)
      PROVE  \E z \in Exporter : /\ export'[z].pc # "idle" /\ ~export'[z].order.dry
                                 /\ v = WantedOf(export'[z], Archive)
    <2>1. CASE y = x
        <3>1. export'[x].pc # "idle" /\ export'[x].order = export[x].order
            BY <1>1, <1>3, <2>1 DEF Goes
        <3>2. v = WantedOf(export'[x], Archive)
            BY <1>1, <1>3, <2>1, GoesFacts
        <3> QED BY <1>3, <2>1, <3>1, <3>2
    <2>2. CASE y # x
        <3>1. export'[y] = export[y]
            BY <1>1, <2>2
        <3> QED BY <1>3, <3>1
    <2> QED BY <2>1, <2>2
<1> QED BY <1>1, <1>2, <1>3

\* The parts of the destination's invariant that a step of a call leaves to the others.
LEMMA CallsStep ==
    ASSUME RTInv, NEW x \in Exporter, NEW e2, export' = [export EXCEPT ![x] = e2],
           Calling(e2, saved), UNCHANGED saved
    PROVE  Calls'
<1>1. e2 \in CallShape
    BY DEF Calling
<1>2. export' \in [Exporter -> CallShape]
    BY <1>1 DEF RTInv, Calls
<1>3. ASSUME NEW y \in Exporter PROVE Calling(export'[y], saved')
    <2>1. CASE y = x
        <3>1. export'[y] = e2 /\ saved' = saved
            BY <2>1 DEF RTInv, Calls
        <3> QED BY <3>1
    <2>2. CASE y # x
        <3>1. export'[y] = export[y] /\ saved' = saved
            BY <2>2 DEF RTInv, Calls
        <3> QED BY <3>1 DEF RTInv, Calls
    <2> QED BY <2>1, <2>2
<1> QED BY <1>2, <1>3 DEF Calls

\* Asked(t): some call was asked to replace what is at t.
Asked(t) == \E y \in Exporter : Replacing(export[y], t)

LEMMA PolicyStep ==
    ASSUME RTInv, NEW x \in Exporter, NEW e2, export' = [export EXCEPT ![x] = e2],
           Goes(export[x], e2), UNCHANGED own,
           /\ e2.pc \in {"write", "rename"} /\ e2.order.overwrite # "replace"
           /\ Current(e2) \in own
           => Asked(Current(e2))
    PROVE  \A y \in Exporter :
               /\ export'[y].pc \in {"write", "rename"} /\ export'[y].order.overwrite # "replace"
               /\ Current(export'[y]) \in own'
               => \E z \in Exporter : Replacing(export'[z], Current(export'[y]))
<1> SUFFICES ASSUME NEW y \in Exporter, export'[y].pc \in {"write", "rename"},
                    export'[y].order.overwrite # "replace", Current(export'[y]) \in own'
             PROVE  \E z \in Exporter : Replacing(export'[z], Current(export'[y]))
    OBVIOUS
<1>1. /\ export'[x] = e2 /\ \A z \in Exporter \ {x} : export'[z] = export[z]
      /\ \A t : Asked(t) => \E z \in Exporter : Replacing(export'[z], t)
    BY Witnesses DEF Asked
<1>2. CASE y = x
    <2>1. Asked(Current(e2))
        BY <1>1, <1>2
    <2> QED BY <1>1, <1>2, <2>1
<1>3. CASE y # x
    <2>1. export'[y] = export[y]
        BY <1>1, <1>3
    <2>2. Asked(Current(export[y]))
        BY <2>1 DEF RTInv, Destination, Asked
    <2> QED BY <1>1, <2>1, <2>2
<1> QED BY <1>2, <1>3

\* A step that does not touch the destination.
LEMMA DestinationFrame ==
    ASSUME RTInv, NEW x \in Exporter, NEW e2, export' = [export EXCEPT ![x] = e2],
           Goes(export[x], e2), UNCHANGED <<dest, own, saved>>,
           \A t : Removing(export[x], t) => Removing(e2, t),
           /\ e2.pc \in {"write", "rename"} /\ e2.order.overwrite # "replace"
           /\ Current(e2) \in own
           => Asked(Current(e2))
    PROVE  Destination'
<1>1. /\ export'[x] = e2 /\ \A y \in Exporter \ {x} : export'[y] = export[y]
      /\ \A t : (\E y \in Exporter : Replacing(export[y], t))
                   => \E y \in Exporter : Replacing(export'[y], t)
      /\ \A v : (\E y \in Exporter : /\ export[y].pc # "idle" /\ ~export[y].order.dry
                                     /\ v = WantedOf(export[y], Archive))
                   => \E y \in Exporter : /\ export'[y].pc # "idle" /\ ~export'[y].order.dry
                                          /\ v = WantedOf(export'[y], Archive)
    BY Witnesses
<1>2. dest' = dest /\ own' = own /\ saved' = saved
    OBVIOUS
<1>3. /\ dest \in [Target -> {NoFile, Own} \cup Whole]
      /\ \A f \in File : dest[f] \in {NoFile, Own} \cup saved[f]
      /\ dest[Archive] \notin {NoFile, Own} =>
            \E y \in Exporter : /\ export[y].pc # "idle" /\ ~export[y].order.dry
                                /\ dest[Archive] = WantedOf(export[y], Archive)
      /\ \A t \in own : dest[t] = NoFile => \E y \in Exporter : Removing(export[y], t)
      /\ \A t \in own : dest[t] # Own => \E y \in Exporter : Replacing(export[y], t)
    BY DEF RTInv, Destination
<1>4. ASSUME NEW t \in own, dest[t] = NoFile PROVE \E y \in Exporter : Removing(export'[y], t)
    <2>1. PICK y \in Exporter : Removing(export[y], t)
        BY <1>3, <1>4
    <2>2. CASE y = x
        <3>1. Removing(export'[x], t)
            BY <1>1, <2>1, <2>2
        <3> QED BY <3>1
    <2>3. CASE y # x
        <3>1. export'[y] = export[y]
            BY <1>1, <2>3
        <3> QED BY <2>1, <3>1
    <2> QED BY <2>2, <2>3
<1>5. \A t \in own : dest[t] # Own => \E y \in Exporter : Replacing(export'[y], t)
    BY <1>1, <1>3
<1>6. dest[Archive] \notin {NoFile, Own} =>
         \E y \in Exporter : /\ export'[y].pc # "idle" /\ ~export'[y].order.dry
                             /\ dest[Archive] = WantedOf(export'[y], Archive)
    BY <1>1, <1>3
<1>7. \A y \in Exporter :
         /\ export'[y].pc \in {"write", "rename"} /\ export'[y].order.overwrite # "replace"
         /\ Current(export'[y]) \in own'
         => \E z \in Exporter : Replacing(export'[z], Current(export'[y]))
    BY PolicyStep
<1> QED BY <1>2, <1>3, <1>4, <1>5, <1>6, <1>7 DEF Destination

LEMMA ExportFrame ==
    ASSUME RTInv, UNCHANGED <<bounds, source, index, objects, put, puts, edits, saved, own>>
    PROVE  World' /\ Indexed' /\ Putting'
BY DEF RTInv, World, Indexed, Putting

-----------------------------------------------------------------------------
(* Each step of a call                                                     *)

LEMMA BeginExportCase ==
    ASSUME RTInv, NEW x \in Exporter, NEW order \in Order, NEW asked \in SUBSET File,
           BeginExport(x, order, asked)
    PROVE  RTInv'
<1> DEFINE found == {f \in asked : index[f] # NoFile}
           idx == [f \in found |-> index[f]]
           todo == IF order.kind = "zip" THEN {Archive} ELSE found
           nextPc == IF found = {} THEN "failed" ELSE IF order.dry THEN "ok" ELSE "check"
           e == export[x]
           e2 == [e EXCEPT !.order = order, !.idx = idx, !.todo = todo, !.pc = nextPc]
<1>1. e = NotBegun /\ export \in [Exporter -> CallShape]
    BY DEF RTInv, Calls, Calling, BeginExport
<1>2. export' = [export EXCEPT ![x] = e2] /\ UNCHANGED <<dest, own, saved>>
    BY <1>1 DEF BeginExport
<1>3. /\ found \in SUBSET File /\ DOMAIN idx = found
      /\ \A f \in found : idx[f] \in Recs /\ Plain(idx[f]) \in saved[f]
    BY DEF RTInv, Indexed
<1>4. idx \in Found
    <2>1. idx \in [found -> Recs]
        BY <1>3
    <2> HIDE DEF idx, found
    <2> QED BY <1>3, <2>1 DEF Found
<1>5. /\ nextPc \in {"failed", "ok", "check"}
      /\ (nextPc = "ok" => order.dry) /\ (nextPc = "check" => ~order.dry)
      /\ nextPc = "check" => found # {}
    OBVIOUS
<1>6. todo \in SUBSET Target /\ todo = (IF order.kind = "zip" THEN {Archive} ELSE DOMAIN idx)
    BY <1>3 DEF Target
<1>7. e \in CallShape /\ e.tmp = <<>> /\ e.out = <<>> /\ e.skipped = {} /\ e.pc = "idle"
    BY <1>1, NotBegunCalling DEF Calling, NotBegun
<1> HIDE DEF found, idx, todo, nextPc, e
<1>8. e2 \in CallShape
    BY <1>4, <1>5, <1>6, <1>7 DEF CallShape, Active
<1>9. /\ e2.order = order /\ e2.idx = idx /\ e2.todo = todo /\ e2.pc = nextPc /\ e2.tmp = <<>>
      /\ e2.out = <<>> /\ e2.skipped = {}
    BY <1>7 DEF CallShape
<1> HIDE DEF e2
<1>10. TargetsOf(e2) = todo
    BY <1>6, <1>9 DEF TargetsOf
<1>11. nextPc = "check" => todo # {}
    BY <1>3, <1>5, <1>6
<1>12. Calling(e2, saved)
    BY <1>3, <1>5, <1>8, <1>9, <1>10, <1>11, NoBytes DEF Calling, Active
<1>13. Calls'
    BY <1>2, <1>12, CallsStep DEF e
<1>14. Goes(e, e2) /\ \A t : ~Removing(e, t)
    BY <1>7 DEF Goes, Removing, Replacing
<1>15. e2.pc \notin {"write", "rename"}
    BY <1>5, <1>9
<1>16. Destination'
    BY <1>2, <1>14, <1>15, DestinationFrame DEF e
<1>17. World' /\ Indexed' /\ Putting'
    BY ExportFrame DEF BeginExport
<1> QED BY <1>13, <1>16, <1>17 DEF RTInv

\* What a call in its midst is: not a dry run, and with a target in hand.
LEMMA ActiveFacts ==
    ASSUME RTInv, NEW x \in Exporter, export[x].pc \in Active
    PROVE  /\ Calling(export[x], saved) /\ export[x] \in CallShape /\ ~export[x].order.dry
           /\ export[x].pc # "idle" /\ Current(export[x]) \in export[x].todo
           /\ Current(export[x]) \in TargetsOf(export[x]) /\ Current(export[x]) \in Target
           /\ Current(export[x]) \notin DOMAIN export[x].out
           /\ export[x].order.overwrite \in {"fail", "skip", "replace"}
           /\ export[x].order.kind \in Kind
<1> DEFINE e == export[x]
<1>1. Calling(e, saved)
    BY DEF RTInv, Calls
<1> HIDE DEF e
<1>2. e \in CallShape /\ e.order \in Order /\ e.pc \in Active
    BY <1>1 DEF Calling, CallShape, e
<1>3. Current(e) \in e.todo /\ TargetsOf(e) \subseteq Target
    BY <1>1, <1>2, CallFacts
<1>4. e.order.overwrite \in {"fail", "skip", "replace"} /\ e.order.kind \in Kind
    BY <1>2 DEF Order, Kind
<1>5. ~e.order.dry /\ e.todo \subseteq TargetsOf(e) /\ e.todo \cap DOMAIN e.out = {}
    BY <1>1, <1>2 DEF Calling
<1>6. e.pc # "idle"
    BY <1>2 DEF Active
<1> QED BY <1>1, <1>2, <1>3, <1>4, <1>5, <1>6 DEF e

\* The target in hand is passed over.
LEMMA SkipCalling ==
    ASSUME NEW e, Calling(e, saved), e.pc = "check", e.order.overwrite = "skip",
           NEW e2, e2 = [Advance(e) EXCEPT !.skipped = @ \cup {Current(e)}]
    PROVE  Calling(e2, saved) /\ e2.pc \in {"ok", "check"} /\ e2.order = e.order /\ e2.idx = e.idx
<1> DEFINE a == Advance(e)
           c == Current(e)
<1>1. /\ e \in CallShape /\ c \in e.todo /\ e.todo \subseteq Target
    BY CallFacts DEF Active, CallShape
<1>2. /\ a \in CallShape /\ a.order = e.order /\ a.idx = e.idx /\ a.tmp = <<>> /\ a.out = e.out
      /\ a.skipped = e.skipped /\ a.todo = e.todo \ {c} /\ a.pc \in {"ok", "check"}
      /\ a.pc = "ok" <=> e.todo = {c}
    BY <1>1, AdvanceFacts
<1> HIDE DEF a, c
<1>3. e2 = [a EXCEPT !.skipped = a.skipped \cup {c}] /\ a.skipped \cup {c} \in SUBSET Target
    BY <1>1, <1>2 DEF a, c, CallShape
<1>4. e2 \in CallShape
    BY <1>2, <1>3 DEF CallShape
<1>5. /\ e2.order = e.order /\ e2.idx = e.idx /\ e2.tmp = <<>> /\ e2.out = e.out
      /\ e2.skipped = e.skipped \cup {c} /\ e2.todo = e.todo \ {c} /\ e2.pc = a.pc
    BY <1>2, <1>3 DEF CallShape
<1>6. TargetsOf(e2) = TargetsOf(e) /\ \A t : WantedOf(e2, t) = WantedOf(e, t)
    BY <1>5 DEF TargetsOf, WantedOf
<1>7. e2.pc = "check" => e2.todo # {}
    BY <1>1, <1>2, <1>5
<1>8. /\ e2.todo \subseteq TargetsOf(e2) /\ DOMAIN e2.out \subseteq TargetsOf(e2)
      /\ e2.todo \cap DOMAIN e2.out = {}
      /\ TargetsOf(e2) \subseteq e2.todo \cup DOMAIN e2.out \cup e2.skipped
    BY <1>1, <1>5, <1>6 DEF Calling, Active
<1>9. /\ \A t \in DOMAIN e2.out : e2.out[t] = WantedOf(e2, t)
      /\ \A f \in DOMAIN e2.idx : Plain(e2.idx[f]) \in saved[f]
      /\ ~e2.order.dry
    BY <1>5, <1>6 DEF Calling, Active
<1>10. e2.pc = "ok" => e2.todo = {}
    BY <1>1, <1>2, <1>5
<1>11. e2.pc \in {"ok", "check"} /\ e2.tmp = <<>> /\ e2.order.overwrite = "skip"
    BY <1>2, <1>5
<1>12. Calling(e2, saved)
    BY <1>4, <1>7, <1>8, <1>9, <1>10, <1>11 DEF Calling, Active
<1> QED BY <1>5, <1>11, <1>12

\* Only the program counter moves: on to where nothing is about to be renamed.
LEMMA MoveCalling ==
    ASSUME NEW e, Calling(e, saved), e.pc \in {"check", "remove"}, NEW nextPc, NEW e2,
           e2 = [e EXCEPT !.pc = nextPc],
           \/ nextPc = "failed" /\ e.pc = "check"
           \/ nextPc = "write"
           \/ nextPc = "remove" /\ e.pc = "check" /\ e.order.kind = "zip" /\ e.order.overwrite = "replace"
           \/ nextPc = "rename" /\ e.pc = "remove" /\ e.order.kind = "folder"
    PROVE  /\ Calling(e2, saved) /\ e2.pc = nextPc /\ e2.order = e.order /\ e2.idx = e.idx
           /\ e2.todo = e.todo /\ e2.out = e.out
<1>1. e \in CallShape /\ e.pc \in Active
    BY DEF Calling, Active
<1>2. nextPc \in {"failed", "write", "remove", "rename"}
    OBVIOUS
<1>3. e2 \in CallShape
    BY <1>1, <1>2 DEF CallShape, Active
<1>4. /\ e2.pc = nextPc /\ e2.order = e.order /\ e2.idx = e.idx /\ e2.todo = e.todo /\ e2.out = e.out
      /\ e2.tmp = e.tmp /\ e2.skipped = e.skipped
    BY <1>1 DEF CallShape
<1>5. /\ TargetsOf(e2) = TargetsOf(e) /\ Current(e2) = Current(e)
      /\ \A t : WantedOf(e2, t) = WantedOf(e, t)
    <2>1. Current(e2) = Current(e)
        BY <1>4, CurrentOfTodo
    <2> QED BY <1>4, <2>1 DEF TargetsOf, WantedOf
<1>6. /\ \A f \in DOMAIN e2.idx : Plain(e2.idx[f]) \in saved[f]
      /\ e2.todo \subseteq TargetsOf(e2) /\ DOMAIN e2.out \subseteq TargetsOf(e2)
      /\ e2.todo \cap DOMAIN e2.out = {}
      /\ \A t \in DOMAIN e2.out : e2.out[t] = WantedOf(e2, t)
      /\ e2.skipped # {} => e2.order.overwrite = "skip"
      /\ TargetsOf(e2) \subseteq e2.todo \cup DOMAIN e2.out \cup e2.skipped
      /\ e2.todo # {} /\ ~e2.order.dry
    BY <1>1, <1>4, <1>5 DEF Calling
<1>7. e2.pc = "failed" => e2.tmp = <<>>
    BY <1>4 DEF Calling
<1>8. e2.pc = "remove" => e2.order.overwrite = "replace" /\ e2.order.kind = "zip"
    BY <1>4
<1>9. e2.pc = "rename" => e2.tmp = WantedOf(e2, Current(e2))
    BY <1>4, <1>5 DEF Calling
<1>10. Calling(e2, saved)
    BY <1>2, <1>3, <1>4, <1>6, <1>7, <1>8, <1>9 DEF Calling, Active
<1> QED BY <1>4, <1>10

LEMMA CheckOverwriteCase ==
    ASSUME RTInv, NEW x \in Exporter, CheckOverwrite(x)
    PROVE  RTInv'
<1> DEFINE e == export[x]
           c == Current(e)
           there == dest[c] # NoFile
           e2 == CASE there /\ e.order.overwrite = "fail" -> [e EXCEPT !.pc = "failed"]
                   [] there /\ e.order.overwrite = "skip" ->
                         [Advance(e) EXCEPT !.skipped = @ \cup {c}]
                   [] e.order.overwrite = "replace" /\ e.order.kind = "zip" ->
                         [e EXCEPT !.pc = "remove"]
                   [] OTHER -> [e EXCEPT !.pc = "write"]
<1>1. e.pc = "check" /\ e.pc \in Active /\ UNCHANGED <<dest, own, saved>>
    BY DEF CheckOverwrite, Active
<1>2. export' = [export EXCEPT ![x] = e2]
    BY DEF CheckOverwrite
<1>3. /\ Calling(e, saved) /\ e \in CallShape /\ e.order.overwrite \in {"fail", "skip", "replace"}
      /\ c \in Target
    BY <1>1, ActiveFacts
<1> HIDE DEF e, c, e2
<1>4. \/ there /\ e.order.overwrite = "fail" /\ e2 = [e EXCEPT !.pc = "failed"]
      \/ there /\ e.order.overwrite = "skip" /\ e2 = [Advance(e) EXCEPT !.skipped = @ \cup {c}]
      \/ e.order.overwrite = "replace" /\ e.order.kind = "zip" /\ e2 = [e EXCEPT !.pc = "remove"]
      \/ e.order.overwrite = "replace" /\ e2 = [e EXCEPT !.pc = "write"]
      \/ e.order.overwrite # "replace" /\ ~there /\ e2 = [e EXCEPT !.pc = "write"]
    BY <1>3 DEF e2
<1> HIDE DEF there
<1>5. /\ Calling(e2, saved) /\ e2.pc # "idle" /\ e2.order = e.order /\ e2.idx = e.idx
      /\ e2.pc # "rename"
      /\ e2.pc = "write" => /\ e2.todo = e.todo
                            /\ e2.order.overwrite = "replace" \/ ~there
    <2>1. CASE e2 = [e EXCEPT !.pc = "failed"]
        BY <1>1, <1>3, <2>1, MoveCalling
    <2>2. CASE e.order.overwrite = "skip" /\ e2 = [Advance(e) EXCEPT !.skipped = @ \cup {c}]
        BY <1>1, <1>3, <2>2, SkipCalling DEF c
    <2>3. CASE e.order.overwrite = "replace" /\ e.order.kind = "zip" /\ e2 = [e EXCEPT !.pc = "remove"]
        BY <1>1, <1>3, <2>3, MoveCalling
    <2>4. CASE e2 = [e EXCEPT !.pc = "write"] /\ (e.order.overwrite = "replace" \/ ~there)
        BY <1>1, <1>3, <2>4, MoveCalling
    <2> QED BY <1>4, <2>1, <2>2, <2>3, <2>4
<1>6. Calls'
    BY <1>1, <1>2, <1>5, CallsStep
<1>7. Goes(e, e2) /\ \A t : ~Removing(e, t)
    BY <1>1, <1>5 DEF Goes, Removing
<1>8. /\ e2.pc \in {"write", "rename"} /\ e2.order.overwrite # "replace" /\ Current(e2) \in own
      => Asked(Current(e2))
    <2> SUFFICES ASSUME e2.pc = "write", ~there, e2.todo = e.todo, Current(e2) \in own
                 PROVE  Asked(Current(e2))
        BY <1>5
    <2>1. Current(e2) = c
        BY CurrentOfTodo DEF c
    <2>2. dest[c] # Own
        BY RoundTripAssumption DEF there
    <2> QED BY <2>1, <2>2 DEF RTInv, Destination, Asked
<1>9. Destination'
    BY <1>1, <1>2, <1>7, <1>8, DestinationFrame DEF e
<1>10. World' /\ Indexed' /\ Putting'
    BY ExportFrame DEF CheckOverwrite
<1> QED BY <1>6, <1>9, <1>10 DEF RTInv

LEMMA WantedIs ==
    ASSUME NEW x \in Exporter
    PROVE  /\ \A t : Wanted(x, t) = WantedOf(export[x], t)
           /\ Targets(x) = TargetsOf(export[x])
BY DEF Wanted, WantedOf, Targets, TargetsOf

\* The temporary file is written, or the call fails.
TempStep(e, nextTmp, nextPc) ==
    \/ nextPc = "failed" /\ nextTmp = <<>> /\ e.pc \in Active
    \/ /\ e.pc = "write" /\ nextTmp = WantedOf(e, Current(e))
       /\ nextPc = "rename" \/ (nextPc = "remove" /\ e.order.overwrite = "replace")

TempOf(e, nextTmp, nextPc) == [e EXCEPT !.tmp = nextTmp, !.pc = nextPc]

LEMMA TempCalling ==
    ASSUME NEW e, Calling(e, saved), NEW nextPc, NEW nextTmp, NEW e2,
           e2 = TempOf(e, nextTmp, nextPc), TempStep(e, nextTmp, nextPc)
    PROVE  /\ Calling(e2, saved) /\ e2.pc = nextPc /\ e2.order = e.order /\ e2.idx = e.idx
           /\ e2.todo = e.todo /\ e2.out = e.out
<1>0. /\ nextPc \in {"failed", "remove", "rename"} /\ e.pc \in Active
      /\ nextPc = "failed" => nextTmp = <<>>
      /\ nextPc = "remove" => e.order.overwrite = "replace"
      /\ nextPc # "failed" => nextTmp = WantedOf(e, Current(e))
    BY DEF TempStep, Active
<1>1. e \in CallShape /\ e.pc \in Active /\ Current(e) \in e.todo
    BY <1>0, CallFacts
<1>2. nextPc \in {"failed", "remove", "rename"}
    BY <1>0
<1>3. nextTmp \in Whole
    <2>1. Current(e) \in TargetsOf(e)
        BY <1>1 DEF Calling
    <2>2. WantedOf(e, Current(e)) \in Whole
        BY <2>1, CallFacts
    <2> QED BY <1>0, <2>2, NoBytes
<1>4. e2 \in CallShape
    BY <1>1, <1>2, <1>3 DEF CallShape, Active, TempOf
<1>5. /\ e2.pc = nextPc /\ e2.order = e.order /\ e2.idx = e.idx /\ e2.todo = e.todo /\ e2.out = e.out
      /\ e2.tmp = nextTmp /\ e2.skipped = e.skipped
    BY <1>1 DEF CallShape, TempOf
<1>6. Current(e2) = Current(e)
    BY <1>5, CurrentOfTodo
<1>7. TargetsOf(e2) = TargetsOf(e) /\ \A t : WantedOf(e2, t) = WantedOf(e, t)
    BY <1>5 DEF TargetsOf, WantedOf
<1>8. /\ \A f \in DOMAIN e2.idx : Plain(e2.idx[f]) \in saved[f]
      /\ e2.todo \subseteq TargetsOf(e2) /\ DOMAIN e2.out \subseteq TargetsOf(e2)
      /\ e2.todo \cap DOMAIN e2.out = {}
      /\ \A t \in DOMAIN e2.out : e2.out[t] = WantedOf(e2, t)
      /\ e2.skipped # {} => e2.order.overwrite = "skip"
      /\ TargetsOf(e2) \subseteq e2.todo \cup DOMAIN e2.out \cup e2.skipped
      /\ e2.todo # {} /\ ~e2.order.dry
    BY <1>1, <1>5, <1>7 DEF Calling
<1>9. /\ e2.pc = "failed" => e2.tmp = <<>>
      /\ e2.pc = "remove" => e2.order.overwrite = "replace"
      /\ e2.pc \in {"rename", "remove"} => e2.tmp = WantedOf(e2, Current(e2))
    BY <1>0, <1>5, <1>6, <1>7
<1>10. Calling(e2, saved)
    BY <1>2, <1>4, <1>5, <1>8, <1>9 DEF Calling, Active
<1> QED BY <1>5, <1>10

LEMMA WriteTempCase ==
    ASSUME RTInv, NEW x \in Exporter, WriteTemp(x)
    PROVE  RTInv'
<1> DEFINE e == export[x]
           c == Current(e)
           can == Loadable(x, c)
           nextTmp == IF can THEN WantedOf(e, c) ELSE <<>>
           nextPc == IF can THEN Written(x) ELSE "failed"
           e2 == [e EXCEPT !.tmp = nextTmp, !.pc = nextPc]
<1>1. e.pc = "write" /\ e.pc \in Active /\ UNCHANGED <<dest, own, saved>>
    BY DEF WriteTemp, Active
<1>2. /\ Calling(e, saved) /\ e \in CallShape /\ c \in e.todo /\ c \in TargetsOf(e)
      /\ c \notin DOMAIN e.out
    BY <1>1, ActiveFacts
<1>3. export' = [export EXCEPT ![x] = e2]
    BY WantedIs DEF WriteTemp
<1>4. Written(x) = "rename" \/ (Written(x) = "remove" /\ e.order.overwrite = "replace"
                                /\ e.order.kind = "folder")
    BY DEF Written
<1>5. \/ nextPc = "failed" /\ nextTmp = <<>>
      \/ /\ nextTmp = WantedOf(e, c)
         /\ nextPc = "rename" \/ (nextPc = "remove" /\ e.order.overwrite = "replace" /\ e.order.kind = "folder")
    BY <1>4
<1> HIDE DEF e, nextTmp, nextPc, can
<1>6. /\ Calling(e2, saved) /\ e2.pc = nextPc /\ e2.order = e.order /\ e2.idx = e.idx
      /\ e2.todo = e.todo /\ e2.out = e.out
    <2>1. e2 = TempOf(e, nextTmp, nextPc)
        BY DEF TempOf
    <2> HIDE DEF e2
    <2>2. TempStep(e, nextTmp, nextPc)
        BY <1>1, <1>5 DEF TempStep
    <2> QED BY <1>2, <2>1, <2>2, TempCalling
<1> HIDE DEF e2
<1>7. Calls'
    BY <1>1, <1>3, <1>6, CallsStep
<1>8. Goes(e, e2) /\ Current(e2) = c
    <2>1. e2.pc # "idle"
        BY <1>5, <1>6
    <2> QED BY <1>6, <2>1, CurrentOfTodo DEF Goes
<1>9. ASSUME NEW t, Removing(e, t) PROVE Removing(e2, t)
    <2>1. /\ Replacing(e, t) /\ t \notin DOMAIN e.out /\ e.order.kind = "zip" /\ t \in TargetsOf(e)
        BY <1>1, <1>9 DEF Removing, Replacing
    <2>2. t = c
        BY <1>2, <2>1 DEF TargetsOf
    <2>3. Replacing(e2, t)
        BY <1>8, <2>1, GoesFacts
    <2>4. e2.pc \in {"failed", "rename"}
        BY <1>5, <1>6, <2>1
    <2> QED BY <1>6, <1>8, <2>1, <2>2, <2>3, <2>4 DEF Removing
<1>10. /\ e2.pc \in {"write", "rename"} /\ e2.order.overwrite # "replace" /\ Current(e2) \in own
       => Asked(Current(e2))
    BY <1>1, <1>6, <1>8 DEF RTInv, Destination, Asked, e
<1>11. Destination'
    BY <1>1, <1>3, <1>8, <1>9, <1>10, DestinationFrame DEF e
<1>12. World' /\ Indexed' /\ Putting'
    BY ExportFrame DEF WriteTemp
<1> QED BY <1>7, <1>11, <1>12 DEF RTInv

LEMMA FailExportCase ==
    ASSUME RTInv, NEW x \in Exporter, FailExport(x)
    PROVE  RTInv'
<1> DEFINE e == export[x]
           e2 == [e EXCEPT !.tmp = <<>>, !.pc = "failed"]
<1>1. e.pc \in Active /\ UNCHANGED <<dest, own, saved>>
    BY DEF FailExport, Active
<1>2. Calling(e, saved) /\ e \in CallShape
    BY <1>1, ActiveFacts
<1>3. export' = [export EXCEPT ![x] = e2]
    <2>1. export' = [export EXCEPT ![x].pc = "failed", ![x].tmp = <<>>]
        BY DEF FailExport
    <2>2. export \in [Exporter -> CallShape]
        BY DEF RTInv, Calls
    <2> QED BY <2>1, <2>2, <1>2 DEF CallShape
<1> HIDE DEF e
<1>4. /\ Calling(e2, saved) /\ e2.pc = "failed" /\ e2.order = e.order /\ e2.idx = e.idx
      /\ e2.out = e.out
    <2> DEFINE nextTmp == <<>>
               nextPc == "failed"
    <2>1. e2 = TempOf(e, nextTmp, nextPc) /\ nextPc = "failed" /\ nextTmp = <<>>
        BY DEF TempOf
    <2>2. TempStep(e, nextTmp, nextPc)
        BY <1>1 DEF TempStep
    <2> HIDE DEF e2, nextTmp, nextPc
    <2> QED BY <1>2, <2>1, <2>2, TempCalling
<1> HIDE DEF e2
<1>5. Calls'
    BY <1>1, <1>3, <1>4, CallsStep
<1>6. Goes(e, e2)
    BY <1>4 DEF Goes
<1>7. \A t : Removing(e, t) => Removing(e2, t)
    BY <1>4, <1>6, GoesFacts DEF Removing
<1>8. Destination'
    BY <1>1, <1>3, <1>4, <1>6, <1>7, DestinationFrame DEF e
<1>9. World' /\ Indexed' /\ Putting'
    BY ExportFrame DEF FailExport
<1> QED BY <1>5, <1>8, <1>9 DEF RTInv

LEMMA RemoveTargetCase ==
    ASSUME RTInv, NEW x \in Exporter, RemoveTarget(x), export[x].order.kind # "get"
    PROVE  RTInv'
<1> DEFINE e == export[x]
           c == Current(e)
           nextPc == IF e.order.kind = "zip" THEN "write" ELSE "rename"
           e2 == [e EXCEPT !.pc = nextPc]
<1>1. e.pc = "remove" /\ e.pc \in Active /\ UNCHANGED <<own, saved>>
    BY DEF RemoveTarget, Active
<1>2. /\ Calling(e, saved) /\ e \in CallShape /\ c \in TargetsOf(e) /\ c \in Target
      /\ c \notin DOMAIN e.out /\ ~e.order.dry /\ e.order.kind \in Kind
    BY <1>1, ActiveFacts
<1>3. export' = [export EXCEPT ![x] = e2] /\ dest' \in {dest, [dest EXCEPT ![c] = NoFile]}
    BY DEF RemoveTarget
<1>4. e.order.overwrite = "replace"
    BY <1>1, <1>2 DEF Calling
<1>5. \/ nextPc = "write" /\ e.order.kind = "zip"
      \/ nextPc = "rename" /\ e.order.kind = "folder"
    BY <1>2 DEF Kind
<1> HIDE DEF e, c, nextPc
<1>6. /\ Calling(e2, saved) /\ e2.pc = nextPc /\ e2.order = e.order /\ e2.idx = e.idx
      /\ e2.todo = e.todo /\ e2.out = e.out
    BY <1>1, <1>2, <1>5, MoveCalling
<1> HIDE DEF e2
<1>7. Calls'
    BY <1>1, <1>3, <1>6, CallsStep
<1>8. Goes(e, e2) /\ Current(e2) = c
    <2>1. e2.pc # "idle"
        BY <1>5, <1>6
    <2> QED BY <1>6, <2>1, CurrentOfTodo DEF Goes, c
<1>9. \A t : ~Removing(e, t)
    BY <1>1 DEF Removing
<1>10. /\ e2.pc \in {"write", "rename"} /\ e2.order.overwrite # "replace" /\ Current(e2) \in own
       => Asked(Current(e2))
    BY <1>4, <1>6
<1>11. Replacing(e, c) /\ Replacing(e2, c) /\ Removing(e2, c)
    <2>1. Replacing(e, c)
        BY <1>1, <1>2, <1>4 DEF Replacing
    <2>2. Replacing(e2, c)
        BY <2>1, <1>8, GoesFacts
    <2> QED BY <1>2, <1>5, <1>6, <1>8, <2>1, <2>2 DEF Removing
<1>12. Destination'
    <2>1. CASE dest' = dest
        BY <1>1, <1>3, <1>8, <1>9, <1>10, <2>1, DestinationFrame DEF e
    <2>2. CASE dest' = [dest EXCEPT ![c] = NoFile]
        <3>1. /\ export'[x] = e2 /\ \A y \in Exporter \ {x} : export'[y] = export[y]
              /\ \A t : (\E y \in Exporter : Replacing(export[y], t))
                           => \E y \in Exporter : Replacing(export'[y], t)
              /\ \A v : (\E y \in Exporter : /\ export[y].pc # "idle" /\ ~export[y].order.dry
                                             /\ v = WantedOf(export[y], Archive))
                           => \E y \in Exporter : /\ export'[y].pc # "idle" /\ ~export'[y].order.dry
                                                  /\ v = WantedOf(export'[y], Archive)
            BY <1>3, <1>8, Witnesses DEF e
        <3>2. /\ dest \in [Target -> {NoFile, Own} \cup Whole]
              /\ \A f \in File : dest[f] \in {NoFile, Own} \cup saved[f]
              /\ dest[Archive] \notin {NoFile, Own} =>
                    \E y \in Exporter : /\ export[y].pc # "idle" /\ ~export[y].order.dry
                                        /\ dest[Archive] = WantedOf(export[y], Archive)
              /\ \A t \in own : dest[t] = NoFile => \E y \in Exporter : Removing(export[y], t)
              /\ \A t \in own : dest[t] # Own => \E y \in Exporter : Replacing(export[y], t)
              /\ own \subseteq Target
            BY DEF RTInv, Destination, World
        <3>3. dest' \in [Target -> {NoFile, Own} \cup Whole]
            BY <2>2, <3>2
        <3>4. dest'[c] = NoFile /\ \A t \in Target \ {c} : dest'[t] = dest[t]
            BY <1>2, <2>2, <3>2
        <3>5. \A f \in File : dest'[f] \in {NoFile, Own} \cup saved[f]
            BY <3>2, <3>4 DEF Target
        <3>6. dest'[Archive] \notin {NoFile, Own} =>
                 \E y \in Exporter : /\ export'[y].pc # "idle" /\ ~export'[y].order.dry
                                     /\ dest'[Archive] = WantedOf(export'[y], Archive)
            <4>1. CASE c = Archive
                BY <3>4, <4>1
            <4>2. CASE c # Archive
                <5>1. dest'[Archive] = dest[Archive]
                    BY <3>4, <4>2 DEF Target
                <5> QED BY <3>1, <3>2, <5>1
            <4> QED BY <4>1, <4>2
        <3>7. ASSUME NEW t \in own, dest'[t] = NoFile
              PROVE  \E y \in Exporter : Removing(export'[y], t)
            <4>1. CASE t = c
                <5>1. Removing(export'[x], t)
                    BY <1>11, <3>1, <4>1
                <5> QED BY <5>1
            <4>2. CASE t # c
                <5>1. PICK y \in Exporter : Removing(export[y], t)
                    BY <3>2, <3>4, <3>7, <4>2
                <5>2. y # x
                    BY <1>9, <5>1 DEF e
                <5>3. export'[y] = export[y]
                    BY <3>1, <5>2
                <5> QED BY <5>1, <5>3
            <4> QED BY <4>1, <4>2
        <3>8. ASSUME NEW t \in own, dest'[t] # Own
              PROVE  \E y \in Exporter : Replacing(export'[y], t)
            <4>1. CASE t = c
                <5>1. Replacing(export'[x], t)
                    BY <1>11, <3>1, <4>1
                <5> QED BY <5>1
            <4>2. CASE t # c
                <5>1. dest[t] # Own
                    BY <3>2, <3>4, <3>8, <4>2
                <5> QED BY <3>1, <3>2, <5>1
            <4> QED BY <4>1, <4>2
        <3>9. \A y \in Exporter :
                 /\ export'[y].pc \in {"write", "rename"} /\ export'[y].order.overwrite # "replace"
                 /\ Current(export'[y]) \in own'
                 => \E z \in Exporter : Replacing(export'[z], Current(export'[y]))
            BY <1>1, <1>3, <1>8, <1>10, PolicyStep DEF e
        <3> QED BY <1>1, <3>3, <3>5, <3>6, <3>7, <3>8, <3>9 DEF Destination
    <2> QED BY <1>3, <2>1, <2>2
<1>13. World' /\ Indexed' /\ Putting'
    BY ExportFrame DEF RemoveTarget
<1> QED BY <1>7, <1>12, <1>13 DEF RTInv

\* The target in hand is written.
LEMMA RenameCalling ==
    ASSUME NEW e, Calling(e, saved), e.pc = "rename", NEW e2,
           e2 = [Advance(e) EXCEPT !.out = With(@, Current(e), e.tmp)]
    PROVE  Calling(e2, saved) /\ e2.pc \in {"ok", "check"} /\ e2.order = e.order /\ e2.idx = e.idx
<1> DEFINE a == Advance(e)
           c == Current(e)
           out == With(a.out, c, e.tmp)
<1>1. /\ e \in CallShape /\ c \in e.todo /\ e.todo \subseteq Target
      /\ e.out \in [DOMAIN e.out -> Whole] /\ DOMAIN e.out \subseteq Target
      /\ e.tmp = WantedOf(e, c) /\ e.tmp \in Whole
    <2>1. /\ e \in CallShape /\ c \in e.todo /\ TargetsOf(e) \subseteq Target
          /\ e.out \in [DOMAIN e.out -> Whole]
        BY CallFacts DEF Active
    <2>2. e.tmp = WantedOf(e, c) /\ e.tmp \in Whole /\ e.todo \subseteq Target
        BY <2>1 DEF Calling, CallShape
    <2>3. DOMAIN e.out \subseteq Target
        BY <2>1 DEF Calling
    <2> QED BY <2>1, <2>2, <2>3
<1>2. /\ a \in CallShape /\ a.order = e.order /\ a.idx = e.idx /\ a.tmp = <<>> /\ a.out = e.out
      /\ a.skipped = e.skipped /\ a.todo = e.todo \ {c} /\ a.pc \in {"ok", "check"}
      /\ a.pc = "ok" <=> e.todo = {c}
    BY <1>1, AdvanceFacts
<1> HIDE DEF a, c
<1>3. /\ DOMAIN out = DOMAIN e.out \cup {c} /\ out[c] = e.tmp
      /\ \A t \in DOMAIN e.out : t # c => out[t] = e.out[t]
    BY <1>2 DEF With
<1>4. out \in [DOMAIN e.out \cup {c} -> Whole]
    BY <1>1, <1>2 DEF With
<1>5. out \in Outs
    <2>1. DOMAIN e.out \cup {c} \in SUBSET Target
        BY <1>1
    <2> HIDE DEF out
    <2> QED BY <1>4, <2>1 DEF Outs
<1>6. e2 = [a EXCEPT !.out = out]
    BY DEF a, c
<1> HIDE DEF out
<1>7. e2 \in CallShape
    BY <1>2, <1>5, <1>6 DEF CallShape
<1>8. /\ e2.order = e.order /\ e2.idx = e.idx /\ e2.tmp = <<>> /\ e2.out = out
      /\ e2.skipped = e.skipped /\ e2.todo = e.todo \ {c} /\ e2.pc = a.pc
    BY <1>2, <1>6 DEF CallShape
<1>9. TargetsOf(e2) = TargetsOf(e) /\ \A t : WantedOf(e2, t) = WantedOf(e, t)
    BY <1>8 DEF TargetsOf, WantedOf
<1>10. e2.pc = "check" => e2.todo # {}
    BY <1>1, <1>2, <1>8
<1>11. /\ e2.todo \subseteq TargetsOf(e2) /\ DOMAIN e2.out \subseteq TargetsOf(e2)
       /\ e2.todo \cap DOMAIN e2.out = {}
       /\ TargetsOf(e2) \subseteq e2.todo \cup DOMAIN e2.out \cup e2.skipped
    BY <1>1, <1>3, <1>8, <1>9 DEF Calling, Active
<1>12. \A t \in DOMAIN e2.out : e2.out[t] = WantedOf(e2, t)
    <2> SUFFICES ASSUME NEW t \in DOMAIN e2.out PROVE e2.out[t] = WantedOf(e2, t)
        OBVIOUS
    <2>1. CASE t = c
        BY <1>1, <1>3, <1>8, <1>9, <2>1
    <2>2. CASE t # c
        <3>1. t \in DOMAIN e.out /\ e2.out[t] = e.out[t]
            BY <1>3, <1>8, <2>2
        <3> QED BY <1>9, <3>1 DEF Calling
    <2> QED BY <2>1, <2>2
<1>13. /\ \A f \in DOMAIN e2.idx : Plain(e2.idx[f]) \in saved[f]
       /\ ~e2.order.dry /\ (e2.skipped # {} => e2.order.overwrite = "skip")
    BY <1>8 DEF Calling, Active
<1>14. e2.pc = "ok" => e2.todo = {}
    BY <1>1, <1>2, <1>8
<1>15. e2.pc \in {"ok", "check"} /\ e2.tmp = <<>>
    BY <1>2, <1>8
<1>16. Calling(e2, saved)
    BY <1>7, <1>10, <1>11, <1>12, <1>13, <1>14, <1>15 DEF Calling, Active
<1> QED BY <1>8, <1>15, <1>16

LEMMA RenameCase ==
    ASSUME RTInv, NEW x \in Exporter, Rename(x)
    PROVE  RTInv'
<1> DEFINE e == export[x]
           c == Current(e)
           e2 == [Advance(e) EXCEPT !.out = With(@, c, e.tmp)]
<1>1. e.pc = "rename" /\ e.pc \in Active /\ UNCHANGED <<own, saved>>
    BY DEF Rename, Active
<1>2. /\ Calling(e, saved) /\ e \in CallShape /\ c \in TargetsOf(e) /\ c \in Target
      /\ c \notin DOMAIN e.out /\ ~e.order.dry /\ e.pc # "idle"
    BY <1>1, ActiveFacts
<1>3. export' = [export EXCEPT ![x] = e2] /\ dest' = [dest EXCEPT ![c] = e.tmp]
    BY DEF Rename
<1>4. /\ e.tmp = WantedOf(e, c) /\ e.tmp \in Whole /\ e.tmp # NoFile /\ e.tmp # Own
      /\ c \in File => e.tmp \in saved[c]
    <2>1. e.tmp = WantedOf(e, c)
        BY <1>1, <1>2 DEF Calling
    <2>2. WantedOf(e, c) \in Whole /\ (c \in File => WantedOf(e, c) \in saved[c])
        BY <1>2, CallFacts
    <2> QED BY <2>1, <2>2, WholeFacts
<1> HIDE DEF e, e2
<1>5. Calling(e2, saved) /\ e2.pc \in {"ok", "check"} /\ e2.order = e.order /\ e2.idx = e.idx
    BY <1>1, <1>2, RenameCalling DEF e2
<1> HIDE DEF c
<1>6. Calls'
    BY <1>1, <1>3, <1>5, CallsStep
<1>7. Goes(e, e2)
    BY <1>5 DEF Goes
<1>8. /\ e2.pc \in {"write", "rename"} /\ e2.order.overwrite # "replace" /\ Current(e2) \in own
      => Asked(Current(e2))
    BY <1>5
<1>9. /\ export'[x] = e2 /\ \A y \in Exporter \ {x} : export'[y] = export[y]
      /\ \A t : (\E y \in Exporter : Replacing(export[y], t))
                   => \E y \in Exporter : Replacing(export'[y], t)
      /\ \A v : (\E y \in Exporter : /\ export[y].pc # "idle" /\ ~export[y].order.dry
                                     /\ v = WantedOf(export[y], Archive))
                   => \E y \in Exporter : /\ export'[y].pc # "idle" /\ ~export'[y].order.dry
                                          /\ v = WantedOf(export'[y], Archive)
    BY <1>3, <1>7, Witnesses DEF e
<1>10. /\ dest \in [Target -> {NoFile, Own} \cup Whole]
       /\ \A f \in File : dest[f] \in {NoFile, Own} \cup saved[f]
       /\ dest[Archive] \notin {NoFile, Own} =>
             \E y \in Exporter : /\ export[y].pc # "idle" /\ ~export[y].order.dry
                                 /\ dest[Archive] = WantedOf(export[y], Archive)
       /\ \A t \in own : dest[t] = NoFile => \E y \in Exporter : Removing(export[y], t)
       /\ \A t \in own : dest[t] # Own => \E y \in Exporter : Replacing(export[y], t)
       /\ own \subseteq Target
    BY DEF RTInv, Destination, World
<1>11. dest' \in [Target -> {NoFile, Own} \cup Whole]
    BY <1>3, <1>4, <1>10
<1>12. dest'[c] = e.tmp /\ \A t \in Target \ {c} : dest'[t] = dest[t]
    BY <1>2, <1>3, <1>10
<1>13. \A f \in File : dest'[f] \in {NoFile, Own} \cup saved[f]
    BY <1>4, <1>10, <1>12 DEF Target
<1>14. dest'[Archive] \notin {NoFile, Own} =>
          \E y \in Exporter : /\ export'[y].pc # "idle" /\ ~export'[y].order.dry
                              /\ dest'[Archive] = WantedOf(export'[y], Archive)
    <2>1. CASE c = Archive
        <3>1. dest'[Archive] = WantedOf(export[x], Archive)
            BY <1>4, <1>12, <2>1 DEF e
        <3>2. export[x].pc # "idle" /\ ~export[x].order.dry
            BY <1>2 DEF e
        <3> QED BY <1>9, <3>1, <3>2
    <2>2. CASE c # Archive
        <3>1. dest'[Archive] = dest[Archive]
            BY <1>12, <2>2 DEF Target
        <3> QED BY <1>9, <1>10, <3>1
    <2> QED BY <2>1, <2>2
<1>15. ASSUME NEW t \in own, dest'[t] = NoFile
       PROVE  \E y \in Exporter : Removing(export'[y], t)
    <2>1. t # c /\ dest[t] = NoFile
        BY <1>4, <1>10, <1>12, <1>15
    <2>2. PICK y \in Exporter : Removing(export[y], t)
        BY <1>10, <2>1
    <2>3. y # x
        <3>1. ~Removing(e, t)
            BY <1>1, <2>1 DEF Removing, c
        <3> QED BY <2>2, <3>1 DEF e
    <2>4. export'[y] = export[y]
        BY <1>9, <2>3
    <2> QED BY <2>2, <2>4
<1>16. ASSUME NEW t \in own, dest'[t] # Own
       PROVE  \E y \in Exporter : Replacing(export'[y], t)
    <2>1. CASE t # c
        <3>1. dest[t] # Own
            BY <1>10, <1>12, <1>16, <2>1
        <3> QED BY <1>9, <1>10, <3>1
    <2>2. CASE t = c
        <3>1. CASE e.order.overwrite = "replace"
            <4>1. Replacing(export[x], t)
                BY <1>2, <2>2, <3>1 DEF Replacing, e
            <4> QED BY <1>9, <4>1
        <3>2. CASE e.order.overwrite # "replace"
            <4>1. \E y \in Exporter : Replacing(export[y], t)
                BY <1>1, <2>2, <3>2 DEF RTInv, Destination, e, c
            <4> QED BY <1>9, <4>1
        <3> QED BY <3>1, <3>2
    <2> QED BY <2>1, <2>2
<1>17. \A y \in Exporter :
          /\ export'[y].pc \in {"write", "rename"} /\ export'[y].order.overwrite # "replace"
          /\ Current(export'[y]) \in own'
          => \E z \in Exporter : Replacing(export'[z], Current(export'[y]))
    BY <1>1, <1>3, <1>7, <1>8, PolicyStep DEF e
<1>18. Destination'
    BY <1>1, <1>11, <1>13, <1>14, <1>15, <1>16, <1>17 DEF Destination
<1>19. World' /\ Indexed' /\ Putting'
    BY ExportFrame DEF Rename
<1> QED BY <1>6, <1>18, <1>19 DEF RTInv

LEMMA RTInvInit == RTInit => RTInv
<1> SUFFICES ASSUME RTInit PROVE RTInv
    OBVIOUS
<1>1. PICK there \in SUBSET File, c \in Content :
          /\ index = [f \in File |-> IF f \in there THEN Stored(c) ELSE NoFile]
          /\ saved = [f \in File |-> IF f \in there THEN {c} ELSE {}]
    BY DEF RTInit
<1>2. c \in Seq(Byte) /\ Stored(c) \in Recs /\ Plain(Stored(c)) = c
    BY RoundTripAssumption, StoredFacts
<1>3. bounds \in Bounds /\ bounds.puts \in Nat /\ bounds.edits \in Nat /\ bounds.own \subseteq SUBSET Target
    BY RoundTripAssumption DEF RTInit
<1>4. World
    <2>1. source \in [File -> Content]
        <3>1. (CHOOSE d \in Content : TRUE) \in Content
            BY <1>1
        <3> QED BY <3>1 DEF RTInit
    <2>2. own \subseteq Target /\ puts \in 0 .. bounds.puts /\ edits \in 0 .. bounds.edits
        BY <1>3 DEF RTInit
    <2> QED BY <1>3, <2>1, <2>2 DEF World
<1>5. Indexed
    <2>1. index \in [File -> Recs \cup {NoFile}] /\ saved \in [File -> SUBSET Seq(Byte)]
        BY <1>1, <1>2
    <2>2. ASSUME NEW f \in File, index[f] # NoFile
          PROVE  /\ index[f] \in Recs /\ Range(index[f].chunks) \subseteq objects
                 /\ Plain(index[f]) \in saved[f]
        <3>1. f \in there /\ index[f] = Stored(c) /\ saved[f] = {c}
            BY <1>1, <2>2
        <3>2. Range(index[f].chunks) \subseteq objects
            BY <2>2 DEF RTInit
        <3> QED BY <1>2, <3>1, <3>2
    <2> QED BY <2>1, <2>2 DEF Indexed
<1>6. Putting
    <2>1. put = NoPut /\ put.pc = "idle" /\ put.recs = <<>>
        BY DEF RTInit, NoPut
    <2>2. \A i \in 1 .. Len(put.recs) : Range(put.recs[i][2].chunks) \subseteq objects
        BY <2>1, NoPutShape
    <2> QED BY <2>1, <2>2, NoPutShape DEF Putting
<1>7. Calls
    <2>1. export = [x \in Exporter |-> NotBegun]
        BY DEF RTInit
    <2>2. Calling(NotBegun, saved) /\ NotBegun \in CallShape
        BY NotBegunCalling DEF Calling
    <2> QED BY <2>1, <2>2 DEF Calls
<1>8. Destination
    <2>1. /\ dest = [t \in Target |-> IF t \in own THEN Own ELSE NoFile]
          /\ export = [x \in Exporter |-> NotBegun] /\ NotBegun.pc = "idle"
        BY DEF RTInit, NotBegun
    <2>2. NoFile # Own /\ Archive \in Target /\ File \subseteq Target
        BY RoundTripAssumption DEF Target
    <2>3. \A t \in own : t \in Target /\ dest[t] = Own
        BY <1>4, <2>1 DEF World
    <2>4. \A t \in Target : dest[t] \in {NoFile, Own}
        BY <2>1
    <2>5. \A x \in Exporter : export[x].pc = "idle"
        BY <2>1
    <2>6. dest \in [Target -> {NoFile, Own} \cup Whole]
        BY <2>1
    <2> QED BY <2>2, <2>3, <2>4, <2>5, <2>6 DEF Destination
<1> QED BY <1>4, <1>5, <1>6, <1>7, <1>8 DEF RTInv

LEMMA WhateverRange == \A files \in Whatever : Range(files) \in SUBSET File
BY WhateverFacts, RangeOfSeq

LEMMA BeginCase ==
    ASSUME RTInv, NEW x \in Exporter, NEW kinds, Begin(x, kinds) PROVE RTInv'
<1>1. PICK order \in Order, files \in Whatever : BeginExport(x, order, Range(files))
    BY DEF Begin
<1>2. Range(files) \in SUBSET File
    BY WhateverRange
<1> QED BY <1>1, <1>2, BeginExportCase

LEMMA StutterCase == ASSUME RTInv, UNCHANGED RTvars PROVE RTInv'
<1> USE DEF RTvars
<1>1. World' /\ Indexed' /\ Putting'
    BY DEF RTInv, World, Indexed, Putting
<1>2. Calls' /\ Destination'
    BY CallsFrame DEF RTInv, Indexed
<1> QED BY <1>1, <1>2 DEF RTInv

LEMMA RTInvStep == RTInv /\ [RTNext]_RTvars => RTInv'
<1> SUFFICES ASSUME RTInv, [RTNext]_RTvars PROVE RTInv'
    OBVIOUS
<1>1. CASE \E f \in File, c \in Content : Edit(f, c)
    BY <1>1, EditCase
<1>2. CASE Put
    <2>1. CASE \E method \in Method, found \in SUBSET Runtime, files \in Whatever :
                   BeginPut(Way(method, found), files)
        BY <2>1, BeginPutCase
    <2>2. CASE Stage
        BY <2>2, StageCase
    <2>3. CASE OpenFile
        BY <2>3, OpenFileCase
    <2>4. CASE Read
        BY <2>4, ReadCase
    <2>5. CASE EndOfFile
        BY <2>5, EndOfFileCase
    <2>6. CASE SaveFileManifest
        BY <2>6, SaveFileManifestCase
    <2>7. CASE FailPut
        BY <2>7, FailPutCase
    <2> QED BY <1>2, <2>1, <2>2, <2>3, <2>4, <2>5, <2>6, <2>7 DEF Put
<1>3. CASE \E f \in File : RemovePath(f)
    BY <1>3, RemovePathCase
<1>4. CASE GarbageCollect
    BY <1>4, GarbageCollectCase
<1>5. ASSUME NEW x \in Exporter, Export(x) \/ Get(x) PROVE RTInv'
    <2>1. CASE Begin(x, {"folder", "zip"}) \/ Begin(x, {"get"})
        BY <2>1, BeginCase
    <2>2. CASE CheckOverwrite(x)
        BY <2>2, CheckOverwriteCase
    <2>3. CASE WriteTemp(x)
        BY <2>3, WriteTempCase
    <2>4. CASE RemoveTarget(x) /\ export[x].order.kind # "get"
        BY <2>4, RemoveTargetCase
    <2>5. CASE Rename(x)
        BY <2>5, RenameCase
    <2>6. CASE FailExport(x)
        BY <2>6, FailExportCase
    <2> QED BY <1>5, <2>1, <2>2, <2>3, <2>4, <2>5, <2>6 DEF Export, Get
<1>6. CASE UNCHANGED RTvars
    BY <1>6, StutterCase
<1> QED BY <1>1, <1>2, <1>3, <1>4, <1>5, <1>6 DEF RTNext

LEMMA RTInvAlways == RTSpec => []RTInv
<1> QED BY RTInvInit, RTInvStep, PTL DEF RTSpec

-----------------------------------------------------------------------------
\* Type correctness of the round trip: a put that has ended leaves nothing behind, and the
\* index names only stored chunks.
THEOREM RoundTripTypeCorrect == RTSpec => []RTTypeOK
<1>1. ASSUME RTInv PROVE RTTypeOK
    <2>1. Referenced(index) \subseteq objects
        BY <1>1 DEF RTInv, Indexed, Referenced
    <2>2. ASSUME NEW x \in Exporter
          PROVE  /\ export[x].pc \in {"idle", "check", "write", "remove", "rename", "ok", "failed"}
                 /\ export[x].pc \in {"ok", "failed"} => export[x].tmp = <<>>
        BY <1>1, <2>2 DEF RTInv, Calls, Calling, CallShape, Active
    <2>3. put.pc \in {"idle", "staging", "open", "read", "save"} /\ (put.pc = "idle" => put = NoPut)
        BY <1>1 DEF RTInv, Putting, PutShape
    <2> QED BY <1>1, <2>1, <2>2, <2>3 DEF RTInv, World, RTTypeOK
<1> QED BY <1>1, RTInvAlways, PTL

\* PutPath and ForEachChunk: whatever the reads return and whatever the user does to the
\* file meanwhile, a record's chunks are those of one content, within the sizes; a staged
\* put has its size right.
THEOREM ManifestsSound == RTSpec => []ChunksSound
<1>1. ASSUME RTInv PROVE ChunksSound
    <2> SUFFICES ASSUME NEW f \in File, index[f] # NoFile
                 PROVE  /\ IsChunking(index[f].chunks, Plain(index[f]))
                        /\ \A i \in 1 .. Len(index[f].chunks) :
                              LET n == Len(index[f].chunks[i])
                              IN n <= MaxSize /\ (i < Len(index[f].chunks) => n >= MinSize)
                        /\ index[f].method = "rsync" => index[f].size = Len(Plain(index[f]))
        BY DEF ChunksSound
    <2> DEFINE r == index[f]
    <2>1. r \in Recs
        BY <1>1 DEF RTInv, Indexed
    <2> HIDE DEF r
    <2>2. WellCut(r.chunks) /\ (r.method = "rsync" => r.size = Len(Plain(r)))
        BY <2>1 DEF Recs
    <2>3. IsChunking(r.chunks, Plain(r))
        BY <2>2, WellCutIsChunking DEF Plain
    <2>4. \A i \in 1 .. Len(r.chunks) :
             /\ Len(r.chunks[i]) <= MaxSize
             /\ i < Len(r.chunks) => Len(r.chunks[i]) >= MinSize
        BY <2>2, WellCutSizes
    <2> QED BY <2>2, <2>3, <2>4 DEF r
<1> QED BY <1>1, RTInvAlways, PTL

LEMMA RTNames ==
    ASSUME NEW x \in Exporter
    PROVE  /\ Targets(x) = TargetsOf(export[x]) /\ \A t : Wanted(x, t) = WantedOf(export[x], t)
           /\ Acting(x) <=> export[x].pc # "idle" /\ ~export[x].order.dry
BY WantedIs DEF Acting, Began

\* ExportPath and GetPath: what is at a target is the user's, or a whole content or archive,
\* and what was there is missing only under a call that has removed it.
THEOREM NothingHalfWritten == RTSpec => []DestinationWhole
<1>1. ASSUME RTInv PROVE DestinationWhole
    <2>1. \A f \in File : dest[f] \in {NoFile, Own} \cup saved[f]
        BY <1>1 DEF RTInv, Destination
    <2>2. dest[Archive] \notin {NoFile, Own} =>
             \E x \in Exporter : Acting(x) /\ dest[Archive] = Wanted(x, Archive)
        BY <1>1, RTNames DEF RTInv, Destination
    <2>3. ASSUME NEW t \in own, dest[t] = NoFile
          PROVE  \E x \in Exporter : /\ Acting(x) /\ t \in Targets(x)
                                     /\ export[x].order.overwrite = "replace"
                                     /\ export[x].pc \in {"write", "rename", "failed"}
                                     /\ t \notin DOMAIN export[x].out
        <3>1. PICK x \in Exporter : Removing(export[x], t)
            BY <1>1, <2>3 DEF RTInv, Destination
        <3>2. /\ Acting(x) /\ t \in Targets(x) /\ export[x].order.overwrite = "replace"
            BY <3>1, RTNames DEF Removing, Replacing
        <3>3. /\ export[x].pc \in {"write", "rename", "failed"} /\ t \notin DOMAIN export[x].out
            BY <3>1 DEF Removing
        <3> QED BY <3>2, <3>3
    <2> QED BY <2>1, <2>2, <2>3 DEF DestinationWhole
<1> QED BY <1>1, RTInvAlways, PTL

\* The overwrite policies of an export: a file of the user's is gone only if some call was
\* asked to replace it.
THEOREM PoliciesKept == RTSpec => []PolicyKept
<1>1. ASSUME RTInv PROVE PolicyKept
    <2>1. ASSUME NEW t \in own, dest[t] # Own
          PROVE  \E x \in Exporter : Acting(x) /\ t \in Targets(x)
                                     /\ export[x].order.overwrite = "replace"
        <3>1. PICK x \in Exporter : Replacing(export[x], t)
            BY <1>1, <2>1 DEF RTInv, Destination
        <3>2. Acting(x) /\ t \in Targets(x) /\ export[x].order.overwrite = "replace"
            BY <3>1, RTNames DEF Replacing
        <3> QED BY <3>2
    <2> QED BY <2>1 DEF PolicyKept
<1> QED BY <1>1, RTInvAlways, PTL

\* The answer of an export: without an error it has placed every file it found, or skipped
\* it under the skip policy; a dry run has placed nothing.
THEOREM AnswersTrue == RTSpec => []ResultTrue
<1>1. ASSUME RTInv PROVE ResultTrue
    <2> SUFFICES ASSUME NEW x \in Exporter
                 PROVE  IF export[x].order.dry THEN export[x].out = <<>>
                        ELSE export[x].pc = "ok" =>
                            \A t \in Targets(x) :
                                \/ t \in DOMAIN export[x].out /\ export[x].out[t] = Wanted(x, t)
                                \/ t \in export[x].skipped /\ export[x].order.overwrite = "skip"
        BY DEF ResultTrue
    <2> DEFINE e == export[x]
    <2>1. Calling(e, saved)
        BY <1>1 DEF RTInv, Calls
    <2>2. Targets(x) = TargetsOf(e) /\ \A t : Wanted(x, t) = WantedOf(e, t)
        BY RTNames
    <2> HIDE DEF e
    <2>3. e.order.dry => e.out = <<>>
        BY <2>1 DEF Calling
    <2>4. ASSUME ~e.order.dry, e.pc = "ok", NEW t \in TargetsOf(e)
          PROVE  \/ t \in DOMAIN e.out /\ e.out[t] = WantedOf(e, t)
                 \/ t \in e.skipped /\ e.order.overwrite = "skip"
        <3>1. t \in DOMAIN e.out \/ t \in e.skipped
            BY <2>1, <2>4 DEF Calling
        <3> QED BY <2>1, <3>1 DEF Calling
    <2> QED BY <2>2, <2>3, <2>4 DEF e
<1> QED BY <1>1, RTInvAlways, PTL

-----------------------------------------------------------------------------
(* The runtimes                                                            *)

LEMMA BinaryType == \A b \in Binary : b # None /\ b.version \in Version /\ b.build \in Build
BY TornAssumption DEF Binary

LEMMA RecordType ==
    /\ Empty \in Manifest
    /\ \A m \in Manifest : Rolled(m) \in Manifest
    /\ \A m \in Manifest, b \in Binary : Activated(m, b) \in Manifest
BY DEF Empty, Manifest, Rolled, Activated

\* The steps, each once, whichever command or tool they belong to.
LEMMA StepCases ==
    ASSUME [Next]_vars
    PROVE  \/ UNCHANGED vars
           \/ \E p \in Manager, b \in Binary : BeginInstall(p, b)
           \/ \E p \in Manager, clear \in BOOLEAN : Replace(p, clear)
           \/ \E p \in Manager : \/ RcloneOpen(p) \/ RcloneWrite(p) \/ RcloneRename(p)
                                 \/ RsyncOpen(p) \/ RsyncWrite(p)
                                 \/ Hash(p) \/ SaveManifest(p) \/ Fail(p)
           \/ \E p \in Manager : OpenManifest(p) \/ WriteManifest(p)
           \/ \E p \in Manager : Resave(p, manifest) \/ Rollback(p)
           \/ \E u \in User : Resolved(u) \/ Execute(u)
BY DEF Next, RcloneCommand, RsyncCommand, RcloneLatest, RsyncStatus, InstallRclone,
       InstallRsync, RcloneReplace, RsyncReplace, RcloneRegister, RsyncRegister,
       RcloneBinaryPath, RsyncBinaryPath

LEMMA WorldKept == [Next]_vars => world' = world
BY StepCases DEF vars, BeginInstall, Replace, RcloneOpen, RcloneWrite, RcloneRename, RsyncOpen,
       RsyncWrite, Copying, Hash, OpenManifest, WriteManifest, SaveManifest, Saving, Fail, Resave,
       Rollback, Resolved, Execute

-----------------------------------------------------------------------------
(* Type correctness                                                        *)

\* An installation has an executable, no two have the same version, and only a user
\* has resolved one.
Installing == {"staging", "opening", "copying", "copied", "installed"}

Installers ==
    /\ \A p \in Manager : /\ pc[p] # "resolved"
                          /\ pc[p] \in Installing => binary[p] \in Binary
    /\ \A u \in User : pc[u] \in {"idle", "resolved"}
    /\ \A p, q \in Manager : p # q /\ binary[p] # None /\ binary[q] # None =>
                              binary[p].version # binary[q].version

TypeInv == TypeOK /\ Installers

LEMMA InitTypeInv == Init => TypeInv
BY RecordType, RuntimesAssumption, TornAssumption DEF Init, TypeInv, TypeOK, Bytes, Installers, Installing

LEMMA StepTypeInv == TypeInv /\ [Next]_vars => TypeInv'
<1> SUFFICES ASSUME TypeInv, [Next]_vars PROVE TypeInv'
    OBVIOUS
<1> USE RuntimesAssumption DEF TypeInv, Installers, Installing
<1>1. CASE UNCHANGED vars
    BY <1>1 DEF TypeOK, vars
<1>2. ASSUME NEW p \in Manager, NEW b \in Binary, BeginInstall(p, b) PROVE TypeInv'
    <2>1. (IF Loads THEN manifest ELSE Empty) \in Manifest
        BY RecordType DEF TypeOK, Loads
    <2> QED BY <1>2, <2>1 DEF TypeOK, BeginInstall, Idle
<1>3. ASSUME NEW p \in Manager, NEW clear \in BOOLEAN, Replace(p, clear) PROVE TypeInv'
    <2>1. binary[p].version \in Version
        BY <1>3, BinaryType DEF TypeOK, Replace
    <2> QED BY <1>3, <2>1 DEF TypeOK, Replace, Bytes
<1>4. ASSUME NEW p \in Manager, RcloneOpen(p) \/ RcloneWrite(p) PROVE TypeInv'
    <2>1. binary[p].version \in Version /\ binary[p].build \in Build
        BY <1>4, BinaryType DEF TypeOK, RcloneOpen, RcloneWrite, Copying
    <2> QED BY <1>4, <2>1 DEF TypeOK, RcloneOpen, RcloneWrite, Copying, Bytes
<1>5. ASSUME NEW p \in Manager, RcloneRename(p) PROVE TypeInv'
    <2>1. binary[p].version \in Version
        BY <1>5, BinaryType DEF TypeOK, RcloneRename, Copying
    <2> QED BY <1>5, <2>1 DEF TypeOK, RcloneRename, Copying, Bytes
<1>6. ASSUME NEW p \in Manager, RsyncOpen(p) \/ RsyncWrite(p) PROVE TypeInv'
    <2>1. binary[p].version \in Version /\ binary[p].build \in Build
        BY <1>6, BinaryType DEF TypeOK, RsyncOpen, RsyncWrite, Copying
    <2> QED BY <1>6, <2>1 DEF TypeOK, RsyncOpen, RsyncWrite, Copying, Bytes
<1>7. ASSUME NEW p \in Manager, Hash(p) PROVE TypeInv'
    <2>1. Activated(record[p], binary[p]) \in Manifest
        BY <1>7, RecordType DEF TypeOK, Hash
    <2> QED BY <1>7, <2>1 DEF TypeOK, Hash
<1>8. ASSUME NEW p \in Manager, Resave(p, manifest) \/ Rollback(p) PROVE TypeInv'
    <2>1. PICK m \in Manifest : Resave(p, m)
        BY <1>8, RecordType DEF TypeOK, Resave, Rollback, Loads
    <2> QED BY <2>1 DEF TypeOK, Resave, Idle
<1>9. ASSUME NEW p \in Manager, OpenManifest(p) \/ WriteManifest(p) PROVE TypeInv'
    BY <1>9 DEF TypeOK, OpenManifest, WriteManifest, Saving
<1>10. ASSUME NEW p \in Manager, SaveManifest(p) PROVE TypeInv'
    <2>1. Draft(p) \in Manager \cup {None}
        BY DEF Draft
    <2>2. manifest' \in Manifest \cup {Torn}
        BY <1>10, <2>1 DEF TypeOK, SaveManifest
    <2> QED BY <1>10, <2>2, RecordType DEF TypeOK, SaveManifest, Saving
<1>11. ASSUME NEW p \in Manager, Fail(p) PROVE TypeInv'
    <2>1. tmp' \in [Version -> Bytes]
        BY <1>11 DEF TypeOK, Fail, Bytes
    <2> QED BY <1>11, <2>1, RecordType DEF TypeOK, Fail
<1>12. ASSUME NEW u \in User, Resolved(u) PROVE TypeInv'
    <2>1. manifest.active \in Binary \cup {None}
        BY <1>12 DEF TypeOK, Resolved, Loads, Manifest
    <2> QED BY <1>12, <2>1 DEF TypeOK, Resolved
<1>13. ASSUME NEW u \in User, Execute(u) PROVE TypeInv'
    BY <1>13 DEF TypeOK, Execute
<1> QED BY <1>1, <1>2, <1>3, <1>4, <1>5, <1>6, <1>7, <1>8, <1>9, <1>10, <1>11, <1>12, <1>13, StepCases

\* Every variable keeps its type, and nothing loaded outlives its operation
\* (the Manifest values of one Install, rclonebin.go:311).
THEOREM TypeCorrect == Spec => []TypeOK
<1>1. TypeInv => TypeOK
    BY DEF TypeInv
<1> QED BY InitTypeInv, StepTypeInv, <1>1, PTL DEF Spec

-----------------------------------------------------------------------------
(* The recorded runtimes can be used.  This is not inductive: a manifest   *)
(* that is about to be saved has to be sound before it is, the executable  *)
(* that it installs has to be in place by then, and its temporary file has *)
(* to hold it when it is renamed.                                          *)

\* How far each installation has come: the executables of its version are given up
\* until the new one is in place.
Saves == {"saving", "writing", "written"}

Progress ==
    \A p \in Manager :
        /\ pc[p] \in Installing \ {"staging"} =>
               \A b \in Binary : b.version = binary[p].version => b \in spoiled
        /\ pc[p] = "copied" => Rclone /\ tmp[binary[p].version] = binary[p].build
        /\ pc[p] \in Saves \cup {"installed"} /\ binary[p] # None =>
               exe[binary[p].version] = binary[p].build

\* Half an executable is one that rsync is writing, or was when it was broken off.
TornKnown == \A b \in Binary : exe[b.version] = "torn" => Rsync /\ b \in spoiled

\* What has been loaded or is about to be saved is as sound as what is recorded.
RecordsSound == \A p \in Manager : Sound(record[p].active) /\ Sound(record[p].previous)

\* A manifest without an active runtime is empty, so that users resolve a runtime.
Known(m) == m = Empty \/ m.active \in Binary

ActiveKnown ==
    /\ Known(manifest) /\ \A p \in Manager : Known(record[p])
    /\ \A u \in User : pc[u] = "resolved" => binary[u] \in Binary

\* Managers of rsync, which share the temporary name, take turns.
Turns == Serial => \A p, q \in Manager : pc[p] # "idle" /\ pc[q] # "idle" => p = q

\* A temporary file that is about to be renamed holds what its manager saves.
Drafts == \A p \in Manager : pc[p] = "written" => draft[Draft(p)] = record[p]

IInv ==
    /\ TypeInv /\ ManifestReadable /\ RecordedUsable
    /\ Progress /\ TornKnown /\ RecordsSound /\ ActiveKnown
    /\ Turns /\ Drafts

LEMMA StepTurns == TypeInv /\ Turns /\ [Next]_vars => Turns'
<1> SUFFICES ASSUME TypeOK, Turns, [Next]_vars, Serial PROVE Turns'
    BY WorldKept DEF TypeInv, Turns, Serial
<1> USE RuntimesAssumption
<1>1. \/ \A p \in Manager : pc'[p] # "idle" => pc[p] # "idle"
      \/ \A p, q \in Manager : pc'[p] # "idle" /\ pc'[q] # "idle" => p = q
    <2>1. CASE UNCHANGED vars
        BY <2>1 DEF vars
    <2>2. ASSUME NEW p \in Manager,
                 \/ \E b \in Binary : BeginInstall(p, b)
                 \/ Resave(p, manifest) \/ Rollback(p)
          PROVE  \A o, q \in Manager : pc'[o] # "idle" /\ pc'[q] # "idle" => o = q
        BY <2>2 DEF BeginInstall, Resave, Rollback, Idle, TypeOK
    <2>3. ASSUME NEW p \in Manager, pc[p] # "idle", NEW to, pc' = [pc EXCEPT ![p] = to]
          PROVE  \A q \in Manager : pc'[q] # "idle" => pc[q] # "idle"
        BY <2>3 DEF TypeOK
    <2>4. ASSUME NEW p \in Manager,
                 \/ \E clear \in BOOLEAN : Replace(p, clear)
                 \/ RcloneOpen(p) \/ RcloneWrite(p) \/ RcloneRename(p)
                 \/ RsyncOpen(p) \/ RsyncWrite(p)
                 \/ Hash(p) \/ SaveManifest(p) \/ Fail(p) \/ OpenManifest(p) \/ WriteManifest(p)
          PROVE  \A q \in Manager : pc'[q] # "idle" => pc[q] # "idle"
        <3>1. pc[p] # "idle" /\ \E to : pc' = [pc EXCEPT ![p] = to]
            BY <2>4 DEF Replace, RcloneOpen, RcloneWrite, RcloneRename, RsyncOpen, RsyncWrite,
                Copying, Hash, OpenManifest, WriteManifest, SaveManifest, Saving, Fail
        <3> QED BY <3>1, <2>3
    <2>5. ASSUME NEW u \in User, Resolved(u) \/ Execute(u)
          PROVE  \A q \in Manager : pc'[q] # "idle" => pc[q] # "idle"
        BY <2>5 DEF Resolved, Execute, TypeOK
    <2> QED BY <2>1, <2>2, <2>4, <2>5, StepCases
<1> QED BY <1>1, WorldKept DEF Turns, Serial

\* A manager that renames its temporary file shares its name with no busy one.
LEMMA OwnDraft ==
    ASSUME TypeInv, Turns, NEW p \in Manager, NEW q \in Manager, p # q,
           pc[p] # "idle", pc[q] # "idle"
    PROVE  Draft(p) # Draft(q)
<1>1. CASE Rclone
    BY <1>1 DEF Draft
<1>2. CASE ~Rclone
    <2>1. Serial
        <3>1. world \in {<<"rclone", TRUE>>, <<"rclone", FALSE>>, <<"rsync", TRUE>>}
            BY RuntimesAssumption DEF TypeInv, TypeOK
        <3>a. \A turns : <<"rclone", turns>>[1] = "rclone"
            OBVIOUS
        <3>2. world # <<"rclone", TRUE>> /\ world # <<"rclone", FALSE>>
            BY <1>2, <3>a DEF Rclone
        <3>3. world = <<"rsync", TRUE>>
            BY <3>1, <3>2
        <3> QED BY <3>3 DEF Serial
    <2> QED BY <2>1 DEF Turns
<1> QED BY <1>1, <1>2

LEMMA StepDrafts == TypeInv /\ Turns /\ Drafts /\ [Next]_vars => Drafts'
<1> SUFFICES ASSUME TypeInv, Turns, Drafts, [Next]_vars, NEW q \in Manager, pc'[q] = "written"
             PROVE  draft'[Draft(q)'] = record'[q]
    BY DEF Drafts
<1> USE RuntimesAssumption
<1>w. Draft(q)' = Draft(q)
    BY WorldKept DEF Draft, Rclone
<1>t. TypeOK /\ Draft(q) \in Manager \cup {None}
    BY DEF TypeInv, Draft
<1>k. ASSUME pc[q] = "written", draft'[Draft(q)] = draft[Draft(q)], record'[q] = record[q]
      PROVE  draft'[Draft(q)'] = record'[q]
    BY <1>k, <1>w DEF Drafts
<1>1. CASE UNCHANGED vars
    BY <1>1, <1>k DEF vars
<1>2. ASSUME NEW p \in Manager, NEW b \in Binary, BeginInstall(p, b)
      PROVE  draft'[Draft(q)'] = record'[q]
    BY <1>2, <1>t, <1>k DEF BeginInstall, TypeOK
<1>3. ASSUME NEW p \in Manager, NEW clear \in BOOLEAN, Replace(p, clear)
      PROVE  draft'[Draft(q)'] = record'[q]
    BY <1>3, <1>t, <1>k DEF Replace, TypeOK
<1>4. ASSUME NEW p \in Manager,
             \/ RcloneOpen(p) \/ RcloneWrite(p) \/ RcloneRename(p) \/ RsyncOpen(p) \/ RsyncWrite(p)
      PROVE  draft'[Draft(q)'] = record'[q]
    BY <1>4, <1>t, <1>k DEF RcloneOpen, RcloneWrite, RcloneRename, RsyncOpen, RsyncWrite,
        Copying, TypeOK
<1>5. ASSUME NEW p \in Manager, Hash(p) PROVE draft'[Draft(q)'] = record'[q]
    BY <1>5, <1>t, <1>k DEF Hash, TypeOK
<1>6. ASSUME NEW p \in Manager, Resave(p, manifest) \/ Rollback(p)
      PROVE  draft'[Draft(q)'] = record'[q]
    BY <1>6, <1>t, <1>k DEF Resave, Rollback, TypeOK
<1>7. ASSUME NEW p \in Manager, WriteManifest(p), p = q PROVE draft'[Draft(q)'] = record'[q]
    BY <1>7, <1>t, <1>w DEF WriteManifest, TypeOK
<1>8. ASSUME NEW p \in Manager, p # q,
             OpenManifest(p) \/ WriteManifest(p) \/ SaveManifest(p) \/ Fail(p)
      PROVE  draft'[Draft(q)'] = record'[q]
    <2>1. pc[p] # "idle" /\ pc[q] = "written" /\ record'[q] = record[q]
        BY <1>8, <1>t DEF OpenManifest, WriteManifest, SaveManifest, Saving, Fail, TypeOK
    <2>2. Draft(p) # Draft(q)
        BY <1>8, <2>1, OwnDraft
    <2>3. draft'[Draft(q)] = draft[Draft(q)]
        BY <1>8, <2>2, <1>t DEF OpenManifest, WriteManifest, SaveManifest, Fail, TypeOK
    <2> QED BY <2>1, <2>3, <1>k
<1>9. ASSUME NEW p \in Manager, p = q, OpenManifest(p) \/ SaveManifest(p) \/ Fail(p) PROVE FALSE
    BY <1>9, <1>t DEF OpenManifest, SaveManifest, Saving, Fail, TypeOK
<1>10. ASSUME NEW u \in User, Resolved(u) \/ Execute(u) PROVE draft'[Draft(q)'] = record'[q]
    BY <1>10, <1>t, <1>k DEF Resolved, Execute, TypeOK
<1> QED BY <1>1, <1>2, <1>3, <1>4, <1>5, <1>6, <1>7, <1>8, <1>9, <1>10, StepCases

LEMMA InitIInv == Init => IInv
<1> SUFFICES ASSUME Init PROVE IInv
    OBVIOUS
<1>1. TypeInv /\ ManifestReadable
    BY InitTypeInv, RecordType, TornAssumption DEF Init, ManifestReadable
<1>2. RecordedUsable /\ RecordsSound
    BY DEF Init, RecordedUsable, RecordsSound, Sound, Empty
<1>3. Progress /\ TornKnown /\ ActiveKnown
    BY RuntimesAssumption, BinaryType DEF Init, Progress, TornKnown, ActiveKnown, Known, Installing, Saves
<1>4. Turns /\ Drafts
    BY DEF Init, Turns, Drafts
<1> QED BY <1>1, <1>2, <1>3, <1>4 DEF IInv

\* A step spares what is sound: of the executables that are not being installed none
\* changes, and an installation that ends leaves the one it installs.
Spares ==
    \A b \in Binary \ spoiled' :
        \/ exe'[b.version] = b.build
        \/ b \notin spoiled /\ exe'[b.version] = exe[b.version]

LEMMA SoundKept ==
    ASSUME Spares, NEW b \in Binary \cup {None}, Sound(b)
    PROVE  Sound(b)'
BY DEF Spares, Sound, Verifies

\* Such a step keeps sound what has been recorded or loaded.
LEMMA SameManifests ==
    ASSUME IInv, Spares, manifest' = manifest, record' = record
    PROVE  ManifestReadable' /\ RecordedUsable' /\ RecordsSound'
<1>1. ManifestReadable'
    BY DEF IInv, ManifestReadable
<1>2. manifest \in Manifest /\ record \in [Manager -> Manifest]
    BY DEF IInv, TypeInv, TypeOK, ManifestReadable
<1>3. RecordedUsable'
    BY <1>2, SoundKept DEF IInv, RecordedUsable, ManifestReadable, Manifest
<1>4. RecordsSound'
    BY <1>2, SoundKept DEF IInv, RecordsSound, Manifest
<1> QED BY <1>1, <1>3, <1>4

LEMMA StepIInv == IInv /\ [Next]_vars => IInv'
<1> SUFFICES ASSUME IInv, [Next]_vars PROVE IInv'
    OBVIOUS
<1> USE RuntimesAssumption
<1>0. TypeInv' /\ Turns' /\ Drafts'
    BY StepTypeInv, StepTurns, StepDrafts DEF IInv
<1>t. TypeOK /\ TypeOK' /\ Installers
    BY <1>0 DEF IInv, TypeInv
<1>m. manifest \in Manifest /\ manifest # Torn /\ record \in [Manager -> Manifest]
    BY <1>t DEF IInv, TypeOK, ManifestReadable
<1> DEFINE Others == ManifestReadable' /\ RecordedUsable' /\ RecordsSound'
<1>1. CASE UNCHANGED vars
    BY <1>1, <1>0 DEF vars, IInv, ManifestReadable, RecordedUsable, Progress, TornKnown,
        RecordsSound, ActiveKnown, Sound, Verifies, Rclone, Rsync
<1>2. ASSUME NEW p \in Manager, NEW b \in Binary, BeginInstall(p, b) PROVE IInv'
    <2> DEFINE m == IF Loads THEN manifest ELSE Empty
    <2>1. /\ pc' = [pc EXCEPT ![p] = "staging"] /\ binary' = [binary EXCEPT ![p] = b]
          /\ record' = [record EXCEPT ![p] = m]
          /\ UNCHANGED <<world, exe, tmp, manifest, draft, spoiled>>
        BY <1>2 DEF BeginInstall
    <2>2. m = manifest
        BY <1>m DEF Loads
    <2>3. ManifestReadable' /\ RecordedUsable' /\ TornKnown'
        BY <2>1 DEF IInv, ManifestReadable, RecordedUsable, TornKnown, Sound, Verifies, Rsync
    <2>4. RecordsSound'
        BY <2>1, <2>2, <1>m DEF IInv, RecordsSound, RecordedUsable, Sound, Verifies
    <2>5. Progress'
        BY <2>1, <1>t DEF IInv, Progress, Saves, Installing, Rclone, TypeOK
    <2>6. ActiveKnown'
        BY <2>1, <2>2, <1>t, <1>m DEF IInv, ActiveKnown, Known, TypeOK, Installers
    <2> QED BY <1>0, <2>3, <2>4, <2>5, <2>6 DEF IInv
<1>3. ASSUME NEW p \in Manager, NEW clear \in BOOLEAN, Replace(p, clear) PROVE IInv'
    <2>1. binary[p] \in Binary /\ pc[p] = "staging"
        BY <1>3, <1>t DEF Replace, Installers, Installing
    <2>2. Others
        BY <1>3, SameManifests, <1>t DEF Replace, Spares, TypeOK
    <2>3. Progress'
        BY <1>3, <2>1, <1>t, BinaryType DEF IInv, Progress, Saves, Replace, Installing, Rclone, TypeOK, Installers
    <2>4. TornKnown'
        BY <1>3, <2>1, <1>t DEF IInv, TornKnown, Replace, TypeOK, Rsync
    <2>5. ActiveKnown'
        BY <1>3, <2>1, <1>t DEF IInv, ActiveKnown, Replace, TypeOK, Installers
    <2> QED BY <1>0, <2>2, <2>3, <2>4, <2>5 DEF IInv
<1>4. ASSUME NEW p \in Manager, RcloneOpen(p) \/ RcloneWrite(p) PROVE IInv'
    <2>1. binary[p] \in Binary /\ pc[p] \in Installing
        BY <1>4, <1>t DEF RcloneOpen, RcloneWrite, Copying, Installers, Installing
    <2>2. Others
        BY <1>4, SameManifests DEF RcloneOpen, RcloneWrite, Copying, Spares
    <2>3. Progress'
        BY <1>4, <2>1, <1>t, BinaryType DEF IInv, Progress, RcloneOpen, RcloneWrite, Copying, Saves, Installing,
            Rclone, TypeOK, Installers
    <2>4. TornKnown' /\ ActiveKnown'
        BY <1>4, <2>1, <1>t DEF IInv, TornKnown, ActiveKnown, RcloneOpen, RcloneWrite, Copying,
            TypeOK, Installers, Rsync
    <2> QED BY <1>0, <2>2, <2>3, <2>4 DEF IInv
<1>5. ASSUME NEW p \in Manager, RcloneRename(p) PROVE IInv'
    <2>1. /\ binary[p] \in Binary /\ pc[p] = "copied" /\ tmp[binary[p].version] = binary[p].build
          /\ \A b \in Binary : b.version = binary[p].version => b \in spoiled
        BY <1>5, <1>t DEF IInv, Progress, RcloneRename, Copying, Installers, Installing
    <2>2. Others
        BY <1>5, <2>1, <1>t, SameManifests DEF RcloneRename, Copying, Spares, TypeOK
    <2>3. Progress'
        BY <1>5, <2>1, <1>t, BinaryType DEF IInv, Progress, RcloneRename, Copying, Saves, Installing,
            Rclone, TypeOK, Installers
    <2>4. TornKnown' /\ ActiveKnown'
        BY <1>5, <2>1, <1>t, BinaryType DEF IInv, TornKnown, ActiveKnown, RcloneRename, Copying,
            TypeOK, Installers, Rsync
    <2> QED BY <1>0, <2>2, <2>3, <2>4 DEF IInv
<1>6. ASSUME NEW p \in Manager, RsyncOpen(p) \/ RsyncWrite(p) PROVE IInv'
    <2>1. /\ binary[p] \in Binary /\ pc[p] \in {"opening", "copying"} /\ Rsync
          /\ \A b \in Binary : b.version = binary[p].version => b \in spoiled
        BY <1>6, <1>t DEF IInv, Progress, RsyncOpen, RsyncWrite, Copying, Installers, Installing
    <2>2. Others
        BY <1>6, <2>1, <1>t, BinaryType, SameManifests DEF RsyncOpen, RsyncWrite, Copying, Spares, TypeOK
    <2>3. Progress'
        BY <1>6, <2>1, <1>t, BinaryType DEF IInv, Progress, RsyncOpen, RsyncWrite, Copying, Saves, Installing,
            Rclone, TypeOK, Installers
    <2>4. TornKnown' /\ ActiveKnown'
        BY <1>6, <2>1, <1>t, BinaryType DEF IInv, TornKnown, ActiveKnown, RsyncOpen, RsyncWrite, Copying,
            TypeOK, Installers, Rsync
    <2> QED BY <1>0, <2>2, <2>3, <2>4 DEF IInv
<1>7. ASSUME NEW p \in Manager, Hash(p) PROVE IInv'
    <2> DEFINE m == Activated(record[p], binary[p])
    <2>1. /\ pc[p] = "installed" /\ pc' = [pc EXCEPT ![p] = "saving"]
          /\ record' = [record EXCEPT ![p] = m]
          /\ UNCHANGED <<world, exe, tmp, manifest, draft, binary, spoiled>>
        BY <1>7 DEF Hash
    <2>2. binary[p] \in Binary /\ exe[binary[p].version] = binary[p].build
        BY <2>1, <1>t, BinaryType DEF IInv, Progress, Installers, Installing
    <2>3. m.active = binary[p] /\ m.previous = record[p].active
        BY DEF Activated
    <2> HIDE DEF m
    <2>4. ManifestReadable' /\ RecordedUsable' /\ TornKnown'
        BY <2>1 DEF IInv, ManifestReadable, RecordedUsable, TornKnown, Sound, Verifies, Rsync
    <2>5. RecordsSound'
        BY <2>1, <2>2, <2>3, <1>m DEF IInv, RecordsSound, Sound, Verifies
    <2>6. Progress'
        BY <2>1, <2>2, <1>t DEF IInv, Progress, Saves, Installing, Rclone, TypeOK
    <2>7. ActiveKnown'
        BY <2>1, <2>2, <2>3, <1>t, <1>m DEF IInv, ActiveKnown, Known, TypeOK, Installers
    <2> QED BY <1>0, <2>4, <2>5, <2>6, <2>7 DEF IInv
<1>8. ASSUME NEW p \in Manager, Resave(p, manifest) \/ Rollback(p) PROVE IInv'
    <2>1. PICK m \in {manifest, Rolled(manifest)} :
              Resave(p, m) /\ (m = Rolled(manifest) => m = manifest \/ manifest.previous # None)
        BY <1>8 DEF Rollback
    <2>2. /\ pc[p] = "idle" /\ pc' = [pc EXCEPT ![p] = "saving"]
          /\ record' = [record EXCEPT ![p] = m]
          /\ UNCHANGED <<world, exe, tmp, manifest, draft, binary, spoiled>>
        BY <2>1 DEF Resave, Idle
    <2>3. Sound(m.active) /\ Sound(m.previous) /\ Known(m)
        BY <2>1, <1>m DEF IInv, RecordedUsable, ActiveKnown, Known, Rolled, Manifest
    <2> HIDE DEF Others
    <2>4. ManifestReadable' /\ RecordedUsable' /\ TornKnown'
        BY <2>2 DEF IInv, ManifestReadable, RecordedUsable, TornKnown, Sound, Verifies, Rsync
    <2>5. RecordsSound'
        BY <2>2, <2>3, <1>m DEF IInv, RecordsSound, Sound, Verifies
    <2>6. Progress'
        BY <2>2, <1>t DEF IInv, Progress, Saves, Installing, Rclone, TypeOK
    <2>7. ActiveKnown'
        BY <2>2, <2>3, <1>t, <1>m DEF IInv, ActiveKnown, Known, TypeOK, Installers
    <2> QED BY <1>0, <2>4, <2>5, <2>6, <2>7 DEF IInv
<1>9. ASSUME NEW p \in Manager, OpenManifest(p) \/ WriteManifest(p) PROVE IInv'
    <2>1. Others
        BY <1>9, SameManifests DEF OpenManifest, WriteManifest, Saving, Spares
    <2>2. Progress' /\ TornKnown' /\ ActiveKnown'
        BY <1>9, <1>t DEF IInv, Progress, Saves, TornKnown, ActiveKnown, OpenManifest, WriteManifest,
            Saving, Installing, Rclone, Rsync, TypeOK, Installers
    <2> QED BY <1>0, <2>1, <2>2 DEF IInv
<1>10. ASSUME NEW p \in Manager, SaveManifest(p) PROVE IInv'
    <2>1. /\ pc[p] = "written" /\ pc' = [pc EXCEPT ![p] = "idle"]
          /\ manifest' = record[p] /\ binary' = [binary EXCEPT ![p] = None]
          /\ record' = [record EXCEPT ![p] = Empty] /\ spoiled' = spoiled \ {binary[p]}
          /\ UNCHANGED <<world, exe, tmp>>
        BY <1>10 DEF IInv, Drafts, SaveManifest, Saving
    <2>2. Spares
        <3>1. binary[p] # None => exe[binary[p].version] = binary[p].build
            BY <2>1 DEF IInv, Progress, Saves
        <3>2. ASSUME NEW b \in Binary \ spoiled'
              PROVE  exe'[b.version] = b.build \/ (b \notin spoiled /\ exe'[b.version] = exe[b.version])
            <4>1. CASE b = binary[p]
                BY <4>1, <3>1, <2>1, BinaryType
            <4>2. CASE b # binary[p]
                BY <4>2, <3>2, <2>1
            <4> QED BY <4>1, <4>2
        <3> QED BY <3>2 DEF Spares
    <2>3. record[p] \in Manifest
        BY <1>m
    <2>4. ManifestReadable'
        BY <2>1, <2>3, TornAssumption DEF ManifestReadable
    <2>5. RecordedUsable'
        BY <2>1, <2>2, <2>3, SoundKept DEF IInv, RecordsSound, RecordedUsable, Manifest
    <2>6. RecordsSound'
        <3>1. ASSUME NEW q \in Manager PROVE Sound(record[q].active)' /\ Sound(record[q].previous)'
            <4>1. CASE q = p
                BY <4>1, <2>1, <1>m DEF Sound, Empty
            <4>2. CASE q # p
                <5>1. record'[q] = record[q] /\ record[q] \in Manifest
                    BY <4>2, <2>1, <1>m
                <5>2. Sound(record[q].active) /\ Sound(record[q].previous)
                    BY DEF IInv, RecordsSound
                <5> QED BY <5>1, <5>2, <2>2, SoundKept DEF Manifest
            <4> QED BY <4>1, <4>2
        <3> QED BY <3>1 DEF RecordsSound
    <2>7. Progress'
        BY <2>1, <1>t, BinaryType DEF IInv, Progress, Saves, Installing, Rclone, TypeOK, Installers
    <2>8. TornKnown'
        <3>1. binary[p] # None => exe[binary[p].version] = binary[p].build
            BY <2>1 DEF IInv, Progress, Saves
        <3>2. \A b \in Binary : b.build # "torn"
            BY BinaryType
        <3> QED BY <3>1, <3>2, <2>1, BinaryType DEF IInv, TornKnown, Rsync
    <2>9. ActiveKnown'
        BY <2>1, <1>t, <1>m DEF IInv, ActiveKnown, Known, TypeOK, Installers
    <2> QED BY <1>0, <2>4, <2>5, <2>6, <2>7, <2>8, <2>9 DEF IInv
<1>11. ASSUME NEW p \in Manager, Fail(p) PROVE IInv'
    <2>1. /\ pc[p] # "idle" /\ pc' = [pc EXCEPT ![p] = "idle"]
          /\ binary' = [binary EXCEPT ![p] = None]
          /\ record' = [record EXCEPT ![p] = Empty]
          /\ tmp' = IF binary[p] = None THEN tmp ELSE [tmp EXCEPT ![binary[p].version] = "missing"]
          /\ UNCHANGED <<world, exe, manifest, spoiled>>
        BY <1>11 DEF Fail
    <2>2. ManifestReadable' /\ RecordedUsable' /\ TornKnown'
        BY <2>1 DEF IInv, ManifestReadable, RecordedUsable, TornKnown, Sound, Verifies, Rsync
    <2>3. RecordsSound'
        BY <2>1, <1>m DEF IInv, RecordsSound, Sound, Verifies, Empty
    <2>4. Progress'
        BY <2>1, <1>t, BinaryType DEF IInv, Progress, Saves, Installing, Rclone, TypeOK, Installers
    <2>5. ActiveKnown'
        BY <2>1, <1>t, <1>m DEF IInv, ActiveKnown, Known, TypeOK, Installers
    <2> QED BY <1>0, <2>2, <2>3, <2>4, <2>5 DEF IInv
<1>12. ASSUME NEW u \in User, Resolved(u) \/ Execute(u) PROVE IInv'
    <2>1. Others
        BY <1>12, SameManifests DEF Resolved, Execute, Spares
    <2>2. Progress' /\ TornKnown'
        BY <1>12, <1>t DEF IInv, Progress, Saves, TornKnown, Resolved, Execute, Installing, Rclone,
            Rsync, TypeOK
    <2>3. ActiveKnown'
        BY <1>12, <1>t, <1>m DEF IInv, ActiveKnown, Known, Resolved, Execute, Loads, TypeOK
    <2> QED BY <1>0, <2>1, <2>2, <2>3 DEF IInv
<1> QED BY <1>1, <1>2, <1>3, <1>4, <1>5, <1>6, <1>7, <1>8, <1>9, <1>10, <1>11, <1>12, StepCases

\* A kill never leaves a runtime.json that no later command can load, and neither do
\* several managers of rclone at once: no two write one temporary file (atomicWriteFile).
THEOREM ManifestAlwaysReadable == Spec => []ManifestReadable
<1>1. IInv => ManifestReadable
    BY DEF IInv
<1> QED BY InitIInv, StepIInv, <1>1, PTL DEF Spec

\* Both recorded runtimes have the recorded hash, unless an installation of the same
\* version has replaced them (Install, Rollback, VerifyRuntime and the update checks).
THEOREM RecordedRuntimesUsable == Spec => []RecordedUsable
<1>1. IInv => RecordedUsable
    BY DEF IInv
<1> QED BY InitIInv, StepIInv, <1>1, PTL DEF Spec

\* Nobody starts half an executable but one of rsync's that is being installed
\* again (copyFile of both packages).
THEOREM NothingTornRuns == Spec => []RunsWhole
<1>1. IInv => RunsWhole
    BY DEF IInv, ActiveKnown, TornKnown, RunsWhole
<1> QED BY InitIInv, StepIInv, <1>1, PTL DEF Spec

-----------------------------------------------------------------------------
(* Managers that take turns implement Switch: from the load to the save of *)
(* an operation the manifest does not change, so that the record is what   *)
(* the operation makes of the manifest as it is.                           *)

InTurn ==
    Serial =>
        \A p \in Manager :
            /\ pc[p] \in Installing => record[p] = manifest
            /\ pc[p] \in Saves =>
                 \/ record[p] = manifest
                 \/ manifest.previous # None /\ record[p] = Rolled(manifest)
                 \/ \E b \in Binary : record[p] = Activated(manifest, b)

LEMMA StepInTurn == IInv /\ InTurn /\ [Next]_vars => InTurn'
<1> SUFFICES ASSUME IInv, InTurn, [Next]_vars, Serial PROVE InTurn'
    BY WorldKept DEF InTurn, Serial
<1> USE RuntimesAssumption
<1>t. /\ TypeOK /\ Installers
      /\ manifest \in Manifest /\ manifest # Torn /\ record \in [Manager -> Manifest]
    BY DEF IInv, TypeInv, TypeOK, ManifestReadable
<1>1. CASE UNCHANGED vars
    BY <1>1 DEF vars, InTurn, Serial
<1>2. ASSUME NEW p \in Manager, NEW b \in Binary, BeginInstall(p, b) PROVE InTurn'
    <2>1. (IF Loads THEN manifest ELSE Empty) = manifest
        BY <1>t DEF Loads
    <2> QED BY <1>2, <2>1, <1>t DEF InTurn, BeginInstall, Idle, TypeOK, Installing, Saves
<1>3. ASSUME NEW p \in Manager, NEW clear \in BOOLEAN, Replace(p, clear) PROVE InTurn'
    BY <1>3, <1>t DEF InTurn, Replace, TypeOK, Installing, Saves
<1>4. ASSUME NEW p \in Manager,
             \/ RcloneOpen(p) \/ RcloneWrite(p) \/ RcloneRename(p) \/ RsyncOpen(p) \/ RsyncWrite(p)
      PROVE  InTurn'
    BY <1>4, <1>t DEF InTurn, RcloneOpen, RcloneWrite, RcloneRename, RsyncOpen, RsyncWrite,
        Copying, TypeOK, Installing, Saves
<1>5. ASSUME NEW p \in Manager, Hash(p) PROVE InTurn'
    <2>1. binary[p] \in Binary /\ record[p] = manifest
        BY <1>5, <1>t DEF InTurn, Hash, Installers, Installing
    <2> QED BY <1>5, <2>1, <1>t DEF InTurn, Hash, TypeOK, Installing, Saves
<1>6. ASSUME NEW p \in Manager, Resave(p, manifest) \/ Rollback(p) PROVE InTurn'
    BY <1>6, <1>t DEF InTurn, Resave, Rollback, Idle, TypeOK, Installing, Saves
<1>7. ASSUME NEW p \in Manager, OpenManifest(p) \/ WriteManifest(p) \/ Fail(p) PROVE InTurn'
    BY <1>7, <1>t DEF InTurn, OpenManifest, WriteManifest, Saving, Fail, TypeOK, Installing, Saves
<1>8. ASSUME NEW p \in Manager, SaveManifest(p) PROVE InTurn'
    <2>1. \A q \in Manager : pc'[q] = "idle"
        BY <1>8, <1>t DEF IInv, Turns, SaveManifest, Saving, TypeOK
    <2> QED BY <2>1 DEF InTurn, Installing, Saves
<1>9. ASSUME NEW u \in User, Resolved(u) \/ Execute(u) PROVE InTurn'
    BY <1>9, <1>t DEF InTurn, Resolved, Execute, TypeOK, Installing, Saves
<1> QED BY <1>1, <1>2, <1>3, <1>4, <1>5, <1>6, <1>7, <1>8, <1>9, StepCases

\* The mapping while the manifest can be read.
LEMMA ShownManifest ==
    /\ Serial /\ manifest # Torn => /\ Shown("active") = manifest.active
                                    /\ Shown("previous") = manifest.previous
    /\ ~Serial => Shown("active") = None /\ Shown("previous") = None
BY DEF Shown

\* Saving activates a runtime, exchanges the two, or leaves them; nothing else
\* touches the manifest.
LEMMA StepSwitch ==
    ASSUME IInv, IInv', InTurn, [Next]_vars
    PROVE  [S!Next]_<<Shown("active"), Shown("previous")>>
<1>w. Serial' = Serial
    BY WorldKept DEF Serial
<1>1. CASE ~Serial
    BY <1>1, <1>w DEF Shown
<1>2. CASE Serial /\ manifest' = manifest
    BY <1>2, <1>w DEF Shown
<1>3. ASSUME NEW p \in Manager, SaveManifest(p), Serial
      PROVE  [S!Next]_<<Shown("active"), Shown("previous")>>
    <2>1. /\ Shown("active") = manifest.active /\ Shown("previous") = manifest.previous
          /\ Shown("active")' = manifest'.active /\ Shown("previous")' = manifest'.previous
        BY <1>3, <1>w, ShownManifest DEF IInv, ManifestReadable, Shown
    <2>2. manifest' = record[p] /\ pc[p] \in Saves
        BY <1>3 DEF IInv, Drafts, SaveManifest, Saving, Saves
    <2>3. CASE record[p] = manifest
        BY <2>1, <2>2, <2>3
    <2>4. CASE manifest.previous # None /\ record[p] = Rolled(manifest)
        BY <2>1, <2>2, <2>4 DEF Rolled, S!Next, S!Rollback
    <2>5. ASSUME NEW b \in Binary, record[p] = Activated(manifest, b)
          PROVE  S!Next
        BY <2>1, <2>2, <2>5 DEF Activated, S!Next, S!Activate
    <2> QED BY <1>3, <2>2, <2>3, <2>4, <2>5 DEF InTurn
<1>4. manifest' = manifest \/ \E p \in Manager : SaveManifest(p)
    BY StepCases DEF vars, BeginInstall, Replace, RcloneOpen, RcloneWrite, RcloneRename,
        RsyncOpen, RsyncWrite, Copying, Hash, OpenManifest, WriteManifest, Fail, Resave, Rollback, Resolved, Execute
<1> QED BY <1>1, <1>2, <1>3, <1>4

\* If managers take turns, an installation makes the active runtime the previous
\* one, a rollback exchanges them, and nothing else changes either (SaveManifest,
\* Rollback).
THEOREM RuntimesImplementSwitch == Spec => ImplementsSwitch
<1>1. Init => S!Init
    BY DEF Init, S!Init, Shown, Empty
<1>2. Init => InTurn
    BY DEF Init, InTurn, Installing, Saves
<1> QED BY InitIInv, StepIInv, StepInTurn, StepSwitch, <1>1, <1>2, PTL
        DEF Spec, ImplementsSwitch, S!Spec
=============================================================================

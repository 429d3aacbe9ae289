---------------------------- MODULE MCVaultStore -----------------------------
(* Two processes, two paths, two chunks: one content shares its chunk with *)
(* the other.                                                              *)
EXTENDS VaultStore, TLC

CONSTANTS c1, c2

MCContents == {{c1}, {c1, c2}}

\* Only safety properties are checked, so interchangeable processes and paths
\* may be permuted.
MCSymmetry == Permutations(Proc) \cup Permutations(Path)
=============================================================================

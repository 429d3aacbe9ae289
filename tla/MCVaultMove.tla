---------------------------- MODULE MCVaultMove ----------------------------
\* An instance of VaultMove for TLC: two directories, two files, one request at a
\* time beside a job, moves kept apart from everything else or not.
EXTENDS VaultMove, TLC

CONSTANTS a, b, f, g, r1

MCPath    == {a, b}
MCFile    == {f, g}
MCRequest == {r1}
MCWorlds  == {<<TRUE, {r1, "namer"}>>, <<TRUE, {"job", "namer"}>>, <<FALSE, {r1}>>, <<FALSE, {"job"}>>}
Symmetry  == Permutations(MCPath) \cup Permutations(MCFile)
=============================================================================

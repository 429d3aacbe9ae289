----------------------------- MODULE MCRuntimes -----------------------------
\* An instance of Runtimes for TLC: rclone with managers that take turns or do
\* not, rsync with managers that do; two executables for each of two versions.
EXTENDS Runtimes, TLC

CONSTANTS m1, m2, u1, v1, v2, b1, b2

MCManager == {m1, m2}
MCUser    == {u1}
MCVersion == {v1, v2}
MCBuild   == {b1, b2}
MCWorlds  == {<<"rclone", TRUE>>, <<"rclone", FALSE>>, <<"rsync", TRUE>>}
Symmetry  == Permutations(MCManager) \cup Permutations(MCVersion) \cup Permutations(MCBuild)
=============================================================================

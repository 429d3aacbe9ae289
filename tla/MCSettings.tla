----------------------------- MODULE MCSettings -----------------------------
\* An instance of Settings for TLC: three processes; entries, the login and the
\* protocol change in worlds of their own; one user with two passwords.
EXTENDS Settings, TLC

CONSTANTS p1, p2, p3, n1, n2, h1, h2, k1, k2

MCWorlds == {{"entries"}, {"login"}, {"protocol"}}
MCProc   == {p1, p2, p3}
MCName   == {n1, n2}
MCHash   == {h1, h2}
MCPair   == {k1, k2}
Symmetry == Permutations(MCProc) \cup Permutations(MCName) \cup Permutations(MCHash)
              \cup Permutations(MCPair)
=============================================================================

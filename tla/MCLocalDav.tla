----------------------------- MODULE MCLocalDav -----------------------------
(* Two directories with one file name each, or (MCDeep) one name at four     *)
(* depths, on which a directory can be moved to its parent.                  *)
EXTENDS LocalDav, TLC

CONSTANTS a, b, x, r1, r2

MCFlat == {<<a>>, <<b>>, <<a, x>>, <<b, x>>, <<a, Marker>>, <<b, Marker>>}
MCDeep == {<<a>>, <<a, a>>, <<a, a, a>>, <<a, a, a, a>>, <<a, Marker>>}

Symmetry == Permutations({a, b}) \cup Permutations(Request)
=============================================================================

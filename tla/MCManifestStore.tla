--------------------------- MODULE MCManifestStore ---------------------------
(* One shared path, its conflict copies, one duplicate name.               *)
EXTENDS ManifestStore, TLC

CONSTANTS a, b, f, m, v1

MCConflictPath(p, t, n) == <<p, t, n>>
MCOriginal(q) == IF q = f THEN q ELSE q[1]
\* Older, between and ahead of the local clock, one without a generation.
MCForeign == {LiveAt(5, 5, b), LiveAt(0, 3, a), TombstoneAt(3, 3)}
MCPath == {f} \cup ({f} \X {3, 5} \X {m, v1}) \cup ({f} \X {2, 4} \X {m})
\* One file, or the directory that holds them all.
MCTrees == {{q} : q \in MCPath} \cup {MCPath}
=============================================================================

---------------------------- MODULE MCRoundTrip ----------------------------
\* An instance of RoundTrip for TLC: two files, contents of one to three chunks
\* that share some of them, bytes whose hash depends on the byte before.
EXTENDS RoundTrip

CONSTANTS x1, x2

MCFiles    == <<"f", "g">>
MCGear     == <<1, 2>>
MCContent  == {<<1, 2, 2>>, <<2, 2, 1, 2, 1>>}
MCExporter == {x1, x2}
MCBounds   ==
    {[puts |-> 2, edits |-> 1, exports |-> 0, kinds |-> {}, own |-> {{}}],
     [puts |-> 1, edits |-> 0, exports |-> 1, kinds |-> Kind, own |-> {{}}],
     [puts |-> 0, edits |-> 0, exports |-> 2, kinds |-> {"folder", "get"}, own |-> SUBSET File],
     [puts |-> 0, edits |-> 0, exports |-> 2, kinds |-> {"zip"}, own |-> {{}, {Archive}}]}
Symmetry   == Permutations(MCExporter)
=============================================================================

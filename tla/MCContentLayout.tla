--------------------------- MODULE MCContentLayout ---------------------------
(* Two processes that open one vault with one name and its conflict copies. *)
EXTENDS ContentLayout, TLC

\* Only safety properties are checked, so processes may be permuted.
MCSymmetry == Permutations(Proc)
=============================================================================

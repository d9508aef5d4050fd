------------------------- MODULE MCCanonicalAutosave -------------------------
(* The tabs are interchangeable, and the run checks safety only. *)
EXTENDS CanonicalAutosave, TLC

TabSymmetry == Permutations(Tabs)
=============================================================================

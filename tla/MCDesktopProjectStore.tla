------------------------ MODULE MCDesktopProjectStore ------------------------
(* The windows are interchangeable: no property of the run is a liveness   *)
(* property, so that TLC may identify them.                                *)
EXTENDS DesktopProjectStore, TLC

WindowSymmetry == Permutations(Windows)
=============================================================================

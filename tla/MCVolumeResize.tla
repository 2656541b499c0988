--------------------------- MODULE MCVolumeResize ---------------------------
(***************************************************************************)
(* Small instances of VolumeResize for TLC.                                *)
(***************************************************************************)
EXTENDS VolumeResizeProofs, TLC

CONSTANTS l1, l2

Symmetry == Permutations(Lanes)
=============================================================================

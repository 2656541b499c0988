----------------------------- MODULE MCBackups -----------------------------
(***************************************************************************)
(* Small instances of Backups for TLC.                                     *)
(***************************************************************************)
EXTENDS BackupsProofs

CONSTANTS w1, w2, r1
=============================================================================

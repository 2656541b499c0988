------------------------- MODULE MCSandboxSessions -------------------------
(***************************************************************************)
(* Small instances of SandboxSessions for TLC.                             *)
(***************************************************************************)
EXTENDS SandboxSessionsProofs, TLC

CONSTANTS s1, s2, o1, l1, l2, h1, q1, q2

Symmetry == Permutations(Sessions) \cup Permutations(Lanes)

\* A second receipt is not combined with a fault or a running resize.
SecondAlone == (faults = 0 /\ resize = "none") \/ \E s \in Sessions : ses[s].status = "absent"
=============================================================================

--------------------------- MODULE MCInvocations ---------------------------
(***************************************************************************)
(* Small instances of Invocations for TLC.                                 *)
(***************************************************************************)
EXTENDS InvocationsProofs, TLC

CONSTANTS l1, l2

Symmetry == Permutations(Lanes)

\* Bound of the run with liveness. A second receipt is combined neither with a
\* second revision, a cancellation or a revoked key, nor with the end of the ten
\* minutes or the retention of a receipt; a revoked key not with a second revision.
\* Only callers and the steps of time that no fairness names leave this set
\* (AcceptDeployment, CancelInvocation, Revoke, Enqueue, Lapse, TenMinutesPass,
\* DeleteReceipt), so a fair behaviour that stays in it is never cut short.
SecondAlone ==
    /\ revision = 1 \/ allowed
    /\ inv[2].status # "absent" =>
         /\ revision = 1 /\ allowed
         /\ \A i \in Ids :
                /\ ~inv[i].cancel /\ inv[i].status # "deleted"
                /\ inv[i].status \in Finished => inv[i].age # "old" /\ ~inv[i].lapsed
=============================================================================

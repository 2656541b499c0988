--------------------------- MODULE MCDeployments ---------------------------
(***************************************************************************)
(* Small instances of Deployments for TLC.                                 *)
(***************************************************************************)
EXTENDS DeploymentsHealthProofs, TLC

CONSTANTS w1, w2, s1, s2, k1, k2, i1, i2, d1, d2

\* s2 depends on s1.
Chain == (s1 :> {}) @@ (s2 :> {s1})
\* Independent services.
Independent == [s \in Services |-> {}]

Symmetry == Permutations(Workers) \cup Permutations(Keys) \cup Permutations(Digests)
            \cup Permutations(IdemKeys)

\* Bound of the recovery run: both lanes work, and a candidate list goes stale, until the
\* fault; from then on one lane at a time.
SecondLane == faults = 0 \/ \E w \in Workers : job[w] = Idle
=============================================================================

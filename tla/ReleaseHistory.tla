--------------------------- MODULE ReleaseHistory ---------------------------
(***************************************************************************)
(* What the deployment machinery promises the callers of one application:  *)
(* accepted revisions are numbered without gaps, run one at a time in that *)
(* order, each run ends with one outcome, and only the latest revision, if *)
(* it failed, may be given another run.  Workers, locks, crashes and       *)
(* recoveries are below this level.                                        *)
(***************************************************************************)
EXTENDS Integers

CONSTANT MaxRevision        \* bound on accepted revisions

VARIABLES accepted,         \* number of accepted revisions
          state             \* the state of each revision

Numbers == 1..MaxRevision
Outcomes == {"succeeded", "failed", "cancelled"}
historyVars == <<accepted, state>>

HistoryInit ==
    /\ accepted = 0
    /\ state = [r \in Numbers |-> "absent"]

AcceptNext ==
    /\ accepted < MaxRevision
    /\ accepted' = accepted + 1
    /\ state' = [state EXCEPT ![accepted + 1] = "queued"]

Start(r) ==
    /\ state[r] = "queued"
    /\ \A q \in Numbers : q < r => state[q] \in Outcomes
    /\ state' = [state EXCEPT ![r] = "running"]
    /\ UNCHANGED accepted

End(r, outcome) ==
    /\ state[r] = "running"
    /\ state' = [state EXCEPT ![r] = outcome]
    /\ UNCHANGED accepted

RunAgain(r) ==
    /\ state[r] = "failed" /\ r = accepted
    /\ state' = [state EXCEPT ![r] = "queued"]
    /\ UNCHANGED accepted

HistoryNext ==
    \/ AcceptNext
    \/ \E r \in Numbers : Start(r) \/ RunAgain(r)
    \/ \E r \in Numbers, outcome \in Outcomes : End(r, outcome)

HistorySpec == HistoryInit /\ [][HistoryNext]_historyVars

\* Every revision that can start starts, and every run ends.
HistoryFairSpec ==
    /\ HistorySpec
    /\ \A r \in Numbers : WF_historyVars(Start(r))
    /\ \A r \in Numbers : WF_historyVars(\E outcome \in Outcomes : End(r, outcome))
=============================================================================

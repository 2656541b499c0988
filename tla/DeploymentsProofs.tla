------------------------- MODULE DeploymentsProofs -------------------------
(***************************************************************************)
(* Proofs about Deployments, for every number of lanes, services, keys,    *)
(* digests, revisions, resumes and faults.                                 *)
(***************************************************************************)
EXTENDS Deployments, WellFoundedInduction, TLAPS

-----------------------------------------------------------------------------
(* The inductive invariant.                                                *)

OlderEnded(r) == \A q \in Revisions : q < r => deps[q].status \in Terminal

Persisted(x) == x # Null => deps[x.rev].resolved = x.digest

\* What is true of every deployment row.
RowOK(r) ==
    /\ deps[r].status = "absent" <=> revision < r
    /\ deps[r].status = "absent" => deps[r].resolved = Null
    /\ deps[r].status \notin {"absent", "queued"} => OlderEnded(r)
    /\ deps[r].status = "succeeded" => deps[r].resolved # Null
    /\ deps[r].status \in Terminal => deps[r].recovery # "running"
    /\ deps[r].recovery \in {"", "skipped"} <=> deps[r].recSpec = Null
    /\ deps[r].recSpec # Null =>
         /\ deps[r].status \notin {"absent", "queued"}
         /\ HealthyTarget(deps[r].recSpec, r)

\* A lane that is about to succeed, or may still.
Hopeful(j) == j.pc = "deploy" \/ (j.pc = "finish" /\ j.outcome = "succeeded")

\* The lane's copy of its row is the row.
InSync(j) ==
    /\ deps[j.rev].status = "running"
    /\ deps[j.rev].recovery = j.recovery /\ deps[j.rev].recSpec = j.recSpec
    /\ deps[j.rev].only = j.only /\ deps[j.rev].key = j.key

\* What is true of the state j of lane w.
LaneOK(w, j) ==
    /\ j.pc # "idle" => j.rev \in Revisions /\ j.rev <= revision /\ OlderEnded(j.rev)
    /\ lock = w /\ j.pc \in Executing => InSync(j)
    /\ Persisted(j.spec) /\ Persisted(j.recSpec)
    /\ j.prev # Null => j.pc # "idle" /\ HealthyTarget(j.prev, j.rev)
    /\ j.pc = "finish" => j.outcome \in Terminal
    /\ Hopeful(j) => j.recovery = "" /\ j.spec # Null
    /\ j.spec # Null /\ (Hopeful(j) \/ j.pc \in {"claimed", "resolve"}) =>
         j.spec.rev = j.rev

RowsOK == \A r \in Revisions : RowOK(r)
LanesOK == \A w \in Workers : LaneOK(w, job[w])

IInv ==
    /\ TypeOK
    /\ RowsOK
    /\ LanesOK
    /\ AppliedIsPersisted
    /\ StatusAgrees
    /\ IdempotentAccept

-----------------------------------------------------------------------------
(* Initial states.                                                         *)

\* The invariant holds of an application that has no deployment yet.
LEMMA InitIInv == Init => IInv
<1> SUFFICES ASSUME Init PROVE IInv
    OBVIOUS
<1> USE DEF Init
<1>1. TypeOK
  <2>1. Absent \in Row
    <3>1. 0 \in 0..MaxResumes
        BY ConstantsAssumption
    <3> QED
        BY <3>1, Zenon DEF Absent, Row, RecoveryStates
  <2>2. Idle \in Lane
    <3>1. 0 \in 0..MaxRevision
        BY ConstantsAssumption
    <3> QED
        BY <3>1, Zenon DEF Idle, Lane, PCs, RecoveryStates, Causes
  <2> QED
      BY <2>1, <2>2, ConstantsAssumption DEF TypeOK
<1>2. RowsOK
  <2> SUFFICES ASSUME NEW r \in Revisions PROVE RowOK(r)
      BY DEF RowsOK
  <2>1. deps[r] = Absent /\ revision < r
      BY ConstantsAssumption DEF Revisions
  <2> QED
      BY <2>1 DEF RowOK, Absent, Terminal
<1>3. LanesOK
    BY DEF LanesOK, LaneOK, Idle, Executing, Persisted, Hopeful
<1>4. AppliedIsPersisted
    BY DEF AppliedIsPersisted
<1>5. StatusAgrees
    BY DEF StatusAgrees
<1>6. IdempotentAccept
    BY DEF IdempotentAccept, Absent
<1> QED
    BY <1>1, <1>2, <1>3, <1>4, <1>5, <1>6 DEF IInv

-----------------------------------------------------------------------------
(* Steps of one lane that touch neither the rows, the lock nor the cluster.*)

\* Lane w moves to job'[w] and nothing that other actors see changes.
LaneMoves(w) ==
    /\ job' = [job EXCEPT ![w] = job'[w]]
    /\ UNCHANGED <<revision, appStatus, deps, lock, live, cluster, strays>>
    /\ faults' \in 0..MaxFaults

\* A lane that reaches a good state by itself preserves the invariant.
LEMMA LaneMovesIInv ==
    ASSUME IInv, NEW w \in Workers, LaneMoves(w),
           job'[w] \in Lane, LaneOK(w, job'[w])
    PROVE  IInv'
<1> USE DEF LaneMoves
<1>1. TypeOK'
    BY DEF IInv, TypeOK
<1>2. RowsOK'
  <2> SUFFICES ASSUME NEW r \in Revisions PROVE RowOK(r)'
      BY DEF RowsOK
  <2>1. RowOK(r)
      BY DEF IInv, RowsOK
  <2> QED
      BY <2>1 DEF RowOK, OlderEnded, HealthyTarget
<1>3. LanesOK'
  <2> SUFFICES ASSUME NEW v \in Workers PROVE LaneOK(v, job[v])'
      BY DEF LanesOK
  <2>1. job'[v] = IF v = w THEN job'[w] ELSE job[v]
      BY DEF IInv, TypeOK
  <2>2. LaneOK(v, job'[v])
      BY <2>1 DEF IInv, LanesOK
  <2> QED
      BY <2>2 DEF LaneOK, OlderEnded, InSync, Persisted, HealthyTarget
<1>4. AppliedIsPersisted' /\ StatusAgrees' /\ IdempotentAccept'
    BY DEF IInv, AppliedIsPersisted, StatusAgrees, IdempotentAccept
<1> QED
    BY <1>1, <1>2, <1>3, <1>4 DEF IInv

\* The lane keeps its claim, and goes nowhere, gives it up, or heads for an
\* outcome.
Carries(j, n) ==
    /\ n.rev = j.rev /\ n.key = j.key /\ n.only = j.only
    /\ n.spec = j.spec /\ n.prev = j.prev
    /\ n.recovery = j.recovery /\ n.recSpec = j.recSpec
    /\ \/ n.pc = j.pc /\ n.outcome = j.outcome
       \/ n.pc = "release" /\ j.pc # "idle"
       \/ n.pc = "finish" /\ j.pc \in Executing /\ n.outcome \in {"failed", "cancelled"}
       \/ n.pc = "finish" /\ j.pc = "deploy" /\ n.outcome = "succeeded"

\* Carrying a claim on keeps the lane good.
LEMMA CarriesIInv ==
    ASSUME IInv, NEW w \in Workers, LaneMoves(w),
           job'[w] \in Lane, Carries(job[w], job'[w])
    PROVE  IInv'
<1>1. LaneOK(w, job[w])
    BY DEF IInv, LanesOK
<1>2. LaneOK(w, job'[w])
    BY <1>1 DEF LaneOK, Carries, InSync, Hopeful, Executing, Terminal
<1> QED
    BY <1>2, LaneMovesIInv

\* A failure is carried to its outcome, or the row is left for the next claim.
LEMMA HandleFailureCarries ==
    ASSUME NEW j \in Lane, j.pc \in Executing
    PROVE  HandleFailure(j) \in Lane /\ Carries(j, HandleFailure(j))
<1>1. CASE j.cause = "database"
  <2>1. HandleFailure(j) = [j EXCEPT !.pc = "release"]
      BY <1>1 DEF HandleFailure
  <2>2. HandleFailure(j) \in Lane
      BY <2>1 DEF Lane, PCs
  <2> QED
      BY <2>1, <2>2 DEF Carries, Lane, Executing
<1>2. CASE j.cause # "database"
  <2>1. PICK o \in {"failed", "cancelled"} :
            HandleFailure(j) = [j EXCEPT !.pc = "finish", !.outcome = o]
      BY <1>2 DEF HandleFailure
  <2>2. HandleFailure(j) \in Lane
      BY <2>1 DEF Lane, PCs, Terminal
  <2> QED
      BY <2>1, <2>2 DEF Carries, Lane
<1> QED
    BY <1>1, <1>2

\* The guard and the deadline only end the context.
LEMMA GuardIInv == ASSUME IInv, NEW w \in Workers, Guard(w) PROVE IInv'
<1>0. job[w] \in Lane
    BY DEF IInv, TypeOK
<1>1. job \in [Workers -> Lane] /\ faults \in 0..MaxFaults
    BY DEF IInv, TypeOK
<1>2. GuardVerdict(w) \in Causes
    BY DEF GuardVerdict, Causes
<1>3. job'[w] = [job[w] EXCEPT !.cause = GuardVerdict(w)]
    BY <1>1 DEF Guard
<1>4. LaneMoves(w)
    BY <1>1, <1>3 DEF LaneMoves, Guard
<1>5. job'[w] \in Lane
    BY <1>0, <1>2, <1>3, Zenon DEF Lane
<1>6. Carries(job[w], job'[w])
    BY <1>0, <1>3 DEF Carries, Lane
<1> QED
    BY <1>4, <1>5, <1>6, CarriesIInv

\* The operation deadline is one more way for the context to end.
LEMMA TimeoutIInv == ASSUME IInv, NEW w \in Workers, Timeout(w) PROVE IInv'
<1>0. job[w] \in Lane
    BY DEF IInv, TypeOK
<1>1. job \in [Workers -> Lane] /\ faults \in 0..MaxFaults
    BY DEF IInv, TypeOK
<1>2. job'[w] = [job[w] EXCEPT !.cause = "timeout"]
    BY <1>1 DEF Timeout
<1>3. LaneMoves(w)
    BY <1>1, <1>2 DEF LaneMoves, Timeout
<1>4. job'[w] \in Lane
    BY <1>0, <1>2, Zenon DEF Lane, Causes
<1>5. Carries(job[w], job'[w])
    BY <1>0, <1>2 DEF Carries, Lane
<1> QED
    BY <1>3, <1>4, <1>5, CarriesIInv

\* The service steps of an attempt that write nothing: services move between
\* waiting, in flight and failed, or the context ends.
LEMMA ServiceStepIInv ==
    ASSUME IInv, NEW w \in Workers, NEW s \in Services,
           BeforeStep(w, s) \/ Drop(w, s) \/ Block(w, s) \/ StageEnds(w)
    PROVE  IInv'
<1>0. job[w] \in Lane
    BY DEF IInv, TypeOK
<1>1. job \in [Workers -> Lane] /\ faults \in 0..MaxFaults
    BY DEF IInv, TypeOK
<1>2. LaneMoves(w)
    BY <1>1 DEF LaneMoves, BeforeStep, Drop, Block, StageEnds
<1>3. CASE BeforeStep(w, s) /\ StepVerdict(w) = ""
  <2>1. job'[w] = [job[w] EXCEPT !.todo = job[w].todo \ {s}, !.armed = job[w].armed \cup {s}]
      BY <1>1, <1>3 DEF BeforeStep
  <2>2. job'[w] \in Lane
    <3>1. job[w].todo \ {s} \in SUBSET Services
        BY <1>0 DEF Lane
    <3>2. job[w].armed \cup {s} \in SUBSET Services
        BY <1>0 DEF Lane
    <3> QED
        BY <1>0, <2>1, <3>1, <3>2, Zenon DEF Lane
  <2>3. Carries(job[w], job'[w])
      BY <1>0, <2>1 DEF Carries, Lane
  <2> QED
      BY <1>2, <2>2, <2>3, CarriesIInv
<1>4. CASE BeforeStep(w, s) /\ StepVerdict(w) # ""
  <2>1. job'[w] = [job[w] EXCEPT !.cause = StepVerdict(w)]
      BY <1>1, <1>4 DEF BeforeStep
  <2>2. StepVerdict(w) \in Causes
      BY DEF StepVerdict, Causes
  <2>3. job'[w] \in Lane
      BY <1>0, <2>1, <2>2, Zenon DEF Lane
  <2>4. Carries(job[w], job'[w])
      BY <1>0, <2>1 DEF Carries, Lane
  <2> QED
      BY <1>2, <2>3, <2>4, CarriesIInv
<1>5. CASE Drop(w, s)
  <2>1. job'[w] = [job[w] EXCEPT !.armed = job[w].armed \ {s}, !.bad = job[w].bad \cup {s}]
      BY <1>1, <1>5 DEF Drop
  <2>2. job'[w] \in Lane
    <3>1. job[w].armed \ {s} \in SUBSET Services
        BY <1>0 DEF Lane
    <3>2. job[w].bad \cup {s} \in SUBSET Services
        BY <1>0 DEF Lane
    <3> QED
        BY <1>0, <2>1, <3>1, <3>2, Zenon DEF Lane
  <2>3. Carries(job[w], job'[w])
      BY <1>0, <2>1 DEF Carries, Lane
  <2> QED
      BY <1>2, <2>2, <2>3, CarriesIInv
<1>6. CASE Block(w, s)
  <2>1. job'[w] = [job[w] EXCEPT !.todo = job[w].todo \ {s}, !.bad = job[w].bad \cup {s}]
      BY <1>1, <1>6 DEF Block
  <2>2. job'[w] \in Lane
    <3>1. job[w].todo \ {s} \in SUBSET Services
        BY <1>0 DEF Lane
    <3>2. job[w].bad \cup {s} \in SUBSET Services
        BY <1>0 DEF Lane
    <3> QED
        BY <1>0, <2>1, <3>1, <3>2, Zenon DEF Lane
  <2>3. Carries(job[w], job'[w])
      BY <1>0, <2>1 DEF Carries, Lane
  <2> QED
      BY <1>2, <2>2, <2>3, CarriesIInv
<1>7. CASE StageEnds(w)
  <2>1. job'[w] = [job[w] EXCEPT !.todo = {}, !.bad = job[w].bad \cup job[w].todo]
      BY <1>1, <1>7 DEF StageEnds
  <2>2. job'[w] \in Lane
    <3>1. {} \in SUBSET Services
        BY <1>0 DEF Lane
    <3>2. job[w].bad \cup job[w].todo \in SUBSET Services
        BY <1>0 DEF Lane
    <3> QED
        BY <1>0, <2>1, <3>1, <3>2, Zenon DEF Lane
  <2>3. Carries(job[w], job'[w])
      BY <1>0, <2>1 DEF Carries, Lane
  <2> QED
      BY <1>2, <2>2, <2>3, CarriesIInv
<1> QED
    BY <1>3, <1>4, <1>5, <1>6, <1>7

\* An attempt that ends without a write: its failure is handled, or it succeeds.
LEMMA AttemptEndsIInv ==
    ASSUME IInv, NEW w \in Workers,
           \/ ResolveFails(w) \/ DeployPartlyFailed(w) \/ DeploySucceeds(w)
           \/ NotApplied(w) \/ DeployInterrupted(w) \/ RecoveryInterrupted(w)
    PROVE  IInv'
<1>0. job[w] \in Lane
    BY DEF IInv, TypeOK
<1>1. job \in [Workers -> Lane] /\ faults \in 0..MaxFaults
    BY DEF IInv, TypeOK
<1>2. LaneMoves(w)
    BY <1>1 DEF LaneMoves, ResolveFails, DeployPartlyFailed, DeploySucceeds,
       NotApplied, DeployInterrupted, RecoveryInterrupted
<1>3. job[w].pc \in Executing
    BY DEF ResolveFails, DeployPartlyFailed, DeploySucceeds, NotApplied,
       DeployInterrupted, RecoveryInterrupted, Executing
<1>4. Observed \in SUBSET Services
    BY DEF Observed
<1>5. CASE job'[w] = HandleFailure(job[w])
    BY <1>0, <1>2, <1>3, <1>5, HandleFailureCarries, CarriesIInv
<1>6. CASE DeployPartlyFailed(w)
  <2>0. PICK report \in Reports :
          job' = [job EXCEPT ![w] = HandleFailure([job[w] EXCEPT !.ready = report])]
      BY <1>6 DEF DeployPartlyFailed
  <2> DEFINE j == [job[w] EXCEPT !.ready = report]
  <2>1. j \in Lane
    <3>1. report \in SUBSET Services
        BY <1>4 DEF Reports
    <3> QED
        BY <1>0, <3>1, Zenon DEF Lane
  <2>2. job'[w] = HandleFailure(j)
      BY <1>1, <2>0
  <2>3. /\ j.pc = job[w].pc /\ j.rev = job[w].rev /\ j.key = job[w].key
        /\ j.only = job[w].only /\ j.spec = job[w].spec /\ j.prev = job[w].prev
        /\ j.recovery = job[w].recovery /\ j.recSpec = job[w].recSpec
        /\ j.outcome = job[w].outcome
      BY <1>0 DEF Lane
  <2> HIDE DEF j
  <2>4. job'[w] \in Lane /\ Carries(j, job'[w])
      BY <1>3, <2>1, <2>2, <2>3, HandleFailureCarries
  <2>5. Carries(job[w], job'[w])
      BY <2>3, <2>4 DEF Carries
  <2> QED
      BY <1>2, <2>4, <2>5, CarriesIInv
<1>7. CASE DeploySucceeds(w) /\ job[w].cause = ""
  <2>1. job'[w] = [job[w] EXCEPT !.pc = "finish", !.outcome = "succeeded"]
      BY <1>1, <1>7 DEF DeploySucceeds
  <2>2. job'[w] \in Lane
      BY <1>0, <2>1, Zenon DEF Lane, PCs, Terminal
  <2>3. Carries(job[w], job'[w])
    <3>1. job[w].pc = "deploy"
        BY <1>7 DEF DeploySucceeds
    <3> QED
        BY <1>0, <2>1, <3>1 DEF Carries, Lane
  <2> QED
      BY <1>2, <2>2, <2>3, CarriesIInv
<1>8. CASE RecoveryInterrupted(w)
  <2> DEFINE h == HandleFailure(job[w])
  <2>1. h \in Lane /\ Carries(job[w], h)
      BY <1>0, <1>3, HandleFailureCarries
  <2>2. job'[w] = [h EXCEPT !.todo = {}, !.ready = Observed]
      BY <1>1, <1>8 DEF RecoveryInterrupted
  <2> HIDE DEF h
  <2>3. job'[w] \in Lane
      BY <1>4, <2>1, <2>2, Zenon DEF Lane
  <2>4. Carries(job[w], job'[w])
      BY <2>1, <2>2 DEF Carries, Lane
  <2> QED
      BY <1>2, <2>3, <2>4, CarriesIInv
<1>9. CASE DeploySucceeds(w) /\ job[w].cause # ""
  <2>1. job'[w] = HandleFailure(job[w])
      BY <1>1, <1>9 DEF DeploySucceeds
  <2> QED
      BY <1>5, <2>1
<1>10. CASE ResolveFails(w) \/ NotApplied(w) \/ DeployInterrupted(w)
  <2>1. job'[w] = HandleFailure(job[w])
      BY <1>1, <1>10 DEF ResolveFails, NotApplied, DeployInterrupted
  <2> QED
      BY <1>5, <2>1
<1> QED
    BY <1>6, <1>7, <1>8, <1>9, <1>10

\* A lane that loses its session, or gives up, leaves its row to the next claim.
LEMMA GivesUpIInv ==
    ASSUME IInv, NEW w \in Workers, ClaimLost(w) \/ GiveUp(w) \/ ResolvedTooLate(w)
    PROVE  IInv'
<1>0. job[w] \in Lane
    BY DEF IInv, TypeOK
<1>1. job \in [Workers -> Lane] /\ faults \in 0..MaxFaults
    BY DEF IInv, TypeOK
<1>2. job'[w] = [job[w] EXCEPT !.pc = "release"]
    BY <1>1 DEF ClaimLost, GiveUp, ResolvedTooLate
<1>3. LaneMoves(w)
  <2>1. faults' \in 0..MaxFaults
    <3>1. faults' = faults \/ (faults < MaxFaults /\ faults' = faults + 1)
        BY DEF ClaimLost, GiveUp, ResolvedTooLate
    <3> QED
        BY <1>1, <3>1, ConstantsAssumption
  <2>2. job' = [job EXCEPT ![w] = job'[w]]
      BY <1>1 DEF ClaimLost, GiveUp, ResolvedTooLate
  <2> QED
      BY <2>1, <2>2 DEF LaneMoves, ClaimLost, GiveUp, ResolvedTooLate
<1>4. job[w].pc # "idle"
    BY DEF ClaimLost, GiveUp, ResolvedTooLate, Executing
<1>5. job'[w] \in Lane
    BY <1>0, <1>2, Zenon DEF Lane, PCs
<1>6. Carries(job[w], job'[w])
    BY <1>0, <1>2, <1>4 DEF Carries, Lane
<1> QED
    BY <1>3, <1>5, <1>6, CarriesIInv

-----------------------------------------------------------------------------
(* The claim: reading candidates, the lock, the start of a run.            *)

\* The candidate read is the oldest pending row: all older rows have ended.
LEMMA ReadCandidatesIInv ==
    ASSUME IInv, NEW w \in Workers, ReadCandidates(w) PROVE IInv'
<1>0. job[w] \in Lane
    BY DEF IInv, TypeOK
<1>1. job \in [Workers -> Lane] /\ faults \in 0..MaxFaults /\ deps \in [Revisions -> Row]
    BY DEF IInv, TypeOK
<1>2. PICK r \in Revisions :
         Candidate(r) /\ job' = [job EXCEPT ![w].pc = "candidate", ![w].rev = r]
    BY DEF ReadCandidates
<1>3. job'[w] = [job[w] EXCEPT !.pc = "candidate", !.rev = r]
    BY <1>0, <1>1, <1>2
<1>4. LaneMoves(w)
    BY <1>1, <1>2, <1>3 DEF LaneMoves, ReadCandidates
<1>5. job'[w] \in Lane
  <2>1. r \in 0..MaxRevision
      BY ConstantsAssumption DEF Revisions
  <2> QED
      BY <1>0, <1>3, <2>1, Zenon DEF Lane, PCs
<1>6. OlderEnded(r) /\ r <= revision
  <2>1. \A q \in Revisions : deps[q].status \in {"absent"} \cup Pending \cup Terminal
      BY <1>1 DEF Row
  <2>2. \A q \in Revisions : deps[q].status = "absent" <=> revision < q
      BY DEF IInv, RowsOK, RowOK
  <2>3. revision \in Int
      BY DEF IInv, TypeOK
  <2> QED
      BY <1>2, <2>1, <2>2, <2>3
      DEF Candidate, PendingRevisions, OlderEnded, Pending, Revisions
<1>7. LaneOK(w, job[w]) /\ job[w].pc = "idle"
    BY DEF IInv, LanesOK, ReadCandidates
<1>8. LaneOK(w, job'[w])
    BY <1>0, <1>3, <1>6, <1>7 DEF LaneOK, Lane, Executing, Hopeful, Persisted
<1> QED
    BY <1>4, <1>5, <1>8, LaneMovesIInv

\* A lane stays, becomes idle, or gets the lock it tried; no lane that executes
\* acquires the lock.
LockMoves(v) ==
    \/ job'[v] = job[v] /\ (lock' = v => lock = v)
    \/ job'[v] = Idle
    \/ job[v].pc = "candidate" /\ job'[v] = [job[v] EXCEPT !.pc = "locked"]

\* Such steps, which leave the rows and the cluster alone, keep the invariant.
LEMMA LockMovesIInv ==
    ASSUME IInv, UNCHANGED <<revision, appStatus, deps, cluster, strays>>,
           job' \in [Workers -> Lane], lock' \in Workers \cup {NoOne, Ghost},
           live' \subseteq Keys, faults' \in 0..MaxFaults,
           \A v \in Workers : LockMoves(v)
    PROVE  IInv'
<1>1. TypeOK'
    BY DEF IInv, TypeOK
<1>2. RowsOK'
  <2> SUFFICES ASSUME NEW r \in Revisions PROVE RowOK(r)'
      BY DEF RowsOK
  <2>1. RowOK(r)
      BY DEF IInv, RowsOK
  <2> QED
      BY <2>1 DEF RowOK, OlderEnded, HealthyTarget
<1>3. LanesOK'
  <2> SUFFICES ASSUME NEW v \in Workers PROVE LaneOK(v, job[v])'
      BY DEF LanesOK
  <2>1. LaneOK(v, job[v]) /\ job[v] \in Lane
      BY DEF IInv, LanesOK, TypeOK
  <2>2. CASE job'[v] = Idle
    <3>1. /\ job'[v].pc = "idle" /\ job'[v].spec = Null /\ job'[v].prev = Null
          /\ job'[v].recSpec = Null
      <4>1. /\ Idle.pc = "idle" /\ Idle.spec = Null /\ Idle.prev = Null
            /\ Idle.recSpec = Null
          BY DEF Idle
      <4> QED
          BY <2>2, <4>1
    <3> QED
        BY <3>1 DEF LaneOK, Executing, Hopeful, Persisted
  <2>3. CASE job'[v] = job[v] /\ (lock' = v => lock = v)
      BY <2>1, <2>3 DEF LaneOK, OlderEnded, InSync, Persisted, HealthyTarget
  <2>4. CASE job[v].pc = "candidate" /\ job'[v] = [job[v] EXCEPT !.pc = "locked"]
    <3>1. /\ job'[v].pc = "locked" /\ job'[v].rev = job[v].rev
          /\ job'[v].spec = job[v].spec /\ job'[v].prev = job[v].prev
          /\ job'[v].recSpec = job[v].recSpec /\ job[v].pc # "idle"
        BY <2>1, <2>4 DEF Lane
    <3> QED
        BY <2>1, <3>1
        DEF LaneOK, OlderEnded, Persisted, HealthyTarget, Executing, Hopeful
  <2> QED
      BY <2>2, <2>3, <2>4 DEF LockMoves
<1>4. AppliedIsPersisted' /\ StatusAgrees' /\ IdempotentAccept'
    BY DEF IInv, AppliedIsPersisted, StatusAgrees, IdempotentAccept
<1> QED
    BY <1>1, <1>2, <1>3, <1>4 DEF IInv

\* The session of a dead worker expires, a key is revoked, or nothing happens.
LEMMA SharedStepsIInv ==
    ASSUME IInv, GhostExpires \/ (\E k \in Keys : Revoke(k)) \/ UNCHANGED vars
    PROVE  IInv'
<1>1. job' = job /\ lock' \in {lock, NoOne} /\ live' \subseteq live
      /\ UNCHANGED <<revision, appStatus, deps, cluster, strays, faults>>
    BY DEF GhostExpires, Revoke, vars
<1>2. ASSUME NEW v \in Workers PROVE LockMoves(v)
    BY <1>1, ConstantsAssumption DEF LockMoves
<1> QED
    BY <1>1, <1>2, LockMovesIInv DEF IInv, TypeOK

\* TryLock, Release, crashes and lost sessions.
LEMMA LockStepsIInv ==
    ASSUME IInv, NEW w \in Workers,
           TryLock(w) \/ ReleaseClaim(w) \/ SessionLost(w) \/ Crash(w)
    PROVE  IInv'
<1> USE DEF TryLock, ReleaseClaim, SessionLost, Crash
<1>0. job[w] \in Lane
    BY DEF IInv, TypeOK
<1>1. job \in [Workers -> Lane] /\ faults \in 0..MaxFaults /\ live \subseteq Keys
      /\ lock \in Workers \cup {NoOne, Ghost}
    BY DEF IInv, TypeOK
<1>2. Idle \in Lane
  <2>1. 0 \in 0..MaxRevision
      BY ConstantsAssumption
  <2> QED
      BY <2>1, Zenon DEF Idle, Lane, PCs, RecoveryStates, Causes
<1>3. \/ job' = job
      \/ job' = [job EXCEPT ![w] = Idle]
      \/ /\ job[w].pc = "candidate" /\ lock = NoOne /\ lock' = w
         /\ job' = [job EXCEPT ![w].pc = "locked"]
    OBVIOUS
<1>4. [job[w] EXCEPT !.pc = "locked"] \in Lane
    BY <1>0, Zenon DEF Lane, PCs
<1>5. job' \in [Workers -> Lane]
    BY <1>1, <1>2, <1>3, <1>4
<1>6. faults' \in 0..MaxFaults
  <2>1. faults' = faults \/ (faults < MaxFaults /\ faults' = faults + 1)
      OBVIOUS
  <2> QED
      BY <1>1, <2>1, ConstantsAssumption
<1>7. lock' \in Workers \cup {NoOne, Ghost} /\ live' \subseteq Keys
    BY <1>1
<1>8. ASSUME NEW v \in Workers PROVE LockMoves(v)
  <2>1. CASE job' = [job EXCEPT ![w].pc = "locked"] /\ lock' = w
              /\ job[w].pc = "candidate"
    <3>1. CASE v = w
        BY <1>0, <1>1, <2>1, <3>1 DEF LockMoves
    <3>2. CASE v # w
        BY <1>1, <2>1, <3>2 DEF LockMoves
    <3> QED
        BY <3>1, <3>2
  <2>2. CASE ~(job[w].pc = "candidate" /\ lock' = w /\ lock = NoOne)
    <3>1. lock' = v => lock = v
        BY <1>1, <2>2, ConstantsAssumption
    <3>2. job'[v] \in {job[v], Idle}
        BY <1>1, <1>3, <2>2
    <3> QED
        BY <3>1, <3>2 DEF LockMoves
  <2> QED
      BY <1>3, <2>1, <2>2, ConstantsAssumption
<1> QED
    BY <1>5, <1>6, <1>7, <1>8, LockMovesIInv

-----------------------------------------------------------------------------
(* Authorize: the recovery target is looked up.                            *)

\* A set of natural numbers that is not empty has a least element.
LEMMA NatMin ==
    ASSUME NEW T, T \subseteq Nat, T # {}
    PROVE  \E x \in T : \A y \in T : x <= y
<1> DEFINE R == OpToRel(<, Nat)
<1>1. IsWellFoundedOn(R, Nat)
    BY NatLessThanWellFounded
<1>2. \A x, y \in Nat : y < x => <<y, x>> \in R
    BY DEF OpToRel
<1> HIDE DEF R
<1>3. PICK x \in T : \A y \in T : ~ (<<y, x>> \in R)
    BY <1>1, WFMin
<1>4. ASSUME NEW y \in T PROVE x <= y
  <2>1. x \in Nat /\ y \in Nat
      OBVIOUS
  <2>2. ~(y < x)
      BY <1>2, <1>3, <2>1
  <2> QED
      BY <2>1, <2>2
<1> QED
    BY <1>4

\* Revisions that are not none have a newest one.
LEMMA NewestRevision ==
    ASSUME NEW S, S \subseteq Revisions, S # {}
    PROVE  \E q \in S : \A p \in S : p <= q
<1> DEFINE T == {x \in Nat : MaxRevision - x \in S}
<1> USE ConstantsAssumption DEF Revisions
<1>1. T \subseteq Nat /\ T # {}
  <2>1. PICK q \in S : q \in 1..MaxRevision
      OBVIOUS
  <2>2. MaxRevision - q \in Nat /\ MaxRevision - (MaxRevision - q) = q
      BY <2>1
  <2> QED
      BY <2>2
<1>2. PICK x \in T : \A y \in T : x <= y
    BY <1>1, NatMin
<1>3. MaxRevision - x \in S /\ x \in Nat
    BY <1>2
<1>4. ASSUME NEW p \in S PROVE p <= MaxRevision - x
  <2>1. p \in 1..MaxRevision
      OBVIOUS
  <2>2. MaxRevision - p \in Nat /\ MaxRevision - (MaxRevision - p) = p
      BY <2>1
  <2>3. x <= MaxRevision - p
      BY <1>2, <2>2
  <2> QED
      BY <1>3, <2>1, <2>3
<1> QED
    BY <1>3, <1>4

\* LastHealthyRelease finds the newest release that succeeded, if there is one.
LEMMA LastHealthyReleaseOK ==
    ASSUME IInv, NEW r \in Revisions, LastHealthyRelease(r) # Null
    PROVE  LastHealthyRelease(r) \in Release /\ HealthyTarget(LastHealthyRelease(r), r)
<1> DEFINE q == CHOOSE q \in Healthy(r) : \A p \in Healthy(r) : p <= q
<1>1. Healthy(r) # {} /\ LastHealthyRelease(r) = [rev |-> q, digest |-> deps[q].resolved]
    BY DEF LastHealthyRelease
<1>2. q \in Healthy(r) /\ \A p \in Healthy(r) : p <= q
  <2>1. Healthy(r) \subseteq Revisions
      BY DEF Healthy
  <2> QED
      BY <1>1, <2>1, NewestRevision
<1> HIDE DEF q
<1>3. q \in Revisions /\ q < r /\ deps[q].status = "succeeded" /\ deps[q].resolved # Null
    BY <1>2 DEF Healthy
<1>4. deps[q].resolved \in Digests
    BY <1>3 DEF IInv, TypeOK, Row
<1>5. ASSUME NEW p \in Revisions, q < p, p < r PROVE deps[p].status # "succeeded"
  <2>1. deps[p].status = "succeeded" => deps[p].resolved # Null
      BY DEF IInv, RowsOK, RowOK
  <2>2. p \notin Healthy(r)
      BY <1>2, <1>3, <1>5, ConstantsAssumption DEF Revisions
  <2> QED
      BY <1>5, <2>1, <2>2 DEF Healthy
<1>6. LastHealthyRelease(r).rev = q /\ LastHealthyRelease(r).digest = deps[q].resolved
    BY <1>1
<1>7. LastHealthyRelease(r) \in Release
    BY <1>1, <1>3, <1>4 DEF Release
<1> QED
    BY <1>3, <1>5, <1>6, <1>7 DEF HealthyTarget

\* A lane that may run carries its recovery target on.
LEMMA AuthorizeIInv == ASSUME IInv, NEW w \in Workers, Authorize(w) PROVE IInv'
<1>0. job[w] \in Lane
    BY DEF IInv, TypeOK
<1>1. job \in [Workers -> Lane] /\ faults \in 0..MaxFaults
    BY DEF IInv, TypeOK
<1>2. LaneMoves(w)
    BY <1>1 DEF LaneMoves, Authorize
<1>3. LaneOK(w, job[w]) /\ job[w].pc = "claimed"
    BY DEF IInv, LanesOK, Authorize
<1>4. CASE MayNotRun(job[w])
  <2>1. job'[w] = [job[w] EXCEPT !.pc = "finish", !.outcome = "cancelled"]
      BY <1>1, <1>4 DEF Authorize
  <2>2. job'[w] \in Lane
      BY <1>0, <2>1, Zenon DEF Lane, PCs, Terminal
  <2>3. Carries(job[w], job'[w])
      BY <1>0, <1>3, <2>1 DEF Carries, Lane, Executing
  <2> QED
      BY <1>2, <2>2, <2>3, CarriesIInv
<1>5. CASE ~MayNotRun(job[w])
  <2> DEFINE t == LastHealthyRelease(job[w].rev)
  <2>1. job'[w] = [job[w] EXCEPT !.pc = "resolve", !.prev = t]
      BY <1>1, <1>5 DEF Authorize
  <2>2. job[w].rev \in Revisions
      BY <1>3 DEF LaneOK
  <2>3. t \in Release \cup {Null} /\ (t # Null => HealthyTarget(t, job[w].rev))
      BY <2>2, LastHealthyReleaseOK
  <2> HIDE DEF t
  <2>4. job'[w] \in Lane
      BY <1>0, <2>1, <2>3, Zenon DEF Lane, PCs
  <2>5. LaneOK(w, job'[w])
    <3>1. /\ job'[w].pc = "resolve" /\ job'[w].prev = t
          /\ job'[w].rev = job[w].rev /\ job'[w].key = job[w].key
          /\ job'[w].only = job[w].only /\ job'[w].spec = job[w].spec
          /\ job'[w].recovery = job[w].recovery /\ job'[w].recSpec = job[w].recSpec
        BY <1>0, <2>1 DEF Lane
    <3> QED
        BY <1>3, <2>3, <3>1 DEF LaneOK, InSync, Executing, Hopeful
  <2> QED
      BY <1>2, <2>4, <2>5, LaneMovesIInv
<1> QED
    BY <1>4, <1>5

-----------------------------------------------------------------------------
(* Statements on the lock session that change the claimed row.             *)

\* The holder w of the lock changes the pending row r to d and moves on itself.
RowMoves(w, r, d) ==
    /\ lock = w /\ r <= revision /\ OlderEnded(r)
    /\ deps' = [deps EXCEPT ![r] = d]
    /\ deps[r].status \in Pending /\ d.status \in {"running"} \cup Terminal
    /\ d.idem = deps[r].idem
    /\ deps[r].resolved # Null => d.resolved = deps[r].resolved
    /\ d.status = "succeeded" => d.resolved # Null
    /\ d.status \in Terminal => d.recovery # "running"
    /\ d.recovery \in {"", "skipped"} <=> d.recSpec = Null
    /\ d.recSpec # Null => HealthyTarget(d.recSpec, r)
    /\ appStatus' = IF d.status \in Pending THEN appStatus
                    ELSE StatusAfter(r, d.status, d.recovery)
    /\ job' = [job EXCEPT ![w] = job'[w]]
    /\ UNCHANGED <<revision, lock, live, cluster, strays, faults>>

\* Such a step keeps what is remembered of rows that have ended: recovery
\* targets, persisted digests, ended predecessors.
LEMMA RowMovesStable ==
    ASSUME IInv, NEW w \in Workers, NEW r \in Revisions, NEW d \in Row, RowMoves(w, r, d)
    PROVE  /\ \A q \in Revisions : deps'[q] = IF q = r THEN d ELSE deps[q]
           /\ \A x \in Revisions : OlderEnded(x) => OlderEnded(x)' /\ x <= r
           /\ \A t \in Release : Persisted(t) => Persisted(t)'
           /\ \A t \in Release, x \in Revisions :
                 HealthyTarget(t, x) /\ OlderEnded(x) => HealthyTarget(t, x)'
<1>1. \A q \in Revisions : deps'[q] = IF q = r THEN d ELSE deps[q]
    BY DEF RowMoves, IInv, TypeOK
<1>2. deps[r].status \notin Terminal
    BY DEF RowMoves, Pending, Terminal
<1>3. \A x \in Revisions : OlderEnded(x) => x <= r
    BY <1>2 DEF OlderEnded, Revisions
<1>4. \A x \in Revisions : OlderEnded(x) => OlderEnded(x)'
    BY <1>1, <1>3 DEF OlderEnded, Revisions
<1>5. \A t \in Release : Persisted(t) => Persisted(t)'
  <2> SUFFICES ASSUME NEW t \in Release, Persisted(t) PROVE Persisted(t)'
      OBVIOUS
  <2>1. t.rev \in Revisions /\ t.digest \in Digests /\ t # Null
      BY ConstantsAssumption DEF Release
  <2>2. deps[t.rev].resolved = t.digest /\ deps[t.rev].resolved # Null
      BY <2>1, ConstantsAssumption DEF Persisted
  <2> QED
      BY <1>1, <2>1, <2>2 DEF Persisted, RowMoves
<1>6. ASSUME NEW t \in Release, NEW x \in Revisions, HealthyTarget(t, x), OlderEnded(x)
      PROVE  HealthyTarget(t, x)'
  <2>1. t.rev \in Revisions /\ t.rev < x /\ x <= r
      BY <1>3, <1>6 DEF Release, HealthyTarget
  <2>2. \A q \in Revisions : q < x => q # r
      BY <2>1 DEF Revisions
  <2>3. \A q \in Revisions : q < x => deps'[q] = deps[q]
      BY <1>1, <2>2
  <2> QED
      BY <1>6, <2>1, <2>3 DEF HealthyTarget
<1> QED
    BY <1>1, <1>3, <1>4, <1>5, <1>6

\* If the lane that makes it is good afterwards, the invariant is kept.
LEMMA RowMovesIInv ==
    ASSUME IInv, NEW w \in Workers, NEW r \in Revisions, NEW d \in Row, RowMoves(w, r, d),
           job'[w] \in Lane, LaneOK(w, job[w])'
    PROVE  IInv'
<1>1. \A q \in Revisions : deps'[q] = IF q = r THEN d ELSE deps[q]
    BY RowMovesStable
<1>2. \A x \in Revisions : OlderEnded(x) => OlderEnded(x)' /\ x <= r
    BY RowMovesStable
<1>3. \A t \in Release : Persisted(t) => Persisted(t)'
    BY RowMovesStable
<1>4. \A t \in Release, x \in Revisions :
         HealthyTarget(t, x) /\ OlderEnded(x) => HealthyTarget(t, x)'
    BY RowMovesStable
<1>5. /\ revision \in Nat /\ r \in Nat /\ r <= revision /\ revision > 0
      /\ revision \in Revisions /\ revision' = revision
  <2>1. r <= revision /\ revision' = revision
      BY DEF RowMoves
  <2>2. revision \in 0..MaxRevision
      BY DEF IInv, TypeOK
  <2>3. r \in 1..MaxRevision
      BY DEF Revisions
  <2> QED
      BY <2>1, <2>2, <2>3, ConstantsAssumption DEF Revisions
<1>6. TypeOK'
  <2>1. appStatus' \in {"pending", "queued", "healthy", "recovered", "failed", "cancelled"}
    <3>1. CASE d.status \in Pending
        BY <3>1 DEF RowMoves, IInv, TypeOK
    <3>2. CASE d.status \notin Pending
      <4>1. d.status \in Terminal /\ appStatus' = StatusAfter(r, d.status, d.recovery)
          BY <3>2 DEF RowMoves, Pending
      <4> QED
          BY <4>1 DEF StatusAfter, FinishedStatus, Terminal
    <3> QED
        BY <3>1, <3>2
  <2>2. deps' \in [Revisions -> Row]
      BY DEF RowMoves, IInv, TypeOK
  <2>3. job' \in [Workers -> Lane]
      BY DEF RowMoves, IInv, TypeOK
  <2> QED
      BY <2>1, <2>2, <2>3 DEF RowMoves, IInv, TypeOK
<1>7. RowsOK'
  <2> SUFFICES ASSUME NEW q \in Revisions PROVE RowOK(q)'
      BY DEF RowsOK
  <2>1. RowOK(q)
      BY DEF IInv, RowsOK
  <2>2. CASE q = r
    <3>1. deps'[q] = d /\ d.status \notin {"absent", "queued"}
        BY <1>1, <2>2 DEF RowMoves, Terminal
    <3>2. ~(revision' < q)
        BY <1>5, <2>2
    <3>3. OlderEnded(q)'
        BY <1>2, <2>2 DEF RowMoves
    <3>4. d.recSpec \in Release \cup {Null}
        BY DEF Row
    <3>5. d.recSpec # Null => HealthyTarget(d.recSpec, q)'
        BY <1>4, <2>2, <3>4 DEF RowMoves
    <3>6. /\ d.status = "succeeded" => d.resolved # Null
          /\ d.status \in Terminal => d.recovery # "running"
          /\ d.recovery \in {"", "skipped"} <=> d.recSpec = Null
        BY DEF RowMoves
    <3>7. d.recSpec # Null => HealthyTarget(deps[q].recSpec, q)'
        BY <3>1, <3>5 DEF HealthyTarget
    <3> QED
        BY <3>1, <3>2, <3>3, <3>6, <3>7 DEF RowOK
  <2>3. CASE q # r
    <3>1. deps'[q] = deps[q] /\ revision' = revision
        BY <1>1, <2>3 DEF RowMoves
    <3>2. deps[q].recSpec \in Release \cup {Null}
        BY DEF IInv, TypeOK, Row
    <3>3. deps[q].recSpec # Null => HealthyTarget(deps[q].recSpec, q) /\ OlderEnded(q)
        BY <2>1 DEF RowOK
    <3>4. ASSUME deps[q].recSpec # Null PROVE HealthyTarget(deps[q].recSpec, q)'
      <4>1. PICK t \in Release : t = deps[q].recSpec
          BY <3>2, <3>4
      <4>2. HealthyTarget(t, q)'
          BY <1>4, <3>3, <3>4, <4>1
      <4> QED
          BY <3>1, <4>1, <4>2 DEF HealthyTarget
    <3>5. deps[q].status \notin {"absent", "queued"} => OlderEnded(q)'
        BY <1>2, <2>1 DEF RowOK
    <3> QED
        BY <2>1, <3>1, <3>4, <3>5 DEF RowOK
  <2> QED
      BY <2>2, <2>3
<1>8. LanesOK'
  <2> SUFFICES ASSUME NEW v \in Workers PROVE LaneOK(v, job[v])'
      BY DEF LanesOK
  <2>1. CASE v = w
      BY <2>1
  <2>2. CASE v # w
    <3>1. LaneOK(v, job[v]) /\ job[v] \in Lane
        BY DEF IInv, LanesOK, TypeOK
    <3>2. job'[v] = job[v] /\ lock' # v /\ revision' = revision
        BY <2>2 DEF RowMoves, IInv, TypeOK
    <3>3. PICK j \in Lane : j = job[v]
        BY <3>1
    <3>4. /\ j.spec \in Release \cup {Null} /\ j.prev \in Release \cup {Null}
          /\ j.recSpec \in Release \cup {Null}
        BY DEF Lane
    <3>5. j.pc # "idle" => j.rev \in Revisions /\ j.rev <= revision /\ OlderEnded(j.rev)
        BY <3>1, <3>3 DEF LaneOK
    <3>6. Persisted(j.spec)' /\ Persisted(j.recSpec)'
      <4>1. Persisted(j.spec) /\ Persisted(j.recSpec)
          BY <3>1, <3>3 DEF LaneOK
      <4>2. Persisted(j.spec)'
          BY <1>3, <3>4, <4>1 DEF Persisted
      <4>3. Persisted(j.recSpec)'
          BY <1>3, <3>4, <4>1 DEF Persisted
      <4> QED
          BY <4>2, <4>3
    <3>7. j.prev # Null => HealthyTarget(j.prev, j.rev)'
      <4>1. j.prev # Null => j.pc # "idle" /\ HealthyTarget(j.prev, j.rev)
          BY <3>1, <3>3 DEF LaneOK
      <4> QED
          BY <1>4, <3>4, <3>5, <4>1
    <3>8. j.pc # "idle" => OlderEnded(j.rev)'
        BY <1>2, <3>5
    <3>9. LaneOK(v, j)'
        BY <3>1, <3>2, <3>3, <3>5, <3>6, <3>7, <3>8 DEF LaneOK
    <3>10. j = job'[v]
        BY <3>2, <3>3
    <3> QED
        BY <3>9, <3>10 DEF LaneOK, InSync, OlderEnded, Persisted, HealthyTarget
  <2> QED
      BY <2>1, <2>2
<1>9. AppliedIsPersisted'
  <2> SUFFICES ASSUME NEW s \in Services, cluster'[s].rel # Null
               PROVE  deps'[cluster'[s].rel.rev].resolved = cluster'[s].rel.digest
      BY DEF AppliedIsPersisted
  <2>1. PICK t \in Release : t = cluster[s].rel /\ t = cluster'[s].rel
      BY DEF IInv, TypeOK, RowMoves
  <2>2. Persisted(t)
      BY <2>1 DEF IInv, AppliedIsPersisted, Persisted
  <2>3. Persisted(t)'
      BY <1>3, <2>2
  <2> QED
      BY <2>1, <2>3 DEF Persisted
<1>10. StatusAgrees'
  <2>1. revision' = revision /\ revision > 0
      BY <1>5
  <2>2. appStatus = IF deps[revision].status \in Pending THEN "queued"
                    ELSE FinishedStatus(deps[revision].status, deps[revision].recovery)
      BY <2>1 DEF IInv, StatusAgrees
  <2>3. CASE d.status \in Pending
    <3>1. appStatus' = appStatus
        BY <2>3 DEF RowMoves
    <3>2. CASE revision = r
        BY <1>1, <2>1, <2>2, <2>3, <3>1, <3>2 DEF StatusAgrees, RowMoves
    <3>3. CASE revision # r
        BY <1>1, <1>5, <2>1, <2>2, <3>1, <3>3 DEF StatusAgrees
    <3> QED
        BY <3>2, <3>3
  <2>4. CASE d.status \notin Pending
    <3>1. appStatus' = StatusAfter(r, d.status, d.recovery)
        BY <2>4 DEF RowMoves
    <3>2. CASE revision = r
        BY <1>1, <1>5, <2>1, <2>4, <3>1, <3>2 DEF StatusAgrees, StatusAfter
    <3>3. CASE revision # r
      <4>1. r < revision /\ deps[r].status \notin Terminal
        <5>1. r < revision
            BY <1>5, <3>3
        <5> QED
            BY <5>1 DEF RowMoves, Pending, Terminal
      <4>2. RowOK(revision)
          BY <1>5 DEF IInv, RowsOK
      <4>3. deps[revision].status \in {"absent", "queued"}
          BY <4>1, <4>2 DEF RowOK, OlderEnded
      <4>4. deps[revision].status = "queued"
        <5>1. ~(revision < revision)
            BY <1>5
        <5> QED
            BY <4>2, <4>3, <5>1 DEF RowOK
      <4>5. deps'[revision'].status \in Pending
          BY <1>1, <1>5, <2>1, <3>3, <4>4 DEF Pending
      <4>6. appStatus' = "queued"
          BY <3>1, <3>3 DEF StatusAfter
      <4> QED
          BY <4>5, <4>6 DEF StatusAgrees
    <3> QED
        BY <3>2, <3>3
  <2> QED
      BY <2>3, <2>4
<1>11. IdempotentAccept'
  <2>1. \A q \in Revisions : deps'[q].idem = deps[q].idem
      BY <1>1 DEF RowMoves
  <2> QED
      BY <2>1 DEF IInv, IdempotentAccept
<1> QED
    BY <1>6, <1>7, <1>8, <1>9, <1>10, <1>11 DEF IInv

\* The lane that changed its row is good afterwards if its new state agrees with
\* the new row.
LEMMA RowMovesLane ==
    ASSUME IInv, NEW w \in Workers, NEW r \in Revisions, NEW d \in Row, RowMoves(w, r, d),
           NEW n \in Lane, n = job'[w],
           job[w].pc # "idle", r = job[w].rev, n.rev = r, n.prev = job[w].prev,
           n.pc # "idle",
           Persisted(n.spec)', Persisted(n.recSpec)',
           n.pc \in Executing =>
              /\ d.status = "running" /\ d.recovery = n.recovery
              /\ d.recSpec = n.recSpec /\ d.only = n.only /\ d.key = n.key,
           n.pc = "finish" => n.outcome \in Terminal,
           Hopeful(n) => n.recovery = "" /\ n.spec # Null,
           n.spec # Null /\ (Hopeful(n) \/ n.pc \in {"claimed", "resolve"}) =>
              n.spec.rev = n.rev
    PROVE  IInv'
<1>1. deps'[r] = d
    BY RowMovesStable
<1>2. OlderEnded(r)' /\ r <= revision'
    BY RowMovesStable DEF RowMoves
<1>3. n.prev # Null => HealthyTarget(n.prev, n.rev)'
  <2>1. LaneOK(w, job[w]) /\ n.prev \in Release \cup {Null}
      BY DEF IInv, LanesOK, Lane
  <2>2. n.prev # Null => HealthyTarget(n.prev, r)
      BY <2>1 DEF LaneOK
  <2>3. OlderEnded(r)
      BY DEF RowMoves
  <2> QED
      BY <2>1, <2>2, <2>3, RowMovesStable
<1>4. n.pc \in Executing => InSync(n)'
    BY <1>1 DEF InSync
<1>5. LaneOK(w, n)'
    BY <1>2, <1>3, <1>4 DEF LaneOK
<1>6. LaneOK(w, job[w])'
    BY <1>5 DEF LaneOK, InSync, OlderEnded, Persisted, HealthyTarget
<1> QED
    BY <1>6, RowMovesIInv

\* Lane j, with its images resolved to rel, goes on as n: to the deploy, the
\* recovery or the final commit, with its claim unchanged.
Dispatched(j, rel, n) ==
    /\ n.rev = j.rev /\ n.key = j.key /\ n.only = j.only /\ n.prev = j.prev
    /\ n.recovery = j.recovery /\ n.recSpec = j.recSpec
    /\ \/ n.pc = "deploy" /\ n.spec = rel /\ j.recovery = ""
       \/ n.pc = "recover" /\ n.spec = j.recSpec
       \/ n.pc = "finish" /\ n.spec = rel /\ n.outcome = "failed"

\* Where run goes once the images are resolved.
LEMMA DispatchOK ==
    ASSUME NEW j \in Lane, NEW rel \in Release \cup {Null},
           deps[j.rev].attempt \in SUBSET Services, deps[j.rev].ready \in SUBSET Services
    PROVE  Dispatch(j, rel) \in Lane /\ Dispatched(j, rel, Dispatch(j, rel))
<1> DEFINE todo == IF j.only = {} THEN Services ELSE j.only
<1>1. todo \in SUBSET Services
    BY DEF Lane
<1>2. j.recSpec \in Release \cup {Null}
    BY DEF Lane
<1>3. CASE j.recovery = ""
  <2>1. Dispatch(j, rel) = [j EXCEPT !.pc = "deploy", !.spec = rel, !.todo = todo]
      BY <1>3 DEF Dispatch
  <2> HIDE DEF todo
  <2>2. Dispatch(j, rel) \in Lane
      BY <1>1, <2>1, Zenon DEF Lane, PCs
  <2> QED
      BY <1>3, <2>1, <2>2 DEF Lane, Dispatched
<1>4. CASE j.recovery = "running"
  <2>1. Dispatch(j, rel) = [j EXCEPT !.pc = "recover", !.spec = j.recSpec, !.todo = todo]
      BY <1>4 DEF Dispatch
  <2> HIDE DEF todo
  <2>2. Dispatch(j, rel) \in Lane
      BY <1>1, <1>2, <2>1, Zenon DEF Lane, PCs
  <2> QED
      BY <1>4, <2>1, <2>2 DEF Lane, Dispatched
<1>5. CASE j.recovery \notin {"", "running"}
  <2> DEFINE bad == deps[j.rev].attempt
             ready == deps[j.rev].ready
  <2>1. Dispatch(j, rel) = [j EXCEPT !.pc = "finish", !.spec = rel, !.outcome = "failed",
                                     !.bad = bad, !.ready = ready]
      BY <1>5 DEF Dispatch
  <2>2. bad \in SUBSET Services /\ ready \in SUBSET Services
      OBVIOUS
  <2> HIDE DEF bad, ready
  <2>3. Dispatch(j, rel) \in Lane
      BY <2>1, <2>2, Zenon DEF Lane, PCs, Terminal
  <2> QED
      BY <1>5, <2>1, <2>3 DEF Lane, Dispatched
<1> QED
    BY <1>3, <1>4, <1>5

\* Images that were resolved by an earlier attempt are used as they are.
LEMMA AlreadyResolvedIInv ==
    ASSUME IInv, NEW w \in Workers, AlreadyResolved(w) PROVE IInv'
<1>1. job \in [Workers -> Lane] /\ job[w] \in Lane /\ faults \in 0..MaxFaults
    BY DEF IInv, TypeOK
<1>2. LaneMoves(w)
    BY <1>1 DEF LaneMoves, AlreadyResolved
<1>3. LaneOK(w, job[w]) /\ job[w].pc = "resolve" /\ job[w].spec # Null
    BY DEF IInv, LanesOK, AlreadyResolved
<1>4. job[w].rev \in Revisions /\ job[w].spec \in Release
    BY <1>1, <1>3 DEF LaneOK, Lane
<1>5. deps[job[w].rev].attempt \in SUBSET Services /\ deps[job[w].rev].ready \in SUBSET Services
    BY <1>4 DEF IInv, TypeOK, Row
<1>6. PICK n \in Lane : n = Dispatch(job[w], job[w].spec)
    BY <1>1, <1>4, <1>5, DispatchOK
<1>7. job'[w] = n
    BY <1>1, <1>6 DEF AlreadyResolved
<1>8. Dispatched(job[w], job[w].spec, n)
    BY <1>1, <1>4, <1>5, <1>6, DispatchOK
<1>9. LaneOK(w, n)
    BY <1>3, <1>8 DEF Dispatched, LaneOK, InSync, Executing, Hopeful, Terminal
<1> QED
    BY <1>2, <1>7, <1>9, LaneMovesIInv

\* SetResolved persists the images first; the lane uses what was persisted.
LEMMA SetResolvedIInv ==
    ASSUME IInv, NEW w \in Workers, NEW digest \in Digests, SetResolved(w, digest)
    PROVE  IInv'
<1> DEFINE r == job[w].rev
           persisted == IF deps[r].resolved = Null THEN digest ELSE deps[r].resolved
           d == [deps[r] EXCEPT !.resolved = persisted]
           rel == [rev |-> r, digest |-> persisted]
<1>1. job \in [Workers -> Lane] /\ job[w] \in Lane /\ deps \in [Revisions -> Row]
    BY DEF IInv, TypeOK
<1>2. LaneOK(w, job[w]) /\ job[w].pc = "resolve" /\ lock = w
    BY DEF IInv, LanesOK, SetResolved, OnLockSession
<1>3. r \in Revisions /\ r <= revision /\ OlderEnded(r)
    BY <1>2 DEF LaneOK
<1>4. deps[r] \in Row /\ RowOK(r)
    BY <1>1, <1>3 DEF IInv, RowsOK
<1>5. persisted \in Digests /\ persisted # Null
    BY <1>4, ConstantsAssumption DEF Row
<1>6. rel \in Release /\ rel # Null
    BY <1>3, <1>5, ConstantsAssumption DEF Release
<1>7. deps[r].status = "running" /\ deps' = [deps EXCEPT ![r] = d]
    BY <1>1, <1>3 DEF SetResolved
<1>8. d \in Row
  <2>1. persisted \in Digests \cup {Null}
      BY <1>5
  <2> HIDE DEF persisted
  <2> QED
      BY <1>4, <2>1, Zenon DEF Row
<1>9. /\ d.status = "running" /\ d.idem = deps[r].idem /\ d.recovery = deps[r].recovery
      /\ d.recSpec = deps[r].recSpec /\ d.only = deps[r].only /\ d.key = deps[r].key
      /\ d.resolved = persisted
    BY <1>4, <1>7 DEF Row
<1>10. PICK n \in Lane : n = Dispatch(job[w], rel) /\ Dispatched(job[w], rel, n)
  <2>1. deps[r].attempt \in SUBSET Services /\ deps[r].ready \in SUBSET Services
      BY <1>4 DEF Row
  <2> QED
      BY <1>1, <1>6, <2>1, DispatchOK
<1>11. n = job'[w] /\ job' = [job EXCEPT ![w] = job'[w]]
    BY <1>1, <1>10 DEF SetResolved
<1> HIDE DEF persisted, d
<1>12. RowMoves(w, r, d)
  <2>1. d.status \in Pending /\ d.status \notin Terminal
      BY <1>9 DEF Pending, Terminal
  <2>2. deps[r].resolved # Null => d.resolved = deps[r].resolved
      BY <1>9 DEF persisted
  <2>3. UNCHANGED <<appStatus, revision, lock, live, cluster, strays, faults>>
      BY DEF SetResolved
  <2> QED
      BY <1>2, <1>3, <1>4, <1>7, <1>9, <1>11, <2>1, <2>2, <2>3
      DEF RowMoves, RowOK, Pending, Terminal
<1>13. deps'[r] = d
    BY <1>1, <1>3, <1>7
<1>14. Persisted(n.spec)' /\ Persisted(n.recSpec)'
  <2>1. job[w].recSpec \in Release \cup {Null} /\ Persisted(job[w].recSpec)
      BY <1>1, <1>2 DEF Lane, LaneOK
  <2>2. Persisted(job[w].recSpec) => (job[w].recSpec # Null =>
            deps'[job[w].recSpec.rev].resolved = job[w].recSpec.digest)
      BY <1>3, <1>8, <1>12, <2>1, RowMovesStable DEF Persisted
  <2>3. n.recSpec = job[w].recSpec /\ n.spec \in {rel, job[w].recSpec}
      BY <1>10 DEF Dispatched
  <2>4. deps'[rel.rev].resolved = rel.digest
      BY <1>9, <1>13
  <2> HIDE DEF rel
  <2> QED
      BY <2>1, <2>2, <2>3, <2>4 DEF Persisted
<1>15. n.pc \in {"deploy", "recover", "finish"} /\ (n.pc = "finish" => n.outcome = "failed")
       /\ (n.pc = "deploy" => n.spec = rel /\ n.recovery = "")
       /\ n.rev = r /\ n.prev = job[w].prev
    BY <1>10 DEF Dispatched
<1>16. n.recovery = d.recovery /\ n.recSpec = d.recSpec /\ n.only = d.only /\ n.key = d.key
    BY <1>2, <1>9, <1>10 DEF Dispatched, LaneOK, InSync, Executing
<1>17. rel.rev = r
    OBVIOUS
<1> HIDE DEF rel, r
<1> QED
    BY <1>2, <1>3, <1>6, <1>8, <1>9, <1>11, <1>12, <1>14, <1>15, <1>16, <1>17, RowMovesLane
    DEF r, Hopeful, Terminal

\* The claim marks its row running and reads it into the lane.
LEMMA MarkRunningIInv == ASSUME IInv, NEW w \in Workers, MarkRunning(w) PROVE IInv'
<1> DEFINE r == job[w].rev
<1>1. job \in [Workers -> Lane] /\ job[w] \in Lane /\ deps \in [Revisions -> Row]
      /\ faults \in 0..MaxFaults
    BY DEF IInv, TypeOK
<1>2. LaneOK(w, job[w]) /\ job[w].pc = "locked" /\ lock = w
    BY DEF IInv, LanesOK, MarkRunning, OnLockSession
<1>3. r \in Revisions /\ r <= revision /\ OlderEnded(r)
    BY <1>2 DEF LaneOK
<1>4. deps[r] \in Row /\ RowOK(r)
    BY <1>1, <1>3 DEF IInv, RowsOK
<1>5. CASE deps[r].status \notin Pending
  <2>1. job'[w] = [job[w] EXCEPT !.pc = "release"]
      BY <1>1, <1>5 DEF MarkRunning
  <2>2. LaneMoves(w)
      BY <1>1, <1>5 DEF MarkRunning, LaneMoves
  <2>3. job'[w] \in Lane
      BY <1>1, <2>1, Zenon DEF Lane, PCs
  <2>4. Carries(job[w], job'[w])
      BY <1>1, <1>2, <2>1 DEF Carries, Lane
  <2> QED
      BY <2>2, <2>3, <2>4, CarriesIInv
<1>6. CASE deps[r].status \in Pending
  <2> DEFINE d == [deps[r] EXCEPT !.status = "running"]
             rel == IF deps[r].resolved = Null THEN Null
                    ELSE [rev |-> r, digest |-> deps[r].resolved]
             m == [job[w] EXCEPT !.pc = "claimed", !.key = deps[r].key,
                      !.cancel = deps[r].cancel, !.only = deps[r].only,
                      !.recovery = deps[r].recovery, !.recSpec = deps[r].recSpec,
                      !.spec = rel]
  <2>1. deps' = [deps EXCEPT ![r] = d] /\ job' = [job EXCEPT ![w] = m]
      BY <1>1, <1>3, <1>6 DEF MarkRunning
  <2>2. d \in Row
      BY <1>4, Zenon DEF Row, Pending
  <2>3. rel \in Release \cup {Null} /\ (rel # Null => rel.rev = r /\ rel.digest = deps[r].resolved)
      BY <1>3, <1>4 DEF Row, Release
  <2>4. /\ deps[r].key \in Keys \cup {Null} /\ deps[r].cancel \in BOOLEAN
        /\ deps[r].only \in SUBSET Services /\ deps[r].recovery \in RecoveryStates
        /\ deps[r].recSpec \in Release \cup {Null}
      BY <1>4, Zenon DEF Row
  <2>5. /\ d.status = "running" /\ d.idem = deps[r].idem /\ d.recovery = deps[r].recovery
        /\ d.recSpec = deps[r].recSpec /\ d.only = deps[r].only /\ d.key = deps[r].key
        /\ d.resolved = deps[r].resolved
      BY <1>4 DEF Row
  <2> HIDE DEF rel, d
  <2>6. m \in Lane
    <3> HIDE DEF r
    <3> QED
        BY <1>1, <2>3, <2>4, Zenon DEF Lane, PCs
  <2>7. /\ m.pc = "claimed" /\ m.key = deps[r].key /\ m.only = deps[r].only
        /\ m.recovery = deps[r].recovery /\ m.recSpec = deps[r].recSpec /\ m.spec = rel
        /\ m.rev = r /\ m.prev = job[w].prev
      BY <1>1 DEF Lane
  <2> HIDE DEF m
  <2>8. PICK n \in Lane : n = m
      BY <2>6
  <2>9. n = job'[w] /\ job' = [job EXCEPT ![w] = job'[w]]
      BY <1>1, <2>1, <2>8
  <2>10. RowMoves(w, r, d)
    <3>1. UNCHANGED <<revision, appStatus, lock, live, cluster, strays, faults>>
        BY DEF MarkRunning
    <3> QED
        BY <1>2, <1>3, <1>4, <1>6, <2>1, <2>5, <2>9, <3>1
        DEF RowMoves, RowOK, Pending, Terminal
  <2>11. deps'[r] = d
      BY <1>1, <1>3, <2>1
  <2>12. Persisted(n.spec)' /\ Persisted(n.recSpec)'
    <3>1. rel # Null => deps'[rel.rev].resolved = rel.digest
        BY <2>3, <2>5, <2>11
    <3>2. PICK t \in Release \cup {Null} : t = deps[r].recSpec
        BY <2>4
    <3>3. t # Null => t.rev \in Revisions /\ t.rev < r /\ deps[t.rev].resolved = t.digest
        BY <1>4, <3>2 DEF RowOK, HealthyTarget, Release
    <3>4. t # Null => deps'[t.rev].resolved = t.digest
        BY <1>1, <1>3, <2>1, <2>5, <3>3
    <3> QED
        BY <2>7, <2>8, <3>1, <3>2, <3>4 DEF Persisted
  <2>13. /\ n.pc \in Executing /\ n.pc # "finish" /\ n.pc # "idle" /\ ~Hopeful(n)
         /\ n.rev = r /\ n.prev = job[w].prev /\ job[w].pc # "idle"
         /\ d.recovery = n.recovery /\ d.recSpec = n.recSpec /\ d.only = n.only
         /\ d.key = n.key /\ d.status = "running"
         /\ (n.spec # Null => n.spec.rev = n.rev)
      BY <1>2, <2>3, <2>5, <2>7, <2>8 DEF Hopeful, Executing
  <2> QED
      BY <1>3, <2>2, <2>9, <2>10, <2>12, <2>13, RowMovesLane
<1> QED
    BY <1>5, <1>6

\* BeginRecovery records the target before anything is restored.
LEMMA BeginRecoveryIInv ==
    ASSUME IInv, NEW w \in Workers, NEW skip \in BOOLEAN, BeginRecovery(w, skip)
    PROVE  IInv'
<1> DEFINE r == job[w].rev
           state == IF skip THEN "skipped" ELSE "running"
           target == IF skip THEN Null ELSE job[w].prev
           d == [deps[r] EXCEPT !.recovery = state, !.recSpec = target]
<1>1. job \in [Workers -> Lane] /\ job[w] \in Lane /\ deps \in [Revisions -> Row]
    BY DEF IInv, TypeOK
<1>2. LaneOK(w, job[w]) /\ job[w].pc = "deploy" /\ lock = w
    BY DEF IInv, LanesOK, BeginRecovery, OnLockSession
<1>3. r \in Revisions /\ r <= revision /\ OlderEnded(r)
    BY <1>2 DEF LaneOK
<1>4. deps[r] \in Row /\ RowOK(r)
    BY <1>1, <1>3 DEF IInv, RowsOK
<1>5. deps[r].status = "running" /\ (~skip => job[w].prev # Null)
    BY DEF BeginRecovery
<1>6. deps' = [deps EXCEPT ![r] = d]
    BY <1>1, <1>3 DEF BeginRecovery
<1>7. target \in Release \cup {Null} /\ (target # Null => HealthyTarget(target, r))
    BY <1>1, <1>2 DEF Lane, LaneOK
<1>8. state \in RecoveryStates
    BY DEF RecoveryStates
<1>9. /\ state \in {"skipped", "running"} /\ (state = "running" <=> target # Null)
      /\ (~skip => state = "running") /\ (skip => state = "skipped" /\ target = Null)
    BY <1>5
<1> HIDE DEF state, target
<1>10. d \in Row
    BY <1>4, <1>7, <1>8, Zenon DEF Row
<1>11. /\ d.status = "running" /\ d.idem = deps[r].idem /\ d.recovery = state
       /\ d.recSpec = target /\ d.only = deps[r].only /\ d.key = deps[r].key
       /\ d.resolved = deps[r].resolved
    BY <1>4, <1>5 DEF Row
<1> HIDE DEF d
<1>12. PICK n \in Lane :
          /\ n = job'[w] /\ job' = [job EXCEPT ![w] = n]
          /\ n.rev = r /\ n.prev = job[w].prev /\ n.only = job[w].only /\ n.key = job[w].key
          /\ n.recovery = state /\ n.recSpec = (IF skip THEN job[w].recSpec ELSE target)
          /\ IF skip THEN n.pc = "finish" /\ n.outcome = "failed" /\ n.spec = job[w].spec
             ELSE n.pc = "recover" /\ n.spec = target
  <2>1. CASE skip
    <3> DEFINE m == [job[w] EXCEPT !.recovery = state, !.pc = "finish",
                                   !.outcome = "failed", !.todo = {}]
    <3>1. m \in Lane
        BY <1>1, <1>8, Zenon DEF Lane, PCs, Terminal
    <3>2. job' = [job EXCEPT ![w] = m]
        BY <2>1 DEF BeginRecovery, state
    <3>3. /\ m.rev = r /\ m.prev = job[w].prev /\ m.only = job[w].only /\ m.key = job[w].key
          /\ m.recovery = state /\ m.recSpec = job[w].recSpec
          /\ m.pc = "finish" /\ m.outcome = "failed" /\ m.spec = job[w].spec
        BY <1>1 DEF Lane
    <3> HIDE DEF m
    <3> QED
        BY <1>1, <2>1, <3>1, <3>2, <3>3
  <2>2. CASE ~skip
    <3> DEFINE m == [job[w] EXCEPT !.recovery = state, !.recSpec = target,
                        !.pc = "recover", !.spec = target, !.todo = Selected(w)]
    <3>1. Selected(w) \in SUBSET Services
        BY <1>1 DEF Selected, Lane
    <3>2. m \in Lane
        BY <1>1, <1>7, <1>8, <3>1, Zenon DEF Lane, PCs
    <3>3. job' = [job EXCEPT ![w] = m]
        BY <2>2 DEF BeginRecovery, state, target
    <3>4. /\ m.rev = r /\ m.prev = job[w].prev /\ m.only = job[w].only /\ m.key = job[w].key
          /\ m.recovery = state /\ m.recSpec = target
          /\ m.pc = "recover" /\ m.spec = target
        BY <1>1 DEF Lane
    <3> HIDE DEF m
    <3> QED
        BY <1>1, <2>2, <3>2, <3>3, <3>4
  <2> QED
      BY <2>1, <2>2
<1>13. RowMoves(w, r, d)
  <2>1. UNCHANGED <<revision, appStatus, lock, live, cluster, strays, faults>>
      BY DEF BeginRecovery
  <2>2. d.status \in Pending /\ deps[r].status \in Pending
      BY <1>5, <1>11 DEF Pending
  <2> QED
      BY <1>2, <1>3, <1>4, <1>5, <1>6, <1>7, <1>9, <1>11, <1>12, <2>1, <2>2
      DEF RowMoves, Terminal
<1>14. \A t \in Release : Persisted(t) => Persisted(t)'
    BY <1>3, <1>10, <1>13, RowMovesStable
<1>15. job[w].recSpec = deps[r].recSpec /\ job[w].only = deps[r].only /\ job[w].key = deps[r].key
    BY <1>2 DEF LaneOK, InSync, Executing
<1>16. skip => job[w].recSpec = Null
  <2>1. deps[r].recovery = ""
      BY DEF BeginRecovery
  <2> QED
      BY <1>4, <1>15, <2>1 DEF RowOK
<1>17. Persisted(n.spec)' /\ Persisted(n.recSpec)'
  <2>1. /\ n.spec \in Release \cup {Null} /\ n.recSpec \in Release \cup {Null}
        /\ job[w].spec \in Release \cup {Null}
      BY <1>1 DEF Lane
  <2>2. Persisted(job[w].spec) /\ Persisted(target)
      BY <1>2, <1>7 DEF LaneOK, Persisted, HealthyTarget
  <2>3. Persisted(n.spec) /\ Persisted(n.recSpec)
      BY <1>12, <1>16, <2>2 DEF Persisted
  <2> QED
      BY <1>14, <2>1, <2>3 DEF Persisted
<1>18. /\ n.pc # "idle" /\ job[w].pc # "idle" 
       /\ n.pc = "finish" => n.outcome \in Terminal
       /\ ~Hopeful(n) /\ n.pc \notin {"claimed", "resolve"}
       /\ d.recovery = n.recovery /\ d.recSpec = n.recSpec
       /\ d.only = n.only /\ d.key = n.key /\ d.status = "running"
    BY <1>2, <1>9, <1>11, <1>12, <1>15, <1>16 DEF Hopeful, Terminal
<1> QED
    BY <1>3, <1>10, <1>12, <1>13, <1>17, <1>18, RowMovesLane

\* FinishRecovery, from recoverRelease or from finish, records how it ended.
LEMMA RecoveryResultIInv ==
    ASSUME IInv, NEW w \in Workers, NEW state \in {"succeeded", "failed"},
           FinishRecovery(w, state) \/ (state = "failed" /\ StopRecovery(w))
    PROVE  IInv'
<1> USE DEF FinishRecovery, StopRecovery
<1> DEFINE r == job[w].rev
           ready == IF FinishRecovery(w, state) THEN Observed ELSE job[w].ready
           d == [deps[r] EXCEPT !.recovery = state, !.attempt = job[w].bad, !.ready = ready]
<1>1. job \in [Workers -> Lane] /\ job[w] \in Lane /\ deps \in [Revisions -> Row]
    BY DEF IInv, TypeOK
<1>2. LaneOK(w, job[w]) /\ job[w].pc \in {"recover", "finish"} /\ lock = w
    BY DEF IInv, LanesOK, OnLockSession
<1>3. r \in Revisions /\ r <= revision /\ OlderEnded(r)
    BY <1>2 DEF LaneOK
<1>4. deps[r] \in Row /\ RowOK(r)
    BY <1>1, <1>3 DEF IInv, RowsOK
<1>5. deps[r].status = "running" /\ deps[r].recovery = "running"
    OBVIOUS
<1>6. deps' = [deps EXCEPT ![r] = d]
  <2>1. CASE FinishRecovery(w, state)
      BY <1>1, <1>3, <2>1
  <2>2. CASE ~FinishRecovery(w, state)
    <3>1. deps' = [deps EXCEPT ![r].recovery = "failed", ![r].attempt = job[w].bad,
                               ![r].ready = job[w].ready] /\ state = "failed"
        BY <2>2
    <3>2. ready = job[w].ready
        BY <2>2
    <3> HIDE DEF ready
    <3> QED
        BY <1>1, <1>3, <3>1, <3>2
  <2> QED
      BY <2>1, <2>2
<1>7. ready \in SUBSET Services /\ job[w].bad \in SUBSET Services
    BY <1>1 DEF Observed, Lane
<1>8. state \in RecoveryStates
    BY DEF RecoveryStates
<1> HIDE DEF ready
<1>9. d \in Row
    BY <1>4, <1>7, <1>8, Zenon DEF Row
<1>10. /\ d.status = "running" /\ d.idem = deps[r].idem /\ d.recovery = state
       /\ d.recSpec = deps[r].recSpec /\ d.only = deps[r].only /\ d.key = deps[r].key
       /\ d.resolved = deps[r].resolved
    BY <1>4, <1>5 DEF Row
<1> HIDE DEF d
<1>11. PICK n \in Lane :
          /\ n = job'[w] /\ job' = [job EXCEPT ![w] = n]
          /\ n.rev = r /\ n.prev = job[w].prev /\ n.only = job[w].only /\ n.key = job[w].key
          /\ n.recovery = state /\ n.recSpec = job[w].recSpec /\ n.spec = job[w].spec
          /\ n.pc = "finish" /\ n.outcome \in {"failed", "cancelled"}
  <2>1. CASE FinishRecovery(w, state)
    <3> DEFINE m == [job[w] EXCEPT !.recovery = state, !.pc = "finish",
                        !.outcome = "failed", !.todo = {}, !.ready = Observed]
    <3>1. Observed \in SUBSET Services
        BY DEF Observed
    <3>2. m \in Lane
        BY <1>1, <1>8, <3>1, Zenon DEF Lane, PCs, Terminal
    <3>3. job' = [job EXCEPT ![w] = m]
        BY <2>1
    <3>4. /\ m.rev = r /\ m.prev = job[w].prev /\ m.only = job[w].only /\ m.key = job[w].key
          /\ m.recovery = state /\ m.recSpec = job[w].recSpec /\ m.spec = job[w].spec
          /\ m.pc = "finish" /\ m.outcome = "failed"
        BY <1>1 DEF Lane
    <3> HIDE DEF m
    <3> QED
        BY <1>1, <3>2, <3>3, <3>4
  <2>2. CASE state = "failed" /\ StopRecovery(w)
    <3> DEFINE m == [job[w] EXCEPT !.recovery = state]
    <3>1. m \in Lane
        BY <1>1, <1>8, Zenon DEF Lane
    <3>2. job' = [job EXCEPT ![w] = m]
        BY <1>1, <2>2
    <3>3. job[w].outcome \in {"failed", "cancelled"} /\ job[w].pc = "finish"
        BY <1>2, <2>2 DEF LaneOK, Terminal
    <3>4. /\ m.rev = r /\ m.prev = job[w].prev /\ m.only = job[w].only /\ m.key = job[w].key
          /\ m.recovery = state /\ m.recSpec = job[w].recSpec /\ m.spec = job[w].spec
          /\ m.pc = job[w].pc /\ m.outcome = job[w].outcome
        BY <1>1 DEF Lane
    <3> HIDE DEF m
    <3> QED
        BY <1>1, <3>1, <3>2, <3>3, <3>4
  <2> QED
      BY <2>1, <2>2
<1>12. RowMoves(w, r, d)
  <2>1. UNCHANGED <<revision, appStatus, lock, live, cluster, strays, faults>>
      OBVIOUS
  <2>2. d.status \in Pending /\ deps[r].status \in Pending
      BY <1>5, <1>10 DEF Pending
  <2> QED
      BY <1>2, <1>3, <1>4, <1>5, <1>6, <1>10, <1>11, <2>1, <2>2
      DEF RowMoves, RowOK, Terminal
<1>13. \A t \in Release : Persisted(t) => Persisted(t)'
    BY <1>3, <1>9, <1>12, RowMovesStable
<1>14. job[w].recSpec = deps[r].recSpec /\ job[w].only = deps[r].only /\ job[w].key = deps[r].key
    BY <1>2 DEF LaneOK, InSync, Executing
<1>15. Persisted(n.spec)' /\ Persisted(n.recSpec)'
  <2>1. n.spec \in Release \cup {Null} /\ n.recSpec \in Release \cup {Null}
      BY DEF Lane
  <2>2. Persisted(n.spec) /\ Persisted(n.recSpec)
      BY <1>2, <1>11 DEF LaneOK
  <2> QED
      BY <1>13, <2>1, <2>2 DEF Persisted
<1>16. /\ n.pc # "idle" /\ job[w].pc # "idle"
       /\ n.pc = "finish" => n.outcome \in Terminal
       /\ ~Hopeful(n) /\ n.pc \notin {"claimed", "resolve"}
       /\ d.recovery = n.recovery /\ d.recSpec = n.recSpec
       /\ d.only = n.only /\ d.key = n.key /\ d.status = "running"
    BY <1>2, <1>10, <1>11, <1>14 DEF Hopeful, Terminal
<1> QED
    BY <1>3, <1>9, <1>11, <1>12, <1>15, <1>16, RowMovesLane

\* The outcome is committed on a row that is running and whose recovery has ended.
LEMMA FinishIInv == ASSUME IInv, NEW w \in Workers, Finish(w) PROVE IInv'
<1> DEFINE r == job[w].rev
           d == [deps[r] EXCEPT !.status = job[w].outcome, !.attempt = job[w].bad,
                                !.ready = job[w].ready]
<1>1. job \in [Workers -> Lane] /\ job[w] \in Lane /\ deps \in [Revisions -> Row]
    BY DEF IInv, TypeOK
<1>2. LaneOK(w, job[w]) /\ job[w].pc = "finish" /\ lock = w /\ deps[r].status = "running"
    BY DEF IInv, LanesOK, Finish, OnLockSession
<1>3. r \in Revisions /\ r <= revision /\ OlderEnded(r)
    BY <1>2 DEF LaneOK
<1>4. deps[r] \in Row /\ RowOK(r)
    BY <1>1, <1>3 DEF IInv, RowsOK
<1>5. deps' = [deps EXCEPT ![r] = d]
    BY <1>1, <1>3 DEF Finish
<1>6. /\ job[w].bad \in SUBSET Services /\ job[w].ready \in SUBSET Services
      /\ job[w].outcome \in Terminal
    BY <1>1, <1>2 DEF Lane, LaneOK
<1>7. d \in Row
    BY <1>4, <1>6, Zenon DEF Row
<1>8. /\ d.status = job[w].outcome /\ d.idem = deps[r].idem /\ d.recovery = deps[r].recovery
      /\ d.recSpec = deps[r].recSpec /\ d.resolved = deps[r].resolved
    BY <1>4 DEF Row
<1>9. deps[r].recovery = job[w].recovery
    BY <1>2 DEF LaneOK, InSync, Executing
<1>10. d.recovery # "running"
    BY <1>2, <1>8, <1>9 DEF Finish, RecoveryEnded, LaneOK, Hopeful
<1>11. d.status = "succeeded" => d.resolved # Null
  <2>1. ASSUME d.status = "succeeded" PROVE deps[r].resolved = job[w].spec.digest /\ job[w].spec # Null
      BY <1>2, <1>8, <2>1 DEF LaneOK, Hopeful, Persisted
  <2>2. job[w].spec # Null => job[w].spec.digest # Null
      BY <1>1, ConstantsAssumption DEF Lane, Release
  <2> QED
      BY <1>8, <2>1, <2>2
<1>12. PICK n \in Lane :
          /\ n = job'[w] /\ job' = [job EXCEPT ![w] = n] /\ n.pc = "release"
          /\ n.rev = r /\ n.prev = job[w].prev
          /\ n.recSpec = job[w].recSpec /\ n.spec = job[w].spec
  <2> DEFINE m == [job[w] EXCEPT !.pc = "release"]
  <2>1. m \in Lane
      BY <1>1, Zenon DEF Lane, PCs
  <2>2. job' = [job EXCEPT ![w] = m]
      BY <1>1 DEF Finish
  <2>3. /\ m.rev = r /\ m.prev = job[w].prev /\ m.pc = "release"
        /\ m.recSpec = job[w].recSpec /\ m.spec = job[w].spec
      BY <1>1 DEF Lane
  <2> HIDE DEF m
  <2> QED
      BY <1>1, <2>1, <2>2, <2>3
<1> HIDE DEF d
<1>13. RowMoves(w, r, d)
  <2>1. UNCHANGED <<revision, lock, live, cluster, strays, faults>>
      BY DEF Finish
  <2>2. d.status \in Terminal /\ d.status \notin Pending /\ deps[r].status \in Pending
      BY <1>2, <1>6, <1>8 DEF Pending, Terminal
  <2>3. appStatus' = StatusAfter(r, d.status, d.recovery)
      BY <1>8, <1>9 DEF Finish
  <2> QED
      BY <1>2, <1>3, <1>4, <1>5, <1>8, <1>10, <1>11, <1>12, <2>1, <2>2, <2>3
      DEF RowMoves, RowOK
<1>14. \A t \in Release : Persisted(t) => Persisted(t)'
    BY <1>3, <1>7, <1>13, RowMovesStable
<1>15. Persisted(n.spec)' /\ Persisted(n.recSpec)'
  <2>1. n.spec \in Release \cup {Null} /\ n.recSpec \in Release \cup {Null}
      BY DEF Lane
  <2>2. Persisted(n.spec) /\ Persisted(n.recSpec)
      BY <1>2, <1>12 DEF LaneOK
  <2> QED
      BY <1>14, <2>1, <2>2 DEF Persisted
<1>16. ~Hopeful(n) /\ n.pc \notin Executing /\ job[w].pc # "idle" /\ n.pc # "idle"
       /\ n.pc # "finish" /\ n.pc \notin {"claimed", "resolve"}
    BY <1>2, <1>12 DEF Hopeful, Executing
<1> QED
    BY <1>3, <1>7, <1>12, <1>13, <1>15, <1>16, RowMovesLane

-----------------------------------------------------------------------------
(* Writes to the cluster.                                                  *)

\* What lands in the cluster is what the lane was told to apply, which is
\* persisted.
LEMMA LandIInv ==
    ASSUME IInv, NEW w \in Workers, NEW s \in Services, NEW ok \in BOOLEAN, Land(w, s, ok)
    PROVE  IInv'
<1>1. job \in [Workers -> Lane] /\ job[w] \in Lane
    BY DEF IInv, TypeOK
<1>2. LaneOK(w, job[w])
    BY DEF IInv, LanesOK
<1> DEFINE armed == job[w].armed \ {s}
           bad == IF ok THEN job[w].bad ELSE job[w].bad \cup {s}
           m == [job[w] EXCEPT !.armed = armed, !.bad = bad]
<1>3. armed \in SUBSET Services /\ bad \in SUBSET Services
    BY <1>1 DEF Lane
<1>4. job' = [job EXCEPT ![w] = m]
    BY <1>1 DEF Land
<1> HIDE DEF armed, bad
<1>5. m \in Lane
    BY <1>1, <1>3, Zenon DEF Lane
<1>6. Carries(job[w], m)
    BY <1>1 DEF Carries, Lane
<1> HIDE DEF m
<1>7. LaneOK(w, m)
    BY <1>2, <1>6 DEF LaneOK, Carries, InSync, Hopeful, Executing, Terminal
<1>8. UNCHANGED <<revision, appStatus, deps, lock, live, faults>>
    BY DEF Land
<1>9. TypeOK'
  <2>1. [rel |-> job[w].spec, ok |-> ok] \in [rel : Release \cup {Null}, ok : BOOLEAN]
    <3>1. job[w].spec \in Release \cup {Null}
        BY <1>1 DEF Lane
    <3> QED
        BY <3>1, Zenon
  <2>2. cluster' \in [Services -> [rel : Release \cup {Null}, ok : BOOLEAN]]
      BY <2>1 DEF Land, IInv, TypeOK
  <2>3. strays' \subseteq Services
      BY DEF Land, IInv, TypeOK
  <2> QED
      BY <1>1, <1>4, <1>5, <1>8, <2>2, <2>3 DEF IInv, TypeOK
<1>10. RowsOK'
  <2> SUFFICES ASSUME NEW r \in Revisions PROVE RowOK(r)'
      BY DEF RowsOK
  <2>1. RowOK(r)
      BY DEF IInv, RowsOK
  <2> QED
      BY <1>8, <2>1 DEF RowOK, OlderEnded, HealthyTarget
<1>11. LanesOK'
  <2> SUFFICES ASSUME NEW v \in Workers PROVE LaneOK(v, job[v])'
      BY DEF LanesOK
  <2>1. LaneOK(v, job'[v])
      BY <1>1, <1>4, <1>7 DEF IInv, LanesOK
  <2> QED
      BY <1>8, <2>1 DEF LaneOK, OlderEnded, InSync, Persisted, HealthyTarget
<1>12. AppliedIsPersisted'
  <2>1. cluster' = [cluster EXCEPT ![s] = [rel |-> job[w].spec, ok |-> ok]]
      BY DEF Land
  <2>2. Persisted(job[w].spec)
      BY <1>2 DEF LaneOK
  <2>3. ASSUME NEW x \in Services PROVE cluster'[x].rel \in {cluster[x].rel, job[w].spec}
      BY <2>1 DEF IInv, TypeOK
  <2> QED
      BY <1>8, <2>2, <2>3 DEF IInv, AppliedIsPersisted, Persisted
<1>13. StatusAgrees' /\ IdempotentAccept'
    BY <1>8 DEF IInv, StatusAgrees, IdempotentAccept
<1> QED
    BY <1>9, <1>10, <1>11, <1>12, <1>13 DEF IInv

-----------------------------------------------------------------------------
(* Callers.                                                                *)

\* Row r, the latest from now on, is queued as d; it was absent, or had failed.
Queues(r, d) ==
    /\ deps' = [deps EXCEPT ![r] = d] /\ revision' = r
    /\ \/ r = revision + 1
       \/ r = revision /\ deps[r].status = "failed" /\ d.idem = deps[r].idem
    /\ d.status = "queued" /\ d.recovery = "" /\ d.recSpec = Null
    /\ deps[r].resolved # Null => d.resolved = deps[r].resolved
    /\ \A q \in Revisions : q # r /\ d.idem # Null => d.idem # deps[q].idem
    /\ appStatus' = "queued"
    /\ UNCHANGED <<lock, live, cluster, job, strays, faults>>

\* Queueing the latest revision keeps the invariant: what is remembered of other
\* rows concerns older ones, and no lane in sync is on a row that has ended.
LEMMA QueuesIInv ==
    ASSUME IInv, NEW r \in Revisions, NEW d \in Row, Queues(r, d)
    PROVE  IInv'
<1>1. \A q \in Revisions : deps'[q] = IF q = r THEN d ELSE deps[q]
    BY DEF Queues, IInv, TypeOK
<1>2. /\ revision \in Nat /\ revision' = r /\ r \in Nat /\ r > 0
      /\ revision <= r /\ r <= revision + 1
  <2>1. revision \in 0..MaxRevision
      BY DEF IInv, TypeOK
  <2>2. revision' = r /\ (r = revision + 1 \/ r = revision)
      BY DEF Queues
  <2>3. r \in 1..MaxRevision
      BY DEF Revisions
  <2> QED
      BY <2>1, <2>2, <2>3, ConstantsAssumption
<1>3. deps[r].status \in {"absent", "failed"}
  <2>1. RowOK(r)
      BY DEF IInv, RowsOK
  <2> QED
    <3>1. r = revision + 1 => revision < r
        BY <1>2
    <3> QED
        BY <2>1, <3>1 DEF RowOK, Queues
<1>4. \A q, x \in Revisions : x <= revision /\ q < x => deps'[q] = deps[q]
  <2> SUFFICES ASSUME NEW q \in Revisions, NEW x \in Revisions, x <= revision, q < x
               PROVE  q # r
      BY <1>1
  <2> QED
      BY <1>2 DEF Revisions
<1>5. \A x \in Revisions : x <= revision /\ OlderEnded(x) => OlderEnded(x)'
    BY <1>4 DEF OlderEnded
<1>6. \A t \in Release : Persisted(t) => Persisted(t)'
  <2> SUFFICES ASSUME NEW t \in Release, Persisted(t) PROVE Persisted(t)'
      OBVIOUS
  <2>1. t.rev \in Revisions /\ t.digest \in Digests /\ t # Null
      BY ConstantsAssumption DEF Release
  <2>2. deps[t.rev].resolved = t.digest /\ deps[t.rev].resolved # Null
      BY <2>1, ConstantsAssumption DEF Persisted
  <2> QED
      BY <1>1, <2>1, <2>2 DEF Persisted, Queues
<1>7. ASSUME NEW t \in Release, NEW x \in Revisions, x <= revision, HealthyTarget(t, x)
      PROVE  HealthyTarget(t, x)'
  <2>1. t.rev \in Revisions /\ t.rev < x
      BY <1>7 DEF Release, HealthyTarget
  <2>2. \A q \in Revisions : q < x => deps'[q] = deps[q]
      BY <1>4, <1>7
  <2> QED
      BY <1>7, <2>1, <2>2 DEF HealthyTarget
<1>8. TypeOK'
  <2>1. deps' \in [Revisions -> Row]
      BY DEF Queues, IInv, TypeOK
  <2>2. revision' \in 0..MaxRevision
      BY <1>2, ConstantsAssumption DEF Revisions
  <2> QED
      BY <2>1, <2>2 DEF Queues, IInv, TypeOK
<1>9. RowsOK'
  <2> SUFFICES ASSUME NEW q \in Revisions PROVE RowOK(q)'
      BY DEF RowsOK
  <2>1. RowOK(q)
      BY DEF IInv, RowsOK
  <2>2. CASE q = r
    <3>1. /\ deps'[q].status = "queued" /\ deps'[q].recovery = ""
          /\ deps'[q].recSpec = Null /\ ~(revision' < q)
      <4>1. ~(revision' < q)
          BY <1>2, <2>2
      <4> QED
          BY <1>1, <2>2, <4>1 DEF Queues
    <3> QED
        BY <3>1 DEF RowOK, Terminal
  <2>3. CASE q # r
    <3>1. deps'[q] = deps[q]
        BY <1>1, <2>3
    <3>2. revision' < q <=> revision < q
        BY <1>2, <2>3 DEF Revisions
    <3>3. deps[q].status # "absent" => q <= revision
      <4>1. deps[q].status # "absent" => ~(revision < q)
          BY <2>1 DEF RowOK
      <4> QED
          BY <1>2, <4>1 DEF Revisions
    <3>4. deps[q].status \notin {"absent", "queued"} => OlderEnded(q)'
        BY <1>5, <2>1, <3>3 DEF RowOK
    <3>5. PICK t \in Release \cup {Null} : t = deps[q].recSpec
        BY DEF IInv, TypeOK, Row
    <3>6. t # Null => HealthyTarget(t, q) /\ q <= revision
        BY <2>1, <3>3, <3>5 DEF RowOK
    <3>7. t # Null => HealthyTarget(t, q)'
        BY <1>7, <3>6
    <3>8. deps'[q].recSpec # Null => HealthyTarget(deps[q].recSpec, q)'
        BY <3>1, <3>5, <3>7 DEF HealthyTarget
    <3> QED
        BY <2>1, <3>1, <3>2, <3>4, <3>8 DEF RowOK
  <2> QED
      BY <2>2, <2>3
<1>10. LanesOK'
  <2> SUFFICES ASSUME NEW v \in Workers PROVE LaneOK(v, job[v])'
      BY DEF LanesOK
  <2>1. PICK j \in Lane : j = job[v] /\ LaneOK(v, j)
      BY DEF IInv, LanesOK, TypeOK
  <2>2. job'[v] = j /\ lock' = lock
      BY <2>1 DEF Queues
  <2>3. /\ j.spec \in Release \cup {Null} /\ j.prev \in Release \cup {Null}
        /\ j.recSpec \in Release \cup {Null}
      BY DEF Lane
  <2>4. j.pc # "idle" => j.rev \in Revisions /\ j.rev <= revision /\ OlderEnded(j.rev)
      BY <2>1 DEF LaneOK
  <2>5. j.pc # "idle" => j.rev <= revision' /\ OlderEnded(j.rev)'
      BY <1>2, <1>5, <2>4 DEF Revisions
  <2>6. Persisted(j.spec)' /\ Persisted(j.recSpec)'
    <3>1. Persisted(j.spec) /\ Persisted(j.recSpec)
        BY <2>1 DEF LaneOK
    <3>2. Persisted(j.spec)'
        BY <1>6, <2>3, <3>1 DEF Persisted
    <3>3. Persisted(j.recSpec)'
        BY <1>6, <2>3, <3>1 DEF Persisted
    <3> QED
        BY <3>2, <3>3
  <2>7. j.prev # Null => j.pc # "idle" /\ HealthyTarget(j.prev, j.rev)'
    <3>1. j.prev # Null => j.pc # "idle" /\ HealthyTarget(j.prev, j.rev)
        BY <2>1 DEF LaneOK
    <3> QED
        BY <1>7, <2>3, <2>4, <3>1
  <2>8. lock = v /\ j.pc \in Executing => InSync(j)'
    <3>1. ASSUME lock = v, j.pc \in Executing PROVE InSync(j) /\ j.rev \in Revisions
        BY <2>1, <2>4, <3>1 DEF LaneOK, Executing
    <3>2. InSync(j) => j.rev # r
        BY <1>3 DEF InSync
    <3> QED
        BY <1>1, <3>1, <3>2 DEF InSync
  <2>9. LaneOK(v, j)'
      BY <2>1, <2>2, <2>4, <2>5, <2>6, <2>7, <2>8 DEF LaneOK
  <2> QED
      BY <2>2, <2>9 DEF LaneOK, InSync, OlderEnded, Persisted, HealthyTarget
<1>11. AppliedIsPersisted'
  <2> SUFFICES ASSUME NEW s \in Services, cluster'[s].rel # Null
               PROVE  deps'[cluster'[s].rel.rev].resolved = cluster'[s].rel.digest
      BY DEF AppliedIsPersisted
  <2>1. PICK t \in Release : t = cluster[s].rel /\ t = cluster'[s].rel
      BY DEF IInv, TypeOK, Queues
  <2>2. Persisted(t)
      BY <2>1 DEF IInv, AppliedIsPersisted, Persisted
  <2> QED
      BY <1>6, <2>1, <2>2 DEF Persisted
<1>12. StatusAgrees'
    BY <1>1, <1>2 DEF StatusAgrees, Queues, Pending
<1>13. IdempotentAccept'
  <2> SUFFICES ASSUME NEW p \in Revisions, NEW q \in Revisions,
                      deps'[p].idem = deps'[q].idem, deps'[p].idem # Null
               PROVE  p = q
      BY DEF IdempotentAccept
  <2>1. CASE p = r \/ q = r
      BY <1>1, <2>1 DEF Queues
  <2>2. CASE p # r /\ q # r
      BY <1>1, <2>2 DEF IInv, IdempotentAccept
  <2> QED
      BY <2>1, <2>2
<1> QED
    BY <1>8, <1>9, <1>10, <1>11, <1>12, <1>13 DEF IInv

\* Accept and AcceptRollback.
LEMMA AcceptIInv ==
    ASSUME IInv, NEW k \in Keys, NEW i \in IdemKeys, NEW e \in 0..MaxRevision,
           NEW seed \in Digests \cup {Null}, AcceptRow(k, i, e, seed)
    PROVE  IInv'
<1> DEFINE r == e + 1
           d == [Absent EXCEPT !.status = "queued", !.key = k, !.idem = i, !.resolved = seed]
<1>1. e = revision /\ revision < MaxRevision /\ FreshIdem(i)
    BY DEF AcceptRow
<1>2. r \in Revisions /\ r = revision + 1 /\ revision < r
    BY <1>1, ConstantsAssumption DEF Revisions
<1>3. d \in Row
  <2>1. 0 \in 0..MaxResumes
      BY ConstantsAssumption
  <2> QED
      BY <2>1, Zenon DEF Absent, Row, RecoveryStates, Pending
<1>4. d.status = "queued" /\ d.recovery = "" /\ d.recSpec = Null /\ d.idem = i
    BY DEF Absent
<1>5. deps[r].resolved = Null
    BY <1>2 DEF IInv, RowsOK, RowOK
<1>6. deps' = [deps EXCEPT ![r] = d] /\ revision' = r
    BY DEF AcceptRow
<1> HIDE DEF d
<1>7. Queues(r, d)
  <2>1. appStatus' = "queued" /\ UNCHANGED <<lock, live, cluster, job, strays, faults>>
      BY DEF AcceptRow
  <2> QED
      BY <1>1, <1>2, <1>4, <1>5, <1>6, <2>1 DEF Queues, FreshIdem
<1> QED
    BY <1>2, <1>3, <1>7, QueuesIInv

\* ResumeDeployment queues the row of the latest revision again.
LEMMA ResumeIInv ==
    ASSUME IInv, NEW k \in Keys, NEW i \in IdemKeys, NEW r \in Revisions,
           ResumeDeployment(k, i, r)
    PROVE  IInv'
<1> DEFINE d == Requeued(deps[r], k, i)
<1>1. deps[r] \in Row
    BY DEF IInv, TypeOK
<1>2. deps[r].status = "failed" /\ r = revision
    BY DEF ResumeDeployment, Resumable
<1>3. d \in Row
  <2>1. deps[r].gen + 1 \in 0..MaxResumes
    <3>1. deps[r].gen \in 0..MaxResumes
        BY <1>1 DEF Row
    <3>2. deps[r].gen < MaxResumes
        BY DEF ResumeDeployment
    <3> QED
        BY <3>1, <3>2, ConstantsAssumption
  <2>2. ResumeSelection(deps[r].ready) \in SUBSET Services
      BY DEF ResumeSelection
  <2>3. deps[r].resumeIdems \cup {i} \in SUBSET IdemKeys
      BY <1>1 DEF Row
  <2> QED
      BY <1>1, <2>1, <2>2, <2>3, Zenon DEF Requeued, Row, RecoveryStates, Pending
<1>4. /\ d.status = "queued" /\ d.recovery = "" /\ d.recSpec = Null
      /\ d.idem = deps[r].idem /\ d.resolved = deps[r].resolved
    BY <1>1 DEF Requeued, Row
<1>5. deps' = [deps EXCEPT ![r] = d] /\ revision' = revision /\ appStatus' = "queued"
      /\ UNCHANGED <<lock, live, cluster, job, strays, faults>>
    BY DEF ResumeDeployment
<1> HIDE DEF d
<1>6. \A q \in Revisions : q # r /\ d.idem # Null => d.idem # deps[q].idem
    BY <1>4 DEF IInv, IdempotentAccept
<1>7. Queues(r, d)
    BY <1>2, <1>4, <1>5, <1>6 DEF Queues
<1> QED
    BY <1>3, <1>7, QueuesIInv

\* A cancellation only sets its flag; the lane that runs the row finds it later.
LEMMA CancelIInv == ASSUME IInv, NEW r \in Revisions, Cancel(r) PROVE IInv'
<1>1. deps \in [Revisions -> Row] /\ deps[r] \in Row
    BY DEF IInv, TypeOK
<1>2. [deps[r] EXCEPT !.cancel = TRUE] \in Row
    BY <1>1, Zenon DEF Row
<1>3. deps' = [deps EXCEPT ![r] = [deps[r] EXCEPT !.cancel = TRUE]]
    BY <1>1 DEF Cancel
<1>4. UNCHANGED <<revision, appStatus, lock, live, cluster, job, strays, faults>>
    BY DEF Cancel
<1>5. \A q \in Revisions :
         /\ deps'[q].status = deps[q].status /\ deps'[q].key = deps[q].key
         /\ deps'[q].idem = deps[q].idem /\ deps'[q].resolved = deps[q].resolved
         /\ deps'[q].recovery = deps[q].recovery /\ deps'[q].recSpec = deps[q].recSpec
         /\ deps'[q].only = deps[q].only
  <2> SUFFICES ASSUME NEW q \in Revisions
               PROVE  /\ deps'[q].status = deps[q].status /\ deps'[q].key = deps[q].key
                      /\ deps'[q].idem = deps[q].idem /\ deps'[q].resolved = deps[q].resolved
                      /\ deps'[q].recovery = deps[q].recovery
                      /\ deps'[q].recSpec = deps[q].recSpec /\ deps'[q].only = deps[q].only
      OBVIOUS
  <2>1. deps'[q] = IF q = r THEN [deps[r] EXCEPT !.cancel = TRUE] ELSE deps[q]
      BY <1>1, <1>3
  <2> QED
      BY <1>1, <2>1 DEF Row
<1>6. TypeOK'
    BY <1>1, <1>2, <1>3, <1>4 DEF IInv, TypeOK
<1>7. RowsOK'
  <2> SUFFICES ASSUME NEW q \in Revisions PROVE RowOK(q)'
      BY DEF RowsOK
  <2>1. RowOK(q) /\ deps[q] \in Row
      BY <1>1 DEF IInv, RowsOK
  <2>2. deps[q].recSpec # Null => deps[q].recSpec.rev \in Revisions
      BY <2>1 DEF Row, Release
  <2> QED
      BY <1>4, <1>5, <2>1, <2>2 DEF RowOK, OlderEnded, HealthyTarget
<1>8. LanesOK'
  <2> SUFFICES ASSUME NEW v \in Workers PROVE LaneOK(v, job[v])'
      BY DEF LanesOK
  <2>1. LaneOK(v, job[v]) /\ job[v] \in Lane
      BY DEF IInv, LanesOK, TypeOK
  <2>2. /\ job[v].spec # Null => job[v].spec.rev \in Revisions
        /\ job[v].prev # Null => job[v].prev.rev \in Revisions
        /\ job[v].recSpec # Null => job[v].recSpec.rev \in Revisions
      BY <2>1 DEF Lane, Release
  <2>3. job[v].pc \in Executing => job[v].pc # "idle"
      BY DEF Executing
  <2> QED
      BY <1>4, <1>5, <2>1, <2>2, <2>3
      DEF LaneOK, OlderEnded, InSync, Persisted, HealthyTarget
<1>9. AppliedIsPersisted'
  <2>1. ASSUME NEW s \in Services, cluster[s].rel # Null PROVE cluster[s].rel.rev \in Revisions
      BY <2>1 DEF IInv, TypeOK, Release
  <2> QED
      BY <1>4, <1>5, <2>1 DEF IInv, AppliedIsPersisted
<1>10. StatusAgrees'
  <2>1. revision > 0 => revision \in Revisions
      BY ConstantsAssumption DEF IInv, TypeOK, Revisions
  <2> QED
      BY <1>4, <1>5, <2>1 DEF IInv, StatusAgrees
<1>11. IdempotentAccept'
    BY <1>5 DEF IInv, IdempotentAccept
<1> QED
    BY <1>6, <1>7, <1>8, <1>9, <1>10, <1>11 DEF IInv

-----------------------------------------------------------------------------
(* The invariant is inductive.                                             *)

\* Every step of every lane keeps the invariant.
LEMMA LaneStepIInv == ASSUME IInv, NEW w \in Workers, LaneStep(w) PROVE IInv'
<1>1. CASE ReadCandidates(w)
    BY <1>1, ReadCandidatesIInv
<1>2. CASE MarkRunning(w)
    BY <1>2, MarkRunningIInv
<1>3. CASE Authorize(w)
    BY <1>3, AuthorizeIInv
<1>4. CASE AlreadyResolved(w)
    BY <1>4, AlreadyResolvedIInv
<1>5. CASE \E digest \in Digests : SetResolved(w, digest)
    BY <1>5, SetResolvedIInv
<1>6. CASE Guard(w) \/ Timeout(w)
    BY <1>6, GuardIInv, TimeoutIInv
<1>7. CASE ServiceStep(w)
  <2>1. PICK s \in Services :
           \/ BeforeStep(w, s) \/ Drop(w, s) \/ Block(w, s)
           \/ \E ok \in BOOLEAN : Land(w, s, ok)
      BY <1>7 DEF ServiceStep
  <2>2. CASE BeforeStep(w, s) \/ Drop(w, s) \/ Block(w, s)
      BY <2>2, ServiceStepIInv
  <2>3. CASE \E ok \in BOOLEAN : Land(w, s, ok)
      BY <2>3, LandIInv
  <2> QED
      BY <2>1, <2>2, <2>3
<1>8. CASE StageEnds(w)
  <2>1. PICK s \in Services : TRUE
    <3>1. job[w].todo # {} /\ job[w] \in Lane
        BY <1>8 DEF StageEnds, IInv, TypeOK
    <3> QED
        BY <3>1 DEF Lane
  <2> QED
      BY <1>8, ServiceStepIInv
<1>9. CASE \/ ResolveFails(w) \/ DeployPartlyFailed(w) \/ DeploySucceeds(w)
           \/ NotApplied(w) \/ DeployInterrupted(w) \/ RecoveryInterrupted(w)
    BY <1>9, AttemptEndsIInv
<1>10. CASE \E skip \in BOOLEAN : BeginRecovery(w, skip)
    BY <1>10, BeginRecoveryIInv
<1>11. CASE \E state \in {"succeeded", "failed"} : FinishRecovery(w, state)
    BY <1>11, RecoveryResultIInv
<1>12. CASE StopRecovery(w)
    BY <1>12, RecoveryResultIInv
<1>13. CASE Finish(w)
    BY <1>13, FinishIInv
<1>14. CASE TryLock(w) \/ ReleaseClaim(w)
    BY <1>14, LockStepsIInv
<1>15. CASE ClaimLost(w)
    BY <1>15, GivesUpIInv
<1> QED
    BY <1>1, <1>2, <1>3, <1>4, <1>5, <1>6, <1>7, <1>8, <1>9, <1>10, <1>11, <1>12,
       <1>13, <1>14, <1>15 DEF LaneStep

\* Every step keeps the invariant.
LEMMA NextIInv == IInv /\ [Next]_vars => IInv'
<1> SUFFICES ASSUME IInv, [Next]_vars PROVE IInv'
    OBVIOUS
<1>1. CASE Caller
  <2>1. CASE \E k \in Keys, i \in IdemKeys, e \in 0..MaxRevision : Accept(k, i, e)
      BY <2>1, AcceptIInv DEF Accept
  <2>2. CASE \E k \in Keys, i \in IdemKeys, e \in 0..MaxRevision, r \in Revisions :
                AcceptRollback(k, i, e, r)
    <3>1. PICK k \in Keys, i \in IdemKeys, e \in 0..MaxRevision, r \in Revisions :
             AcceptRow(k, i, e, deps[r].resolved)
        BY <2>2 DEF AcceptRollback
    <3>2. PICK seed \in Digests \cup {Null} : seed = deps[r].resolved
        BY DEF IInv, TypeOK, Row
    <3> QED
        BY <3>1, <3>2, AcceptIInv
  <2>3. CASE \E k \in Keys, i \in IdemKeys, r \in Revisions : ResumeDeployment(k, i, r)
      BY <2>3, ResumeIInv
  <2>4. CASE \E r \in Revisions : Cancel(r)
      BY <2>4, CancelIInv
  <2>5. CASE \E k \in Keys : Revoke(k)
      BY <2>5, SharedStepsIInv
  <2> QED
      BY <1>1, <2>1, <2>2, <2>3, <2>4, <2>5 DEF Caller
<1>2. CASE \E w \in Workers : LaneStep(w)
    BY <1>2, LaneStepIInv
<1>3. CASE GhostExpires \/ UNCHANGED vars
    BY <1>3, SharedStepsIInv
<1>4. CASE Fault
    BY <1>4, LockStepsIInv, GivesUpIInv DEF Fault
<1> QED
    BY <1>1, <1>2, <1>3, <1>4 DEF Next

-----------------------------------------------------------------------------
(* The theorems.                                                           *)

\* The inductive invariant holds in every reachable state, for any number of
\* lanes, services, keys, revisions and faults.
THEOREM Inductive == Spec => []IInv
<1>1. Init => IInv
    BY InitIInv
<1>2. IInv /\ [Next]_vars => IInv'
    BY NextIInv
<1> QED
    BY <1>1, <1>2, PTL DEF Spec

\* The rows, the lock, the cluster and the lanes have their types: no statement
\* stores a status, a recovery state or an outcome the schema does not know.
THEOREM TypeCorrect == Spec => []TypeOK
<1>1. IInv => TypeOK
    BY DEF IInv
<1> QED
    BY <1>1, Inductive, PTL

\* Releases run in the order they were accepted.
THEOREM RunsInOrder == Spec => []OlderSettled
<1>1. IInv => OlderSettled
    BY DEF IInv, RowsOK, RowOK, OlderEnded, OlderSettled
<1> QED
    BY <1>1, Inductive, PTL

\* The worker that holds the lock and its row agree.
THEOREM HolderAgrees == Spec => []HolderInSync
<1>1. IInv => HolderInSync
    BY DEF IInv, LanesOK, LaneOK, InSync, HolderInSync
<1> QED
    BY <1>1, Inductive, PTL

\* Only persisted digests reach the cluster, also from a worker without the lock.
THEOREM AppliesPersisted == Spec => []AppliedIsPersisted
<1>1. IInv => AppliedIsPersisted
    BY DEF IInv
<1> QED
    BY <1>1, Inductive, PTL

\* Every recovery that was begun has the newest healthy release as its target.
THEOREM RecoversHealthy == Spec => []RecoveryTargetHealthy
<1>1. IInv => RecoveryTargetHealthy
    BY DEF IInv, RowsOK, RowOK, RecoveryTargetHealthy
<1> QED
    BY <1>1, Inductive, PTL

\* No recovery outlives its deployment.
THEOREM RecoveriesEnd == Spec => []NoOrphanRecovery
<1>1. IInv => NoOrphanRecovery
    BY DEF IInv, RowsOK, RowOK, NoOrphanRecovery
<1> QED
    BY <1>1, Inductive, PTL

\* The application shows the status of its latest revision.
THEOREM ShowsLatest == Spec => []StatusAgrees
<1>1. IInv => StatusAgrees
    BY DEF IInv
<1> QED
    BY <1>1, Inductive, PTL

\* A retried request creates no second deployment.
THEOREM AcceptsOnce == Spec => []IdempotentAccept
<1>1. IInv => IdempotentAccept
    BY DEF IInv
<1> QED
    BY <1>1, Inductive, PTL

-----------------------------------------------------------------------------
(* What one step may do to the rows.                                       *)

\* The status of row r becomes x and no other status changes.
Becomes(r, x) == \A q \in Revisions : deps'[q].status = IF q = r THEN x ELSE deps[q].status

\* Persisted digests stay, and the statuses stutter or make one step of the history.
RowHistory ==
    /\ \A q \in Revisions : deps[q].resolved # Null => deps'[q].resolved = deps[q].resolved
    /\ \/ revision' = revision /\ \A q \in Revisions : deps'[q].status = deps[q].status
       \/ /\ revision' = revision + 1 /\ revision + 1 \in Revisions
          /\ deps[revision + 1].status = "absent" /\ Becomes(revision + 1, "queued")
       \/ /\ revision' = revision
          /\ \E r \in Revisions :
               \/ /\ deps[r].status = "queued" /\ OlderEnded(r)
                  /\ Becomes(r, "running")
               \/ /\ deps[r].status = "running"
                  /\ \E outcome \in Terminal : Becomes(r, outcome)
               \/ /\ deps[r].status = "failed" /\ deps[r].recovery = "" /\ r = revision
                  /\ Becomes(r, "queued")

\* Steps of a lane on its row.
LEMMA LaneRowHistory ==
    ASSUME IInv, NEW w \in Workers, LaneStep(w), deps' # deps
    PROVE  RowHistory
<1> DEFINE r == job[w].rev
<1>1. LaneOK(w, job[w]) /\ job[w] \in Lane /\ deps \in [Revisions -> Row]
    BY DEF IInv, LanesOK, TypeOK
<1>2. CASE MarkRunning(w)
  <2>1. r \in Revisions /\ OlderEnded(r) /\ deps[r] \in Row
      BY <1>1, <1>2 DEF MarkRunning, LaneOK
  <2>2. deps' = [deps EXCEPT ![r].status = "running"] /\ deps[r].status \in Pending
        /\ revision' = revision
      BY <1>2 DEF MarkRunning
  <2>3. Becomes(r, "running") /\ \A q \in Revisions : deps'[q].resolved = deps[q].resolved
      BY <1>1, <2>1, <2>2 DEF Becomes, Row
  <2>4. CASE deps[r].status = "queued"
      BY <2>1, <2>2, <2>3, <2>4 DEF RowHistory
  <2>5. CASE deps[r].status = "running"
      BY <2>2, <2>3, <2>5 DEF RowHistory, Becomes
  <2> QED
      BY <2>2, <2>4, <2>5 DEF Pending
<1>3. CASE Finish(w)
  <2>1. r \in Revisions /\ deps[r] \in Row /\ job[w].outcome \in Terminal
      BY <1>1, <1>3 DEF Finish, LaneOK
  <2>2. deps' = [deps EXCEPT ![r].status = job[w].outcome, ![r].attempt = job[w].bad,
                             ![r].ready = job[w].ready]
        /\ deps[r].status = "running" /\ revision' = revision
      BY <1>3 DEF Finish
  <2>3. Becomes(r, job[w].outcome) /\ \A q \in Revisions : deps'[q].resolved = deps[q].resolved
      BY <1>1, <2>1, <2>2 DEF Becomes, Row
  <2> QED
      BY <2>1, <2>2, <2>3 DEF RowHistory
<1>4. CASE \E digest \in Digests : SetResolved(w, digest)
  <2>1. PICK x : deps' = [deps EXCEPT ![r].resolved = x]
                 /\ (deps[r].resolved # Null => x = deps[r].resolved) /\ revision' = revision
      BY <1>4 DEF SetResolved
  <2>2. r \in Revisions
      BY <1>1, <1>4 DEF SetResolved, LaneOK
  <2>3. ASSUME NEW q \in Revisions
        PROVE  /\ deps'[q].status = deps[q].status
               /\ deps[q].resolved # Null => deps'[q].resolved = deps[q].resolved
      BY <1>1, <2>1, <2>2 DEF Row
  <2> QED
      BY <2>1, <2>3 DEF RowHistory
<1>5. CASE \E skip \in BOOLEAN : BeginRecovery(w, skip)
  <2>1. PICK x, y : deps' = [deps EXCEPT ![r].recovery = x, ![r].recSpec = y]
                    /\ revision' = revision
    <3>1. PICK skip \in BOOLEAN : BeginRecovery(w, skip)
        BY <1>5
    <3> DEFINE state == IF skip THEN "skipped" ELSE "running"
               target == IF skip THEN Null ELSE job[w].prev
    <3>2. deps' = [deps EXCEPT ![r].recovery = state, ![r].recSpec = target]
          /\ revision' = revision
        BY <3>1 DEF BeginRecovery
    <3> HIDE DEF state, target
    <3> QED
        BY <3>2
  <2>2. ASSUME NEW q \in Revisions
        PROVE  deps'[q].status = deps[q].status /\ deps'[q].resolved = deps[q].resolved
      BY <1>1, <2>1 DEF Row
  <2> QED
      BY <2>1, <2>2 DEF RowHistory
<1>6. CASE (\E state \in {"succeeded", "failed"} : FinishRecovery(w, state)) \/ StopRecovery(w)
  <2>1. PICK x, y, z : deps' = [deps EXCEPT ![r].recovery = x, ![r].attempt = y, ![r].ready = z]
                       /\ revision' = revision
    <3>1. CASE \E state \in {"succeeded", "failed"} : FinishRecovery(w, state)
      <4>1. PICK state \in {"succeeded", "failed"} : FinishRecovery(w, state)
          BY <3>1
      <4>2. deps' = [deps EXCEPT ![r].recovery = state, ![r].attempt = job[w].bad,
                                 ![r].ready = Observed] /\ revision' = revision
          BY <4>1 DEF FinishRecovery
      <4> QED
          BY <4>2
    <3>2. CASE StopRecovery(w)
        BY <3>2 DEF StopRecovery
    <3> QED
        BY <1>6, <3>1, <3>2
  <2>2. ASSUME NEW q \in Revisions
        PROVE  deps'[q].status = deps[q].status /\ deps'[q].resolved = deps[q].resolved
      BY <1>1, <2>1 DEF Row
  <2> QED
      BY <2>1, <2>2 DEF RowHistory
<1> QED
    BY <1>2, <1>3, <1>4, <1>5, <1>6
    DEF LaneStep, ServiceStep, ReadCandidates, TryLock, Authorize, AlreadyResolved,
        ResolveFails, Guard, Timeout, BeforeStep, Land, Drop, Block, StageEnds,
        DeployPartlyFailed, DeploySucceeds, NotApplied, DeployInterrupted,
        RecoveryInterrupted, ReleaseClaim, ClaimLost

\* Every step is a step of the history, or leaves it alone.
LEMMA NextRowHistory == ASSUME IInv, [Next]_vars PROVE RowHistory
<1>1. deps \in [Revisions -> Row] /\ revision \in 0..MaxRevision
    BY DEF IInv, TypeOK
<1>2. CASE deps' = deps /\ revision' = revision
    BY <1>2 DEF RowHistory
<1>3. CASE \E k \in Keys, i \in IdemKeys, e \in 0..MaxRevision, seed \in Digests \cup {Null} :
              AcceptRow(k, i, e, seed)
  <2>1. PICK k \in Keys, i \in IdemKeys, e \in 0..MaxRevision, seed \in Digests \cup {Null} :
            AcceptRow(k, i, e, seed)
      BY <1>3
  <2> DEFINE d == [Absent EXCEPT !.status = "queued", !.key = k, !.idem = i, !.resolved = seed]
  <2>2. /\ deps' = [deps EXCEPT ![revision + 1] = d]
        /\ revision' = revision + 1 /\ revision < MaxRevision
      BY <2>1 DEF AcceptRow
  <2>3. d.status = "queued"
      BY DEF Absent
  <2> HIDE DEF d
  <2>4. revision + 1 \in Revisions /\ revision < revision + 1
      BY <1>1, <2>2, ConstantsAssumption DEF Revisions
  <2>5. deps[revision + 1].status = "absent" /\ deps[revision + 1].resolved = Null
      BY <2>4 DEF IInv, RowsOK, RowOK
  <2>6. ASSUME NEW q \in Revisions PROVE deps'[q] = IF q = revision + 1 THEN d ELSE deps[q]
      BY <1>1, <2>2
  <2>7. Becomes(revision + 1, "queued")
      BY <2>3, <2>6 DEF Becomes
  <2>8. \A q \in Revisions : deps[q].resolved # Null => deps'[q].resolved = deps[q].resolved
      BY <2>5, <2>6
  <2> QED
      BY <2>2, <2>4, <2>5, <2>7, <2>8 DEF RowHistory
<1>4. CASE \E k \in Keys, i \in IdemKeys, r \in Revisions : ResumeDeployment(k, i, r)
  <2>1. PICK k \in Keys, i \in IdemKeys, r \in Revisions : ResumeDeployment(k, i, r)
      BY <1>4
  <2>2. /\ deps[r].status = "failed" /\ deps[r].recovery = "" /\ r = revision
        /\ deps' = [deps EXCEPT ![r] = Requeued(deps[r], k, i)] /\ revision' = revision
      BY <2>1 DEF ResumeDeployment, Resumable
  <2>3. Requeued(deps[r], k, i).status = "queued"
        /\ Requeued(deps[r], k, i).resolved = deps[r].resolved
      BY <1>1 DEF Requeued, Row
  <2>4. ASSUME NEW q \in Revisions
        PROVE  deps'[q] = IF q = r THEN Requeued(deps[r], k, i) ELSE deps[q]
      BY <1>1, <2>2
  <2>5. Becomes(r, "queued") /\ \A q \in Revisions : deps'[q].resolved = deps[q].resolved
      BY <2>3, <2>4 DEF Becomes
  <2> QED
      BY <2>2, <2>5 DEF RowHistory
<1>5. CASE \E r \in Revisions : Cancel(r)
  <2>1. PICK r \in Revisions : deps' = [deps EXCEPT ![r].cancel = TRUE] /\ revision' = revision
      BY <1>5 DEF Cancel
  <2>2. ASSUME NEW q \in Revisions
        PROVE  deps'[q].status = deps[q].status /\ deps'[q].resolved = deps[q].resolved
      BY <1>1, <2>1 DEF Row
  <2> QED
      BY <2>1, <2>2 DEF RowHistory
<1>6. CASE \E w \in Workers : LaneStep(w)
  <2>1. PICK w \in Workers : LaneStep(w)
      BY <1>6
  <2>2. revision' = revision
    <3>1. CASE ServiceStep(w)
        BY <3>1 DEF ServiceStep, BeforeStep, Land, Drop, Block
    <3>2. CASE \/ ReadCandidates(w) \/ TryLock(w) \/ MarkRunning(w)
               \/ Authorize(w) \/ AlreadyResolved(w) \/ ResolveFails(w)
               \/ \E digest \in Digests : SetResolved(w, digest)
        BY <3>2 DEF ReadCandidates, TryLock, MarkRunning, Authorize, AlreadyResolved,
           ResolveFails, SetResolved
    <3>3. CASE \/ Guard(w) \/ Timeout(w) \/ StageEnds(w)
               \/ DeployPartlyFailed(w) \/ DeploySucceeds(w) \/ NotApplied(w)
               \/ DeployInterrupted(w)
        BY <3>3 DEF Guard, Timeout, StageEnds, DeployPartlyFailed, DeploySucceeds,
           NotApplied, DeployInterrupted
    <3>4. CASE \/ \E skip \in BOOLEAN : BeginRecovery(w, skip)
               \/ \E state \in {"succeeded", "failed"} : FinishRecovery(w, state)
               \/ RecoveryInterrupted(w) \/ StopRecovery(w) \/ Finish(w)
               \/ ReleaseClaim(w) \/ ClaimLost(w)
        BY <3>4 DEF BeginRecovery, FinishRecovery, RecoveryInterrupted, StopRecovery,
           Finish, ReleaseClaim, ClaimLost
    <3> QED
        BY <2>1, <3>1, <3>2, <3>3, <3>4 DEF LaneStep
  <2> QED
      BY <1>2, <2>1, <2>2, LaneRowHistory
<1>7. ASSUME NEW k \in Keys, NEW i \in IdemKeys, NEW e \in 0..MaxRevision,
             Accept(k, i, e) \/ \E r \in Revisions : AcceptRollback(k, i, e, r)
      PROVE  \E seed \in Digests \cup {Null} : AcceptRow(k, i, e, seed)
  <2>1. \A r \in Revisions : deps[r].resolved \in Digests \cup {Null}
      BY <1>1 DEF Row
  <2> QED
      BY <1>7, <2>1 DEF Accept, AcceptRollback
<1> QED
    BY <1>2, <1>3, <1>4, <1>5, <1>6, <1>7
    DEF Next, Caller, Revoke, GhostExpires, Fault, SessionLost,
        Crash, GiveUp, ResolvedTooLate, vars

\* resolved_spec is written once.
THEOREM ResolvesOnce == Spec => ResolvedOnce
<1>1. IInv /\ [Next]_vars => \A r \in Revisions : deps[r].resolved # Null =>
                                deps'[r].resolved = deps[r].resolved
    BY NextRowHistory DEF RowHistory
<1> QED
    BY <1>1, Inductive, PTL DEF Spec, ResolvedOnce

\* A deployment that has ended only ever becomes queued again, if it is the
\* latest one, failed and was not recovered.
THEOREM SettledForGood == Spec => SettledStays
<1>1. ASSUME IInv, [Next]_vars
      PROVE  \A r \in Revisions :
                deps[r].status \in Terminal /\ deps'[r].status # deps[r].status =>
                   /\ deps[r].status = "failed" /\ deps[r].recovery = ""
                   /\ deps'[r].status = "queued"
                   /\ r = revision
    BY <1>1, NextRowHistory DEF RowHistory, Becomes, Terminal
<1> QED
    BY <1>1, Inductive, PTL DEF Spec, SettledStays

\* The rows implement the release history promised to callers.
THEOREM Refinement == Spec => ImplementsHistory
<1> DEFINE st == [r \in Revisions |-> deps[r].status]
<1>1. Init => History!HistoryInit
  <2> SUFFICES ASSUME Init PROVE History!HistoryInit
      OBVIOUS
  <2>1. revision = 0 /\ \A r \in Revisions : deps[r].status = "absent"
      BY DEF Init, Absent
  <2>2. [r \in Revisions |-> deps[r].status] = [r \in Revisions |-> "absent"]
      BY <2>1
  <2> QED
      BY <2>1, <2>2 DEF History!HistoryInit, History!Numbers, Revisions
<1>2. ASSUME IInv, [Next]_vars PROVE [History!HistoryNext]_(History!historyVars)
  <2>1. RowHistory /\ revision \in 0..MaxRevision
      BY <1>2, NextRowHistory DEF IInv, TypeOK
  <2> USE DEF History!Numbers, History!historyVars
  <2>2. CASE revision' = revision /\ \A q \in Revisions : deps'[q].status = deps[q].status
      BY <2>2
  <2>3. CASE /\ revision' = revision + 1 /\ revision + 1 \in Revisions
             /\ deps[revision + 1].status = "absent" /\ Becomes(revision + 1, "queued")
    <3>1. st' = [st EXCEPT ![revision + 1] = "queued"]
        BY <2>3 DEF Becomes
    <3>2. revision < MaxRevision
        BY <2>1, <2>3, ConstantsAssumption DEF Revisions
    <3>3. History!AcceptNext
        BY <2>3, <3>1, <3>2 DEF History!AcceptNext
    <3> QED
        BY <3>3 DEF History!HistoryNext
  <2>4. ASSUME NEW r \in Revisions, revision' = revision, deps[r].status = "queued",
               OlderEnded(r), Becomes(r, "running")
        PROVE  History!Start(r)
    <3>1. st' = [st EXCEPT ![r] = "running"]
        BY <2>4 DEF Becomes
    <3> QED
        BY <2>4, <3>1 DEF History!Start, OlderEnded, History!Outcomes, Terminal, Revisions
  <2>5. ASSUME NEW r \in Revisions, revision' = revision, deps[r].status = "running",
               NEW outcome \in Terminal, Becomes(r, outcome)
        PROVE  History!End(r, outcome)
    <3>1. st' = [st EXCEPT ![r] = outcome]
        BY <2>5 DEF Becomes
    <3> QED
        BY <2>5, <3>1 DEF History!End
  <2>6. ASSUME NEW r \in Revisions, revision' = revision, deps[r].status = "failed",
               r = revision, Becomes(r, "queued")
        PROVE  History!RunAgain(r)
    <3>1. st' = [st EXCEPT ![r] = "queued"]
        BY <2>6 DEF Becomes
    <3> QED
        BY <2>6, <3>1 DEF History!RunAgain
  <2> QED
      BY <2>1, <2>2, <2>3, <2>4, <2>5, <2>6
      DEF RowHistory, History!HistoryNext, History!Outcomes, Terminal, Revisions
<1> QED
    BY <1>1, <1>2, Inductive, PTL DEF Spec, ImplementsHistory, History!HistorySpec
=============================================================================

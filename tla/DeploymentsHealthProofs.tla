---------------------- MODULE DeploymentsHealthProofs ----------------------
(***************************************************************************)
(* Proofs about Deployments: what an application shown as healthy or       *)
(* recovered runs, for every number of lanes, services, revisions, resumes *)
(* and faults.                                                             *)
(***************************************************************************)
EXTENDS DeploymentsProofs

-----------------------------------------------------------------------------
(* The inductive invariant, on top of IInv.                                *)

\* Every service runs t, but for those a lane without the lock wrote last.
Runs(t) == \A s \in Services \ strays : cluster[s].rel = t

\* The same for the services an attempt has finished without a failure.
Wrote(j) ==
    \A s \in Services \ (strays \cup j.todo \cup j.armed \cup j.bad) : cluster[s].rel = j.spec

\* Revision r was never resumed: its deploys work on all services.
Whole(r) == deps[r].gen = 0

\* What a row says of the services: nothing, until its recovery has succeeded.
RowRuns(r) ==
    Whole(r) =>
        /\ deps[r].only = {}
        /\ deps[r].status = "running" /\ deps[r].recovery = "succeeded" => Runs(deps[r].recSpec)

\* What the attempt of a lane says of them: a recovery applies its target, and
\* what the lock holder has written is there until the outcome is committed.
LaneRuns(w, j) ==
    /\ j.pc = "recover" => j.recovery = "running" /\ j.spec = j.recSpec
    /\ lock = w /\ Whole(j.rev) =>
         /\ j.pc \in {"deploy", "recover"} => Wrote(j)
         /\ j.pc = "finish" /\ j.outcome = "succeeded" => Runs(j.spec)

\* The release shown to users was never resumed.
ShownWhole == revision > 0 => Whole(revision)

RowsRun == \A r \in Revisions : RowRuns(r)
LanesRun == \A w \in Workers : LaneRuns(w, job[w])
ShownRuns ==
    /\ revision = 0 => appStatus = "pending"
    /\ ShownWhole => HealthyRunsRelease /\ RecoveredRunsTarget

RInv == RowsRun /\ LanesRun /\ ShownRuns

-----------------------------------------------------------------------------
(* What a step leaves alone.                                               *)

\* No service is written, but by lanes without the lock.
ServicesStay == \A s \in Services \ strays' : s \notin strays /\ cluster'[s] = cluster[s]

\* What the invariant reads of row r is as before.
RowStays(r) ==
    /\ deps'[r].gen = deps[r].gen /\ deps'[r].only = deps[r].only
    /\ deps'[r].status = deps[r].status /\ deps'[r].recovery = deps[r].recovery
    /\ deps'[r].recSpec = deps[r].recSpec /\ deps'[r].resolved = deps[r].resolved

\* A lane that is writing the services, or about to report what it wrote.
Writing(j) == j.pc \in {"deploy", "recover", "finish"}

\* A row that stays is still true of the services.
LEMMA RowRunsStays ==
    ASSUME NEW r \in Revisions, RowRuns(r), RowStays(r), ServicesStay
    PROVE  RowRuns(r)'
<1> QED
    BY DEF RowRuns, Whole, Runs, RowStays, ServicesStay

\* A lane that did not just get the lock, on a row that stays, is still right
\* about what it wrote.
LEMMA LaneRunsStays ==
    ASSUME NEW w \in Workers, NEW j, LaneRuns(w, j), ServicesStay, lock' = w => lock = w,
           Writing(j) => deps'[j.rev].gen = deps[j.rev].gen
    PROVE  LaneRuns(w, j)'
<1> QED
    BY DEF LaneRuns, Writing, Whole, Wrote, Runs, ServicesStay

\* A lane elsewhere claims nothing.
LEMMA ElsewhereRuns ==
    ASSUME NEW w \in Workers, NEW j,
           Writing(j) => j.pc = "finish" /\ j.outcome # "succeeded"
    PROVE  LaneRuns(w, j) /\ LaneRuns(w, j)'
<1> QED
    BY DEF LaneRuns, Writing

\* While the application is shown healthy or recovered no release is pending.
LEMMA ShownSettled ==
    ASSUME IInv, appStatus \in {"healthy", "recovered"}
    PROVE  /\ revision > 0 => revision \in Revisions
           /\ revision > 0 => deps[revision].status \in {"succeeded", "failed"}
           /\ \A r \in Revisions : r <= revision => deps[r].status \in Terminal
<1>1. revision \in 0..MaxRevision /\ MaxRevision \in Nat
    BY ConstantsAssumption DEF IInv, TypeOK
<1>2. CASE revision = 0
    BY <1>2 DEF Revisions
<1>3. CASE revision > 0
  <2>1. revision \in Revisions
      BY <1>1, <1>3 DEF Revisions
  <2>2. deps[revision].status \in {"succeeded", "failed"}
      BY <1>3, <2>1 DEF IInv, StatusAgrees, FinishedStatus, TypeOK, Row, Pending, Terminal
  <2>3. OlderEnded(revision)
      BY <2>1, <2>2 DEF IInv, RowsOK, RowOK
  <2> QED
      BY <1>1, <2>1, <2>2, <2>3 DEF OlderEnded, Revisions, Terminal
<1> QED
    BY <1>1, <1>2, <1>3

\* What is shown stays true as long as the latest row and the services stay, and
\* needs no look at a row that is pending.
LEMMA ShownRunsStays ==
    ASSUME IInv, ShownRuns, ServicesStay,
           \/ revision' # 0 /\ appStatus' \notin {"healthy", "recovered"}
           \/ /\ revision' = revision /\ appStatus' = appStatus
              /\ \A r \in Revisions : deps[r].status \in Terminal => RowStays(r)
    PROVE  ShownRuns'
<1>1. CASE revision' # 0 /\ appStatus' \notin {"healthy", "recovered"}
    BY <1>1 DEF ShownRuns, HealthyRunsRelease, RecoveredRunsTarget
<1>2. CASE revision' = revision /\ appStatus' = appStatus /\ appStatus \notin {"healthy", "recovered"}
    BY <1>2 DEF ShownRuns, HealthyRunsRelease, RecoveredRunsTarget
<1>3. CASE /\ revision' = revision /\ appStatus' = appStatus
           /\ \A r \in Revisions : deps[r].status \in Terminal => RowStays(r)
           /\ appStatus \in {"healthy", "recovered"}
  <2>1. appStatus' = appStatus
        /\ \A r \in Revisions : deps[r].status \in Terminal => RowStays(r)
      BY <1>3
  <2>2. revision \in 0..MaxRevision /\ MaxRevision \in Nat
      BY ConstantsAssumption DEF IInv, TypeOK
  <2>3. revision > 0
      BY <1>3, <2>2 DEF ShownRuns
  <2>4. RowStays(revision)
      BY <1>3, <2>2, <2>3, ShownSettled DEF Terminal
  <2>5. ShownWhole' => ShownWhole
      BY <1>3, <2>4 DEF ShownWhole, Whole, RowStays
  <2> QED
      BY <1>3, <2>4, <2>5
      DEF ShownRuns, HealthyRunsRelease, RecoveredRunsTarget, ServicesStay, RowStays
<1> QED
    BY <1>1, <1>2, <1>3

-----------------------------------------------------------------------------
(* Steps of one lane that touch neither the rows, the lock nor the cluster.*)

\* A lane that is right about what it wrote after its step keeps the invariant.
LEMMA LaneMovesRInv ==
    ASSUME IInv, RInv, NEW w \in Workers, LaneMoves(w), LaneRuns(w, job'[w])
    PROVE  RInv'
<1>1. ServicesStay /\ \A r \in Revisions : RowStays(r)
    BY DEF LaneMoves, ServicesStay, RowStays
<1>2. RowsRun'
    BY <1>1, RowRunsStays DEF RInv, RowsRun
<1>3. LanesRun'
  <2> SUFFICES ASSUME NEW v \in Workers PROVE LaneRuns(v, job[v])'
      BY DEF LanesRun
  <2>1. PICK j : j = job'[v]
      OBVIOUS
  <2>2. job'[v] = IF v = w THEN job'[w] ELSE job[v]
      BY DEF LaneMoves, IInv, TypeOK
  <2>3. LaneRuns(v, j)
      BY <2>1, <2>2 DEF RInv, LanesRun
  <2>4. LaneRuns(v, j)'
      BY <1>1, <2>3, LaneRunsStays DEF LaneMoves
  <2> QED
      BY <2>1, <2>4 DEF LaneRuns, Wrote
<1>4. ShownRuns'
    BY <1>1, ShownRunsStays DEF RInv, LaneMoves
<1> QED
    BY <1>2, <1>3, <1>4 DEF RInv

\* So does a lane that goes on with the claim it had: its services move from waiting
\* to in flight or failed, it heads for a failure, or gives up.
SameClaim(j, n) ==
    /\ n.pc = j.pc /\ n.rev = j.rev /\ n.spec = j.spec /\ n.outcome = j.outcome
    /\ n.recovery = j.recovery /\ n.recSpec = j.recSpec

Resumes(j, n) ==
    \/ /\ SameClaim(j, n)
       /\ j.todo \cup j.armed \cup j.bad \subseteq n.todo \cup n.armed \cup n.bad
    \/ Writing(n) => n.pc = "finish" /\ n.outcome # "succeeded"

LEMMA ResumesRInv ==
    ASSUME IInv, RInv, NEW w \in Workers, LaneMoves(w), Resumes(job[w], job'[w])
    PROVE  RInv'
<1>1. LaneRuns(w, job[w])
    BY DEF RInv, LanesRun
<1>2. LaneRuns(w, job'[w])
  <2>1. CASE Writing(job'[w]) => job'[w].pc = "finish" /\ job'[w].outcome # "succeeded"
      BY <2>1 DEF LaneRuns, Writing
  <2>2. CASE ~(Writing(job'[w]) => job'[w].pc = "finish" /\ job'[w].outcome # "succeeded")
      BY <1>1, <2>2 DEF Resumes, SameClaim, LaneRuns, Wrote, Whole, Runs
  <2> QED
      BY <2>1, <2>2
<1> QED
    BY <1>2, LaneMovesRInv

\* A failure is recorded as one, or the row is left for the next claim.
LEMMA HandleFailureResumes ==
    ASSUME NEW j \in Lane, NEW n \in Lane, NEW m, m = HandleFailure(n)
    PROVE  Resumes(j, m) /\ Resumes(j, [m EXCEPT !.todo = {}, !.ready = Observed])
<1>1. CASE n.cause = "database"
  <2>1. m = [n EXCEPT !.pc = "release"]
      BY <1>1 DEF HandleFailure
  <2>2. m.pc = "release" /\ [m EXCEPT !.todo = {}, !.ready = Observed].pc = "release"
      BY <2>1 DEF Lane
  <2> QED
      BY <2>2 DEF Resumes, Writing
<1>2. CASE n.cause # "database"
  <2>1. PICK o \in {"failed", "cancelled"} : m = [n EXCEPT !.pc = "finish", !.outcome = o]
      BY <1>2 DEF HandleFailure
  <2>2. m.pc = "finish" /\ m.outcome = o
      BY <2>1 DEF Lane
  <2>3. [m EXCEPT !.todo = {}, !.ready = Observed].pc = "finish"
        /\ [m EXCEPT !.todo = {}, !.ready = Observed].outcome = o
      BY <2>1 DEF Lane
  <2> QED
      BY <2>2, <2>3 DEF Resumes
<1> QED
    BY <1>1, <1>2

\* The guard, the deadline and the steps of services that write nothing.
LEMMA ServiceStepRInv ==
    ASSUME IInv, RInv, NEW w \in Workers, NEW s,
           \/ Guard(w) \/ Timeout(w) \/ StageEnds(w)
           \/ BeforeStep(w, s) \/ Drop(w, s) \/ Block(w, s)
    PROVE  RInv'
<1>1. job \in [Workers -> Lane] /\ job[w] \in Lane /\ faults \in 0..MaxFaults
    BY DEF IInv, TypeOK
<1>2. LaneMoves(w)
    BY <1>1 DEF LaneMoves, Guard, Timeout, StageEnds, BeforeStep, Drop, Block
<1>3. Resumes(job[w], job'[w])
  <2>1. CASE Guard(w) \/ Timeout(w) \/ (BeforeStep(w, s) /\ StepVerdict(w) # "")
    <3>1. PICK c : job'[w] = [job[w] EXCEPT !.cause = c]
        BY <1>1, <2>1 DEF Guard, Timeout, BeforeStep
    <3>2. SameClaim(job[w], job'[w])
        BY <1>1, <3>1 DEF SameClaim, Lane
    <3>3. job'[w].todo = job[w].todo /\ job'[w].armed = job[w].armed /\ job'[w].bad = job[w].bad
        BY <1>1, <3>1 DEF Lane
    <3> QED
        BY <3>2, <3>3 DEF Resumes
  <2>2. CASE StageEnds(w)
    <3>1. job'[w] = [job[w] EXCEPT !.todo = {}, !.bad = job[w].bad \cup job[w].todo]
        BY <1>1, <2>2 DEF StageEnds
    <3>2. SameClaim(job[w], job'[w])
        BY <1>1, <3>1 DEF SameClaim, Lane
    <3>3. /\ job'[w].todo = {} /\ job'[w].armed = job[w].armed
          /\ job'[w].bad = job[w].bad \cup job[w].todo
        BY <1>1, <3>1 DEF Lane
    <3> QED
        BY <3>2, <3>3 DEF Resumes
  <2>3. CASE BeforeStep(w, s) /\ StepVerdict(w) = ""
    <3>1. job'[w] = [job[w] EXCEPT !.todo = job[w].todo \ {s}, !.armed = job[w].armed \cup {s}]
        BY <1>1, <2>3 DEF BeforeStep
    <3>2. SameClaim(job[w], job'[w])
        BY <1>1, <3>1 DEF SameClaim, Lane
    <3>3. /\ job'[w].todo = job[w].todo \ {s} /\ job'[w].armed = job[w].armed \cup {s}
          /\ job'[w].bad = job[w].bad
        BY <1>1, <3>1 DEF Lane
    <3> QED
        BY <3>2, <3>3 DEF Resumes
  <2>4. CASE Drop(w, s)
    <3>1. job'[w] = [job[w] EXCEPT !.armed = job[w].armed \ {s}, !.bad = job[w].bad \cup {s}]
        BY <1>1, <2>4 DEF Drop
    <3>2. SameClaim(job[w], job'[w])
        BY <1>1, <3>1 DEF SameClaim, Lane
    <3>3. /\ job'[w].todo = job[w].todo /\ job'[w].armed = job[w].armed \ {s}
          /\ job'[w].bad = job[w].bad \cup {s}
        BY <1>1, <3>1 DEF Lane
    <3> QED
        BY <3>2, <3>3 DEF Resumes
  <2>5. CASE Block(w, s)
    <3>1. job'[w] = [job[w] EXCEPT !.todo = job[w].todo \ {s}, !.bad = job[w].bad \cup {s}]
        BY <1>1, <2>5 DEF Block
    <3>2. SameClaim(job[w], job'[w])
        BY <1>1, <3>1 DEF SameClaim, Lane
    <3>3. /\ job'[w].todo = job[w].todo \ {s} /\ job'[w].armed = job[w].armed
          /\ job'[w].bad = job[w].bad \cup {s}
        BY <1>1, <3>1 DEF Lane
    <3> QED
        BY <3>2, <3>3 DEF Resumes
  <2> QED
      BY <2>1, <2>2, <2>3, <2>4, <2>5
<1> QED
    BY <1>2, <1>3, ResumesRInv

\* An attempt that fails, or whose claim is given up.
LEMMA AttemptFailsRInv ==
    ASSUME IInv, RInv, NEW w \in Workers,
           \/ ResolveFails(w) \/ DeployPartlyFailed(w) \/ NotApplied(w)
           \/ DeployInterrupted(w) \/ RecoveryInterrupted(w)
           \/ ClaimLost(w) \/ GiveUp(w) \/ ResolvedTooLate(w)
    PROVE  RInv'
<1>1. job \in [Workers -> Lane] /\ job[w] \in Lane /\ faults \in 0..MaxFaults
      /\ MaxFaults \in Nat
    BY ConstantsAssumption DEF IInv, TypeOK
<1>2. LaneMoves(w)
  <2>1. CASE GiveUp(w) \/ ResolvedTooLate(w)
    <3>1. faults' \in 0..MaxFaults
        BY <1>1, <2>1 DEF GiveUp, ResolvedTooLate
    <3> QED
        BY <1>1, <2>1, <3>1 DEF LaneMoves, GiveUp, ResolvedTooLate
  <2>2. CASE ~(GiveUp(w) \/ ResolvedTooLate(w))
      BY <1>1, <2>2 DEF LaneMoves, ResolveFails, DeployPartlyFailed, NotApplied,
                        DeployInterrupted, RecoveryInterrupted, ClaimLost
  <2> QED
      BY <2>1, <2>2
<1>3. CASE DeployPartlyFailed(w)
  <2>1. PICK report \in SUBSET Services :
            job'[w] = HandleFailure([job[w] EXCEPT !.ready = report])
    <3>1. \A report \in Reports : report \subseteq Services
        BY DEF Reports, Observed
    <3> QED
        BY <1>1, <1>3, <3>1 DEF DeployPartlyFailed
  <2>2. [job[w] EXCEPT !.ready = report] \in Lane
      BY <1>1, Zenon DEF Lane
  <2>3. Resumes(job[w], job'[w])
      BY <1>1, <2>1, <2>2, HandleFailureResumes
  <2> QED
      BY <1>2, <2>3, ResumesRInv
<1>4. CASE RecoveryInterrupted(w)
  <2>1. PICK m : m = HandleFailure(job[w])
      OBVIOUS
  <2>2. job'[w] = [m EXCEPT !.todo = {}, !.ready = Observed]
      BY <1>1, <1>4, <2>1 DEF RecoveryInterrupted
  <2>3. Resumes(job[w], job'[w])
      BY <1>1, <2>1, <2>2, HandleFailureResumes
  <2> QED
      BY <1>2, <2>3, ResumesRInv
<1>5. CASE ResolveFails(w) \/ NotApplied(w) \/ DeployInterrupted(w)
  <2>1. job'[w] = HandleFailure(job[w])
      BY <1>1, <1>5 DEF ResolveFails, NotApplied, DeployInterrupted
  <2>2. Resumes(job[w], job'[w])
      BY <1>1, <2>1, HandleFailureResumes
  <2> QED
      BY <1>2, <2>2, ResumesRInv
<1>6. CASE ClaimLost(w) \/ GiveUp(w) \/ ResolvedTooLate(w)
  <2>1. job'[w] = [job[w] EXCEPT !.pc = "release"]
      BY <1>1, <1>6 DEF ClaimLost, GiveUp, ResolvedTooLate
  <2>2. Resumes(job[w], job'[w])
      BY <1>1, <2>1 DEF Resumes, Writing, Lane
  <2> QED
      BY <1>2, <2>2, ResumesRInv
<1> QED
    BY <1>3, <1>4, <1>5, <1>6

\* The lock holder works on all services of a release that was never resumed.
LEMMA HolderWorksOnAll ==
    ASSUME IInv, RInv, NEW w \in Workers, lock = w, job[w].pc \in Executing, Whole(job[w].rev)
    PROVE  job[w].only = {} /\ Selected(w) = Services
<1>1. LaneOK(w, job[w])
    BY DEF IInv, LanesOK
<1>2. job[w].rev \in Revisions /\ deps[job[w].rev].only = job[w].only
    BY <1>1 DEF LaneOK, InSync, Executing
<1>3. RowRuns(job[w].rev)
    BY <1>2 DEF RInv, RowsRun
<1> QED
    BY <1>2, <1>3 DEF RowRuns, Selected

\* Deploy returns nil after every service was written with the release.
LEMMA DeploySucceedsRInv ==
    ASSUME IInv, RInv, NEW w \in Workers, DeploySucceeds(w) PROVE RInv'
<1>1. job \in [Workers -> Lane] /\ job[w] \in Lane /\ faults \in 0..MaxFaults
    BY DEF IInv, TypeOK
<1>2. LaneMoves(w)
    BY <1>1 DEF LaneMoves, DeploySucceeds
<1>3. CASE job[w].cause = ""
  <2>1. job'[w] = [job[w] EXCEPT !.pc = "finish", !.outcome = "succeeded"]
      BY <1>1, <1>3 DEF DeploySucceeds
  <2>2. job'[w].pc = "finish" /\ job'[w].rev = job[w].rev /\ job'[w].spec = job[w].spec
      BY <1>1, <2>1 DEF Lane
  <2>3. job[w].pc = "deploy" /\ job[w].todo = {} /\ job[w].armed = {} /\ job[w].bad = {}
      BY DEF DeploySucceeds, Tried
  <2>4. LaneRuns(w, job[w])
      BY DEF RInv, LanesRun
  <2>5. LaneRuns(w, job'[w])
      BY <2>2, <2>3, <2>4 DEF LaneRuns, Wrote, Runs, Whole
  <2> QED
      BY <1>2, <2>5, LaneMovesRInv
<1>4. CASE job[w].cause # ""
  <2>1. job'[w] = HandleFailure(job[w])
      BY <1>1, <1>4 DEF DeploySucceeds
  <2>2. Resumes(job[w], job'[w])
      BY <1>1, <2>1, HandleFailureResumes
  <2> QED
      BY <1>2, <2>2, ResumesRInv
<1> QED
    BY <1>3, <1>4

\* An attempt starts with all selected services to do, or without any.
LEMMA DispatchRuns ==
    ASSUME NEW w \in Workers, NEW j \in Lane, NEW rel, NEW n, n = Dispatch(j, rel),
           lock = w /\ Whole(j.rev) => j.only = {}
    PROVE  LaneRuns(w, n)
<1> DEFINE todo == IF j.only = {} THEN Services ELSE j.only
<1>1. CASE j.recovery = ""
  <2>1. n = [j EXCEPT !.pc = "deploy", !.spec = rel, !.todo = todo]
      BY <1>1 DEF Dispatch
  <2>2. n.pc = "deploy" /\ n.todo = todo /\ n.rev = j.rev
      BY <2>1 DEF Lane
  <2> QED
      BY <2>2 DEF LaneRuns, Wrote
<1>2. CASE j.recovery = "running"
  <2>1. n = [j EXCEPT !.pc = "recover", !.spec = j.recSpec, !.todo = todo]
      BY <1>2 DEF Dispatch
  <2>2. n.pc = "recover" /\ n.todo = todo /\ n.rev = j.rev
      BY <2>1 DEF Lane
  <2>3. n.recovery = "running" /\ n.spec = n.recSpec
      BY <1>2, <2>1 DEF Lane
  <2> QED
      BY <2>2, <2>3 DEF LaneRuns, Wrote
<1>3. CASE j.recovery \notin {"", "running"}
  <2>1. PICK bad, ready :
            n = [j EXCEPT !.pc = "finish", !.spec = rel, !.outcome = "failed",
                          !.bad = bad, !.ready = ready]
      BY <1>3 DEF Dispatch
  <2>2. n.pc = "finish" /\ n.outcome = "failed"
      BY <2>1 DEF Lane
  <2> QED
      BY <2>2 DEF LaneRuns
<1> QED
    BY <1>1, <1>2, <1>3

\* Images that were resolved by an earlier attempt are used as they are.
LEMMA AlreadyResolvedRInv ==
    ASSUME IInv, RInv, NEW w \in Workers, AlreadyResolved(w) PROVE RInv'
<1>1. job \in [Workers -> Lane] /\ job[w] \in Lane /\ faults \in 0..MaxFaults
    BY DEF IInv, TypeOK
<1>2. LaneMoves(w)
    BY <1>1 DEF LaneMoves, AlreadyResolved
<1>3. job'[w] = Dispatch(job[w], job[w].spec)
    BY <1>1 DEF AlreadyResolved
<1>4. lock = w /\ Whole(job[w].rev) => job[w].only = {}
    BY HolderWorksOnAll DEF AlreadyResolved, Executing
<1>5. LaneRuns(w, job'[w])
    BY <1>1, <1>3, <1>4, DispatchRuns
<1> QED
    BY <1>2, <1>5, LaneMovesRInv

-----------------------------------------------------------------------------
(* Steps that move the lock, or no lane at all.                            *)

\* Lanes that stay where they are get no lock, the others write nothing yet.
LEMMA LockMovesRInv ==
    ASSUME IInv, RInv, UNCHANGED <<revision, appStatus, cluster, strays>>,
           \A r \in Revisions : RowStays(r),
           \A v \in Workers :
              \/ /\ job'[v] = job[v] /\ (lock' = v => lock = v)
                 /\ Writing(job[v]) => deps'[job[v].rev].gen = deps[job[v].rev].gen
              \/ Writing(job'[v]) => job'[v].pc = "finish" /\ job'[v].outcome # "succeeded"
    PROVE  RInv'
<1>1. ServicesStay
    BY DEF ServicesStay
<1>2. RowsRun'
    BY <1>1, RowRunsStays DEF RInv, RowsRun
<1>3. LanesRun'
  <2> SUFFICES ASSUME NEW v \in Workers PROVE LaneRuns(v, job[v])'
      BY DEF LanesRun
  <2>1. PICK j : j = job'[v]
      OBVIOUS
  <2>2. CASE /\ job'[v] = job[v] /\ (lock' = v => lock = v)
             /\ Writing(job[v]) => deps'[job[v].rev].gen = deps[job[v].rev].gen
    <3>1. LaneRuns(v, j) /\ (Writing(j) => deps'[j.rev].gen = deps[j.rev].gen)
        BY <2>1, <2>2 DEF RInv, LanesRun
    <3>2. LaneRuns(v, j)'
        BY <1>1, <2>2, <3>1, LaneRunsStays
    <3> QED
        BY <2>1, <3>2 DEF LaneRuns, Wrote
  <2>3. CASE Writing(job'[v]) => job'[v].pc = "finish" /\ job'[v].outcome # "succeeded"
    <3>1. LaneRuns(v, j)'
        BY <2>1, <2>3, ElsewhereRuns
    <3> QED
        BY <2>1, <3>1 DEF LaneRuns, Wrote
  <2> QED
      BY <2>2, <2>3
<1>4. ShownRuns'
    BY <1>1, ShownRunsStays DEF RInv
<1> QED
    BY <1>2, <1>3, <1>4 DEF RInv

\* Lanes that look for work, begin it or end it, and faults.
LEMMA LockStepsRInv ==
    ASSUME IInv, RInv, NEW w \in Workers,
           \/ ReadCandidates(w) \/ TryLock(w) \/ Authorize(w) \/ ReleaseClaim(w)
           \/ SessionLost(w) \/ Crash(w)
    PROVE  RInv'
<1>1. job \in [Workers -> Lane] /\ job[w] \in Lane /\ NoOne \notin Workers /\ Ghost \notin Workers
    BY ConstantsAssumption DEF IInv, TypeOK
<1>2. UNCHANGED <<revision, appStatus, deps, cluster, strays>>
    BY DEF ReadCandidates, TryLock, Authorize, ReleaseClaim, SessionLost, Crash
<1>3. \A r \in Revisions : RowStays(r)
    BY <1>2 DEF RowStays
<1>4. ASSUME NEW v \in Workers, v # w
      PROVE  job'[v] = job[v] /\ (lock' = v => lock = v)
  <2>1. CASE ReadCandidates(w) \/ TryLock(w) \/ Authorize(w)
      BY <1>1, <1>4, <2>1 DEF ReadCandidates, TryLock, Authorize
  <2>2. CASE ReleaseClaim(w) \/ SessionLost(w) \/ Crash(w)
      BY <1>1, <1>4, <2>2 DEF ReleaseClaim, SessionLost, Crash
  <2> QED
      BY <2>1, <2>2
<1>5. \/ job'[w] = job[w] /\ (lock' = w => lock = w)
      \/ Writing(job'[w]) => job'[w].pc = "finish" /\ job'[w].outcome # "succeeded"
  <2>0. Idle.pc = "idle"
      BY DEF Idle
  <2> USE DEF Writing, Lane
  <2>1. CASE ReadCandidates(w)
    <3>1. PICK r \in Revisions : job' = [job EXCEPT ![w].pc = "candidate", ![w].rev = r]
        BY <2>1 DEF ReadCandidates
    <3>2. job'[w].pc = "candidate"
        BY <1>1, <3>1
    <3> QED
        BY <3>2
  <2>2. CASE TryLock(w)
    <3>1. job'[w] = Idle \/ job'[w] = [job[w] EXCEPT !.pc = "locked"]
        BY <1>1, <2>2 DEF TryLock
    <3>2. job'[w].pc \in {"idle", "locked"}
        BY <1>1, <2>0, <3>1
    <3> QED
        BY <3>2
  <2>3. CASE Authorize(w) /\ MayNotRun(job[w])
    <3>1. job'[w] = [job[w] EXCEPT !.pc = "finish", !.outcome = "cancelled"]
        BY <1>1, <2>3 DEF Authorize
    <3>2. job'[w].pc = "finish" /\ job'[w].outcome = "cancelled"
        BY <1>1, <3>1
    <3> QED
        BY <3>2
  <2>4. CASE Authorize(w) /\ ~MayNotRun(job[w])
    <3>1. PICK p : job'[w] = [job[w] EXCEPT !.pc = "resolve", !.prev = p]
        BY <1>1, <2>4 DEF Authorize
    <3>2. job'[w].pc = "resolve"
        BY <1>1, <3>1
    <3> QED
        BY <3>2
  <2>5. CASE ReleaseClaim(w) \/ Crash(w)
    <3>1. job'[w] = Idle
        BY <1>1, <2>5 DEF ReleaseClaim, Crash
    <3> QED
        BY <2>0, <3>1
  <2>6. CASE SessionLost(w)
      BY <1>1, <2>6 DEF SessionLost
  <2> QED
      BY <2>1, <2>2, <2>3, <2>4, <2>5, <2>6
<1> QED
    BY <1>2, <1>3, <1>4, <1>5, LockMovesRInv

\* Steps that concern no lane: a key, a session or a row that is only marked.
LEMMA SharedStepsRInv ==
    ASSUME IInv, RInv,
           \/ GhostExpires \/ UNCHANGED vars
           \/ \E k \in Keys : Revoke(k)
           \/ \E r \in Revisions : Cancel(r)
    PROVE  RInv'
<1>1. deps \in [Revisions -> Row] /\ NoOne \notin Workers
    BY ConstantsAssumption DEF IInv, TypeOK
<1>2. /\ UNCHANGED <<revision, appStatus, cluster, strays, job>>
      /\ \A v \in Workers : lock' = v => lock = v
    BY <1>1 DEF GhostExpires, vars, Revoke, Cancel
<1>3. \A r \in Revisions : RowStays(r)
  <2>1. CASE deps' = deps
      BY <2>1 DEF RowStays
  <2>2. ASSUME NEW q \in Revisions, Cancel(q), NEW r \in Revisions PROVE RowStays(r)
    <3>1. deps' = [deps EXCEPT ![q].cancel = TRUE]
        BY <2>2 DEF Cancel
    <3> QED
        BY <1>1, <3>1 DEF RowStays, Row
  <2> QED
      BY <2>1, <2>2 DEF GhostExpires, vars, Revoke
<1>4. \A v \in Workers : Writing(job[v]) => job[v].rev \in Revisions
    BY DEF Writing, IInv, LanesOK, LaneOK
<1>5. \A v \in Workers : Writing(job[v]) => deps'[job[v].rev].gen = deps[job[v].rev].gen
    BY <1>3, <1>4 DEF RowStays
<1> QED
    BY <1>2, <1>3, <1>5, LockMovesRInv

-----------------------------------------------------------------------------
(* Steps of the lock holder on its own row.                                *)

\* Other lanes have no lock and other rows stay, so it is enough that the row and
\* the lane are right, and what is shown if that changes.
LEMMA HolderStepRInv ==
    ASSUME IInv, RInv, NEW w \in Workers, NEW r \in Revisions, lock = w,
           deps[r].status \in Pending,
           \A q \in Revisions : q # r => deps'[q] = deps[q],
           \A v \in Workers : v # w => job'[v] = job[v],
           UNCHANGED <<revision, lock, cluster, strays>>,
           appStatus' = appStatus \/ ShownRuns',
           RowRuns(r)', LaneRuns(w, job[w])'
    PROVE  RInv'
<1>1. ServicesStay /\ \A q \in Revisions : q # r => RowStays(q)
    BY DEF ServicesStay, RowStays
<1>2. RowsRun'
  <2> SUFFICES ASSUME NEW q \in Revisions PROVE RowRuns(q)'
      BY DEF RowsRun
  <2>1. CASE q # r
      BY <1>1, <2>1, RowRunsStays DEF RInv, RowsRun
  <2> QED
      BY <2>1
<1>3. LanesRun'
  <2> SUFFICES ASSUME NEW v \in Workers PROVE LaneRuns(v, job[v])'
      BY DEF LanesRun
  <2>1. CASE v # w
    <3>1. LaneRuns(v, job[v]) /\ job'[v] = job[v] /\ lock' # v
        BY <2>1 DEF RInv, LanesRun
    <3> QED
        BY <3>1 DEF LaneRuns
  <2> QED
      BY <2>1
<1>4. ShownRuns'
  <2>1. ASSUME appStatus' = appStatus PROVE ShownRuns'
    <3>1. \A q \in Revisions : deps[q].status \in Terminal => RowStays(q)
        BY <1>1 DEF Pending, Terminal
    <3> QED
        BY <1>1, <2>1, <3>1, ShownRunsStays DEF RInv
  <2> QED
      BY <2>1
<1> QED
    BY <1>2, <1>3, <1>4 DEF RInv

\* Marking a row running tells nothing new of the services.
LEMMA MarkRunningRInv == ASSUME IInv, RInv, NEW w \in Workers, MarkRunning(w) PROVE RInv'
<1>1. /\ job \in [Workers -> Lane] /\ job[w] \in Lane
      /\ deps \in [Revisions -> Row]
    BY DEF IInv, TypeOK
<1>2. PICK r \in Revisions : r = job[w].rev
    BY DEF MarkRunning, IInv, LanesOK, LaneOK
<1>3. lock = w /\ UNCHANGED <<revision, appStatus, lock, cluster, strays>>
    BY DEF MarkRunning, OnLockSession
<1>4. CASE deps[r].status \in Pending
  <2>1. deps' = [deps EXCEPT ![r].status = "running"]
      BY <1>2, <1>4 DEF MarkRunning, Pending
  <2>2. /\ \A q \in Revisions : q # r => deps'[q] = deps[q]
        /\ deps'[r] = [deps[r] EXCEPT !.status = "running"]
      BY <1>1, <2>1
  <2>3. /\ deps'[r].gen = deps[r].gen /\ deps'[r].only = deps[r].only
        /\ deps'[r].recovery = deps[r].recovery /\ deps'[r].recSpec = deps[r].recSpec
      BY <1>1, <2>2 DEF Row
  <2>4. RowRuns(r) /\ RowOK(r)
      BY DEF RInv, RowsRun, IInv, RowsOK
  <2>5. deps[r].status = "queued" => deps[r].recovery # "succeeded"
      BY <2>4 DEF RowOK
  <2>6. RowRuns(r)'
      BY <1>3, <1>4, <2>3, <2>4, <2>5 DEF RowRuns, Whole, Runs, Pending
  <2>7. job'[w].pc = "claimed" /\ \A v \in Workers : v # w => job'[v] = job[v]
    <3> DEFINE spec == IF deps[r].resolved = Null THEN Null
                       ELSE [rev |-> r, digest |-> deps[r].resolved]
    <3>1. job' = [job EXCEPT ![w] =
             [job[w] EXCEPT !.pc = "claimed", !.key = deps[r].key, !.cancel = deps[r].cancel,
                            !.only = deps[r].only, !.recovery = deps[r].recovery,
                            !.recSpec = deps[r].recSpec, !.spec = spec]]
        BY <1>2, <1>4 DEF MarkRunning, Pending
    <3> HIDE DEF spec
    <3>2. job'[w].pc = "claimed"
        BY <1>1, <3>1 DEF Lane
    <3> QED
        BY <1>1, <3>1, <3>2
  <2>8. LaneRuns(w, job[w])'
      BY <2>7 DEF LaneRuns
  <2> QED
      BY <1>3, <1>4, <2>2, <2>6, <2>7, <2>8, HolderStepRInv
<1>5. CASE deps[r].status \notin Pending
  <2>1. deps' = deps /\ job' = [job EXCEPT ![w].pc = "release"]
      BY <1>2, <1>5 DEF MarkRunning
  <2>2. job'[w].pc = "release" /\ \A v \in Workers : v # w => job'[v] = job[v]
      BY <1>1, <2>1 DEF Lane
  <2>3. \A q \in Revisions : RowStays(q)
      BY <2>1 DEF RowStays
  <2> QED
      BY <1>3, <2>1, <2>2, <2>3, LockMovesRInv DEF Writing
<1> QED
    BY <1>4, <1>5

\* The digests that a row gets are no statement about the services.
LEMMA SetResolvedRInv ==
    ASSUME IInv, RInv, NEW w \in Workers, NEW digest \in Digests, SetResolved(w, digest)
    PROVE  RInv'
<1>1. /\ job \in [Workers -> Lane] /\ job[w] \in Lane
      /\ deps \in [Revisions -> Row]
    BY DEF IInv, TypeOK
<1>2. PICK r \in Revisions : r = job[w].rev
    BY DEF SetResolved, IInv, LanesOK, LaneOK
<1>3. lock = w /\ UNCHANGED <<revision, appStatus, lock, cluster, strays>>
      /\ deps[r].status = "running"
    BY <1>2 DEF SetResolved, OnLockSession
<1>4. PICK x, rel : /\ deps' = [deps EXCEPT ![r].resolved = x]
                    /\ job' = [job EXCEPT ![w] = Dispatch(job[w], rel)]
    BY <1>2 DEF SetResolved
<1>5. /\ \A q \in Revisions : q # r => deps'[q] = deps[q]
      /\ \A v \in Workers : v # w => job'[v] = job[v]
      /\ deps'[r].gen = deps[r].gen /\ deps'[r].only = deps[r].only
      /\ deps'[r].status = deps[r].status
      /\ deps'[r].recovery = deps[r].recovery /\ deps'[r].recSpec = deps[r].recSpec
    BY <1>1, <1>4 DEF Row
<1>6. RowRuns(r)'
    BY <1>3, <1>5 DEF RowRuns, Whole, Runs, RInv, RowsRun
<1>7. PICK n : n = job'[w]
    OBVIOUS
<1>8. n = Dispatch(job[w], rel)
    BY <1>1, <1>4, <1>7
<1>9. Whole(job[w].rev) => job[w].only = {}
    BY <1>3, HolderWorksOnAll DEF SetResolved, Executing
<1>10. LaneRuns(w, n)
    BY <1>1, <1>8, <1>9, DispatchRuns
<1>11. n.rev = r
  <2>1. deps[r].attempt \in SUBSET Services /\ deps[r].ready \in SUBSET Services
      BY <1>1 DEF Row
  <2> QED
      BY <1>1, <1>2, <1>8, <2>1 DEF Dispatch, Lane
<1>12. ServicesStay
    BY <1>3 DEF ServicesStay
<1>13. LaneRuns(w, n)'
    BY <1>3, <1>5, <1>10, <1>11, <1>12, LaneRunsStays
<1>14. LaneRuns(w, job[w])'
    BY <1>7, <1>13 DEF LaneRuns, Wrote
<1> QED
    BY <1>3, <1>5, <1>6, <1>14, HolderStepRInv DEF Pending

\* A recovery starts with all services to restore.
LEMMA BeginRecoveryRInv ==
    ASSUME IInv, RInv, NEW w \in Workers, NEW skip \in BOOLEAN, BeginRecovery(w, skip)
    PROVE  RInv'
<1>1. /\ job \in [Workers -> Lane] /\ job[w] \in Lane
      /\ deps \in [Revisions -> Row]
    BY DEF IInv, TypeOK
<1>2. PICK r \in Revisions : r = job[w].rev
    BY DEF BeginRecovery, IInv, LanesOK, LaneOK
<1>3. /\ lock = w /\ UNCHANGED <<revision, appStatus, lock, cluster, strays>>
      /\ deps[r].status = "running" /\ job[w].pc = "deploy"
    BY <1>2 DEF BeginRecovery, OnLockSession
<1>4. PICK state, target :
          /\ state = IF skip THEN "skipped" ELSE "running"
          /\ target = IF skip THEN Null ELSE job[w].prev
    OBVIOUS
<1>5. /\ deps' = [deps EXCEPT ![r].recovery = state, ![r].recSpec = target]
      /\ job' = [job EXCEPT ![w] =
            IF skip
            THEN [job[w] EXCEPT !.recovery = state, !.pc = "finish", !.outcome = "failed",
                                !.todo = {}]
            ELSE [job[w] EXCEPT !.recovery = state, !.recSpec = target, !.pc = "recover",
                                !.spec = target, !.todo = Selected(w)]]
    BY <1>2, <1>4 DEF BeginRecovery
<1>6. /\ \A q \in Revisions : q # r => deps'[q] = deps[q]
      /\ \A v \in Workers : v # w => job'[v] = job[v]
      /\ deps'[r].gen = deps[r].gen /\ deps'[r].only = deps[r].only
      /\ deps'[r].recovery # "succeeded"
    BY <1>1, <1>4, <1>5 DEF Row
<1>7. RowRuns(r)'
    BY <1>6 DEF RowRuns, Whole, RInv, RowsRun
<1>8. LaneRuns(w, job[w])'
  <2>1. CASE skip
    <3>1. job'[w].pc = "finish" /\ job'[w].outcome = "failed"
        BY <1>1, <1>5, <2>1 DEF Lane
    <3> QED
        BY <3>1 DEF LaneRuns
  <2>2. CASE ~skip
    <3>1. job'[w] = [job[w] EXCEPT !.recovery = "running", !.recSpec = target, !.pc = "recover",
                                   !.spec = target, !.todo = Selected(w)]
        BY <1>1, <1>4, <1>5, <2>2
    <3>2. /\ job'[w].pc = "recover" /\ job'[w].recovery = "running"
          /\ job'[w].spec = job'[w].recSpec /\ job'[w].todo = Selected(w)
        BY <1>1, <3>1 DEF Lane
    <3>3. job'[w].rev = r
        BY <1>1, <1>2, <3>1 DEF Lane
    <3>4. Whole(job[w].rev) => Selected(w) = Services
        BY <1>3, HolderWorksOnAll DEF Executing
    <3>5. Whole(job[w].rev)' => job'[w].todo = Services
        BY <1>2, <1>6, <3>2, <3>3, <3>4 DEF Whole
    <3> QED
        BY <3>2, <3>5 DEF LaneRuns, Wrote
  <2> QED
      BY <2>1, <2>2
<1> QED
    BY <1>3, <1>6, <1>7, <1>8, HolderStepRInv DEF Pending

\* A recovery that is recorded as successful has restored every service; one that
\* failed or is stopped says nothing.
LEMMA RecoveryResultRInv ==
    ASSUME IInv, RInv, NEW w \in Workers,
           \/ \E state \in {"succeeded", "failed"} : FinishRecovery(w, state)
           \/ StopRecovery(w)
    PROVE  RInv'
<1>1. /\ job \in [Workers -> Lane] /\ job[w] \in Lane
      /\ deps \in [Revisions -> Row]
    BY DEF IInv, TypeOK
<1>2. PICK r \in Revisions : r = job[w].rev
    BY DEF FinishRecovery, StopRecovery, IInv, LanesOK, LaneOK
<1>3. /\ lock = w /\ UNCHANGED <<revision, appStatus, lock, cluster, strays>>
      /\ deps[r].status = "running"
    BY <1>2 DEF FinishRecovery, StopRecovery, OnLockSession
<1>4. PICK state, a, b : deps' = [deps EXCEPT ![r].recovery = state, ![r].attempt = a, ![r].ready = b]
                         /\ (state = "succeeded" => FinishRecovery(w, "succeeded"))
  <2>1. CASE StopRecovery(w)
    <3>1. PICK x : x = "failed"
        OBVIOUS
    <3>2. deps' = [deps EXCEPT ![r].recovery = x, ![r].attempt = job[w].bad,
                               ![r].ready = job[w].ready]
        BY <1>2, <2>1, <3>1 DEF StopRecovery
    <3>3. x # "succeeded"
        BY <3>1
    <3> QED
        BY <3>2, <3>3
  <2>2. CASE \E state \in {"succeeded", "failed"} : FinishRecovery(w, state)
    <3>1. PICK state \in {"succeeded", "failed"} : FinishRecovery(w, state)
        BY <2>2
    <3>2. deps' = [deps EXCEPT ![r].recovery = state, ![r].attempt = job[w].bad,
                               ![r].ready = Observed]
        BY <1>2, <3>1 DEF FinishRecovery
    <3> QED
        BY <3>1, <3>2
  <2> QED
      BY <2>1, <2>2
<1>5. /\ \A q \in Revisions : q # r => deps'[q] = deps[q]
      /\ deps'[r].gen = deps[r].gen /\ deps'[r].only = deps[r].only
      /\ deps'[r].recovery = state /\ deps'[r].recSpec = deps[r].recSpec
    BY <1>1, <1>4 DEF Row
<1>6. /\ \A v \in Workers : v # w => job'[v] = job[v]
      /\ job'[w].pc = "finish" /\ job'[w].outcome # "succeeded"
  <2>1. CASE StopRecovery(w)
      BY <1>1, <2>1 DEF StopRecovery, Lane
  <2>2. ASSUME NEW x \in {"succeeded", "failed"}, FinishRecovery(w, x)
        PROVE  /\ \A v \in Workers : v # w => job'[v] = job[v]
               /\ job'[w].pc = "finish" /\ job'[w].outcome # "succeeded"
      BY <1>1, <2>2 DEF FinishRecovery, Lane
  <2> QED
      BY <2>1, <2>2
<1>7. ASSUME Whole(r), FinishRecovery(w, "succeeded") PROVE Runs(deps[r].recSpec)
  <2>1. /\ job[w].pc = "recover" /\ job[w].todo = {} /\ job[w].armed = {} /\ job[w].bad = {}
      BY <1>7 DEF FinishRecovery, Tried
  <2>2. LaneRuns(w, job[w]) /\ LaneOK(w, job[w])
      BY DEF RInv, LanesRun, IInv, LanesOK
  <2>3. deps[r].recSpec = job[w].recSpec
      BY <1>2, <1>3, <2>1, <2>2 DEF LaneOK, InSync, Executing
  <2> QED
      BY <1>2, <1>3, <1>7, <2>1, <2>2, <2>3 DEF LaneRuns, Wrote, Runs
<1>8. RowRuns(r)'
    BY <1>3, <1>4, <1>5, <1>7 DEF RowRuns, Whole, Runs, RInv, RowsRun
<1>9. LaneRuns(w, job[w])'
    BY <1>6 DEF LaneRuns
<1> QED
    BY <1>3, <1>5, <1>6, <1>8, <1>9, HolderStepRInv DEF Pending

\* The outcome that is shown is what the lock holder saw to.
LEMMA FinishRInv == ASSUME IInv, RInv, NEW w \in Workers, Finish(w) PROVE RInv'
<1>1. /\ job \in [Workers -> Lane] /\ job[w] \in Lane
      /\ deps \in [Revisions -> Row] /\ revision \in 0..MaxRevision
    BY DEF IInv, TypeOK
<1>2. LaneOK(w, job[w]) /\ LaneRuns(w, job[w]) /\ job[w].pc = "finish"
    BY DEF Finish, IInv, LanesOK, RInv, LanesRun
<1>3. PICK r \in Revisions : r = job[w].rev /\ r <= revision
    BY <1>2 DEF LaneOK
<1>4. /\ lock = w /\ UNCHANGED <<revision, lock, cluster, strays>>
      /\ deps[r].status = "running"
    BY <1>3 DEF Finish, OnLockSession
<1>5. InSync(job[w])
    BY <1>2, <1>4 DEF LaneOK, Executing
<1>6. /\ deps' = [deps EXCEPT ![r].status = job[w].outcome, ![r].attempt = job[w].bad,
                              ![r].ready = job[w].ready]
      /\ job' = [job EXCEPT ![w].pc = "release"]
      /\ appStatus' = StatusAfter(r, job[w].outcome, job[w].recovery)
    BY <1>3 DEF Finish
<1>7. /\ \A q \in Revisions : q # r => deps'[q] = deps[q]
      /\ deps'[r].gen = deps[r].gen /\ deps'[r].only = deps[r].only
      /\ deps'[r].status = job[w].outcome /\ deps'[r].resolved = deps[r].resolved
      /\ deps'[r].recSpec = deps[r].recSpec
    BY <1>1, <1>6 DEF Row
<1>8. \A v \in Workers : v # w => job'[v] = job[v]
    BY <1>1, <1>6
<1>9. job'[w].pc = "release"
    BY <1>1, <1>6 DEF Lane
<1>10. RowRuns(r) /\ job[w].outcome \in Terminal
    BY <1>2 DEF RInv, RowsRun, LaneOK
<1>11. RowRuns(r)'
    BY <1>7, <1>10 DEF RowRuns, Whole, Terminal
<1>12. LaneRuns(w, job[w])'
    BY <1>9 DEF LaneRuns
<1>13. ShownRuns'
  <2>1. revision' # 0
      BY <1>1, <1>3, <1>4 DEF Revisions
  <2>2. CASE appStatus' \notin {"healthy", "recovered"}
      BY <2>1, <2>2 DEF ShownRuns, HealthyRunsRelease, RecoveredRunsTarget
  <2>3. CASE appStatus' = "healthy"
    <3>1. revision = r /\ job[w].outcome = "succeeded"
        BY <1>4, <1>6, <1>10, <2>3 DEF StatusAfter, FinishedStatus, Terminal
    <3>2. job[w].spec \in Release /\ job[w].spec.rev = r /\ deps[r].resolved = job[w].spec.digest
        BY <1>1, <1>2, <1>3, <3>1 DEF LaneOK, Hopeful, Persisted, Lane
    <3>3. job[w].spec = [rev |-> r, digest |-> deps[r].resolved]
        BY <3>2 DEF Release
    <3>4. Whole(r) => Runs(job[w].spec)
        BY <1>2, <1>3, <1>4, <3>1 DEF LaneRuns
    <3> QED
        BY <1>1, <1>4, <1>7, <2>1, <2>3, <3>1, <3>3, <3>4
        DEF ShownRuns, ShownWhole, Whole, Runs, HealthyRunsRelease, RecoveredRunsTarget
  <2>4. CASE appStatus' = "recovered"
    <3>1. revision = r /\ job[w].recovery = "succeeded"
        BY <1>4, <1>6, <1>10, <2>4 DEF StatusAfter, FinishedStatus, Terminal
    <3>2. Whole(r) => Runs(deps[r].recSpec)
        BY <1>3, <1>4, <1>5, <1>10, <3>1 DEF RowRuns, InSync
    <3> QED
        BY <1>1, <1>4, <1>7, <2>1, <2>4, <3>1, <3>2
        DEF ShownRuns, ShownWhole, Whole, Runs, HealthyRunsRelease, RecoveredRunsTarget
  <2> QED
      BY <2>2, <2>3, <2>4
<1> QED
    BY <1>4, <1>7, <1>8, <1>11, <1>12, <1>13, HolderStepRInv DEF Pending

-----------------------------------------------------------------------------
(* The write of a service.                                                 *)

\* The row that the lock holder works on is the only one that runs; nothing is
\* shown healthy or recovered meanwhile.
LEMMA HolderAlone ==
    ASSUME IInv, NEW w \in Workers, lock = w, job[w].pc \in Executing
    PROVE  /\ job[w].rev \in Revisions
           /\ \A q \in Revisions : deps[q].status = "running" => q = job[w].rev
           /\ appStatus \notin {"healthy", "recovered"}
<1>1. PICK r : r = job[w].rev
    OBVIOUS
<1>2. LaneOK(w, job[w])
    BY DEF IInv, LanesOK
<1>3. r \in Revisions /\ r <= revision /\ OlderEnded(r) /\ deps[r].status = "running"
    BY <1>1, <1>2 DEF LaneOK, InSync, Executing
<1>4. ASSUME NEW q \in Revisions, deps[q].status = "running" PROVE q = r
  <2>1. OlderEnded(q)
      BY <1>4 DEF IInv, RowsOK, RowOK
  <2> QED
      BY <1>3, <1>4, <2>1 DEF OlderEnded, Terminal, Revisions
<1>5. appStatus \notin {"healthy", "recovered"}
    BY <1>3, ShownSettled DEF Terminal
<1> QED
    BY <1>1, <1>3, <1>4, <1>5

\* A service written by the lock holder runs what that lane applies; one written
\* without the lock is a stray.
LEMMA LandRInv ==
    ASSUME IInv, RInv, NEW w \in Workers, NEW s \in Services, NEW ok \in BOOLEAN, Land(w, s, ok)
    PROVE  RInv'
<1>1. /\ job \in [Workers -> Lane] /\ job[w] \in Lane
      /\ cluster \in [Services -> [rel : Release \cup {Null}, ok : BOOLEAN]]
    BY DEF IInv, TypeOK
<1>2. /\ UNCHANGED <<revision, appStatus, deps, lock>>
      /\ job[w].pc \in {"deploy", "recover"} /\ s \in job[w].armed
      /\ cluster' = [cluster EXCEPT ![s] = [rel |-> job[w].spec, ok |-> ok]]
      /\ strays' = IF lock = w THEN strays \ {s} ELSE strays \cup {s}
    BY DEF Land, Working
<1>3. PICK bad : /\ job' = [job EXCEPT ![w] =
                              [job[w] EXCEPT !.armed = job[w].armed \ {s}, !.bad = bad]]
                 /\ job[w].bad \subseteq bad
  <2>1. PICK bad : bad = IF ok THEN job[w].bad ELSE job[w].bad \cup {s}
      OBVIOUS
  <2>2. job' = [job EXCEPT ![w] = [job[w] EXCEPT !.armed = job[w].armed \ {s}, !.bad = bad]]
      BY <1>1, <2>1 DEF Land, Lane
  <2> QED
      BY <2>1, <2>2
<1>4. \A v \in Workers : v # w => job'[v] = job[v]
    BY <1>1, <1>3
<1>5. /\ SameClaim(job[w], job'[w])
      /\ job'[w].todo = job[w].todo /\ job'[w].armed = job[w].armed \ {s} /\ job'[w].bad = bad
    BY <1>1, <1>3 DEF SameClaim, Lane
<1>6. \A x \in Services : x # s => cluster'[x] = cluster[x]
    BY <1>1, <1>2
<1>7. cluster'[s].rel = job[w].spec
    BY <1>1, <1>2
<1>8. \A q \in Revisions : RowRuns(q) /\ RowStays(q)
    BY <1>2 DEF RInv, RowsRun, RowStays
<1>9. \A v \in Workers : LaneRuns(v, job[v])
    BY DEF RInv, LanesRun
<1>10. CASE lock = w
  <2>1. /\ job[w].rev \in Revisions
        /\ \A q \in Revisions : deps[q].status = "running" => q = job[w].rev
        /\ appStatus \notin {"healthy", "recovered"}
      BY <1>2, <1>10, HolderAlone DEF Executing
  <2>2. deps[job[w].rev].recovery # "succeeded"
    <3>1. LaneOK(w, job[w])
        BY DEF IInv, LanesOK
    <3>2. deps[job[w].rev].recovery = job[w].recovery
        BY <1>2, <1>10, <3>1 DEF LaneOK, InSync, Executing
    <3> QED
        BY <1>2, <1>9, <3>1, <3>2 DEF LaneOK, LaneRuns, Hopeful
  <2>3. RowsRun'
      BY <1>2, <1>8, <2>1, <2>2 DEF RowsRun, RowRuns, Whole
  <2>4. LanesRun'
    <3> SUFFICES ASSUME NEW v \in Workers PROVE LaneRuns(v, job[v])'
        BY DEF LanesRun
    <3>1. CASE v # w
        BY <1>2, <1>4, <1>9, <1>10, <3>1 DEF LaneRuns
    <3>2. CASE v = w
      <4>1. Wrote(job[w]) => Wrote(job[w])'
          BY <1>2, <1>3, <1>5, <1>6, <1>7, <1>10 DEF Wrote, SameClaim
      <4> QED
          BY <1>2, <1>5, <1>9, <3>2, <4>1 DEF LaneRuns, SameClaim, Whole
    <3> QED
        BY <3>1, <3>2
  <2>5. ShownRuns'
      BY <1>2, <2>1 DEF RInv, ShownRuns, HealthyRunsRelease, RecoveredRunsTarget
  <2> QED
      BY <2>3, <2>4, <2>5 DEF RInv
<1>11. CASE lock # w
  <2>1. ServicesStay
      BY <1>2, <1>6, <1>11 DEF ServicesStay
  <2>2. RowsRun'
      BY <1>8, <2>1, RowRunsStays DEF RowsRun
  <2>3. LanesRun'
    <3> SUFFICES ASSUME NEW v \in Workers PROVE LaneRuns(v, job[v])'
        BY DEF LanesRun
    <3>1. CASE v # w
      <4>1. PICK j : j = job[v]
          OBVIOUS
      <4>2. LaneRuns(v, j)'
          BY <1>2, <1>9, <2>1, <4>1, LaneRunsStays
      <4> QED
          BY <1>4, <3>1, <4>1, <4>2 DEF LaneRuns, Wrote
    <3>2. CASE v = w
        BY <1>2, <1>5, <1>9, <1>11, <3>2 DEF LaneRuns, SameClaim
    <3> QED
        BY <3>1, <3>2
  <2>4. ShownRuns'
      BY <1>2, <1>8, <2>1, ShownRunsStays DEF RInv
  <2> QED
      BY <2>2, <2>3, <2>4 DEF RInv
<1> QED
    BY <1>10, <1>11

-----------------------------------------------------------------------------
(* Callers.                                                                *)

\* A revision that is queued, for the first time or again, is the one that is
\* shown, and it is shown as queued.
LEMMA QueuesRInv ==
    ASSUME IInv, RInv, NEW r \in Revisions, NEW d,
           deps' = [deps EXCEPT ![r] = d], revision' = r, appStatus' = "queued",
           UNCHANGED <<lock, cluster, job, strays>>,
           d.status = "queued", d.gen = 0 => d.only = {} /\ r = revision + 1
    PROVE  RInv'
<1>1. deps \in [Revisions -> Row] /\ revision \in 0..MaxRevision
    BY DEF IInv, TypeOK
<1>2. \A q \in Revisions : deps'[q] = IF q = r THEN d ELSE deps[q]
    BY <1>1
<1>3. ServicesStay
    BY DEF ServicesStay
<1>4. RowsRun'
  <2> SUFFICES ASSUME NEW q \in Revisions PROVE RowRuns(q)'
      BY DEF RowsRun
  <2>1. CASE q = r
      BY <1>2, <2>1 DEF RowRuns, Whole
  <2>2. CASE q # r
      BY <1>2, <1>3, <2>2, RowRunsStays DEF RInv, RowsRun, RowStays
  <2> QED
      BY <2>1, <2>2
<1>5. LanesRun'
  <2> SUFFICES ASSUME NEW v \in Workers PROVE LaneRuns(v, job[v])'
      BY DEF LanesRun
  <2>1. LaneRuns(v, job[v]) /\ LaneOK(v, job[v])
      BY DEF RInv, LanesRun, IInv, LanesOK
  <2>2. CASE ~Writing(job[v])
      BY <2>2 DEF LaneRuns, Writing
  <2>3. CASE Writing(job[v])
    <3>1. job[v].rev \in Revisions /\ job[v].rev <= revision
        BY <2>1, <2>3 DEF LaneOK, Writing
    <3>2. Whole(job[v].rev)' => Whole(job[v].rev)
        BY <1>1, <1>2, <3>1 DEF Whole, Revisions
    <3> QED
        BY <2>1, <3>2 DEF LaneRuns, Wrote, Runs
  <2> QED
      BY <2>2, <2>3
<1>6. ShownRuns'
    BY <1>3, ShownRunsStays DEF RInv, Revisions
<1> QED
    BY <1>4, <1>5, <1>6 DEF RInv

\* A new revision was never resumed.
LEMMA AcceptRInv ==
    ASSUME IInv, RInv, NEW k \in Keys, NEW i \in IdemKeys, NEW e \in 0..MaxRevision,
           NEW seed, AcceptRow(k, i, e, seed)
    PROVE  RInv'
<1>1. revision \in 0..MaxRevision
    BY DEF IInv, TypeOK
<1>2. PICK d : d = [Absent EXCEPT !.status = "queued", !.key = k, !.idem = i, !.resolved = seed]
    OBVIOUS
<1>3. d.status = "queued" /\ d.only = {}
    BY <1>2 DEF Absent
<1>4. PICK r \in Revisions : r = revision + 1
    BY <1>1, ConstantsAssumption DEF AcceptRow, Revisions
<1>5. /\ deps' = [deps EXCEPT ![r] = d] /\ revision' = r /\ appStatus' = "queued"
      /\ UNCHANGED <<lock, cluster, job, strays>>
    BY <1>2, <1>4 DEF AcceptRow
<1> QED
    BY <1>3, <1>4, <1>5, QueuesRInv

\* A resumed revision no longer works on all services.
LEMMA ResumeRInv ==
    ASSUME IInv, RInv, NEW k \in Keys, NEW i \in IdemKeys, NEW r \in Revisions,
           ResumeDeployment(k, i, r)
    PROVE  RInv'
<1>1. deps[r] \in Row /\ MaxResumes \in Nat
    BY ConstantsAssumption DEF IInv, TypeOK
<1>2. PICK d : d = Requeued(deps[r], k, i)
    OBVIOUS
<1>3. d.status = "queued" /\ d.gen = deps[r].gen + 1
    BY <1>1, <1>2 DEF Requeued, Row
<1>4. d.gen # 0
    BY <1>1, <1>3 DEF Row
<1>5. /\ deps' = [deps EXCEPT ![r] = d] /\ revision' = r /\ appStatus' = "queued"
      /\ UNCHANGED <<lock, cluster, job, strays>>
    BY <1>2 DEF ResumeDeployment, Resumable
<1> QED
    BY <1>3, <1>4, <1>5, QueuesRInv

-----------------------------------------------------------------------------
(* The invariant is inductive.                                             *)

\* An application without deployments runs nothing and is shown as pending.
LEMMA InitRInv == Init => RInv
<1> SUFFICES ASSUME Init PROVE RInv
    OBVIOUS
<1>1. \A r \in Revisions : deps[r].status = "absent" /\ deps[r].only = {}
    BY DEF Init, Absent
<1>2. \A w \in Workers : job[w].pc = "idle"
    BY DEF Init, Idle
<1>3. RowsRun
    BY <1>1 DEF RowsRun, RowRuns
<1>4. LanesRun
    BY <1>2 DEF LanesRun, LaneRuns
<1>5. ShownRuns
    BY DEF Init, ShownRuns, HealthyRunsRelease, RecoveredRunsTarget
<1> QED
    BY <1>3, <1>4, <1>5 DEF RInv

\* Every step of every lane keeps the invariant.
LEMMA LaneStepRInv == ASSUME IInv, RInv, NEW w \in Workers, LaneStep(w) PROVE RInv'
<1>1. CASE ReadCandidates(w) \/ TryLock(w) \/ Authorize(w) \/ ReleaseClaim(w)
    BY <1>1, LockStepsRInv
<1>2. CASE MarkRunning(w)
    BY <1>2, MarkRunningRInv
<1>3. CASE AlreadyResolved(w)
    BY <1>3, AlreadyResolvedRInv
<1>4. CASE \E digest \in Digests : SetResolved(w, digest)
    BY <1>4, SetResolvedRInv
<1>5. CASE Guard(w) \/ Timeout(w) \/ StageEnds(w)
    BY <1>5, ServiceStepRInv
<1>6. CASE ServiceStep(w)
  <2>1. PICK s \in Services :
           \/ BeforeStep(w, s) \/ Drop(w, s) \/ Block(w, s)
           \/ \E ok \in BOOLEAN : Land(w, s, ok)
      BY <1>6 DEF ServiceStep
  <2> QED
      BY <2>1, ServiceStepRInv, LandRInv
<1>7. CASE DeploySucceeds(w)
    BY <1>7, DeploySucceedsRInv
<1>8. CASE \/ ResolveFails(w) \/ DeployPartlyFailed(w) \/ NotApplied(w)
           \/ DeployInterrupted(w) \/ RecoveryInterrupted(w) \/ ClaimLost(w)
    BY <1>8, AttemptFailsRInv
<1>9. CASE \E skip \in BOOLEAN : BeginRecovery(w, skip)
    BY <1>9, BeginRecoveryRInv
<1>10. CASE (\E state \in {"succeeded", "failed"} : FinishRecovery(w, state)) \/ StopRecovery(w)
    BY <1>10, RecoveryResultRInv
<1>11. CASE Finish(w)
    BY <1>11, FinishRInv
<1> QED
    BY <1>1, <1>2, <1>3, <1>4, <1>5, <1>6, <1>7, <1>8, <1>9, <1>10, <1>11 DEF LaneStep

\* Every step keeps the invariant.
LEMMA NextRInv == IInv /\ RInv /\ [Next]_vars => RInv'
<1> SUFFICES ASSUME IInv, RInv, [Next]_vars PROVE RInv'
    OBVIOUS
<1>1. CASE Caller
  <2>1. CASE \E k \in Keys, i \in IdemKeys, e \in 0..MaxRevision :
                \/ Accept(k, i, e)
                \/ \E r \in Revisions : AcceptRollback(k, i, e, r)
      BY <2>1, AcceptRInv DEF Accept, AcceptRollback
  <2>2. CASE \E k \in Keys, i \in IdemKeys, r \in Revisions : ResumeDeployment(k, i, r)
      BY <2>2, ResumeRInv
  <2>3. CASE (\E r \in Revisions : Cancel(r)) \/ \E k \in Keys : Revoke(k)
      BY <2>3, SharedStepsRInv
  <2> QED
      BY <1>1, <2>1, <2>2, <2>3 DEF Caller
<1>2. CASE \E w \in Workers : LaneStep(w)
    BY <1>2, LaneStepRInv
<1>3. CASE GhostExpires \/ UNCHANGED vars
    BY <1>3, SharedStepsRInv
<1>4. CASE Fault
    BY <1>4, LockStepsRInv, AttemptFailsRInv DEF Fault
<1> QED
    BY <1>1, <1>2, <1>3, <1>4 DEF Next

-----------------------------------------------------------------------------
(* The theorems.                                                           *)

\* What rows, lanes and status say of the services is true in every reachable
\* state, for any number of lanes, services, revisions, resumes and faults.
THEOREM ServicesInductive == Spec => [](IInv /\ RInv)
BY InitIInv, InitRInv, NextIInv, NextRInv, PTL DEF Spec

\* A release that was never resumed and is reported healthy runs on every service,
\* but for those that a worker without the lock wrote last.
THEOREM HealthyIsHealthy == Spec => [](ShownWhole => HealthyRunsRelease)
<1>1. RInv => (ShownWhole => HealthyRunsRelease)
    BY DEF RInv, ShownRuns
<1> QED
    BY <1>1, ServicesInductive, PTL

\* An application reported recovered, whose failed release was never resumed, runs
\* the restored release on every service, with the same exception.
THEOREM RecoveredIsRecovered == Spec => [](ShownWhole => RecoveredRunsTarget)
<1>1. RInv => (ShownWhole => RecoveredRunsTarget)
    BY DEF RInv, ShownRuns
<1> QED
    BY <1>1, ServicesInductive, PTL

=============================================================================

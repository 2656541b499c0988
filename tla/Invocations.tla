---------------------------- MODULE Invocations ----------------------------
(***************************************************************************)
(* Job invocations of ONE application and their fence with deployments.    *)
(*                                                                         *)
(* A caller enqueues an invocation of a job of the current revision        *)
(* (internal/store/invocations.go).  A lane (internal/api) claims it under *)
(* the advisory lock that deployments take too, creates one Kubernetes Job *)
(* of a deterministic name (internal/cluster/invocations.go), records what *)
(* it observes, and deletes the Job before it lifts the fence.             *)
(*                                                                         *)
(* A lane may lose its session without noticing, or die with a create      *)
(* request in flight.  Deployments are reduced to what the fence sees of   *)
(* them: accepted, running under the lock, ended (see Deployments).        *)
(***************************************************************************)
EXTENDS Integers, FiniteSets

CONSTANTS
    Lanes,              \* invocation lanes of all management processes
    MaxInvocations,     \* bound on enqueued invocations
    QueueLimit,         \* pending invocations allowed (16 per service in the code)
    MaxRevision,        \* bound on accepted revisions
    MaxFaults,          \* bound on lost sessions, dead lanes and removed Jobs
    Deployer,           \* the deployment worker as a holder of the lock
    NoOne               \* the lock is free

Ids == 1..MaxInvocations            \* in the order of created_at
Revisions == 1..MaxRevision
Started == {"starting", "running"}
Finished == {"succeeded", "failed", "cancelled"}
Statuses == {"absent", "queued", "deleted"} \cup Started \cup Finished
\* Time since finished_at: under a minute, under ten minutes, longer.
Ages == {"fresh", "recent", "old"}

ASSUME InvocationsAssumption ==
    /\ MaxInvocations \in Nat /\ QueueLimit \in Nat /\ MaxFaults \in Nat
    /\ MaxRevision \in Nat \ {0}
    /\ NoOne \notin Lanes /\ Deployer \notin Lanes /\ NoOne # Deployer

VARIABLES
    revision,   \* applications.revision
    release,    \* deployments.status of every revision
    inv,        \* the rows of job_invocations
    allowed,    \* the key of the invocations is still valid
    lock,       \* holder of the application's advisory lock (namespace 3)
    lane,       \* the state of each invocation lane
    flying,     \* creates of dead lanes that may still reach Kubernetes
    job,        \* the Kubernetes Job of each invocation
    created,    \* number of Jobs created for each invocation; names the last UID
    late,       \* history: invocations whose Job was created without the lock
    faults      \* number of faults so far

vars == <<revision, release, inv, allowed, lock, lane, flying, job, created, late, faults>>

\* uid is the recorded runtime_uid (0: none), lease the lane that holds the
\* lease token, lapsed whether lease_until has passed.
Receipt == [status : Statuses, rev : 0..MaxRevision, cancel : BOOLEAN,
            cleanup : BOOLEAN, uid : Nat, lease : Lanes \cup {NoOne},
            lapsed : BOOLEAN, age : Ages]

NoReceipt == [status |-> "absent", rev |-> 0, cancel |-> FALSE,
              cleanup |-> FALSE, uid |-> 0, lease |-> NoOne,
              lapsed |-> TRUE, age |-> "fresh"]

\* status and uid are the lane's copy of the record.
LaneState == [pc : {"idle", "candidate", "locked", "loop", "checked", "armed", "created", "clean"},
              id : 0..MaxInvocations, status : Statuses, uid : Nat]

IdleLane == [pc |-> "idle", id |-> 0, status |-> "absent", uid |-> 0]

TypeOK ==
    /\ revision \in Revisions
    /\ release \in [Revisions -> {"absent", "queued", "running", "succeeded", "failed"}]
    /\ inv \in [Ids -> Receipt]
    /\ allowed \in BOOLEAN
    /\ lock \in Lanes \cup {NoOne, Deployer}
    /\ lane \in [Lanes -> LaneState]
    /\ flying \subseteq Ids
    /\ job \in [Ids -> {"none", "running", "completed", "failed"}]
    /\ created \in [Ids -> Nat]
    /\ late \subseteq Ids
    /\ faults \in 0..MaxFaults

\* The first revision has been deployed.
Init ==
    /\ revision = 1
    /\ release = [r \in Revisions |-> IF r = 1 THEN "succeeded" ELSE "absent"]
    /\ inv = [i \in Ids |-> NoReceipt]
    /\ allowed = TRUE
    /\ lock = NoOne
    /\ lane = [w \in Lanes |-> IdleLane]
    /\ flying = {}
    /\ job = [i \in Ids |-> "none"]
    /\ created = [i \in Ids |-> 0]
    /\ late = {}
    /\ faults = 0

-----------------------------------------------------------------------------
(* Conditions the queries share.                                           *)

DeploymentPending == \E r \in Revisions : release[r] \in {"queued", "running"}

\* status IN ('starting','running') OR cleanup_pending
Active(i) == inv[i].status \in Started \/ inv[i].cleanup

Queued == {i \in Ids : inv[i].status = "queued"}

\* A finished receipt whose lease has lapsed is looked at again for ten minutes.
Tombstone(i) ==
    /\ inv[i].status \in Finished /\ ~inv[i].cleanup
    /\ inv[i].age # "old" /\ inv[i].lapsed

Oldest(S) == CHOOSE i \in S : \A k \in S : i <= k

-----------------------------------------------------------------------------
(* Callers and deployments.                                                *)

\* EnqueueInvocation: one transaction under the application row lock.  A replay
\* of an idempotency key returns the receipt and changes nothing.  created_at is
\* the start of the transaction: an older receipt may appear after a newer one.
Enqueue(i) ==
    /\ inv[i].status = "absent"
    /\ allowed
    /\ release[revision] = "succeeded"
    /\ ~DeploymentPending
    /\ Cardinality({k \in Ids : k \in Queued \/ Active(k)}) < QueueLimit
    /\ inv' = [inv EXCEPT ![i] = [NoReceipt EXCEPT !.status = "queued", !.rev = revision]]
    /\ UNCHANGED <<revision, release, allowed, lock, lane, flying, job, created, late, faults>>

CancelInvocation(i) ==
    /\ inv[i].status \in Started \cup {"queued"}
    /\ inv' = [inv EXCEPT ![i].cancel = TRUE]
    /\ UNCHANGED <<revision, release, allowed, lock, lane, flying, job, created, late, faults>>

\* The key is revoked, expires, or loses its permission.
Revoke ==
    /\ allowed /\ allowed' = FALSE
    /\ UNCHANGED <<revision, release, inv, lock, lane, flying, job, created, late, faults>>

\* fenceInvocationsForDeployment refuses while an invocation is active.
Fence == \A i \in Ids : ~Active(i)

\* acceptGuarded as the invocations see it: fence, cancel what is queued, insert.
AcceptDeployment ==
    /\ revision < MaxRevision
    /\ Fence
    /\ revision' = revision + 1
    /\ release' = [release EXCEPT ![revision + 1] = "queued"]
    /\ inv' = [i \in Ids |-> IF i \in Queued
                 THEN [inv[i] EXCEPT !.status = "cancelled", !.cancel = TRUE, !.age = "fresh"]
                 ELSE inv[i]]
    /\ UNCHANGED <<allowed, lock, lane, flying, job, created, late, faults>>

OldestPending(r) ==
    /\ release[r] \in {"queued", "running"}
    /\ \A q \in Revisions : q < r => release[q] \notin {"queued", "running"}

\* Claim under the lock, with its own look at active invocations.
DeployClaim(r) ==
    /\ OldestPending(r) /\ lock = NoOne /\ Fence
    /\ lock' = Deployer
    /\ release' = [release EXCEPT ![r] = "running"]
    /\ UNCHANGED <<revision, inv, allowed, lane, flying, job, created, late, faults>>

DeployEnd(r, outcome) ==
    /\ lock = Deployer /\ OldestPending(r)
    /\ lock' = NoOne
    /\ release' = [release EXCEPT ![r] = outcome]
    /\ UNCHANGED <<revision, inv, allowed, lane, flying, job, created, late, faults>>

-----------------------------------------------------------------------------
(* ClaimInvocation.                                                        *)

Tombstones == {i \in Ids : Tombstone(i)}

\* Faulty variants: a receipt that waits for its cleanup, or any active receipt,
\* is not taken up again.
StartedCandidates ==
    LET active == {i \in Ids : inv[i].status \in Started}
    IN IF active # {} THEN active ELSE IF Queued # {} THEN Queued ELSE Tombstones
NewCandidates == IF Queued # {} THEN Queued ELSE Tombstones
\* One candidate per application: active first, then the oldest queued one, then
\* a tombstone.
Candidates ==
    LET active == {i \in Ids : Active(i)}
    IN IF active # {} THEN active ELSE IF Queued # {} THEN Queued ELSE Tombstones

ReadCandidate(w) ==
    /\ lane[w].pc = "idle" /\ Candidates # {}
    /\ lane' = [lane EXCEPT ![w].pc = "candidate", ![w].id = Oldest(Candidates)]
    /\ UNCHANGED <<revision, release, inv, allowed, lock, flying, job, created, late, faults>>

TryLock(w) ==
    /\ lane[w].pc = "candidate"
    /\ \/ /\ lock = NoOne
          /\ lock' = w
          /\ lane' = [lane EXCEPT ![w].pc = "locked"]
       \/ /\ lock # NoOne
          /\ lane' = [lane EXCEPT ![w] = IdleLane]
          /\ UNCHANGED lock
    /\ UNCHANGED <<revision, release, inv, allowed, flying, job, created, late, faults>>

\* Faulty variant: only deployments count.
DeploymentBusy(i) == i \in Ids /\ DeploymentPending
\* A deployment is pending or another invocation is active.
Busy(i) == DeploymentPending \/ \E k \in Ids : k # i /\ Active(k)

\* A queued receipt that must not start any more.
Obsolete(i) == inv[i].status = "queued" /\ (inv[i].rev # revision \/ inv[i].cancel)

\* The receipt may be leased: nothing else is active, and if it has ended there
\* is something left to clean or to look at.
Leasable(i) ==
    /\ inv[i].status \in {"queued"} \cup Started \cup Finished
    /\ ~Obsolete(i) /\ ~Busy(i)
    /\ inv[i].status \in Finished => inv[i].cleanup \/ Tombstone(i)

\* The transaction of ClaimInvocation under the lock and the application row.
ClaimRow(w) ==
    LET i == lane[w].id
        r == [inv[i] EXCEPT !.status = IF @ = "queued" THEN "starting" ELSE @,
                            !.lease = w, !.lapsed = FALSE] IN
    /\ lane[w].pc = "locked" /\ lock = w
    /\ \/ /\ Leasable(i)
          /\ inv' = [inv EXCEPT ![i] = r]
          /\ lane' = [lane EXCEPT ![w].pc = "loop", ![w].status = r.status, ![w].uid = r.uid]
          /\ UNCHANGED lock
       \/ /\ Obsolete(i)
          /\ inv' = [inv EXCEPT ![i].status = "cancelled", ![i].age = "fresh"]
          /\ lane' = [lane EXCEPT ![w] = IdleLane]
          /\ lock' = NoOne
       \/ /\ ~Leasable(i) /\ ~Obsolete(i)
          /\ lane' = [lane EXCEPT ![w] = IdleLane]
          /\ lock' = NoOne
          /\ UNCHANGED inv
    /\ UNCHANGED <<revision, release, allowed, flying, job, created, late, faults>>

-----------------------------------------------------------------------------
(* runInvocation.                                                          *)

\* Faulty variant: the statements run on any session and name no token.
AnySession(w) == lane[w].id \in Ids
\* A statement on the lock session that names the lease token succeeds.
Holds(w) == lock = w /\ inv[lane[w].id].lease = w

\* Check: the lease is renewed and the invocation may go on.
Stopped(i) == inv[i].cancel \/ inv[i].rev # revision \/ ~allowed
CheckPasses(w) == Holds(w) /\ ~Stopped(lane[w].id)

\* The row after Save: a terminal status keeps the fence up until the cleanup.
Saved(r, status, uid) ==
    [r EXCEPT !.status = status, !.uid = uid, !.cleanup = status \in Finished,
              !.age = IF status \in Finished THEN "fresh" ELSE @]

Save(w, status, uid) ==
    LET i == lane[w].id IN
    /\ Holds(w)
    /\ inv' = [inv EXCEPT ![i] = Saved(inv[i], status, IF uid = 0 THEN inv[i].uid ELSE uid)]
    /\ lane' = [lane EXCEPT ![w] = [lane[w] EXCEPT !.pc = "loop", !.status = status,
                                       !.uid = IF uid = 0 THEN lane[w].uid ELSE uid]]
    /\ UNCHANGED <<revision, release, allowed, lock, flying, job, created, late, faults>>

\* Cancellation, revoked authority or a changed revision ends the receipt first.
StopInvocation(w) ==
    /\ lane[w].pc = "loop" /\ lane[w].status \in Started
    /\ Stopped(lane[w].id)
    /\ Save(w, "cancelled", 0)

\* The deadline has passed, or the input cannot be opened.
FailInvocation(w) ==
    /\ lane[w].pc = "loop" /\ lane[w].status \in Started
    /\ Save(w, "failed", 0)

\* The Job that exists is the recorded one, if any was recorded.
SameJob(w) == job[lane[w].id] # "none" /\ lane[w].uid \in {0, created[lane[w].id]}

Check(w) ==
    /\ lane[w].pc = "loop" /\ lane[w].status \in Started
    /\ CheckPasses(w)
    /\ lane' = [lane EXCEPT ![w].pc = "checked"]
    /\ UNCHANGED <<revision, release, inv, allowed, lock, flying, job, created, late, faults>>

\* StartInvocation finds the Job, or ObserveInvocation does: its state is saved.
\* Pods that cannot be read leave the status of a running Job as it was; terminal
\* logs that cannot be read make the receipt failed.
SaveObserved(w, status) ==
    LET i == lane[w].id IN
    /\ lane[w].pc = "checked" /\ SameJob(w)
    /\ CASE job[i] = "running"   -> status \in {"running", lane[w].status}
         [] job[i] = "completed" -> status \in {"succeeded", "failed"}
         [] job[i] = "failed"    -> status = "failed"
    /\ Save(w, status, created[i])

\* The runtime reports an error and no Job; the lane tries again.
RuntimeError(w) ==
    /\ lane[w].pc = "checked"
    /\ lane' = [lane EXCEPT ![w].pc = "loop"]
    /\ UNCHANGED <<revision, release, inv, allowed, lock, flying, job, created, late, faults>>

\* Faulty variant: a missing Job is created again.
MayRecreate(w) == lane[w].status = "starting"
\* StartInvocation creates the Job only while none has been recorded.
MayCreate(w) == lane[w].status = "starting" /\ lane[w].uid = 0

\* StartInvocation up to the last check before the create.
ArmCreate(w) ==
    /\ lane[w].pc = "checked" /\ CheckPasses(w)
    /\ MayCreate(w) /\ job[lane[w].id] = "none"
    /\ lane' = [lane EXCEPT ![w].pc = "armed"]
    /\ UNCHANGED <<revision, release, inv, allowed, lock, flying, job, created, late, faults>>

\* The create reaches Kubernetes; the name of the Job is taken or it is not.
Create(i, locked) ==
    IF job[i] = "none"
    THEN /\ job' = [job EXCEPT ![i] = "running"]
         /\ created' = [created EXCEPT ![i] = @ + 1]
         /\ late' = IF locked THEN late ELSE late \cup {i}
    ELSE UNCHANGED <<job, created, late>>

CreateLands(w) ==
    LET i == lane[w].id IN
    /\ lane[w].pc = "armed"
    /\ Create(i, lock = w)
    /\ lane' = [lane EXCEPT ![w].pc = IF job[i] = "none" THEN "created" ELSE "loop"]
    /\ UNCHANGED <<revision, release, inv, allowed, lock, flying, faults>>

\* The request fails or times out without an effect.
CreateFails(w) ==
    /\ lane[w].pc = "armed"
    /\ lane' = [lane EXCEPT ![w].pc = "loop"]
    /\ UNCHANGED <<revision, release, inv, allowed, lock, flying, job, created, late, faults>>

\* The state of the Job just created is saved with its UID.
SaveCreated(w, status) ==
    /\ lane[w].pc = "created" /\ status \in Started
    /\ Save(w, status, created[lane[w].id])

\* CleanupInvocation deletes the Job and returns false while it or its pods are
\* there.  It asks for no lease: a lane that lost its session does it too.
DeleteJob(w) ==
    /\ lane[w].pc = "loop" /\ lane[w].status \in Finished /\ SameJob(w)
    /\ job' = [job EXCEPT ![lane[w].id] = "none"]
    /\ UNCHANGED <<revision, release, inv, allowed, lock, lane, flying, created, late, faults>>

\* CleanupInvocation finds nothing any more.
CleanupInvocation(w) ==
    /\ lane[w].pc = "loop" /\ lane[w].status \in Finished
    /\ job[lane[w].id] = "none"
    /\ lane' = [lane EXCEPT ![w].pc = "clean"]
    /\ UNCHANGED <<revision, release, inv, allowed, lock, flying, job, created, late, faults>>

\* A Job of another UID is an error that ends the pass.
CleanupRefused(w) ==
    /\ lane[w].pc = "loop" /\ lane[w].status \in Finished
    /\ job[lane[w].id] # "none" /\ ~SameJob(w)
    /\ lane' = [lane EXCEPT ![w] = IdleLane]
    /\ lock' = IF lock = w THEN NoOne ELSE lock
    /\ UNCHANGED <<revision, release, inv, allowed, flying, job, created, late, faults>>

\* Faulty variant: the fence is lifted at once.
NoWindow(i) == inv[i].age \in Ages
\* The receipt has been finished for a minute.
WindowOver(i) == inv[i].age # "fresh"

\* Cleaned lifts the fence; before the window is over the lane looks again.
Cleaned(w) ==
    LET i == lane[w].id IN
    /\ lane[w].pc = "clean"
    /\ \/ /\ WindowOver(i) /\ Holds(w) /\ inv[i].status \in Finished
          /\ inv' = [inv EXCEPT ![i].cleanup = FALSE, ![i].lease = NoOne, ![i].lapsed = FALSE]
          /\ lane' = [lane EXCEPT ![w] = IdleLane]
          /\ lock' = NoOne
       \/ /\ ~WindowOver(i)
          /\ lane' = [lane EXCEPT ![w].pc = "loop"]
          /\ UNCHANGED <<inv, lock>>
    /\ UNCHANGED <<revision, release, allowed, flying, job, created, late, faults>>

\* A statement fails because the session, the lease or the receipt is gone.
LaneReturns(w) ==
    LET i == lane[w].id IN
    /\ \/ lane[w].pc = "locked" /\ lock # w
       \/ lane[w].pc \in {"loop", "checked", "created"} /\ lane[w].status \notin Finished /\ ~Holds(w)
       \/ lane[w].pc = "clean" /\ WindowOver(i) /\ (~Holds(w) \/ inv[i].status \notin Finished)
    /\ lane' = [lane EXCEPT ![w] = IdleLane]
    /\ lock' = IF lock = w THEN NoOne ELSE lock
    /\ UNCHANGED <<revision, release, inv, allowed, flying, job, created, late, faults>>

-----------------------------------------------------------------------------
(* Kubernetes, time and faults.                                            *)

JobEnds(i, state) ==
    /\ job[i] = "running" /\ state \in {"completed", "failed"}
    /\ job' = [job EXCEPT ![i] = state]
    /\ UNCHANGED <<revision, release, inv, allowed, lock, lane, flying, created, late, faults>>

\* A minute passes.  A create has a deadline of thirty seconds and a cleanup one of
\* fifteen: a create that was checked before the receipt ended is over within the
\* minute, and so is a cleanup that did not see its Job.
MinutePasses(i) ==
    /\ inv[i].status \in Finished
    /\ inv[i].age = "fresh" /\ i \notin flying
    /\ \A w \in Lanes : lane[w].id = i =>
           /\ lane[w].pc # "armed"
           /\ lane[w].pc = "clean" => job[i] = "none"
    /\ inv' = [inv EXCEPT ![i].age = "recent"]
    /\ UNCHANGED <<revision, release, allowed, lock, lane, flying, job, created, late, faults>>

\* Ten minutes pass.
TenMinutesPass(i) ==
    /\ inv[i].status \in Finished /\ inv[i].age = "recent"
    /\ inv' = [inv EXCEPT ![i].age = "old"]
    /\ UNCHANGED <<revision, release, allowed, lock, lane, flying, job, created, late, faults>>

\* lease_until passes; only tombstones are asked about it.
Lapse(i) ==
    /\ inv[i].status \in Finished /\ ~inv[i].cleanup /\ ~inv[i].lapsed
    /\ inv' = [inv EXCEPT ![i].lapsed = TRUE]
    /\ UNCHANGED <<revision, release, allowed, lock, lane, flying, job, created, late, faults>>

\* ClaimInvocation deletes receipts after seven days.
DeleteReceipt(i) ==
    /\ inv[i].status \in Finished /\ ~inv[i].cleanup
    /\ inv' = [inv EXCEPT ![i] = [NoReceipt EXCEPT !.status = "deleted", !.age = "old"]]
    /\ UNCHANGED <<revision, release, allowed, lock, lane, flying, job, created, late, faults>>

\* The server ends the session and with it the lock; the lane does not know.
SessionLost(w) ==
    /\ faults < MaxFaults /\ lock = w
    /\ lock' = NoOne /\ faults' = faults + 1
    /\ UNCHANGED <<revision, release, inv, allowed, lane, flying, job, created, late>>

\* The process dies; a create it had sent may still arrive.
Crash(w) ==
    /\ faults < MaxFaults /\ lane[w].pc # "idle"
    /\ flying' = IF lane[w].pc = "armed" THEN flying \cup {lane[w].id} ELSE flying
    /\ lock' = IF lock = w THEN NoOne ELSE lock
    /\ lane' = [lane EXCEPT ![w] = IdleLane]
    /\ faults' = faults + 1
    /\ UNCHANGED <<revision, release, inv, allowed, job, created, late>>

\* Somebody else deletes the Job.
JobRemoved(i) ==
    /\ faults < MaxFaults /\ job[i] # "none"
    /\ job' = [job EXCEPT ![i] = "none"]
    /\ faults' = faults + 1
    /\ UNCHANGED <<revision, release, inv, allowed, lock, lane, flying, created, late>>

\* A create of a dead lane arrives, or is lost.
FlyingEnds(i) ==
    /\ i \in flying
    /\ flying' = flying \ {i}
    /\ Create(i, FALSE) \/ UNCHANGED <<job, created, late>>
    /\ UNCHANGED <<revision, release, inv, allowed, lock, lane, faults>>

-----------------------------------------------------------------------------
LaneStep(w) ==
    \/ ReadCandidate(w) \/ TryLock(w) \/ ClaimRow(w)
    \/ StopInvocation(w) \/ FailInvocation(w) \/ Check(w)
    \/ \E status \in Statuses : SaveObserved(w, status) \/ SaveCreated(w, status)
    \/ RuntimeError(w) \/ ArmCreate(w) \/ CreateLands(w) \/ CreateFails(w)
    \/ DeleteJob(w) \/ CleanupInvocation(w) \/ CleanupRefused(w) \/ Cleaned(w) \/ LaneReturns(w)

DeployStep ==
    \E r \in Revisions :
        DeployClaim(r) \/ \E outcome \in {"succeeded", "failed"} : DeployEnd(r, outcome)

Caller ==
    \/ \E i \in Ids : Enqueue(i) \/ CancelInvocation(i)
    \/ Revoke \/ AcceptDeployment

Pass(i) == MinutePasses(i) \/ TenMinutesPass(i)

Outside(i) == (\E state \in {"completed", "failed"} : JobEnds(i, state)) \/ FlyingEnds(i)

Next ==
    \/ Caller
    \/ \E w \in Lanes : LaneStep(w)
    \/ DeployStep
    \/ \E i \in Ids : Outside(i) \/ Pass(i) \/ JobRemoved(i) \/ Lapse(i) \/ DeleteReceipt(i)
    \/ \E w \in Lanes : SessionLost(w) \/ Crash(w)

Spec == Init /\ [][Next]_vars

\* The lanes and the deployment worker loop for ever; a Job has an active
\* deadline, a request a timeout, and a minute passes.  started_at is never moved, so
\* a lane that keeps coming back to its loop meets the deadline of the invocation.
FairSpec ==
    /\ Spec
    /\ \A w \in Lanes : WF_vars(LaneStep(w)) /\ SF_vars(FailInvocation(w))
    /\ WF_vars(DeployStep)
    /\ \A i \in Ids : WF_vars(Outside(i)) /\ SF_vars(MinutePasses(i))

-----------------------------------------------------------------------------
(* Properties.                                                             *)

\* At most one invocation of the application is active: the unique index
\* job_invocations_active_app never refuses a claim. With the types of the rows.
OneActive ==
    /\ TypeOK
    /\ \A i, k \in Ids : Active(i) /\ Active(k) => i = k

\* Deployments wait for active jobs and cleanup: a Job in the cluster, also one of
\* a create that landed after its lane died or lost the lock, has a receipt that
\* is active, and no deployment is pending while a receipt is active.
JobFenced ==
    /\ \A i \in Ids : job[i] # "none" => Active(i)
    /\ DeploymentPending => \A i \in Ids : ~Active(i)

\* Once its UID is recorded a Job is never created again, also when somebody else
\* deletes it, unless a create landed without the lock.
NeverRecreated ==
    [][\A i \in Ids : inv[i].uid # 0 /\ i \notin late' => created'[i] = created[i]]_vars

\* The outcome of an invocation is final.
OutcomeStays ==
    [][\A i \in Ids : inv[i].status \in Finished =>
            inv'[i].status \in {inv[i].status, "deleted"}]_vars

\* The Job that exists is not the one whose UID the receipt recorded: a create
\* that was in flight landed later.  validateInvocationJob refuses every cleanup
\* until somebody deletes that Job.
CleanupBlocked(i) ==
    /\ inv[i].status \in Finished /\ inv[i].cleanup
    /\ job[i] # "none" /\ inv[i].uid \notin {0, created[i]}

\* Every invocation that was enqueued ends, whatever is queued or running beside
\* it and whichever lane dies, unless the cleanup of another receipt is blocked.
InvocationEnds ==
    \A i \in Ids :
        inv[i].status = "queued" ~>
            \/ inv[i].status \in Finished \cup {"deleted"}
            \/ \E k \in Ids \ {i} : CleanupBlocked(k)

\* Every fence is lifted: what was created for a finished invocation is removed,
\* also when the lane that was to remove it dies or loses its session, unless
\* the cleanup is blocked.
CleanupResumes ==
    \A i \in Ids : inv[i].cleanup ~> ~inv[i].cleanup \/ CleanupBlocked(i)

=============================================================================

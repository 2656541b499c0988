# hakopod: a TLA+ verification project

hakopod is a self-hosted platform that runs applications on Kubernetes. Its
management process keeps every decision in PostgreSQL (`internal/store`), runs
the long operations in worker lanes (`internal/worker`, `internal/api`), and
writes Kubernetes objects (`internal/cluster`). Several management processes may
run at once. They coordinate only through PostgreSQL: row locks for short
transactions, and a session-level advisory lock per application for the long
operations.

This directory models the core of that machinery: the release lifecycle of an
application, the job invocations, sandbox sessions and volume resizes that share
its lock or its fence, and the backup jobs. TLC checks them on small instances, and
TLAPS proves every safety property the runs check for instances of every size. The
last sections say what is left out and what comes next.

| file | contents |
|---|---|
| `ReleaseHistory.tla` | what callers are promised: the abstract specification |
| `Deployments.tla` | acceptance, claim, worker, cluster deploy, recovery, resume |
| `DeploymentsProofs.tla` | the inductive invariant, theorems and proofs about `Deployments` |
| `DeploymentsHealthProofs.tla` | the same about what a healthy or recovered application runs |
| `Invocations.tla` | job invocations and their fence with deployments |
| `VolumeResize.tla` | offline resize of a volume, among ordinary deployments |
| `SandboxSessions.tla` | sandbox sessions and their calls, among deployments and a resize |
| `Backups.tla` | backup and restore jobs, artifacts, retention |
| `InvocationsProofs.tla`, `VolumeResizeProofs.tla`, `SandboxSessionsProofs.tla`, `BackupsProofs.tla` | an inductive invariant, theorems and proofs about each of them |
| `MC*.tla`, `*.cfg` | the instances TLC checks |
| `PROJECT.json` | components, runs, mutants, source map, findings, hazards, theorems |

## 1. Inventory

State, operations, interaction and what makes each part hard and correct.

**Release acceptance and queue** (`internal/store/operations.go`,
`internal/api/api.go`). State: the application row (`revision`, `status`) and one
deployment row per revision. Operations: accept, rollback, cancel, each one
transaction serialized by an advisory lock on the idempotency key and by the
application row. Hard: callers that repeat a request, that hold an old revision,
that arrive while a worker ends the previous release. Correct when a request is
accepted once, revisions have no gaps, and the status shown is that of the
latest revision.

**Claim and worker lanes** (`store.Claim`, `worker.Run`, `worker.run`). State: the
advisory lock, held by a database *session*, and the memory of the lane. A lane
reads candidates on a pooled connection, tries the lock, marks the row running,
and from then on runs every statement of the claim on the session that holds the
lock. Hard: the candidate list is stale when it is used; a session may end while
the lane still runs; a process may die between any two effects. Correct when
releases run one at a time and in order, a lane that lost its session commits
nothing, and what a dead lane left behind is taken over.

**Cluster deploy** (`cluster.Deploy`, `scheduleServices`, `Observe`). State: the
workload of each service. The services are written in dependency order; before
every write the lane looks at its key, the cancellation and the lock. Hard: the
look and the write are not atomic; the stage deadline leaves services unstarted;
the report says *ready* without saying of which release. Correct when only
persisted digests run, and a release reported healthy is the one that runs.

**Recovery** (`store/recovery.go`, `worker.recoverRelease`). State: `recovery_status`
and the recovery spec in the deployment row. A failure outside the services makes
the worker restore the last healthy release. Hard: the target is looked up long
before it is used; the recovery may be interrupted and resumed by another lane;
it ends in two commits. Correct when the target is the newest healthy older
release and no ended deployment has a recovery still running.

**Same-revision resume** (`store/deployment_resume.go`). Puts the latest
partially failed revision back in the queue for its failed services and their
dependents. Hard: the selection is computed from statuses recorded at the
failure, and everything later must respect it.

**Job invocations** (`store/invocations.go`, `api/invocation_worker.go`,
`cluster/invocations.go`). State: receipts, leases, one Kubernetes Job per
invocation under a deterministic name. Operations: enqueue, cancel, claim, check,
create, observe, save, clean up, retention. They take the same advisory lock as
deployments and refuse them while an invocation is active or not yet cleaned up.
Hard: a create in flight when its lane dies; a Job deleted by somebody else; an
outcome observed by a lane that was replaced. Correct when one invocation is
active at a time, no deployment overtakes it, its Job is created once, and its
cleanup ends.

**Sandbox sessions** (`store/sandbox_sessions.go`, `sandbox_reconcile.go`,
`api/sandbox_sessions.go`, `sandbox_worker.go`, `cluster/sandbox_session*.go`).
State: a receipt with a lease and a call token, the outcome of each call, a
namespace with a deny-all policy and one pod per session. Reconciliation lanes
lease one step at a time; API handlers run code in the pod. Hard: a lease that
ends while a create is in flight, a handler that dies while its code goes on,
repeated requests, a slow cleanup. Correct when a call's code runs once and alone,
its caller hears the recorded outcome, *closed* means that nothing is left, and no
deployment overlaps an active session.

**Volume resize** (`store/volume_resizes.go`, `worker/volume_resize.go`,
`cluster/volume_resize*.go`, `volume_cleanup.go`). State: the journal of the resize
(phase, error, UID of the staging claim, verified copy), the extra allowance of the
namespace, two claims, the copy pod, the workload. One pass per claim of the
advisory lock; the switch inserts a deployment row that Claim excludes. Hard:
every request can land late, any pass can die halfway, users cancel, retry, keep
and delete in between. Correct when the services only ever run on a volume with
everything they wrote, nothing in use is deleted, and maintenance ends.

**Backups** (`store/backups.go`, `backup_worker.go`, `backup/service.go`,
`api/backups.go`). State: jobs with a lease, artifacts, restore reviews, objects in
a bucket, operations inside a database engine. A dump streams under the one
streaming slot; an engine job is started, parked and polled. Hard: a loop that is
lost or paused, cancellation of a parked job, a removal against a restore, bounded
deletions. Correct when an artifact is what its row says, the backup a restore
reads is safe, nothing is begun twice, and every job ends.

**Service volume cleanup, previews, retained storage** (`internal/worker`): periodic
jobs that compete with deployments. **Alarms** (`internal/store`): evaluation and
notification. **Actions runners** (`internal/actions`, `store/actions*.go`): slots
bound to provider jobs. **Managed databases and platforms**: operators over
third-party controllers. **Custom hostnames**, **idle HTTP gateway**, **keys and
access**, **application spec**, **logs and notifications**, **CLI, web, installer**.
`PROJECT.json` lists each one with its status.

Interaction: callers write rows; lanes find them by polling; deployment,
invocation and resize lanes exclude each other by the advisory lock of the
application (namespace 3); sessions and backup jobs have leases instead;
acceptance, invocations, sessions, resizes and backups fence each other by queries
under the application row lock or a global advisory lock; Kubernetes is written by
name, and never knows who holds the lock. Each module reduces the other components
to what its own fence sees of them: `Invocations`, `VolumeResize` and
`SandboxSessions` contain the deployments of the application, `SandboxSessions` and
`Backups` its resize.

The hazards that follow from this are in `PROJECT.json` under `hazards`, each at
its line and with the properties that would notice it going wrong.

## 2. Deployments

One application. `deps[r]` is the deployment row of revision `r`, `revision` and
`appStatus` the application row, `lock` the advisory lock (`NoOne`, a lane, or
`Ghost`: the session of a dead process that the server has not noticed), `live`
the keys that `Reauthorize` accepts, `cluster[s]` the release that runs for
service `s` and whether it is ready, `job[w]` the memory of lane `w`.

A step is one effect that another actor can see. Code between two such effects is
one action:

| action | code |
|---|---|
| `Accept`, `AcceptRollback`, `Cancel`, `Revoke`, `ResumeDeployment` | `acceptGuarded`, `rollback`, `cancel`, `Reauthorize`, `ResumeDeployment` |
| `ReadCandidates`, `TryLock`, `MarkRunning` | the three steps of `Store.Claim` |
| `Authorize`, `AlreadyResolved`, `SetResolved`, `ResolveFails` | `Worker.run` up to the deploy, `Claim.SetResolved` |
| `Guard`, `Timeout` | the guard goroutine and the deadline |
| `BeforeStep`, `Land`, `Drop`, `Block`, `StageEnds` | `scheduleServices`, `deployService`, `applyDeployment` |
| `DeployPartlyFailed`, `DeploySucceeds`, `NotApplied`, `DeployInterrupted` | what `Worker.run` does with the result of `Deploy` |
| `BeginRecovery`, `FinishRecovery`, `RecoveryInterrupted`, `StopRecovery` | `recovery.go`, `recoverRelease`, `finish` |
| `Finish`, `ReleaseClaim`, `ClaimLost` | `finishTransaction`, `releaseClaimConnection`, the early returns |
| `SessionLost`, `Crash`, `GhostExpires`, `GiveUp`, `ResolvedTooLate` | faults and the paths that leave a row running |

The write of a service is two steps: `BeforeStep` looks, `Land` or `Drop` happens
later, possibly after the lock moved to another lane. `strays` remembers the
services that were last written by a lane without the lock, because nothing in the
code can prevent that write and the health properties exclude it openly.

Abstracted: an image tag and everything resolved from it is one digest; the
content of a spec is its revision; `RecoveryBlocked` is a free choice to skip, and
is forced if there is no healthy release; the observation after a failure may be
empty.

Properties: `OlderSettled` (in order, one at a time), `HolderInSync` (the copy the
lock holder works from is the row), `IdempotentAccept`, `AppliedIsPersisted` (only
persisted digests run), `ResolvedOnce`, `SettledStays` (ended rows stay ended),
`RecoveryTargetHealthy`, `NoOrphanRecovery`, `StatusAgrees`, `HealthyRunsRelease`,
`RecoveredRunsTarget`, `CancelledWaitingEnds`, and refinement of `ReleaseHistory`,
with its fairness too: in the fair history every accepted release ends, so that is
what `ImplementsFairHistory` says of the rows. `TypeOK`, `StatusAgrees` and
`IdempotentAccept` are conjuncts of `IInv` and checked with it.

## 3. Invocations

One application. `inv[i]` is the receipt of invocation `i`, numbered by
`created_at`, the start of its transaction, so that an older receipt may appear
after a newer one; `lane[w]` the memory of a lane, with its copy of status and recorded
UID; `job[i]` the Kubernetes Job and `created[i]` how often one was created, which
also names its UID. Deployments are reduced to what the fence sees of them:
accepted, running under the lock, ended.

The create is two steps, `ArmCreate` (the last check) and `CreateLands` or
`CreateFails`. A lane that dies in between leaves its request in `flying`; it lands
or is lost later. Cleanup asks for no lease in the code, so a lane that lost its
session deletes Jobs too (`DeleteJob`), but cannot lift the fence (`Cleaned`).

Time appears only as the age of a finished receipt: *fresh* (under a minute),
*recent* (under ten), *old*. A create has a deadline of 30 s and a cleanup one of
15 s, so the minute outlasts both, one after the other; `MinutePasses` says so in its
guard. This is the timing assumption `JobFenced` rests on.

Properties: `OneActive`, `JobFenced` (whatever Job exists, a receipt holds up
deployments), `NeverRecreated`, `OutcomeStays`, `InvocationEnds`, `CleanupResumes`. The
last two exempt one state, `CleanupBlocked`: a Job under another UID than the recorded
one, which `validateInvocationJob` refuses to remove. It comes from a create that lands
after another lane has created, recorded and removed its own Job. The receipt keeps its
fence, and since it stays the first candidate, an invocation queued behind it is never
claimed (section 9).

## 4. Volume resize

One application whose services share one volume and are one workload. Claim 0 is
the first volume, claim `i` the copy that resize `i` makes. `resize[i]` is the row
of the journal, `rows` the deployments, `reserved` the charged claims, `lane[w]` a
lane with its copy of the journal; `pvc`, `content`, `svc`, `pod`, `helper` and
`quota` are Kubernetes. A write of the application is a number, and `content[c]` the
last one volume `c` holds, so a lost write shows.

`ClaimVolumeResize` takes the lock and reads the journal, `Check` is
`ResizeClaim.Check`, `Save` ends the pass. The objects that `PrepareVolumeResize`
settles have a pc each (`quota`, `claim`, `stop`, `drain`, `helper`, `report`); then
come `BeginCutover`, `DeployTarget`, `CutoverResult`; a failed or cancelled copy
goes through the removal of the helper, `ResumeResizeServices`, `ObserveHealth`,
`DeleteVolume`, `Reclaimed`. The four actions of users are `Retry`, `Cancel`, `Retain`
and `DeleteOriginal`. Deployments are `Accept`, `ResumeDeployment`, `DeployClaim`,
`DeployApply`, `DeployEnd`.

A request to Kubernetes is two steps, `Arm` (the check) and the action that lands
it. A lane that lost its session in between may still land it; `late` records that,
and `NothingLost`, `Charged`, `AllowanceBounded` and `CancelKnown` are about the
executions in which it has not happened. The exemption is needed: with two faults a
late request does break them, for the code cannot revoke a request it has sent. An update
that meets a newer resource version is refused (`fresh`, `Conflict`). A deletion names
the UID of the claim, and a claim created again under the same name has another one,
so a claim in `deleted` is not deleted again by a request that was checked before.

Properties: `NothingLost`, `OnlyUnusedDeleted`, `MaintenanceAlone`, `Charged`,
`AllowanceBounded`, `MaintenanceAdvances`, `CancelKnown`, and `CancelEnds`, which does
not hold.

Job invocations need no place here: `spec.ResizeVolume` refuses an application with
Job services.

## 5. Sandbox sessions

One application. `ses[s]` is a receipt, `outcome[s][q]` the record of a call,
`lane[w]` a reconciliation lane with the copy of the row it leased, `handler[h]` a call
in the API; `ns`, `policy`, `kernel` are the objects of the session and `code[s]` the requests
whose code runs in its pod. `dep` and `resize` are the pending deployment and the
maintenance of the application. Deadlines are flags that may be raised at any
moment, and must be for those that fairness names.

A lane's pass is `ClaimSession`, `Authority`, then either the start (`StartNamespace`,
`StartPolicy`, `StartPod`, each after `Arm`, the check of the lease), `ReadState` and
`SaveSessionRuntime`, or the cleanup (`CleanupPods`, `CleanupNamespace`,
`SessionCleaned`). A call is `ClaimSessionCall`, `ObserveBefore` (the last look at the
kernel), `CallSession` (the exec, whose guard in the pod compares its UID, `GuardPasses`),
`CodeEnds` (in the pod), `CallObserved`, `FinishSessionCall`; it may be cancelled, break, or lose its handler
while the code goes on.

Properties: `OneCall` (no two calls in a kernel, all in one pod), `NoReplay`,
`ToldComplete`, `OutcomeFinal`, `NeverRecreated`, `ClosedClean`, `DeployFenced` (with the
isolation of every kernel), `Limits`, `SessionsEnd`, `CallsSettle`. `late` has the same
meaning as above: `NeverRecreated`, `ClosedClean`, `Limits` and the part of `DeployFenced`
about kernels hold as long as no request has landed after its lease; the others do not
exempt it. A namespace made by a late request after the recorded one was deleted is
refused by every cleanup, on purpose: it may not be the session's. `SessionsEnd` and
`CallsSettle` leave exactly that state (`CleanupBlocked`) to the operator, as the code does.

## 6. Backups

`job[j]` is a row of `backup_jobs`, numbered by `created_at`, `artifact[j]` the state of
the artifact of a backup, `object[j]` what the bucket holds of it, `engine[j]` the
operation inside the database engine, `worker[w]` a backup loop and `remover[r]` a
retention pass or a delete handler. All jobs are of one application.

| action | code |
|---|---|
| `EnqueueBackup`, `QueueDueBackups`, `SaveBackupRestorePlan`, `AcceptBackupRestore`, `CancelBackupJob` | the transactions under lock 793044230, and one update (cancel) |
| `ClaimBackupJob` | reaping and claiming, under lock 793044231 |
| `FirstHeartbeat`, `WorkFails`, `FinishBackupJob` | `RunOnce` |
| `StreamDump`, `WriteManifest`, `FetchArchive`, `ApplyArchive` | `create`, `restore`, `withVerifiedArchive` |
| `StartEngine`, `SetBackupJobEngineRef`, `PollEngine`, `ConfirmObjects`, `CancelEngine`, `ReleaseBackupJobToEngine` | `engineCreate`, `engineRestore`, `engineCancel`, `park` |
| `ListExpired`, `AskDeletion`, `ClaimBackupArtifactDeletion`, `DeleteObjects`, `MarkBackupArtifactDeleted` | `retention`, `deleteBackupArtifact`, `DeleteArtifact` |
| `LeaseExpires`, `Crash`, `RemovalStops`, `Withdraw`, `StartVolumeResize` | a paused or dead loop, a lost removal, lost authority, maintenance |

The heartbeat goroutine has no step of its own. What it does is end the context of
the work once the lease cannot be renewed; `Failed` therefore calls an error a
cancellation in exactly the states where a heartbeat fails, work may still succeed
before the next one, and a loop that renews keeps its lease unless it is paused
(`LeaseExpires`, a fault). A review never expires here, which allows more than the
ten minutes of the code. `MaxEngineElapsed` is `Elapses`.

Properties: `ArtifactIntact`, `RestoreProtected`, `StartedOnce`, `WorkSettles`. The last
is `[]<>` of a state in which everything has ended; jobs end once and are finitely
many, so it is the end of each.

## 7. The runs

Distinct states are given for each instance; every run ends within five minutes on
two TLC workers.

| run | instance | shows |
|---|---|---|
| `resume` | 2 lanes, 1 revision, 2 services in a chain, 2 digests, 1 resume, 1 fault; 990 k states | persisted digests also from a lane that lost its lock, final outcomes, agreement of holder and row |
| `recovery` | 2 lanes, 2 revisions, 2 idempotency keys, 2 independent services, 1 fault; 694 k states | the inductive invariant of the proofs, order, recovery targets, no orphan recovery, what healthy and recovered mean, refinement of the history |
| `liveness` | 1 lane, 2 revisions, 1 fault; 106 k states | refinement of the fair history: every accepted release ends; one cancelled while it waits ends cancelled |
| `queue` | 2 lanes, 2 invocations, 1 fault; 2.3 M states | one active invocation |
| `invocation_ends` | 2 lanes, 2 invocations or 1 and a deployment, 1 fault; 100 k states | the fence covers every Job, no second Job, final outcomes, invocations and cleanups end unless a late Job blocks a cleanup |
| `resize_lanes` | 2 lanes, 1 resize, 2 revisions, 1 fault, claims bind on first use; 162 k states | no write lost, maintenance alone, charges, maintenance and cancellation advance |
| `resize_twice` | 1 lane, 2 resizes, 3 revisions, 2 writes, 1 fault; 377 k states | the allowance returns, only unused volumes are deleted |
| `session_lanes` | 2 lanes, 2 receipts of one owner or 1 receipt with a resize and a fault, 2 revisions; 1.2 M states | fence, identity, clean close, limits |
| `session_calls` | 1 lane, 1 handler, 1 session, 2 requests, 1 fault; 251 k states | one call, no replay, truthful and final outcomes, every session and call ends |
| `backups` | 2 loops, 1 remover, 2 jobs, 1 cancellation, 1 fault, retention of 1; 325 k states | artifacts, restores, single starts, every job ends |
| `resumed_healthy`, `cancel_unbound` | see *Findings* | violations |

**Bounds.** Two lanes are what a race or a takeover needs; a third lane only adds a
lane that waits for the lock. Two revisions give an older and a newer one, a
healthy and a failing one, and a recovery target; the proofs cover more. Two
services give a dependency and a partial failure. Two resizes make an original out
of a copy. Two backup jobs give a backup and its restore, a dump beside a parked
engine job, and, with a retention of 1, an expired artifact. One fault per run means
one lane fails at every possible point while another continues; `session_lanes`
combines neither fault nor resize with the second receipt (`SecondAlone`). In `recovery`
both lanes work until the fault, so a candidate list can go stale, and one lane at a time
afterwards (`SecondLane`). In `invocation_ends` the second invocation is combined neither
with the deployment nor with a cancellation, a revoked key or the end of the ten minutes
(`SecondAlone`). That constraint can only be left by steps without fairness, of callers
and of time, so no lane is ever stopped by it and the liveness shown is that of
executions in which those steps are not taken. At most three namespaces and three pods
are created for a session (`MaxUids`). The queue limits
are 2 in the instances and 20 (releases), 16 (invocations) or 64 (backups) in the
code; nothing depends on the number. Runs rest when no caller acts and every row
has ended, so deadlock is not an error in them. Symmetry is used only in runs that
check no liveness.

**Fairness.** Every lane is weakly fair: `Worker.Run` and `RunInvocations` loop until
shutdown, and every call they make has a deadline. `GhostExpires` is weakly fair:
PostgreSQL drops the session of a dead client. Job and flying requests
(`Outside`) are weakly fair: a Job has an active deadline and a request a timeout.
Two actions are strongly fair because the lane that loops disables them again and
again: `FailInvocation`, as `started_at` never moves and a lane that keeps looping
meets the deadline, and `MinutePasses`, as time passes. In `VolumeResize` pods start and stop,
claims bind and copies end (a copy has a deadline), and `Retry` is strongly fair:
`MaintenanceAdvances`, `CancelKnown` and `CancelEnds` are about a user who retries a
failed step as the docs tell them to. In `SandboxSessions` handlers run to their end
(every call has a timeout), leases and deadlines pass, and Kubernetes deletes what
it is asked to delete; kernels need not start and code need not end. In `Backups` the
engine need not end, but `Elapses` is strongly fair, since time passes while the job
is claimed and parked again and again, and so is `ListExpired`, since the pass
repeats every minute. Other callers and faults are never fair.
`MaxFaults` bounds the faults, so liveness is claimed for executions in which
faults stop.

**Mutants.** Every property of a passing run has a faulty variant of a mapped
definition next to it (`Faulty variant:` in the modules) under which TLC finds it
violated; `PROJECT.json` pairs them.

## 8. What is proved

Every theorem holds for all sets of lanes, services, keys, sessions and so on, and for
all bounds. The assumptions are those the modules name (`ConstantsAssumption`,
`InvocationsAssumption`, `VolumeResizeAssumption`, `SandboxSessionsAssumption`,
`BackupsAssumption`): bounds are naturals, what must exist once is not zero, and the
special values are none of the others. `DependsOn` is any function, also a cyclic one.

Each proof module has the same shape: definitions of `IInv` in named parts, a lemma
that `Init` implies it, a lemma per action that the action keeps it, and the theorems.
Before anything was proved TLC found no violation of `IInv` on the instances below or
on larger ones.

| module | theorems | properties of runs they state |
|---|---|---|
| `DeploymentsProofs` | `Inductive`, `TypeCorrect`, `RunsInOrder`, `HolderAgrees`, `AppliesPersisted`, `RecoversHealthy`, `RecoveriesEnd`, `ShowsLatest`, `AcceptsOnce`, `ResolvesOnce`, `SettledForGood`, `Refinement` | `IInv`, `OlderSettled`, `HolderInSync`, `AppliedIsPersisted`, `RecoveryTargetHealthy`, `NoOrphanRecovery`, `ResolvedOnce`, `SettledStays`, `ImplementsHistory` |
| `DeploymentsHealthProofs` | `ServicesInductive`, `HealthyIsHealthy`, `RecoveredIsRecovered` | `HealthyRunsRelease`, `RecoveredRunsTarget` |
| `InvocationsProofs` | `InvocationsInductive`, `AtMostOneActive`, `FenceHolds`, `OutcomeIsFinal`, `CreatedOnceRecorded` | `OneActive`, `JobFenced`, `OutcomeStays`, `NeverRecreated` |
| `VolumeResizeProofs` | `ResizeInductive`, `Alone`, `ChargedWhileThere`, `OneAllowance`, `KeepsWrites`, `DeletesUnused` | `MaintenanceAlone`, `Charged`, `AllowanceBounded`, `NothingLost`, `OnlyUnusedDeleted` |
| `SandboxSessionsProofs` | `SessionsInductive`, `RunsOnce`, `OneCallAtATime`, `SuccessOnRecord`, `RecordedStays`, `ClosedIsClean`, `DeploymentsFenced`, `WithinLimits`, `OutcomeIsFinal` | `NoReplay`, `OneCall`, `ToldComplete`, `NeverRecreated`, `ClosedClean`, `DeployFenced`, `Limits`, `OutcomeFinal` |
| `BackupsProofs` | `BackupsInductive`, `KeepsArtifacts`, `ProtectsRestores`, `StartsOnce` | `ArtifactIntact`, `RestoreProtected`, `StartedOnce` |

### Deployments

None of the safety properties is inductive by itself. Take `OlderSettled`: a lane
marks a row running long after it chose it, so one needs that every row older than
a lane's candidate has ended, from the moment it was chosen. That stays true
because new rows are newer than all others and only the latest row may be queued
again. `IInv` is the conjunction of

* `TypeOK`;
* `RowsOK`: rows exist up to `revision`; a row that has started has only ended rows
  before it; a succeeded row is resolved; a recovery has a target exactly if it was
  not skipped, and the target is the newest healthy older release;
* `LanesOK`: rows older than a lane's row have ended; the lock holder's copy is the
  row; whatever digest a lane carries, lock or no lock, is the persisted one; the
  release it would recover to is the healthy target of its row; a lane about to
  succeed has no recovery and carries its own revision;
* `AppliedIsPersisted`, `StatusAgrees`, `IdempotentAccept`.

Three lemmas carry most of the proof: `LaneMovesIInv` (a lane that changes only its
own memory), `LockMovesIInv` (a step that moves the lock) and `RowMovesIInv` (a step of
the lock holder on its own row, with what it must leave alone for the other lanes).
`QueuesIInv` is shared by acceptance and resume. `NewestRevision` gives the maximum
that `LastHealthyRelease` chooses. The action properties and the refinement follow from
one fact about a step, `RowHistory`, that says how the status and the digest of a
row may change. TLC checks `IInv` itself in the run `recovery`, and `TypeOK`,
`StatusAgrees` and `IdempotentAccept` as conjuncts of it.

What runs in the cluster needs more. `HealthyRunsRelease` and `RecoveredRunsTarget` are
false once a release was resumed (finding 1), so the theorems state them for every
state in which the release shown was never resumed (`ShownWhole`), however many
resumes other releases had; without resumes that is every state. `RInv` says

* of the lock holder: the services that are no longer waiting, in flight or failed
  run what it applies (`Wrote`), and all do when it is about to succeed;
* of a row that still runs although its recovery has succeeded (its lane died between
  the two commits): all services run the restored release;
* of the application: what the two properties say.

A service last written without the lock is exempt (`strays`). Such a write can happen
at any time, and the argument is that nothing else can: the only row that runs is the
lock holder's (`HolderAlone`), so while a release is shown healthy, or after its recovery,
no lane writes under the lock. TLC found `RInv` invariant on the instances of `resume`
and of `recovery` with one lane and one resume (13.8 M states).

### Invocations

`IInv` adds to the types that a Job, or a create in flight, belongs to a receipt that
holds up deployments, that a lane armed to create has an unrecorded *starting* receipt,
and, for each lane, how its copy of status and UID agrees with the receipt. The lanes
that still hold their lease agree exactly; the others only as far as a recorded outcome
never changes. `JobFenced` needs the window: a create in flight keeps its receipt
*fresh* once it has finished (`Open`), and a cleanup has seen the Job gone by the time
the receipt is older. The claim under the row lock and the exclusion of pending
deployments give `OneActive`. TLC: 2.3 M states of `queue`.

### Volume resize

`IInv` is `TypeOK` with `DbOK` (a resize that is not switched works on the claim of the
current revision, which is deployed and cannot be followed; replaced claims are never
named again by a pending row), `KubeOK` (a replaced claim is there until it is deleted;
as long as no request landed late, the pod runs on the current claim, that claim holds
everything written, and a finished copy is complete because nobody can write) and
`LanesOK`. The last has three levels. `PassOK` is true of any lane, with or without the
lock: a deletion it has armed aims at a claim that is still unused or already deleted.
`HoldOK` is true of the lock holder: its program point fits the phase. `HoldKube` is true
of it until a request lands late: what it saw of pods, quota and claims is still so.

`NothingLost` follows from `KubeOK`. `OnlyUnusedDeleted` has no exemption for late requests
and rests on `PassOK`: the phase *deleting original* is never left while its claim is
there, and a cancelled resize is recorded only when nobody is left to delete its
staging claim (`CancelledOK`). That is where the UID check matters: without it a late
deletion could hit the claim of a later attempt. TLC: 162 k and 377 k states of the two
runs, and partial searches of larger instances.

### Sandbox sessions

`IInv` is `RowsOK` and `CallsOK` (a session has one call at most; code in a pod belongs to
it or to a session that is closing; a handler's pod is the recorded one), `ObjectsAllOK`
and `LanesOK` (until a request lands late, objects have the recorded identity, a lane
that holds its lease has the identity of the row, and what it checked is still so), and
`FenceOK` (active sessions are finitely many, of distinct owners, within the limit, and
none while a deployment is pending). `NoReplay`, `OneCall` and `ToldComplete` rest on the
call token: it is taken before the code starts and is not given to another call while
the first handler may still start it. `Limits` is a cardinality argument from `FenceOK`:
kernels belong to sessions that are active. TLC: 251 k states of `session_calls`, 2.4 M of
`session_lanes` with all combinations.

### Backups

`IInv` relates a job, its lease, its artifact, its objects and its engine (`JobOK`); a loop
and the job it claimed, whether or not it still has the lease (`BusyOK`); a removal and
the artifact it marked (`RemovalOK`). `ClaimedOnce` and `OneSlot` say that a job is claimed
once without an engine reference and one such job runs at a time, which gives
`StartedOnce`: a job is only requeued with its reference. `ArtifactIntact` needs that an
old loop which was to stop the engine can never complete its job (`Hopeless`), and
`RestoreProtected` that an artifact can be marked only under the global lock that also
admits restores. TLC: 325 k states of `backups`, and 5.0 M of a larger instance.

### Only model-checked

Liveness: `CancelledWaitingEnds`, the fair part of `ImplementsFairHistory`,
`InvocationEnds`, `CleanupResumes`, `MaintenanceAdvances`, `CancelKnown`, `SessionsEnd`,
`CallsSettle`, `WorkSettles`. Reasoning about fairness needs ENABLED, which is out of the
prover's reach. No safety property of a run is left without a theorem.

## 9. Findings

1. `resumed_healthy`. Two services; the second revision fails on one of them before
   its workload is written, so its old pods stay healthy and `Observe` reports it
   ready. If another service failed too, a resume selects only that other one and
   the release ends *healthy* with a service still on the previous revision.
   `Observe` does not compare the release of a plain service.
2. `cancel_unbound`. A resize cancelled after its staging claim was created and
   before the copy pod mounts it: where claims bind on first use nothing will ever
   bind this one, `DeleteVolumes` refuses an unbound claim, every retry fails, and no
   deployment is accepted while the resize is cancelling.

`PROJECT.json` quotes the lines that promise otherwise.

**Other divergences seen while modelling.** No run of the project is about them; the
properties exempt or do not reach them.

* A recovery during a resumed deployment inherits `ResumeServices`
  (`worker.go:263,358-365`), rewrites only those services, and is recorded as having
  restored the previous release (`docs/engine-workflows.md:257-260`).
* A lane dies with a Job create in flight; another lane creates, records and deletes
  its own Job; then the first create lands. `validateInvocationJob`
  (`cluster/invocations.go:63-65`) refuses the Job on every pass, so the fence against
  deployments is never lifted, and the receipt stays the only active candidate
  (`store/invocations.go:223-248`), so no invocation queued behind it is ever claimed
  (`api/invocation_worker.go:59-60` speaks of this case). `CleanupBlocked` exempts it.
* The UID of a staging claim is saved at the end of the pass that creates it. If the
  process dies or the reply is lost, and the user cancels before another pass,
  `CheckResizeClaim` compares with an empty UID on every retry (`volume_resize.go:358`).
* An error before `Deploy` in phase *switching* leaves the row of the switch running;
  *Keep both* (`volume_resizes.go:251-255`) does not end it, Claim never takes it and
  the cancel handler refuses it, so every later release waits
  (`docs/volume-resizing.md:27`).
* A failed switch that was kept can be resumed (`deployment_resume.go:106`), and the
  queued row is then one that no worker claims (`operations.go:384`).
* The switch of a resize rolls out a revision without `fenceSessionsForDeployment`
  (`volume_resizes.go:382`), so an active session loses its kernel
  (`sandbox_sessions_test.go:103`: "deployment overtook session").
* `ClaimBackupJob` takes the oldest claimable job (`backup_worker.go:60`). A parked engine
  job is claimable on every tick, so a single loop polls it again and again while
  younger dumps wait, up to the two hours of `MaxEngineElapsed`; `docs/backups.md:133-136`
  says it "does not block other backups, restores or workspaces".
* A cancellation that is recorded between the claim of a parked engine job and its
  first heartbeat, or an unanswered first heartbeat, ends the job as cancelled
  without `engineCancel` (`service.go:121-140`), and the objects stay
  (`docs/backups.md:179-181`).
* `StartVolumeResize` waits only for running jobs (`volume_resizes.go:149`): a parked
  engine job is *queued*, and its engine keeps working during the resize.

## 10. Not modelled

In `Deployments`: the gate of Claim on active invocations and sandbox sessions (it is
in `Invocations` and `SandboxSessions`); its limit of 16 candidates over all
applications; the limit of four services in flight; applications without services;
deployment jobs, Actions drains, previews, quotas, domains and storage reservations,
which refuse a request before the modelled state changes; the content of Kubernetes
objects.

In `Invocations`: input validation, encryption, logs, the limits per owner and per
application, several services; resumes of a deployment; the time between the delete
of a Job and its disappearance, in which its name stays taken.

In `VolumeResize`: several services with volumes of their own, the choice of the
size, the files of the copy (one step that succeeds or fails), the phases of a
recovery inside the switch.

In `SandboxSessions`: templates and pod validation, stream and output limits, pruning
of receipts that were closed a day ago.

In `Backups`: managed databases with their maintenance and cold-storage fences,
archive imports, destinations, edits of schedules, jobs older than 90 days,
compatibility of a restore with its target. Jobs of several applications share the
streaming slot; a second application would differ only in not being held by the
resize.

Beyond them, the parts that section 1 lists after backups. Most of the repository's
lines are there, in code whose control is rendering objects for third-party
controllers and polling them (managed databases and platforms), parsing and
validating (the application spec), serving pages and streams (web, logs, CLI), or
tied to a provider's webhooks (Actions): each would need a model of the outside
system that this source does not determine.

## 11. Plan

1. *Done*: `ReleaseHistory`, `Deployments`, `Invocations`, `VolumeResize`,
   `SandboxSessions`, `Backups`, their runs, and proofs of every safety property the
   runs check.
2. An abstract specification of the fence (one long operation of an application at a
   time), which the deployments of `Invocations` and `SandboxSessions` implement, with
   a proof like `Refinement`.
3. The safety half of the liveness properties: from which states an operation can
   still end, as invariants.
4. Previews, retained storage and service volume cleanup against a running
   deployment.

---------------------------- MODULE Deployments ----------------------------
(***************************************************************************)
(* The durable release lifecycle of ONE application.                       *)
(*                                                                         *)
(* PostgreSQL rows (internal/store): the application row (revision,        *)
(* status) and its deployment rows, one per accepted revision.  A worker   *)
(* (internal/worker) claims the oldest pending row under a session-level   *)
(* advisory lock of the application, resolves its images once, writes its  *)
(* services to Kubernetes (internal/cluster) one checked step at a time,   *)
(* and commits the outcome on the very session that holds the lock.        *)
(*                                                                         *)
(* A worker may lose its session without noticing (the server drops the    *)
(* lock while the worker still runs), crash (its session lingers as a      *)
(* Ghost until the server notices), or give up on a database error.        *)
(* Operations on other applications touch other rows and other locks.      *)
(***************************************************************************)
EXTENDS Integers, FiniteSets

CONSTANTS
    Workers,        \* deployment lanes of all worker processes
    Services,       \* services of the application (the same in every revision)
    DependsOn,      \* [Services -> SUBSET Services], the depends_on of the spec
    Digests,        \* what a mutable image tag may resolve to
    Keys,           \* API keys that may act on the application
    IdemKeys,       \* Idempotency-Key values of callers
    MaxRevision,    \* bound on accepted revisions
    MaxPending,     \* queue limit of one application (20 in the code)
    MaxResumes,     \* bound on same-revision resumes
    MaxFaults,      \* bound on crashes, lost sessions and abandoned claims
    NoOne, Ghost,   \* lock states: free, held by the session of a dead worker
    Null

Revisions == 1..MaxRevision
Release == [rev : Revisions, digest : Digests]
Pending == {"queued", "running"}
Terminal == {"succeeded", "failed", "cancelled"}
RecoveryStates == {"", "running", "succeeded", "failed", "skipped"}
\* Program points of a lane between two effects another actor can see.
PCs == {"idle", "candidate", "locked", "claimed", "resolve", "deploy",
        "recover", "finish", "release"}
\* Points at which the lane has read the row it claimed.
Executing == {"claimed", "resolve", "deploy", "recover", "finish"}
Causes == {"", "cancelled", "authority", "database", "timeout"}

ASSUME ConstantsAssumption ==
    /\ MaxRevision \in Nat /\ MaxPending \in Nat
    /\ MaxResumes \in Nat /\ MaxFaults \in Nat
    /\ DependsOn \in [Services -> SUBSET Services]
    /\ NoOne \notin Workers /\ Ghost \notin Workers /\ NoOne # Ghost
    /\ Null \notin Digests /\ Null \notin Keys /\ Null \notin IdemKeys
    /\ Null \notin Release

VARIABLES
    revision,   \* applications.revision
    appStatus,  \* applications.status
    deps,       \* the deployment rows, indexed by their revision
    lock,       \* holder of the application's advisory lock (namespace 3)
    live,       \* keys that Reauthorize still accepts
    cluster,    \* what Kubernetes runs for each service, and whether it is ready
    job,        \* the state of each deployment lane
    strays,     \* history: services last written by a lane without the lock
    faults      \* number of faults so far

vars == <<revision, appStatus, deps, lock, live, cluster, job, strays, faults>>

Row == [status : {"absent"} \cup Pending \cup Terminal,
        key : Keys \cup {Null}, idem : IdemKeys \cup {Null},
        resolved : Digests \cup {Null}, cancel : BOOLEAN,
        recovery : RecoveryStates, recSpec : Release \cup {Null},
        gen : 0..MaxResumes, only : SUBSET Services,
        resumeIdems : SUBSET IdemKeys,
        attempt : SUBSET Services, ready : SUBSET Services]

Absent == [status |-> "absent", key |-> Null, idem |-> Null,
           resolved |-> Null, cancel |-> FALSE,
           recovery |-> "", recSpec |-> Null,
           gen |-> 0, only |-> {}, resumeIdems |-> {},
           attempt |-> {}, ready |-> {}]

\* A lane's claim: the copy of the row it read, the release it is applying,
\* the services still to start, in flight and failed, and why its context ended.
Lane == [pc : PCs, rev : 0..MaxRevision, key : Keys \cup {Null},
         cancel : BOOLEAN, only : SUBSET Services,
         spec : Release \cup {Null}, prev : Release \cup {Null},
         recovery : RecoveryStates, recSpec : Release \cup {Null},
         todo : SUBSET Services, armed : SUBSET Services,
         bad : SUBSET Services, ready : SUBSET Services,
         cause : Causes, outcome : Terminal \cup {""}]

Idle == [pc |-> "idle", rev |-> 0, key |-> Null, cancel |-> FALSE,
         only |-> {}, spec |-> Null, prev |-> Null, recovery |-> "",
         recSpec |-> Null, todo |-> {}, armed |-> {}, bad |-> {},
         ready |-> {}, cause |-> "", outcome |-> ""]

TypeOK ==
    /\ revision \in 0..MaxRevision
    /\ appStatus \in {"pending", "queued", "healthy", "recovered", "failed", "cancelled"}
    /\ deps \in [Revisions -> Row]
    /\ lock \in Workers \cup {NoOne, Ghost}
    /\ live \subseteq Keys
    /\ cluster \in [Services -> [rel : Release \cup {Null}, ok : BOOLEAN]]
    /\ job \in [Workers -> Lane]
    /\ strays \subseteq Services
    /\ faults \in 0..MaxFaults

Init ==
    /\ revision = 0
    /\ appStatus = "pending"
    /\ deps = [r \in Revisions |-> Absent]
    /\ lock = NoOne
    /\ live = Keys
    /\ cluster = [s \in Services |-> [rel |-> Null, ok |-> FALSE]]
    /\ job = [w \in Workers |-> Idle]
    /\ strays = {}
    /\ faults = 0

-----------------------------------------------------------------------------
(* Callers of the API.                                                     *)

PendingRevisions == {r \in Revisions : deps[r].status \in Pending}

\* No deployment was accepted with this idempotency key.
FreshIdem(i) == \A r \in Revisions : deps[r].idem # i

\* The insert of acceptGuarded: one transaction, serialized per idempotency key
\* and per application.  A replayed key returns the old row or a conflict and
\* changes nothing.  The caller's expected revision must be the current one.
AcceptRow(k, i, expected, seed) ==
    /\ k \in live
    /\ FreshIdem(i)
    /\ expected = revision
    /\ Cardinality(PendingRevisions) < MaxPending
    /\ revision < MaxRevision
    /\ revision' = expected + 1
    /\ deps' = [deps EXCEPT ![expected + 1] =
                  [Absent EXCEPT !.status = "queued", !.key = k, !.idem = i,
                                 !.resolved = seed]]
    /\ appStatus' = "queued"
    /\ UNCHANGED <<lock, live, cluster, job, strays, faults>>

Accept(k, i, expected) == AcceptRow(k, i, expected, Null)

\* Rollback accepts a new revision seeded with the digests of a succeeded one.
AcceptRollback(k, i, expected, r) ==
    /\ deps[r].status = "succeeded"
    /\ deps[r].resolved # Null
    /\ AcceptRow(k, i, expected, deps[r].resolved)

\* The cancel handler.
Cancel(r) ==
    /\ deps[r].status \in Pending
    /\ deps' = [deps EXCEPT ![r].cancel = TRUE]
    /\ UNCHANGED <<revision, appStatus, lock, live, cluster, job, strays, faults>>

\* A key is revoked or expires.
Revoke(k) ==
    /\ k \in live
    /\ live' = live \ {k}
    /\ UNCHANGED <<revision, appStatus, deps, lock, cluster, job, strays, faults>>

\* The services ResumeDeployment selects: those whose recorded status is not a
\* good one, and everything that depends on a selected service.
ResumeSelection(ready) ==
    {s \in Services :
        \A C \in SUBSET Services :
            (/\ Services \ ready \subseteq C
             /\ \A t \in Services : DependsOn[t] \cap C # {} => t \in C)
            => s \in C}

\* Faulty variant: a cancelled release may be resumed too.
ResumableCancelled(r) ==
    /\ deps[r].status \in {"failed", "cancelled"} /\ r = revision
    /\ deps[r].resolved # Null /\ deps[r].recovery = ""
    /\ deps[r].attempt # {}

\* Only the latest partially failed unrecovered revision can resume.
Resumable(r) ==
    /\ deps[r].status = "failed" /\ r = revision
    /\ deps[r].resolved # Null /\ deps[r].recovery = ""
    /\ deps[r].attempt # {}

\* Faulty variant: a resume resolves the images again.
RequeuedUnresolved(d, k, i) ==
    [d EXCEPT !.status = "queued", !.cancel = FALSE, !.resolved = Null,
              !.gen = @ + 1, !.key = k, !.only = ResumeSelection(d.ready),
              !.resumeIdems = @ \cup {i}]

\* The row of a resumed deployment.
Requeued(d, k, i) ==
    [d EXCEPT !.status = "queued", !.cancel = FALSE,
              !.recovery = "", !.recSpec = Null,
              !.gen = @ + 1, !.key = k, !.only = ResumeSelection(d.ready),
              !.resumeIdems = @ \cup {i}]

ResumeDeployment(k, i, r) ==
    /\ k \in live
    /\ \A q \in Revisions : i \notin deps[q].resumeIdems
    /\ Resumable(r)
    /\ ResumeSelection(deps[r].ready) # {}
    /\ deps[r].gen < MaxResumes
    /\ deps' = [deps EXCEPT ![r] = Requeued(deps[r], k, i)]
    /\ appStatus' = "queued"
    /\ UNCHANGED <<revision, lock, live, cluster, job, strays, faults>>

-----------------------------------------------------------------------------
(* Claim: read the candidates, try the lock, mark the row running.         *)

\* Faulty variant: any pooled connection will do.
AnyConnection(w) == w \in Workers
\* The lane's own session still holds the application lock.  Statements of the
\* claim run on that session, so without it they fail.
OnLockSession(w) == lock = w

\* Faulty variants: older rows are ignored; rows left running are ignored.
AnyPending(r) == r \in PendingRevisions
OldestQueued(r) == r \in PendingRevisions /\ deps[r].status = "queued"
                   /\ \A q \in PendingRevisions : r <= q
\* The row the candidate query finds: queued, or left running by a dead worker,
\* with no older pending row.
Candidate(r) == r \in PendingRevisions /\ \A q \in PendingRevisions : r <= q

\* Candidates are read before the lock is tried; the list may be stale.
ReadCandidates(w) ==
    /\ job[w].pc = "idle"
    /\ \E r \in Revisions :
         /\ Candidate(r)
         /\ job' = [job EXCEPT ![w].pc = "candidate", ![w].rev = r]
    /\ UNCHANGED <<revision, appStatus, deps, lock, live, cluster, strays, faults>>

TryLock(w) ==
    /\ job[w].pc = "candidate"
    /\ \/ /\ lock = NoOne
          /\ lock' = w
          /\ job' = [job EXCEPT ![w].pc = "locked"]
       \/ /\ lock # NoOne
          /\ job' = [job EXCEPT ![w] = Idle]
          /\ UNCHANGED lock
    /\ UNCHANGED <<revision, appStatus, deps, live, cluster, strays, faults>>

\* UPDATE ... SET status='running' WHERE status IN ('queued','running'), which
\* also reads the row into the claim.
MarkRunning(w) ==
    LET r == job[w].rev  d == deps[r] IN
    /\ job[w].pc = "locked"
    /\ OnLockSession(w)
    /\ \/ /\ d.status \in Pending
          /\ deps' = [deps EXCEPT ![r].status = "running"]
          /\ job' = [job EXCEPT ![w] =
               [job[w] EXCEPT !.pc = "claimed", !.key = d.key, !.cancel = d.cancel,
                         !.only = d.only, !.recovery = d.recovery,
                         !.recSpec = d.recSpec,
                         !.spec = IF d.resolved = Null THEN Null
                                  ELSE [rev |-> r, digest |-> d.resolved]]]
       \/ /\ d.status \notin Pending
          /\ job' = [job EXCEPT ![w].pc = "release"]
          /\ UNCHANGED deps
    /\ UNCHANGED <<revision, appStatus, lock, live, cluster, strays, faults>>

-----------------------------------------------------------------------------
(* Worker.run                                                              *)

\* Faulty variant: any ended release counts as healthy.
Ended(r) == {q \in Revisions : q < r /\ deps[q].status \in Terminal
                                     /\ deps[q].resolved # Null}
\* The succeeded resolved revisions older than r; the newest is LastHealthyRelease.
Healthy(r) == {q \in Revisions : q < r /\ deps[q].status = "succeeded"
                                       /\ deps[q].resolved # Null}

LastHealthyRelease(r) ==
    IF Healthy(r) = {} THEN Null
    ELSE LET q == CHOOSE q \in Healthy(r) : \A p \in Healthy(r) : p <= q
         IN [rev |-> q, digest |-> deps[q].resolved]

\* The services one deploy attempt works on: a resumed deployment carries its
\* selection, and so does its recovery, because both share the same target.
Selected(w) == IF job[w].only = {} THEN Services ELSE job[w].only

\* Faulty variant: a cancellation recorded before the claim is ignored.
Unauthorized(j) == j.key \notin live
\* The key was revoked, or the row was cancelled before it was claimed.
MayNotRun(j) == j.key \notin live \/ j.cancel

\* run up to the start of the guard: look up the last healthy release, authorize
\* the key, honour a cancellation recorded before the claim.
Authorize(w) ==
    /\ job[w].pc = "claimed"
    /\ job' = [job EXCEPT ![w] =
         IF MayNotRun(job[w])
         THEN [job[w] EXCEPT !.pc = "finish", !.outcome = "cancelled"]
         ELSE [job[w] EXCEPT !.pc = "resolve", !.prev = LastHealthyRelease(job[w].rev)]]
    /\ UNCHANGED <<revision, appStatus, deps, lock, live, cluster, strays, faults>>

\* Where run goes once the release is resolved: on with a recovery that was
\* begun, to the final commit if the recovery had ended, else to the deploy.
Dispatch(j, rel) ==
    CASE j.recovery = ""        -> [j EXCEPT !.pc = "deploy", !.spec = rel,
                                             !.todo = IF j.only = {} THEN Services ELSE j.only]
      [] j.recovery = "running" -> [j EXCEPT !.pc = "recover", !.spec = j.recSpec,
                                             !.todo = IF j.only = {} THEN Services ELSE j.only]
      [] OTHER                  -> [j EXCEPT !.pc = "finish", !.spec = rel,
                                             !.outcome = "failed",
                                             !.bad = deps[j.rev].attempt,
                                             !.ready = deps[j.rev].ready]

AlreadyResolved(w) ==
    /\ job[w].pc = "resolve" /\ job[w].spec # Null
    /\ job' = [job EXCEPT ![w] = Dispatch(job[w], job[w].spec)]
    /\ UNCHANGED <<revision, appStatus, deps, lock, live, cluster, strays, faults>>

\* SetResolved on the lock session: the value already persisted wins, and the
\* lane goes on with what the statement returns, not with its local result.
SetResolved(w, digest) ==
    LET r == job[w].rev  d == deps[r]
        persisted == IF d.resolved = Null THEN digest ELSE d.resolved IN
    /\ job[w].pc = "resolve" /\ job[w].spec = Null /\ job[w].cause = ""
    /\ OnLockSession(w)
    /\ deps[r].status = "running"
    /\ deps' = [deps EXCEPT ![r].resolved = persisted]
    /\ job' = [job EXCEPT ![w] = Dispatch(job[w], [rev |-> r, digest |-> persisted])]
    /\ UNCHANGED <<revision, appStatus, lock, live, cluster, strays, faults>>

\* handleFailure: a lost database or claim leaves the row running for the next
\* claim; a cancellation or a revoked key ends it cancelled; all else failed.
HandleFailure(j) ==
    CASE j.cause = "database"                   -> [j EXCEPT !.pc = "release"]
      [] j.cause \in {"cancelled", "authority"} -> [j EXCEPT !.pc = "finish",
                                                             !.outcome = "cancelled"]
      [] OTHER                                  -> [j EXCEPT !.pc = "finish",
                                                             !.outcome = "failed"]

ResolveFails(w) ==
    /\ job[w].pc = "resolve" /\ job[w].spec = Null
    /\ job' = [job EXCEPT ![w] = HandleFailure(job[w])]
    /\ UNCHANGED <<revision, appStatus, deps, lock, live, cluster, strays, faults>>

\* The guard goroutine, once a second: the lock session, then the key, then
\* cancel_requested.  The first cause stays.
GuardVerdict(w) ==
    CASE lock # w                   -> "database"
      [] job[w].key \notin live     -> "authority"
      [] deps[job[w].rev].cancel    -> "cancelled"
      [] OTHER                      -> ""

Guard(w) ==
    /\ job[w].pc \in {"resolve", "deploy", "recover"}
    /\ job[w].cause = "" /\ GuardVerdict(w) # ""
    /\ job' = [job EXCEPT ![w].cause = GuardVerdict(w)]
    /\ UNCHANGED <<revision, appStatus, deps, lock, live, cluster, strays, faults>>

\* The operation deadline passes.
Timeout(w) ==
    /\ job[w].pc \in {"resolve", "deploy", "recover"} /\ job[w].cause = ""
    /\ job' = [job EXCEPT ![w].cause = "timeout"]
    /\ UNCHANGED <<revision, appStatus, deps, lock, live, cluster, strays, faults>>

-----------------------------------------------------------------------------
(* Cluster.Deploy, service by service.                                     *)

Working(w) == job[w].pc \in {"deploy", "recover"}
Done(w) == Selected(w) \ (job[w].todo \cup job[w].armed \cup job[w].bad)
\* Faulty variant: services not yet started are not waited for.
NoneInFlight(w) == job[w].armed = {}
\* Every selected service has been tried.
Tried(w) == job[w].todo = {} /\ job[w].armed = {}
\* Nothing has been tried yet: preflight, namespace and policies come first.
Untried(w) == job[w].todo = Selected(w)

\* BeforeStep: the last look before a service's workload is written.  A step
\* that passes is in flight until it lands or is lost.
StepVerdict(w) ==
    CASE job[w].key \notin live     -> "authority"
      [] deps[job[w].rev].cancel    -> "cancelled"
      [] lock # w                   -> "database"
      [] OTHER                      -> ""

BeforeStep(w, s) ==
    /\ Working(w) /\ s \in job[w].todo /\ job[w].cause = ""
    /\ DependsOn[s] \cap Selected(w) \subseteq Done(w)
    /\ job' = [job EXCEPT ![w] =
         IF StepVerdict(w) = ""
         THEN [job[w] EXCEPT !.todo = @ \ {s}, !.armed = @ \cup {s}]
         ELSE [job[w] EXCEPT !.cause = StepVerdict(w)]]
    /\ UNCHANGED <<revision, appStatus, deps, lock, live, cluster, strays, faults>>

\* The write reaches Kubernetes; the rollout becomes ready or it does not.
Land(w, s, ok) ==
    /\ Working(w) /\ s \in job[w].armed
    /\ cluster' = [cluster EXCEPT ![s] = [rel |-> job[w].spec, ok |-> ok]]
    /\ strays' = IF lock = w THEN strays \ {s} ELSE strays \cup {s}
    /\ job' = [job EXCEPT ![w] =
         [job[w] EXCEPT !.armed = @ \ {s}, !.bad = IF ok THEN @ ELSE @ \cup {s}]]
    /\ UNCHANGED <<revision, appStatus, deps, lock, live, faults>>

\* applyDeployment fails before it changes the workload (storage, secrets,
\* files, a refused or cancelled request): the service keeps what it ran.
Drop(w, s) ==
    /\ Working(w) /\ s \in job[w].armed
    /\ job' = [job EXCEPT ![w] =
         [job[w] EXCEPT !.armed = @ \ {s}, !.bad = @ \cup {s}]]
    /\ UNCHANGED <<revision, appStatus, deps, lock, live, cluster, strays, faults>>

\* A dependency failed: the service is recorded as failed and left unchanged.
Block(w, s) ==
    /\ Working(w) /\ s \in job[w].todo /\ DependsOn[s] \cap job[w].bad # {}
    /\ job' = [job EXCEPT ![w] =
         [job[w] EXCEPT !.todo = @ \ {s}, !.bad = @ \cup {s}]]
    /\ UNCHANGED <<revision, appStatus, deps, lock, live, cluster, strays, faults>>

\* The context of the attempt (its own deadline, or that of the operation) is
\* done while services wait: each of them fails without being started.
StageEnds(w) ==
    /\ Working(w) /\ job[w].todo # {}
    /\ job' = [job EXCEPT ![w] =
         [job[w] EXCEPT !.todo = {}, !.bad = @ \cup job[w].todo]]
    /\ UNCHANGED <<revision, appStatus, deps, lock, live, cluster, strays, faults>>

\* Services whose workload Observe reports ready, whatever release it runs.
Observed == {s \in Services : cluster[s].ok}

\* observationAfterFailure: what Observe reports, or nothing if that fails too.
Reports == {Observed, {}}

\* Deploy returns a progress error: run keeps the healthy services and records
\* the attempt so that the failed ones can be resumed.
DeployPartlyFailed(w) ==
    /\ job[w].pc = "deploy" /\ Tried(w) /\ job[w].bad # {}
    /\ \E report \in Reports :
         job' = [job EXCEPT ![w] = HandleFailure([job[w] EXCEPT !.ready = report])]
    /\ UNCHANGED <<revision, appStatus, deps, lock, live, cluster, strays, faults>>

\* Deploy returns nil: every service is ready at the final observation.
DeploySucceeds(w) ==
    /\ job[w].pc = "deploy" /\ Tried(w) /\ job[w].bad = {}
    /\ Observed = Services
    /\ job' = [job EXCEPT ![w] =
         IF job[w].cause = "" THEN [job[w] EXCEPT !.pc = "finish", !.outcome = "succeeded"]
         ELSE HandleFailure(job[w])]
    /\ UNCHANGED <<revision, appStatus, deps, lock, live, cluster, strays, faults>>

\* ErrNotApplied: preflight refuses, or the context is done before the first step.
NotApplied(w) ==
    /\ job[w].pc = "deploy" /\ Untried(w)
    /\ job' = [job EXCEPT ![w] = HandleFailure(job[w])]
    /\ UNCHANGED <<revision, appStatus, deps, lock, live, cluster, strays, faults>>

\* Deploy fails outside its services (namespace and policies before them,
\* cleanup and final observation after them) while the context is done.
DeployInterrupted(w) ==
    /\ job[w].pc = "deploy" /\ Tried(w) /\ job[w].bad = {} /\ job[w].cause # ""
    /\ job' = [job EXCEPT ![w] = HandleFailure(job[w])]
    /\ UNCHANGED <<revision, appStatus, deps, lock, live, cluster, strays, faults>>

\* The same failure with a live context: record a recovery to the last healthy
\* release, or that recovery is skipped (RecoveryBlocked), on the lock session.
BeginRecovery(w, skip) ==
    LET r == job[w].rev
        state == IF skip THEN "skipped" ELSE "running"
        target == IF skip THEN Null ELSE job[w].prev IN
    /\ job[w].pc = "deploy" /\ (Untried(w) \/ Tried(w)) /\ job[w].bad = {}
    /\ job[w].cause = ""
    /\ job[w].prev = Null => skip
    /\ OnLockSession(w)
    /\ deps[r].status = "running" /\ deps[r].recovery = ""
    /\ deps' = [deps EXCEPT ![r].recovery = state, ![r].recSpec = target]
    /\ job' = [job EXCEPT ![w] =
         IF skip
         THEN [job[w] EXCEPT !.recovery = state, !.pc = "finish", !.outcome = "failed",
                        !.todo = {}]
         ELSE [job[w] EXCEPT !.recovery = state, !.recSpec = target, !.pc = "recover",
                        !.spec = target, !.todo = Selected(w)]]
    /\ UNCHANGED <<revision, appStatus, lock, live, cluster, strays, faults>>

\* recoverRelease after its Deploy: with a live context the result is persisted
\* on the lock session before the deployment itself ends failed.
FinishRecovery(w, state) ==
    LET r == job[w].rev IN
    /\ job[w].pc = "recover" /\ job[w].cause = ""
    /\ \/ /\ state = "succeeded" /\ Tried(w) /\ job[w].bad = {} /\ Observed = Services
       \/ /\ state = "failed" /\ (Tried(w) \/ Untried(w))
    /\ OnLockSession(w)
    /\ deps[r].status = "running" /\ deps[r].recovery = "running"
    /\ deps' = [deps EXCEPT ![r].recovery = state, ![r].attempt = job[w].bad,
                            ![r].ready = Observed]
    /\ job' = [job EXCEPT ![w] =
         [job[w] EXCEPT !.recovery = state, !.pc = "finish", !.outcome = "failed",
                   !.todo = {}, !.ready = Observed]]
    /\ UNCHANGED <<revision, appStatus, lock, live, cluster, strays, faults>>

RecoveryInterrupted(w) ==
    /\ job[w].pc = "recover" /\ job[w].cause # "" /\ (Tried(w) \/ Untried(w))
    /\ job' = [job EXCEPT ![w] = [HandleFailure(job[w]) EXCEPT !.todo = {}, !.ready = Observed]]
    /\ UNCHANGED <<revision, appStatus, deps, lock, live, cluster, strays, faults>>

-----------------------------------------------------------------------------
(* Worker.finish and Release, on the lock session.                         *)

\* A recovery that is still running ends with the deployment.
StopRecovery(w) ==
    LET r == job[w].rev IN
    /\ job[w].pc = "finish" /\ job[w].recovery = "running"
    /\ job[w].outcome # "succeeded"
    /\ OnLockSession(w)
    /\ deps[r].status = "running" /\ deps[r].recovery = "running"
    /\ deps' = [deps EXCEPT ![r].recovery = "failed", ![r].attempt = job[w].bad,
                            ![r].ready = job[w].ready]
    /\ job' = [job EXCEPT ![w].recovery = "failed"]
    /\ UNCHANGED <<revision, appStatus, lock, live, cluster, strays, faults>>

FinishedStatus(status, recovery) ==
    CASE status = "succeeded"                           -> "healthy"
      [] status = "failed" /\ recovery = "succeeded"    -> "recovered"
      [] OTHER                                          -> status

\* Faulty variant: an older revision that ends overwrites the status.
StatusOfAny(r, status, recovery) ==
    IF r \in Revisions THEN FinishedStatus(status, recovery) ELSE "queued"
\* applications.status once revision r has ended.
StatusAfter(r, status, recovery) ==
    IF revision = r THEN FinishedStatus(status, recovery) ELSE "queued"

\* Faulty variant: a running recovery does not hold up the outcome.
RecoveryIgnored(j) == j \in Lane
\* finish ends a running recovery before it commits a failure.
RecoveryEnded(j) == j.recovery = "running" => j.outcome = "succeeded"

Finish(w) ==
    LET r == job[w].rev  status == job[w].outcome IN
    /\ job[w].pc = "finish"
    /\ RecoveryEnded(job[w])
    /\ OnLockSession(w)
    /\ deps[r].status = "running"
    /\ deps' = [deps EXCEPT ![r].status = status, ![r].attempt = job[w].bad,
                            ![r].ready = job[w].ready]
    /\ appStatus' = StatusAfter(r, status, job[w].recovery)
    /\ job' = [job EXCEPT ![w].pc = "release"]
    /\ UNCHANGED <<revision, lock, live, cluster, strays, faults>>

\* The deferred Release of the claim.
ReleaseClaim(w) ==
    /\ job[w].pc = "release"
    /\ lock' = IF lock = w THEN NoOne ELSE lock
    /\ job' = [job EXCEPT ![w] = Idle]
    /\ UNCHANGED <<revision, appStatus, deps, live, cluster, strays, faults>>

\* Any statement on a session that is gone fails; the lane returns.  So does a
\* SetResolved whose context was cancelled.
ClaimLost(w) ==
    /\ \/ job[w].pc \in {"locked", "finish"} /\ lock # w
       \/ /\ job[w].pc = "resolve" /\ job[w].spec = Null
          /\ lock # w \/ job[w].cause \in {"cancelled", "authority", "database"}
       \/ /\ job[w].pc \in {"deploy", "recover"} /\ lock # w
          /\ job[w].cause = "" /\ (Tried(w) \/ Untried(w))
          /\ job[w].pc = "deploy" => job[w].bad = {}
    /\ job' = [job EXCEPT ![w].pc = "release"]
    /\ UNCHANGED <<revision, appStatus, deps, lock, live, cluster, strays, faults>>

-----------------------------------------------------------------------------
(* Faults.                                                                 *)

\* The server ends the session, and with it the lock; the lane does not know.
SessionLost(w) ==
    /\ faults < MaxFaults /\ lock = w
    /\ lock' = NoOne /\ faults' = faults + 1
    /\ UNCHANGED <<revision, appStatus, deps, live, cluster, job, strays>>

\* The process dies; the server keeps its session until it notices.
Crash(w) ==
    /\ faults < MaxFaults /\ job[w].pc # "idle"
    /\ lock' = IF lock = w THEN Ghost ELSE lock
    /\ job' = [job EXCEPT ![w] = Idle]
    /\ faults' = faults + 1
    /\ UNCHANGED <<revision, appStatus, deps, live, cluster, strays>>

GhostExpires ==
    /\ lock = Ghost /\ lock' = NoOne
    /\ UNCHANGED <<revision, appStatus, deps, live, cluster, job, strays, faults>>

\* A database error outside the lock session, or a graceful shutdown, ends the
\* run and leaves the row running.
GiveUp(w) ==
    /\ faults < MaxFaults
    /\ job[w].pc \in Executing /\ job[w].armed = {}
    /\ job' = [job EXCEPT ![w].pc = "release"]
    /\ faults' = faults + 1
    /\ UNCHANGED <<revision, appStatus, deps, lock, live, cluster, strays>>

\* The deadline passes between resolving the images and persisting them; the
\* row is left running and claimed again.
ResolvedTooLate(w) ==
    /\ faults < MaxFaults
    /\ job[w].pc = "resolve" /\ job[w].spec = Null /\ job[w].cause = "timeout"
    /\ job' = [job EXCEPT ![w].pc = "release"]
    /\ faults' = faults + 1
    /\ UNCHANGED <<revision, appStatus, deps, lock, live, cluster, strays>>

-----------------------------------------------------------------------------
Caller ==
    \/ \E k \in Keys, i \in IdemKeys, e \in 0..MaxRevision :
         \/ Accept(k, i, e)
         \/ \E r \in Revisions : AcceptRollback(k, i, e, r)
    \/ \E k \in Keys, i \in IdemKeys, r \in Revisions : ResumeDeployment(k, i, r)
    \/ \E r \in Revisions : Cancel(r)
    \/ \E k \in Keys : Revoke(k)

ServiceStep(w) ==
    \E s \in Services :
        \/ BeforeStep(w, s)
        \/ \E ok \in BOOLEAN : Land(w, s, ok)
        \/ Drop(w, s)
        \/ Block(w, s)

LaneStep(w) ==
    \/ ReadCandidates(w) \/ TryLock(w) \/ MarkRunning(w)
    \/ Authorize(w) \/ AlreadyResolved(w) \/ ResolveFails(w)
    \/ \E digest \in Digests : SetResolved(w, digest)
    \/ Guard(w) \/ Timeout(w)
    \/ ServiceStep(w) \/ StageEnds(w)
    \/ DeployPartlyFailed(w) \/ DeploySucceeds(w) \/ NotApplied(w) \/ DeployInterrupted(w)
    \/ \E skip \in BOOLEAN : BeginRecovery(w, skip)
    \/ \E state \in {"succeeded", "failed"} : FinishRecovery(w, state)
    \/ RecoveryInterrupted(w)
    \/ StopRecovery(w) \/ Finish(w) \/ ReleaseClaim(w) \/ ClaimLost(w)

Fault ==
    \E w \in Workers : SessionLost(w) \/ Crash(w) \/ GiveUp(w) \/ ResolvedTooLate(w)

Next ==
    \/ Caller
    \/ \E w \in Workers : LaneStep(w)
    \/ GhostExpires
    \/ Fault

Spec == Init /\ [][Next]_vars

\* The lanes loop for ever and every call they make has a deadline; PostgreSQL
\* notices a dead client.
FairSpec ==
    /\ Spec
    /\ \A w \in Workers : WF_vars(LaneStep(w))
    /\ WF_vars(GhostExpires)

-----------------------------------------------------------------------------
(* Properties.                                                             *)

\* Releases run in the order they were accepted: while a row is running, every
\* older row has ended.  Claim reads its candidates before it takes the lock and
\* does not look for older rows again.
OlderSettled ==
    \A r \in Revisions : deps[r].status = "running" =>
        \A q \in Revisions : q < r => deps[q].status \in Terminal

\* What the lock holder remembers of its row is what the row says: the copy read
\* by Claim is never stale, so the commit of the outcome finds the row running.
HolderInSync ==
    \A w \in Workers : lock = w /\ job[w].pc \in Executing =>
        LET d == deps[job[w].rev] IN
        /\ d.status = "running"
        /\ d.recovery = job[w].recovery /\ d.recSpec = job[w].recSpec
        /\ d.only = job[w].only /\ d.key = job[w].key

\* Only digests that were persisted first ever reach Kubernetes, whoever wrote
\* them and whenever the write landed.
AppliedIsPersisted ==
    \A s \in Services : cluster[s].rel # Null =>
        deps[cluster[s].rel.rev].resolved = cluster[s].rel.digest

\* t is the newest release that succeeded before revision r, with the digests
\* it ran with.
HealthyTarget(t, r) ==
    /\ t.rev < r
    /\ deps[t.rev].status = "succeeded" /\ deps[t.rev].resolved = t.digest
    /\ \A q \in Revisions : t.rev < q /\ q < r => deps[q].status # "succeeded"

\* A recovery has a target, and it is the newest release that had succeeded
\* before the failed one: still so after crashes, and after the workers that
\* looked it up are gone.
RecoveryTargetHealthy ==
    \A r \in Revisions :
        /\ deps[r].recovery \notin {"", "skipped"} => deps[r].recSpec # Null
        /\ deps[r].recSpec # Null => HealthyTarget(deps[r].recSpec, r)

\* A deployment that has ended left no recovery running, in whatever way and
\* however often its workers were interrupted.
NoOrphanRecovery ==
    \A r \in Revisions : deps[r].status \in Terminal => deps[r].recovery # "running"

\* The status shown for the application is that of its latest revision.
StatusAgrees ==
    revision > 0 =>
        appStatus = IF deps[revision].status \in Pending THEN "queued"
                    ELSE FinishedStatus(deps[revision].status, deps[revision].recovery)

\* An idempotency key names at most one deployment.
IdempotentAccept ==
    \A q, r \in Revisions : deps[q].idem = deps[r].idem /\ deps[q].idem # Null => q = r

\* resolved_spec is written once: a resume, a retry or a second worker that
\* resolves the same tag again never changes it.
ResolvedOnce ==
    [][\A r \in Revisions : deps[r].resolved # Null =>
            deps'[r].resolved = deps[r].resolved]_vars

\* A deployment that has ended stays as it ended, except that the latest one,
\* failed and unrecovered, may be queued again; a late worker changes nothing.
SettledStays ==
    [][\A r \in Revisions : deps[r].status \in Terminal /\ deps'[r].status # deps[r].status =>
            /\ deps[r].status = "failed" /\ deps[r].recovery = ""
            /\ deps'[r].status = "queued"
            /\ r = revision]_vars

\* A release reported healthy runs on every service, but for the services that
\* a worker without the lock wrote last.
HealthyRunsRelease ==
    appStatus = "healthy" =>
        \A s \in Services \ strays :
            cluster[s].rel = [rev |-> revision, digest |-> deps[revision].resolved]

\* An application reported recovered runs the restored release on every service,
\* with the same exception.
RecoveredRunsTarget ==
    appStatus = "recovered" =>
        \A s \in Services \ strays : cluster[s].rel = deps[revision].recSpec

\* A deployment cancelled while it waits ends cancelled.
CancelledWaitingEnds ==
    \A r \in Revisions :
        deps[r].status = "queued" /\ deps[r].cancel ~> deps[r].status = "cancelled"

-----------------------------------------------------------------------------
(* The abstract specification this one implements.                         *)

History == INSTANCE ReleaseHistory WITH
    accepted <- revision,
    state <- [r \in Revisions |-> deps[r].status]

\* The rows behave as the release history promised to callers: in order, one at
\* a time, one outcome per run.
ImplementsHistory == History!HistorySpec

\* ... and every accepted revision is eventually started and ended.
ImplementsFairHistory == History!HistoryFairSpec
=============================================================================

------------------------------ MODULE Backups ------------------------------
(***************************************************************************)
(* Backup and restore jobs, the artifacts they record and the objects the  *)
(* artifacts stand for.                                                    *)
(*                                                                         *)
(* A job is queued by an administrator or a schedule (internal/store/      *)
(* backups.go), claimed under a lease by the backup loop of a management   *)
(* process (internal/store/backup_worker.go, internal/backup/service.go)   *)
(* and ends once.  A dump streams through the process; an engine backup or *)
(* restore is started in the database engine, parked in 'queued' with the  *)
(* engine's reference and polled by later claims.  Artifacts are removed   *)
(* by the retention pass or by an API handler in several steps.            *)
(*                                                                         *)
(* A loop may die, be paused past its lease, or fail to reach the          *)
(* database.  All jobs are of one application, which a volume resize may   *)
(* hold.  Databases with a cold-storage fence, managed databases, archive  *)
(* imports and destinations are left out.                                  *)
(***************************************************************************)
EXTENDS Integers, FiniteSets, FiniteSetsExt

CONSTANTS
    Workers,        \* the backup loops of all management processes
    Removers,       \* retention passes and delete handlers
    MaxJobs,        \* bound on the jobs ever queued
    ByHand,         \* the backups administrators ask for: by the engine or not
    BySchedule,     \* the backups of the schedule: by the engine or not
    QueueLimit,     \* active jobs allowed (64 in the code)
    Retention,      \* retention_count of the schedule
    MaxCancels,     \* bound on cancelled jobs
    MaxFaults,      \* bound on dead or paused loops, lost answers, withdrawn
                    \* authority and resizes
    NoOne           \* no loop holds the lease; a lease whose loop is gone

Jobs == 1..MaxJobs          \* in the order of created_at
Ended == {"succeeded", "failed", "cancelled"}
Active == {"queued", "running"}

ASSUME BackupsAssumption ==
    /\ MaxJobs \in Nat /\ QueueLimit \in Nat
    /\ MaxCancels \in Nat /\ MaxFaults \in Nat
    /\ ByHand \subseteq BOOLEAN /\ BySchedule \subseteq BOOLEAN
    /\ Retention \in Nat \ {0} /\ NoOne \notin Workers

VARIABLES
    job,        \* the rows of backup_jobs
    artifact,   \* the row of backup_artifacts of each backup job
    object,     \* what object storage holds of each backup
    engine,     \* the engine's operation for each engine job; "overdue" once
                \* the job has waited for MaxEngineElapsed, whatever became of it
    started,    \* history: streams, engine operations and restores begun per job
    review,     \* artifacts with an unused restore review
    allowed,    \* the jobs' identity is still an administrator
    resize,     \* a volume resize holds the application
    worker,     \* the state of each backup loop
    remover,    \* the state of each removal
    faults      \* number of faults and interruptions so far

vars == <<job, artifact, object, engine, started, review, allowed, resize,
          worker, remover, faults>>

\* `of` is the artifact a restore reads, 0 for a backup; `expired` whether
\* lease_until has passed; `ref` whether engine_ref is recorded.
Row == [status : {"absent"} \cup Active \cup Ended, engine : BOOLEAN,
        of : 0..MaxJobs, scheduled : BOOLEAN, cancel : BOOLEAN, ref : BOOLEAN,
        lease : Workers \cup {NoOne}, expired : BOOLEAN]
NoRow == [status |-> "absent", engine |-> FALSE, of |-> 0, scheduled |-> FALSE,
          cancel |-> FALSE, ref |-> FALSE, lease |-> NoOne, expired |-> FALSE]

\* cancel and ref are the claimed row's.
Loop == [pc : {"idle", "claimed", "work", "uploaded", "verified", "accepted",
               "park", "confirm", "finish"},
         job : 0..MaxJobs, cancel : BOOLEAN, ref : BOOLEAN,
         outcome : {"none"} \cup Ended]
Idle == [pc |-> "idle", job |-> 0, cancel |-> FALSE, ref |-> FALSE,
         outcome |-> "none"]

Removal == [pc : {"idle", "claim", "objects", "manifest", "mark"},
            art : 0..MaxJobs]
NoRemoval == [pc |-> "idle", art |-> 0]

Init ==
    /\ job = [j \in Jobs |-> NoRow]
    /\ artifact = [j \in Jobs |-> "none"]
    /\ object = [j \in Jobs |-> "none"]
    /\ engine = [j \in Jobs |-> "idle"]
    /\ review = {}
    /\ started = [j \in Jobs |-> 0]
    /\ allowed = TRUE /\ resize = FALSE
    /\ worker = [w \in Workers |-> Idle]
    /\ remover = [r \in Removers |-> NoRemoval]
    /\ faults = 0

-----------------------------------------------------------------------------
(* Accepting jobs.  Every operation of this section is a transaction under *)
(* the advisory lock 793044230, but for the cancellation, which is one     *)
(* update of the row.                                                      *)

ActiveJobs == {j \in Jobs : job[j].status \in Active}

\* A restore of the artifact is queued or running.
InUse(a) == \E j \in ActiveJobs : job[j].of = a

\* The queue has room and `row` becomes the newest job.
Enqueued(row) ==
    /\ allowed /\ Cardinality(ActiveJobs) < QueueLimit
    /\ \E j \in Jobs :
         /\ job[j].status = "absent"
         /\ \A i \in 1..(j - 1) : job[i].status # "absent"
         /\ job' = [job EXCEPT ![j] = row]

\* EnqueueBackup: a dump, or a backup the engine performs itself.
EnqueueBackup(byEngine) ==
    /\ Enqueued([NoRow EXCEPT !.status = "queued", !.engine = byEngine])
    /\ UNCHANGED <<artifact, object, engine, started, review, allowed, resize,
                   worker, remover, faults>>

\* QueueDueBackups for a due schedule: one active job per schedule; a full
\* queue waits, and without its identity's authority the schedule is disabled.
QueueDueBackups(byEngine) ==
    /\ \A j \in ActiveJobs : ~job[j].scheduled
    /\ Enqueued([NoRow EXCEPT !.status = "queued", !.engine = byEngine,
                              !.scheduled = TRUE])
    /\ UNCHANGED <<artifact, object, engine, started, review, allowed, resize,
                   worker, remover, faults>>

\* SaveBackupRestorePlan: an artifact that is there may be reviewed (while
\* MaxJobs leaves room for the restore).
SaveBackupRestorePlan(a) ==
    /\ artifact[a] = "live" /\ allowed /\ a \notin review
    /\ job[MaxJobs].status = "absent"
    /\ review' = review \cup {a}
    /\ UNCHANGED <<job, artifact, object, engine, started, allowed, resize,
                   worker, remover, faults>>

\* Faulty variant: the review is taken as proof that the artifact is there.
Reviewed(a) == TRUE

\* The artifact of a review is still there and nobody removes it.
StillAvailable(a) == artifact[a] = "live"

\* AcceptBackupRestore: a review is used once and the artifact checked again.
AcceptBackupRestore(a) ==
    /\ a \in review /\ StillAvailable(a)
    /\ Enqueued([NoRow EXCEPT !.status = "queued", !.engine = job[a].engine,
                              !.of = a])
    /\ review' = review \ {a}
    /\ UNCHANGED <<artifact, object, engine, started, allowed, resize, worker,
                   remover, faults>>

\* CancelBackupJob: a queued job the engine does not work for ends at once;
\* any other keeps its status for the loop that holds it or claims it next.
CancelBackupJob(j) ==
    /\ job[j].status \in Active /\ ~job[j].cancel
    /\ Cardinality({i \in Jobs : job[i].cancel}) < MaxCancels
    /\ job' = [job EXCEPT ![j].cancel = TRUE,
                          ![j].status = IF @ = "queued" /\ ~job[j].ref
                                        THEN "cancelled" ELSE @]
    /\ UNCHANGED <<artifact, object, engine, started, review, allowed, resize,
                   worker, remover, faults>>

-----------------------------------------------------------------------------
(* The claim, a transaction under the advisory lock 793044231.             *)

\* resumableBackupJob: only the poller is lost when its loop is.
Resumable(row) == row.ref

\* Faulty variant: every job of a lost loop is queued again.
Requeued(row) ==
    IF row.status = "running" /\ row.expired
    THEN [row EXCEPT !.status = "queued", !.lease = NoOne, !.expired = FALSE]
    ELSE row

\* What the claim makes of a row whose lease has run out.
Reaped(row) ==
    IF row.status = "running" /\ row.expired
    THEN [row EXCEPT !.status = IF Resumable(row) THEN "queued" ELSE "failed",
                     !.lease = NoOne, !.expired = FALSE]
    ELSE row

\* Faulty variant: a cancelled job is never claimed.
ClaimableUncancelled(rows, j) ==
    /\ rows[j].status = "queued" /\ ~rows[j].cancel
    /\ (\E i \in Jobs : rows[i].status = "running") => Resumable(rows[j])
    /\ ~resize

\* While any job runs only a resumable one may be claimed; of the cancelled
\* ones only a resumable one; none during a resize of the application.
Claimable(rows, j) ==
    /\ rows[j].status = "queued"
    /\ rows[j].cancel => Resumable(rows[j])
    /\ (\E i \in Jobs : rows[i].status = "running") => Resumable(rows[j])
    /\ ~resize

\* ClaimBackupJob: reap, then take the oldest claimable job.
ClaimBackupJob(w) ==
    LET rows == [j \in Jobs |-> Reaped(job[j])]
        queue == {j \in Jobs : Claimable(rows, j)}
        first == Min(queue)
    IN  /\ worker[w].pc = "idle"
        /\ \/ /\ queue # {}
              /\ job' = [rows EXCEPT ![first].status = "running", ![first].lease = w]
              /\ worker' = [worker EXCEPT ![w] = [Idle EXCEPT !.pc = "claimed",
                     !.job = first, !.cancel = rows[first].cancel,
                     !.ref = rows[first].ref]]
           \/ /\ queue = {} /\ rows # job
              /\ job' = rows /\ UNCHANGED worker
        /\ UNCHANGED <<artifact, object, engine, started, review, allowed,
                       resize, remover, faults>>

\* The row is running under this loop's lease.
Holds(w) == /\ job[worker[w].job].status = "running"
            /\ job[worker[w].job].lease = w

\* HeartbeatBackupJob renews the lease.
Renews(w) == /\ Holds(w) /\ allowed
             /\ ~job[worker[w].job].cancel /\ ~job[worker[w].job].expired

\* A job claimed in order to stop the engine runs without heartbeats.
Stopping(w) == worker[w].ref /\ worker[w].cancel

\* The loop goes on to FinishBackupJob with `outcome`.
Finishing(w, outcome) ==
    worker' = [worker EXCEPT ![w].pc = "finish", ![w].outcome = outcome]

\* An error ends the work.  It counts as a cancellation when the heartbeat
\* goroutine, which could not renew the lease, had ended the context.
Failed(w) ==
    Finishing(w, IF Renews(w) \/ Stopping(w) THEN "failed" ELSE "cancelled")

jobVars == <<job, artifact, object, engine, started, review, allowed, resize,
             remover, faults>>

\* The heartbeat of RunOnce before any work.  A heartbeat the database does
\* not answer cancels the job too.
FirstHeartbeat(w) ==
    /\ worker[w].pc = "claimed"
    /\ \/ /\ Renews(w) \/ Stopping(w)
          /\ worker' = [worker EXCEPT ![w].pc = "work"]
          /\ UNCHANGED faults
       \/ ~Renews(w) /\ ~Stopping(w) /\ Finishing(w, "cancelled") /\ UNCHANGED faults
       \/ faults < MaxFaults /\ faults' = faults + 1 /\ Finishing(w, "cancelled")
    /\ UNCHANGED <<job, artifact, object, engine, started, review, allowed,
                   resize, remover>>

-----------------------------------------------------------------------------
(* The work of a claimed job.  Any operation of it may fail, by itself or  *)
(* because the heartbeat goroutine has ended its context; until the next   *)
(* heartbeat, two seconds later, it may also succeed without the lease.    *)

At(w, pc) == worker[w].pc = pc
Mine(w) == job[worker[w].job]
Goes(w, pc) == worker' = [worker EXCEPT ![w].pc = pc]

\* create, restore: the destination, the target or the artifact cannot be
\* resolved, or the first operation of the work fails.
WorkFails(w) ==
    /\ At(w, "work") /\ Failed(w)
    /\ UNCHANGED jobVars

\* create: the dump is streamed to object storage.
StreamDump(w) ==
    LET j == worker[w].job IN
    /\ At(w, "work") /\ ~Mine(w).engine /\ Mine(w).of = 0
    /\ object' = [object EXCEPT ![j] = "partial"]
    /\ started' = [started EXCEPT ![j] = @ + 1]
    /\ Goes(w, "uploaded")
    /\ UNCHANGED <<job, artifact, engine, review, allowed, resize, remover,
                   faults>>

\* create: the uploaded archive is verified and its manifest written; when
\* either fails the archive is deleted, if object storage answers.
WriteManifest(w) ==
    LET j == worker[w].job IN
    /\ At(w, "uploaded")
    /\ \/ object' = [object EXCEPT ![j] = "full"] /\ Finishing(w, "succeeded")
       \/ /\ \E left \in {"none", "partial"} :
               object' = [object EXCEPT ![j] = left]
          /\ Failed(w)
    /\ UNCHANGED <<job, artifact, engine, started, review, allowed, resize,
                   remover, faults>>

\* restore, withVerifiedArchive: the archive is downloaded and authenticated.
FetchArchive(w) ==
    /\ At(w, "work") /\ Mine(w).of # 0 /\ ~Mine(w).engine
    /\ object[Mine(w).of] = "full"
    /\ Goes(w, "verified")
    /\ UNCHANGED jobVars

\* Runtime.Restore writes the new database.
ApplyArchive(w) ==
    /\ At(w, "verified")
    /\ \/ /\ started' = [started EXCEPT ![worker[w].job] = @ + 1]
          /\ Finishing(w, "succeeded") \/ Failed(w)
       \/ Failed(w) /\ UNCHANGED started
    /\ UNCHANGED <<job, artifact, object, engine, review, allowed, resize,
                   remover, faults>>

\* engineCreate, engineRestore: no reference yet, so the engine is asked to
\* start.  Its answer may be lost after it has accepted.
StartEngine(w) ==
    LET j == worker[w].job IN
    /\ At(w, "work") /\ Mine(w).engine
    /\ ~worker[w].ref /\ ~Mine(w).ref
    /\ engine' = [engine EXCEPT ![j] = "working"]
    /\ object' = [object EXCEPT ![j] = IF Mine(w).of = 0 THEN "partial" ELSE @]
    /\ started' = [started EXCEPT ![j] = @ + 1]
    /\ \/ Goes(w, "accepted") /\ UNCHANGED faults
       \/ faults < MaxFaults /\ faults' = faults + 1 /\ Failed(w)
    /\ UNCHANGED <<job, artifact, review, allowed, resize, remover>>

\* SetBackupJobEngineRef: only under a lease that has not run out.
SetBackupJobEngineRef(w) ==
    /\ At(w, "accepted")
    /\ \/ /\ Holds(w) /\ ~Mine(w).expired
          /\ job' = [job EXCEPT ![worker[w].job].ref = TRUE]
          /\ Goes(w, "park")
       \/ ~Renews(w) /\ Failed(w) /\ UNCHANGED job
    /\ UNCHANGED <<artifact, object, engine, started, review, allowed, resize,
                   remover, faults>>

\* engineCreate, engineRestore: poll once.  A failed operation ends the job,
\* and so does MaxEngineElapsed; an unfinished one, or a poll that the ended
\* context leaves unanswered, parks it.
PollEngine(w) ==
    LET j == worker[w].job IN
    /\ At(w, "work") /\ Mine(w).engine /\ ~worker[w].cancel
    /\ worker[w].ref \/ Mine(w).ref
    /\ \/ engine[j] \in {"failed", "overdue"} /\ Failed(w)
       \/ /\ engine[j] # "overdue"
          /\ engine[j] \in {"working", "cut"} \/ ~Renews(w)
          /\ Goes(w, "park")
       \/ engine[j] = "done" /\ Mine(w).of = 0 /\ Goes(w, "confirm")
       \/ engine[j] = "done" /\ Mine(w).of # 0 /\ Finishing(w, "succeeded")
    /\ UNCHANGED jobVars

\* verifyEngineBackup: object storage holds what the engine says it wrote.
ConfirmObjects(w) ==
    /\ At(w, "confirm")
    /\ \/ object[worker[w].job] = "full" /\ Finishing(w, "succeeded")
       \/ Failed(w)
    /\ UNCHANGED jobVars

\* DeletePrefix in bounded batches: all is gone, or some objects remain (a
\* second pass reaches the end, whatever the size of the tree).  An engine
\* that is still writing can no longer complete the tree.
PrefixDeleted(j) ==
    /\ \E left \in {"none", "partial"} :
         /\ left = "partial" => \/ object[j] = "full"
                                \/ engine[j] = "working" /\ object[j] = "partial"
         /\ object' = [object EXCEPT ![j] = left]
    /\ engine' = [engine EXCEPT ![j] = IF @ = "working" THEN "cut" ELSE @]

\* engineCancel: the objects of a cancelled backup are deleted; those a
\* restore reads are not.
CancelEngine(w) ==
    /\ At(w, "work") /\ Stopping(w)
    /\ IF Mine(w).of = 0 THEN PrefixDeleted(worker[w].job)
       ELSE UNCHANGED <<object, engine>>
    /\ Finishing(w, "cancelled")
    /\ UNCHANGED <<job, artifact, started, review, allowed, resize, remover,
                   faults>>

\* park: the job waits in the queue with its reference.  When the database
\* does not answer, the lease is left to run out.
ReleaseBackupJobToEngine(w) ==
    LET j == worker[w].job IN
    /\ At(w, "park")
    /\ \/ /\ job' = IF Holds(w)
                    THEN [job EXCEPT ![j].status = "queued", ![j].lease = NoOne,
                                     ![j].expired = FALSE]
                    ELSE job
          /\ UNCHANGED faults
       \/ /\ Holds(w) /\ faults < MaxFaults /\ faults' = faults + 1
          /\ job' = [job EXCEPT ![j].lease = NoOne]
    /\ worker' = [worker EXCEPT ![w] = Idle]
    /\ UNCHANGED <<artifact, object, engine, started, review, allowed, resize,
                   remover>>

\* Faulty variant: the outcome is recorded whoever holds the job.
AnyLease(w) == job[worker[w].job].status # "absent"

\* FinishBackupJob records for the lease that still runs the job, whether or
\* not lease_until has passed or a cancel has arrived.
MayFinish(w) == Holds(w)

\* FinishBackupJob: the outcome and, for a backup, its artifact.
FinishBackupJob(w) ==
    LET j == worker[w].job IN
    /\ At(w, "finish")
    /\ \/ /\ MayFinish(w)
          /\ job' = [job EXCEPT ![j].status = worker[w].outcome,
                                ![j].lease = NoOne, ![j].expired = FALSE]
          /\ artifact' = IF worker[w].outcome = "succeeded" /\ Mine(w).of = 0
                         THEN [artifact EXCEPT ![j] = "live"] ELSE artifact
          /\ UNCHANGED faults
       \/ ~MayFinish(w) /\ UNCHANGED <<job, artifact, faults>>
       \/ /\ Holds(w) /\ faults < MaxFaults /\ faults' = faults + 1
          /\ job' = [job EXCEPT ![j].lease = NoOne] /\ UNCHANGED artifact
    /\ worker' = [worker EXCEPT ![w] = Idle]
    /\ UNCHANGED <<object, engine, started, review, allowed, resize, remover>>

-----------------------------------------------------------------------------
(* Removing artifacts.                                                     *)

\* ExpiredBackupArtifacts: a removal to take up again, or an artifact of the
\* schedule with as many newer ones as it keeps; none that a restore uses.
Expired(a) ==
    /\ ~InUse(a)
    /\ \/ artifact[a] = "pending"
       \/ /\ artifact[a] = "live" /\ job[a].scheduled
          /\ Cardinality({b \in Jobs : /\ b > a /\ job[b].scheduled
                                       /\ artifact[b] \in {"live", "pending"}})
               >= Retention

\* The retention pass has listed the artifact.
ListExpired(r, a) ==
    /\ remover[r].pc = "idle" /\ Expired(a)
    /\ remover' = [remover EXCEPT ![r] = [pc |-> "claim", art |-> a]]
    /\ UNCHANGED <<job, artifact, object, engine, started, review, allowed,
                   resize, worker, faults>>

\* deleteBackupArtifact: an administrator asks for a removal.
AskDeletion(r, a) ==
    /\ remover[r].pc = "idle" /\ artifact[a] \in {"live", "pending"}
    /\ ~InUse(a) /\ allowed
    /\ remover' = [remover EXCEPT ![r] = [pc |-> "claim", art |-> a]]
    /\ UNCHANGED <<job, artifact, object, engine, started, review, allowed,
                   resize, worker, faults>>

\* ClaimBackupArtifactDeletion: not deleted yet and no restore uses it.
MayRemove(a) == artifact[a] \in {"live", "pending"} /\ ~InUse(a)

\* ClaimBackupArtifactDeletion.
ClaimBackupArtifactDeletion(r) ==
    LET a == remover[r].art IN
    /\ remover[r].pc = "claim"
    /\ IF MayRemove(a)
       THEN /\ artifact' = [artifact EXCEPT ![a] = "pending"]
            /\ remover' = [remover EXCEPT ![r].pc = "objects"]
       ELSE /\ remover' = [remover EXCEPT ![r] = NoRemoval]
            /\ UNCHANGED artifact
    /\ UNCHANGED <<job, object, engine, started, review, allowed, resize,
                   worker, faults>>

\* DeleteArtifact: the archive and then its manifest, or the engine's tree in
\* bounded batches; what remains of the tree is left to a later pass.
DeleteObjects(r) ==
    LET a == remover[r].art IN
    /\ remover[r].pc \in {"objects", "manifest"}
    /\ IF job[a].engine
       THEN /\ PrefixDeleted(a)
            /\ remover' = [remover EXCEPT ![r] =
                   IF object'[a] = "none" THEN [@ EXCEPT !.pc = "mark"]
                                          ELSE NoRemoval]
       ELSE /\ object' = [object EXCEPT ![a] =
                   IF remover[r].pc = "objects" /\ @ = "full" THEN "partial" ELSE
                   IF remover[r].pc = "manifest" THEN "none" ELSE @]
            /\ remover' = [remover EXCEPT ![r].pc =
                   IF @ = "objects" THEN "manifest" ELSE "mark"]
            /\ UNCHANGED engine
    /\ UNCHANGED <<job, artifact, started, review, allowed, resize, worker,
                   faults>>

\* MarkBackupArtifactDeleted.
MarkBackupArtifactDeleted(r) ==
    /\ remover[r].pc = "mark"
    /\ artifact' = [artifact EXCEPT ![remover[r].art] = "deleted"]
    /\ remover' = [remover EXCEPT ![r] = NoRemoval]
    /\ UNCHANGED <<job, object, engine, started, review, allowed, resize,
                   worker, faults>>

\* The handler or its process is gone, or object storage does not answer.
RemovalStops(r) ==
    /\ remover[r].pc # "idle" /\ faults < MaxFaults
    /\ faults' = faults + 1
    /\ remover' = [remover EXCEPT ![r] = NoRemoval]
    /\ UNCHANGED <<job, artifact, object, engine, started, review, allowed,
                   resize, worker>>

-----------------------------------------------------------------------------
(* The engine, time, authority, the resize and faults.                     *)

environment == <<review, allowed, resize, worker, remover>>

\* The engine ends its operation.  A backup is complete unless objects of it
\* were deleted meanwhile.
EngineEnds(j) ==
    /\ engine[j] \in {"working", "cut"}
    /\ \E result \in {"done", "failed"} :
         /\ engine' = [engine EXCEPT ![j] = result]
         /\ object' = IF job[j].of # 0 THEN object ELSE
              [object EXCEPT ![j] = IF engine[j] = "working" /\ result = "done"
                                    THEN "full" ELSE "partial"]
    /\ UNCHANGED <<job, artifact, started, faults>>
    /\ UNCHANGED environment

\* MaxEngineElapsed has passed since the job was first claimed.
Elapses(j) ==
    /\ job[j].ref /\ job[j].status = "queued" /\ engine[j] # "overdue"
    /\ engine' = [engine EXCEPT ![j] = "overdue"]
    /\ UNCHANGED <<job, artifact, object, started, faults>>
    /\ UNCHANGED environment

\* lease_until passes: the loop is gone, or it is paused for longer than the
\* lease (a loop that may not renew ends its work well inside one).
LeaseExpires(j) ==
    /\ job[j].status = "running" /\ ~job[j].expired
    /\ \/ job[j].lease = NoOne /\ UNCHANGED faults
       \/ job[j].lease # NoOne /\ faults < MaxFaults /\ faults' = faults + 1
    /\ job' = [job EXCEPT ![j].expired = TRUE]
    /\ UNCHANGED <<artifact, object, engine, started>>
    /\ UNCHANGED environment

\* The process of a loop dies and is started again; its lease is nobody's.
Crash(w) ==
    /\ worker[w].pc # "idle" /\ faults < MaxFaults
    /\ faults' = faults + 1
    /\ job' = [j \in Jobs |-> IF job[j].lease = w
                              THEN [job[j] EXCEPT !.lease = NoOne] ELSE job[j]]
    /\ worker' = [worker EXCEPT ![w] = Idle]
    /\ UNCHANGED <<artifact, object, engine, started, review, allowed, resize,
                   remover>>

\* The identity loses its administrator role.
Withdraw ==
    /\ allowed /\ faults < MaxFaults
    /\ allowed' = FALSE /\ faults' = faults + 1
    /\ UNCHANGED <<job, artifact, object, engine, started, review, resize,
                   worker, remover>>

\* StartVolumeResize takes the claim's lock and waits for running jobs only.
StartVolumeResize ==
    /\ ~resize /\ \A j \in Jobs : job[j].status # "running"
    /\ faults < MaxFaults /\ faults' = faults + 1
    /\ resize' = TRUE
    /\ UNCHANGED <<job, artifact, object, engine, started, review, allowed,
                   worker, remover>>

\* The resize ends (see VolumeResize).
EndVolumeResize ==
    /\ resize /\ resize' = FALSE
    /\ UNCHANGED <<job, artifact, object, engine, started, review, allowed,
                   worker, remover, faults>>

-----------------------------------------------------------------------------
\* RunOnce after the claim.
Work(w) ==
    \/ FirstHeartbeat(w) \/ WorkFails(w) \/ StreamDump(w) \/ WriteManifest(w)
    \/ FetchArchive(w) \/ ApplyArchive(w) \/ StartEngine(w)
    \/ SetBackupJobEngineRef(w) \/ PollEngine(w) \/ ConfirmObjects(w)
    \/ CancelEngine(w) \/ ReleaseBackupJobToEngine(w) \/ FinishBackupJob(w)

\* DeleteArtifact after its caller's check.
Remove(r) ==
    \/ ClaimBackupArtifactDeletion(r) \/ DeleteObjects(r)
    \/ MarkBackupArtifactDeleted(r)

Next ==
    \/ \E e \in ByHand : EnqueueBackup(e)
    \/ \E e \in BySchedule : QueueDueBackups(e)
    \/ \E j \in Jobs : \/ SaveBackupRestorePlan(j) \/ AcceptBackupRestore(j)
                       \/ CancelBackupJob(j) \/ EngineEnds(j) \/ Elapses(j)
                       \/ LeaseExpires(j)
    \/ \E w \in Workers : \/ ClaimBackupJob(w) \/ Work(w) \/ Crash(w)
    \/ \E r \in Removers : \/ Remove(r) \/ RemovalStops(r)
                           \/ \E a \in Jobs : \/ ListExpired(r, a)
                                              \/ AskDeletion(r, a)
    \/ Withdraw \/ StartVolumeResize \/ EndVolumeResize

Spec == Init /\ [][Next]_vars

\* The loops keep running, a lease nobody renews runs out, a resize ends, time
\* passes for the engine, and the retention pass takes up removals.
FairSpec ==
    /\ Spec
    /\ \A w \in Workers : WF_vars(ClaimBackupJob(w) \/ Work(w))
    /\ WF_vars(\E j \in Jobs : job[j].lease = NoOne /\ LeaseExpires(j))
    /\ WF_vars(EndVolumeResize)
    /\ SF_vars(\E j \in Jobs : Elapses(j))
    /\ WF_vars(\E r \in Removers : Remove(r))
    /\ SF_vars(\E r \in Removers, a \in Jobs : ListExpired(r, a))

-----------------------------------------------------------------------------
\* The state is well formed, and the artifacts of the store are there: a live
\* artifact has all of its objects, whatever late loops, cancelled engine
\* backups and removals have deleted, and a deleted one has none left
\* (FinishBackupJob, engineCancel, DeleteArtifact).
ArtifactIntact ==
    /\ job \in [Jobs -> Row] /\ worker \in [Workers -> Loop]
    /\ remover \in [Removers -> Removal]
    /\ artifact \in [Jobs -> {"none", "live", "pending", "deleted"}]
    /\ object \in [Jobs -> {"none", "partial", "full"}]
    /\ engine \in [Jobs -> {"idle", "working", "cut", "done", "failed",
                            "overdue"}]
    /\ \A j \in Jobs : /\ artifact[j] = "live" => object[j] = "full"
                       /\ artifact[j] = "deleted" => object[j] = "none"
                       /\ artifact[j] # "none" => job[j].status = "succeeded"

\* The backup an accepted restore reads is neither being removed nor damaged
\* for as long as the restore is queued, running or parked, although its
\* review, the delete handler's check and the retention list are all older
\* (acceptBackupRestoreOnce, ClaimBackupArtifactDeletion).
RestoreProtected ==
    \A j \in ActiveJobs :
        job[j].of # 0 => /\ artifact[job[j].of] = "live"
                         /\ object[job[j].of] = "full"

\* Nothing is begun twice: no dump is streamed, no restore applied and no
\* engine operation started again for the same job after a loop was lost, one
\* job at most holds the streaming slot, and no job runs during a volume
\* resize (ClaimBackupJob, SetBackupJobEngineRef, StartVolumeResize).
StartedOnce ==
    /\ \A j \in Jobs : started[j] <= 1
    /\ Cardinality({j \in Jobs : job[j].status = "running" /\ ~job[j].ref}) <= 1
    /\ resize => \A j \in Jobs : job[j].status # "running"

\* Every job ends, cancelled and parked ones and those of lost loops included,
\* and every removal that was begun is completed (RunOnce, retention).  Jobs
\* end once and are finitely many here, so this is each job's own end.
WorkSettles ==
    []<>(\A j \in Jobs : job[j].status \notin Active /\ artifact[j] # "pending")

=============================================================================

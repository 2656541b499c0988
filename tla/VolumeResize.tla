---------------------------- MODULE VolumeResize ----------------------------
(***************************************************************************)
(* Volume maintenance of ONE application: an offline copy of a volume into *)
(* a claim of another size, the switch of the services to it, and the      *)
(* deletion of the original (internal/store/volume_resizes.go,             *)
(* internal/worker/volume_resize.go, internal/cluster/volume_resize.go).   *)
(*                                                                         *)
(* A lane takes the advisory lock of the application, makes one pass       *)
(* through the phase of the resize and saves its journal.  Before every    *)
(* request to Kubernetes it checks the lock session, the key and the       *)
(* revision; the request may still land after the lock has moved on.       *)
(*                                                                         *)
(* The services that share the volume are one workload.  Claim 0 is the    *)
(* volume the application started with, claim i the copy resize i makes.   *)
(* Ordinary deployments are reduced to what maintenance sees of them.      *)
(***************************************************************************)
EXTENDS Integers, FiniteSets

CONSTANTS
    Lanes,          \* resize lanes of all management processes
    MaxResizes,     \* bound on resizes
    MaxRevision,    \* bound on revisions
    MaxWrites,      \* bound on writes of the services
    MaxFaults,      \* bound on lost sessions, crashes, revoked keys, failed requests
    WaitForConsumer,\* the storage class binds a claim only for a pod that mounts it
    Deployer,       \* the deployment worker as a holder of the lock
    NoOne           \* the lock is free

Ids == 1..MaxResizes
Claims == 0..MaxResizes
Revisions == 1..MaxRevision
NoPod == -1

ASSUME VolumeResizeAssumption ==
    /\ MaxResizes \in Nat /\ MaxRevision \in Nat \ {0} /\ MaxWrites \in Nat
    /\ MaxFaults \in Nat /\ WaitForConsumer \in BOOLEAN
    /\ NoOne \notin Lanes /\ Deployer \notin Lanes /\ NoOne # Deployer

VARIABLES
    revision,   \* applications.revision
    rows,       \* the deployments of the application, by revision
    resize,     \* the rows of volume_resizes
    reserved,   \* claims charged in storage_reservations
    lock,       \* holder of the application's advisory lock (namespace 3)
    lane,       \* the state of each resize lane
    pvc,        \* the claims in Kubernetes
    deleted,    \* history: the claims that were deleted
    content,    \* the last write each volume holds
    written,    \* number of writes of the services so far
    svc,        \* the Deployment object: replicas and the claim it mounts
    pod,        \* the claim the running pod mounts
    helper,     \* the copy pod of each resize
    quota,      \* owner of the extra allowance, and the allowance
    late,       \* history: a request landed after its lane had lost the lock
    faults      \* number of faults so far

db == <<revision, rows, resize, reserved>>
kube == <<pvc, deleted, content, written, svc, pod, helper, quota>>
vars == <<db, lock, lane, kube, late, faults>>

Blocking == {"queued", "copying", "switching", "cancelling", "deleting_original"}
Phases == Blocking \cup {"absent", "original_retained", "completed", "cancelled"}
Pending == {"queued", "running"}
Present == {"running", "succeeded", "failed"}   \* a copy pod that can be deleted

\* resize is the id of the resize the row belongs to (0: none); attempt is set
\* when the observation of the failure names failed services.
Row == [status : Pending \cup {"absent", "succeeded", "failed"}, resize : Claims,
        claim : Claims, attempt : BOOLEAN]
NoRow == [status |-> "absent", resize |-> 0, claim |-> 0, attempt |-> FALSE]

\* claim and base are the source claim and expected_revision; uid says that the
\* UID of the staging claim is in the journal, key that the key is valid.
Resize == [phase : Phases, error : BOOLEAN, claim : Claims, base : 0..MaxRevision,
           key : BOOLEAN, verified : BOOLEAN, uid : BOOLEAN, retry : BOOLEAN]
NoResize == [phase |-> "absent", error |-> FALSE, claim |-> 0, base |-> 0, key |-> TRUE,
             verified |-> FALSE, uid |-> FALSE, retry |-> FALSE]

\* PrepareVolumeResize, one pc for each object it settles; then the removal of
\* the helper, named for what made it necessary.
Prepare == {"quota", "claim", "stop", "drain", "helper", "report"}
Removing == {"undo", "finish", "again", "cancel"}
Pcs == {"idle", "save", "fail", "undoResume", "cut", "deploy", "applied", "resume",
        "health", "deleteTarget", "cancelled", "check", "deleteOriginal", "completed"}
       \cup Prepare \cup Removing

\* verified, uid and retry are the lane's copy of the journal.  armed: the check
\* before the next request passed; fresh: the object was not changed since.
LaneState == [pc : Pcs, id : Claims, base : 0..MaxRevision, verified : BOOLEAN,
              uid : BOOLEAN, retry : BOOLEAN, armed : BOOLEAN, fresh : BOOLEAN]
IdleLane == [pc |-> "idle", id |-> 0, base |-> 0, verified |-> FALSE, uid |-> FALSE,
             retry |-> FALSE, armed |-> FALSE, fresh |-> FALSE]

TypeOK ==
    /\ revision \in Revisions
    /\ rows \in [Revisions -> Row]
    /\ resize \in [Ids -> Resize]
    /\ reserved \subseteq Claims
    /\ lock \in Lanes \cup {NoOne, Deployer}
    /\ lane \in [Lanes -> LaneState]
    /\ pvc \in [Claims -> {"none", "pending", "bound"}]
    /\ deleted \subseteq Claims
    /\ content \in [Claims -> 0..MaxWrites] /\ written \in 0..MaxWrites
    /\ svc \in [replicas : {0, 1}, claim : Claims] /\ pod \in Claims \cup {NoPod}
    /\ helper \in [Ids -> {"none", "running", "succeeded", "failed", "terminating"}]
    /\ quota \in [owner : Claims, extra : Nat]
    /\ late \in BOOLEAN /\ faults \in 0..MaxFaults

\* Revision 1 is deployed and healthy on claim 0.
Init ==
    /\ revision = 1
    /\ rows = [r \in Revisions |-> IF r = 1 THEN [NoRow EXCEPT !.status = "succeeded"] ELSE NoRow]
    /\ resize = [i \in Ids |-> NoResize]
    /\ reserved = {0}
    /\ lock = NoOne
    /\ lane = [w \in Lanes |-> IdleLane]
    /\ pvc = [c \in Claims |-> IF c = 0 THEN "bound" ELSE "none"]
    /\ deleted = {} /\ content = [c \in Claims |-> 0] /\ written = 0
    /\ svc = [replicas |-> 1, claim |-> 0] /\ pod = 0
    /\ helper = [i \in Ids |-> "none"]
    /\ quota = [owner |-> 0, extra |-> 0]
    /\ late = FALSE /\ faults = 0

-----------------------------------------------------------------------------
(* Requests of users.                                                      *)

RowPending == \E r \in Revisions : rows[r].status \in Pending
Maintenance == \E i \in Ids : resize[i].phase \in Blocking

\* The pending application work StartVolumeResize refuses to join.
StartAllowed == ~Maintenance /\ ~RowPending

\* resizePlan inspects the claim and the services, StartVolumeResize accepts.
StartVolumeResize(i) ==
    LET c == rows[revision].claim IN
    /\ resize[i].phase = "absent" /\ \A k \in Ids : k < i => resize[k].phase # "absent"
    /\ lock = NoOne /\ StartAllowed
    /\ rows[revision].status = "succeeded"
    /\ pvc[c] = "bound" /\ svc.replicas = 1 /\ revision < MaxRevision
    /\ resize' = [resize EXCEPT ![i] = [NoResize EXCEPT !.phase = "queued", !.claim = c, !.base = revision]]
    /\ reserved' = reserved \cup {c, i}
    /\ UNCHANGED <<revision, rows, lock, lane, kube, late, faults>>

\* ResizeAction takes the lock and writes the phase and the caller's key.
ResizeAction(i, phase, retry) ==
    /\ lock = NoOne
    /\ resize' = [resize EXCEPT ![i] = [@ EXCEPT !.phase = phase, !.error = FALSE,
                                                  !.key = TRUE, !.retry = retry]]
    /\ UNCHANGED <<revision, rows, reserved, lock, lane, kube, late, faults>>

Retry(i) == resize[i].error /\ ResizeAction(i, resize[i].phase, TRUE)

Cancel(i) ==
    /\ resize[i].phase \in {"queued", "copying"}
    /\ ResizeAction(i, "cancelling", resize[i].retry)

Retain(i) ==
    /\ resize[i].phase = "switching" /\ resize[i].error
    /\ ResizeAction(i, "original_retained", resize[i].retry)

DeleteOriginal(i) ==
    /\ resize[i].phase = "original_retained"
    /\ \A k \in Ids : k # i => resize[k].phase \notin Blocking
    /\ ResizeAction(i, "deleting_original", resize[i].retry)

\* The key of the resize is revoked or loses its permission.
Revoke(i) ==
    /\ faults < MaxFaults /\ resize[i].phase \in Blocking /\ resize[i].key
    /\ resize' = [resize EXCEPT ![i].key = FALSE]
    /\ faults' = faults + 1
    /\ UNCHANGED <<revision, rows, reserved, lock, lane, kube, late>>

\* Acceptance refuses a specification that names a claim replaced by a resize.
NotRetired(c) ==
    \A i \in Ids : resize[i].claim = c => resize[i].phase \notin {"original_retained", "completed"}

\* Faulty variant: acceptance does not look at running maintenance.
AcceptDuring(c) == NotRetired(c)
AcceptAllowed(c) == ~Maintenance /\ NotRetired(c)

\* acceptGuarded with the volume of the current or of an earlier revision: a new
\* release, a rollback, or an old configuration from Git.
Accept(c) ==
    /\ revision < MaxRevision
    /\ \E r \in Revisions : rows[r].status # "absent" /\ rows[r].claim = c
    /\ AcceptAllowed(c)
    /\ revision' = revision + 1
    /\ rows' = [rows EXCEPT ![revision + 1] = [NoRow EXCEPT !.status = "queued", !.claim = c]]
    /\ reserved' = reserved \cup {c}
    /\ UNCHANGED <<resize, lock, lane, kube, late, faults>>

\* ResumeDeployment of the latest revision after a failed service attempt.
ResumeDeployment ==
    /\ rows[revision].status = "failed" /\ rows[revision].attempt /\ ~Maintenance
    /\ rows' = [rows EXCEPT ![revision].status = "queued"]
    /\ UNCHANGED <<revision, resize, reserved, lock, lane, kube, late, faults>>

-----------------------------------------------------------------------------
(* Ordinary deployments.                                                   *)

\* Lanes that read the workload and have not written it yet lose their version.
Overwritten(pcs) == [w \in Lanes |-> IF lane[w].pc \in pcs THEN [lane[w] EXCEPT !.fresh = FALSE] ELSE lane[w]]

\* Claim: the oldest pending row of the application, never one of a resize.
DeployClaim(r) ==
    /\ rows[r].status \in Pending /\ rows[r].resize = 0
    /\ \A q \in Revisions : q < r => rows[q].status \notin Pending
    /\ lock = NoOne /\ lock' = Deployer
    /\ rows' = [rows EXCEPT ![r].status = "running"]
    /\ UNCHANGED <<revision, resize, reserved, lane, kube, late, faults>>

\* The workload is written; a claim that is missing is created empty.
Apply(c) ==
    /\ svc' = [replicas |-> 1, claim |-> c]
    /\ pvc' = [pvc EXCEPT ![c] = IF @ = "none" THEN "pending" ELSE @]
    /\ UNCHANGED <<deleted, content, written, pod, helper, quota>>

DeployApply(r) ==
    /\ lock = Deployer /\ rows[r].status = "running" /\ rows[r].resize = 0
    /\ Apply(rows[r].claim)
    /\ lane' = Overwritten({"stop", "undoResume", "resume"})
    /\ UNCHANGED <<db, lock, late, faults>>

DeployEnd(r, outcome, attempt) ==
    /\ lock = Deployer /\ lock' = NoOne
    /\ rows[r].status = "running" /\ rows[r].resize = 0
    /\ \/ outcome = "succeeded" /\ svc = [replicas |-> 1, claim |-> rows[r].claim] /\ pod = svc.claim
       \/ outcome = "failed"
    /\ attempt => outcome = "failed" /\ svc.claim = rows[r].claim
    /\ rows' = [rows EXCEPT ![r].status = outcome, ![r].attempt = attempt]
    /\ UNCHANGED <<revision, resize, reserved, lane, kube, late, faults>>

-----------------------------------------------------------------------------
(* A pass of resizeVolume.                                                 *)

Id(w) == lane[w].id
Source(w) == resize[Id(w)].claim

Goto(w, pc) == lane' = [lane EXCEPT ![w].pc = pc, ![w].armed = FALSE, ![w].fresh = FALSE]

\* The pass ends and releases its connection.
Return(w) ==
    /\ lane' = [lane EXCEPT ![w] = IdleLane]
    /\ lock' = IF lock = w THEN NoOne ELSE lock

\* Where the pass starts, by phase.
Entry(phase) ==
    CASE phase \in {"queued", "copying"} -> "quota"
      [] phase = "switching" -> "deploy"
      [] phase = "cancelling" -> "cancel"
      [] phase = "deleting_original" -> "check"

\* Faulty variant: a cancelled resize is not looked for.
ClaimableCopy(i) == resize[i].phase \in Blocking \ {"cancelling"} /\ ~resize[i].error
Claimable(i) == resize[i].phase \in Blocking /\ ~resize[i].error

\* ClaimVolumeResize reads the row again under the lock; a queued resize is
\* saved as copying.
ClaimVolumeResize(w, i) ==
    /\ lane[w].pc = "idle" /\ lock = NoOne
    /\ Claimable(i) /\ lock' = w
    /\ lane' = [lane EXCEPT ![w] = [IdleLane EXCEPT !.pc = Entry(resize[i].phase), !.id = i,
                   !.base = revision, !.verified = resize[i].verified,
                   !.uid = resize[i].uid, !.retry = resize[i].retry]]
    /\ resize' = [resize EXCEPT ![i].phase = IF @ = "queued" THEN "copying" ELSE @]
    /\ UNCHANGED <<revision, rows, reserved, kube, late, faults>>

\* ResizeClaim.Check: the session, the key and the revision.
Check(w) == lock = w /\ resize[Id(w)].key /\ revision = lane[w].base

\* The object the pass has come to needs a request.
Needed(w) ==
    LET i == Id(w)  pc == lane[w].pc IN
    \/ pc = "quota" /\ quota.owner = 0
    \/ pc = "claim" /\ pvc[i] = "none" /\ ~lane[w].uid
    \/ pc = "stop" /\ svc.replicas # 0
    \/ pc = "helper" /\ helper[i] = "none"
    \/ pc \in Removing /\ (helper[i] \in Present \/ (helper[i] = "none" /\ quota.owner = i))
    \/ pc \in {"undoResume", "resume"} /\ svc = [replicas |-> 0, claim |-> Source(w)]
    \/ pc = "deploy" /\ pvc[i] # "none" /\ lane[w].uid
    \/ pc = "deleteTarget" /\ pvc[i] # "none"
    \/ pc = "deleteOriginal" /\ pvc[Source(w)] # "none"

\* The lane has read the object it is about to change and checks its claim.
Arm(w) ==
    /\ Needed(w) /\ ~lane[w].armed /\ Check(w)
    /\ lane' = [lane EXCEPT ![w].armed = TRUE, ![w].fresh = TRUE]
    /\ UNCHANGED <<db, lock, kube, late, faults>>

\* A request that changes Kubernetes: it was checked, and lands now.
Lands(w) ==
    /\ lane[w].armed
    /\ late' = (late \/ lock # w)
    /\ UNCHANGED <<db, lock>>

\* Save on the lock session: the journal of the lane, with or without an error.
Save(w) ==
    /\ lane[w].pc \in {"save", "fail"} /\ lock = w
    /\ resize' = [resize EXCEPT ![Id(w)] = [@ EXCEPT !.error = lane[w].pc = "fail",
                     !.verified = lane[w].verified, !.uid = lane[w].uid, !.retry = lane[w].retry]]
    /\ Return(w)
    /\ UNCHANGED <<revision, rows, reserved, kube, late, faults>>

\* A check or a statement fails: the error is saved, or the session is gone.
CheckFails(w) ==
    /\ Needed(w) \/ lane[w].pc \in {"quota", "deploy", "check", "cancel", "cut", "cancelled", "completed"}
    /\ ~lane[w].armed /\ lock = w /\ ~Check(w)
    /\ Goto(w, "fail")
    /\ UNCHANGED <<db, lock, kube, late, faults>>

SessionGone(w) ==
    /\ lane[w].pc # "idle" /\ ~lane[w].armed /\ lock # w
    /\ Return(w)
    /\ UNCHANGED <<db, kube, late, faults>>

\* A failed copy that was not verified is undone so that the services resume.
Undoes(w) == lane[w].pc \in Prepare /\ ~lane[w].verified

AfterError(w) == IF Undoes(w) THEN "undo" ELSE "fail"

\* A request to Kubernetes fails without an effect, or the pass runs out of time.
RequestFails(w) ==
    /\ faults < MaxFaults /\ faults' = faults + 1
    /\ lane[w].pc \notin {"idle", "save", "fail", "applied"}
    /\ \E pc \in {AfterError(w), "fail"} : Goto(w, pc)
    /\ UNCHANGED <<db, lock, kube, late>>

\* A conflicting update: the pass saves and comes back, or the resume fails.
Conflict(w) ==
    /\ lane[w].armed /\ ~lane[w].fresh
    /\ lane[w].pc \in {"quota", "stop", "undoResume", "resume"} \cup Removing
    /\ Goto(w, IF lane[w].pc \in {"undoResume", "resume", "undo"} THEN "fail" ELSE "save")
    /\ UNCHANGED <<db, lock, kube, late, faults>>

-----------------------------------------------------------------------------
(* PrepareVolumeResize.                                                    *)

\* resizeQuota: the allowance is there already, is raised now by one claim with
\* the id of the resize as its owner, or belongs to another resize.
ResizeQuota(w) ==
    /\ lane[w].pc = "quota"
    /\ \/ /\ ~lane[w].armed /\ quota.owner = Id(w)
          /\ Goto(w, "claim")
          /\ UNCHANGED <<db, lock, kube, late, faults>>
       \/ /\ lane[w].fresh /\ quota.owner = 0
          /\ Lands(w)
          /\ quota' = [owner |-> Id(w), extra |-> quota.extra + 1]
          /\ lane' = [Overwritten({"quota"} \cup Removing) EXCEPT ![w] = [@ EXCEPT !.pc = "save", !.armed = FALSE]]
          /\ UNCHANGED <<pvc, deleted, content, written, svc, pod, helper, faults>>
       \/ /\ ~lane[w].armed /\ quota.owner \notin {0, Id(w)}
          /\ Goto(w, AfterError(w))
          /\ UNCHANGED <<db, lock, kube, late, faults>>

\* The staging claim exists: its UID enters the journal of the lane.
AdoptClaim(w) ==
    /\ lane[w].pc = "claim" /\ ~lane[w].armed /\ pvc[Id(w)] # "none"
    /\ lane' = [lane EXCEPT ![w].uid = TRUE, ![w].pc = IF lane[w].verified THEN "finish" ELSE "stop"]
    /\ UNCHANGED <<db, lock, kube, late, faults>>

\* The staging claim is created; its reply, and with it the UID, may be lost.
CreateClaim(w) ==
    /\ lane[w].pc = "claim" /\ ~lane[w].uid
    /\ Lands(w)
    /\ pvc' = [pvc EXCEPT ![Id(w)] = IF @ = "none" THEN "pending" ELSE @]
    /\ \/ /\ pvc[Id(w)] = "none"
          /\ lane' = [lane EXCEPT ![w].uid = TRUE, ![w].pc = "stop", ![w].armed = FALSE]
          /\ UNCHANGED faults
       \/ /\ pvc[Id(w)] = "none" /\ faults < MaxFaults /\ faults' = faults + 1
          /\ Goto(w, AfterError(w))
       \/ /\ pvc[Id(w)] # "none"
          /\ Goto(w, AfterError(w))
          /\ UNCHANGED faults
    /\ UNCHANGED <<deleted, content, written, svc, pod, helper, quota>>

\* The recorded staging claim is missing: nothing is created in its place.
ClaimMissing(w) ==
    /\ lane[w].pc = "claim" /\ lane[w].uid /\ pvc[Id(w)] = "none"
    /\ Goto(w, AfterError(w))
    /\ UNCHANGED <<db, lock, kube, late, faults>>

\* Faulty variant: the copy starts while the pod is still there.
NotDrained == pod \in Claims \cup {NoPod}
\* No pod mounts the volume any more.
Drained == pod = NoPod

\* The services are scaled to zero, and the pass waits until their pods are gone.
StopServices(w) ==
    /\ lane[w].pc = "stop"
    /\ \/ /\ ~lane[w].armed /\ svc.replicas = 0
          /\ Goto(w, "drain")
          /\ UNCHANGED <<db, lock, kube, late, faults>>
       \/ /\ lane[w].fresh /\ svc.replicas # 0
          /\ Lands(w)
          /\ svc' = [svc EXCEPT !.replicas = 0]
          /\ lane' = [Overwritten({"stop", "undoResume", "resume"}) EXCEPT ![w] = [@ EXCEPT !.pc = "drain", !.armed = FALSE]]
          /\ UNCHANGED <<pvc, deleted, content, written, pod, helper, quota, faults>>

Drain(w) ==
    /\ lane[w].pc = "drain"
    /\ Goto(w, IF Drained THEN "helper" ELSE "save")
    /\ UNCHANGED <<db, lock, kube, late, faults>>

CreateHelper(w) ==
    /\ lane[w].pc = "helper"
    /\ \/ /\ ~lane[w].armed /\ helper[Id(w)] # "none"
          /\ Goto(w, "report")
          /\ UNCHANGED <<db, lock, kube, late, faults>>
       \/ /\ Lands(w)
          /\ helper' = [helper EXCEPT ![Id(w)] = IF @ = "none" THEN "running" ELSE @]
          /\ Goto(w, IF helper[Id(w)] = "none" THEN "report" ELSE AfterError(w))
          /\ UNCHANGED <<pvc, deleted, content, written, svc, pod, quota, faults>>

\* The report of a copy pod that succeeded.
VerifiedReport(w) == helper[Id(w)] = "succeeded"

ReadReport(w) ==
    /\ lane[w].pc = "report"
    /\ \/ /\ VerifiedReport(w)
          /\ lane' = [lane EXCEPT ![w].verified = TRUE, ![w].pc = "save"]
       \/ /\ ~VerifiedReport(w) /\ helper[Id(w)] = "failed" /\ lane[w].retry
          /\ lane' = [lane EXCEPT ![w].retry = FALSE, ![w].pc = "again"]
       \/ /\ ~VerifiedReport(w) /\ helper[Id(w)] = "failed" /\ ~lane[w].retry
          /\ Goto(w, AfterError(w))
       \/ /\ helper[Id(w)] \in {"none", "running", "terminating"}
          /\ Goto(w, "save")
    /\ UNCHANGED <<db, lock, kube, late, faults>>

-----------------------------------------------------------------------------
(* RemoveResizeHelper, called from four places.                            *)

NotGone(w) == Goto(w, IF lane[w].pc = "undo" THEN "fail" ELSE "save")

Gone(w) ==
    CASE lane[w].pc = "undo"   -> "undoResume"
      [] lane[w].pc = "finish" -> "cut"
      [] lane[w].pc = "again"  -> "save"
      [] lane[w].pc = "cancel" -> "resume"

DeleteHelper(w) ==
    /\ lane[w].pc \in Removing
    /\ helper[Id(w)] \in Present
    /\ Lands(w)
    /\ helper' = [helper EXCEPT ![Id(w)] = "terminating"]
    /\ NotGone(w)
    /\ UNCHANGED <<pvc, deleted, content, written, svc, pod, quota, faults>>

HelperStays(w) ==
    /\ lane[w].pc \in Removing /\ helper[Id(w)] = "terminating"
    /\ NotGone(w)
    /\ UNCHANGED <<db, lock, kube, late, faults>>

\* Faulty variant: the allowance stays.
KeptQuota == quota
\* restoreResizeQuota puts the recorded budget back.
RestoredQuota == [owner |-> 0, extra |-> 0]

HelperGone(w) ==
    /\ lane[w].pc \in Removing /\ helper[Id(w)] = "none"
    /\ \/ /\ quota.owner = 0
          /\ Goto(w, Gone(w))
          /\ UNCHANGED <<db, lock, kube, late, faults>>
       \/ /\ lane[w].fresh /\ quota.owner = Id(w)
          /\ Lands(w)
          /\ quota' = RestoredQuota
          /\ lane' = [Overwritten({"quota"} \cup Removing) EXCEPT ![w] = [@ EXCEPT !.pc = Gone(w), !.armed = FALSE]]
          /\ UNCHANGED <<pvc, deleted, content, written, svc, pod, helper, faults>>
       \/ /\ quota.owner \notin {0, Id(w)}
          /\ Goto(w, "fail")
          /\ UNCHANGED <<db, lock, kube, late, faults>>

\* ResumeResizeServices, after a failed copy and on cancellation.
ResumeResizeServices(w) ==
    LET next == IF lane[w].pc = "undoResume" THEN "fail" ELSE "health" IN
    /\ lane[w].pc \in {"undoResume", "resume"}
    /\ \/ /\ ~lane[w].armed
          /\ Goto(w, IF svc.claim # Source(w) THEN "fail" ELSE next)
          /\ svc.claim # Source(w) \/ svc.replicas = 1
          /\ UNCHANGED <<db, lock, kube, late, faults>>
       \/ /\ lane[w].fresh /\ svc.claim = Source(w) /\ svc.replicas = 0
          /\ Lands(w)
          /\ svc' = [svc EXCEPT !.replicas = 1]
          /\ lane' = [Overwritten({"stop", "undoResume", "resume"}) EXCEPT ![w] = [@ EXCEPT !.pc = next, !.armed = FALSE]]
          /\ UNCHANGED <<pvc, deleted, content, written, pod, helper, quota, faults>>

-----------------------------------------------------------------------------
(* The switch.                                                             *)

\* BeginCutover: the row of the new revision, the revision and the phase.
BeginCutover(w) ==
    LET i == Id(w) IN
    /\ lane[w].pc = "cut" /\ Check(w) /\ resize[i].verified
    /\ revision = resize[i].base /\ revision < MaxRevision
    /\ rows' = [rows EXCEPT ![revision + 1] =
                   [NoRow EXCEPT !.status = "running", !.resize = i, !.claim = i]]
    /\ revision' = revision + 1
    /\ resize' = [resize EXCEPT ![i].phase = "switching", ![i].uid = lane[w].uid]
    /\ Return(w)
    /\ UNCHANGED <<reserved, kube, late, faults>>

\* The row of the resize is the row of the current revision.
RowOf(w) == CHOOSE r \in Revisions : rows[r].resize = Id(w)

\* The verified target is there: the new revision is applied on it.  (Nobody here
\* removes it; a claim that cannot be read is RequestFails.)
DeployTarget(w) ==
    /\ lane[w].pc = "deploy" /\ pvc[Id(w)] # "none" /\ lane[w].uid
    /\ Lands(w)
    /\ Apply(Id(w))
    /\ lane' = [Overwritten({"stop", "undoResume", "resume"}) EXCEPT ![w] = [@ EXCEPT !.pc = "applied", !.armed = FALSE]]
    /\ UNCHANGED faults

\* A conflict ends the pass without a record.
DeployConflict(w) ==
    /\ lane[w].pc = "applied" /\ faults < MaxFaults /\ faults' = faults + 1
    /\ Return(w)
    /\ UNCHANGED <<db, kube, late>>

\* The release is ready; or it failed, before or after the workload changed, with
\* or without failed services to name.
CutoverResult(w, ok, attempt) ==
    LET r == RowOf(w) IN
    /\ lock = w
    /\ lane[w].pc = "applied" \/ (lane[w].pc = "deploy" /\ lane[w].armed /\ ~ok /\ ~attempt)
    /\ ok => pod = Id(w) /\ ~attempt
    /\ rows' = [rows EXCEPT ![r].status = IF ok THEN "succeeded" ELSE "failed", ![r].attempt = attempt]
    /\ resize' = [resize EXCEPT ![Id(w)].phase = IF ok THEN "original_retained" ELSE "switching",
                                ![Id(w)].error = ~ok]
    /\ Return(w)
    /\ UNCHANGED <<revision, reserved, kube, late, faults>>

-----------------------------------------------------------------------------
(* Cancellation and deletion of the original.                              *)

\* The original has to be healthy before the staging claim goes.
ObserveHealth(w) ==
    /\ lane[w].pc = "health"
    /\ \/ pod = Source(w) /\ Goto(w, "deleteTarget") /\ UNCHANGED lock
       \/ pod # Source(w) /\ Return(w)
    /\ UNCHANGED <<db, kube, late, faults>>

\* What CheckResizeClaim and DeleteVolumes ask of a claim that is still there: its
\* recorded UID, which a claim that was created again does not have, no pod on it,
\* not in the specification, and a bound volume.
Deletable(w, c) ==
    /\ (c = Id(w) => lane[w].uid) /\ c \notin deleted
    /\ pod # c /\ (c = Id(w) => helper[c] = "none")
    /\ rows[lane[w].base].claim # c
    /\ pvc[c] = "bound"

\* DeleteVolumes: the staging claim on cancellation, the original on request.
DeleteVolume(w) ==
    LET c == IF lane[w].pc = "deleteTarget" THEN Id(w) ELSE Source(w)
        next == IF lane[w].pc = "deleteTarget" THEN "cancelled" ELSE "completed" IN
    /\ lane[w].pc \in {"deleteTarget", "deleteOriginal"}
    /\ \/ /\ pvc[c] = "none"
          /\ Goto(w, next)
          /\ UNCHANGED <<db, lock, kube, late, faults>>
       \/ /\ Deletable(w, c)
          /\ Lands(w)
          /\ pvc' = [pvc EXCEPT ![c] = "none"]
          /\ deleted' = deleted \cup {c}
          /\ content' = [content EXCEPT ![c] = 0]
          /\ Goto(w, next)
          /\ UNCHANGED <<written, svc, pod, helper, quota, faults>>
       \/ /\ lane[w].armed /\ pvc[c] # "none" /\ ~Deletable(w, c)
          /\ Goto(w, "fail")
          /\ UNCHANGED <<db, lock, kube, late, faults>>

\* Faulty variant: the services need not be healthy.
UncheckedRelease(w) == lane[w].verified
\* The current release has succeeded and its services are healthy.
CurrentHealthy(w) ==
    /\ lane[w].verified
    /\ rows[lane[w].base].status = "succeeded"
    /\ pod = svc.claim

CheckRelease(w) ==
    /\ lane[w].pc = "check"
    /\ Goto(w, IF CurrentHealthy(w) THEN "deleteOriginal" ELSE "fail")
    /\ UNCHANGED <<db, lock, kube, late, faults>>

\* Faulty variant: the source is freed on cancellation too.
FreedSource(w) == resize[Id(w)].claim
\* The claim that is no longer charged.
Freed(w) == IF lane[w].pc = "cancelled" THEN Id(w) ELSE resize[Id(w)].claim

\* Reclaimed: the claim is no longer charged and the resize has ended.
Reclaimed(w) ==
    LET i == Id(w) IN
    /\ lane[w].pc \in {"cancelled", "completed"} /\ Check(w)
    /\ reserved' = reserved \ {Freed(w)}
    /\ resize' = [resize EXCEPT ![i].phase = lane[w].pc, ![i].error = FALSE]
    /\ Return(w)
    /\ UNCHANGED <<revision, rows, kube, late, faults>>

-----------------------------------------------------------------------------
(* Kubernetes and faults.                                                  *)

PodStarts ==
    /\ pod = NoPod /\ svc.replicas = 1 /\ pvc[svc.claim] # "none"
    /\ pod' = svc.claim
    /\ pvc' = [pvc EXCEPT ![svc.claim] = "bound"]
    /\ UNCHANGED <<db, lock, lane, deleted, content, written, svc, helper, quota, late, faults>>

\* The strategy is Recreate: a pod stops before another starts.
PodStops ==
    /\ pod # NoPod /\ (svc.replicas = 0 \/ svc.claim # pod)
    /\ pod' = NoPod
    /\ UNCHANGED <<db, lock, lane, pvc, deleted, content, written, svc, helper, quota, late, faults>>

Write ==
    /\ pod # NoPod /\ written < MaxWrites
    /\ written' = written + 1
    /\ content' = [content EXCEPT ![pod] = written + 1]
    /\ UNCHANGED <<db, lock, lane, pvc, deleted, svc, pod, helper, quota, late, faults>>

\* A claim is bound at once, or when a pod mounts it.
Bind(c) ==
    /\ pvc[c] = "pending"
    /\ WaitForConsumer => c \in Ids /\ helper[c] = "running"
    /\ pvc' = [pvc EXCEPT ![c] = "bound"]
    /\ UNCHANGED <<db, lock, lane, deleted, content, written, svc, pod, helper, quota, late, faults>>

\* The copy pod clears the target, copies, compares, and ends.
CopyEnds(i, ok) ==
    /\ helper[i] = "running" /\ pvc[i] = "bound"
    /\ helper' = [helper EXCEPT ![i] = IF ok THEN "succeeded" ELSE "failed"]
    /\ content' = [content EXCEPT ![i] = IF ok THEN content[resize[i].claim] ELSE 0]
    /\ UNCHANGED <<db, lock, lane, pvc, deleted, written, svc, pod, quota, late, faults>>

HelperTerminates(i) ==
    /\ helper[i] = "terminating"
    /\ helper' = [helper EXCEPT ![i] = "none"]
    /\ UNCHANGED <<db, lock, lane, pvc, deleted, content, written, svc, pod, quota, late, faults>>

\* The server ends the session and with it the lock; the lane does not know.
SessionLost(w) ==
    /\ faults < MaxFaults /\ faults' = faults + 1
    /\ lock = w /\ lock' = NoOne
    /\ UNCHANGED <<db, lane, kube, late>>

Crash(w) ==
    /\ faults < MaxFaults /\ faults' = faults + 1
    /\ lane[w].pc # "idle" /\ Return(w)
    /\ UNCHANGED <<db, kube, late>>

-----------------------------------------------------------------------------
LaneStep(w) ==
    \/ \E i \in Ids : ClaimVolumeResize(w, i)
    \/ Arm(w) \/ Save(w) \/ CheckFails(w) \/ SessionGone(w) \/ Conflict(w)
    \/ ResizeQuota(w) \/ AdoptClaim(w) \/ CreateClaim(w) \/ ClaimMissing(w)
    \/ StopServices(w) \/ Drain(w) \/ CreateHelper(w) \/ ReadReport(w)
    \/ DeleteHelper(w) \/ HelperStays(w) \/ HelperGone(w) \/ ResumeResizeServices(w)
    \/ BeginCutover(w) \/ DeployTarget(w)
    \/ \E ok, attempt \in BOOLEAN : CutoverResult(w, ok, attempt)
    \/ ObserveHealth(w) \/ DeleteVolume(w) \/ CheckRelease(w) \/ Reclaimed(w)

DeployStep ==
    \E r \in Revisions :
        \/ DeployClaim(r) \/ DeployApply(r)
        \/ \E o \in {"succeeded", "failed"}, attempt \in BOOLEAN : DeployEnd(r, o, attempt)

User ==
    \/ \E i \in Ids : StartVolumeResize(i) \/ Retry(i) \/ Cancel(i) \/ Retain(i) \/ DeleteOriginal(i)
    \/ \E c \in Claims : Accept(c)
    \/ ResumeDeployment

Outside ==
    \/ PodStarts \/ PodStops
    \/ \E c \in Claims : Bind(c)
    \/ \E i \in Ids : HelperTerminates(i) \/ \E ok \in BOOLEAN : CopyEnds(i, ok)

Next ==
    \/ User \/ DeployStep \/ Outside \/ Write
    \/ \E w \in Lanes : LaneStep(w)
    \/ \E w \in Lanes : RequestFails(w) \/ DeployConflict(w) \/ SessionLost(w) \/ Crash(w)
    \/ \E i \in Ids : Revoke(i)

Spec == Init /\ [][Next]_vars

\* The lanes and the deployment worker loop for ever, pods start and stop, a copy
\* has a deadline.
Fairness ==
    /\ \A w \in Lanes : WF_vars(LaneStep(w))
    /\ WF_vars(DeployStep)
    /\ WF_vars(PodStarts) /\ WF_vars(PodStops)
    /\ \A c \in Claims : WF_vars(Bind(c))
    /\ \A i \in Ids : WF_vars(HelperTerminates(i)) /\ WF_vars(\E ok \in BOOLEAN : CopyEnds(i, ok))

\* The user retries a failed step whenever there is one.
FairSpec == Spec /\ Fairness /\ \A i \in Ids : SF_vars(Retry(i))

-----------------------------------------------------------------------------
(* Properties.                                                             *)

\* The services only ever run on the volume that holds everything they wrote:
\* the copy is taken while nobody writes, and a volume that was replaced or
\* deleted never comes back, empty or old.
NothingLost == pod # NoPod /\ ~late => content[pod] = written

\* DeleteVolumes never removes a volume that a pod mounts or that the current
\* revision names, and none at all until the current deployment has succeeded.
OnlyUnusedDeleted ==
    [][\A c \in Claims : pvc[c] # "none" /\ pvc'[c] = "none" =>
            /\ pod # c /\ rows[revision].claim # c
            /\ rows[revision].status = "succeeded"]_vars

\* Ordinary deployments cannot race active maintenance: until the switch is over
\* no row is pending but the one of the resize. With the types of the rows.
MaintenanceAlone ==
    TypeOK /\ \A i \in Ids : resize[i].phase \in {"queued", "copying", "switching", "cancelling"} =>
        \A r \in Revisions : rows[r].status \in Pending => rows[r].resize = i

\* Both copies remain charged until they are gone.
Charged == ~late => \A c \in Claims : pvc[c] # "none" => c \in reserved

\* The extra allowance is one claim, for the resize that needs it, and is taken
\* back before the switch and before a cancellation ends.
AllowanceBounded ==
    /\ quota.extra = IF quota.owner = 0 THEN 0 ELSE 1
    /\ quota.owner # 0 /\ ~late => resize[quota.owner].phase \in {"copying", "cancelling"}

\* Maintenance that shows no error ends, or shows one.
MaintenanceAdvances ==
    \A i \in Ids : resize[i].phase \in Blocking /\ ~resize[i].error
                      ~> resize[i].error \/ resize[i].phase \notin Blocking

\* A cancelled resize is reclaimed, whatever lane or session is lost, as long as
\* the journal holds the UID of the staging claim and the claim is bound.
CancelKnown ==
    \A i \in Ids :
        resize[i].phase = "cancelling" /\ (pvc[i] = "none" \/ (pvc[i] = "bound" /\ resize[i].uid))
            ~> resize[i].phase = "cancelled" \/ late

\* A cancelled resize is reclaimed when every failed step is retried.
CancelEnds == \A i \in Ids : resize[i].phase = "cancelling" ~> resize[i].phase = "cancelled"

=============================================================================

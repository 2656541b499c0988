-------------------------- MODULE SandboxSessions --------------------------
(***************************************************************************)
(* Sandbox sessions of ONE application: kernels that keep their memory     *)
(* between calls (internal/store/sandbox_sessions.go and                   *)
(* sandbox_reconcile.go, internal/api/sandbox_sessions.go and              *)
(* sandbox_worker.go, internal/cluster/sandbox_session*.go).               *)
(*                                                                         *)
(* Reconciliation lanes lease one step of a session at a time.  A lane     *)
(* checks its lease before every object it creates, but the request may    *)
(* still land after the lease has passed to another lane.  Call handlers   *)
(* of the API claim the session for one request, run code in its pod and   *)
(* record the outcome.  Deployments and volume maintenance of the same     *)
(* application are reduced to what sessions see of them.                   *)
(*                                                                         *)
(* Deadlines are flags that may be set at any moment; the generation of a  *)
(* session never changes and is its identity here.  UIDs of namespaces and *)
(* pods are numbers, 0 for none, given in order of creation.               *)
(***************************************************************************)
EXTENDS Integers, FiniteSets

CONSTANTS
    Sessions,       \* receipts of the application
    Owners,         \* owner scope and runtime key
    MaxActive,      \* sandbox.MaxSessions
    Lanes,          \* reconciliation lanes of all processes
    Handlers,       \* call slots of all processes
    Requests,       \* idempotency keys of calls
    MaxRevision,    \* bound on revisions
    MaxFaults,      \* bound on crashes, slow lanes, failed requests, a revoked key
    MaxUids,        \* bound on namespaces, and on pods, created for a session
    WithResize,     \* a volume of the application may be resized
    NoOne

Uids == 0..MaxUids
Revisions == 1..MaxRevision

ASSUME SandboxSessionsAssumption ==
    /\ MaxActive \in Nat \ {0} /\ MaxRevision \in Nat \ {0} /\ MaxFaults \in Nat
    /\ MaxUids \in Nat
    /\ WithResize \in BOOLEAN /\ NoOne \notin Lanes \cup Handlers \cup Owners

VARIABLES
    revision,   \* applications.revision
    active,     \* the revision whose deployment succeeded last
    dep,        \* the deployment that is pending, and who inserted its row
    resize,     \* volume maintenance of the application
    key,        \* the machine key of the callers is valid
    ses,        \* the rows of sandbox_sessions
    outcome,    \* the rows of sandbox_session_calls
    lane,       \* the state of each lane
    handler,    \* the state of each call handler
    ns,         \* the namespace of each session in Kubernetes
    policy,     \* its deny-all network policy and pod quota are there
    kernel,     \* its pod
    code,       \* the requests whose code runs in the pod
    ran,        \* history: how often the code of each request was started
    told,       \* history: the requests whose callers were told of success
    pods,       \* history: the pods in which the code of a session was started
    late,       \* history: a request of a lane landed after its lease had ended
    faults

app == <<revision, active, dep, resize, key>>
db == <<app, ses, outcome>>
kube == <<ns, policy, kernel, code>>
hist == <<ran, told, pods>>
vars == <<db, lane, handler, kube, hist, late, faults>>

Session == [status : {"absent", "starting", "ready", "closing", "closed"},
            pending : BOOLEAN, revision : 0..MaxRevision, owner : Owners \cup {NoOne},
            ns : Uids, pod : Uids, lease : Lanes \cup {NoOne}, live : BOOLEAN,
            call : Handlers \cup {NoOne}, overdue : BOOLEAN, expired : BOOLEAN,
            slow : BOOLEAN, recent : BOOLEAN]
NoSession == [status |-> "absent", pending |-> FALSE, revision |-> 0, owner |-> NoOne,
              ns |-> 0, pod |-> 0, lease |-> NoOne, live |-> FALSE, call |-> NoOne,
              overdue |-> FALSE, expired |-> FALSE, slow |-> FALSE, recent |-> FALSE]

\* The part of a row that does not change under a lane's lease, as the lane read it.
Copy(row) == [status |-> row.status, ns |-> row.ns, pod |-> row.pod, call |-> row.call]
Copies == {Copy(row) : row \in Session}

\* A lane works on a copy r of the row; uids and ready are what it observed.
Lane == [pc : {"idle", "authority", "ns", "policy", "pod", "state", "save", "request",
               "pods", "inventory", "cleaned"},
         s : Sessions \cup {NoOne}, r : Copies, armed : BOOLEAN,
         ns : Uids, pod : Uids, ready : BOOLEAN, err : BOOLEAN]
IdleLane == [pc |-> "idle", s |-> NoOne, r |-> Copy(NoSession), armed |-> FALSE,
             ns |-> 0, pod |-> 0, ready |-> FALSE, err |-> FALSE]

Handler == [pc : {"idle", "observe", "guard", "exec", "after", "finish"}, s : Sessions \cup {NoOne},
            q : Requests \cup {NoOne}, pod : Uids, ok : BOOLEAN]
IdleHandler == [pc |-> "idle", s |-> NoOne, q |-> NoOne, pod |-> 0, ok |-> FALSE]

TypeOK ==
    /\ revision \in Revisions /\ active \in Revisions /\ key \in BOOLEAN
    /\ dep \in {"none", "queued", "running", "switching"} /\ resize \in {"none", "copying", "switching"}
    /\ ses \in [Sessions -> Session]
    /\ outcome \in [Sessions -> [Requests -> {"none", "started", "complete", "interrupted"}]]
    /\ lane \in [Lanes -> Lane] /\ handler \in [Handlers -> Handler]
    /\ ns \in [Sessions -> [uid : Uids, used : Uids, term : BOOLEAN]]
    /\ policy \in [Sessions -> BOOLEAN]
    /\ kernel \in [Sessions -> [uid : Uids, used : Uids, state : {"none", "starting", "ready", "stopped", "terminating"}]]
    /\ code \in [Sessions -> SUBSET Requests]
    /\ ran \in [Sessions -> [Requests -> Nat]]
    /\ told \in [Sessions -> SUBSET Requests] /\ pods \in [Sessions -> SUBSET Uids]
    /\ late \in BOOLEAN /\ faults \in 0..MaxFaults

Init ==
    /\ revision = 1 /\ active = 1 /\ dep = "none" /\ resize = "none" /\ key = TRUE
    /\ ses = [s \in Sessions |-> NoSession]
    /\ outcome = [s \in Sessions |-> [q \in Requests |-> "none"]]
    /\ lane = [w \in Lanes |-> IdleLane] /\ handler = [h \in Handlers |-> IdleHandler]
    /\ ns = [s \in Sessions |-> [uid |-> 0, used |-> 0, term |-> FALSE]]
    /\ policy = [s \in Sessions |-> FALSE]
    /\ kernel = [s \in Sessions |-> [uid |-> 0, used |-> 0, state |-> "none"]]
    /\ code = [s \in Sessions |-> {}]
    /\ ran = [s \in Sessions |-> [q \in Requests |-> 0]]
    /\ told = [s \in Sessions |-> {}] /\ pods = [s \in Sessions |-> {}]
    /\ late = FALSE /\ faults = 0

-----------------------------------------------------------------------------
(* Callers, deployments and maintenance of the application.                *)

\* Faulty variant: a session that is closing no longer counts.
OpenOnly(s) == ses[s].status \in {"starting", "ready"}
\* status <> 'closed' OR cleanup_pending.
Active(s) == ses[s].status \in {"starting", "ready", "closing"} \/ ses[s].pending
SessionsActive == \E s \in Sessions : Active(s)

\* The pending work CreateSession refuses to join.
CreateAllowed == dep = "none" /\ resize = "none"

\* CreateSession at the current, successfully deployed revision.
CreateSession(s, o) ==
    /\ ses[s].status = "absent" /\ key /\ active = revision /\ CreateAllowed
    /\ Cardinality({t \in Sessions : Active(t)}) < MaxActive
    /\ \A t \in Sessions : Active(t) => ses[t].owner # o
    /\ ses' = [ses EXCEPT ![s] = [NoSession EXCEPT !.status = "starting", !.revision = revision, !.owner = o]]
    /\ UNCHANGED <<app, outcome, lane, handler, kube, hist, late, faults>>

CloseSession(s) ==
    /\ key /\ ses[s].status \notin {"absent", "closed"}
    /\ ses' = [ses EXCEPT ![s].status = "closing", ![s].pending = TRUE]
    /\ UNCHANGED <<app, outcome, lane, handler, kube, hist, late, faults>>

\* Faulty variant: sessions do not hold up a deployment.
NoFence == SessionsActive \in BOOLEAN
\* fenceSessionsForDeployment, in acceptance and in Claim.
SessionsFenced == ~SessionsActive

Accept ==
    /\ revision < MaxRevision /\ dep = "none" /\ resize = "none" /\ SessionsFenced
    /\ dep' = "queued" /\ revision' = revision + 1
    /\ UNCHANGED <<active, resize, key, ses, outcome, lane, handler, kube, hist, late, faults>>

DeployClaim ==
    /\ dep = "queued" /\ SessionsFenced /\ dep' = "running"
    /\ UNCHANGED <<revision, active, resize, key, ses, outcome, lane, handler, kube, hist, late, faults>>

DeployEnd(ok) ==
    /\ dep = "running" /\ dep' = "none"
    /\ active' = IF ok THEN revision ELSE active
    /\ UNCHANGED <<revision, resize, key, ses, outcome, lane, handler, kube, hist, late, faults>>

\* StartVolumeResize does not look at sessions.
StartVolumeResize ==
    /\ WithResize /\ dep = "none" /\ resize = "none" /\ active = revision
    /\ resize' = "copying"
    /\ UNCHANGED <<revision, active, dep, key, ses, outcome, lane, handler, kube, hist, late, faults>>

\* BeginCutover inserts the row of the next revision as running.
BeginCutover ==
    /\ resize = "copying" /\ revision < MaxRevision
    /\ resize' = "switching" /\ dep' = "switching" /\ revision' = revision + 1
    /\ UNCHANGED <<active, key, ses, outcome, lane, handler, kube, hist, late, faults>>

\* The switch ends well, or fails and both volumes are kept; or it is cancelled.
ResizeEnds(ok) ==
    /\ resize # "none" /\ resize' = "none" /\ dep' = "none"
    /\ active' = IF ok /\ resize = "switching" THEN revision ELSE active
    /\ UNCHANGED <<revision, key, ses, outcome, lane, handler, kube, hist, late, faults>>

Revoke ==
    /\ key /\ faults < MaxFaults /\ faults' = faults + 1 /\ key' = FALSE
    /\ UNCHANGED <<revision, active, dep, resize, ses, outcome, lane, handler, kube, hist, late>>

-----------------------------------------------------------------------------
(* Time.  HeartbeatSession only puts off the idle deadline.                *)

Passed == UNCHANGED <<app, outcome, lane, handler, kube, hist, late>>

Expire(s) ==
    /\ ses[s].status \in {"starting", "ready"} /\ ~ses[s].expired
    /\ ses' = [ses EXCEPT ![s].expired = TRUE]
    /\ Passed /\ UNCHANGED faults

StartupDeadline(s) ==
    /\ ses[s].status = "starting" /\ ~ses[s].slow
    /\ ses' = [ses EXCEPT ![s].slow = TRUE]
    /\ Passed /\ UNCHANGED faults

CallDeadline(s) ==
    /\ ses[s].call # NoOne /\ ~ses[s].overdue
    /\ ses' = [ses EXCEPT ![s].overdue = TRUE]
    /\ Passed /\ UNCHANGED faults

\* Ten minutes after it was closed a receipt is left alone.
CloseAges(s) ==
    /\ ses[s].status = "closed" /\ ses[s].recent
    /\ ses' = [ses EXCEPT ![s].recent = FALSE]
    /\ Passed /\ UNCHANGED faults

\* A lease outlives the step it is for, unless the lane has crashed or its
\* request is held up.
LeaseExpires(s) ==
    LET w == ses[s].lease IN
    /\ w # NoOne /\ ses[s].live
    /\ IF lane[w].pc # "idle" /\ lane[w].s = s
         THEN faults < MaxFaults /\ faults' = faults + 1
         ELSE UNCHANGED faults
    /\ ses' = [ses EXCEPT ![s].live = FALSE]
    /\ Passed

-----------------------------------------------------------------------------
(* A step of reconcileSession.                                             *)

Due(s) == \/ ses[s].status = "closing" \/ ses[s].expired
          \/ ses[s].call # NoOne /\ ses[s].overdue

\* The order of the candidates of ClaimSession.
Class(s) == IF Due(s) THEN 0 ELSE IF ses[s].status = "starting" THEN 1 ELSE 2

\* Faulty variant: only sessions that are open are looked for.
ClaimableOpen(s) == ses[s].status \in {"starting", "ready"} /\ ~ses[s].live
Claimable(s) ==
    /\ ses[s].status # "absent" /\ ~ses[s].live
    /\ ses[s].status = "closed" => ses[s].pending \/ ses[s].recent

ClaimSession(w, s) ==
    /\ lane[w].pc = "idle" /\ Claimable(s)
    /\ \A t \in Sessions : Claimable(t) => Class(s) <= Class(t)
    /\ ses' = [ses EXCEPT ![s].lease = w, ![s].live = TRUE]
    /\ lane' = [lane EXCEPT ![w] = [IdleLane EXCEPT !.s = s, !.r = Copy(ses[s]),
                   !.pc = IF ses[s].status \in {"closing", "closed"} THEN "pods" ELSE "authority"]]
    /\ UNCHANGED <<app, outcome, handler, kube, hist, late, faults>>

\* The token of the lane is in the row and the lease has not run out.
Leased(w) == ses[lane[w].s].lease = w /\ ses[lane[w].s].live

\* CheckSessionLease beyond the lease itself.
Authorized(s) ==
    /\ ses[s].status \in {"starting", "ready"} /\ ~ses[s].expired
    /\ revision = ses[s].revision /\ key

Goto(w, pc) == lane' = [lane EXCEPT ![w].pc = pc, ![w].armed = FALSE]

\* The step ends: ReleaseSessionLease on what the row has become.
End(w, row) ==
    /\ lane' = [lane EXCEPT ![w] = IdleLane]
    /\ ses' = [ses EXCEPT ![lane[w].s] =
                  IF ses[lane[w].s].lease = w THEN [row EXCEPT !.lease = NoOne, !.live = FALSE] ELSE row]

Stay(w) == End(w, ses[lane[w].s])

\* The copy of the row says that a call is overdue; it may have ended since.
CallOverdue(w) ==
    LET s == lane[w].s IN
    lane[w].r.call # NoOne /\ (ses[s].call = lane[w].r.call => ses[s].overdue)

Authority(w) ==
    LET s == lane[w].s  r == lane[w].r IN
    /\ lane[w].pc = "authority"
    /\ \/ ~Leased(w) /\ Stay(w)
       \/ /\ Leased(w)
          /\ ~Authorized(s) \/ CallOverdue(w) \/ (r.status = "starting" /\ ses[s].slow)
          /\ Goto(w, "request") /\ UNCHANGED ses
       \/ /\ Leased(w) /\ Authorized(s) /\ ~(r.status = "starting" /\ ses[s].slow)
          /\ CallOverdue(w) => ses[s].call # r.call
          /\ Goto(w, IF active # ses[s].revision THEN "request"   \* sandboxTemplate
                     ELSE IF r.status = "starting" THEN "ns" ELSE "state")
          /\ UNCHANGED ses
    /\ UNCHANGED <<app, outcome, handler, kube, hist, late, faults>>

-----------------------------------------------------------------------------
(* StartSession and ObserveSession.                                        *)

\* sandboxNamespace: the namespace is there, is the recorded one and stays.
NamespaceValid(w) ==
    LET s == lane[w].s IN
    ns[s].uid # 0 /\ ~ns[s].term /\ lane[w].r.ns \in {0, ns[s].uid}

\* Faulty variant: a pod that is missing is created again.
AlwaysCreate(w) == kernel[lane[w].s].uid = 0
\* A recorded pod is never created again.
NotRecorded(w) == kernel[lane[w].s].uid = 0 /\ lane[w].r.pod = 0

\* The object the lane has come to has to be created.
Missing(w) ==
    LET s == lane[w].s  r == lane[w].r IN
    \/ lane[w].pc = "ns" /\ ns[s].uid = 0 /\ r.ns = 0 /\ r.pod = 0
    \/ lane[w].pc = "policy" /\ ~policy[s]
    \/ lane[w].pc = "pod" /\ NotRecorded(w)

\* The check before the object is created.
Arm(w) ==
    /\ Missing(w) /\ ~lane[w].armed /\ Leased(w) /\ Authorized(lane[w].s)
    /\ lane' = [lane EXCEPT ![w].armed = TRUE]
    /\ UNCHANGED <<db, handler, kube, hist, late, faults>>

\* An error: what is known of the runtime is saved before the cleanup is asked for.
Fail(w) == lane' = [lane EXCEPT ![w].armed = FALSE, ![w].err = TRUE,
                                ![w].pc = IF lane[w].ns = 0 THEN "request" ELSE "save"]

NotArmed(w) ==
    /\ Missing(w) /\ ~lane[w].armed /\ ~(Leased(w) /\ Authorized(lane[w].s))
    /\ Fail(w)
    /\ UNCHANGED <<db, handler, kube, hist, late, faults>>

Landed(w) == late' = (late \/ ~Leased(w)) /\ UNCHANGED <<db, handler, code, hist, faults>>

\* ensureSandboxBoundaries and sandboxRegistry come before the pod.
AfterNamespace(w) == "policy"

StartNamespace(w) ==
    LET s == lane[w].s IN
    /\ lane[w].pc = "ns"
    /\ \/ /\ lane[w].armed /\ ns[s].uid = 0 /\ ns[s].used < MaxUids
          /\ ns' = [ns EXCEPT ![s] = [uid |-> @.used + 1, used |-> @.used + 1, term |-> FALSE]]
          /\ lane' = [lane EXCEPT ![w].armed = FALSE, ![w].ns = ns[s].used + 1, ![w].pc = AfterNamespace(w)]
          /\ UNCHANGED <<policy, kernel>> /\ Landed(w)
       \/ /\ NamespaceValid(w)
          /\ lane' = [lane EXCEPT ![w].armed = FALSE, ![w].ns = ns[s].uid, ![w].pc = AfterNamespace(w)]
          /\ UNCHANGED <<db, handler, kube, hist, late, faults>>
       \/ /\ ~NamespaceValid(w) /\ ~Missing(w) /\ Fail(w)
          /\ UNCHANGED <<db, handler, kube, hist, late, faults>>

StartPolicy(w) ==
    LET s == lane[w].s IN
    /\ lane[w].pc = "policy"
    /\ \/ /\ policy[s] /\ Goto(w, "pod")
          /\ UNCHANGED <<db, handler, kube, hist, late, faults>>
       \/ /\ lane[w].armed /\ ~policy[s] /\ ns[s].uid # 0 /\ ~ns[s].term
          /\ policy' = [policy EXCEPT ![s] = TRUE]
          /\ Goto(w, "pod")
          /\ UNCHANGED <<ns, kernel>> /\ Landed(w)
       \/ /\ lane[w].armed /\ (ns[s].uid = 0 \/ ns[s].term) /\ Fail(w)
          /\ UNCHANGED <<db, handler, kube, hist, late, faults>>

StartPod(w) ==
    LET s == lane[w].s IN
    /\ lane[w].pc = "pod"
    /\ \/ /\ kernel[s].uid # 0 /\ Goto(w, "state")
          /\ UNCHANGED <<db, handler, kube, hist, late, faults>>
       \/ /\ lane[w].armed /\ NotRecorded(w) /\ ns[s].uid # 0 /\ ~ns[s].term /\ kernel[s].used < MaxUids
          /\ kernel' = [kernel EXCEPT ![s] = [uid |-> @.used + 1, used |-> @.used + 1, state |-> "starting"]]
          /\ Goto(w, "state")
          /\ UNCHANGED <<ns, policy>> /\ Landed(w)
       \/ /\ \/ ~NotRecorded(w) /\ kernel[s].uid = 0
             \/ lane[w].armed /\ (ns[s].uid = 0 \/ ns[s].term)
          /\ Fail(w)
          /\ UNCHANGED <<db, handler, kube, hist, late, faults>>

\* sandboxState: the pod is the recorded one and has not stopped.
PodValid(s, pod) ==
    kernel[s].uid # 0 /\ pod \in {0, kernel[s].uid} /\ kernel[s].state \in {"starting", "ready"}

ReadState(w) ==
    LET s == lane[w].s  r == lane[w].r
        known == lane[w].ns # 0 \/ NamespaceValid(w)
        nsUid == IF lane[w].ns # 0 THEN lane[w].ns ELSE ns[s].uid
        seen == lane[w].ns # 0 \/ policy[s]
        ok == seen /\ PodValid(s, r.pod) IN
    /\ lane[w].pc = "state"
    /\ lane' = [lane EXCEPT ![w] =
           IF ~known THEN [@ EXCEPT !.err = TRUE, !.pc = "request"]
           ELSE [@ EXCEPT !.pc = "save", !.ns = nsUid, !.err = ~ok,
                          !.pod = IF seen /\ r.pod \in {0, kernel[s].uid} THEN kernel[s].uid ELSE 0,
                          !.ready = ok /\ kernel[s].state = "ready"]]
    /\ UNCHANGED <<db, handler, kube, hist, late, faults>>

\* SaveSessionRuntime: the identities only ever go from none to one value.
SaveSessionRuntime(w) ==
    LET s == lane[w].s  l == lane[w]
        ok == /\ Leased(w) /\ ses[s].status \in {"starting", "ready"}
              /\ ses[s].ns \in {0, l.ns} /\ ses[s].pod \in {0, l.pod}
        row == [ses[s] EXCEPT !.ns = l.ns, !.pod = l.pod, !.pending = FALSE,
                              !.status = IF l.ready THEN "ready" ELSE "starting"] IN
    /\ l.pc = "save"
    /\ \/ ok /\ ~l.err /\ End(w, row)
       \/ ok /\ l.err /\ ses' = [ses EXCEPT ![s] = row] /\ Goto(w, "request")
       \/ ~ok /\ Goto(w, "request") /\ UNCHANGED ses
    /\ UNCHANGED <<app, outcome, handler, kube, hist, late, faults>>

RequestSessionCleanup(w) ==
    LET s == lane[w].s IN
    /\ lane[w].pc = "request"
    /\ \/ /\ Leased(w) /\ ses[s].status # "closed"
          /\ End(w, [ses[s] EXCEPT !.status = "closing", !.pending = TRUE])
       \/ /\ ~(Leased(w) /\ ses[s].status # "closed") /\ Stay(w)
    /\ UNCHANGED <<app, outcome, handler, kube, hist, late, faults>>

-----------------------------------------------------------------------------
(* CleanupSession.                                                         *)

\* The namespace is gone; or its pod is deleted; or there is none left.
CleanupPods(w) ==
    LET s == lane[w].s  r == lane[w].r IN
    /\ lane[w].pc = "pods"
    /\ \/ /\ ns[s].uid = 0 /\ Goto(w, "cleaned")
          /\ UNCHANGED <<ses, kernel>>
       \/ /\ ns[s].uid # 0 /\ kernel[s].uid # 0 /\ r.ns \in {0, ns[s].uid} /\ r.pod \in {0, kernel[s].uid}
          /\ kernel' = [kernel EXCEPT ![s].state = "terminating"]
          /\ Stay(w)
       \/ /\ ns[s].uid # 0 /\ kernel[s].uid = 0 /\ r.ns \in {0, ns[s].uid}
          /\ lane' = [lane EXCEPT ![w].ns = ns[s].uid, ![w].pc = "inventory"]
          /\ UNCHANGED <<ses, kernel>>
       \/ /\ ns[s].uid # 0
          /\ r.ns \notin {0, ns[s].uid} \/ (kernel[s].uid # 0 /\ r.pod \notin {0, kernel[s].uid})
          /\ Stay(w) /\ UNCHANGED kernel
    /\ UNCHANGED <<app, outcome, handler, ns, policy, code, hist, late, faults>>

\* Faulty variant: the cleanup counts as done once the deletion is requested.
CleanSoon(s) == ns[s].uid = 0 \/ ns[s].term
\* The last Get finds no namespace.
Clean(s) == ns[s].uid = 0

\* The namespace is deleted with its UID as precondition.
CleanupNamespace(w) ==
    LET s == lane[w].s IN
    /\ lane[w].pc = "inventory"
    /\ ns' = [ns EXCEPT ![s].term = @ \/ ns[s].uid = lane[w].ns]
    /\ \/ Clean(s) /\ Goto(w, "cleaned") /\ UNCHANGED ses
       \/ ~Clean(s) /\ Stay(w)
    /\ UNCHANGED <<app, outcome, handler, policy, kernel, code, hist, late, faults>>

\* SessionCleaned ends the session and the calls that had not ended.
SessionCleaned(w) ==
    LET s == lane[w].s IN
    /\ lane[w].pc = "cleaned"
    /\ \/ /\ Leased(w) /\ ses[s].status \in {"closing", "closed"}
          /\ End(w, [ses[s] EXCEPT !.status = "closed", !.pending = FALSE, !.call = NoOne, !.overdue = FALSE,
                                   !.recent = IF ses[s].status = "closed" THEN @ ELSE TRUE])
          /\ outcome' = [outcome EXCEPT ![s] = [q \in Requests |-> IF @[q] = "started" THEN "interrupted" ELSE @[q]]]
       \/ /\ ~(Leased(w) /\ ses[s].status \in {"closing", "closed"})
          /\ Stay(w) /\ UNCHANGED outcome
    /\ UNCHANGED <<app, handler, kube, hist, late, faults>>

\* A request to Kubernetes fails, or the inventory finds something unexpected.
RequestFails(w) ==
    /\ faults < MaxFaults /\ faults' = faults + 1
    /\ \/ lane[w].pc \in {"ns", "policy", "pod", "state"} /\ Fail(w) /\ UNCHANGED ses
       \/ lane[w].pc \in {"pods", "inventory"} /\ Stay(w)
    /\ UNCHANGED <<app, outcome, handler, kube, hist, late>>

\* The process dies; the lease stays until it runs out.
Crash(w) ==
    /\ faults < MaxFaults /\ faults' = faults + 1
    /\ lane[w].pc # "idle" /\ lane' = [lane EXCEPT ![w] = IdleLane]
    /\ UNCHANGED <<db, handler, kube, hist, late>>

LaneStep(w) ==
    \/ \E s \in Sessions : ClaimSession(w, s)
    \/ Authority(w) \/ Arm(w) \/ NotArmed(w)
    \/ StartNamespace(w) \/ StartPolicy(w) \/ StartPod(w) \/ ReadState(w)
    \/ SaveSessionRuntime(w) \/ RequestSessionCleanup(w)
    \/ CleanupPods(w) \/ CleanupNamespace(w) \/ SessionCleaned(w)

-----------------------------------------------------------------------------
(* Calls: callSandboxSession.                                              *)

\* Faulty variant: a repeated request is taken as long as the kernel is free.
AnyRequest(s, q) == ses[s].call = NoOne /\ q \in Requests
\* One call at a time, and every request of a session at most once.
NewRequest(s, q) == ses[s].call = NoOne /\ outcome[s][q] = "none"

ClaimSessionCall(h, s, q) ==
    /\ handler[h].pc = "idle" /\ key
    /\ ses[s].status = "ready" /\ ~ses[s].expired /\ NewRequest(s, q)
    /\ ses' = [ses EXCEPT ![s].call = h, ![s].overdue = FALSE]
    /\ outcome' = [outcome EXCEPT ![s][q] = "started"]
    /\ handler' = [handler EXCEPT ![h] = [pc |-> "observe", s |-> s, q |-> q, pod |-> ses[s].pod, ok |-> FALSE]]
    /\ UNCHANGED <<app, lane, kube, hist, late, faults>>

\* ObserveSession: the namespace and the pod are the recorded ones and stay, the
\* policy is there and the kernel is ready.
ObservedReady(h) ==
    LET s == handler[h].s IN
    /\ active = ses[s].revision          \* sandboxTemplate
    /\ ns[s].uid = ses[s].ns /\ ~ns[s].term /\ policy[s]
    /\ kernel[s].uid = handler[h].pod /\ kernel[s].state = "ready"

ObserveBefore(h) ==
    /\ handler[h].pc = "observe" /\ ObservedReady(h)
    /\ handler' = [handler EXCEPT ![h].pc = "guard"]
    /\ UNCHANGED <<db, lane, kube, hist, late, faults>>

\* The exec reaches a pod of the recorded UID, also one that is being deleted or is
\* not ready any more: runCommand of the guard compares the UID and no more.
GuardPasses(h) ==
    LET k == kernel[handler[h].s] IN
    k.uid = handler[h].pod /\ k.state \in {"starting", "ready", "terminating"}

\* CallSession hands the input to the helper in the pod.
CallSession(h) ==
    LET s == handler[h].s  q == handler[h].q IN
    /\ handler[h].pc = "guard" /\ GuardPasses(h)
    /\ code' = [code EXCEPT ![s] = @ \cup {q}]
    /\ ran' = [ran EXCEPT ![s][q] = @ + 1]
    /\ pods' = [pods EXCEPT ![s] = @ \cup {kernel[s].uid}]
    /\ handler' = [handler EXCEPT ![h].pc = "exec"]
    /\ UNCHANGED <<db, lane, ns, policy, kernel, told, late, faults>>

\* The helper ends; a handler that still listens sees it.
CodeEnds(s, q) ==
    /\ q \in code[s]
    /\ code' = [code EXCEPT ![s] = @ \ {q}]
    /\ handler' = [h \in Handlers |->
           IF handler[h].pc = "exec" /\ handler[h].s = s /\ handler[h].q = q
             THEN [handler[h] EXCEPT !.pc = "after"] ELSE handler[h]]
    /\ UNCHANGED <<db, lane, ns, policy, kernel, hist, late, faults>>

\* The container is observed again after the call.
CallObserved(h) ==
    /\ handler[h].pc = "after"
    /\ handler' = [handler EXCEPT ![h].pc = "finish", ![h].ok = ObservedReady(h)]
    /\ UNCHANGED <<db, lane, kube, hist, late, faults>>

\* CheckSessionCall, once a second while the call runs.
CallValid(h) ==
    LET s == handler[h].s IN
    /\ ses[s].status = "ready" /\ ses[s].call = h /\ ~ses[s].expired /\ ~ses[s].overdue
    /\ revision = ses[s].revision /\ key

Interrupted(h) ==
    /\ handler' = [handler EXCEPT ![h].pc = "finish", ![h].ok = FALSE]
    /\ UNCHANGED <<db, lane, kube, hist, late>>

\* The check fails, the deadline passes or the observation does; the code in the
\* pod is not stopped by this.
CallCancelled(h) ==
    /\ \/ handler[h].pc \in {"observe", "guard", "exec", "after"} /\ ~CallValid(h)
       \/ handler[h].pc = "observe" /\ ~ObservedReady(h)
       \/ handler[h].pc = "guard" /\ ~GuardPasses(h)
       \/ handler[h].pc = "exec" /\ handler[h].q \notin code[handler[h].s]
    /\ Interrupted(h) /\ UNCHANGED faults

\* The caller hangs up or the stream breaks.
CallBroken(h) ==
    /\ faults < MaxFaults /\ faults' = faults + 1
    /\ handler[h].pc \in {"observe", "guard", "exec", "after"} /\ Interrupted(h)

\* Faulty variant: an interrupted call leaves the session ready.
KeptReady(s, ok) == ses[s]
\* FinishSessionCall closes the session of a call that did not complete.
CallEnded(s, ok) ==
    IF ok THEN ses[s] ELSE [ses[s] EXCEPT !.status = "closing", !.pending = TRUE]

\* Faulty variant: the token in the row is not compared.
AnyToken(h) == handler[h].pc = "finish"
\* The row still holds the token of this call.
OwnsCall(h) == ses[handler[h].s].call = h

\* Faulty variant: the answer does not wait for the record.
SuccessAnyway(h) == handler[h].ok
\* What the caller is told: complete and on record.
Success(h) == handler[h].ok /\ OwnsCall(h)

FinishSessionCall(h) ==
    LET s == handler[h].s  q == handler[h].q  ok == handler[h].ok IN
    /\ handler[h].pc = "finish"
    /\ handler' = [handler EXCEPT ![h] = IdleHandler]
    /\ \/ /\ OwnsCall(h)
          /\ ses' = [ses EXCEPT ![s] = [CallEnded(s, ok) EXCEPT !.call = NoOne, !.overdue = FALSE]]
          /\ outcome' = [outcome EXCEPT ![s][q] = IF ok THEN "complete" ELSE "interrupted"]
       \/ /\ ~OwnsCall(h) /\ UNCHANGED <<ses, outcome>>
    /\ told' = [told EXCEPT ![s] = IF Success(h) THEN @ \cup {q} ELSE @]
    /\ UNCHANGED <<app, lane, kube, ran, pods, late, faults>>

\* The process dies, or the outcome cannot be written.
HandlerLost(h) ==
    /\ faults < MaxFaults /\ faults' = faults + 1
    /\ handler[h].pc # "idle" /\ handler' = [handler EXCEPT ![h] = IdleHandler]
    /\ UNCHANGED <<db, lane, kube, hist, late>>

HandlerStep(h) ==
    ObserveBefore(h) \/ CallSession(h) \/ CallObserved(h) \/ CallCancelled(h) \/ FinishSessionCall(h)

-----------------------------------------------------------------------------
(* Kubernetes.                                                             *)

Elsewhere == UNCHANGED <<db, lane, handler, hist, late>>

KernelStarts(s) ==
    /\ kernel[s].state = "starting" /\ kernel' = [kernel EXCEPT ![s].state = "ready"]
    /\ UNCHANGED <<ns, policy, code, faults>> /\ Elsewhere

\* A node that does not answer: the pod is no longer reported as ready.
KernelUnready(s) ==
    /\ faults < MaxFaults /\ faults' = faults + 1
    /\ kernel[s].state = "ready" /\ kernel' = [kernel EXCEPT ![s].state = "starting"]
    /\ UNCHANGED <<ns, policy, code>> /\ Elsewhere

\* The kernel ends by itself, at its deadline, or with its node.
KernelStops(s) ==
    /\ kernel[s].state \in {"starting", "ready"}
    /\ kernel' = [kernel EXCEPT ![s].state = "stopped"] /\ code' = [code EXCEPT ![s] = {}]
    /\ UNCHANGED <<ns, policy, faults>> /\ Elsewhere

\* A deleted pod, or one that stopped and is collected, disappears.
KernelGone(s) ==
    /\ kernel[s].state \in {"stopped", "terminating"}
    /\ kernel' = [kernel EXCEPT ![s].uid = 0, ![s].state = "none"] /\ code' = [code EXCEPT ![s] = {}]
    /\ UNCHANGED <<ns, policy, faults>> /\ Elsewhere

\* A namespace that is being deleted takes its pod and its policy with it.
NamespaceGone(s) ==
    /\ ns[s].uid # 0 /\ ns[s].term
    /\ ns' = [ns EXCEPT ![s].uid = 0, ![s].term = FALSE]
    /\ policy' = [policy EXCEPT ![s] = FALSE]
    /\ kernel' = [kernel EXCEPT ![s].uid = 0, ![s].state = "none"] /\ code' = [code EXCEPT ![s] = {}]
    /\ UNCHANGED faults /\ Elsewhere

-----------------------------------------------------------------------------
User ==
    \/ \E s \in Sessions : CloseSession(s) \/ \E o \in Owners : CreateSession(s, o)
    \/ \E h \in Handlers, s \in Sessions, q \in Requests : ClaimSessionCall(h, s, q)
    \/ Accept \/ StartVolumeResize

Deploy ==
    \/ DeployClaim \/ BeginCutover
    \/ \E ok \in BOOLEAN : DeployEnd(ok) \/ ResizeEnds(ok)

Deadlines ==
    \E s \in Sessions : Expire(s) \/ StartupDeadline(s) \/ CallDeadline(s) \/ CloseAges(s)

Cluster(s) ==
    \/ KernelStarts(s) \/ KernelGone(s) \/ NamespaceGone(s)
    \/ \E q \in Requests : CodeEnds(s, q)

Faults ==
    \/ Revoke
    \/ \E w \in Lanes : RequestFails(w) \/ Crash(w)
    \/ \E h \in Handlers : CallBroken(h) \/ HandlerLost(h)
    \/ \E s \in Sessions : KernelUnready(s) \/ KernelStops(s)

Next ==
    \/ User \/ Deploy \/ Deadlines \/ Faults
    \/ \E w \in Lanes : LaneStep(w)
    \/ \E h \in Handlers : HandlerStep(h)
    \/ \E s \in Sessions : LeaseExpires(s) \/ Cluster(s)

Spec == Init /\ [][Next]_vars

\* Lanes loop for ever, handlers run to their end, leases and the deadlines of
\* sessions and calls pass, Kubernetes deletes what it is asked to delete.
FairSpec ==
    /\ Spec
    /\ \A w \in Lanes : WF_vars(LaneStep(w))
    /\ \A h \in Handlers : WF_vars(HandlerStep(h))
    /\ \A s \in Sessions :
          /\ WF_vars(LeaseExpires(s)) /\ WF_vars(Expire(s)) /\ WF_vars(CallDeadline(s))
          /\ WF_vars(KernelGone(s)) /\ WF_vars(NamespaceGone(s))

-----------------------------------------------------------------------------
(* Properties.                                                             *)

\* One active call per session: the code of two calls never runs in a kernel at
\* the same time, not even when the first was given up and goes on in the pod, and
\* all calls run in one pod, so that no call finds a kernel without its memory.
OneCall == \A s \in Sessions : Cardinality(code[s]) <= 1 /\ Cardinality(pods[s]) <= 1

\* A repeated request is refused: its code is started at most once in a session.
NoReplay == \A s \in Sessions, q \in Requests : ran[s][q] <= 1

\* A caller is told of success only when the outcome is on record as complete.
ToldComplete == \A s \in Sessions : \A q \in told[s] : outcome[s][q] = "complete"

\* The outcome of a call is final: an answer that arrives after the cleanup, or a
\* cleanup that is repeated, does not change it.
OutcomeFinal ==
    [][\A s \in Sessions, q \in Requests :
          outcome[s][q] \in {"complete", "interrupted"} => outcome'[s][q] = outcome[s][q]]_vars

\* Namespace and pod of a session are never replaced once they are recorded, as
\* long as no request of a lane landed after its lease had ended.
NeverRecreated ==
    ~late => \A s \in Sessions :
        /\ ses[s].ns # 0 => ns[s].uid \in {0, ses[s].ns}
        /\ ses[s].pod # 0 => kernel[s].uid \in {0, ses[s].pod}

\* A receipt that is closed confirms the cleanup: nothing of the session is there,
\* as long as no request of a lane landed after its lease had ended.
ClosedClean ==
    ~late => \A s \in Sessions : ses[s].status = "closed" => ns[s].uid = 0 /\ kernel[s].uid = 0

\* An ordinary deployment and a session never overlap: while one is pending no
\* session is active, late requests or not. As long as no request of a lane landed
\* after its lease had ended, no kernel is left either, and none ever runs without
\* its deny-all policy. With the types of the rows.
DeployFenced ==
    /\ TypeOK
    /\ dep \in {"queued", "running"} =>
           ~SessionsActive /\ (~late => \A s \in Sessions : kernel[s].uid = 0)
    /\ ~late => \A s \in Sessions : kernel[s].uid # 0 => policy[s]

\* The limits on sessions hold for the kernels too: those of the application, and
\* one for each owner and runtime key, however long a cleanup takes, as long as no
\* request of a lane landed after its lease had ended.
Limits ==
    ~late => /\ Cardinality({s \in Sessions : kernel[s].uid # 0}) <= MaxActive
             /\ \A s, t \in Sessions :
                    s # t /\ kernel[s].uid # 0 /\ kernel[t].uid # 0 => ses[s].owner # ses[t].owner

\* A request that landed after its lease left a namespace or a pod other than the
\* recorded one: CleanupSession refuses it and leaves it to the operator.
CleanupBlocked(s) ==
    /\ ns[s].uid # 0
    /\ ses[s].ns \notin {0, ns[s].uid} \/ (kernel[s].uid # 0 /\ ses[s].pod \notin {0, kernel[s].uid})

\* Every session ends in a confirmed cleanup, unless the cleanup is blocked.
SessionsEnd ==
    \A s \in Sessions :
        ses[s].status = "starting" ~> ses[s].status = "closed" \/ CleanupBlocked(s)

\* Every call that was started gets an outcome, also when its handler dies, unless
\* the cleanup that would settle it is blocked.
CallsSettle ==
    \A s \in Sessions, q \in Requests :
        outcome[s][q] = "started" ~>
            outcome[s][q] \in {"complete", "interrupted"} \/ CleanupBlocked(s)

=============================================================================

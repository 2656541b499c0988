----------------------- MODULE SandboxSessionsProofs -----------------------
(***************************************************************************)
(* Proofs about SandboxSessions, for every set of sessions, owners, lanes, *)
(* call handlers and requests, and every bound on revisions and faults.    *)
(***************************************************************************)
EXTENDS SandboxSessions, FiniteSetTheorems, TLAPS

-----------------------------------------------------------------------------
(* The inductive invariant: calls.                                         *)

Over == {"closing", "closed"}

\* What is true of the row of a session and of the calls made in it.
RowOK(s) ==
    /\ ses[s].status \in {"absent", "closed"} => ~ses[s].pending /\ ses[s].call = NoOne
    /\ ses[s].status = "absent" => ses[s].ns = 0 /\ ses[s].pod = 0
    /\ ses[s].status = "ready" => ses[s].pod # 0
    /\ code[s] # {} => ses[s].call # NoOne \/ ses[s].status \in Over
    /\ \A p \in pods[s] : p = ses[s].pod /\ p # 0
    /\ \A q, r \in code[s] : q = r
    /\ \A q \in Requests : /\ ran[s][q] \in {0, 1}
                           /\ outcome[s][q] = "none" => ran[s][q] = 0
                           /\ q \in told[s] => outcome[s][q] = "complete"

\* What is true of a handler n = handler[h] that has claimed session n.s.
CallOK(h, n) ==
    /\ n.s \in Sessions /\ n.q \in Requests
    /\ outcome[n.s][n.q] # "none"
    /\ ses[n.s].call = h \/ ses[n.s].status = "closed"
    /\ ses[n.s].call = h => outcome[n.s][n.q] = "started"
    /\ n.pod = ses[n.s].pod /\ n.pod # 0
    /\ code[n.s] \subseteq {n.q}
    /\ n.pc \in {"observe", "guard"} => ran[n.s][n.q] = 0 /\ code[n.s] = {}
    /\ n.pc = "after" \/ (n.pc = "finish" /\ n.ok) => code[n.s] = {}

RowsOK == \A s \in Sessions : RowOK(s)
CallsOK ==
    /\ \A h \in Handlers : handler[h].pc # "idle" => CallOK(h, handler[h])
    /\ \A g, h \in Handlers :
          handler[g].pc # "idle" /\ handler[h].pc # "idle" /\ handler[g].s = handler[h].s => g = h

-----------------------------------------------------------------------------
(* The inductive invariant: lanes and Kubernetes.                          *)

Starting == {"authority", "ns", "policy", "pod", "state", "save"}
Cleaning == {"pods", "inventory", "cleaned"}

\* What is true of the objects of a session.
ObjectsOK(s) ==
    /\ kernel[s].uid # 0 => ns[s].uid # 0
    /\ ~late =>
         /\ ses[s].ns # 0 => ns[s].uid \in {0, ses[s].ns}
         /\ ses[s].pod # 0 => kernel[s].uid \in {0, ses[s].pod}
         /\ ses[s].status \in {"absent", "closed"} => ns[s].uid = 0
         /\ kernel[s].uid # 0 => policy[s]

\* What is true of a lane in state l that holds the lease of session l.s.
LeasedOK(l) ==
    /\ l.pc \in Starting => l.r.ns = ses[l.s].ns /\ l.r.pod = ses[l.s].pod
    /\ l.pc \in Starting \cup {"request"} => ses[l.s].status \notin {"absent", "closed"}
    /\ l.pc \in Cleaning => ses[l.s].status \in Over
    /\ l.pc = "ns" /\ l.armed => l.r.ns = 0
    /\ l.pc \in {"policy", "pod", "state", "save"} /\ l.ns # 0 => ns[l.s].uid \in {0, l.ns}
    /\ l.pc = "save" /\ l.pod # 0 => kernel[l.s].uid \in {0, l.pod}
    /\ l.pc = "pod" => policy[l.s] \/ ns[l.s].uid = 0
    /\ l.pc = "cleaned" => ns[l.s].uid = 0

\* What a lane in state l has observed so far.
ObservedOK(l) ==
    /\ l.ready => l.pod # 0
    /\ l.pc \in Starting \ {"save"} => l.pod = 0 /\ ~l.ready
    /\ l.pc \in {"authority", "ns"} => l.ns = 0

\* What is true of every lane.
LaneOK(w) ==
    lane[w].pc # "idle" =>
        /\ lane[w].s \in Sessions /\ ses[lane[w].s].status # "absent"
        /\ ObservedOK(lane[w])
        /\ ~late /\ Leased(w) => LeasedOK(lane[w])

ObjectsAllOK == \A s \in Sessions : ObjectsOK(s)
LanesOK == \A w \in Lanes : LaneOK(w)

-----------------------------------------------------------------------------
(* The inductive invariant: limits and fence.                              *)

ActiveSet == {s \in Sessions : Active(s)}

\* The active sessions are within the limits, and none is while an ordinary
\* deployment is pending.
FenceOK ==
    /\ IsFiniteSet(ActiveSet) /\ Cardinality(ActiveSet) <= MaxActive
    /\ \A s, t \in ActiveSet : s # t => ses[s].owner # ses[t].owner
    /\ dep \in {"queued", "running"} => ActiveSet = {}

IInv ==
    /\ TypeOK
    /\ RowsOK
    /\ CallsOK
    /\ ObjectsAllOK
    /\ LanesOK
    /\ FenceOK

-----------------------------------------------------------------------------
(* Initial states.                                                         *)

\* The blank rows have their types.
LEMMA BlankTypes ==
    /\ NoSession \in Session /\ IdleLane \in Lane /\ IdleHandler \in Handler
    /\ \A row \in Session : Copy(row) \in Copies
<1>1. 0 \in Uids /\ 0 \in 0..MaxRevision
    BY SandboxSessionsAssumption DEF Uids
<1>2. NoSession \in Session
    BY <1>1, Zenon DEF NoSession, Session
<1>3. \A row \in Session : Copy(row) \in Copies
    BY DEF Copies
<1>4. IdleLane \in Lane
  <2>1. Copy(NoSession) \in Copies
      BY <1>2, <1>3
  <2> QED
      BY <1>1, <2>1, Zenon DEF IdleLane, Lane
<1>5. IdleHandler \in Handler
    BY <1>1, Zenon DEF IdleHandler, Handler
<1> QED
    BY <1>2, <1>3, <1>4, <1>5

\* The invariant holds before a session is created.
LEMMA InitIInv == Init => IInv
<1> SUFFICES ASSUME Init PROVE IInv
    OBVIOUS
<1> USE DEF Init
<1>1. TypeOK
  <2>1. 0 \in Uids /\ 1 \in Revisions /\ 0 \in 0..MaxFaults
      BY SandboxSessionsAssumption DEF Uids, Revisions
  <2>2. ns \in [Sessions -> [uid : Uids, used : Uids, term : BOOLEAN]]
      BY <2>1, Zenon
  <2>3. kernel \in [Sessions -> [uid : Uids, used : Uids,
                        state : {"none", "starting", "ready", "stopped", "terminating"}]]
      BY <2>1, Zenon
  <2> QED
      BY <2>1, <2>2, <2>3, BlankTypes DEF TypeOK
<1>2. \A s \in Sessions : ses[s].status = "absent" /\ ~ses[s].pending /\ ses[s].call = NoOne
                          /\ ses[s].ns = 0 /\ ses[s].pod = 0
    BY DEF NoSession
<1>3. RowsOK
    BY <1>2 DEF RowsOK, RowOK
<1>4. CallsOK
    BY DEF CallsOK, IdleHandler
<1>5. ObjectsAllOK
    BY <1>2 DEF ObjectsAllOK, ObjectsOK
<1>6. LanesOK
    BY DEF LanesOK, LaneOK, IdleLane
<1>7. FenceOK
  <2>1. ActiveSet = {}
      BY <1>2 DEF ActiveSet, Active
  <2> QED
      BY <2>1, FS_EmptySet, SandboxSessionsAssumption DEF FenceOK
<1> QED
    BY <1>1, <1>3, <1>4, <1>5, <1>6, <1>7 DEF IInv

-----------------------------------------------------------------------------
(* What most steps leave alone.                                            *)

\* To the calls of session s nothing happens but that it may be over with them.
CallFrame(s) ==
    /\ \/ ses'[s].call = ses[s].call
       \/ ses'[s].status = "closed" /\ ses'[s].call = NoOne
    /\ ses[s].pod # 0 => ses'[s].pod = ses[s].pod
    /\ ses[s].status = "closed" => ses'[s].status = "closed"
    /\ ses[s].status = "closing" => ses'[s].status \in Over
    /\ ses'[s].status \in {"absent", "closed"} => ~ses'[s].pending /\ ses'[s].call = NoOne
    /\ ses'[s].status = "absent" => ses'[s].ns = 0 /\ ses'[s].pod = 0
    /\ ses'[s].status = "ready" => ses'[s].pod # 0
    /\ code'[s] \subseteq code[s]
    /\ \A q \in Requests :
          \/ outcome'[s][q] = outcome[s][q]
          \/ outcome[s][q] = "started" /\ outcome'[s][q] = "interrupted" /\ ses'[s].call = NoOne

\* Such steps preserve what is true of rows and calls.
LEMMA CallsKept ==
    ASSUME IInv, \A s \in Sessions : CallFrame(s), UNCHANGED <<handler, hist>>
    PROVE  RowsOK' /\ CallsOK'
<1>1. ASSUME NEW s \in Sessions PROVE RowOK(s)'
  <2>1. RowOK(s) /\ CallFrame(s)
      BY DEF IInv, RowsOK
  <2>2. ran' = ran /\ told' = told /\ pods' = pods
      BY DEF hist
  <2>3. /\ ses'[s].status \in {"absent", "closed"} => ~ses'[s].pending /\ ses'[s].call = NoOne
        /\ ses'[s].status = "absent" => ses'[s].ns = 0 /\ ses'[s].pod = 0
        /\ ses'[s].status = "ready" => ses'[s].pod # 0
      BY <2>1 DEF CallFrame
  <2>4. code'[s] # {} => ses'[s].call # NoOne \/ ses'[s].status \in Over
      BY <2>1 DEF CallFrame, RowOK, Over
  <2>5. /\ \A p \in pods'[s] : p = ses'[s].pod /\ p # 0
        /\ \A q, r \in code'[s] : q = r
      BY <2>1, <2>2 DEF CallFrame, RowOK
  <2>6. ASSUME NEW q \in Requests
        PROVE  /\ ran'[s][q] \in {0, 1}
               /\ outcome'[s][q] = "none" => ran'[s][q] = 0
               /\ q \in told'[s] => outcome'[s][q] = "complete"
    <3>1. ran[s][q] \in {0, 1} /\ (outcome[s][q] = "none" => ran[s][q] = 0)
          /\ (q \in told[s] => outcome[s][q] = "complete")
        BY <2>1 DEF RowOK
    <3>2. \/ outcome'[s][q] = outcome[s][q]
          \/ outcome[s][q] = "started" /\ outcome'[s][q] = "interrupted"
        BY <2>1 DEF CallFrame
    <3> QED
        BY <2>2, <3>1, <3>2
  <2> QED
      BY <2>3, <2>4, <2>5, <2>6 DEF RowOK
<1>2. ASSUME NEW h \in Handlers, handler[h].pc # "idle" PROVE CallOK(h, handler[h])'
  <2>1. CallOK(h, handler[h]) /\ handler' = handler /\ ran' = ran
      BY <1>2 DEF IInv, CallsOK, hist
  <2>2. PICK s \in Sessions, q \in Requests : s = handler[h].s /\ q = handler[h].q
      BY <2>1 DEF CallOK
  <2>3. CallFrame(s)
      OBVIOUS
  <2>4. h # NoOne
      BY SandboxSessionsAssumption
  <2>5. \/ outcome'[s][q] = outcome[s][q]
        \/ outcome[s][q] = "started" /\ outcome'[s][q] = "interrupted" /\ ses'[s].call = NoOne
      BY <2>3 DEF CallFrame
  <2>6. ses'[s].call = h \/ ses'[s].status = "closed"
      BY <2>1, <2>2, <2>3 DEF CallOK, CallFrame
  <2>7. ses'[s].call = h => outcome'[s][q] = "started"
      BY <2>1, <2>2, <2>3, <2>4, <2>5 DEF CallOK, CallFrame
  <2>8. code'[s] \subseteq code[s] /\ ses'[s].pod = ses[s].pod
      BY <2>1, <2>2, <2>3 DEF CallOK, CallFrame
  <2> QED
      BY <2>1, <2>2, <2>5, <2>6, <2>7, <2>8 DEF CallOK
<1>3. CallsOK'
    BY <1>2 DEF IInv, CallsOK
<1> QED
    BY <1>1, <1>3 DEF RowsOK

\* Row and objects of session s, as the lanes rely on them, are left alone; the
\* session may be closed, and objects may disappear.
Held(s) ==
    /\ ses'[s].ns = ses[s].ns /\ ses'[s].pod = ses[s].pod
    /\ \/ ses'[s].status = ses[s].status
       \/ ses[s].status \notin {"absent", "closed"} /\ ses'[s].status = "closing"
    /\ \A w \in Lanes : ses'[s].lease = w /\ ses'[s].live => ses[s].lease = w /\ ses[s].live
    /\ ns'[s].uid \in {0, ns[s].uid} /\ kernel'[s].uid \in {0, kernel[s].uid}
    /\ kernel'[s].uid # 0 => ns'[s].uid # 0
    /\ policy[s] => policy'[s] \/ ns'[s].uid = 0

\* What is true of the objects of a session that is held.
LEMMA HeldObjects ==
    ASSUME IInv, NEW s \in Sessions, Held(s), late' = late
    PROVE  ObjectsOK(s)'
<1>1. ObjectsOK(s)
    BY DEF IInv, ObjectsAllOK
<1> QED
    BY <1>1 DEF ObjectsOK, Held

\* What is true of a lane whose session is held.
LEMMA HeldLane ==
    ASSUME IInv, NEW w \in Lanes, lane[w].pc # "idle" => Held(lane[w].s),
           lane'[w] = lane[w], late' = late
    PROVE  LaneOK(w)'
<1> SUFFICES ASSUME lane[w].pc # "idle" PROVE LaneOK(w)'
    BY DEF LaneOK
<1>1. LaneOK(w) /\ lane[w].s \in Sessions
    BY DEF IInv, LanesOK, LaneOK
<1>2. Leased(w)' => Leased(w)
    BY <1>1 DEF Leased, Held
<1>3. ASSUME LeasedOK(lane[w]) PROVE LeasedOK(lane[w])'
    BY <1>1, <1>3 DEF LeasedOK, Held, Starting, Cleaning, Over
<1> QED
    BY <1>1, <1>2, <1>3 DEF LaneOK, ObservedOK, Held

\* No session becomes active and no owner changes.
LEMMA FenceKept ==
    ASSUME IInv, \A s \in Sessions : Active(s)' => Active(s) /\ ses'[s].owner = ses[s].owner,
           dep' \in {"queued", "running"} => dep \in {"queued", "running"} \/ ActiveSet = {}
    PROVE  FenceOK'
<1>1. ActiveSet' \subseteq ActiveSet
    BY DEF ActiveSet
<1>2. IsFiniteSet(ActiveSet') /\ Cardinality(ActiveSet') <= Cardinality(ActiveSet)
    BY <1>1, FS_Subset DEF IInv, FenceOK
<1>3. Cardinality(ActiveSet') <= MaxActive
  <2>1. Cardinality(ActiveSet') \in Nat /\ Cardinality(ActiveSet) \in Nat /\ MaxActive \in Nat
      BY <1>2, FS_CardinalityType, SandboxSessionsAssumption DEF IInv, FenceOK
  <2> QED
      BY <1>2, <2>1 DEF IInv, FenceOK
<1>4. \A s, t \in ActiveSet' : s # t => ses'[s].owner # ses'[t].owner
    BY <1>1 DEF IInv, FenceOK, ActiveSet
<1>5. dep' \in {"queued", "running"} => ActiveSet' = {}
    BY <1>1 DEF IInv, FenceOK
<1> QED
    BY <1>2, <1>3, <1>4, <1>5 DEF FenceOK

\* A step that holds every session.
LEMMA HeldIInv ==
    ASSUME IInv, TypeOK', UNCHANGED <<outcome, lane, handler, hist, late>>,
           \A s \in Sessions :
              /\ Held(s) /\ code'[s] \subseteq code[s]
              /\ ses'[s].call = ses[s].call /\ ses'[s].owner = ses[s].owner
              /\ ses'[s].pending => ses[s].pending \/ ses'[s].status = "closing",
           dep' \in {"queued", "running"} => dep \in {"queued", "running"} \/ ActiveSet = {}
    PROVE  IInv'
<1>1. ASSUME NEW s \in Sessions PROVE CallFrame(s) /\ (Active(s)' => Active(s))
  <2>1. RowOK(s) /\ Held(s) /\ TypeOK
      BY DEF IInv, RowsOK
  <2>2. ses[s].status \in {"absent", "starting", "ready", "closing", "closed"}
      BY <2>1 DEF TypeOK, Session
  <2>3. Active(s)' => Active(s)
      BY <2>1, <2>2 DEF Held, Active
  <2>4. CallFrame(s)
      BY <2>1 DEF Held, RowOK, CallFrame, Over
  <2> QED
      BY <2>3, <2>4
<1>2. RowsOK' /\ CallsOK'
    BY <1>1, CallsKept
<1>3. ObjectsAllOK'
    BY HeldObjects DEF ObjectsAllOK
<1>4. LanesOK'
    BY HeldLane DEF LanesOK, LaneOK, IInv
<1>5. FenceOK'
    BY <1>1, FenceKept
<1> QED
    BY <1>2, <1>3, <1>4, <1>5 DEF IInv

-----------------------------------------------------------------------------
(* Deployments, maintenance and deadlines.                                 *)

\* Steps of the application that touch no session: a deployment is accepted and
\* claimed only when none is active.
LEMMA AppIInv ==
    ASSUME IInv, UNCHANGED <<ses, outcome, lane, handler, kube, hist, late>>,
           revision' \in Revisions, active' \in Revisions, key' \in BOOLEAN,
           dep' \in {"none", "queued", "running", "switching"},
           resize' \in {"none", "copying", "switching"}, faults' \in 0..MaxFaults,
           dep' \in {"queued", "running"} => dep \in {"queued", "running"} \/ ~SessionsActive
    PROVE  IInv'
<1> USE DEF kube, hist
<1>0. TypeOK
    BY DEF IInv
<1>1. TypeOK'
    BY <1>0 DEF TypeOK
<1>2. ~SessionsActive => ActiveSet = {}
    BY DEF SessionsActive, ActiveSet
<1>3. ASSUME NEW s \in Sessions
      PROVE  Held(s) /\ code'[s] \subseteq code[s] /\ ses'[s] = ses[s]
  <2>1. ObjectsOK(s)
      BY DEF IInv, ObjectsAllOK
  <2> QED
      BY <2>1 DEF Held, ObjectsOK
<1> QED
    BY <1>1, <1>2, <1>3, HeldIInv

\* The next revision.
LEMMA NextRevision == ASSUME revision \in Revisions, revision < MaxRevision PROVE revision + 1 \in Revisions
<1>1. MaxRevision \in Nat
    BY SandboxSessionsAssumption
<1> QED
    BY <1>1 DEF Revisions

\* Acceptance, the worker, volume maintenance and keys.
LEMMA AppStepsIInv ==
    ASSUME IInv, \/ Accept \/ StartVolumeResize \/ Deploy \/ Revoke
    PROVE  IInv'
<1>0. TypeOK
    BY DEF IInv
<1>1. /\ revision \in Revisions /\ active \in Revisions /\ key \in BOOLEAN /\ faults \in 0..MaxFaults
      /\ dep \in {"none", "queued", "running", "switching"}
      /\ resize \in {"none", "copying", "switching"}
    BY <1>0 DEF TypeOK
<1>2. CASE Accept
    BY <1>1, <1>2, NextRevision, AppIInv DEF Accept, SessionsFenced
<1>3. CASE StartVolumeResize
    BY <1>1, <1>3, AppIInv DEF StartVolumeResize
<1>4. CASE DeployClaim
    BY <1>1, <1>4, AppIInv DEF DeployClaim
<1>5. CASE BeginCutover
    BY <1>1, <1>5, NextRevision, AppIInv DEF BeginCutover
<1>6. ASSUME NEW ok \in BOOLEAN, DeployEnd(ok) \/ ResizeEnds(ok) PROVE IInv'
    BY <1>1, <1>6, AppIInv DEF DeployEnd, ResizeEnds
<1>7. CASE Revoke
  <2>1. faults' \in 0..MaxFaults
      BY <1>1, <1>7, SandboxSessionsAssumption DEF Revoke
  <2> QED
      BY <1>1, <1>7, <2>1, AppIInv DEF Revoke
<1> QED
    BY <1>2, <1>3, <1>4, <1>5, <1>6, <1>7 DEF Deploy

\* The row of one session is changed in what the lanes do not rely on.
LEMMA RowIInv ==
    ASSUME IInv, NEW s \in Sessions, NEW row \in Session, ses' = [ses EXCEPT ![s] = row],
           row.ns = ses[s].ns, row.pod = ses[s].pod, row.call = ses[s].call,
           row.owner = ses[s].owner, row.lease = ses[s].lease, row.live => ses[s].live,
           \/ row.status = ses[s].status /\ row.pending = ses[s].pending
           \/ row.status = "closing" /\ ses[s].status \notin {"absent", "closed"},
           faults' \in 0..MaxFaults,
           UNCHANGED <<app, outcome, lane, handler, kube, hist, late>>
    PROVE  IInv'
<1> USE DEF app, kube, hist
<1>0. TypeOK
    BY DEF IInv
<1>1. TypeOK'
    BY <1>0 DEF TypeOK
<1>2. ses'[s] = row /\ \A t \in Sessions \ {s} : ses'[t] = ses[t]
    BY <1>0 DEF TypeOK
<1>3. ASSUME NEW t \in Sessions
      PROVE  /\ Held(t) /\ code'[t] \subseteq code[t]
             /\ ses'[t].call = ses[t].call /\ ses'[t].owner = ses[t].owner
             /\ ses'[t].pending => ses[t].pending \/ ses'[t].status = "closing"
  <2>1. ObjectsOK(t)
      BY DEF IInv, ObjectsAllOK
  <2>2. CASE t = s
      BY <1>2, <2>1, <2>2 DEF Held, ObjectsOK
  <2>3. CASE t # s
    <3>1. ses'[t] = ses[t]
        BY <1>2, <2>3
    <3> QED
        BY <2>1, <3>1 DEF Held, ObjectsOK
  <2> QED
      BY <2>2, <2>3
<1> QED
    BY <1>1, <1>3, HeldIInv

\* A session is closed by its caller.
LEMMA CloseSessionIInv == ASSUME IInv, NEW s \in Sessions, CloseSession(s) PROVE IInv'
<1> DEFINE row == [ses[s] EXCEPT !.status = "closing", !.pending = TRUE]
<1>0. TypeOK /\ ses[s] \in Session /\ faults \in 0..MaxFaults
    BY DEF IInv, TypeOK
<1>1. ses' = [ses EXCEPT ![s] = row]
    BY <1>0 DEF CloseSession, TypeOK
<1>2. /\ row \in Session /\ row.ns = ses[s].ns /\ row.pod = ses[s].pod /\ row.call = ses[s].call
      /\ row.owner = ses[s].owner /\ row.lease = ses[s].lease /\ row.live = ses[s].live
      /\ row.status = "closing"
    BY <1>0 DEF Session
<1> HIDE DEF row
<1>3. /\ faults' = faults /\ ses[s].status \notin {"absent", "closed"}
      /\ UNCHANGED <<app, outcome, lane, handler, kube, hist, late>>
    BY DEF CloseSession
<1> QED
    BY <1>0, <1>1, <1>2, <1>3, RowIInv

\* A flag of the row is set or reset: deadlines and leases pass.
LEMMA FlagIInv ==
    ASSUME IInv, NEW s \in Sessions, faults' \in 0..MaxFaults,
           UNCHANGED <<app, outcome, lane, handler, kube, hist, late>>,
           \/ ses' = [ses EXCEPT ![s].expired = TRUE]
           \/ ses' = [ses EXCEPT ![s].slow = TRUE]
           \/ ses' = [ses EXCEPT ![s].overdue = TRUE]
           \/ ses' = [ses EXCEPT ![s].recent = FALSE]
           \/ ses' = [ses EXCEPT ![s].live = FALSE]
    PROVE  IInv'
<1>0. TypeOK /\ ses[s] \in Session
    BY DEF IInv, TypeOK
<1>1. PICK row : /\ ses' = [ses EXCEPT ![s] = row]
                 /\ \/ row = [ses[s] EXCEPT !.expired = TRUE]
                    \/ row = [ses[s] EXCEPT !.slow = TRUE]
                    \/ row = [ses[s] EXCEPT !.overdue = TRUE]
                    \/ row = [ses[s] EXCEPT !.recent = FALSE]
                    \/ row = [ses[s] EXCEPT !.live = FALSE]
    BY <1>0 DEF TypeOK
<1>2. /\ row \in Session /\ row.ns = ses[s].ns /\ row.pod = ses[s].pod /\ row.call = ses[s].call
      /\ row.owner = ses[s].owner /\ row.lease = ses[s].lease /\ (row.live => ses[s].live)
      /\ row.status = ses[s].status /\ row.pending = ses[s].pending
    BY <1>0, <1>1 DEF Session
<1> QED
    BY <1>1, <1>2, RowIInv

\* Every deadline.
LEMMA DeadlinesIInv ==
    ASSUME IInv, NEW s \in Sessions,
           \/ Expire(s) \/ StartupDeadline(s) \/ CallDeadline(s) \/ CloseAges(s) \/ LeaseExpires(s)
    PROVE  IInv'
<1>0. faults \in 0..MaxFaults
    BY DEF IInv, TypeOK
<1>1. CASE Expire(s) \/ StartupDeadline(s) \/ CallDeadline(s) \/ CloseAges(s)
    BY <1>0, <1>1, FlagIInv DEF Expire, StartupDeadline, CallDeadline, CloseAges, Passed
<1>2. CASE LeaseExpires(s)
  <2>1. faults' \in 0..MaxFaults
      BY <1>0, <1>2, SandboxSessionsAssumption DEF LeaseExpires
  <2> QED
      BY <1>2, <2>1, FlagIInv DEF LeaseExpires, Passed
<1> QED
    BY <1>1, <1>2

-----------------------------------------------------------------------------
(* Kubernetes.                                                             *)

\* Objects of one session change state or disappear; code ends with its pod.
LEMMA ObjectsIInv ==
    ASSUME IInv, NEW s \in Sessions, UNCHANGED <<db, lane, handler, hist, late>>,
           faults' \in 0..MaxFaults,
           NEW n \in [uid : Uids, used : Uids, term : BOOLEAN], ns' = [ns EXCEPT ![s] = n],
           NEW k \in [uid : Uids, used : Uids, state : {"none", "starting", "ready", "stopped", "terminating"}],
           kernel' = [kernel EXCEPT ![s] = k],
           NEW p \in BOOLEAN, policy' = [policy EXCEPT ![s] = p],
           NEW c \in SUBSET code[s], code' = [code EXCEPT ![s] = c],
           n.uid \in {0, ns[s].uid}, k.uid \in {0, kernel[s].uid},
           n.uid = 0 => k.uid = 0, policy[s] => p \/ n.uid = 0
    PROVE  IInv'
<1> USE DEF db, app
<1>0. TypeOK
    BY DEF IInv
<1>1. TypeOK'
    BY <1>0 DEF TypeOK, hist
<1>2. /\ ns'[s] = n /\ kernel'[s] = k /\ policy'[s] = p /\ code'[s] = c
      /\ \A t \in Sessions \ {s} : /\ ns'[t] = ns[t] /\ kernel'[t] = kernel[t]
                                   /\ policy'[t] = policy[t] /\ code'[t] = code[t]
    BY <1>0 DEF TypeOK
<1>3. ASSUME NEW t \in Sessions PROVE Held(t) /\ code'[t] \subseteq code[t]
  <2>1. ObjectsOK(t)
      BY DEF IInv, ObjectsAllOK
  <2>2. CASE t = s
      BY <1>2, <2>2 DEF Held
  <2>3. CASE t # s
    <3>1. ns'[t] = ns[t] /\ kernel'[t] = kernel[t] /\ policy'[t] = policy[t] /\ code'[t] = code[t]
        BY <1>2, <2>3
    <3> QED
        BY <2>1, <3>1 DEF Held, ObjectsOK
  <2> QED
      BY <2>2, <2>3
<1> QED
    BY <1>1, <1>3, HeldIInv

\* A pod becomes ready or unready, stops, or disappears with or without its
\* namespace.
LEMMA ClusterIInv ==
    ASSUME IInv, NEW s \in Sessions,
           \/ KernelStarts(s) \/ KernelUnready(s) \/ KernelStops(s) \/ KernelGone(s) \/ NamespaceGone(s)
    PROVE  IInv'
<1> DEFINE NS == [uid : Uids, used : Uids, term : BOOLEAN]
           Pod == [uid : Uids, used : Uids,
                   state : {"none", "starting", "ready", "stopped", "terminating"}]
<1>0. /\ TypeOK /\ ns[s] \in NS /\ kernel[s] \in Pod /\ policy[s] \in BOOLEAN
      /\ faults \in 0..MaxFaults /\ 0 \in Uids /\ ObjectsOK(s)
    BY SandboxSessionsAssumption DEF IInv, TypeOK, Uids, ObjectsAllOK
<1>1. /\ UNCHANGED <<db, lane, handler, hist, late>>
      /\ code' = code \/ code' = [code EXCEPT ![s] = {}]
    BY DEF KernelStarts, KernelUnready, KernelStops, KernelGone, NamespaceGone, Elsewhere
<1>2. faults' \in 0..MaxFaults
    BY <1>0, SandboxSessionsAssumption
       DEF KernelStarts, KernelUnready, KernelStops, KernelGone, NamespaceGone
<1>3. PICK c \in SUBSET code[s] : code' = [code EXCEPT ![s] = c]
  <2>1. code = [code EXCEPT ![s] = code[s]]
      BY <1>0 DEF TypeOK
  <2> QED
      BY <1>1, <2>1
<1>4. CASE NamespaceGone(s)
  <2>1. PICK n \in NS : ns' = [ns EXCEPT ![s] = n] /\ n.uid = 0
    <3> DEFINE n == [ns[s] EXCEPT !.uid = 0, !.term = FALSE]
    <3>1. ns' = [ns EXCEPT ![s] = n]
        BY <1>0, <1>4 DEF NamespaceGone, TypeOK
    <3>2. n \in NS /\ n.uid = 0
        BY <1>0
    <3> QED
        BY <3>1, <3>2
  <2>2. PICK k \in Pod : kernel' = [kernel EXCEPT ![s] = k] /\ k.uid = 0
    <3> DEFINE k == [kernel[s] EXCEPT !.uid = 0, !.state = "none"]
    <3>1. kernel' = [kernel EXCEPT ![s] = k]
        BY <1>0, <1>4 DEF NamespaceGone, TypeOK
    <3>2. k \in Pod /\ k.uid = 0
        BY <1>0
    <3> QED
        BY <3>1, <3>2
  <2>3. policy' = [policy EXCEPT ![s] = FALSE]
      BY <1>4 DEF NamespaceGone
  <2> HIDE DEF NS, Pod
  <2> QED
      BY <1>1, <1>2, <1>3, <2>1, <2>2, <2>3, ObjectsIInv DEF NS, Pod
<1>5. CASE KernelStarts(s) \/ KernelUnready(s) \/ KernelStops(s) \/ KernelGone(s)
  <2>1. ns' = [ns EXCEPT ![s] = ns[s]] /\ policy' = [policy EXCEPT ![s] = policy[s]]
      BY <1>0, <1>5 DEF KernelStarts, KernelUnready, KernelStops, KernelGone, TypeOK
  <2>2. PICK k \in Pod : kernel' = [kernel EXCEPT ![s] = k] /\ k.uid \in {0, kernel[s].uid}
    <3>1. PICK state \in {"none", "starting", "ready", "stopped", "terminating"} :
             \/ kernel' = [kernel EXCEPT ![s].state = state]
             \/ kernel' = [kernel EXCEPT ![s].uid = 0, ![s].state = state]
        BY <1>5 DEF KernelStarts, KernelUnready, KernelStops, KernelGone
    <3> DEFINE k1 == [kernel[s] EXCEPT !.state = state]
               k2 == [kernel[s] EXCEPT !.uid = 0, !.state = state]
    <3>2. kernel' = [kernel EXCEPT ![s] = k1] \/ kernel' = [kernel EXCEPT ![s] = k2]
        BY <1>0, <3>1 DEF TypeOK
    <3>3. k1 \in Pod /\ k2 \in Pod /\ k1.uid = kernel[s].uid /\ k2.uid = 0
        BY <1>0
    <3> QED
        BY <3>2, <3>3
  <2>3. ns[s].uid = 0 => k.uid = 0
      BY <1>0, <2>2 DEF ObjectsOK
  <2> HIDE DEF NS, Pod
  <2> QED
      BY <1>0, <1>1, <1>2, <1>3, <2>1, <2>2, <2>3, ObjectsIInv DEF NS, Pod
<1> QED
    BY <1>4, <1>5

-----------------------------------------------------------------------------
(* A session is created.                                                   *)

\* A lane without the lease knows nothing.
LEMMA UnleasedLane ==
    ASSUME IInv, NEW w \in Lanes, lane'[w] = lane[w],
           lane[w].pc # "idle" => (late' \/ ~Leased(w)') /\ ses'[lane[w].s].status # "absent"
    PROVE  LaneOK(w)'
    BY DEF IInv, LanesOK, LaneOK, ObservedOK

\* CreateSession, within the limits and outside of deployments.
LEMMA CreateSessionIInv ==
    ASSUME IInv, NEW s \in Sessions, NEW o \in Owners, CreateSession(s, o)
    PROVE  IInv'
<1> DEFINE row == [NoSession EXCEPT !.status = "starting", !.revision = revision, !.owner = o]
<1>0. TypeOK /\ RowOK(s) /\ ObjectsOK(s) /\ ses[s].status = "absent" /\ dep = "none"
    BY DEF IInv, RowsOK, ObjectsAllOK, CreateSession, CreateAllowed
<1>1. /\ ses' = [ses EXCEPT ![s] = row]
      /\ UNCHANGED <<app, outcome, lane, handler, kube, hist, late, faults>>
    BY DEF CreateSession
<1>2. NoSession.ns = 0 /\ NoSession.pod = 0 /\ NoSession.call = NoOne /\ NoSession.lease = NoOne
      /\ NoSession.pending = FALSE
    BY DEF NoSession
<1>3. /\ row \in Session /\ row.status = "starting" /\ row.owner = o /\ row.ns = 0 /\ row.pod = 0
      /\ row.call = NoOne /\ row.lease = NoOne /\ ~row.pending
  <2>1. revision \in 0..MaxRevision
      BY <1>0 DEF TypeOK, Revisions
  <2> QED
      BY <1>2, <2>1, BlankTypes DEF Session
<1> HIDE DEF row
<1>4. ses'[s] = row /\ \A t \in Sessions \ {s} : ses'[t] = ses[t]
    BY <1>0, <1>1 DEF TypeOK
<1>5. TypeOK'
    BY <1>0, <1>1, <1>3 DEF TypeOK, app, kube, hist
<1>6. ASSUME NEW t \in Sessions PROVE CallFrame(t)
  <2>1. RowOK(t) /\ code' = code /\ outcome' = outcome
      BY <1>1 DEF IInv, RowsOK, kube
  <2> QED
      BY <1>0, <1>3, <1>4, <2>1 DEF CallFrame, RowOK, Over
<1>7. RowsOK' /\ CallsOK'
    BY <1>1, <1>6, CallsKept
<1>8. ASSUME NEW t \in Sessions, t # s PROVE Held(t)
  <2>1. ObjectsOK(t) /\ ses'[t] = ses[t] /\ ns' = ns /\ kernel' = kernel /\ policy' = policy
      BY <1>1, <1>4, <1>8 DEF IInv, ObjectsAllOK, kube
  <2> QED
      BY <2>1 DEF Held, ObjectsOK
<1>9. ObjectsAllOK'
  <2>1. ObjectsOK(s)'
      BY <1>0, <1>1, <1>3, <1>4 DEF ObjectsOK, kube
  <2> QED
      BY <1>1, <1>8, <2>1, HeldObjects DEF ObjectsAllOK
<1>10. LanesOK'
  <2> SUFFICES ASSUME NEW w \in Lanes PROVE LaneOK(w)'
      BY DEF LanesOK
  <2>1. lane[w].pc # "idle" => lane[w].s \in Sessions
      BY DEF IInv, LanesOK, LaneOK
  <2>2. CASE lane[w].s = s
    <3>1. ~Leased(w)'
        BY <1>1, <1>3, <1>4, <2>2, SandboxSessionsAssumption DEF Leased
    <3> QED
        BY <1>1, <1>3, <1>4, <2>2, <3>1, UnleasedLane
  <2>3. CASE lane[w].s # s
      BY <1>1, <1>8, <2>1, <2>3, HeldLane
  <2> QED
      BY <2>2, <2>3
<1>11. FenceOK'
  <2>1. s \notin ActiveSet /\ ActiveSet' = ActiveSet \cup {s}
    <3>1. Active(s)' /\ ~Active(s) /\ \A t \in Sessions \ {s} : Active(t)' = Active(t)
        BY <1>0, <1>3, <1>4 DEF Active, RowOK
    <3> QED
        BY <3>1 DEF ActiveSet
  <2>2. IsFiniteSet(ActiveSet) /\ Cardinality(ActiveSet) \in Nat /\ MaxActive \in Nat
      BY FS_CardinalityType, SandboxSessionsAssumption DEF IInv, FenceOK
  <2>3. Cardinality(ActiveSet) < MaxActive
      BY DEF CreateSession, ActiveSet
  <2>4. IsFiniteSet(ActiveSet') /\ Cardinality(ActiveSet') = Cardinality(ActiveSet) + 1
      BY <2>1, <2>2, FS_AddElement
  <2>5. Cardinality(ActiveSet') <= MaxActive
      BY <2>2, <2>3, <2>4
  <2>6. \A t \in ActiveSet : ses[t].owner # o /\ ses'[t].owner = ses[t].owner
      BY <1>4, <2>1 DEF CreateSession, ActiveSet
  <2>7. \A x, y \in ActiveSet' : x # y => ses'[x].owner # ses'[y].owner
      BY <1>3, <1>4, <2>1, <2>6 DEF IInv, FenceOK
  <2> QED
      BY <1>0, <1>1, <2>4, <2>5, <2>7 DEF FenceOK, app
<1> QED
    BY <1>5, <1>7, <1>9, <1>10, <1>11 DEF IInv

-----------------------------------------------------------------------------
(* Calls.                                                                  *)

\* A step of handler h on session s, of which it is the only handler.
CallStep(h, s) ==
    /\ \A t \in Sessions \ {s} :
          /\ ses'[t] = ses[t] /\ code'[t] = code[t] /\ outcome'[t] = outcome[t]
          /\ ran'[t] = ran[t] /\ told'[t] = told[t] /\ pods'[t] = pods[t]
    /\ \A g \in Handlers \ {h} :
          handler'[g] = handler[g] /\ (handler[g].pc # "idle" => handler[g].s # s)
    /\ ses'[s].ns = ses[s].ns /\ ses'[s].pod = ses[s].pod /\ ses'[s].owner = ses[s].owner
    /\ ses'[s].lease = ses[s].lease /\ ses'[s].live = ses[s].live
    /\ \/ ses'[s].status = ses[s].status /\ ses'[s].pending = ses[s].pending
       \/ ses'[s].status = "closing" /\ ses[s].status \notin {"absent", "closed"}
    /\ UNCHANGED <<app, lane, ns, policy, kernel, late>>

\* Other sessions and their calls are not concerned, nor are lanes and objects.
LEMMA CallStepIInv ==
    ASSUME IInv, TypeOK', NEW h \in Handlers, NEW s \in Sessions, CallStep(h, s), RowOK(s)',
           handler'[h].pc # "idle" => handler'[h].s = s /\ CallOK(h, handler[h])'
    PROVE  IInv'
<1>1. RowsOK'
  <2>1. ASSUME NEW t \in Sessions \ {s} PROVE RowOK(t)'
    <3>1. RowOK(t)
        BY DEF IInv, RowsOK
    <3> QED
        BY <3>1 DEF RowOK, CallStep
  <2> QED
      BY <2>1 DEF RowsOK
<1>2. CallsOK'
  <2>1. ASSUME NEW g \in Handlers \ {h}, handler[g].pc # "idle" PROVE CallOK(g, handler[g])'
    <3>1. CallOK(g, handler[g])
        BY <2>1 DEF IInv, CallsOK
    <3>2. PICK t \in Sessions \ {s} : t = handler[g].s
        BY <2>1, <3>1 DEF CallStep, CallOK
    <3>3. /\ ses'[t] = ses[t] /\ code'[t] = code[t] /\ outcome'[t] = outcome[t]
          /\ ran'[t] = ran[t] /\ handler'[g] = handler[g]
        BY DEF CallStep
    <3> QED
        BY <3>1, <3>2, <3>3 DEF CallOK
  <2>2. \A g \in Handlers \ {h} : handler'[g] = handler[g] /\ (handler[g].pc # "idle" => handler[g].s # s)
      BY DEF CallStep
  <2>3. \A g, k \in Handlers : handler[g].pc # "idle" /\ handler[k].pc # "idle"
                               /\ handler[g].s = handler[k].s => g = k
      BY DEF IInv, CallsOK
  <2>4. ASSUME NEW g \in Handlers, handler'[g].pc # "idle" PROVE CallOK(g, handler[g])'
      BY <2>1, <2>2, <2>4
  <2>5. ASSUME NEW g \in Handlers, NEW k \in Handlers, handler'[g].pc # "idle",
               handler'[k].pc # "idle", handler'[g].s = handler'[k].s
        PROVE  g = k
      BY <2>2, <2>3, <2>5
  <2> QED
      BY <2>4, <2>5 DEF CallsOK
<1>3. ASSUME NEW t \in Sessions
      PROVE  Held(t) /\ (Active(t)' => Active(t)) /\ ses'[t].owner = ses[t].owner
  <2>1. ObjectsOK(t) /\ ses[t] \in Session
      BY DEF IInv, ObjectsAllOK, TypeOK
  <2>2. Held(t) /\ ses'[t].owner = ses[t].owner
      BY <2>1 DEF CallStep, Held, ObjectsOK
  <2>3. Active(t)' => Active(t)
    <3>1. ses[t].status \in {"absent", "starting", "ready", "closing", "closed"}
        BY <2>1 DEF Session
    <3> QED
        BY <3>1 DEF CallStep, Active
  <2> QED
      BY <2>2, <2>3
<1>4. lane' = lane /\ late' = late /\ dep' = dep
    BY DEF CallStep, app
<1>5. ObjectsAllOK'
    BY <1>3, <1>4, HeldObjects DEF ObjectsAllOK
<1>6. LanesOK'
    BY <1>3, <1>4, HeldLane DEF LanesOK, LaneOK, IInv
<1>7. FenceOK'
    BY <1>3, <1>4, FenceKept
<1> QED
    BY <1>1, <1>2, <1>5, <1>6, <1>7 DEF IInv

\* What a handler that has claimed a session may rely on.
LEMMA HandlerFacts ==
    ASSUME IInv, NEW h \in Handlers, handler[h].pc # "idle"
    PROVE  /\ CallOK(h, handler[h]) /\ handler[h] \in Handler
           /\ handler[h].s \in Sessions /\ handler[h].q \in Requests
           /\ RowOK(handler[h].s) /\ ses[handler[h].s] \in Session
           /\ \A g \in Handlers \ {h} : handler[g].pc # "idle" => handler[g].s # handler[h].s
<1>1. CallOK(h, handler[h])
    BY DEF IInv, CallsOK
<1>2. handler[h].s \in Sessions /\ handler[h].q \in Requests
    BY <1>1 DEF CallOK
<1>3. \A g \in Handlers \ {h} : handler[g].pc # "idle" => handler[g].s # handler[h].s
    BY DEF IInv, CallsOK
<1> QED
    BY <1>1, <1>2, <1>3 DEF IInv, RowsOK, TypeOK

\* A call is claimed: the kernel is free, and no earlier code runs in it.
LEMMA ClaimSessionCallIInv ==
    ASSUME IInv, NEW h \in Handlers, NEW s \in Sessions, NEW q \in Requests, ClaimSessionCall(h, s, q)
    PROVE  IInv'
<1> DEFINE row == [ses[s] EXCEPT !.call = h, !.overdue = FALSE]
           n == [pc |-> "observe", s |-> s, q |-> q, pod |-> ses[s].pod, ok |-> FALSE]
<1>0. TypeOK /\ RowOK(s) /\ ses[s] \in Session
    BY DEF IInv, RowsOK, TypeOK
<1>1. /\ ses[s].status = "ready" /\ ses[s].call = NoOne /\ outcome[s][q] = "none"
      /\ outcome' = [outcome EXCEPT ![s][q] = "started"]
      /\ handler' = [handler EXCEPT ![h] = n]
      /\ UNCHANGED <<app, lane, kube, hist, late, faults>>
    BY DEF ClaimSessionCall, NewRequest
<1>2. ses' = [ses EXCEPT ![s] = row]
    BY <1>0 DEF ClaimSessionCall, TypeOK
<1>3. /\ row \in Session /\ row.call = h /\ row.ns = ses[s].ns /\ row.pod = ses[s].pod
      /\ row.owner = ses[s].owner /\ row.lease = ses[s].lease /\ row.live = ses[s].live
      /\ row.status = ses[s].status /\ row.pending = ses[s].pending
    BY <1>0 DEF Session
<1>4. n \in Handler /\ n.pc = "observe" /\ n.s = s /\ n.q = q /\ n.pod = ses[s].pod
  <2>1. ses[s].pod \in Uids
      BY <1>0 DEF Session
  <2> QED
      BY <2>1 DEF Handler
<1> HIDE DEF row, n
<1>5. /\ ses'[s] = row /\ \A t \in Sessions \ {s} : ses'[t] = ses[t]
      /\ outcome'[s][q] = "started" /\ \A r \in Requests \ {q} : outcome'[s][r] = outcome[s][r]
      /\ \A t \in Sessions \ {s} : outcome'[t] = outcome[t]
      /\ handler'[h] = n /\ \A g \in Handlers \ {h} : handler'[g] = handler[g]
    BY <1>0, <1>1, <1>2 DEF TypeOK
<1>6. code' = code /\ ran' = ran /\ told' = told /\ pods' = pods
    BY <1>1 DEF kube, hist
<1>7. TypeOK'
    BY <1>0, <1>1, <1>2, <1>3, <1>4 DEF TypeOK, app, kube, hist
<1>8. h # NoOne /\ code[s] = {} /\ ran[s][q] = 0 /\ q \notin told[s] /\ ses[s].pod # 0
    BY <1>0, <1>1, SandboxSessionsAssumption DEF RowOK, Over
<1>9. RowOK(s)'
  <2>1. \A r \in Requests : /\ ran'[s][r] \in {0, 1}
                            /\ outcome'[s][r] = "none" => ran'[s][r] = 0
                            /\ r \in told'[s] => outcome'[s][r] = "complete"
      BY <1>0, <1>5, <1>6, <1>8 DEF RowOK
  <2> QED
      BY <1>0, <1>1, <1>3, <1>5, <1>6, <1>8, <2>1 DEF RowOK
<1>10. CallOK(h, handler[h])'
    BY <1>3, <1>4, <1>5, <1>6, <1>8 DEF CallOK
<1>11. CallStep(h, s)
  <2>1. ASSUME NEW g \in Handlers, handler[g].pc # "idle" PROVE handler[g].s # s
    <3>1. CallOK(g, handler[g]) /\ g # NoOne
        BY <2>1, HandlerFacts, SandboxSessionsAssumption
    <3> QED
        BY <1>1, <3>1 DEF CallOK
  <2> QED
      BY <1>1, <1>3, <1>5, <1>6, <2>1 DEF CallStep, kube
<1> QED
    BY <1>4, <1>5, <1>7, <1>9, <1>10, <1>11, CallStepIInv

\* The code is started in the recorded pod, where no other code runs.
LEMMA CallSessionIInv == ASSUME IInv, NEW h \in Handlers, CallSession(h) PROVE IInv'
<1>0. TypeOK /\ handler[h].pc = "guard"
    BY DEF IInv, CallSession
<1>s. PICK s \in Sessions, q \in Requests : s = handler[h].s /\ q = handler[h].q
    BY <1>0, HandlerFacts
<1>1. /\ CallOK(h, handler[h]) /\ handler[h] \in Handler /\ RowOK(s)
      /\ \A g \in Handlers \ {h} : handler[g].pc # "idle" => handler[g].s # s
    BY <1>0, <1>s, HandlerFacts
<1>2. /\ kernel[s].uid = handler[h].pod
      /\ code' = [code EXCEPT ![s] = @ \cup {q}]
      /\ ran' = [ran EXCEPT ![s][q] = @ + 1]
      /\ pods' = [pods EXCEPT ![s] = @ \cup {kernel[s].uid}]
      /\ handler' = [handler EXCEPT ![h].pc = "exec"]
      /\ UNCHANGED <<db, lane, ns, policy, kernel, told, late, faults>>
    BY <1>s DEF CallSession, GuardPasses
<1> DEFINE n == [handler[h] EXCEPT !.pc = "exec"]
<1>3. handler' = [handler EXCEPT ![h] = n]
    BY <1>0, <1>2 DEF TypeOK
<1>4. /\ n \in Handler /\ n.pc = "exec" /\ n.s = s /\ n.q = q /\ n.pod = handler[h].pod
    BY <1>1, <1>s DEF Handler
<1> HIDE DEF n
<1>5. /\ code[s] = {} /\ ran[s][q] = 0 /\ handler[h].pod = ses[s].pod /\ ses[s].pod # 0
      /\ outcome[s][q] # "none" /\ (ses[s].call = h \/ ses[s].status = "closed")
    BY <1>0, <1>1, <1>s DEF CallOK
<1>6. /\ code'[s] = {q} /\ pods'[s] = pods[s] \cup {ses[s].pod}
      /\ \A t \in Sessions \ {s} : code'[t] = code[t] /\ ran'[t] = ran[t] /\ pods'[t] = pods[t]
      /\ \A r \in Requests \ {q} : ran'[s][r] = ran[s][r]
      /\ handler'[h] = n /\ \A g \in Handlers \ {h} : handler'[g] = handler[g]
    BY <1>0, <1>2, <1>3, <1>5 DEF TypeOK
<1>7. ran'[s][q] = 1
    BY <1>0, <1>2, <1>5 DEF TypeOK
<1>8. ses' = ses /\ outcome' = outcome /\ told' = told /\ app' = app
    BY <1>2 DEF db
<1>9. TypeOK'
  <2>1. ran' \in [Sessions -> [Requests -> Nat]]
      BY <1>0, <1>2 DEF TypeOK
  <2>2. code' \in [Sessions -> SUBSET Requests] /\ pods' \in [Sessions -> SUBSET Uids]
      BY <1>0, <1>2 DEF TypeOK
  <2>3. UNCHANGED <<revision, active, dep, resize, key, ses, outcome, lane, ns, policy, kernel,
                    told, late, faults>>
      BY <1>2 DEF db, app
  <2>4. handler' \in [Handlers -> Handler]
      BY <1>0, <1>3, <1>4 DEF TypeOK
  <2> QED
      BY <1>0, <2>1, <2>2, <2>3, <2>4 DEF TypeOK
<1>10. RowOK(s)'
  <2>1. h # NoOne
      BY SandboxSessionsAssumption
  <2>2. \A r \in Requests : /\ ran'[s][r] \in {0, 1}
                            /\ outcome'[s][r] = "none" => ran'[s][r] = 0
                            /\ r \in told'[s] => outcome'[s][r] = "complete"
      BY <1>1, <1>5, <1>6, <1>7, <1>8 DEF RowOK
  <2>3. \A p \in pods'[s] : p = ses'[s].pod /\ p # 0
      BY <1>1, <1>5, <1>6, <1>8 DEF RowOK
  <2>4. code'[s] # {} => ses'[s].call # NoOne \/ ses'[s].status \in Over
      BY <1>5, <1>8, <2>1 DEF Over
  <2> QED
      BY <1>1, <1>6, <1>8, <2>2, <2>3, <2>4 DEF RowOK
<1>11. CallOK(h, handler[h])'
    BY <1>1, <1>4, <1>5, <1>6, <1>8, <1>s DEF CallOK
<1>12. CallStep(h, s)
    BY <1>1, <1>2, <1>6, <1>8 DEF CallStep
<1> QED
    BY <1>4, <1>6, <1>9, <1>10, <1>11, <1>12, CallStepIInv

\* A handler goes on without touching the session.
LEMMA HandlerMovesIInv ==
    ASSUME IInv, NEW h \in Handlers, handler[h].pc # "idle", NEW n \in Handler,
           handler' = [handler EXCEPT ![h] = n],
           \/ n.pc = "idle"
           \/ /\ n.pc = "finish" /\ n.s = handler[h].s /\ n.q = handler[h].q /\ n.pod = handler[h].pod
              /\ n.ok => handler[h].pc = "after"
           \/ /\ n.pc = "guard" /\ n.s = handler[h].s /\ n.q = handler[h].q /\ n.pod = handler[h].pod
              /\ handler[h].pc = "observe",
           faults' \in 0..MaxFaults,
           UNCHANGED <<db, lane, kube, hist, late>>
    PROVE  IInv'
<1>0. TypeOK
    BY DEF IInv
<1>s. PICK s \in Sessions : s = handler[h].s
    BY HandlerFacts
<1>1. /\ CallOK(h, handler[h]) /\ RowOK(s)
      /\ \A g \in Handlers \ {h} : handler[g].pc # "idle" => handler[g].s # s
    BY <1>s, HandlerFacts
<1>2. handler'[h] = n /\ \A g \in Handlers \ {h} : handler'[g] = handler[g]
    BY <1>0 DEF TypeOK
<1>3. TypeOK'
    BY <1>0 DEF TypeOK, db, app, kube, hist
<1>4. RowOK(s)'
    BY <1>1 DEF RowOK, db, kube, hist
<1>5. n.pc # "idle" => n.s = s /\ CallOK(h, handler[h])'
    BY <1>1, <1>2, <1>s DEF CallOK, db, kube, hist
<1>6. CallStep(h, s)
    BY <1>1, <1>2 DEF CallStep, db, kube, hist
<1> QED
    BY <1>2, <1>3, <1>4, <1>5, <1>6, CallStepIInv

\* The handler looks again, is interrupted, or dies.
LEMMA HandlerStepsIInv ==
    ASSUME IInv, NEW h \in Handlers,
           ObserveBefore(h) \/ CallObserved(h) \/ CallCancelled(h) \/ CallBroken(h) \/ HandlerLost(h)
    PROVE  IInv'
<1>0. TypeOK /\ handler[h] \in Handler /\ faults \in 0..MaxFaults
    BY DEF IInv, TypeOK
<1>1. CASE CallObserved(h)
  <2>1. PICK ok \in BOOLEAN : handler' = [handler EXCEPT ![h].pc = "finish", ![h].ok = ok]
      BY <1>1 DEF CallObserved, ObservedReady
  <2> DEFINE n == [handler[h] EXCEPT !.pc = "finish", !.ok = ok]
  <2>2. handler' = [handler EXCEPT ![h] = n]
      BY <1>0, <2>1 DEF TypeOK
  <2>3. n \in Handler /\ n.pc = "finish" /\ n.s = handler[h].s /\ n.q = handler[h].q
        /\ n.pod = handler[h].pod
      BY <1>0 DEF Handler
  <2> HIDE DEF n
  <2> QED
      BY <1>0, <1>1, <2>2, <2>3, HandlerMovesIInv DEF CallObserved
<1>2. CASE CallCancelled(h) \/ CallBroken(h)
  <2> DEFINE n == [handler[h] EXCEPT !.pc = "finish", !.ok = FALSE]
  <2>1. /\ handler' = [handler EXCEPT ![h].pc = "finish", ![h].ok = FALSE]
        /\ UNCHANGED <<db, lane, kube, hist, late>> /\ handler[h].pc # "idle"
      BY <1>2 DEF CallCancelled, CallBroken, Interrupted
  <2>2. handler' = [handler EXCEPT ![h] = n]
      BY <1>0, <2>1 DEF TypeOK
  <2>3. n \in Handler /\ n.pc = "finish" /\ n.s = handler[h].s /\ n.q = handler[h].q
        /\ n.pod = handler[h].pod /\ ~n.ok
      BY <1>0 DEF Handler
  <2>4. faults' \in 0..MaxFaults
      BY <1>0, <1>2, SandboxSessionsAssumption DEF CallCancelled, CallBroken
  <2> HIDE DEF n
  <2> QED
      BY <2>1, <2>2, <2>3, <2>4, HandlerMovesIInv
<1>3. CASE HandlerLost(h)
  <2>1. faults' \in 0..MaxFaults
      BY <1>0, <1>3, SandboxSessionsAssumption DEF HandlerLost
  <2>2. IdleHandler \in Handler /\ IdleHandler.pc = "idle"
      BY BlankTypes DEF IdleHandler
  <2> QED
      BY <1>3, <2>1, <2>2, HandlerMovesIInv DEF HandlerLost
<1>4. CASE ObserveBefore(h)
  <2> DEFINE n == [handler[h] EXCEPT !.pc = "guard"]
  <2>1. handler' = [handler EXCEPT ![h] = n]
      BY <1>0, <1>4 DEF TypeOK, ObserveBefore
  <2>2. n \in Handler /\ n.pc = "guard" /\ n.s = handler[h].s /\ n.q = handler[h].q
        /\ n.pod = handler[h].pod
      BY <1>0 DEF Handler
  <2> HIDE DEF n
  <2> QED
      BY <1>0, <1>4, <2>1, <2>2, HandlerMovesIInv DEF ObserveBefore
<1> QED
    BY <1>1, <1>2, <1>3, <1>4

\* The code of a request ends in its pod.
LEMMA CodeEndsIInv ==
    ASSUME IInv, NEW s \in Sessions, NEW q \in Requests, CodeEnds(s, q)
    PROVE  IInv'
<1>0. TypeOK
    BY DEF IInv
<1>1. /\ q \in code[s] /\ code' = [code EXCEPT ![s] = @ \ {q}]
      /\ UNCHANGED <<revision, active, dep, resize, key, ses, outcome, lane, ns, policy, kernel,
                     ran, told, pods, late, faults>>
    BY DEF CodeEnds, db, app, hist
<1>2. code'[s] = code[s] \ {q} /\ \A t \in Sessions \ {s} : code'[t] = code[t]
    BY <1>0, <1>1 DEF TypeOK
<1>3. ASSUME NEW h \in Handlers
      PROVE  /\ handler'[h] \in Handler
             /\ handler'[h].s = handler[h].s /\ handler'[h].q = handler[h].q
             /\ handler'[h].pod = handler[h].pod /\ handler'[h].ok = handler[h].ok
             /\ \/ handler'[h].pc = handler[h].pc
                \/ /\ handler'[h].pc = "after" /\ handler[h].pc = "exec"
                   /\ handler[h].s = s /\ handler[h].q = q
  <2> DEFINE n == [handler[h] EXCEPT !.pc = "after"]
  <2>1. handler[h] \in Handler
      BY <1>0 DEF TypeOK
  <2>2. /\ n \in Handler /\ n.pc = "after" /\ n.s = handler[h].s /\ n.q = handler[h].q
        /\ n.pod = handler[h].pod /\ n.ok = handler[h].ok
      BY <2>1 DEF Handler
  <2>3. handler'[h] = IF handler[h].pc = "exec" /\ handler[h].s = s /\ handler[h].q = q
                        THEN n ELSE handler[h]
      BY DEF CodeEnds
  <2> HIDE DEF n
  <2> QED
      BY <2>1, <2>2, <2>3
<1>4. TypeOK'
  <2>1. handler' \in [Handlers -> Handler]
      BY <1>3 DEF CodeEnds
  <2>2. code' \in [Sessions -> SUBSET Requests]
      BY <1>0, <1>1 DEF TypeOK
  <2> QED
      BY <1>0, <1>1, <2>1, <2>2 DEF TypeOK
<1>5. \A t \in Sessions : code'[t] \subseteq code[t]
    BY <1>2
<1>6. RowsOK'
  <2> SUFFICES ASSUME NEW t \in Sessions PROVE RowOK(t)'
      BY DEF RowsOK
  <2>1. RowOK(t) /\ code'[t] \subseteq code[t]
      BY <1>5 DEF IInv, RowsOK
  <2> QED
      BY <1>1, <2>1 DEF RowOK
<1>7. CallsOK'
  <2>1. ASSUME NEW h \in Handlers, handler'[h].pc # "idle" PROVE CallOK(h, handler[h])'
    <3>1. CallOK(h, handler[h]) /\ handler[h].s \in Sessions
        BY <1>3, <2>1, HandlerFacts
    <3>2. handler'[h].pc = "after" => code'[handler[h].s] = {}
        BY <1>2, <1>3, <1>5, <3>1 DEF CallOK
    <3>3. code'[handler[h].s] \subseteq code[handler[h].s]
        BY <1>5, <3>1
    <3> QED
        BY <1>1, <1>3, <3>1, <3>2, <3>3 DEF CallOK
  <2> QED
      BY <1>3, <2>1 DEF IInv, CallsOK
<1>8. ASSUME NEW t \in Sessions PROVE Held(t) /\ (Active(t)' => Active(t)) /\ ses'[t].owner = ses[t].owner
  <2>1. ObjectsOK(t)
      BY DEF IInv, ObjectsAllOK
  <2> QED
      BY <1>1, <2>1 DEF Held, ObjectsOK, Active
<1>9. ObjectsAllOK'
    BY <1>1, <1>8, HeldObjects DEF ObjectsAllOK
<1>10. LanesOK'
    BY <1>1, <1>8, HeldLane DEF LanesOK, LaneOK, IInv
<1>11. FenceOK'
    BY <1>1, <1>8, FenceKept
<1> QED
    BY <1>4, <1>6, <1>7, <1>9, <1>10, <1>11 DEF IInv

\* The handler that owns the call records its end; when it was not complete the
\* session is closed, since its code may still run.
LEMMA RecordedIInv ==
    ASSUME IInv, NEW h \in Handlers, FinishSessionCall(h), OwnsCall(h)
    PROVE  IInv'
<1>0. TypeOK /\ handler[h].pc = "finish"
    BY DEF IInv, FinishSessionCall
<1>s. PICK s \in Sessions, q \in Requests : s = handler[h].s /\ q = handler[h].q
    BY <1>0, HandlerFacts
<1>1. /\ CallOK(h, handler[h]) /\ handler[h] \in Handler /\ RowOK(s) /\ ses[s] \in Session
      /\ \A g \in Handlers \ {h} : handler[g].pc # "idle" => handler[g].s # s
    BY <1>0, <1>s, HandlerFacts
<1>k. PICK ok \in BOOLEAN : ok = handler[h].ok
    BY <1>1 DEF Handler
<1>2. ses[s].call = h /\ h # NoOne /\ outcome[s][q] = "started"
    BY <1>1, <1>s, SandboxSessionsAssumption DEF OwnsCall, CallOK
<1> DEFINE base == CallEnded(s, ok)
           row == [base EXCEPT !.call = NoOne, !.overdue = FALSE]
           end == IF ok THEN "complete" ELSE "interrupted"
           tell == IF ok THEN told[s] \cup {q} ELSE told[s]
<1>3. /\ ses' = [ses EXCEPT ![s] = row]
      /\ outcome' = [outcome EXCEPT ![s][q] = end]
      /\ handler' = [handler EXCEPT ![h] = IdleHandler]
      /\ UNCHANGED <<revision, active, dep, resize, key, lane, ns, policy, kernel, code, ran, pods,
                     late, faults>>
    BY <1>s, <1>k DEF FinishSessionCall, app, kube
<1>4. told' = [told EXCEPT ![s] = tell]
    BY <1>0, <1>s, <1>k DEF FinishSessionCall, Success, TypeOK
<1>5. /\ row \in Session /\ row.call = NoOne /\ row.ns = ses[s].ns /\ row.pod = ses[s].pod
      /\ row.owner = ses[s].owner /\ row.lease = ses[s].lease /\ row.live = ses[s].live
      /\ row.status = IF ok THEN ses[s].status ELSE "closing"
      /\ ok => row.pending = ses[s].pending
  <2>1. /\ base \in Session /\ base.ns = ses[s].ns /\ base.pod = ses[s].pod
        /\ base.owner = ses[s].owner /\ base.lease = ses[s].lease /\ base.live = ses[s].live
        /\ base.status = (IF ok THEN ses[s].status ELSE "closing")
        /\ (ok => base.pending = ses[s].pending)
    <3>1. CASE ok
        BY <1>1, <3>1 DEF CallEnded
    <3>2. CASE ~ok
      <4> DEFINE b == [ses[s] EXCEPT !.status = "closing", !.pending = TRUE]
      <4>1. base = b
          BY <3>2 DEF CallEnded
      <4>2. /\ b \in Session /\ b.ns = ses[s].ns /\ b.pod = ses[s].pod /\ b.status = "closing"
            /\ b.owner = ses[s].owner /\ b.lease = ses[s].lease /\ b.live = ses[s].live
          BY <1>1 DEF Session
      <4> HIDE DEF b, base
      <4> QED
          BY <3>2, <4>1, <4>2
    <3> QED
        BY <3>1, <3>2
  <2> HIDE DEF base
  <2> QED
      BY <2>1 DEF Session
<1>6. end \in {"complete", "interrupted"} /\ (ok => end = "complete")
    OBVIOUS
<1>7. /\ tell \subseteq told[s] \cup {q} /\ (~ok => tell = told[s])
    OBVIOUS
<1> HIDE DEF row, end, tell
<1>8. /\ ses'[s] = row /\ \A t \in Sessions \ {s} : ses'[t] = ses[t]
      /\ outcome'[s][q] = end /\ \A r \in Requests \ {q} : outcome'[s][r] = outcome[s][r]
      /\ \A t \in Sessions \ {s} : outcome'[t] = outcome[t]
      /\ told'[s] = tell /\ \A t \in Sessions \ {s} : told'[t] = told[t]
      /\ handler'[h] = IdleHandler /\ \A g \in Handlers \ {h} : handler'[g] = handler[g]
    BY <1>0, <1>3, <1>4 DEF TypeOK
<1>9. TypeOK'
  <2>1. ses' \in [Sessions -> Session] /\ handler' \in [Handlers -> Handler]
      BY <1>0, <1>3, <1>5, BlankTypes DEF TypeOK
  <2>2. outcome' \in [Sessions -> [Requests -> {"none", "started", "complete", "interrupted"}]]
      BY <1>0, <1>3, <1>6 DEF TypeOK
  <2>3. told' \in [Sessions -> SUBSET Requests]
      BY <1>0, <1>4, <1>7 DEF TypeOK
  <2> QED
      BY <1>0, <1>3, <2>1, <2>2, <2>3 DEF TypeOK
<1>10. ses[s].status \notin {"absent", "closed"}
    BY <1>1, <1>2 DEF RowOK
<1>11. RowOK(s)'
  <2>1. \A r \in Requests : /\ ran'[s][r] \in {0, 1}
                            /\ outcome'[s][r] = "none" => ran'[s][r] = 0
    <3> SUFFICES ASSUME NEW r \in Requests
                 PROVE  ran'[s][r] \in {0, 1} /\ (outcome'[s][r] = "none" => ran'[s][r] = 0)
        OBVIOUS
    <3> QED
        BY <1>1, <1>3, <1>6, <1>8 DEF RowOK
  <2>2. \A r \in Requests : r \in told'[s] => outcome'[s][r] = "complete"
    <3> SUFFICES ASSUME NEW r \in Requests, r \in told'[s] PROVE outcome'[s][r] = "complete"
        OBVIOUS
    <3>1. CASE r = q
      <4>1. q \notin told[s]
          BY <1>1, <1>2 DEF RowOK
      <4> QED
          BY <1>6, <1>7, <1>8, <3>1, <4>1
    <3>2. CASE r # q
        BY <1>1, <1>7, <1>8, <3>2 DEF RowOK
    <3> QED
        BY <3>1, <3>2
  <2>3. code'[s] # {} => row.status \in Over
    <3>1. ok => code[s] = {}
        BY <1>0, <1>1, <1>s, <1>k DEF CallOK
    <3> QED
        BY <1>3, <1>5, <3>1 DEF Over
  <2>4. row.status = "ready" => ses[s].status = "ready"
      BY <1>5
  <2>5. row.status \notin {"absent", "closed"}
      BY <1>5, <1>10
  <2> QED
      BY <1>1, <1>3, <1>5, <1>8, <2>1, <2>2, <2>3, <2>4, <2>5 DEF RowOK
<1>12. CallStep(h, s)
    BY <1>1, <1>3, <1>5, <1>8, <1>10 DEF CallStep, app
<1>13. handler'[h].pc = "idle"
    BY <1>8 DEF IdleHandler
<1> QED
    BY <1>9, <1>11, <1>12, <1>13, CallStepIInv

\* FinishSessionCall; a handler whose token is gone changes nothing.
LEMMA FinishIInv == ASSUME IInv, NEW h \in Handlers, FinishSessionCall(h) PROVE IInv'
<1>1. CASE OwnsCall(h)
    BY <1>1, RecordedIInv
<1>2. CASE ~OwnsCall(h)
  <2>1. /\ handler[h].pc # "idle" /\ handler' = [handler EXCEPT ![h] = IdleHandler]
        /\ told' = [told EXCEPT ![handler[h].s] = told[handler[h].s]]
        /\ UNCHANGED <<ses, outcome, app, lane, kube, ran, pods, late, faults>>
      BY <1>2 DEF FinishSessionCall, Success
  <2>2. told' = told
      BY <2>1 DEF IInv, TypeOK
  <2>3. IdleHandler \in Handler /\ IdleHandler.pc = "idle" /\ faults \in 0..MaxFaults
      BY BlankTypes DEF IdleHandler, IInv, TypeOK
  <2> QED
      BY <2>1, <2>2, <2>3, HandlerMovesIInv DEF db, hist
<1> QED
    BY <1>1, <1>2

-----------------------------------------------------------------------------
(* Steps of one lane.                                                      *)

NSRecord == [uid : Uids, used : Uids, term : BOOLEAN]
PodRecord == [uid : Uids, used : Uids, state : {"none", "starting", "ready", "stopped", "terminating"}]

\* A step of lane w on session s.
SessionStep(w, s) ==
    /\ lane' = [lane EXCEPT ![w] = lane'[w]] /\ lane'[w] \in Lane
    /\ ses' = [ses EXCEPT ![s] = ses'[s]] /\ ses'[s] \in Session
    /\ ns' = [ns EXCEPT ![s] = ns'[s]] /\ ns'[s] \in NSRecord
    /\ kernel' = [kernel EXCEPT ![s] = kernel'[s]] /\ kernel'[s] \in PodRecord
    /\ policy' = [policy EXCEPT ![s] = policy'[s]] /\ policy'[s] \in BOOLEAN
    /\ outcome' = [outcome EXCEPT ![s] = outcome'[s]]
    /\ outcome'[s] \in [Requests -> {"none", "started", "complete", "interrupted"}]
    /\ ses'[s].owner = ses[s].owner /\ (Active(s)' => Active(s))
    /\ late' \in BOOLEAN /\ (late => late') /\ faults' \in 0..MaxFaults
    /\ UNCHANGED <<revision, active, dep, resize, key, handler, code, ran, told, pods>>

\* Nothing else is concerned, when the other lanes that work on the session do not
\* have its lease or find it as it was.
LEMMA SessionStepIInv ==
    ASSUME IInv, NEW w \in Lanes, NEW s \in Sessions, SessionStep(w, s),
           CallFrame(s), ObjectsOK(s)', LaneOK(w)', ses'[s].status # "absent",
           \/ late'
           \/ Held(s)
           \/ \A v \in Lanes \ {w} : ~(ses'[s].lease = v /\ ses'[s].live)
    PROVE  IInv'
<1>0. TypeOK
    BY DEF IInv
<1>1. TypeOK'
  <2>1. /\ ses' \in [Sessions -> Session] /\ lane' \in [Lanes -> Lane]
        /\ ns' \in [Sessions -> NSRecord] /\ kernel' \in [Sessions -> PodRecord]
        /\ policy' \in [Sessions -> BOOLEAN]
    <3>1. /\ ses \in [Sessions -> Session] /\ lane \in [Lanes -> Lane]
          /\ ns \in [Sessions -> NSRecord] /\ kernel \in [Sessions -> PodRecord]
          /\ policy \in [Sessions -> BOOLEAN]
        BY <1>0, Zenon DEF TypeOK, NSRecord, PodRecord
    <3> QED
        BY <3>1 DEF SessionStep
  <2>2. outcome' \in [Sessions -> [Requests -> {"none", "started", "complete", "interrupted"}]]
      BY <1>0 DEF TypeOK, SessionStep
  <2>3. /\ late' \in BOOLEAN /\ faults' \in 0..MaxFaults
        /\ UNCHANGED <<revision, active, dep, resize, key, handler, code, ran, told, pods>>
      BY DEF SessionStep
  <2> QED
      BY <1>0, <2>1, <2>2, <2>3 DEF TypeOK, NSRecord, PodRecord
<1>2. \A t \in Sessions \ {s} : /\ ses'[t] = ses[t] /\ ns'[t] = ns[t] /\ kernel'[t] = kernel[t]
                                /\ policy'[t] = policy[t] /\ outcome'[t] = outcome[t]
    BY <1>0 DEF TypeOK, SessionStep
<1>3. \A v \in Lanes \ {w} : lane'[v] = lane[v]
    BY <1>0 DEF TypeOK, SessionStep
<1>4. ASSUME NEW t \in Sessions PROVE CallFrame(t)
  <2>1. RowOK(t) /\ code' = code
      BY DEF IInv, RowsOK, SessionStep
  <2> QED
      BY <1>2, <2>1 DEF CallFrame, RowOK, Over
<1>5. RowsOK' /\ CallsOK'
    BY <1>4, CallsKept DEF SessionStep, hist
<1>6. ASSUME NEW t \in Sessions, t # s PROVE Held(t) /\ ObjectsOK(t)'
  <2>1. ObjectsOK(t) /\ (late => late')
      BY DEF IInv, ObjectsAllOK, SessionStep
  <2> QED
      BY <1>2, <1>6, <2>1 DEF Held, ObjectsOK
<1>7. ObjectsAllOK'
    BY <1>6 DEF ObjectsAllOK
<1>8. LanesOK'
  <2> SUFFICES ASSUME NEW v \in Lanes, v # w PROVE LaneOK(v)'
      BY DEF LanesOK
  <2>1. LaneOK(v) /\ lane'[v] = lane[v]
      BY <1>3 DEF IInv, LanesOK
  <2>2. lane[v].pc # "idle" => ses'[lane[v].s].status # "absent" /\ lane[v].s \in Sessions
      BY <1>2, <2>1 DEF LaneOK
  <2>3. CASE late'
      BY <2>1, <2>2, <2>3, UnleasedLane
  <2>4. CASE ~late' /\ lane[v].s = s /\ ~Held(s)
    <3>1. ~Leased(v)'
        BY <2>1, <2>4 DEF Leased
    <3> QED
        BY <2>1, <2>2, <3>1, UnleasedLane
  <2>5. CASE ~late' /\ (lane[v].s # s \/ Held(s))
    <3>1. late' = late
        BY <1>0, <2>5 DEF SessionStep, TypeOK
    <3> QED
        BY <1>6, <2>1, <2>2, <2>5, <3>1, HeldLane
  <2> QED
      BY <2>3, <2>4, <2>5
<1>9. FenceOK'
  <2>1. \A t \in Sessions : Active(t)' => Active(t) /\ ses'[t].owner = ses[t].owner
      BY <1>2 DEF SessionStep, Active
  <2> QED
      BY <2>1, FenceKept DEF SessionStep
<1> QED
    BY <1>1, <1>5, <1>7, <1>8, <1>9 DEF IInv

\* What a lane that works on a session may rely on.
LEMMA LaneFacts ==
    ASSUME IInv, NEW w \in Lanes, lane[w].pc # "idle"
    PROVE  /\ TypeOK /\ LaneOK(w) /\ lane[w] \in Lane /\ ObservedOK(lane[w])
           /\ lane[w].s \in Sessions /\ ses[lane[w].s].status # "absent"
           /\ ses[lane[w].s] \in Session /\ RowOK(lane[w].s) /\ ObjectsOK(lane[w].s)
           /\ ns[lane[w].s] \in NSRecord /\ kernel[lane[w].s] \in PodRecord
           /\ ~late /\ Leased(w) => LeasedOK(lane[w])
           /\ faults \in 0..MaxFaults
<1>1. LaneOK(w) /\ TypeOK
    BY DEF IInv, LanesOK
<1>2. lane[w].s \in Sessions
    BY <1>1 DEF LaneOK
<1>3. lane[w] \in Lane /\ ses[lane[w].s] \in Session /\ faults \in 0..MaxFaults
    BY <1>1, <1>2 DEF TypeOK
<1>4. ns[lane[w].s] \in NSRecord /\ kernel[lane[w].s] \in PodRecord
    BY <1>1, <1>2 DEF TypeOK, NSRecord, PodRecord
<1>5. RowOK(lane[w].s) /\ ObjectsOK(lane[w].s)
    BY <1>2 DEF IInv, RowsOK, ObjectsAllOK
<1> QED
    BY <1>1, <1>2, <1>3, <1>4, <1>5 DEF LaneOK

\* What holds of the session when a step leaves its row alone.
LEMMA UntouchedRow ==
    ASSUME IInv, NEW s \in Sessions, ses' = ses, outcome' = outcome, code' = code
    PROVE  CallFrame(s) /\ ses'[s] \in Session /\ (Active(s)' => Active(s))
           /\ outcome'[s] \in [Requests -> {"none", "started", "complete", "interrupted"}]
           /\ outcome' = [outcome EXCEPT ![s] = outcome'[s]]
           /\ ses' = [ses EXCEPT ![s] = ses'[s]]
<1>1. RowOK(s) /\ TypeOK
    BY DEF IInv, RowsOK
<1> QED
    BY <1>1 DEF CallFrame, RowOK, Over, Active, TypeOK

\* The lane goes on to state l; of the objects nothing but their state changes.
LEMMA GoesIInv ==
    ASSUME IInv, NEW w \in Lanes, lane[w].pc # "idle", NEW l \in Lane,
           lane' = [lane EXCEPT ![w] = l], l.pc # "idle" => l.s = lane[w].s /\ ObservedOK(l),
           l.pc # "idle" /\ LeasedOK(lane[w]) /\ Leased(w) /\ ~late => LeasedOK(l),
           NEW n \in NSRecord, ns' = [ns EXCEPT ![lane[w].s] = n], n.uid = ns[lane[w].s].uid,
           faults' \in 0..MaxFaults,
           UNCHANGED <<db, handler, policy, kernel, code, hist, late>>
    PROVE  IInv'
<1> USE DEF db, app, hist
<1>0. TypeOK
    BY DEF IInv
<1>s. PICK s \in Sessions : s = lane[w].s
    BY LaneFacts
<1>1. ObjectsOK(s) /\ LaneOK(w)
    BY <1>s, LaneFacts
<1>2. lane'[w] = l /\ ns'[s] = n /\ ns'[s].uid = ns[s].uid
    BY <1>0, <1>s DEF TypeOK
<1>3. Held(s)
    BY <1>1, <1>2 DEF Held, ObjectsOK
<1>4. ObjectsOK(s)'
    BY <1>3, HeldObjects
<1>5. LaneOK(w)'
  <2> SUFFICES ASSUME l.pc # "idle" PROVE LaneOK(w)'
      BY <1>2 DEF LaneOK
  <2>1. l.s = s /\ ObservedOK(l)
      BY <1>s
  <2>2. Leased(w)' = Leased(w)
      BY <1>2, <1>s, <2>1 DEF Leased
  <2>3. LeasedOK(l)' = LeasedOK(l)
      BY <1>2, <2>1 DEF LeasedOK
  <2>4. ~late /\ Leased(w) => LeasedOK(l)
      BY <1>1 DEF LaneOK
  <2>5. LeasedOK(lane[w])' = LeasedOK(l)' /\ ObservedOK(lane[w])' = ObservedOK(l)
      BY <1>2 DEF LeasedOK, ObservedOK
  <2> QED
      BY <1>1, <1>2, <1>s, <2>1, <2>2, <2>3, <2>4, <2>5 DEF LaneOK
<1>6. SessionStep(w, s)
  <2>1. kernel' = [kernel EXCEPT ![s] = kernel'[s]] /\ kernel'[s] \in PodRecord
        /\ policy' = [policy EXCEPT ![s] = policy'[s]] /\ policy'[s] \in BOOLEAN
      BY <1>0 DEF TypeOK, PodRecord
  <2>2. lane' = [lane EXCEPT ![w] = lane'[w]] /\ ns' = [ns EXCEPT ![s] = ns'[s]]
      BY <1>2, <1>s
  <2>3. late' \in BOOLEAN
      BY <1>0 DEF TypeOK
  <2> QED
      BY <1>2, <2>1, <2>2, <2>3, UntouchedRow DEF SessionStep
<1>7. ses'[s].status # "absent"
    BY <1>s, LaneFacts
<1> QED
    BY <1>3, <1>4, <1>5, <1>6, <1>7, UntouchedRow, SessionStepIInv

\* The same when no object changes at all.
LEMMA MovesIInv ==
    ASSUME IInv, NEW w \in Lanes, lane[w].pc # "idle", NEW l \in Lane,
           lane' = [lane EXCEPT ![w] = l], l.pc # "idle" => l.s = lane[w].s /\ ObservedOK(l),
           l.pc # "idle" /\ LeasedOK(lane[w]) /\ Leased(w) /\ ~late => LeasedOK(l),
           faults' \in 0..MaxFaults,
           UNCHANGED <<db, handler, kube, hist, late>>
    PROVE  IInv'
<1>1. ns[lane[w].s] \in NSRecord /\ ns' = [ns EXCEPT ![lane[w].s] = ns[lane[w].s]]
    BY LaneFacts DEF kube, TypeOK
<1> QED
    BY <1>1, GoesIInv DEF kube

PCs == {"idle", "authority", "ns", "policy", "pod", "state", "save", "request", "pods", "inventory",
        "cleaned"}

\* Goto changes pc and armed, nothing else.
LEMMA GotoFields ==
    ASSUME TypeOK, NEW w \in Lanes, NEW pc \in PCs, Goto(w, pc)
    PROVE  \E l \in Lane :
              /\ lane' = [lane EXCEPT ![w] = l] /\ l.pc = pc /\ ~l.armed
              /\ l.s = lane[w].s /\ l.r = lane[w].r /\ l.ns = lane[w].ns /\ l.pod = lane[w].pod
              /\ l.ready = lane[w].ready
<1> DEFINE l == [lane[w] EXCEPT !.pc = pc, !.armed = FALSE]
<1>1. lane[w] \in Lane
    BY DEF TypeOK
<1>2. lane' = [lane EXCEPT ![w] = l]
    BY DEF Goto, TypeOK
<1>3. /\ l \in Lane /\ l.pc = pc /\ ~l.armed
      /\ l.s = lane[w].s /\ l.r = lane[w].r /\ l.ns = lane[w].ns /\ l.pod = lane[w].pod
      /\ l.ready = lane[w].ready
    BY <1>1 DEF Lane, PCs
<1> QED
    BY <1>2, <1>3

\* A lane that goes to the place pc.
LEMMA GotoIInv ==
    ASSUME IInv, NEW w \in Lanes, lane[w].pc # "idle", NEW pc \in PCs, Goto(w, pc),
           \/ pc = "request" /\ lane[w].pc \in Starting
           \/ pc = "cleaned" /\ lane[w].pc \in Cleaning /\ ns[lane[w].s].uid = 0
           \/ pc \in {"ns", "state"} /\ lane[w].pc = "authority"
           \/ pc = "pod" /\ lane[w].pc = "policy" /\ policy[lane[w].s]
           \/ pc = "state" /\ lane[w].pc = "pod",
           faults' \in 0..MaxFaults, UNCHANGED <<db, handler, kube, hist, late>>
    PROVE  IInv'
<1>1. TypeOK /\ ObservedOK(lane[w])
    BY LaneFacts
<1>2. PICK l \in Lane :
         /\ lane' = [lane EXCEPT ![w] = l] /\ l.pc = pc /\ ~l.armed
         /\ l.s = lane[w].s /\ l.r = lane[w].r /\ l.ns = lane[w].ns /\ l.pod = lane[w].pod
         /\ l.ready = lane[w].ready
    BY <1>1, GotoFields
<1>3. ObservedOK(l)
    BY <1>1, <1>2 DEF ObservedOK, Starting, Cleaning
<1>4. ASSUME LeasedOK(lane[w]) PROVE LeasedOK(l)
    BY <1>1, <1>2, <1>4 DEF LeasedOK, Starting, Cleaning, ObservedOK
<1> QED
    BY <1>2, <1>3, <1>4, MovesIInv

\* An error of StartSession or ObserveSession: what is known is saved first.
LEMMA FailIInv ==
    ASSUME IInv, NEW w \in Lanes, lane[w].pc \in {"ns", "policy", "pod", "state"}, Fail(w),
           faults' \in 0..MaxFaults, UNCHANGED <<db, handler, kube, hist, late>>
    PROVE  IInv'
<1>1. TypeOK /\ ObservedOK(lane[w]) /\ lane[w] \in Lane
    BY LaneFacts
<1> DEFINE pc == IF lane[w].ns = 0 THEN "request" ELSE "save"
           l == [lane[w] EXCEPT !.armed = FALSE, !.err = TRUE, !.pc = pc]
<1>2. pc \in {"request", "save"} /\ (pc = "save" => lane[w].ns # 0)
    OBVIOUS
<1>3. lane' = [lane EXCEPT ![w] = l]
    BY <1>1 DEF Fail, TypeOK
<1> HIDE DEF pc
<1>4. /\ l \in Lane /\ l.pc = pc /\ ~l.armed
      /\ l.s = lane[w].s /\ l.r = lane[w].r /\ l.ns = lane[w].ns /\ l.pod = lane[w].pod
      /\ l.ready = lane[w].ready
    BY <1>1, <1>2 DEF Lane
<1> HIDE DEF l
<1>5. ObservedOK(l)
    BY <1>1, <1>2, <1>4 DEF ObservedOK, Starting
<1>6. ASSUME LeasedOK(lane[w]) PROVE LeasedOK(l)
    BY <1>1, <1>2, <1>4, <1>6 DEF LeasedOK, Starting, Cleaning, ObservedOK
<1> QED
    BY <1>3, <1>4, <1>5, <1>6, MovesIInv

\* The step ends and the row stays: the lease is released if it is still held.
LEMMA StayIInv ==
    ASSUME IInv, NEW w \in Lanes, lane[w].pc # "idle", Stay(w),
           NEW n \in NSRecord, ns' = [ns EXCEPT ![lane[w].s] = n], n.uid = ns[lane[w].s].uid,
           NEW k \in PodRecord, kernel' = [kernel EXCEPT ![lane[w].s] = k],
           k.uid = kernel[lane[w].s].uid,
           faults' \in 0..MaxFaults,
           UNCHANGED <<app, outcome, handler, policy, code, hist, late>>
    PROVE  IInv'
<1> USE DEF app, hist
<1>0. TypeOK
    BY DEF IInv
<1>s. PICK s \in Sessions : s = lane[w].s
    BY LaneFacts
<1>1. ObjectsOK(s) /\ RowOK(s) /\ ses[s] \in Session /\ ses[s].status # "absent"
    BY <1>s, LaneFacts
<1> DEFINE free == [ses[s] EXCEPT !.lease = NoOne, !.live = FALSE]
           row == IF ses[s].lease = w THEN free ELSE ses[s]
<1>2. ses' = [ses EXCEPT ![s] = row] /\ lane' = [lane EXCEPT ![w] = IdleLane]
    BY <1>s DEF Stay, End
<1>3. /\ row \in Session /\ row.status = ses[s].status /\ row.pending = ses[s].pending
      /\ row.call = ses[s].call /\ row.ns = ses[s].ns /\ row.pod = ses[s].pod
      /\ row.owner = ses[s].owner
      /\ (row.lease = ses[s].lease /\ row.live = ses[s].live) \/ row.lease = NoOne
  <2>1. /\ free \in Session /\ free.status = ses[s].status /\ free.pending = ses[s].pending
        /\ free.call = ses[s].call /\ free.ns = ses[s].ns /\ free.pod = ses[s].pod
        /\ free.owner = ses[s].owner /\ free.lease = NoOne
      BY <1>1 DEF Session
  <2> HIDE DEF free
  <2> QED
      BY <1>1, <2>1
<1> HIDE DEF row
<1>4. ses'[s] = row /\ lane'[w] = IdleLane /\ ns'[s] = n /\ kernel'[s] = k
    BY <1>0, <1>2, <1>s DEF TypeOK
<1>5. Held(s)
    BY <1>1, <1>3, <1>4, <1>s, SandboxSessionsAssumption DEF Held, ObjectsOK
<1>6. ObjectsOK(s)'
    BY <1>5, HeldObjects
<1>7. CallFrame(s)
    BY <1>1, <1>3, <1>4 DEF CallFrame, RowOK, Over
<1>8. LaneOK(w)'
    BY <1>4 DEF LaneOK, IdleLane
<1>9. SessionStep(w, s)
  <2>1. policy' = [policy EXCEPT ![s] = policy'[s]] /\ policy'[s] \in BOOLEAN
        /\ outcome' = [outcome EXCEPT ![s] = outcome'[s]]
        /\ outcome'[s] \in [Requests -> {"none", "started", "complete", "interrupted"}]
        /\ late' \in BOOLEAN
      BY <1>0 DEF TypeOK
  <2>2. Active(s)' => Active(s)
      BY <1>3, <1>4 DEF Active
  <2> QED
      BY <1>2, <1>3, <1>4, <1>s, <2>1, <2>2, BlankTypes DEF SessionStep
<1> QED
    BY <1>1, <1>3, <1>4, <1>5, <1>6, <1>7, <1>8, <1>9, SessionStepIInv

\* The same when no object changes.
LEMMA PlainStayIInv ==
    ASSUME IInv, NEW w \in Lanes, lane[w].pc # "idle", Stay(w), faults' \in 0..MaxFaults,
           UNCHANGED <<app, outcome, handler, kube, hist, late>>
    PROVE  IInv'
<1>1. /\ ns[lane[w].s] \in NSRecord /\ ns' = [ns EXCEPT ![lane[w].s] = ns[lane[w].s]]
      /\ kernel[lane[w].s] \in PodRecord /\ kernel' = [kernel EXCEPT ![lane[w].s] = kernel[lane[w].s]]
    BY LaneFacts DEF kube, TypeOK
<1> QED
    BY <1>1, StayIInv DEF kube

\* The first look at the session.
LEMMA AuthorityIInv == ASSUME IInv, NEW w \in Lanes, Authority(w) PROVE IInv'
<1>1. lane[w].pc = "authority" /\ faults \in 0..MaxFaults
      /\ UNCHANGED <<app, outcome, handler, kube, hist, late, faults>>
    BY DEF Authority, IInv, TypeOK
<1>2. CASE Stay(w)
    BY <1>1, <1>2, PlainStayIInv
<1>3. CASE ~Stay(w)
  <2>1. PICK pc \in {"request", "ns", "state"} : Goto(w, pc) /\ ses' = ses
      BY <1>3 DEF Authority
  <2> QED
      BY <1>1, <2>1, GotoIInv DEF Starting, PCs, db
<1> QED
    BY <1>2, <1>3

\* The check before an object is created.
LEMMA ArmIInv == ASSUME IInv, NEW w \in Lanes, Arm(w) \/ NotArmed(w) PROVE IInv'
<1>1. lane[w].pc \in {"ns", "policy", "pod"} /\ faults \in 0..MaxFaults
      /\ UNCHANGED <<db, handler, kube, hist, late, faults>>
    BY DEF Arm, NotArmed, Missing, IInv, TypeOK
<1>2. CASE NotArmed(w)
    BY <1>1, <1>2, FailIInv DEF NotArmed
<1>3. CASE Arm(w)
  <2> DEFINE l == [lane[w] EXCEPT !.armed = TRUE]
  <2>1. TypeOK /\ ObservedOK(lane[w]) /\ lane[w] \in Lane
      BY <1>1, LaneFacts
  <2>2. lane' = [lane EXCEPT ![w] = l]
      BY <1>3, <2>1 DEF Arm, TypeOK
  <2>3. /\ l \in Lane /\ l.pc = lane[w].pc
        /\ l.s = lane[w].s /\ l.r = lane[w].r /\ l.ns = lane[w].ns /\ l.pod = lane[w].pod
        /\ l.ready = lane[w].ready
      BY <2>1 DEF Lane
  <2> HIDE DEF l
  <2>4. ObservedOK(l)
      BY <2>1, <2>3 DEF ObservedOK
  <2>5. lane[w].pc = "ns" => lane[w].r.ns = 0
      BY <1>3 DEF Arm, Missing
  <2>6. ASSUME LeasedOK(lane[w]) PROVE LeasedOK(l)
      BY <2>3, <2>5, <2>6 DEF LeasedOK
  <2> QED
      BY <1>1, <2>2, <2>3, <2>4, <2>6, MovesIInv
<1> QED
    BY <1>2, <1>3

\* ObserveSession: what the lane records is what is there.
LEMMA ReadStateIInv == ASSUME IInv, NEW w \in Lanes, ReadState(w) PROVE IInv'
<1>1. lane[w].pc = "state" /\ faults' \in 0..MaxFaults /\ UNCHANGED <<db, handler, kube, hist, late>>
    BY DEF ReadState, IInv, TypeOK
<1>2. TypeOK /\ ObservedOK(lane[w]) /\ lane[w] \in Lane /\ lane[w].s \in Sessions
    BY <1>1, LaneFacts
<1>s. PICK s \in Sessions : s = lane[w].s
    BY <1>2
<1>3. ns[s].uid \in Uids /\ kernel[s].uid \in Uids /\ 0 \in Uids
    BY <1>2, SandboxSessionsAssumption DEF TypeOK, Uids
<1> DEFINE known == lane[w].ns # 0 \/ NamespaceValid(w)
           nsUid == IF lane[w].ns # 0 THEN lane[w].ns ELSE ns[s].uid
           seen == lane[w].ns # 0 \/ policy[s]
           ok == seen /\ PodValid(s, lane[w].r.pod)
           pod == IF seen /\ lane[w].r.pod \in {0, kernel[s].uid} THEN kernel[s].uid ELSE 0
           ready == ok /\ kernel[s].state = "ready"
           err == ~ok
<1>4. CASE ~known
  <2> DEFINE l == [lane[w] EXCEPT !.err = TRUE, !.pc = "request"]
  <2>1. lane' = [lane EXCEPT ![w] = l]
      BY <1>2, <1>4, <1>s DEF ReadState, TypeOK
  <2>2. /\ l \in Lane /\ l.pc = "request" /\ l.s = lane[w].s /\ l.ready = lane[w].ready
        /\ l.pod = lane[w].pod
      BY <1>2 DEF Lane
  <2> HIDE DEF l
  <2>3. ObservedOK(l)
      BY <1>2, <2>2 DEF ObservedOK, Starting
  <2>4. ASSUME LeasedOK(lane[w]) PROVE LeasedOK(l)
      BY <1>1, <2>2, <2>4 DEF LeasedOK, Starting, Cleaning
  <2> QED
      BY <1>1, <2>1, <2>2, <2>3, <2>4, MovesIInv
<1>5. CASE known
  <2> DEFINE l == [lane[w] EXCEPT !.pc = "save", !.ns = nsUid, !.err = err, !.pod = pod, !.ready = ready]
  <2>1. lane' = [lane EXCEPT ![w] = l]
      BY <1>2, <1>5, <1>s DEF ReadState, TypeOK
  <2>2. nsUid \in Uids /\ (nsUid # 0 => nsUid = lane[w].ns \/ (lane[w].ns = 0 /\ nsUid = ns[s].uid))
      BY <1>2, <1>3 DEF Lane
  <2>3. pod \in Uids /\ (pod # 0 => pod = kernel[s].uid)
      BY <1>3
  <2>4. ready \in BOOLEAN /\ err \in BOOLEAN /\ (ready => pod # 0)
      BY DEF PodValid
  <2> HIDE DEF nsUid, pod, ready, err, known, ok, seen
  <2>5. /\ l \in Lane /\ l.pc = "save" /\ l.s = lane[w].s /\ l.r = lane[w].r
        /\ l.ns = nsUid /\ l.pod = pod /\ l.ready = ready
      BY <1>2, <2>2, <2>3, <2>4 DEF Lane
  <2> HIDE DEF l
  <2>6. ObservedOK(l)
      BY <2>4, <2>5 DEF ObservedOK, Starting
  <2>7. ASSUME LeasedOK(lane[w]) PROVE LeasedOK(l)
      BY <1>1, <1>s, <2>2, <2>3, <2>5, <2>7 DEF LeasedOK, Starting, Cleaning
  <2> QED
      BY <1>1, <2>1, <2>5, <2>6, <2>7, MovesIInv
<1> QED
    BY <1>4, <1>5

\* An object is created; when the lease had ended by then, that was late.
LEMMA CreatesIInv ==
    ASSUME IInv, NEW w \in Lanes, lane[w].pc # "idle", NEW s \in Sessions, s = lane[w].s,
           NEW l \in Lane, lane' = [lane EXCEPT ![w] = l], l.pc # "idle", l.s = s, ObservedOK(l),
           NEW n \in NSRecord, ns' = [ns EXCEPT ![s] = n],
           NEW k \in PodRecord, kernel' = [kernel EXCEPT ![s] = k],
           NEW p \in BOOLEAN, policy' = [policy EXCEPT ![s] = p],
           Landed(w), ObjectsOK(s)', Leased(w) /\ ~late => LeasedOK(l)'
    PROVE  IInv'
<1> USE DEF db, app, hist
<1>0. TypeOK /\ UNCHANGED <<db, handler, code, hist, faults>> /\ late' = (late \/ ~Leased(w))
    BY DEF IInv, Landed
<1>1. lane'[w] = l /\ ns'[s] = n /\ kernel'[s] = k /\ policy'[s] = p
    BY <1>0 DEF TypeOK
<1>2. ses'[s].status # "absent"
    BY <1>0, LaneFacts
<1>3. LaneOK(w)'
  <2>1. Leased(w)' = Leased(w)
      BY <1>0, <1>1 DEF Leased
  <2>2. LeasedOK(lane[w])' = LeasedOK(l)' /\ ObservedOK(lane[w])' = ObservedOK(l)
      BY <1>1 DEF LeasedOK, ObservedOK
  <2> QED
      BY <1>0, <1>1, <1>2, <2>1, <2>2 DEF LaneOK
<1>4. SessionStep(w, s)
  <2>1. late' \in BOOLEAN /\ (late => late') /\ faults' \in 0..MaxFaults
      BY <1>0 DEF TypeOK, Leased
  <2>2. /\ lane' = [lane EXCEPT ![w] = lane'[w]] /\ ns' = [ns EXCEPT ![s] = ns'[s]]
        /\ kernel' = [kernel EXCEPT ![s] = kernel'[s]] /\ policy' = [policy EXCEPT ![s] = policy'[s]]
      BY <1>1
  <2> QED
      BY <1>0, <1>1, <2>1, <2>2, UntouchedRow DEF SessionStep
<1>5. late' \/ \A v \in Lanes \ {w} : ~(ses'[s].lease = v /\ ses'[s].live)
    BY <1>0 DEF Leased
<1> QED
    BY <1>0, <1>2, <1>3, <1>4, <1>5, UntouchedRow, SessionStepIInv

\* StartSession makes the namespace, when none is recorded.
LEMMA StartNamespaceIInv == ASSUME IInv, NEW w \in Lanes, StartNamespace(w) PROVE IInv'
<1>1. lane[w].pc = "ns" /\ faults \in 0..MaxFaults
    BY DEF StartNamespace, IInv, TypeOK
<1>2. TypeOK /\ ObservedOK(lane[w]) /\ lane[w] \in Lane
    BY <1>1, LaneFacts
<1>s. PICK s \in Sessions : s = lane[w].s
    BY <1>1, LaneFacts
<1>3. ns[s] \in NSRecord /\ kernel[s] \in PodRecord /\ policy[s] \in BOOLEAN /\ ObjectsOK(s)
    BY <1>1, <1>2, <1>s, LaneFacts DEF TypeOK
<1>4. ASSUME NEW u \in Uids
      PROVE  LET l == [lane[w] EXCEPT !.armed = FALSE, !.ns = u, !.pc = "policy"] IN
             /\ l \in Lane /\ l.pc = "policy" /\ l.s = s /\ l.r = lane[w].r
             /\ l.ns = u /\ l.pod = lane[w].pod /\ ObservedOK(l)
             /\ [lane EXCEPT ![w].armed = FALSE, ![w].ns = u, ![w].pc = "policy"] = [lane EXCEPT ![w] = l]
  <2> DEFINE l == [lane[w] EXCEPT !.armed = FALSE, !.ns = u, !.pc = "policy"]
  <2>1. /\ l \in Lane /\ l.pc = "policy" /\ l.s = s /\ l.r = lane[w].r
        /\ l.ns = u /\ l.pod = lane[w].pod /\ l.ready = lane[w].ready
      BY <1>2, <1>s DEF Lane
  <2>2. [lane EXCEPT ![w].armed = FALSE, ![w].ns = u, ![w].pc = "policy"] = [lane EXCEPT ![w] = l]
      BY <1>2 DEF TypeOK
  <2> HIDE DEF l
  <2>3. ObservedOK(l)
      BY <1>1, <1>2, <2>1 DEF ObservedOK, Starting
  <2> QED
      BY <2>1, <2>2, <2>3 DEF l
<1>5. CASE /\ lane[w].armed /\ ns[s].uid = 0 /\ ns[s].used < MaxUids
           /\ ns' = [ns EXCEPT ![s] = [uid |-> @.used + 1, used |-> @.used + 1, term |-> FALSE]]
           /\ lane' = [lane EXCEPT ![w].armed = FALSE, ![w].ns = ns[s].used + 1, ![w].pc = "policy"]
           /\ UNCHANGED <<policy, kernel>> /\ Landed(w)
  <2>1. PICK u \in Uids : u = ns[s].used + 1 /\ u # 0
      BY <1>3, SandboxSessionsAssumption, <1>5 DEF Uids, NSRecord
  <2>2. PICK n \in NSRecord : n.uid = u /\ ns' = [ns EXCEPT ![s] = n]
    <3> DEFINE n == [uid |-> u, used |-> u, term |-> FALSE]
    <3>1. n \in NSRecord /\ n.uid = u /\ ns' = [ns EXCEPT ![s] = n]
        BY <1>5, <2>1 DEF NSRecord
    <3> QED
        BY <3>1
  <2>3. PICK l \in Lane : /\ lane' = [lane EXCEPT ![w] = l] /\ l.pc = "policy" /\ l.s = s
                          /\ l.r = lane[w].r /\ l.ns = u /\ ObservedOK(l)
    <3>1. lane' = [lane EXCEPT ![w].armed = FALSE, ![w].ns = u, ![w].pc = "policy"]
        BY <1>5, <2>1
    <3> QED
        BY <1>4, <3>1
  <2>5. ns'[s].uid = u /\ ses' = ses /\ kernel' = kernel /\ policy' = policy
        /\ late' = (late \/ ~Leased(w))
      BY <1>2, <1>5, <2>2 DEF Landed, db, TypeOK
  <2>6. ~late /\ Leased(w) => LeasedOK(lane[w])
      BY <1>1, LaneFacts
  <2>7. ObjectsOK(s)'
      BY <1>1, <1>3, <1>5, <1>s, <2>1, <2>5, <2>6 DEF ObjectsOK, LeasedOK, Starting
  <2>8. Leased(w) /\ ~late => LeasedOK(l)'
      BY <1>1, <1>s, <2>3, <2>5, <2>6 DEF LeasedOK, Starting, Cleaning
  <2>9. kernel' = [kernel EXCEPT ![s] = kernel[s]] /\ policy' = [policy EXCEPT ![s] = policy[s]]
      BY <1>2, <2>5 DEF TypeOK
  <2> QED
      BY <1>1, <1>3, <1>5, <1>s, <2>2, <2>3, <2>7, <2>8, <2>9, CreatesIInv
<1>6. CASE /\ NamespaceValid(w)
           /\ lane' = [lane EXCEPT ![w].armed = FALSE, ![w].ns = ns[s].uid, ![w].pc = "policy"]
           /\ UNCHANGED <<db, handler, kube, hist, late, faults>>
  <2>1. PICK u \in Uids : u = ns[s].uid
      BY <1>3 DEF NSRecord
  <2> DEFINE l == [lane[w] EXCEPT !.armed = FALSE, !.ns = u, !.pc = "policy"]
  <2>2. /\ l \in Lane /\ l.pc = "policy" /\ l.s = s /\ l.r = lane[w].r
        /\ l.ns = u /\ ObservedOK(l)
      BY <1>4
  <2>3. lane' = [lane EXCEPT ![w] = l]
    <3>1. lane' = [lane EXCEPT ![w].armed = FALSE, ![w].ns = u, ![w].pc = "policy"]
        BY <1>6, <2>1
    <3> QED
        BY <1>4, <3>1
  <2> HIDE DEF l
  <2>4. ASSUME LeasedOK(lane[w]) PROVE LeasedOK(l)
      BY <1>1, <1>s, <2>1, <2>2, <2>4 DEF LeasedOK, Starting, Cleaning
  <2> QED
      BY <1>1, <1>6, <1>s, <2>2, <2>3, <2>4, MovesIInv
<1>7. CASE Fail(w) /\ UNCHANGED <<db, handler, kube, hist, late, faults>>
    BY <1>1, <1>7, FailIInv
<1> QED
    BY <1>5, <1>6, <1>7, <1>s DEF StartNamespace, AfterNamespace

\* The deny-all policy comes before the pod.
LEMMA StartPolicyIInv == ASSUME IInv, NEW w \in Lanes, StartPolicy(w) PROVE IInv'
<1>1. lane[w].pc = "policy" /\ faults \in 0..MaxFaults
    BY DEF StartPolicy, IInv, TypeOK
<1>2. TypeOK /\ ObservedOK(lane[w]) /\ lane[w] \in Lane
    BY <1>1, LaneFacts
<1>s. PICK s \in Sessions : s = lane[w].s
    BY <1>1, LaneFacts
<1>3. ns[s] \in NSRecord /\ kernel[s] \in PodRecord /\ ObjectsOK(s)
    BY <1>1, <1>2, <1>s, LaneFacts
<1>4. CASE policy[s] /\ Goto(w, "pod") /\ UNCHANGED <<db, handler, kube, hist, late, faults>>
    BY <1>1, <1>4, <1>s, GotoIInv DEF PCs
<1>5. CASE /\ lane[w].armed /\ ~policy[s] /\ ns[s].uid # 0 /\ ~ns[s].term
           /\ policy' = [policy EXCEPT ![s] = TRUE] /\ Goto(w, "pod")
           /\ UNCHANGED <<ns, kernel>> /\ Landed(w)
  <2>1. PICK l \in Lane :
           /\ lane' = [lane EXCEPT ![w] = l] /\ l.pc = "pod" /\ ~l.armed
           /\ l.s = lane[w].s /\ l.r = lane[w].r /\ l.ns = lane[w].ns /\ l.pod = lane[w].pod
           /\ l.ready = lane[w].ready
      BY <1>2, <1>5, GotoFields DEF PCs
  <2>2. ObservedOK(l)
      BY <1>1, <1>2, <2>1 DEF ObservedOK, Starting
  <2>3. ses' = ses /\ policy'[s] = TRUE /\ ns' = ns /\ kernel' = kernel
        /\ late' = (late \/ ~Leased(w))
      BY <1>2, <1>5 DEF Landed, db, TypeOK
  <2>4. ObjectsOK(s)'
      BY <1>3, <2>3 DEF ObjectsOK
  <2>5. ~late /\ Leased(w) => LeasedOK(lane[w])
      BY <1>1, LaneFacts
  <2>6. Leased(w) /\ ~late => LeasedOK(l)'
      BY <1>1, <1>s, <2>1, <2>3, <2>5 DEF LeasedOK, Starting, Cleaning
  <2>7. ns' = [ns EXCEPT ![s] = ns[s]] /\ kernel' = [kernel EXCEPT ![s] = kernel[s]]
      BY <1>2, <2>3 DEF TypeOK
  <2> QED
      BY <1>1, <1>3, <1>5, <1>s, <2>1, <2>2, <2>4, <2>6, <2>7, CreatesIInv
<1>6. CASE Fail(w) /\ UNCHANGED <<db, handler, kube, hist, late, faults>>
    BY <1>1, <1>6, FailIInv
<1> QED
    BY <1>4, <1>5, <1>6, <1>s DEF StartPolicy

\* The pod, when none is recorded, in a namespace that has its policy.
LEMMA StartPodIInv == ASSUME IInv, NEW w \in Lanes, StartPod(w) PROVE IInv'
<1>1. lane[w].pc = "pod" /\ faults \in 0..MaxFaults
    BY DEF StartPod, IInv, TypeOK
<1>2. TypeOK /\ ObservedOK(lane[w]) /\ lane[w] \in Lane
    BY <1>1, LaneFacts
<1>s. PICK s \in Sessions : s = lane[w].s
    BY <1>1, LaneFacts
<1>3. ns[s] \in NSRecord /\ kernel[s] \in PodRecord /\ ObjectsOK(s) /\ policy[s] \in BOOLEAN
    BY <1>1, <1>2, <1>s, LaneFacts DEF TypeOK
<1>4. CASE Goto(w, "state") /\ UNCHANGED <<db, handler, kube, hist, late, faults>>
    BY <1>1, <1>4, GotoIInv DEF PCs
<1>5. CASE /\ lane[w].armed /\ NotRecorded(w) /\ ns[s].uid # 0 /\ ~ns[s].term /\ kernel[s].used < MaxUids
           /\ kernel' = [kernel EXCEPT ![s] = [uid |-> @.used + 1, used |-> @.used + 1, state |-> "starting"]]
           /\ Goto(w, "state")
           /\ UNCHANGED <<ns, policy>> /\ Landed(w)
  <2>1. PICK l \in Lane :
           /\ lane' = [lane EXCEPT ![w] = l] /\ l.pc = "state" /\ ~l.armed
           /\ l.s = lane[w].s /\ l.r = lane[w].r /\ l.ns = lane[w].ns /\ l.pod = lane[w].pod
           /\ l.ready = lane[w].ready
      BY <1>2, <1>5, GotoFields DEF PCs
  <2>2. ObservedOK(l)
      BY <1>1, <1>2, <2>1 DEF ObservedOK, Starting
  <2>3. PICK u \in Uids : u = kernel[s].used + 1 /\ u # 0
      BY <1>3, SandboxSessionsAssumption, <1>5 DEF Uids, PodRecord
  <2>4. PICK k \in PodRecord : k.uid = u /\ kernel' = [kernel EXCEPT ![s] = k]
    <3> DEFINE k == [uid |-> u, used |-> u, state |-> "starting"]
    <3>1. k \in PodRecord /\ k.uid = u /\ kernel' = [kernel EXCEPT ![s] = k]
        BY <1>5, <2>3 DEF PodRecord
    <3> QED
        BY <3>1
  <2>5. ses' = ses /\ kernel'[s] = k /\ ns' = ns /\ policy' = policy
        /\ late' = (late \/ ~Leased(w))
      BY <1>2, <1>5, <2>4 DEF Landed, db, TypeOK
  <2>6. ~late /\ Leased(w) => LeasedOK(lane[w])
      BY <1>1, LaneFacts
  <2>7. ObjectsOK(s)'
      BY <1>1, <1>3, <1>5, <1>s, <2>4, <2>5, <2>6 DEF ObjectsOK, LeasedOK, Starting, NotRecorded
  <2>8. Leased(w) /\ ~late => LeasedOK(l)'
      BY <1>1, <1>s, <2>1, <2>5, <2>6 DEF LeasedOK, Starting, Cleaning
  <2>9. ns' = [ns EXCEPT ![s] = ns[s]] /\ policy' = [policy EXCEPT ![s] = policy[s]]
      BY <1>2, <2>5 DEF TypeOK
  <2> QED
      BY <1>1, <1>3, <1>5, <1>s, <2>1, <2>2, <2>4, <2>7, <2>8, <2>9, CreatesIInv
<1>6. CASE Fail(w) /\ UNCHANGED <<db, handler, kube, hist, late, faults>>
    BY <1>1, <1>6, FailIInv
<1> QED
    BY <1>4, <1>5, <1>6, <1>s DEF StartPod

\* A step with the lease that writes the row and makes no object.
LEMMA WritesIInv ==
    ASSUME IInv, NEW w \in Lanes, lane[w].pc # "idle", NEW s \in Sessions, s = lane[w].s,
           NEW row \in Session, ses' = [ses EXCEPT ![s] = row],
           NEW l \in Lane, lane' = [lane EXCEPT ![w] = l], l.pc # "idle" => l.s = s /\ ObservedOK(l),
           \A v \in Lanes \ {w} : ~(row.lease = v /\ row.live),
           outcome' = [outcome EXCEPT ![s] = outcome'[s]],
           outcome'[s] \in [Requests -> {"none", "started", "complete", "interrupted"}],
           row.owner = ses[s].owner, row.status # "absent", Active(s)' => Active(s),
           CallFrame(s), ObjectsOK(s)', ~late /\ l.pc # "idle" => LeasedOK(l)',
           UNCHANGED <<app, handler, kube, hist, late, faults>>
    PROVE  IInv'
<1> USE DEF app, hist, kube
<1>0. TypeOK
    BY DEF IInv
<1>1. ses'[s] = row /\ lane'[w] = l
    BY <1>0 DEF TypeOK
<1>2. LaneOK(w)'
  <2>1. LeasedOK(lane[w])' = LeasedOK(l)' /\ ObservedOK(lane[w])' = ObservedOK(l)
      BY <1>1 DEF LeasedOK, ObservedOK
  <2> QED
      BY <1>1, <2>1 DEF LaneOK
<1>3. SessionStep(w, s)
  <2>1. /\ ns' = [ns EXCEPT ![s] = ns'[s]] /\ ns'[s] \in NSRecord
        /\ kernel' = [kernel EXCEPT ![s] = kernel'[s]] /\ kernel'[s] \in PodRecord
        /\ policy' = [policy EXCEPT ![s] = policy'[s]] /\ policy'[s] \in BOOLEAN
        /\ late' \in BOOLEAN /\ faults' \in 0..MaxFaults
      BY <1>0 DEF TypeOK, NSRecord, PodRecord
  <2> QED
      BY <1>1, <2>1 DEF SessionStep
<1> QED
    BY <1>1, <1>2, <1>3, SessionStepIInv

\* What End leaves in the row of a session whose lease the lane has.
LEMMA EndRow ==
    ASSUME TypeOK, NEW w \in Lanes, NEW s \in Sessions, s = lane[w].s, ses[s].lease = w,
           NEW row \in Session, End(w, row)
    PROVE  \E out \in Session :
              /\ ses' = [ses EXCEPT ![s] = out] /\ lane' = [lane EXCEPT ![w] = IdleLane]
              /\ ses'[s] = out /\ out.lease = NoOne
              /\ out.status = row.status /\ out.pending = row.pending /\ out.call = row.call
              /\ out.ns = row.ns /\ out.pod = row.pod /\ out.owner = row.owner
<1> DEFINE out == [row EXCEPT !.lease = NoOne, !.live = FALSE]
<1>1. ses' = [ses EXCEPT ![s] = out] /\ lane' = [lane EXCEPT ![w] = IdleLane]
    BY DEF End
<1>2. /\ out \in Session /\ out.lease = NoOne
      /\ out.status = row.status /\ out.pending = row.pending /\ out.call = row.call
      /\ out.ns = row.ns /\ out.pod = row.pod /\ out.owner = row.owner
    BY DEF Session
<1> HIDE DEF out
<1>3. ses'[s] = out
    BY <1>1 DEF TypeOK
<1> QED
    BY <1>1, <1>2, <1>3

\* The same at the end of the step.
LEMMA EndsIInv ==
    ASSUME IInv, NEW w \in Lanes, NEW s \in Sessions,
           NEW row \in Session, ses' = [ses EXCEPT ![s] = row], row.lease = NoOne,
           lane' = [lane EXCEPT ![w] = IdleLane],
           outcome' = [outcome EXCEPT ![s] = outcome'[s]],
           outcome'[s] \in [Requests -> {"none", "started", "complete", "interrupted"}],
           row.owner = ses[s].owner, row.status # "absent", Active(s)' => Active(s),
           CallFrame(s), ObjectsOK(s)', UNCHANGED <<app, handler, kube, hist, late, faults>>
    PROVE  IInv'
<1> USE DEF app, hist, kube
<1>0. TypeOK
    BY DEF IInv
<1>1. ses'[s] = row /\ lane'[w] = IdleLane
    BY <1>0 DEF TypeOK
<1>2. LaneOK(w)'
    BY <1>1 DEF LaneOK, IdleLane
<1>3. SessionStep(w, s)
  <2>1. /\ ns' = [ns EXCEPT ![s] = ns'[s]] /\ ns'[s] \in NSRecord
        /\ kernel' = [kernel EXCEPT ![s] = kernel'[s]] /\ kernel'[s] \in PodRecord
        /\ policy' = [policy EXCEPT ![s] = policy'[s]] /\ policy'[s] \in BOOLEAN
        /\ late' \in BOOLEAN /\ faults' \in 0..MaxFaults
      BY <1>0 DEF TypeOK, NSRecord, PodRecord
  <2> QED
      BY <1>1, <2>1, BlankTypes DEF SessionStep
<1>4. \A v \in Lanes \ {w} : ~(ses'[s].lease = v /\ ses'[s].live)
    BY <1>1, SandboxSessionsAssumption
<1> QED
    BY <1>1, <1>2, <1>3, <1>4, SessionStepIInv

\* SaveSessionRuntime: what is recorded is there or was never recorded before.
LEMMA SaveIInv == ASSUME IInv, NEW w \in Lanes, SaveSessionRuntime(w) PROVE IInv'
<1>1. lane[w].pc = "save" /\ UNCHANGED <<app, outcome, handler, kube, hist, late, faults>>
    BY DEF SaveSessionRuntime
<1>2. TypeOK /\ ObservedOK(lane[w]) /\ lane[w] \in Lane /\ faults \in 0..MaxFaults
    BY <1>1, LaneFacts
<1>s. PICK s \in Sessions : s = lane[w].s
    BY <1>1, LaneFacts
<1>3. ses[s] \in Session /\ RowOK(s) /\ ObjectsOK(s)
    BY <1>1, <1>s, LaneFacts
<1>4. ~late /\ Leased(w) => LeasedOK(lane[w])
    BY <1>1, LaneFacts
<1>l. PICK u \in Uids, p \in Uids, ready \in BOOLEAN :
         u = lane[w].ns /\ p = lane[w].pod /\ ready = lane[w].ready
    BY <1>2 DEF Lane
<1>r. PICK status \in {"ready", "starting"} : status = IF ready THEN "ready" ELSE "starting"
    OBVIOUS
<1> DEFINE ok == /\ Leased(w) /\ ses[s].status \in {"starting", "ready"}
                 /\ ses[s].ns \in {0, u} /\ ses[s].pod \in {0, p}
           row == [ses[s] EXCEPT !.ns = u, !.pod = p, !.pending = FALSE, !.status = status]
<1>5. \/ ok /\ End(w, row)
      \/ ok /\ ses' = [ses EXCEPT ![s] = row] /\ Goto(w, "request")
      \/ Goto(w, "request") /\ ses' = ses
    BY <1>s, <1>l, <1>r DEF SaveSessionRuntime
<1>6. /\ row \in Session /\ row.ns = u /\ row.pod = p /\ ~row.pending /\ row.status = status
      /\ row.call = ses[s].call /\ row.owner = ses[s].owner /\ row.lease = ses[s].lease
    BY <1>3 DEF Session
<1>7. CASE Goto(w, "request") /\ ses' = ses
    BY <1>1, <1>2, <1>7, GotoIInv DEF PCs, Starting, db
<1> HIDE DEF row
<1>8. ASSUME ok, NEW out \in Session, ses'[s] = out, out.status = row.status, out.pending = row.pending,
             out.call = row.call, out.ns = row.ns, out.pod = row.pod
      PROVE  CallFrame(s) /\ ObjectsOK(s)' /\ (Active(s)' => Active(s)) /\ out.status # "absent"
  <2>1. status = "ready" => p # 0
      BY <1>2, <1>l, <1>r DEF ObservedOK
  <2>2. CallFrame(s)
      BY <1>1, <1>3, <1>6, <1>8, <2>1 DEF CallFrame, Over, kube, RowOK
  <2>3. Active(s)
      BY <1>8 DEF Active
  <2>4. ~late => /\ u # 0 => ns[s].uid \in {0, u}
                 /\ p # 0 => kernel[s].uid \in {0, p}
      BY <1>1, <1>4, <1>8, <1>s, <1>l DEF LeasedOK
  <2>5. ObjectsOK(s)'
      BY <1>1, <1>3, <1>6, <1>8, <2>4 DEF ObjectsOK, kube
  <2> QED
      BY <1>6, <1>8, <2>2, <2>3, <2>5
<1>9. outcome' = [outcome EXCEPT ![s] = outcome'[s]]
      /\ outcome'[s] \in [Requests -> {"none", "started", "complete", "interrupted"}]
    BY <1>1, <1>2 DEF TypeOK
<1>10. CASE ok /\ End(w, row)
  <2>1. ses[s].lease = w
      BY <1>10, <1>s DEF Leased
  <2>2. PICK out \in Session :
              /\ ses' = [ses EXCEPT ![s] = out] /\ lane' = [lane EXCEPT ![w] = IdleLane]
              /\ ses'[s] = out /\ out.lease = NoOne
              /\ out.status = row.status /\ out.pending = row.pending /\ out.call = row.call
              /\ out.ns = row.ns /\ out.pod = row.pod /\ out.owner = row.owner
      BY <1>2, <1>6, <1>10, <1>s, <2>1, EndRow
  <2>3. CallFrame(s) /\ ObjectsOK(s)' /\ (Active(s)' => Active(s)) /\ out.status # "absent"
      BY <1>8, <1>10, <2>2
  <2> QED
      BY <1>1, <1>6, <1>9, <2>2, <2>3, EndsIInv
<1>11. CASE ok /\ ses' = [ses EXCEPT ![s] = row] /\ Goto(w, "request")
  <2>1. ses[s].lease = w
      BY <1>11, <1>s DEF Leased
  <2>2. PICK l \in Lane :
           /\ lane' = [lane EXCEPT ![w] = l] /\ l.pc = "request" /\ ~l.armed
           /\ l.s = lane[w].s /\ l.r = lane[w].r /\ l.ns = lane[w].ns /\ l.pod = lane[w].pod
           /\ l.ready = lane[w].ready
      BY <1>2, <1>11, GotoFields DEF PCs
  <2>3. ses'[s] = row
      BY <1>2, <1>11 DEF TypeOK
  <2>4. CallFrame(s) /\ ObjectsOK(s)' /\ (Active(s)' => Active(s)) /\ row.status # "absent"
      BY <1>6, <1>8, <1>11, <2>3
  <2>5. ObservedOK(l)
      BY <1>2, <2>2 DEF ObservedOK, Starting
  <2>6. LeasedOK(l)'
      BY <1>6, <1>s, <2>2, <2>3 DEF LeasedOK, Starting, Cleaning
  <2>7. \A v \in Lanes \ {w} : ~(row.lease = v /\ row.live)
      BY <1>6, <2>1
  <2> QED
      BY <1>1, <1>6, <1>9, <1>11, <1>s, <2>2, <2>4, <2>5, <2>6, <2>7, WritesIInv
<1> QED
    BY <1>5, <1>7, <1>10, <1>11

\* RequestSessionCleanup: the session closes and the step ends.
LEMMA RequestIInv == ASSUME IInv, NEW w \in Lanes, RequestSessionCleanup(w) PROVE IInv'
<1>1. lane[w].pc = "request" /\ UNCHANGED <<app, outcome, handler, kube, hist, late, faults>>
    BY DEF RequestSessionCleanup
<1>2. TypeOK /\ faults \in 0..MaxFaults
    BY <1>1, LaneFacts
<1>s. PICK s \in Sessions : s = lane[w].s
    BY <1>1, LaneFacts
<1>3. ses[s] \in Session /\ ses[s].status # "absent" /\ RowOK(s) /\ ObjectsOK(s)
    BY <1>1, <1>s, LaneFacts
<1>4. CASE Stay(w)
    BY <1>1, <1>2, <1>4, PlainStayIInv
<1> DEFINE row == [ses[s] EXCEPT !.status = "closing", !.pending = TRUE]
<1>5. CASE Leased(w) /\ ses[s].status # "closed" /\ End(w, row)
  <2>1. ses[s].lease = w
      BY <1>5, <1>s DEF Leased
  <2>2. /\ row \in Session /\ row.status = "closing" /\ row.ns = ses[s].ns /\ row.pod = ses[s].pod
        /\ row.call = ses[s].call /\ row.owner = ses[s].owner
      BY <1>3 DEF Session
  <2> HIDE DEF row
  <2>3. PICK out \in Session :
              /\ ses' = [ses EXCEPT ![s] = out] /\ lane' = [lane EXCEPT ![w] = IdleLane]
              /\ ses'[s] = out /\ out.lease = NoOne
              /\ out.status = row.status /\ out.pending = row.pending /\ out.call = row.call
              /\ out.ns = row.ns /\ out.pod = row.pod /\ out.owner = row.owner
      BY <1>2, <1>5, <1>s, <2>1, <2>2, EndRow
  <2>4. CallFrame(s)
      BY <1>1, <1>3, <1>5, <2>2, <2>3 DEF CallFrame, Over, kube, RowOK
  <2>5. ObjectsOK(s)'
      BY <1>1, <1>3, <2>2, <2>3 DEF ObjectsOK, kube
  <2>6. Active(s)
      BY <1>3, <1>5 DEF Active, Session
  <2>7. outcome' = [outcome EXCEPT ![s] = outcome'[s]]
        /\ outcome'[s] \in [Requests -> {"none", "started", "complete", "interrupted"}]
      BY <1>1, <1>2 DEF TypeOK
  <2> QED
      BY <1>1, <2>2, <2>3, <2>4, <2>5, <2>6, <2>7, EndsIInv
<1> QED
    BY <1>4, <1>5, <1>s DEF RequestSessionCleanup

\* CleanupSession up to the inventory: pods go first.
LEMMA CleanupPodsIInv == ASSUME IInv, NEW w \in Lanes, CleanupPods(w) PROVE IInv'
<1>1. lane[w].pc = "pods" /\ UNCHANGED <<app, outcome, handler, ns, policy, code, hist, late, faults>>
    BY DEF CleanupPods
<1>2. TypeOK /\ faults \in 0..MaxFaults /\ lane[w] \in Lane /\ ObservedOK(lane[w])
    BY <1>1, LaneFacts
<1>s. PICK s \in Sessions : s = lane[w].s
    BY <1>1, LaneFacts
<1>3. ns[s] \in NSRecord /\ kernel[s] \in PodRecord
    BY <1>1, <1>s, LaneFacts
<1>4. CASE ns[s].uid = 0 /\ Goto(w, "cleaned") /\ UNCHANGED <<ses, kernel>>
    BY <1>1, <1>2, <1>4, <1>s, GotoIInv DEF PCs, Cleaning, db, kube
<1>5. CASE kernel' = [kernel EXCEPT ![s].state = "terminating"] /\ Stay(w)
  <2>1. PICK k \in PodRecord : k.uid = kernel[s].uid /\ kernel' = [kernel EXCEPT ![s] = k]
    <3> DEFINE k == [kernel[s] EXCEPT !.state = "terminating"]
    <3>1. k \in PodRecord /\ k.uid = kernel[s].uid
        BY <1>3 DEF PodRecord
    <3>2. kernel' = [kernel EXCEPT ![s] = k]
        BY <1>2, <1>5 DEF TypeOK
    <3> QED
        BY <3>1, <3>2
  <2>2. ns' = [ns EXCEPT ![s] = ns[s]]
      BY <1>1, <1>2 DEF TypeOK
  <2> QED
      BY <1>1, <1>2, <1>3, <1>5, <1>s, <2>1, <2>2, StayIInv
<1>6. CASE /\ lane' = [lane EXCEPT ![w].ns = ns[s].uid, ![w].pc = "inventory"]
           /\ UNCHANGED <<ses, kernel>>
  <2>1. PICK u \in Uids : u = ns[s].uid
      BY <1>3 DEF NSRecord
  <2> DEFINE l == [lane[w] EXCEPT !.ns = u, !.pc = "inventory"]
  <2>2. lane' = [lane EXCEPT ![w] = l]
      BY <1>2, <1>6, <2>1 DEF TypeOK
  <2>3. /\ l \in Lane /\ l.pc = "inventory" /\ l.s = lane[w].s /\ l.ready = lane[w].ready
        /\ l.pod = lane[w].pod
      BY <1>2 DEF Lane
  <2> HIDE DEF l
  <2>4. ObservedOK(l)
      BY <1>2, <2>3 DEF ObservedOK, Starting
  <2>5. ASSUME LeasedOK(lane[w]) PROVE LeasedOK(l)
      BY <1>1, <2>3, <2>5 DEF LeasedOK, Starting, Cleaning
  <2> QED
      BY <1>1, <1>2, <1>6, <2>2, <2>3, <2>4, <2>5, MovesIInv DEF db, kube
<1>7. CASE Stay(w) /\ UNCHANGED kernel
    BY <1>1, <1>2, <1>7, PlainStayIInv DEF kube
<1> QED
    BY <1>4, <1>5, <1>6, <1>7, <1>s DEF CleanupPods

\* The deletion of the namespace, and the last look at it.
LEMMA CleanupNamespaceIInv == ASSUME IInv, NEW w \in Lanes, CleanupNamespace(w) PROVE IInv'
<1>1. /\ lane[w].pc = "inventory"
      /\ UNCHANGED <<app, outcome, handler, policy, kernel, code, hist, late, faults>>
    BY DEF CleanupNamespace
<1>2. TypeOK /\ faults \in 0..MaxFaults /\ lane[w] \in Lane /\ ObservedOK(lane[w])
    BY <1>1, LaneFacts
<1>s. PICK s \in Sessions : s = lane[w].s
    BY <1>1, LaneFacts
<1>3. ns[s] \in NSRecord /\ kernel[s] \in PodRecord
    BY <1>1, <1>s, LaneFacts
<1>4. PICK n \in NSRecord : n.uid = ns[s].uid /\ ns' = [ns EXCEPT ![s] = n]
  <2>1. PICK t \in BOOLEAN : t = (ns[s].term \/ ns[s].uid = lane[w].ns)
      BY <1>3 DEF NSRecord
  <2> DEFINE n == [ns[s] EXCEPT !.term = t]
  <2>2. n \in NSRecord /\ n.uid = ns[s].uid
      BY <1>3 DEF NSRecord
  <2>3. ns' = [ns EXCEPT ![s] = n]
      BY <1>2, <1>s, <2>1 DEF CleanupNamespace, TypeOK
  <2> QED
      BY <2>2, <2>3
<1>5. CASE Clean(s) /\ Goto(w, "cleaned") /\ ses' = ses
  <2>1. PICK l \in Lane :
           /\ lane' = [lane EXCEPT ![w] = l] /\ l.pc = "cleaned" /\ ~l.armed
           /\ l.s = lane[w].s /\ l.r = lane[w].r /\ l.ns = lane[w].ns /\ l.pod = lane[w].pod
           /\ l.ready = lane[w].ready
      BY <1>2, <1>5, GotoFields DEF PCs
  <2>2. ObservedOK(l)
      BY <1>2, <2>1 DEF ObservedOK, Starting
  <2>3. ASSUME LeasedOK(lane[w]) PROVE LeasedOK(l)
      BY <1>1, <1>5, <1>s, <2>1, <2>3 DEF LeasedOK, Starting, Cleaning, Clean
  <2> QED
      BY <1>1, <1>2, <1>4, <1>5, <1>s, <2>1, <2>2, <2>3, GoesIInv DEF db
<1>6. CASE Stay(w)
  <2>1. kernel' = [kernel EXCEPT ![s] = kernel[s]]
      BY <1>1, <1>2 DEF TypeOK
  <2> QED
      BY <1>1, <1>2, <1>3, <1>4, <1>6, <1>s, <2>1, StayIInv
<1> QED
    BY <1>5, <1>6, <1>s DEF CleanupNamespace

\* SessionCleaned: nothing is left, so the receipt is closed and its calls end.
LEMMA CleanedIInv == ASSUME IInv, NEW w \in Lanes, SessionCleaned(w) PROVE IInv'
<1>1. lane[w].pc = "cleaned" /\ UNCHANGED <<app, handler, kube, hist, late, faults>>
    BY DEF SessionCleaned
<1>2. TypeOK /\ faults \in 0..MaxFaults
    BY <1>1, LaneFacts
<1>s. PICK s \in Sessions : s = lane[w].s
    BY <1>1, LaneFacts
<1>3. ses[s] \in Session /\ RowOK(s) /\ ObjectsOK(s)
    BY <1>1, <1>s, LaneFacts
<1>4. CASE Stay(w) /\ UNCHANGED outcome
    BY <1>1, <1>2, <1>4, PlainStayIInv
<1>5. CASE /\ Leased(w) /\ ses[s].status \in Over
           /\ End(w, [ses[s] EXCEPT !.status = "closed", !.pending = FALSE, !.call = NoOne, !.overdue = FALSE,
                                    !.recent = IF ses[s].status = "closed" THEN @ ELSE TRUE])
           /\ outcome' = [outcome EXCEPT ![s] =
                             [q \in Requests |-> IF @[q] = "started" THEN "interrupted" ELSE @[q]]]
  <2>1. ses[s].lease = w
      BY <1>5, <1>s DEF Leased
  <2>2. PICK recent \in BOOLEAN : recent = IF ses[s].status = "closed" THEN ses[s].recent ELSE TRUE
      BY <1>3 DEF Session
  <2> DEFINE row == [ses[s] EXCEPT !.status = "closed", !.pending = FALSE, !.call = NoOne,
                                   !.overdue = FALSE, !.recent = recent]
             ended == [q \in Requests |-> IF outcome[s][q] = "started" THEN "interrupted" ELSE outcome[s][q]]
  <2>3. /\ row \in Session /\ row.status = "closed" /\ ~row.pending /\ row.call = NoOne
        /\ row.ns = ses[s].ns /\ row.pod = ses[s].pod /\ row.owner = ses[s].owner
      BY <1>3 DEF Session
  <2>4. End(w, row) /\ outcome' = [outcome EXCEPT ![s] = ended]
      BY <1>3, <1>5, <2>2 DEF Session
  <2>5. /\ ended \in [Requests -> {"none", "started", "complete", "interrupted"}]
        /\ \A q \in Requests : \/ ended[q] = outcome[s][q]
                               \/ outcome[s][q] = "started" /\ ended[q] = "interrupted"
      BY <1>2 DEF TypeOK
  <2> HIDE DEF row, ended
  <2>6. outcome'[s] = ended
      BY <1>2, <2>4 DEF TypeOK
  <2>7. PICK out \in Session :
              /\ ses' = [ses EXCEPT ![s] = out] /\ lane' = [lane EXCEPT ![w] = IdleLane]
              /\ ses'[s] = out /\ out.lease = NoOne
              /\ out.status = row.status /\ out.pending = row.pending /\ out.call = row.call
              /\ out.ns = row.ns /\ out.pod = row.pod /\ out.owner = row.owner
      BY <1>2, <1>s, <2>1, <2>3, <2>4, EndRow
  <2>8. CallFrame(s)
      BY <1>1, <1>5, <2>3, <2>5, <2>6, <2>7 DEF CallFrame, Over, kube
  <2>9. ObjectsOK(s)'
    <3>1. ~late => ns[s].uid = 0
        BY <1>1, <1>5, <1>s, LaneFacts DEF LeasedOK
    <3> QED
        BY <1>1, <1>3, <2>3, <2>7, <3>1 DEF ObjectsOK, kube
  <2>10. ~Active(s)'
      BY <2>3, <2>7 DEF Active
  <2>11. /\ outcome' = [outcome EXCEPT ![s] = outcome'[s]]
         /\ outcome'[s] \in [Requests -> {"none", "started", "complete", "interrupted"}]
         /\ out.status # "absent"
      BY <2>3, <2>4, <2>5, <2>6, <2>7
  <2> QED
      BY <1>1, <2>3, <2>7, <2>8, <2>9, <2>10, <2>11, EndsIInv
<1> QED
    BY <1>4, <1>5, <1>s DEF SessionCleaned, Over

\* ClaimSession leases the session to a lane that is idle; no lane had its lease.
LEMMA ClaimSessionIInv ==
    ASSUME IInv, NEW w \in Lanes, NEW s \in Sessions, ClaimSession(w, s)
    PROVE  IInv'
<1> USE DEF app, hist, kube
<1>0. TypeOK /\ RowOK(s) /\ ObjectsOK(s)
    BY DEF IInv, RowsOK, ObjectsAllOK
<1>1. ses[s] \in Session /\ ses[s].status # "absent"
      /\ UNCHANGED <<app, outcome, handler, kube, hist, late, faults>>
    BY <1>0 DEF ClaimSession, Claimable, TypeOK
<1>2. PICK pc \in {"pods", "authority"} :
         pc = IF ses[s].status \in {"closing", "closed"} THEN "pods" ELSE "authority"
    OBVIOUS
<1>3. PICK r \in Copies : r = Copy(ses[s])
    BY <1>1, BlankTypes
<1>r. r.ns = ses[s].ns /\ r.pod = ses[s].pod
    BY <1>3 DEF Copy
<1> DEFINE row == [ses[s] EXCEPT !.lease = w, !.live = TRUE]
           l == [IdleLane EXCEPT !.s = s, !.r = r, !.pc = pc]
<1>4. ses' = [ses EXCEPT ![s] = row]
    BY <1>0 DEF ClaimSession, TypeOK
<1>5. lane' = [lane EXCEPT ![w] = l]
    BY <1>2, <1>3 DEF ClaimSession
<1>6. /\ row \in Session /\ row.status = ses[s].status /\ row.pending = ses[s].pending
      /\ row.ns = ses[s].ns /\ row.pod = ses[s].pod /\ row.call = ses[s].call
      /\ row.owner = ses[s].owner /\ row.lease = w
    BY <1>1 DEF Session
<1>7. /\ l \in Lane /\ l.pc = pc /\ l.s = s /\ l.r = r /\ ~l.armed /\ l.ns = 0 /\ l.pod = 0 /\ ~l.ready
  <2>1. IdleLane \in Lane
      BY BlankTypes
  <2>2. l \in Lane /\ l.pc = pc /\ l.s = s /\ l.r = r
      BY <2>1 DEF Lane
  <2>3. ~l.armed /\ l.ns = 0 /\ l.pod = 0 /\ ~l.ready
      BY DEF IdleLane
  <2> QED
      BY <2>2, <2>3
<1> HIDE DEF row, l
<1>l. PICK m \in Lane : m = l
    BY <1>7
<1>8. ses'[s] = row /\ lane'[w] = m
    BY <1>0, <1>4, <1>5, <1>l DEF TypeOK
<1>9. LaneOK(w)'
  <2>1. ObservedOK(m)
      BY <1>7, <1>l DEF ObservedOK
  <2>2. LeasedOK(m)'
    <3>1. pc = "pods" => ses[s].status \in Over
        BY <1>2 DEF Over
    <3>2. pc = "authority" => ses[s].status \notin {"absent", "closed"}
        BY <1>1, <1>2
    <3> QED
        BY <1>2, <1>6, <1>7, <1>8, <1>l, <1>r, <3>1, <3>2 DEF LeasedOK, Starting, Cleaning
  <2>3. LeasedOK(lane[w])' = LeasedOK(m)' /\ ObservedOK(lane[w])' = ObservedOK(m)
      BY <1>8 DEF LeasedOK, ObservedOK
  <2> QED
      BY <1>1, <1>6, <1>7, <1>8, <1>l, <2>1, <2>2, <2>3 DEF LaneOK
<1>10. CallFrame(s)
    BY <1>0, <1>1, <1>6, <1>8 DEF CallFrame, RowOK, Over
<1>11. ObjectsOK(s)'
    BY <1>0, <1>1, <1>6, <1>8 DEF ObjectsOK
<1>12. SessionStep(w, s)
  <2>1. /\ ns' = [ns EXCEPT ![s] = ns'[s]] /\ ns'[s] \in NSRecord
        /\ kernel' = [kernel EXCEPT ![s] = kernel'[s]] /\ kernel'[s] \in PodRecord
        /\ policy' = [policy EXCEPT ![s] = policy'[s]] /\ policy'[s] \in BOOLEAN
        /\ outcome' = [outcome EXCEPT ![s] = outcome'[s]]
        /\ outcome'[s] \in [Requests -> {"none", "started", "complete", "interrupted"}]
        /\ late' \in BOOLEAN /\ faults' \in 0..MaxFaults
      BY <1>0, <1>1 DEF TypeOK, NSRecord, PodRecord
  <2>2. Active(s)' => Active(s)
      BY <1>6, <1>8 DEF Active
  <2> QED
      BY <1>1, <1>4, <1>5, <1>6, <1>8, <1>l, <2>1, <2>2 DEF SessionStep
<1>13. \A v \in Lanes \ {w} : ~(ses'[s].lease = v /\ ses'[s].live)
    BY <1>6, <1>8
<1> QED
    BY <1>1, <1>6, <1>8, <1>9, <1>10, <1>11, <1>12, <1>13, SessionStepIInv

\* A request that fails, and a lane that dies.
LEMMA LaneFaultsIInv == ASSUME IInv, NEW w \in Lanes, RequestFails(w) \/ Crash(w) PROVE IInv'
<1>1. faults' \in 0..MaxFaults /\ UNCHANGED <<app, outcome, handler, kube, hist, late>>
  <2>1. faults < MaxFaults /\ faults' = faults + 1 /\ faults \in 0..MaxFaults /\ MaxFaults \in Nat
      BY SandboxSessionsAssumption DEF RequestFails, Crash, IInv, TypeOK
  <2> QED
      BY <2>1 DEF RequestFails, Crash, db
<1>2. CASE lane[w].pc \in {"ns", "policy", "pod", "state"} /\ Fail(w) /\ UNCHANGED ses
    BY <1>1, <1>2, FailIInv DEF db
<1>3. CASE lane[w].pc \in {"pods", "inventory"} /\ Stay(w)
    BY <1>1, <1>3, PlainStayIInv
<1>4. CASE Crash(w)
  <2>1. PICK l \in Lane : l = IdleLane /\ l.pc = "idle"
      BY BlankTypes DEF IdleLane
  <2> QED
      BY <1>1, <1>4, <2>1, MovesIInv DEF Crash
<1> QED
    BY <1>2, <1>3, <1>4 DEF RequestFails

-----------------------------------------------------------------------------
(* All steps.                                                              *)

\* Every step of a lane preserves the invariant.
LEMMA LaneStepIInv == ASSUME IInv, NEW w \in Lanes, LaneStep(w) PROVE IInv'
<1>1. CASE \E s \in Sessions : ClaimSession(w, s)
    BY <1>1, ClaimSessionIInv
<1>2. CASE Authority(w) \/ Arm(w) \/ NotArmed(w)
    BY <1>2, AuthorityIInv, ArmIInv
<1>3. CASE StartNamespace(w) \/ StartPolicy(w) \/ StartPod(w) \/ ReadState(w)
    BY <1>3, StartNamespaceIInv, StartPolicyIInv, StartPodIInv, ReadStateIInv
<1>4. CASE SaveSessionRuntime(w) \/ RequestSessionCleanup(w)
    BY <1>4, SaveIInv, RequestIInv
<1>5. CASE CleanupPods(w) \/ CleanupNamespace(w) \/ SessionCleaned(w)
    BY <1>5, CleanupPodsIInv, CleanupNamespaceIInv, CleanedIInv
<1> QED
    BY <1>1, <1>2, <1>3, <1>4, <1>5 DEF LaneStep

\* Every step of the system preserves the invariant.
LEMMA NextIInv == IInv /\ [Next]_vars => IInv'
<1> SUFFICES ASSUME IInv, [Next]_vars PROVE IInv'
    OBVIOUS
<1>1. CASE User
  <2>1. ASSUME NEW s \in Sessions, CloseSession(s) \/ \E o \in Owners : CreateSession(s, o) PROVE IInv'
      BY <2>1, CloseSessionIInv, CreateSessionIInv
  <2>2. ASSUME NEW h \in Handlers, NEW s \in Sessions, NEW q \in Requests, ClaimSessionCall(h, s, q)
        PROVE  IInv'
      BY <2>2, ClaimSessionCallIInv
  <2>3. CASE Accept \/ StartVolumeResize
      BY <2>3, AppStepsIInv
  <2> QED
      BY <1>1, <2>1, <2>2, <2>3 DEF User
<1>2. CASE Deploy
    BY <1>2, AppStepsIInv
<1>3. CASE Deadlines
    BY <1>3, DeadlinesIInv DEF Deadlines
<1>4. CASE Faults
  <2>1. CASE Revoke
      BY <2>1, AppStepsIInv
  <2>2. CASE \E w \in Lanes : RequestFails(w) \/ Crash(w)
      BY <2>2, LaneFaultsIInv
  <2>3. CASE \E h \in Handlers : CallBroken(h) \/ HandlerLost(h)
      BY <2>3, HandlerStepsIInv
  <2>4. CASE \E s \in Sessions : KernelUnready(s) \/ KernelStops(s)
      BY <2>4, ClusterIInv
  <2> QED
      BY <1>4, <2>1, <2>2, <2>3, <2>4 DEF Faults
<1>5. CASE \E w \in Lanes : LaneStep(w)
    BY <1>5, LaneStepIInv
<1>6. ASSUME NEW h \in Handlers, HandlerStep(h) PROVE IInv'
    BY <1>6, CallSessionIInv, HandlerStepsIInv, FinishIInv DEF HandlerStep
<1>7. ASSUME NEW s \in Sessions, LeaseExpires(s) PROVE IInv'
    BY <1>7, DeadlinesIInv
<1>8. ASSUME NEW s \in Sessions, Cluster(s) PROVE IInv'
    BY <1>8, ClusterIInv, CodeEndsIInv DEF Cluster
<1>9. CASE UNCHANGED vars
  <2>1. /\ UNCHANGED <<ses, outcome, lane, handler, kube, hist, late>>
        /\ UNCHANGED <<revision, active, dep, resize, key, faults>>
      BY <1>9 DEF vars, db, app
  <2>2. /\ revision \in Revisions /\ active \in Revisions /\ key \in BOOLEAN
        /\ dep \in {"none", "queued", "running", "switching"}
        /\ resize \in {"none", "copying", "switching"} /\ faults \in 0..MaxFaults
      BY DEF IInv, TypeOK
  <2> QED
      BY <2>1, <2>2, AppIInv
<1> QED
    BY <1>1, <1>2, <1>3, <1>4, <1>5, <1>6, <1>7, <1>8, <1>9 DEF Next

\* Rows, calls, leases, objects and limits agree in every reachable state.
THEOREM SessionsInductive == Spec => []IInv
    BY InitIInv, NextIInv, PTL DEF Spec

-----------------------------------------------------------------------------
(* What the invariant gives.                                               *)

\* The code of a request is started at most once: ClaimSessionCall takes a request
\* only without an outcome, and its handler starts the code only once.
THEOREM RunsOnce == Spec => []NoReplay
<1>1. IInv => NoReplay
    BY DEF IInv, RowsOK, RowOK, NoReplay
<1> QED
    BY <1>1, SessionsInductive, PTL

\* A set all of whose elements are equal has at most one.
LEMMA AtMostOne == ASSUME NEW S, \A x, y \in S : x = y PROVE Cardinality(S) <= 1
<1>1. CASE S = {}
    BY <1>1, FS_EmptySet
<1>2. CASE S # {}
  <2>1. PICK x : S = {x}
      BY <1>2
  <2> QED
      BY <2>1, FS_Singleton
<1> QED
    BY <1>1, <1>2

\* Two calls never run in a kernel at the same time, and all calls of a session run
\* in one pod: the code of a call that was given up still runs only in a session
\* that is over, and the pod of a session is recorded before the first call.
THEOREM OneCallAtATime == Spec => []OneCall
<1>1. IInv => OneCall
  <2> SUFFICES ASSUME IInv, NEW s \in Sessions
               PROVE  Cardinality(code[s]) <= 1 /\ Cardinality(pods[s]) <= 1
      BY DEF OneCall
  <2>1. (\A q, r \in code[s] : q = r) /\ (\A p \in pods[s] : p = ses[s].pod)
      BY DEF IInv, RowsOK, RowOK
  <2>2. \A p, r \in pods[s] : p = r
      BY <2>1
  <2> QED
      BY <2>1, <2>2, AtMostOne
<1> QED
    BY <1>1, SessionsInductive, PTL

\* Success is told only of what FinishSessionCall has put on record.
THEOREM SuccessOnRecord == Spec => []ToldComplete
<1>1. IInv => ToldComplete
  <2> SUFFICES ASSUME IInv, NEW s \in Sessions, NEW q \in told[s] PROVE outcome[s][q] = "complete"
      BY DEF ToldComplete
  <2>1. q \in Requests
      BY DEF IInv, TypeOK
  <2> QED
      BY <2>1 DEF IInv, RowsOK, RowOK
<1> QED
    BY <1>1, SessionsInductive, PTL

\* As long as no request landed after its lease, the recorded namespace and pod are
\* the only ones: StartSession creates nothing that has been recorded.
THEOREM RecordedStays == Spec => []NeverRecreated
<1>1. IInv => NeverRecreated
    BY DEF IInv, ObjectsAllOK, ObjectsOK, NeverRecreated
<1> QED
    BY <1>1, SessionsInductive, PTL

\* A closed receipt has no namespace and no kernel, as long as no request landed
\* after its lease: the lane that closes it has seen that there is none, and had the
\* lease since then.
THEOREM ClosedIsClean == Spec => []ClosedClean
<1>1. IInv => ClosedClean
    BY DEF IInv, ObjectsAllOK, ObjectsOK, ClosedClean
<1> QED
    BY <1>1, SessionsInductive, PTL

\* A session that is not active has no kernel.
LEMMA InactiveNoKernel ==
    ASSUME IInv, ~late, NEW s \in Sessions, s \notin ActiveSet PROVE kernel[s].uid = 0
<1>1. TypeOK /\ ObjectsOK(s) /\ ~Active(s)
    BY DEF IInv, ObjectsAllOK, ActiveSet
<1>2. ses[s].status \in {"absent", "closed"}
    BY <1>1 DEF TypeOK, Session, Active
<1> QED
    BY <1>1, <1>2 DEF ObjectsOK

\* No session is active while a deployment waits or runs; as long as no request
\* landed after its lease no kernel runs then either, and a kernel has its deny-all
\* policy: fenceSessionsForDeployment and CreateSession exclude each other, and a
\* session stays active until its cleanup is confirmed.
THEOREM DeploymentsFenced == Spec => []DeployFenced
<1>1. IInv => DeployFenced
  <2> SUFFICES ASSUME IInv PROVE DeployFenced
      OBVIOUS
  <2>1. TypeOK
      BY DEF IInv
  <2>2. ASSUME dep \in {"queued", "running"}
        PROVE  ~SessionsActive /\ (~late => \A s \in Sessions : kernel[s].uid = 0)
    <3>1. ActiveSet = {}
        BY <2>2 DEF IInv, FenceOK
    <3>2. ~SessionsActive
        BY <3>1 DEF ActiveSet, SessionsActive
    <3> QED
        BY <3>1, <3>2, InactiveNoKernel
  <2>3. ~late => \A s \in Sessions : kernel[s].uid # 0 => policy[s]
      BY DEF IInv, ObjectsAllOK, ObjectsOK
  <2> QED
      BY <2>1, <2>2, <2>3 DEF DeployFenced
<1> QED
    BY <1>1, SessionsInductive, PTL

\* The limits CreateSession puts on active sessions hold for their kernels, as long
\* as no request landed after its lease.
THEOREM WithinLimits == Spec => []Limits
<1>1. IInv => Limits
  <2> SUFFICES ASSUME IInv, ~late
               PROVE  /\ Cardinality({s \in Sessions : kernel[s].uid # 0}) <= MaxActive
                      /\ \A s, t \in Sessions :
                           s # t /\ kernel[s].uid # 0 /\ kernel[t].uid # 0 => ses[s].owner # ses[t].owner
      BY DEF Limits
  <2> DEFINE Kernels == {s \in Sessions : kernel[s].uid # 0}
  <2>1. Kernels \subseteq ActiveSet
      BY InactiveNoKernel
  <2>2. IsFiniteSet(Kernels) /\ Cardinality(Kernels) <= Cardinality(ActiveSet)
      BY <2>1, FS_Subset DEF IInv, FenceOK
  <2>3. /\ Cardinality(Kernels) \in Nat /\ Cardinality(ActiveSet) \in Nat /\ MaxActive \in Nat
        /\ Cardinality(ActiveSet) <= MaxActive
      BY <2>2, FS_CardinalityType, SandboxSessionsAssumption DEF IInv, FenceOK
  <2> HIDE DEF Kernels
  <2>4. Cardinality(Kernels) <= MaxActive
      BY <2>2, <2>3
  <2>5. \A s, t \in Kernels : s # t => ses[s].owner # ses[t].owner
      BY <2>1 DEF IInv, FenceOK
  <2> QED
      BY <2>4, <2>5 DEF Kernels
<1> QED
    BY <1>1, SessionsInductive, PTL

-----------------------------------------------------------------------------
(* Outcomes.                                                               *)

\* A step writes the outcome of a request only while it is none or started.
LEMMA OutcomeStep ==
    ASSUME IInv, [Next]_vars, NEW s \in Sessions, NEW q \in Requests,
           outcome[s][q] \in {"complete", "interrupted"}
    PROVE  outcome'[s][q] = outcome[s][q]
<1>0. TypeOK
    BY DEF IInv
<1> USE DEF db
<1>1. CASE User
  <2>1. ASSUME NEW h \in Handlers, NEW t \in Sessions, NEW r \in Requests, ClaimSessionCall(h, t, r)
        PROVE  outcome'[s][q] = outcome[s][q]
    <3>1. outcome[t][r] = "none" /\ outcome' = [outcome EXCEPT ![t][r] = "started"]
        BY <2>1 DEF ClaimSessionCall, NewRequest
    <3>2. t # s \/ r # q
        BY <3>1
    <3> QED
        BY <1>0, <3>1, <3>2 DEF TypeOK
  <2> QED
      BY <1>1, <2>1 DEF User, CloseSession, CreateSession, Accept, StartVolumeResize
<1>2. CASE Deploy \/ Deadlines
    BY <1>2 DEF Deploy, DeployClaim, BeginCutover, DeployEnd, ResizeEnds,
                Deadlines, Expire, StartupDeadline, CallDeadline, CloseAges, Passed
<1>3. CASE Faults
    BY <1>3 DEF Faults, Revoke, RequestFails, Crash, CallBroken, HandlerLost, Interrupted,
                KernelUnready, KernelStops, Elsewhere
<1>4. ASSUME NEW w \in Lanes, LaneStep(w) PROVE outcome'[s][q] = outcome[s][q]
  <2>1. CASE SessionCleaned(w)
    <3>1. lane[w].s \in Sessions
        BY <2>1, LaneFacts DEF SessionCleaned
    <3>2. CASE outcome' = [outcome EXCEPT ![lane[w].s] =
                  [r \in Requests |-> IF @[r] = "started" THEN "interrupted" ELSE @[r]]]
        BY <1>0, <3>1, <3>2 DEF TypeOK
    <3> QED
        BY <2>1, <3>2 DEF SessionCleaned
  <2>2. CASE \/ \E t \in Sessions : ClaimSession(w, t)
             \/ Authority(w) \/ Arm(w) \/ NotArmed(w) \/ ReadState(w)
             \/ SaveSessionRuntime(w) \/ RequestSessionCleanup(w)
             \/ CleanupPods(w) \/ CleanupNamespace(w)
      BY <2>2 DEF ClaimSession, Authority, Arm, NotArmed, ReadState, SaveSessionRuntime,
                  RequestSessionCleanup, CleanupPods, CleanupNamespace
  <2>3. CASE StartNamespace(w) \/ StartPolicy(w) \/ StartPod(w)
      BY <2>3 DEF StartNamespace, StartPolicy, StartPod, Landed
  <2> QED
      BY <1>4, <2>1, <2>2, <2>3 DEF LaneStep
<1>5. ASSUME NEW h \in Handlers, HandlerStep(h) PROVE outcome'[s][q] = outcome[s][q]
  <2>1. CASE FinishSessionCall(h)
    <3>1. CASE OwnsCall(h)
      <4>1. CallOK(h, handler[h]) /\ handler[h].s \in Sessions /\ handler[h].q \in Requests
          BY <2>1, HandlerFacts DEF FinishSessionCall
      <4>2. outcome[handler[h].s][handler[h].q] = "started"
          BY <3>1, <4>1 DEF CallOK, OwnsCall
      <4>3. handler[h].s # s \/ handler[h].q # q
          BY <4>2
      <4>4. PICK end : outcome' = [outcome EXCEPT ![handler[h].s][handler[h].q] = end]
          BY <2>1, <3>1 DEF FinishSessionCall
      <4> QED
          BY <1>0, <4>1, <4>3, <4>4 DEF TypeOK
    <3>2. CASE ~OwnsCall(h)
        BY <2>1, <3>2 DEF FinishSessionCall
    <3> QED
        BY <3>1, <3>2
  <2>2. CASE ObserveBefore(h) \/ CallSession(h) \/ CallObserved(h) \/ CallCancelled(h)
      BY <2>2 DEF ObserveBefore, CallSession, CallObserved, CallCancelled, Interrupted
  <2> QED
      BY <1>5, <2>1, <2>2 DEF HandlerStep
<1>6. ASSUME NEW t \in Sessions, LeaseExpires(t) \/ Cluster(t) PROVE outcome'[s][q] = outcome[s][q]
    BY <1>6 DEF LeaseExpires, Passed, Cluster, KernelStarts, KernelGone, NamespaceGone, CodeEnds, Elsewhere
<1>7. CASE UNCHANGED vars
    BY <1>7 DEF vars
<1> QED
    BY <1>1, <1>2, <1>3, <1>4, <1>5, <1>6, <1>7 DEF Next

\* An outcome is final: only the handler that owns the call, or the cleanup while
\* the call is open, writes it.
THEOREM OutcomeIsFinal == Spec => OutcomeFinal
<1>1. IInv /\ [Next]_vars =>
        [\A s \in Sessions, q \in Requests :
            outcome[s][q] \in {"complete", "interrupted"} => outcome'[s][q] = outcome[s][q]]_vars
    BY OutcomeStep
<1> QED
    BY <1>1, SessionsInductive, PTL DEF Spec, OutcomeFinal

=============================================================================

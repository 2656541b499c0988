------------------------- MODULE VolumeResizeProofs -------------------------
(***************************************************************************)
(* Proofs about VolumeResize, for every set of lanes and every bound on    *)
(* resizes, revisions, writes and faults.                                  *)
(***************************************************************************)
EXTENDS VolumeResize, TLAPS

-----------------------------------------------------------------------------
(* The inductive invariant: the database.                                  *)

\* The claim of the current revision.
Cur == rows[revision].claim

Staged == {"queued", "copying", "cancelling"}
Switched == {"switching", "original_retained", "deleting_original", "completed"}

\* The claims that have been replaced.
Retired == {resize[i].claim : i \in {k \in Ids : resize[k].phase \in Switched}}

\* Every revision names the current claim or one that has been replaced, and a
\* revision that is still to be deployed the current one.
RowOK(r) ==
    /\ r > revision => rows[r] = NoRow
    /\ r <= revision => rows[r].status # "absent"
    /\ rows[r].status # "absent" => rows[r].claim = Cur \/ rows[r].claim \in Retired
    /\ rows[r].status \in Pending => rows[r].claim = Cur
    /\ rows[r].claim \in Ids => resize[rows[r].claim].phase \in Switched
    /\ rows[r].resize # 0 => resize[rows[r].resize].phase \in Switched

\* A resize that is not switched yet works on the current claim, of a revision that
\* is deployed and cannot be followed by another.
ResizeOK(i) ==
    /\ resize[i].claim # i
    /\ resize[i].claim \in Ids => resize[resize[i].claim].phase \in Switched
    /\ resize[i].phase \in {"absent", "queued"} => ~resize[i].verified
    /\ resize[i].verified => resize[i].uid
    /\ resize[i].phase \in Staged =>
         /\ resize[i].claim = Cur /\ resize[i].base = revision
         /\ rows[revision].status = "succeeded" /\ ~RowPending
         /\ i \in reserved
    /\ resize[i].phase = "switching" =>
         /\ Cur = i /\ rows[revision].resize = i
         /\ \A r \in Revisions : rows[r].status \in Pending => rows[r].resize = i

DbOK ==
    /\ \A r \in Revisions : RowOK(r)
    /\ \A i \in Ids : ResizeOK(i)
    /\ \A i, k \in Ids : resize[i].phase \in Blocking /\ resize[k].phase \in Blocking => i = k
    /\ Cur \notin Retired /\ Cur \in reserved

-----------------------------------------------------------------------------
(* The inductive invariant: Kubernetes.                                    *)

\* Nobody can write.
Stopped == svc.replicas = 0 /\ pod = NoPod

\* The copy of resize i is complete, and stays.
Copied(i) == Stopped /\ content[i] = written /\ helper[i] # "running"

\* What is true of the copy pod of a resize in its phase.
HelperOK(i) ==
    /\ resize[i].phase \in {"absent", "queued"} => helper[i] = "none"
    /\ resize[i].phase \in Switched => helper[i] # "running"
    /\ resize[i].phase = "copying" =>
         /\ helper[i] \in Present => Stopped
         /\ helper[i] = "succeeded" => content[i] = written
         /\ resize[i].verified => Copied(i)

\* What is true as long as no request landed late.
OnTimeOK ==
    /\ \A c \in Claims : pvc[c] # "none" => c \in reserved
    /\ quota.owner # 0 => resize[quota.owner].phase \in {"copying", "cancelling"}
    /\ pod \in {NoPod, Cur} /\ content[Cur] = written
    /\ svc.replicas = 1 => svc.claim = Cur
    /\ \A i \in Ids : HelperOK(i)

QuotaOK == quota.extra = IF quota.owner = 0 THEN 0 ELSE 1

\* A claim that a resize replaces is there until it is deleted.
SourceOK(i) ==
    resize[i].phase # "absent" /\ pvc[resize[i].claim] = "none" => resize[i].claim \in deleted

KubeOK ==
    /\ QuotaOK
    /\ \A i \in Ids : SourceOK(i)
    /\ ~late => OnTimeOK

-----------------------------------------------------------------------------
(* The inductive invariant: lanes.                                         *)

CopyPcs == Prepare \cup {"undo", "undoResume", "finish", "again", "cut"}
SwitchPcs == {"deploy", "applied"}
CancelPcs == {"cancel", "resume", "health", "deleteTarget", "cancelled"}
DeletePcs == {"check", "deleteOriginal", "completed"}

\* A lane in state l is about to delete the staging claim of resize i.
Deletes(l, i) == l.pc = "deleteTarget" /\ l.armed /\ l.id = i

\* What is true of any lane in state l, whether or not it still has the lock: a
\* claim that it deletes is still there only while the resize is.
PassOK(l) ==
    /\ l.id \in Ids /\ resize[l.id].phase \notin {"absent", "queued"}
    /\ l.base \in Revisions
    /\ l.pc = "deleteTarget" /\ l.armed /\ l.id \notin deleted =>
         resize[l.id].phase = "cancelling" /\ pvc[l.id] # "none"
    /\ l.pc = "deleteOriginal" /\ l.armed /\ resize[l.id].claim \notin deleted =>
         resize[l.id].phase = "deleting_original" /\ rows[revision].status = "succeeded"

\* What is true of a lane in state l that has the lock.
HoldOK(l) ==
    /\ l.pc \in CopyPcs => resize[l.id].phase = "copying"
    /\ l.pc \in SwitchPcs => resize[l.id].phase = "switching"
    /\ l.pc \in CancelPcs => resize[l.id].phase = "cancelling"
    /\ l.pc \in DeletePcs => resize[l.id].phase = "deleting_original" /\ l.base = revision
    /\ resize[l.id].phase \in Blocking
    /\ resize[l.id].verified => l.verified
    /\ l.verified => l.uid
    /\ l.pc \in {"stop", "drain", "helper", "report"} => l.uid
    /\ l.pc \in {"stop", "drain", "helper", "report", "undo", "undoResume", "again"} => ~l.verified
    /\ l.pc = "deleteOriginal" => rows[revision].status = "succeeded"
    /\ l.pc = "completed" => resize[l.id].claim \in deleted

\* And of the objects, as long as no request landed late.
HoldKube(l) ==
    /\ l.pc \in {"cut", "resume", "health", "deleteTarget", "cancelled"} => quota.owner = 0
    /\ l.pc = "undoResume" => helper[l.id] = "none"
    /\ l.pc = "drain" => svc.replicas = 0
    /\ l.pc = "helper" => Stopped
    /\ l.verified /\ resize[l.id].phase = "copying" => Copied(l.id)
    /\ l.pc = "cancelled" => pvc[l.id] = "none"
    /\ l.pc = "completed" => pvc[resize[l.id].claim] = "none"

\* Nobody is left to delete the staging claim once its deletion is recorded.
CancelledOK(w) ==
    lock = w /\ lane[w].pc = "cancelled" =>
        lane[w].id \in deleted \/ \A v \in Lanes : ~Deletes(lane[v], lane[w].id)

LaneOK(w) ==
    /\ lane[w].pc # "idle" => PassOK(lane[w])
    /\ lock = w => lane[w].pc # "idle" /\ HoldOK(lane[w])
    /\ lock = w /\ ~late => HoldKube(lane[w])
    /\ CancelledOK(w)

LanesOK == \A w \in Lanes : LaneOK(w)

IInv ==
    /\ TypeOK
    /\ DbOK
    /\ KubeOK
    /\ LanesOK

-----------------------------------------------------------------------------
(* Initial states and types.                                               *)

\* Bounds: the numbers of resizes, claims and revisions.
LEMMA Bounds ==
    /\ MaxRevision \in Nat /\ MaxResizes \in Nat /\ MaxWrites \in Nat /\ MaxFaults \in Nat
    /\ 0 \in Claims /\ 0 \notin Ids /\ Ids \subseteq Claims /\ NoPod \notin Claims
    /\ 1 \in Revisions /\ 0 \in 0..MaxRevision /\ 0 \in 0..MaxWrites /\ 0 \in 0..MaxFaults
    /\ Revisions \subseteq 0..MaxRevision /\ Revisions \subseteq Nat /\ Claims \subseteq Nat
    /\ \A c \in Claims : c # 0 => c \in Ids
    /\ \A w \in Lanes : w # NoOne /\ w # Deployer
BY VolumeResizeAssumption DEF Claims, Ids, Revisions, NoPod

\* The blank rows have their types.
LEMMA BlankTypes == NoRow \in Row /\ NoResize \in Resize /\ IdleLane \in LaneState
<1>1. NoRow \in Row
    BY Bounds, Zenon DEF NoRow, Row
<1>2. NoResize \in Resize
    BY Bounds, Zenon DEF NoResize, Resize, Phases
<1>3. IdleLane \in LaneState
    BY Bounds, Zenon DEF IdleLane, LaneState, Pcs
<1> QED
    BY <1>1, <1>2, <1>3

\* The invariant holds before the first resize.
LEMMA InitIInv == Init => IInv
<1> SUFFICES ASSUME Init PROVE IInv
    OBVIOUS
<1>1. TypeOK
  <2> USE DEF Init
  <2>1. rows \in [Revisions -> Row]
    <3>1. [NoRow EXCEPT !.status = "succeeded"] \in Row
        BY Bounds DEF NoRow, Row, Pending
    <3> QED
        BY <3>1, BlankTypes
  <2>2. /\ revision \in Revisions /\ resize \in [Ids -> Resize] /\ reserved \subseteq Claims
        /\ lock \in Lanes \cup {NoOne, Deployer} /\ lane \in [Lanes -> LaneState]
      BY Bounds, BlankTypes
  <2>3. /\ pvc \in [Claims -> {"none", "pending", "bound"}] /\ deleted \subseteq Claims
        /\ content \in [Claims -> 0..MaxWrites] /\ written \in 0..MaxWrites
        /\ helper \in [Ids -> {"none", "running", "succeeded", "failed", "terminating"}]
        /\ late \in BOOLEAN /\ faults \in 0..MaxFaults
      BY Bounds
  <2>4. svc \in [replicas : {0, 1}, claim : Claims] /\ pod \in Claims \cup {NoPod}
      BY Bounds
  <2>5. quota \in [owner : Claims, extra : Nat]
      BY Bounds
  <2> QED
      BY <2>1, <2>2, <2>3, <2>4, <2>5 DEF TypeOK
<1>2. /\ rows[1] = [NoRow EXCEPT !.status = "succeeded"] /\ revision = 1
      /\ \A r \in Revisions : r # 1 => rows[r] = NoRow
      /\ \A i \in Ids : resize[i] = NoResize /\ resize[i].phase = "absent" /\ ~resize[i].verified
                        /\ resize[i].claim = 0
    BY Bounds DEF Init, NoResize
<1>3. rows[1].claim = 0 /\ rows[1].resize = 0 /\ rows[1].status = "succeeded"
    BY <1>2 DEF NoRow
<1>4. Cur = 0 /\ Retired = {}
    BY <1>2, <1>3 DEF Cur, Retired, Switched
<1>5. DbOK
  <2>1. ASSUME NEW r \in Revisions PROVE RowOK(r)
    <3>1. r = 1 \/ r > 1
        BY DEF Revisions
    <3> QED
        BY <1>2, <1>3, <1>4, <3>1, Bounds DEF RowOK, NoRow, Pending
  <2>2. ASSUME NEW i \in Ids PROVE ResizeOK(i)
      BY <1>2, Bounds DEF ResizeOK, Staged
  <2>3. \A i \in Ids : resize[i].phase \notin Blocking
      BY <1>2 DEF Blocking
  <2> QED
      BY <1>4, <2>1, <2>2, <2>3 DEF DbOK, Init
<1>6. KubeOK
  <2>1. QuotaOK /\ \A i \in Ids : SourceOK(i)
      BY <1>2 DEF QuotaOK, SourceOK, Init
  <2>2. OnTimeOK
      BY <1>2, <1>4, Bounds DEF OnTimeOK, HelperOK, Init, Switched
  <2> QED
      BY <2>1, <2>2 DEF KubeOK
<1>7. LanesOK
    BY Bounds DEF Init, LanesOK, LaneOK, CancelledOK, IdleLane
<1> QED
    BY <1>1, <1>5, <1>6, <1>7 DEF IInv

-----------------------------------------------------------------------------
(* Steps that leave the database alone.                                    *)

\* State m of a lane is state l, but that the object may have changed since.
Alike(m, l) ==
    /\ m.pc = l.pc /\ m.id = l.id /\ m.base = l.base
    /\ m.verified = l.verified /\ m.uid = l.uid /\ m.armed = l.armed

\* Lane w goes to state l; what the other lanes have read may be overwritten.
Moves(w, l) ==
    /\ lane' \in [Lanes -> LaneState] /\ lane'[w] = l /\ l \in LaneState
    /\ \A v \in Lanes \ {w} : Alike(lane'[v], lane[v])

\* A claim that disappears has been deleted, and a deletion is not forgotten.
Recorded ==
    /\ deleted \subseteq deleted'
    /\ \A c \in Claims : pvc'[c] = "none" => pvc[c] = "none" \/ c \in deleted'

\* The current claim and the claims that were replaced depend on the database alone.
LEMMA SameDb ==
    ASSUME UNCHANGED db
    PROVE  /\ revision' = revision /\ rows' = rows /\ resize' = resize /\ reserved' = reserved
           /\ Cur' = Cur /\ Retired' = Retired /\ (DbOK => DbOK')
<1>1. revision' = revision /\ rows' = rows /\ resize' = resize /\ reserved' = reserved
    BY DEF db
<1>2. Cur' = Cur /\ Retired' = Retired
    BY <1>1 DEF Cur, Retired
<1>3. DbOK => DbOK'
    BY <1>1, <1>2 DEF DbOK, RowOK, ResizeOK, RowPending
<1> QED
    BY <1>1, <1>2, <1>3

\* What is true of a lane that takes no step.
LEMMA OtherLane ==
    ASSUME IInv, NEW v \in Lanes, Alike(lane'[v], lane[v]), UNCHANGED db, Recorded
    PROVE  /\ lane'[v].pc # "idle" => PassOK(lane[v])'
           /\ lock = v => lane'[v].pc # "idle" /\ HoldOK(lane[v])'
<1>1. PICK l, m : l = lane[v] /\ m = lane'[v]
    OBVIOUS
<1>2. Alike(m, l) /\ (l.pc # "idle" => PassOK(l)) /\ (lock = v => l.pc # "idle" /\ HoldOK(l))
    BY <1>1 DEF IInv, LanesOK, LaneOK
<1>3. revision' = revision /\ rows' = rows /\ resize' = resize
    BY SameDb
<1>4. ASSUME PassOK(l) PROVE PassOK(m)'
  <2>1. m.id \in Claims /\ l.id = m.id
      BY <1>2, <1>4, Bounds DEF Alike, PassOK
  <2>2. pvc[m.id] # "none" => pvc'[m.id] # "none" \/ m.id \in deleted'
      BY <2>1 DEF Recorded
  <2>3. deleted \subseteq deleted'
      BY DEF Recorded
  <2> QED
      BY <1>2, <1>3, <1>4, <2>1, <2>2, <2>3 DEF Alike, PassOK
<1>5. ASSUME HoldOK(l) PROVE HoldOK(m)'
  <2>1. deleted \subseteq deleted'
      BY DEF Recorded
  <2> QED
      BY <1>2, <1>3, <1>5, <2>1 DEF Alike, HoldOK
<1> QED
    BY <1>1, <1>2, <1>4, <1>5 DEF Alike, PassOK, HoldOK

\* A step of lane w that leaves the database alone. If it is not a request to
\* Kubernetes, nothing there changes; if it is one, it is late without the lock.
LEMMA LaneIInv ==
    ASSUME IInv, TypeOK', NEW w \in Lanes, NEW l \in LaneState, Moves(w, l), UNCHANGED db,
           Recorded, QuotaOK', lock' = lock \/ lock' = NoOne, late => late',
           \/ UNCHANGED kube /\ (lock' = w \/ lock' = NoOne \/ l.pc # "deleteTarget" \/ ~l.armed)
           \/ lock' = lock /\ ~l.armed /\ (lock = w \/ late')
              /\ (lock = w /\ ~late' => OnTimeOK'),
           l.pc # "idle" => PassOK(l)',
           lock' = w => l.pc # "idle" /\ HoldOK(l)' /\ (~late' => HoldKube(l)'),
           lock' = w /\ l.pc = "cancelled" =>
              l.id \in deleted' \/ \A v \in Lanes : ~Deletes(lane'[v], l.id)
    PROVE  IInv'
<1>1. revision' = revision /\ rows' = rows /\ resize' = resize /\ reserved' = reserved
      /\ Cur' = Cur /\ DbOK'
    BY SameDb DEF IInv
<1>2. w # NoOne
    BY Bounds
<1>3. KubeOK'
  <2>1. ASSUME NEW i \in Ids PROVE SourceOK(i)'
    <3>1. SourceOK(i) /\ resize[i].claim \in Claims
        BY DEF IInv, KubeOK, TypeOK, Resize
    <3> QED
        BY <1>1, <3>1 DEF SourceOK, Recorded
  <2>2. ~late' => OnTimeOK'
    <3>1. CASE UNCHANGED kube
        BY <1>1, <3>1 DEF IInv, KubeOK, OnTimeOK, HelperOK, Stopped, Copied, kube
    <3> QED
        BY <3>1
  <2> QED
      BY <2>1, <2>2 DEF KubeOK
<1>4. ASSUME NEW v \in Lanes PROVE LaneOK(v)'
  <2>1. CASE v = w
    <3>1. lane'[v] = l
        BY <2>1 DEF Moves
    <3>2. /\ lane'[v].pc # "idle" => PassOK(lane[v])'
          /\ lock' = v => lane'[v].pc # "idle" /\ HoldOK(lane[v])'
          /\ lock' = v /\ ~late' => HoldKube(lane[v])'
        BY <2>1, <3>1 DEF PassOK, HoldOK, HoldKube, Stopped, Copied
    <3>3. CancelledOK(v)'
        BY <2>1, <3>1 DEF CancelledOK
    <3> QED
        BY <3>2, <3>3 DEF LaneOK
  <2>2. CASE v # w
    <3>1. Alike(lane'[v], lane[v])
        BY <2>2 DEF Moves
    <3>2. /\ lane'[v].pc # "idle" => PassOK(lane[v])'
          /\ lock = v => lane'[v].pc # "idle" /\ HoldOK(lane[v])'
        BY <3>1, OtherLane
    <3>3. lock' = v => lock = v
        BY Bounds
    <3>4. lock' = v /\ ~late' => HoldKube(lane[v])'
      <4> SUFFICES ASSUME lock' = v, ~late' PROVE HoldKube(lane[v])'
          OBVIOUS
      <4>1. UNCHANGED kube /\ ~late
          BY <2>2, <3>3
      <4>2. HoldKube(lane[v])
          BY <3>3, <4>1 DEF IInv, LanesOK, LaneOK
      <4> QED
          BY <1>1, <3>1, <4>1, <4>2 DEF HoldKube, Alike, Stopped, Copied, kube
    <3>5. CancelledOK(v)'
      <4> SUFFICES ASSUME lock' = v, lane'[v].pc = "cancelled", NEW u \in Lanes,
                          Deletes(lane'[u], lane'[v].id)
                   PROVE  lane'[v].id \in deleted'
          BY DEF CancelledOK
      <4>1. CancelledOK(v) /\ lock = v /\ v # NoOne
          BY <3>3, Bounds DEF IInv, LanesOK, LaneOK
      <4>2. u # w
          BY <1>2, <2>2, <3>3, Bounds DEF Moves, Deletes
      <4>3. Deletes(lane[u], lane[v].id) /\ lane[v].id = lane'[v].id /\ lane[v].pc = "cancelled"
          BY <3>1, <4>2 DEF Moves, Alike, Deletes
      <4> QED
          BY <4>1, <4>3 DEF CancelledOK, Recorded
    <3> QED
        BY <3>2, <3>3, <3>4, <3>5 DEF LaneOK
  <2> QED
      BY <2>1, <2>2
<1> QED
    BY <1>1, <1>3, <1>4 DEF IInv, LanesOK

\* A step of Kubernetes or of a deployment: no lane takes a step.
LEMMA OutsideIInv ==
    ASSUME IInv, TypeOK', UNCHANGED <<db, lock, late>>, QuotaOK', Recorded,
           \A v \in Lanes : Alike(lane'[v], lane[v]),
           ~late => OnTimeOK',
           ~late => \A v \in Lanes : lock = v => HoldKube(lane[v])'
    PROVE  IInv'
<1>1. revision' = revision /\ rows' = rows /\ resize' = resize /\ DbOK'
    BY SameDb DEF IInv
<1>2. KubeOK'
  <2>1. ASSUME NEW i \in Ids PROVE SourceOK(i)'
    <3>1. SourceOK(i) /\ resize[i].claim \in Claims
        BY DEF IInv, KubeOK, TypeOK, Resize
    <3> QED
        BY <1>1, <3>1 DEF SourceOK, Recorded
  <2> QED
      BY <2>1 DEF KubeOK
<1>3. ASSUME NEW v \in Lanes PROVE LaneOK(v)'
  <2>1. /\ lane'[v].pc # "idle" => PassOK(lane[v])'
        /\ lock = v => lane'[v].pc # "idle" /\ HoldOK(lane[v])'
      BY OtherLane
  <2>2. CancelledOK(v)'
    <3> SUFFICES ASSUME lock' = v, lane'[v].pc = "cancelled", NEW u \in Lanes,
                        Deletes(lane'[u], lane'[v].id)
                 PROVE  lane'[v].id \in deleted'
        BY DEF CancelledOK
    <3>1. CancelledOK(v) /\ lock = v
        BY DEF IInv, LanesOK, LaneOK
    <3>2. Deletes(lane[u], lane[v].id) /\ lane[v].id = lane'[v].id /\ lane[v].pc = "cancelled"
        BY DEF Alike, Deletes
    <3> QED
        BY <3>1, <3>2 DEF CancelledOK, Recorded
  <2> QED
      BY <2>1, <2>2 DEF LaneOK
<1> QED
    BY <1>1, <1>2, <1>3 DEF IInv, LanesOK

-----------------------------------------------------------------------------
(* Kubernetes, the services and ordinary deployments.                      *)

\* What the invariant says of a resize in the state of the database.
LEMMA DbFacts ==
    ASSUME IInv
    PROVE  /\ TypeOK /\ DbOK /\ KubeOK /\ revision \in Revisions
           /\ \A i \in Ids : resize[i] \in Resize /\ ResizeOK(i)
           /\ \A i, k \in Ids : resize[i].phase \in Blocking /\ resize[k].phase \in Blocking => i = k
           /\ \A r \in Revisions : rows[r] \in Row /\ RowOK(r)
           /\ Cur \in Claims /\ Cur \notin Retired /\ Cur \in reserved
           /\ Cur \in Ids => resize[Cur].phase \in Switched
BY DEF IInv, DbOK, TypeOK, RowOK, Row, Cur

\* A copy is of the current claim, and its target is another one.
LEMMA CopyFacts ==
    ASSUME IInv, NEW i \in Ids, resize[i].phase \in Staged
    PROVE  /\ resize[i].claim = Cur /\ Cur # i /\ i \in reserved /\ ~RowPending
           /\ rows[revision].status = "succeeded" /\ resize[i].base = revision
           /\ \A k \in Ids : k # i => resize[k].phase \notin Blocking
<1>1. resize[i].phase \in Blocking /\ resize[i].phase \notin Switched
    BY DEF Staged, Blocking, Switched
<1> QED
    BY <1>1, DbFacts DEF ResizeOK

\* While the services run no copy pod has been made, or the lane saw them stopped.
LEMMA LaneFacts ==
    ASSUME IInv, NEW w \in Lanes, lane[w].pc # "idle"
    PROVE  /\ lane[w] \in LaneState /\ lane[w].id \in Ids /\ PassOK(lane[w])
           /\ lock = w => HoldOK(lane[w])
           /\ lock = w /\ ~late => HoldKube(lane[w])
BY DEF IInv, LanesOK, LaneOK, TypeOK, PassOK

\* A pod of the services starts: on the current claim, and nobody copies.
LEMMA PodStartsIInv == ASSUME IInv, PodStarts PROVE IInv'
<1>1. TypeOK /\ revision' = revision /\ rows' = rows /\ resize' = resize /\ reserved' = reserved
      /\ Cur' = Cur
    BY SameDb DEF IInv, PodStarts
<1>2. svc.claim \in Claims /\ pvc[svc.claim] # "none"
    BY <1>1 DEF TypeOK, PodStarts
<1>3. TypeOK'
  <2>1. pvc' \in [Claims -> {"none", "pending", "bound"}] /\ pod' \in Claims
      BY <1>1, <1>2 DEF TypeOK, PodStarts
  <2> QED
      BY <1>1, <2>1 DEF TypeOK, PodStarts
<1>4. \A c \in Claims : pvc'[c] = "none" <=> pvc[c] = "none"
    BY <1>1, <1>2 DEF TypeOK, PodStarts
<1>5. ~Stopped
    BY DEF PodStarts, Stopped
<1>6. ~late => OnTimeOK'
    BY <1>1, <1>4, <1>5 DEF PodStarts, IInv, KubeOK, OnTimeOK, HelperOK, Copied
<1>7. ~late => \A v \in Lanes : lock = v => HoldKube(lane[v])'
  <2> SUFFICES ASSUME ~late, NEW v \in Lanes, lock = v PROVE HoldKube(lane[v])'
      OBVIOUS
  <2>1. HoldKube(lane[v]) /\ lane[v].id \in Ids /\ resize[lane[v].id].claim \in Claims
      BY <1>1, Bounds DEF IInv, LanesOK, LaneOK, PassOK, TypeOK, Resize
  <2> QED
      BY <1>1, <1>4, <1>5, <2>1, Bounds DEF HoldKube, PodStarts, Copied
<1> QED
    BY <1>1, <1>3, <1>4, <1>6, <1>7, OutsideIInv
       DEF PodStarts, IInv, KubeOK, QuotaOK, Recorded, Alike

\* A pod of the services stops.
LEMMA PodStopsIInv == ASSUME IInv, PodStops PROVE IInv'
<1>1. TypeOK /\ revision' = revision /\ rows' = rows /\ resize' = resize /\ reserved' = reserved
      /\ Cur' = Cur
    BY SameDb DEF IInv, PodStops
<1>2. TypeOK'
    BY <1>1 DEF TypeOK, PodStops
<1>3. Stopped => Stopped'
    BY DEF PodStops, Stopped
<1>4. ~late => OnTimeOK'
    BY <1>1, <1>3 DEF PodStops, IInv, KubeOK, OnTimeOK, HelperOK, Copied
<1>5. ~late => \A v \in Lanes : lock = v => HoldKube(lane[v])'
    BY <1>1, <1>3 DEF IInv, LanesOK, LaneOK, HoldKube, PodStops, Copied
<1> QED
    BY <1>1, <1>2, <1>4, <1>5, OutsideIInv
       DEF PodStops, IInv, KubeOK, QuotaOK, Recorded, Alike

\* The services write, on the current claim.
LEMMA WriteIInv == ASSUME IInv, Write PROVE IInv'
<1>1. TypeOK /\ revision' = revision /\ rows' = rows /\ resize' = resize /\ reserved' = reserved
      /\ Cur' = Cur
    BY SameDb DEF IInv, Write
<1>2. written + 1 \in 0..MaxWrites /\ pod \in Claims
    BY <1>1, Bounds DEF TypeOK, Write
<1>3. TypeOK'
  <2>1. content' \in [Claims -> 0..MaxWrites] /\ written' \in 0..MaxWrites
      BY <1>1, <1>2 DEF TypeOK, Write
  <2> QED
      BY <1>1, <2>1 DEF TypeOK, Write
<1>4. ~Stopped
    BY DEF Write, Stopped
<1>5. ~late => OnTimeOK'
  <2> SUFFICES ASSUME ~late PROVE OnTimeOK'
      OBVIOUS
  <2>1. OnTimeOK
      BY DEF IInv, KubeOK
  <2>2. pod = Cur
      BY <2>1 DEF OnTimeOK, Write
  <2>3. content'[Cur] = written'
      BY <1>1, <1>2, <2>2 DEF TypeOK, Write
  <2>4. \A i \in Ids : HelperOK(i)'
      BY <1>1, <1>4, <2>1 DEF OnTimeOK, HelperOK, Present, Copied, Write
  <2> QED
      BY <1>1, <2>1, <2>3, <2>4 DEF OnTimeOK, Write
<1>6. ~late => \A v \in Lanes : lock = v => HoldKube(lane[v])'
    BY <1>1, <1>4 DEF IInv, LanesOK, LaneOK, HoldKube, Write, Stopped, Copied
<1> QED
    BY <1>1, <1>3, <1>5, <1>6, OutsideIInv
       DEF Write, IInv, KubeOK, QuotaOK, Recorded, Alike

\* A claim is bound.
LEMMA BindIInv == ASSUME IInv, NEW c \in Claims, Bind(c) PROVE IInv'
<1>1. TypeOK /\ revision' = revision /\ rows' = rows /\ resize' = resize /\ reserved' = reserved
      /\ Cur' = Cur
    BY SameDb DEF IInv, Bind
<1>2. TypeOK'
  <2>1. pvc' \in [Claims -> {"none", "pending", "bound"}]
      BY <1>1 DEF TypeOK, Bind
  <2> QED
      BY <1>1, <2>1 DEF TypeOK, Bind
<1>3. \A d \in Claims : pvc'[d] = "none" <=> pvc[d] = "none"
    BY <1>1 DEF TypeOK, Bind
<1>4. ~late => OnTimeOK'
    BY <1>1, <1>3 DEF Bind, IInv, KubeOK, OnTimeOK, HelperOK, Stopped, Copied
<1>5. ~late => \A v \in Lanes : lock = v => HoldKube(lane[v])'
  <2> SUFFICES ASSUME ~late, NEW v \in Lanes, lock = v PROVE HoldKube(lane[v])'
      OBVIOUS
  <2>1. HoldKube(lane[v]) /\ lane[v].id \in Ids /\ resize[lane[v].id].claim \in Claims
      BY <1>1, Bounds DEF IInv, LanesOK, LaneOK, PassOK, TypeOK, Resize
  <2> QED
      BY <1>1, <1>3, <2>1, Bounds DEF HoldKube, Bind, Stopped, Copied
<1> QED
    BY <1>1, <1>2, <1>3, <1>4, <1>5, OutsideIInv
       DEF Bind, IInv, KubeOK, QuotaOK, Recorded, Alike

\* A copy pod ends: nobody wrote while it ran.
LEMMA CopyEndsIInv == ASSUME IInv, NEW i \in Ids, NEW ok \in BOOLEAN, CopyEnds(i, ok) PROVE IInv'
<1>1. TypeOK /\ revision' = revision /\ rows' = rows /\ resize' = resize /\ reserved' = reserved
      /\ Cur' = Cur
    BY SameDb DEF IInv, CopyEnds
<1>2. i \in Claims /\ resize[i] \in Resize /\ resize[i].claim \in Claims
    BY <1>1, Bounds DEF TypeOK, Resize
<1>3. /\ helper' = [helper EXCEPT ![i] = IF ok THEN "succeeded" ELSE "failed"]
      /\ content' = [content EXCEPT ![i] = IF ok THEN content[resize[i].claim] ELSE 0]
      /\ helper[i] = "running"
      /\ UNCHANGED <<pvc, deleted, written, svc, pod, quota, late, lane, lock>>
    BY DEF CopyEnds
<1>4. /\ \A k \in Ids \ {i} : helper'[k] = helper[k] /\ content'[k] = content[k]
      /\ helper'[i] # "running" /\ helper'[i] # "none" /\ helper'[i] = "succeeded" => ok
      /\ ok => content'[i] = content[resize[i].claim]
      /\ \A c \in Claims \ {i} : content'[c] = content[c]
    BY <1>1, <1>2, <1>3, Bounds DEF TypeOK
<1>5. TypeOK'
  <2>1. helper' \in [Ids -> {"none", "running", "succeeded", "failed", "terminating"}]
      BY <1>1, <1>3 DEF TypeOK
  <2>2. content' \in [Claims -> 0..MaxWrites]
    <3>1. content[resize[i].claim] \in 0..MaxWrites
        BY <1>1, <1>2 DEF TypeOK
    <3> QED
        BY <1>1, <1>3, <3>1, Bounds DEF TypeOK
  <2> QED
      BY <1>1, <1>3, <2>1, <2>2 DEF TypeOK, CopyEnds
<1>6. ASSUME ~late PROVE resize[i].phase \notin Switched /\ Cur # i /\ HelperOK(i)
  <2>1. HelperOK(i)
      BY <1>6 DEF IInv, KubeOK, OnTimeOK
  <2> QED
      BY <1>3, <2>1, DbFacts DEF HelperOK
<1>7. ~late => OnTimeOK'
  <2> SUFFICES ASSUME ~late PROVE OnTimeOK'
      OBVIOUS
  <2>1. OnTimeOK
      BY DEF IInv, KubeOK
  <2>2. content'[Cur] = written
      BY <1>4, <1>6, <2>1, DbFacts DEF OnTimeOK
  <2>3. HelperOK(i)'
    <3>1. CASE resize[i].phase = "copying"
      <4>1. Stopped /\ ~resize[i].verified
          BY <1>3, <1>6, <3>1 DEF HelperOK, Present, Copied
      <4>2. content[resize[i].claim] = written
          BY <2>1, <3>1, CopyFacts DEF OnTimeOK, Staged
      <4> QED
          BY <1>1, <1>3, <1>4, <3>1, <4>1, <4>2 DEF HelperOK, Switched, Stopped
    <3>2. CASE resize[i].phase # "copying"
        BY <1>1, <1>3, <1>4, <1>6, <3>2 DEF HelperOK
    <3> QED
        BY <3>1, <3>2
  <2>4. ASSUME NEW k \in Ids \ {i} PROVE HelperOK(k)'
      BY <1>1, <1>3, <1>4, <2>1, <2>4 DEF OnTimeOK, HelperOK, Stopped, Copied
  <2> QED
      BY <1>1, <1>3, <2>1, <2>2, <2>3, <2>4 DEF OnTimeOK
<1>8. ~late => \A v \in Lanes : lock = v => HoldKube(lane[v])'
  <2> SUFFICES ASSUME ~late, NEW v \in Lanes, lock = v PROVE HoldKube(lane[v])'
      OBVIOUS
  <2>1. HoldKube(lane[v]) /\ lane[v].id \in Ids
      BY Bounds DEF IInv, LanesOK, LaneOK, PassOK
  <2>2. PICK k \in Ids : k = lane[v].id
      BY <2>1
  <2>3. CASE k = i
      BY <1>1, <1>3, <2>1, <2>2, <2>3 DEF HoldKube, Stopped, Copied
  <2>4. CASE k # i
      BY <1>1, <1>3, <1>4, <2>1, <2>2, <2>4 DEF HoldKube, Stopped, Copied
  <2> QED
      BY <2>3, <2>4
<1> QED
    BY <1>3, <1>5, <1>7, <1>8, OutsideIInv
       DEF CopyEnds, IInv, KubeOK, QuotaOK, Recorded, Alike

\* A copy pod that was deleted is gone.
LEMMA HelperTerminatesIInv == ASSUME IInv, NEW i \in Ids, HelperTerminates(i) PROVE IInv'
<1>1. TypeOK /\ revision' = revision /\ rows' = rows /\ resize' = resize /\ reserved' = reserved
      /\ Cur' = Cur
    BY SameDb DEF IInv, HelperTerminates
<1>2. TypeOK'
  <2>1. helper' \in [Ids -> {"none", "running", "succeeded", "failed", "terminating"}]
      BY <1>1 DEF TypeOK, HelperTerminates
  <2> QED
      BY <1>1, <2>1 DEF TypeOK, HelperTerminates
<1>3. \A k \in Ids : helper'[k] = helper[k] \/ helper'[k] = "none"
    BY <1>1 DEF TypeOK, HelperTerminates
<1>4. ~late => OnTimeOK'
    BY <1>1, <1>3 DEF HelperTerminates, IInv, KubeOK, OnTimeOK, HelperOK, Stopped, Copied, Present
<1>5. ~late => \A v \in Lanes : lock = v => HoldKube(lane[v])'
  <2> SUFFICES ASSUME ~late, NEW v \in Lanes, lock = v PROVE HoldKube(lane[v])'
      OBVIOUS
  <2>1. HoldKube(lane[v]) /\ lane[v].id \in Ids
      BY Bounds DEF IInv, LanesOK, LaneOK, PassOK
  <2> QED
      BY <1>1, <1>3, <2>1 DEF HoldKube, HelperTerminates, Stopped, Copied
<1> QED
    BY <1>2, <1>4, <1>5, OutsideIInv
       DEF HelperTerminates, IInv, KubeOK, QuotaOK, Recorded, Alike

\* Lanes whose object was overwritten keep what they know.
LEMMA OverwrittenAlike ==
    ASSUME IInv, NEW pcs, lane' = Overwritten(pcs)
    PROVE  lane' \in [Lanes -> LaneState] /\ \A v \in Lanes : Alike(lane'[v], lane[v])
<1>1. ASSUME NEW v \in Lanes PROVE lane'[v] \in LaneState /\ Alike(lane'[v], lane[v])
  <2>1. PICK l \in LaneState : l = lane[v]
      BY DEF IInv, TypeOK
  <2>2. [l EXCEPT !.fresh = FALSE] \in LaneState /\ Alike([l EXCEPT !.fresh = FALSE], l)
      BY DEF LaneState, Alike
  <2>3. lane'[v] = l \/ lane'[v] = [l EXCEPT !.fresh = FALSE]
      BY <2>1 DEF Overwritten
  <2> QED
      BY <2>1, <2>2, <2>3 DEF Alike
<1> QED
    BY <1>1 DEF Overwritten

\* The workload is applied on the current claim when nobody copies.
LEMMA ApplyOnTime ==
    ASSUME IInv, UNCHANGED <<db, late>>, Apply(Cur), \A i \in Ids : resize[i].phase \notin Staged
    PROVE  (~late => OnTimeOK') /\ Recorded /\ QuotaOK'
<1>1. TypeOK /\ revision' = revision /\ rows' = rows /\ resize' = resize /\ reserved' = reserved
      /\ Cur' = Cur /\ Cur \in reserved /\ Cur \in Claims
    BY SameDb, DbFacts
<1>2. svc' = [replicas |-> 1, claim |-> Cur] /\ UNCHANGED <<deleted, content, written, pod, helper, quota>>
    BY DEF Apply
<1>3. \A c \in Claims : pvc'[c] # pvc[c] => c = Cur /\ pvc'[c] = "pending"
    BY <1>1 DEF TypeOK, Apply
<1>4. ASSUME ~late PROVE OnTimeOK'
  <2>1. OnTimeOK
      BY <1>4 DEF IInv, KubeOK
  <2>2. \A i \in Ids : HelperOK(i)'
      BY <1>1, <1>2, <2>1 DEF OnTimeOK, HelperOK, Staged
  <2> QED
      BY <1>1, <1>2, <1>3, <2>1, <2>2 DEF OnTimeOK
<1> QED
    BY <1>2, <1>3, <1>4 DEF Recorded, QuotaOK, IInv, KubeOK

\* The type of the Kubernetes objects after the workload is applied.
LEMMA ApplyTypes ==
    ASSUME TypeOK, NEW c \in Claims, Apply(c)
    PROVE  /\ pvc' \in [Claims -> {"none", "pending", "bound"}]
           /\ svc' \in [replicas : {0, 1}, claim : Claims]
           /\ UNCHANGED <<deleted, content, written, pod, helper, quota>>
BY DEF TypeOK, Apply

\* The deployment worker applies a row: it names the current claim, and no copy is
\* under way.
LEMMA DeployApplyIInv == ASSUME IInv, NEW r \in Revisions, DeployApply(r) PROVE IInv'
<1>1. /\ UNCHANGED <<db, lock, late, faults>> /\ lock = Deployer
      /\ Apply(rows[r].claim) /\ lane' = Overwritten({"stop", "undoResume", "resume"})
      /\ rows[r].status \in Pending
    BY DEF DeployApply, Pending
<1>2. rows[r].claim = Cur /\ TypeOK /\ Cur \in Claims
    BY <1>1, DbFacts DEF RowOK
<1>3. \A i \in Ids : resize[i].phase \notin Staged
    BY <1>1, CopyFacts DEF RowPending
<1>4. lane' \in [Lanes -> LaneState] /\ \A v \in Lanes : Alike(lane'[v], lane[v])
    BY <1>1, OverwrittenAlike
<1>5. (~late => OnTimeOK') /\ Recorded /\ QuotaOK'
    BY <1>1, <1>2, <1>3, ApplyOnTime
<1>6. TypeOK'
  <2>1. /\ pvc' \in [Claims -> {"none", "pending", "bound"}]
        /\ svc' \in [replicas : {0, 1}, claim : Claims]
        /\ UNCHANGED <<deleted, content, written, pod, helper, quota>>
      BY <1>1, <1>2, ApplyTypes
  <2> QED
      BY <1>1, <1>2, <1>4, <2>1 DEF TypeOK, db
<1> QED
    BY <1>1, <1>4, <1>5, <1>6, Bounds, OutsideIInv

-----------------------------------------------------------------------------
(* Steps that change the database.                                         *)

\* Row r names the same claim and resize; it is pending again only when nobody
\* maintains a volume.
RowKept(r) ==
    \/ rows'[r] = rows[r]
    \/ /\ rows'[r].claim = rows[r].claim /\ rows'[r].resize = rows[r].resize
       /\ rows[r].status # "absent" /\ rows'[r].status # "absent"
       /\ rows'[r].status \in Pending =>
            rows[r].status \in Pending \/ (rows[r].claim = Cur /\ ~Maintenance')
       /\ \A i \in Ids : resize'[i].phase \notin Staged

\* Resize i neither starts nor switches.
PhaseKept(i) ==
    /\ resize'[i].claim = resize[i].claim /\ resize'[i].base = resize[i].base
    /\ resize'[i].phase \in Switched <=> resize[i].phase \in Switched
    /\ resize'[i].phase \in {"absent", "queued"} => ~resize'[i].verified
    /\ resize'[i].verified => resize'[i].uid
    /\ resize'[i].phase \in Staged => resize[i].phase \in Staged /\ i \in reserved'
    /\ resize'[i].phase = "switching" => resize[i].phase = "switching"
    /\ resize'[i].phase \in Blocking =>
         resize[i].phase \in Blocking \/ \A k \in Ids \ {i} : resize'[k].phase \notin Blocking

\* Such steps keep what is true of the database.
LEMMA DbKept ==
    ASSUME IInv, revision' = revision, \A r \in Revisions : RowKept(r),
           \A i \in Ids : PhaseKept(i), Cur \in reserved'
    PROVE  DbOK' /\ Cur' = Cur /\ Retired' = Retired
<1>1. revision \in Revisions /\ Cur \in Claims /\ Cur \notin Retired
    BY DbFacts
<1>2. Cur' = Cur
    BY <1>1 DEF RowKept, Cur
<1>3. Retired' = Retired
    BY DEF PhaseKept, Retired
<1>4. ASSUME NEW r \in Revisions PROVE RowOK(r)'
  <2>1. RowOK(r) /\ RowKept(r) /\ rows[r] \in Row
      BY DbFacts
  <2>2. rows'[r].claim = rows[r].claim /\ rows'[r].resize = rows[r].resize
      BY <2>1 DEF RowKept
  <2>3. /\ r > revision => rows'[r] = NoRow
        /\ r <= revision => rows'[r].status # "absent"
        /\ rows'[r].status # "absent" => rows[r].status # "absent"
        /\ rows'[r].status \in Pending => rows[r].claim = Cur
      BY <2>1 DEF RowKept, RowOK, NoRow
  <2>4. /\ rows'[r].claim \in Ids => resize'[rows'[r].claim].phase \in Switched
        /\ rows'[r].resize # 0 => resize'[rows'[r].resize].phase \in Switched
    <3>1. rows[r].resize \in Claims
        BY <2>1 DEF Row
    <3> QED
        BY <2>1, <2>2, <3>1, Bounds DEF RowOK, PhaseKept
  <2> QED
      BY <1>2, <1>3, <2>1, <2>2, <2>3, <2>4 DEF RowOK
<1>5. ASSUME NEW i \in Ids PROVE ResizeOK(i)'
  <2>1. ResizeOK(i) /\ PhaseKept(i) /\ resize[i].claim \in Claims
      BY DbFacts DEF Resize
  <2>2. /\ resize'[i].claim # i
        /\ resize'[i].claim \in Ids => resize'[resize'[i].claim].phase \in Switched
        /\ resize'[i].phase \in {"absent", "queued"} => ~resize'[i].verified
        /\ resize'[i].verified => resize'[i].uid
      BY <2>1 DEF ResizeOK, PhaseKept
  <2>3. ASSUME resize'[i].phase \in Staged
        PROVE  /\ resize'[i].claim = Cur' /\ resize'[i].base = revision'
               /\ rows'[revision'].status = "succeeded" /\ ~RowPending'
               /\ i \in reserved'
    <3>1. resize[i].phase \in Staged /\ ResizeOK(i) /\ i \in reserved'
        BY <2>1, <2>3 DEF PhaseKept
    <3>2. \A r \in Revisions : rows'[r] = rows[r]
        BY <2>3 DEF RowKept
    <3> QED
        BY <1>1, <1>2, <2>1, <3>1, <3>2 DEF ResizeOK, PhaseKept, RowPending
  <2>4. ASSUME resize'[i].phase = "switching"
        PROVE  /\ Cur' = i /\ rows'[revision'].resize = i
               /\ \A r \in Revisions : rows'[r].status \in Pending => rows'[r].resize = i
    <3>1. resize[i].phase = "switching" /\ ResizeOK(i) /\ Maintenance'
        BY <2>1, <2>4 DEF PhaseKept, Maintenance, Blocking
    <3>2. ASSUME NEW r \in Revisions, rows'[r].status \in Pending PROVE rows'[r].resize = i
      <4>1. RowKept(r) /\ rows[r].status \in Pending
          BY <3>1, <3>2 DEF RowKept
      <4> QED
          BY <3>1, <4>1 DEF ResizeOK, RowKept
    <3> QED
        BY <1>1, <1>2, <3>1, <3>2 DEF ResizeOK, RowKept
  <2> QED
      BY <2>2, <2>3, <2>4 DEF ResizeOK
<1>6. ASSUME NEW i \in Ids, NEW k \in Ids, resize'[i].phase \in Blocking, resize'[k].phase \in Blocking
      PROVE  i = k
    BY <1>6, DbFacts DEF PhaseKept
<1> QED
    BY <1>1, <1>2, <1>3, <1>4, <1>5, <1>6 DEF DbOK

\* A step of the database after which no lane has the lock; lanes may have returned.
LEMMA FreeIInv ==
    ASSUME IInv, TypeOK', DbOK', UNCHANGED <<kube, late>>, lock' \notin Lanes,
           \A v \in Lanes : lane'[v] = lane[v] \/ lane'[v].pc = "idle",
           ~late => OnTimeOK',
           \A i \in Ids : \/ /\ resize'[i].claim = resize[i].claim
                             /\ resize[i].phase = "absent" => resize'[i].phase = "absent"
                          \/ resize[i].phase = "absent" /\ pvc[resize'[i].claim] # "none",
           \A i \in Ids : resize[i].phase \notin {"absent", "queued"} =>
              resize'[i].phase \notin {"absent", "queued"},
           \A i \in Ids : resize[i].phase = "cancelling" =>
              \/ resize'[i].phase = "cancelling" \/ i \in deleted
              \/ \A v \in Lanes : ~Deletes(lane[v], i),
           \A i \in Ids : resize[i].phase = "deleting_original" =>
              /\ resize'[i].phase = "deleting_original" \/ resize[i].claim \in deleted
              /\ rows[revision].status = "succeeded" => rows'[revision'].status = "succeeded"
    PROVE  IInv'
<1>1. KubeOK'
  <2>1. ASSUME NEW i \in Ids PROVE SourceOK(i)'
    <3>1. SourceOK(i)
        BY DEF IInv, KubeOK
    <3> QED
        BY <3>1 DEF SourceOK, kube
  <2> QED
      BY <2>1 DEF KubeOK, IInv, QuotaOK, kube
<1>2. ASSUME NEW v \in Lanes PROVE LaneOK(v)'
  <2>1. ASSUME lane'[v].pc # "idle" PROVE PassOK(lane[v])'
    <3>1. lane'[v] = lane[v]
        BY <2>1
    <3>2. PICK l : l = lane[v]
        OBVIOUS
    <3>3. PassOK(l) /\ l.id \in Ids
        BY <2>1, <3>1, <3>2 DEF IInv, LanesOK, LaneOK, PassOK
    <3>4. l.pc = "deleteTarget" /\ l.armed /\ l.id \notin deleted => ~(\A u \in Lanes : ~Deletes(lane[u], l.id))
        BY <3>2 DEF Deletes
    <3>5. PassOK(l)'
      <4>1. deleted' = deleted /\ pvc' = pvc
          BY DEF kube
      <4>2. resize'[l.id].phase \notin {"absent", "queued"} /\ resize'[l.id].claim = resize[l.id].claim
          BY <3>3 DEF PassOK
      <4>3. l.pc = "deleteTarget" /\ l.armed /\ l.id \notin deleted => resize'[l.id].phase = "cancelling"
          BY <3>3, <3>4 DEF PassOK
      <4>4. l.pc = "deleteOriginal" /\ l.armed /\ resize[l.id].claim \notin deleted =>
               resize'[l.id].phase = "deleting_original" /\ rows'[revision'].status = "succeeded"
          BY <3>3 DEF PassOK
      <4> QED
          BY <3>3, <4>1, <4>2, <4>3, <4>4 DEF PassOK
    <3> QED
        BY <3>1, <3>2, <3>5 DEF PassOK
  <2> QED
      BY <2>1 DEF LaneOK, CancelledOK
<1> QED
    BY <1>1, <1>2 DEF IInv, LanesOK

\* A user moves resize i on, while nobody holds the lock.
LEMMA ResizeActionIInv ==
    ASSUME IInv, NEW i \in Ids, NEW phase \in Phases, NEW retry \in BOOLEAN,
           ResizeAction(i, phase, retry),
           \/ phase = resize[i].phase
           \/ phase = "cancelling" /\ resize[i].phase \in {"queued", "copying"}
           \/ phase = "original_retained" /\ resize[i].phase = "switching"
           \/ /\ phase = "deleting_original" /\ resize[i].phase = "original_retained"
              /\ \A k \in Ids \ {i} : resize[k].phase \notin Blocking
    PROVE  IInv'
<1>1. TypeOK /\ resize[i] \in Resize
    BY DbFacts
<1>2. PICK z \in Resize : /\ resize' = [resize EXCEPT ![i] = z]
                          /\ z.phase = phase /\ z.claim = resize[i].claim /\ z.base = resize[i].base
                          /\ z.verified = resize[i].verified /\ z.uid = resize[i].uid
  <2>1. PICK y \in Resize : y = resize[i]
      BY <1>1
  <2>2. [y EXCEPT !.phase = phase, !.error = FALSE, !.key = TRUE, !.retry = retry] \in Resize
      BY DEF Resize
  <2>3. resize' = [resize EXCEPT ![i] = [y EXCEPT !.phase = phase, !.error = FALSE,
                                                  !.key = TRUE, !.retry = retry]]
      BY <2>1 DEF ResizeAction
  <2> QED
      BY <2>1, <2>2, <2>3 DEF Resize
<1>3. resize'[i] = z /\ \A k \in Ids \ {i} : resize'[k] = resize[k]
    BY <1>1, <1>2 DEF TypeOK
<1>4. lock' = NoOne /\ UNCHANGED <<revision, rows, reserved, lane, kube, late, faults>>
    BY DEF ResizeAction
<1>5. TypeOK'
    BY <1>1, <1>2, <1>4, Bounds DEF TypeOK, kube
<1>6. ASSUME NEW k \in Ids PROVE PhaseKept(k)
  <2>1. ResizeOK(k) /\ ResizeOK(i)
      BY DbFacts
  <2>2. resize[k].phase \in Staged => k \in reserved
      BY CopyFacts
  <2>3. CASE k = i
      BY <1>2, <1>3, <1>4, <2>1, <2>2, <2>3 DEF PhaseKept, ResizeOK, Staged, Switched, Blocking
  <2>4. CASE k # i
      BY <1>2, <1>3, <1>4, <2>1, <2>2, <2>4 DEF PhaseKept, ResizeOK
  <2> QED
      BY <2>3, <2>4
<1>7. DbOK' /\ Cur' = Cur
    BY <1>4, <1>6, DbKept, DbFacts DEF RowKept
<1>8. ASSUME ~late PROVE OnTimeOK'
  <2>1. OnTimeOK
      BY <1>8 DEF IInv, KubeOK
  <2>2. ASSUME NEW k \in Ids PROVE HelperOK(k)'
    <3>1. HelperOK(k)
        BY <2>1 DEF OnTimeOK
    <3>2. CASE k = i
      <4>1. \/ phase = resize[i].phase \/ phase = "cancelling"
            \/ phase \in Switched /\ resize[i].phase \in Switched
          BY DEF Switched
      <4> QED
          BY <1>2, <1>3, <1>4, <3>1, <3>2, <4>1 DEF HelperOK, Stopped, Copied, kube, Switched
    <3>3. CASE k # i
        BY <1>3, <1>4, <3>1, <3>3 DEF HelperOK, Stopped, Copied, kube
    <3> QED
        BY <3>2, <3>3
  <2>3. quota'.owner # 0 => resize'[quota'.owner].phase \in {"copying", "cancelling"}
    <3>1. quota.owner \in Claims /\ quota' = quota
        BY <1>1, <1>4 DEF TypeOK, kube
    <3> QED
        BY <1>2, <1>3, <2>1, <3>1, Bounds DEF OnTimeOK
  <2> QED
      BY <1>4, <1>7, <2>1, <2>2, <2>3 DEF OnTimeOK, kube
<1>9. \A k \in Ids : /\ resize'[k].claim = resize[k].claim
                     /\ resize[k].phase = "absent" => resize'[k].phase = "absent"
                     /\ resize[k].phase \notin {"absent", "queued"} =>
                           resize'[k].phase \notin {"absent", "queued"}
                     /\ resize[k].phase \in {"cancelling", "deleting_original"} =>
                           resize'[k].phase = resize[k].phase
    BY <1>2, <1>3
<1> QED
    BY <1>4, <1>5, <1>7, <1>8, <1>9, Bounds, FreeIInv

\* Retry, Cancel, Retain and DeleteOriginal.
LEMMA UserResizeIInv ==
    ASSUME IInv, NEW i \in Ids, Retry(i) \/ Cancel(i) \/ Retain(i) \/ DeleteOriginal(i)
    PROVE  IInv'
<1>1. resize[i].phase \in Phases /\ resize[i].retry \in BOOLEAN
    BY DbFacts DEF Resize
<1>2. {"cancelling", "original_retained", "deleting_original"} \subseteq Phases
    BY DEF Phases, Blocking
<1>3. CASE Retry(i)
    BY <1>1, <1>3, ResizeActionIInv DEF Retry
<1>4. CASE Cancel(i)
    BY <1>1, <1>2, <1>4, ResizeActionIInv DEF Cancel
<1>5. CASE Retain(i)
    BY <1>1, <1>2, <1>5, ResizeActionIInv DEF Retain
<1>6. CASE DeleteOriginal(i)
    BY <1>1, <1>2, <1>6, ResizeActionIInv DEF DeleteOriginal
<1> QED
    BY <1>3, <1>4, <1>5, <1>6

\* A key is revoked, whoever holds the lock.
LEMMA RevokeIInv == ASSUME IInv, NEW i \in Ids, Revoke(i) PROVE IInv'
<1>1. TypeOK /\ resize[i] \in Resize
    BY DbFacts
<1>2. UNCHANGED <<revision, rows, reserved, lock, lane, kube, late>> /\ faults' = faults + 1
      /\ faults < MaxFaults
    BY DEF Revoke
<1>3. PICK z \in Resize : /\ resize' = [resize EXCEPT ![i] = z]
                          /\ z.phase = resize[i].phase /\ z.claim = resize[i].claim
                          /\ z.base = resize[i].base
                          /\ z.verified = resize[i].verified /\ z.uid = resize[i].uid
  <2>1. PICK y \in Resize : y = resize[i]
      BY <1>1
  <2>2. [y EXCEPT !.key = FALSE] \in Resize
      BY DEF Resize
  <2>3. resize' = [resize EXCEPT ![i] = [y EXCEPT !.key = FALSE]]
      BY <2>1 DEF Revoke
  <2> QED
      BY <2>1, <2>2, <2>3 DEF Resize
<1>4. \A k \in Ids : /\ resize'[k].phase = resize[k].phase /\ resize'[k].claim = resize[k].claim
                     /\ resize'[k].base = resize[k].base /\ resize'[k].verified = resize[k].verified
                     /\ resize'[k].uid = resize[k].uid
    BY <1>1, <1>3 DEF TypeOK
<1>5. TypeOK'
  <2>1. faults' \in 0..MaxFaults
      BY <1>1, <1>2, Bounds DEF TypeOK
  <2> QED
      BY <1>1, <1>2, <1>3, <2>1 DEF TypeOK, kube
<1>6. DbOK' /\ Cur' = Cur
  <2>1. \A k \in Ids : PhaseKept(k)
      BY <1>2, <1>4, DbFacts DEF PhaseKept, ResizeOK
  <2> QED
      BY <1>2, <2>1, DbKept, DbFacts DEF RowKept
<1>7. KubeOK'
  <2>1. quota.owner \in Claims /\ quota' = quota
      BY <1>1, <1>2 DEF TypeOK, kube
  <2>2. ~late => OnTimeOK'
      BY <1>2, <1>4, <1>6, <2>1, Bounds DEF IInv, KubeOK, OnTimeOK, HelperOK, Stopped, Copied, kube
  <2> QED
      BY <1>2, <1>4, <2>1, <2>2 DEF IInv, KubeOK, QuotaOK, SourceOK, kube
<1>8. ASSUME NEW v \in Lanes PROVE LaneOK(v)'
  <2>1. LaneOK(v) /\ lane' = lane /\ lock' = lock /\ late' = late
      BY <1>2 DEF IInv, LanesOK
  <2>2. ASSUME lane[v].pc # "idle"
        PROVE  /\ PassOK(lane[v])' /\ (lock = v => HoldOK(lane[v])')
               /\ lock = v /\ ~late => HoldKube(lane[v])'
    <3>1. lane[v].id \in Ids
        BY <2>1, <2>2 DEF LaneOK, PassOK
    <3> QED
        BY <1>2, <1>4, <2>1, <2>2, <3>1 DEF LaneOK, PassOK, HoldOK, HoldKube, Stopped, Copied, kube
  <2> QED
      BY <1>2, <2>1, <2>2 DEF LaneOK, CancelledOK, kube
<1> QED
    BY <1>5, <1>6, <1>7, <1>8 DEF IInv, LanesOK

\* While a lane has the lock, its resize blocks the application.
LEMMA HolderBlocks ==
    ASSUME IInv, ~Maintenance
    PROVE  lock \in {NoOne, Deployer} /\ lock \notin Lanes /\ \A i \in Ids : resize[i].phase \notin Blocking
<1>1. \A i \in Ids : resize[i].phase \notin Blocking
    BY DEF Maintenance
<1>2. ASSUME lock \in Lanes PROVE FALSE
    BY <1>1, <1>2 DEF IInv, LanesOK, LaneOK, PassOK, HoldOK
<1> QED
    BY <1>1, <1>2 DEF IInv, TypeOK

\* The status of a row that has not succeeded changes while no copy is under way.
LEMMA RowStep ==
    ASSUME IInv, NEW r \in Revisions, NEW z \in Row, rows' = [rows EXCEPT ![r] = z],
           z.claim = rows[r].claim, z.resize = rows[r].resize,
           rows[r].status \notin {"absent", "succeeded"}, z.status # "absent",
           z.status \in Pending => rows[r].status \in Pending \/ (rows[r].claim = Cur /\ ~Maintenance),
           \A i \in Ids : resize[i].phase \notin Staged,
           lock' \in {NoOne, Deployer},
           UNCHANGED <<revision, resize, reserved, lane, kube, late, faults>>
    PROVE  IInv'
<1>1. TypeOK
    BY DbFacts
<1>2. rows'[r] = z /\ \A q \in Revisions \ {r} : rows'[q] = rows[q]
    BY <1>1 DEF TypeOK
<1>3. TypeOK'
    BY <1>1 DEF TypeOK, kube
<1>4. DbOK' /\ Cur' = Cur
  <2>1. \A i \in Ids : PhaseKept(i)
      BY DbFacts, CopyFacts DEF PhaseKept, ResizeOK
  <2>2. \A q \in Revisions : RowKept(q)
      BY <1>2 DEF RowKept, Maintenance
  <2> QED
      BY <2>1, <2>2, DbKept, DbFacts
<1>5. ~late => OnTimeOK'
    BY <1>4 DEF IInv, KubeOK, OnTimeOK, HelperOK, Stopped, Copied, kube
<1>6. rows[revision].status = "succeeded" => rows'[revision'].status = "succeeded"
    BY <1>2, DbFacts
<1>7. lock' \notin Lanes
    BY Bounds
<1> QED
    BY <1>3, <1>4, <1>5, <1>6, <1>7, FreeIInv


\* The latest revision is resumed: no maintenance runs.
LEMMA ResumeDeploymentIInv == ASSUME IInv, ResumeDeployment PROVE IInv'
<1>1. TypeOK /\ revision \in Revisions /\ rows[revision] \in Row
    BY DbFacts
<1>2. PICK y \in Row : y = rows[revision]
    BY <1>1
<1>3. PICK z \in Row : /\ z = [y EXCEPT !.status = "queued"]
                       /\ z.claim = y.claim /\ z.resize = y.resize /\ z.status = "queued"
  <2>1. [y EXCEPT !.status = "queued"] \in Row
      BY DEF Row, Pending
  <2> QED
      BY <2>1 DEF Row
<1>4. rows' = [rows EXCEPT ![revision] = z]
    BY <1>2, <1>3 DEF ResumeDeployment
<1>5. lock' \in {NoOne, Deployer} /\ \A i \in Ids : resize[i].phase \notin Blocking
    BY HolderBlocks DEF ResumeDeployment
<1>6. \A i \in Ids : resize[i].phase \notin Staged
    BY <1>5 DEF Staged, Blocking
<1> QED
    BY <1>1, <1>2, <1>3, <1>4, <1>5, <1>6, RowStep DEF ResumeDeployment, Cur, Pending

\* The deployment worker claims a row.
LEMMA DeployClaimIInv == ASSUME IInv, NEW r \in Revisions, DeployClaim(r) PROVE IInv'
<1>1. TypeOK /\ rows[r] \in Row
    BY DbFacts
<1>2. PICK y \in Row : y = rows[r]
    BY <1>1
<1>3. PICK z \in Row : /\ z = [y EXCEPT !.status = "running"]
                       /\ z.claim = y.claim /\ z.resize = y.resize /\ z.status = "running"
  <2>1. [y EXCEPT !.status = "running"] \in Row
      BY DEF Row, Pending
  <2> QED
      BY <2>1 DEF Row
<1>4. rows' = [rows EXCEPT ![r] = z]
    BY <1>2, <1>3 DEF DeployClaim
<1>5. \A i \in Ids : resize[i].phase \notin Staged
    BY CopyFacts DEF DeployClaim, RowPending
<1> QED
    BY <1>2, <1>3, <1>4, <1>5, RowStep DEF DeployClaim, Pending

\* The deployment worker records the outcome of a row.
LEMMA DeployEndIInv ==
    ASSUME IInv, NEW r \in Revisions, NEW o \in {"succeeded", "failed"}, NEW attempt \in BOOLEAN,
           DeployEnd(r, o, attempt)
    PROVE  IInv'
<1>1. TypeOK /\ rows[r] \in Row
    BY DbFacts
<1>2. PICK y \in Row : y = rows[r]
    BY <1>1
<1>3. PICK z \in Row : /\ z = [y EXCEPT !.status = o, !.attempt = attempt]
                       /\ z.claim = y.claim /\ z.resize = y.resize /\ z.status = o
  <2>1. [y EXCEPT !.status = o, !.attempt = attempt] \in Row
      BY DEF Row, Pending
  <2> QED
      BY <2>1 DEF Row
<1>4. rows' = [rows EXCEPT ![r] = z]
    BY <1>1, <1>2, <1>3 DEF DeployEnd, TypeOK
<1>5. \A i \in Ids : resize[i].phase \notin Staged
    BY CopyFacts DEF DeployEnd, RowPending, Pending
<1>6. lock' = NoOne /\ rows[r].status = "running"
      /\ UNCHANGED <<revision, resize, reserved, lane, kube, late, faults>>
    BY DEF DeployEnd
<1>7. z.status \notin Pending /\ z.status # "absent"
    BY <1>3 DEF Pending
<1> QED
    BY <1>2, <1>3, <1>4, <1>5, <1>6, <1>7, RowStep

\* A new release names the current claim, whatever revision it is taken from.
LEMMA AcceptIInv == ASSUME IInv, NEW c \in Claims, Accept(c) PROVE IInv'
<1>1. TypeOK /\ revision \in Revisions
    BY DbFacts
<1>2. /\ revision + 1 \in Revisions /\ revision' = revision + 1 /\ revision \in Nat
      /\ UNCHANGED <<resize, lock, lane, kube, late, faults>> /\ reserved' = reserved \cup {c}
    BY <1>1, Bounds DEF Accept, Revisions
<1>3. PICK z \in Row : /\ rows' = [rows EXCEPT ![revision + 1] = z]
                       /\ z.status = "queued" /\ z.claim = c /\ z.resize = 0
  <2>1. [NoRow EXCEPT !.status = "queued", !.claim = c] \in Row
      BY Bounds DEF NoRow, Row, Pending
  <2> QED
      BY <2>1 DEF Accept, NoRow
<1>4. lock \notin Lanes /\ \A i \in Ids : resize[i].phase \notin Blocking
    BY HolderBlocks DEF Accept, AcceptAllowed
<1>5. rows'[revision + 1] = z /\ \A q \in Revisions \ {revision + 1} : rows'[q] = rows[q]
    BY <1>1, <1>2, <1>3 DEF TypeOK
<1>6. c = Cur
  <2>1. PICK r \in Revisions : rows[r].status # "absent" /\ rows[r].claim = c
      BY DEF Accept
  <2>2. c = Cur \/ c \in Retired
      BY <2>1, DbFacts DEF RowOK
  <2>3. ASSUME c \in Retired PROVE FALSE
    <3>1. PICK i \in Ids : resize[i].phase \in Switched /\ resize[i].claim = c
        BY <2>3 DEF Retired
    <3>2. resize[i].phase \notin {"original_retained", "completed"}
        BY <3>1 DEF Accept, AcceptAllowed, NotRetired
    <3> QED
        BY <1>4, <3>1, <3>2 DEF Switched, Blocking
  <2> QED
      BY <2>2, <2>3
<1>7. Cur' = Cur /\ Retired' = Retired /\ resize' = resize
    BY <1>2, <1>3, <1>5, <1>6 DEF Cur, Retired
<1>8. TypeOK'
  <2>1. rows' \in [Revisions -> Row]
      BY <1>1, <1>3 DEF TypeOK
  <2> QED
      BY <1>1, <1>2, <2>1 DEF TypeOK, kube
<1>9. DbOK'
  <2>1. ASSUME NEW r \in Revisions PROVE RowOK(r)'
    <3>1. RowOK(r) /\ RowOK(revision) /\ r \in Nat /\ (r <= revision + 1 => r <= revision \/ r = revision + 1)
        BY <1>1, Bounds, DbFacts DEF Revisions
    <3>2. CASE r = revision + 1
        BY <1>2, <1>3, <1>5, <1>6, <1>7, <3>2, DbFacts DEF RowOK, Pending
    <3>3. CASE r # revision + 1
        BY <1>2, <1>5, <1>7, <3>1, <3>3 DEF RowOK
    <3> QED
        BY <3>2, <3>3
  <2>2. \A i \in Ids : ResizeOK(i)'
      BY <1>4, <1>7, DbFacts DEF ResizeOK, Staged, Blocking
  <2> QED
      BY <1>2, <1>4, <1>6, <1>7, <2>1, <2>2, DbFacts DEF DbOK
<1>10. ~late => OnTimeOK'
    BY <1>2, <1>7 DEF IInv, KubeOK, OnTimeOK, HelperOK, Stopped, Copied, kube
<1>11. \A i \in Ids : resize[i].phase \notin {"cancelling", "deleting_original"}
    BY <1>4 DEF Blocking
<1> QED
    BY <1>2, <1>4, <1>7, <1>8, <1>9, <1>10, <1>11, FreeIInv

\* A resize is accepted: on the current claim, and alone.
LEMMA StartVolumeResizeIInv == ASSUME IInv, NEW i \in Ids, StartVolumeResize(i) PROVE IInv'
<1>1. TypeOK /\ revision \in Revisions /\ Cur \in Claims /\ i \in Claims
    BY DbFacts, Bounds
<1>2. /\ UNCHANGED <<revision, rows, lock, lane, kube, late, faults>> /\ reserved' = reserved \cup {Cur, i}
      /\ lock = NoOne /\ resize[i].phase = "absent" /\ ~Maintenance /\ ~RowPending
      /\ rows[revision].status = "succeeded" /\ pvc[Cur] = "bound"
    BY DEF StartVolumeResize, StartAllowed, Cur
<1>3. PICK z \in Resize : /\ resize' = [resize EXCEPT ![i] = z]
                          /\ z.phase = "queued" /\ z.claim = Cur /\ z.base = revision
                          /\ ~z.verified /\ ~z.uid
  <2>1. revision \in 0..MaxRevision
      BY <1>1, Bounds
  <2>2. [NoResize EXCEPT !.phase = "queued", !.claim = Cur, !.base = revision] \in Resize
      BY <1>1, <2>1, BlankTypes DEF Resize, Phases, Blocking
  <2> QED
      BY <2>2 DEF StartVolumeResize, NoResize, Cur
<1>4. resize'[i] = z /\ \A k \in Ids \ {i} : resize'[k] = resize[k]
    BY <1>1, <1>3 DEF TypeOK
<1>5. \A k \in Ids : resize[k].phase \notin Blocking
    BY <1>2 DEF Maintenance
<1>6. i # Cur
    BY <1>2, DbFacts DEF Switched
<1>7. Cur' = Cur /\ Retired' = Retired
  <2>1. \A k \in Ids : (resize'[k].phase \in Switched <=> resize[k].phase \in Switched)
                       /\ (resize[k].phase \in Switched => resize'[k].claim = resize[k].claim)
      BY <1>2, <1>3, <1>4 DEF Switched
  <2> QED
      BY <1>2, <2>1 DEF Cur, Retired
<1>8. TypeOK'
    BY <1>1, <1>2, <1>3 DEF TypeOK, kube
<1>9. DbOK'
  <2>1. ASSUME NEW r \in Revisions PROVE RowOK(r)'
    <3>1. RowOK(r) /\ rows[r].resize \in Claims
        BY DbFacts DEF Row
    <3> QED
        BY <1>2, <1>4, <1>7, <3>1, Bounds DEF RowOK, Switched
  <2>2. ResizeOK(i)'
    <3>1. Cur \in Ids => resize'[Cur].phase \in Switched
        BY <1>4, <1>6, DbFacts
    <3> QED
        BY <1>2, <1>3, <1>4, <1>6, <1>7, <3>1 DEF ResizeOK, Staged, RowPending
  <2>3. ASSUME NEW k \in Ids \ {i} PROVE ResizeOK(k)'
    <3>1. ResizeOK(k) /\ resize[k].phase \notin Blocking
        BY <1>5, DbFacts
    <3> QED
        BY <1>2, <1>4, <2>3, <3>1 DEF ResizeOK, Staged, Blocking, Switched
  <2> QED
      BY <1>2, <1>4, <1>5, <1>7, <2>1, <2>2, <2>3, DbFacts DEF DbOK
<1>10. ASSUME ~late PROVE OnTimeOK'
  <2>1. OnTimeOK /\ quota.owner \in Claims
      BY <1>1, <1>10 DEF IInv, KubeOK, TypeOK
  <2>2. quota.owner = 0
      BY <1>5, <2>1, Bounds DEF OnTimeOK, Blocking
  <2>3. ASSUME NEW k \in Ids PROVE HelperOK(k)'
      BY <1>2, <1>3, <1>4, <2>1 DEF OnTimeOK, HelperOK, Stopped, Copied, kube, Switched
  <2> QED
      BY <1>2, <1>7, <2>1, <2>2, <2>3 DEF OnTimeOK, kube
<1>11. \A k \in Ids : resize[k].phase \notin {"cancelling", "deleting_original"}
    BY <1>5 DEF Blocking
<1> QED
    BY <1>2, <1>3, <1>4, <1>8, <1>9, <1>10, <1>11, Bounds, FreeIInv DEF kube

-----------------------------------------------------------------------------
(* Lanes: steps that change the database.                                  *)

\* A lane that returns is idle, and has not got the lock.
LEMMA ReturnFacts ==
    ASSUME IInv, NEW w \in Lanes, Return(w)
    PROVE  /\ lane' \in [Lanes -> LaneState] /\ lane'[w] = IdleLane /\ IdleLane.pc = "idle"
           /\ \A v \in Lanes \ {w} : lane'[v] = lane[v]
           /\ \A v \in Lanes : lane'[v] = lane[v] \/ lane'[v].pc = "idle"
           /\ lock' \in {lock, NoOne} /\ lock' # w /\ (lock = w => lock' = NoOne)
           /\ lock' \in Lanes \cup {NoOne, Deployer}
<1>1. lane \in [Lanes -> LaneState] /\ lock \in Lanes \cup {NoOne, Deployer}
    BY DEF IInv, TypeOK
<1>2. IdleLane.pc = "idle"
    BY DEF IdleLane
<1>3. lane'[w] = IdleLane /\ \A v \in Lanes \ {w} : lane'[v] = lane[v]
    BY <1>1 DEF Return
<1>4. lane' \in [Lanes -> LaneState]
    BY <1>1, BlankTypes DEF Return
<1> QED
    BY <1>1, <1>2, <1>3, <1>4, Bounds DEF Return

\* A resize is claimed and a queued one is copied now.
LEMMA ClaimVolumeResizeIInv ==
    ASSUME IInv, NEW w \in Lanes, NEW i \in Ids, ClaimVolumeResize(w, i)
    PROVE  IInv'
<1>1. TypeOK /\ resize[i] \in Resize /\ revision \in Revisions /\ i \in Claims /\ ResizeOK(i)
    BY DbFacts, Bounds
<1>2. /\ UNCHANGED <<revision, rows, reserved, kube, late, faults>>
      /\ lock = NoOne /\ lock' = w /\ resize[i].phase \in Blocking
    BY DEF ClaimVolumeResize, Claimable
<1>3. PICK p \in {"copying", "switching", "cancelling", "deleting_original"} :
         /\ resize[i].phase = p \/ (resize[i].phase = "queued" /\ p = "copying")
         /\ p = IF resize[i].phase = "queued" THEN "copying" ELSE resize[i].phase
    BY <1>2 DEF Blocking
<1>4. PICK z \in Resize : /\ resize' = [resize EXCEPT ![i] = z]
                          /\ z.phase = p /\ z.claim = resize[i].claim /\ z.base = resize[i].base
                          /\ z.verified = resize[i].verified /\ z.uid = resize[i].uid
  <2>1. PICK y \in Resize : y = resize[i]
      BY <1>1
  <2>2. [y EXCEPT !.phase = p] \in Resize
      BY DEF Resize, Phases, Blocking
  <2>3. resize' = [resize EXCEPT ![i] = [y EXCEPT !.phase = p]]
      BY <1>1, <1>3, <2>1 DEF ClaimVolumeResize, TypeOK
  <2> QED
      BY <2>1, <2>2, <2>3 DEF Resize
<1>5. resize'[i] = z /\ \A k \in Ids \ {i} : resize'[k] = resize[k]
    BY <1>1, <1>4 DEF TypeOK
<1>6. PICK l \in LaneState :
         /\ lane' = [lane EXCEPT ![w] = l]
         /\ l.pc = Entry(resize[i].phase) /\ l.id = i /\ l.base = revision /\ ~l.armed
         /\ l.verified = z.verified /\ l.uid = z.uid
  <2>1. PICK y \in Resize : y = resize[i]
      BY <1>1
  <2>2. PICK e \in Pcs : e = Entry(resize[i].phase)
      BY <1>2 DEF Entry, Blocking, Pcs, Prepare, Removing
  <2>3. revision \in 0..MaxRevision
      BY <1>1, Bounds
  <2>4. [IdleLane EXCEPT !.pc = e, !.id = i, !.base = revision, !.verified = y.verified,
                         !.uid = y.uid, !.retry = y.retry] \in LaneState
      BY <1>1, <2>3, BlankTypes DEF LaneState, Resize
  <2>5. lane' = [lane EXCEPT ![w] = [IdleLane EXCEPT !.pc = e, !.id = i, !.base = revision,
                    !.verified = y.verified, !.uid = y.uid, !.retry = y.retry]]
      BY <2>1, <2>2 DEF ClaimVolumeResize
  <2> QED
      BY <1>4, <2>1, <2>2, <2>4, <2>5 DEF IdleLane
<1>7. lane' \in [Lanes -> LaneState] /\ lane'[w] = l /\ \A v \in Lanes \ {w} : lane'[v] = lane[v]
    BY <1>1, <1>6 DEF TypeOK
<1>8. TypeOK'
    BY <1>1, <1>2, <1>4, <1>7 DEF TypeOK, kube
<1>9. DbOK' /\ Cur' = Cur
  <2>1. ASSUME NEW k \in Ids PROVE PhaseKept(k)
    <3>1. ResizeOK(k) /\ (resize[k].phase \in Staged => k \in reserved)
        BY DbFacts, CopyFacts
    <3>2. CASE k = i
        BY <1>2, <1>3, <1>4, <1>5, <3>1, <3>2 DEF PhaseKept, ResizeOK, Staged, Switched, Blocking
    <3>3. CASE k # i
        BY <1>2, <1>5, <3>1, <3>3 DEF PhaseKept, ResizeOK
    <3> QED
        BY <3>2, <3>3
  <2> QED
      BY <1>2, <2>1, DbKept, DbFacts DEF RowKept
<1>10. \A k \in Ids : /\ resize'[k].claim = resize[k].claim
                      /\ resize[k].phase = "absent" <=> resize'[k].phase = "absent"
                      /\ resize[k].phase \notin {"absent", "queued"} =>
                            resize'[k].phase = resize[k].phase
    BY <1>3, <1>4, <1>5
<1>11. KubeOK'
  <2>1. ASSUME ~late PROVE OnTimeOK'
    <3>1. OnTimeOK /\ quota.owner \in Claims
        BY <1>1, <2>1 DEF IInv, KubeOK, TypeOK
    <3>2. ASSUME NEW k \in Ids PROVE HelperOK(k)'
      <4>1. HelperOK(k)
          BY <3>1 DEF OnTimeOK
      <4>2. CASE k = i
          BY <1>1, <1>2, <1>3, <1>4, <1>5, <4>1, <4>2
             DEF HelperOK, ResizeOK, Stopped, Copied, kube, Switched, Present
      <4>3. CASE k # i
          BY <1>2, <1>5, <4>1, <4>3 DEF HelperOK, Stopped, Copied, kube
      <4> QED
          BY <4>2, <4>3
    <3>3. quota.owner # 0 => resize'[quota.owner].phase \in {"copying", "cancelling"}
        BY <1>10, <3>1, Bounds DEF OnTimeOK
    <3> QED
        BY <1>2, <1>9, <3>1, <3>2, <3>3 DEF OnTimeOK, kube
  <2>2. \A k \in Ids : SourceOK(k)'
      BY <1>2, <1>10 DEF IInv, KubeOK, SourceOK, kube
  <2> QED
      BY <1>2, <2>1, <2>2 DEF IInv, KubeOK, QuotaOK, kube
<1>12. LaneOK(w)'
  <2>1. PassOK(l)'
      BY <1>1, <1>2, <1>3, <1>4, <1>5, <1>6 DEF PassOK
  <2>2. l.pc = CASE p = "copying" -> "quota" [] p = "switching" -> "deploy"
                 [] p = "cancelling" -> "cancel" [] p = "deleting_original" -> "check"
      BY <1>3, <1>6 DEF Entry
  <2>3. z.verified => z.uid
      BY <1>1, <1>4 DEF ResizeOK
  <2>4. HoldOK(l)'
    <3> HIDE <1>6
    <3>1. l.id = i /\ l.base = revision /\ l.verified = z.verified /\ l.uid = z.uid
        BY <1>6
    <3> QED
        BY <1>2, <1>3, <1>4, <1>5, <2>2, <2>3, <3>1
           DEF HoldOK, CopyPcs, SwitchPcs, CancelPcs, DeletePcs, Prepare, Blocking
  <2>5. ~late => HoldKube(l)'
    <3> SUFFICES ASSUME ~late PROVE HoldKube(l)'
        OBVIOUS
    <3>1. HelperOK(i)'
        BY <1>2, <1>11 DEF KubeOK, OnTimeOK
    <3>2. resize'[i].phase = "copying" /\ l.verified => Copied(i)'
        BY <1>4, <1>5, <1>6, <3>1 DEF HelperOK
    <3>3. l.pc \in {"quota", "deploy", "cancel", "check"} /\ l.id = i
        BY <1>3, <1>6, <2>2
    <3> QED
        BY <3>2, <3>3 DEF HoldKube
  <2> QED
      BY <1>2, <1>3, <1>6, <1>7, <2>1, <2>2, <2>4, <2>5
         DEF LaneOK, CancelledOK, PassOK, HoldOK, HoldKube, Stopped, Copied
<1>13. ASSUME NEW v \in Lanes \ {w} PROVE LaneOK(v)'
  <2>1. LaneOK(v) /\ lane'[v] = lane[v] /\ lock' # v
      BY <1>2, <1>7, <1>13 DEF IInv, LanesOK
  <2>2. ASSUME lane[v].pc # "idle" PROVE PassOK(lane[v])'
      BY <1>2, <1>10, <2>1, <2>2 DEF LaneOK, PassOK, kube
  <2> QED
      BY <2>1, <2>2 DEF LaneOK, CancelledOK
<1> QED
    BY <1>8, <1>9, <1>11, <1>12, <1>13 DEF IInv, LanesOK

\* The journal is saved: what was verified is still a complete copy.
LEMMA SaveIInv == ASSUME IInv, NEW w \in Lanes, Save(w) PROVE IInv'
<1>1. lane[w].pc \in {"save", "fail"} /\ lock = w /\ Return(w)
      /\ UNCHANGED <<revision, rows, reserved, kube, late, faults>>
    BY DEF Save
<1>2. PICK i \in Ids : i = lane[w].id
    BY <1>1, LaneFacts
<1>3. PICK l \in LaneState : l = lane[w]
    BY <1>1, LaneFacts
<1>4. /\ TypeOK /\ resize[i] \in Resize /\ HoldOK(l) /\ PassOK(l) /\ l.id = i
      /\ ~late => HoldKube(l)
    BY <1>1, <1>2, <1>3, LaneFacts, DbFacts
<1>5. PICK z \in Resize : /\ resize' = [resize EXCEPT ![i] = z]
                          /\ z.phase = resize[i].phase /\ z.claim = resize[i].claim
                          /\ z.base = resize[i].base
                          /\ z.verified = l.verified /\ z.uid = l.uid
  <2>1. PICK y \in Resize : y = resize[i]
      BY <1>4
  <2>2. PICK e \in BOOLEAN : e = (l.pc = "fail")
      OBVIOUS
  <2>3. [y EXCEPT !.error = e, !.verified = l.verified, !.uid = l.uid, !.retry = l.retry] \in Resize
      BY DEF Resize, LaneState
  <2>4. resize' = [resize EXCEPT ![i] = [y EXCEPT !.error = e, !.verified = l.verified,
                                                  !.uid = l.uid, !.retry = l.retry]]
      BY <1>2, <1>3, <2>1, <2>2 DEF Save, Id
  <2> QED
      BY <2>1, <2>3, <2>4 DEF Resize
<1>6. resize'[i] = z /\ \A k \in Ids \ {i} : resize'[k] = resize[k]
    BY <1>4, <1>5 DEF TypeOK
<1>7. TypeOK'
    BY <1>1, <1>4, <1>5, ReturnFacts DEF TypeOK, kube
<1>8. l.verified => l.uid
    BY <1>4 DEF HoldOK
<1>9. resize[i].phase \notin {"absent", "queued"}
    BY <1>4 DEF PassOK
<1>10. DbOK' /\ Cur' = Cur
  <2>1. ASSUME NEW k \in Ids PROVE PhaseKept(k)
    <3>1. ResizeOK(k) /\ (resize[k].phase \in Staged => k \in reserved)
        BY DbFacts, CopyFacts
    <3>2. CASE k = i
        BY <1>1, <1>5, <1>6, <1>8, <1>9, <3>1, <3>2 DEF PhaseKept
    <3>3. CASE k # i
        BY <1>1, <1>6, <3>1, <3>3 DEF PhaseKept, ResizeOK
    <3> QED
        BY <3>2, <3>3
  <2> QED
      BY <1>1, <2>1, DbKept, DbFacts DEF RowKept
<1>11. \A k \in Ids : resize'[k].claim = resize[k].claim /\ resize'[k].phase = resize[k].phase
    BY <1>5, <1>6
<1>12. ASSUME ~late PROVE OnTimeOK'
  <2>1. OnTimeOK /\ quota.owner \in Claims /\ HoldKube(l)
      BY <1>4, <1>12 DEF IInv, KubeOK, TypeOK
  <2>2. ASSUME NEW k \in Ids PROVE HelperOK(k)'
    <3>1. HelperOK(k)
        BY <2>1 DEF OnTimeOK
    <3>2. CASE k = i
      <4>1. resize'[i].verified /\ resize[i].phase = "copying" => Copied(i)
          BY <1>4, <1>5, <1>6, <2>1 DEF HoldKube
      <4> QED
          BY <1>1, <1>9, <1>11, <3>1, <3>2, <4>1 DEF HelperOK, Stopped, Copied, kube
    <3>3. CASE k # i
        BY <1>1, <1>6, <3>1, <3>3 DEF HelperOK, Stopped, Copied, kube
    <3> QED
        BY <3>2, <3>3
  <2> QED
      BY <1>1, <1>10, <1>11, <2>1, <2>2, Bounds DEF OnTimeOK, kube
<1> QED
    BY <1>1, <1>7, <1>10, <1>11, <1>12, ReturnFacts, Bounds, FreeIInv

\* The switch begins: the verified copy is the volume of the new current revision,
\* and the source has been replaced.
LEMMA BeginCutoverIInv == ASSUME IInv, NEW w \in Lanes, BeginCutover(w) PROVE IInv'
<1>1. PICK i \in Ids : i = lane[w].id
    BY LaneFacts DEF BeginCutover
<1>2. PICK l \in LaneState : l = lane[w]
    BY LaneFacts DEF BeginCutover
<1>3. /\ l.pc = "cut" /\ l.id = i /\ lock = w /\ resize[i].verified /\ revision < MaxRevision
      /\ Return(w) /\ revision' = revision + 1 /\ UNCHANGED <<reserved, kube, late, faults>>
      /\ rows' = [rows EXCEPT ![revision + 1] =
                     [NoRow EXCEPT !.status = "running", !.resize = i, !.claim = i]]
      /\ resize' = [resize EXCEPT ![i].phase = "switching", ![i].uid = l.uid]
    BY <1>1, <1>2 DEF BeginCutover, Check, Id
<1>4. /\ TypeOK /\ resize[i] \in Resize /\ HoldOK(l) /\ (~late => HoldKube(l))
      /\ resize[i].phase = "copying" /\ l.verified /\ l.uid /\ ResizeOK(i) /\ i \in Claims
    BY <1>2, <1>3, LaneFacts, DbFacts, Bounds DEF HoldOK, CopyPcs
<1>5. /\ Cur # i /\ resize[i].claim = Cur /\ i \in reserved /\ ~RowPending
      /\ \A k \in Ids \ {i} : resize[k].phase \notin Blocking
    BY <1>4, CopyFacts DEF Staged
<1>6. revision \in Revisions /\ revision + 1 \in Revisions /\ revision \in Nat
    BY <1>3, DbFacts, Bounds DEF Revisions
<1>7. PICK n \in Row : /\ rows' = [rows EXCEPT ![revision + 1] = n]
                       /\ n.status = "running" /\ n.resize = i /\ n.claim = i
  <2>1. [NoRow EXCEPT !.status = "running", !.resize = i, !.claim = i] \in Row
      BY <1>4, Bounds DEF NoRow, Row, Pending
  <2> QED
      BY <1>3, <2>1 DEF NoRow
<1>8. PICK z \in Resize : /\ resize' = [resize EXCEPT ![i] = z]
                          /\ z.phase = "switching" /\ z.claim = Cur /\ z.uid
                          /\ z.verified
  <2>1. PICK y \in Resize : y = resize[i]
      BY <1>4
  <2>2. [y EXCEPT !.phase = "switching", !.uid = l.uid] \in Resize
      BY DEF Resize, Phases, Blocking, LaneState
  <2>3. resize' = [resize EXCEPT ![i] = [y EXCEPT !.phase = "switching", !.uid = l.uid]]
      BY <1>3, <1>4, <2>1 DEF TypeOK
  <2> QED
      BY <1>3, <1>4, <1>5, <2>1, <2>2, <2>3 DEF Resize
<1>9. /\ rows'[revision + 1] = n /\ \A q \in Revisions \ {revision + 1} : rows'[q] = rows[q]
      /\ resize'[i] = z /\ \A k \in Ids \ {i} : resize'[k] = resize[k]
    BY <1>4, <1>6, <1>7, <1>8 DEF TypeOK
<1>10. Cur' = i
    BY <1>3, <1>7, <1>9 DEF Cur
<1>11. \A c : c \in Retired' <=> c \in Retired \/ c = Cur
  <2>1. \A k \in Ids : resize'[k].phase \in Switched <=> resize[k].phase \in Switched \/ k = i
      BY <1>8, <1>9 DEF Switched
  <2>2. \A k \in Ids : resize'[k].claim = resize[k].claim
      BY <1>5, <1>8, <1>9
  <2> QED
      BY <1>5, <2>1, <2>2 DEF Retired
<1>12. TypeOK'
  <2>1. rows' \in [Revisions -> Row] /\ resize' \in [Ids -> Resize]
      BY <1>4, <1>7, <1>8 DEF TypeOK
  <2>2. revision' \in Revisions
      BY <1>3, <1>6
  <2> QED
      BY <1>3, <1>4, <2>1, <2>2, ReturnFacts DEF TypeOK, kube
<1>13. resize[i].phase \notin Switched
    BY <1>4 DEF Switched
<1>14. i \notin Retired'
  <2>1. ASSUME NEW k \in Ids, resize[k].phase \in Switched, resize[k].claim = i PROVE FALSE
      BY <1>13, <2>1, DbFacts DEF ResizeOK
  <2> QED
      BY <1>5, <1>11, <2>1 DEF Retired
<1>15. ASSUME NEW r \in Revisions PROVE RowOK(r)'
  <2>1. RowOK(r) /\ r \in Nat /\ (r <= revision + 1 => r <= revision \/ r = revision + 1)
        /\ rows[r].resize \in Claims
      BY <1>6, Bounds, DbFacts DEF Revisions, Row
  <2>2. CASE r = revision + 1
    <3>1. rows'[r].status = "running" /\ rows'[r].claim = i /\ rows'[r].resize = i
          /\ resize'[i].phase \in Switched
        BY <1>7, <1>8, <1>9, <2>2 DEF Switched
    <3>2. ~(r > revision') /\ r <= revision'
        BY <1>3, <1>6, <2>2
    <3> QED
        BY <1>10, <3>1, <3>2 DEF RowOK
  <2>3. CASE r # revision + 1
    <3>1. rows'[r] = rows[r] /\ rows[r].status \notin Pending
        BY <1>5, <1>9, <2>3 DEF RowPending
    <3>2. /\ rows[r].claim \in Ids => resize'[rows[r].claim].phase \in Switched
          /\ rows[r].resize # 0 => resize'[rows[r].resize].phase \in Switched
        BY <1>8, <1>9, <2>1, Bounds DEF RowOK, Switched
    <3> QED
        BY <1>3, <1>6, <1>11, <2>1, <2>3, <3>1, <3>2 DEF RowOK
  <2> QED
      BY <2>2, <2>3
<1>16. ResizeOK(i)'
  <2>1. Cur \in Ids => resize'[Cur].phase \in Switched
      BY <1>5, <1>9, DbFacts
  <2>2. \A r \in Revisions : rows'[r].status \in Pending => rows'[r].resize = i
      BY <1>5, <1>7, <1>9 DEF RowPending
  <2> QED
      BY <1>3, <1>5, <1>7, <1>8, <1>9, <1>10, <2>1, <2>2 DEF ResizeOK, Staged
<1>17. ASSUME NEW k \in Ids \ {i} PROVE ResizeOK(k)'
  <2>1. ResizeOK(k) /\ resize[k].phase \notin Blocking
      BY <1>5, DbFacts
  <2>2. resize[k].claim \in Ids => resize'[resize[k].claim].phase \in Switched
      BY <1>8, <1>9, <2>1 DEF ResizeOK, Switched
  <2> QED
      BY <1>9, <2>1, <2>2 DEF ResizeOK, Staged, Blocking
<1>18. DbOK'
  <2>1. ASSUME NEW j \in Ids, NEW k \in Ids,
               resize'[j].phase \in Blocking, resize'[k].phase \in Blocking
        PROVE  j = k
      BY <1>5, <1>9, <2>1
  <2> QED
      BY <1>3, <1>5, <1>10, <1>14, <1>15, <1>16, <1>17, <2>1 DEF DbOK
<1>19. ASSUME ~late PROVE OnTimeOK'
  <2>1. OnTimeOK /\ HoldKube(l)
      BY <1>4, <1>19 DEF IInv, KubeOK
  <2>2. Copied(i) /\ quota.owner = 0
      BY <1>3, <1>4, <2>1 DEF HoldKube
  <2>3. ASSUME NEW k \in Ids PROVE HelperOK(k)'
    <3>1. HelperOK(k)
        BY <2>1 DEF OnTimeOK
    <3>2. CASE k = i
        BY <1>3, <1>8, <1>9, <2>2, <3>2 DEF HelperOK, Copied, kube
    <3>3. CASE k # i
        BY <1>3, <1>9, <3>1, <3>3 DEF HelperOK, Stopped, Copied, kube
    <3> QED
        BY <3>2, <3>3
  <2> QED
      BY <1>3, <1>10, <2>1, <2>2, <2>3 DEF OnTimeOK, Copied, Stopped, kube
<1>20. \A k \in Ids : /\ resize'[k].claim = resize[k].claim
                      /\ resize[k].phase = "absent" => resize'[k].phase = "absent"
                      /\ resize'[k].phase \in {"absent", "queued"} => resize'[k].phase = resize[k].phase
                      /\ resize[k].phase \notin {"cancelling", "deleting_original"}
    BY <1>4, <1>5, <1>8, <1>9 DEF Blocking
<1> QED
    BY <1>3, <1>12, <1>18, <1>19, <1>20, ReturnFacts, Bounds, FreeIInv

\* The outcome of the switch is recorded with the row of the new revision.
LEMMA CutoverResultIInv ==
    ASSUME IInv, NEW w \in Lanes, NEW ok \in BOOLEAN, NEW attempt \in BOOLEAN,
           CutoverResult(w, ok, attempt)
    PROVE  IInv'
<1>1. lane[w].pc \in SwitchPcs /\ lock = w /\ Return(w)
      /\ UNCHANGED <<revision, reserved, kube, late, faults>>
    BY DEF CutoverResult, SwitchPcs
<1>2. lane[w].pc # "idle"
    BY <1>1 DEF SwitchPcs
<1>3. PICK i \in Ids : i = lane[w].id
    BY <1>2, LaneFacts
<1>4. resize[i].phase = "switching" /\ ResizeOK(i) /\ TypeOK /\ resize[i] \in Resize
    BY <1>1, <1>2, <1>3, LaneFacts, DbFacts DEF HoldOK
<1>5. PICK r \in Revisions : r = RowOf(w) /\ rows[r].resize = i
  <2>1. rows[revision].resize = i /\ revision \in Revisions
      BY <1>4, DbFacts DEF ResizeOK
  <2> QED
      BY <1>3, <2>1 DEF RowOf, Id
<1>6. PICK s \in {"succeeded", "failed"}, p \in {"original_retained", "switching"} :
         s = (IF ok THEN "succeeded" ELSE "failed")
         /\ p = (IF ok THEN "original_retained" ELSE "switching")
    OBVIOUS
<1>7. PICK n \in Row : /\ rows' = [rows EXCEPT ![r] = n]
                       /\ n.status = s /\ n.claim = rows[r].claim /\ n.resize = rows[r].resize
  <2>1. PICK y \in Row : y = rows[r]
      BY DbFacts
  <2>2. [y EXCEPT !.status = s, !.attempt = attempt] \in Row
      BY DEF Row
  <2>3. rows' = [rows EXCEPT ![r] = [y EXCEPT !.status = s, !.attempt = attempt]]
      BY <1>4, <1>5, <1>6, <2>1 DEF CutoverResult, TypeOK
  <2> QED
      BY <2>1, <2>2, <2>3 DEF Row
<1>8. PICK z \in Resize : /\ resize' = [resize EXCEPT ![i] = z]
                          /\ z.phase = p /\ z.claim = resize[i].claim /\ z.base = resize[i].base
                          /\ z.verified = resize[i].verified /\ z.uid = resize[i].uid
  <2>1. PICK y \in Resize : y = resize[i]
      BY <1>4
  <2>2. [y EXCEPT !.phase = p, !.error = ~ok] \in Resize
      BY DEF Resize, Phases, Blocking
  <2>3. resize' = [resize EXCEPT ![i] = [y EXCEPT !.phase = p, !.error = ~ok]]
      BY <1>3, <1>4, <1>6, <2>1 DEF CutoverResult, TypeOK, Id
  <2> QED
      BY <2>1, <2>2, <2>3 DEF Resize
<1>9. /\ rows'[r] = n /\ \A q \in Revisions \ {r} : rows'[q] = rows[q]
      /\ resize'[i] = z /\ \A k \in Ids \ {i} : resize'[k] = resize[k]
    BY <1>4, <1>7, <1>8 DEF TypeOK
<1>10. TypeOK'
    BY <1>1, <1>4, <1>7, <1>8, ReturnFacts DEF TypeOK, kube
<1>11. \A k \in Ids \ {i} : resize[k].phase \notin Blocking
    BY <1>4, DbFacts DEF Blocking
<1>12. DbOK' /\ Cur' = Cur
  <2>1. ASSUME NEW k \in Ids PROVE PhaseKept(k)
    <3>1. ResizeOK(k)
        BY DbFacts
    <3>2. CASE k = i
        BY <1>4, <1>8, <1>9, <3>1, <3>2 DEF PhaseKept, ResizeOK, Staged, Switched, Blocking
    <3>3. CASE k # i
        BY <1>9, <1>11, <3>1, <3>3 DEF PhaseKept, ResizeOK, Staged, Blocking
    <3> QED
        BY <3>2, <3>3
  <2>2. ASSUME NEW q \in Revisions PROVE RowKept(q)
    <3>1. RowOK(r) /\ r \in Nat /\ revision \in Nat
        BY DbFacts, Bounds
    <3>2. rows[r].status # "absent"
        BY <1>5, <3>1, Bounds DEF RowOK, NoRow
    <3>3. \A k \in Ids : resize'[k].phase \notin Staged
        BY <1>8, <1>9, <1>11 DEF Staged, Blocking
    <3> QED
        BY <1>7, <1>9, <3>2, <3>3 DEF RowKept, Pending
  <2> QED
      BY <1>1, <2>1, <2>2, DbKept, DbFacts
<1>13. ASSUME ~late PROVE OnTimeOK'
  <2>1. OnTimeOK /\ quota.owner \in Claims
      BY <1>4, <1>13 DEF IInv, KubeOK, TypeOK
  <2>2. ASSUME NEW k \in Ids PROVE HelperOK(k)'
    <3>1. HelperOK(k)
        BY <2>1 DEF OnTimeOK
    <3>2. CASE k = i
        BY <1>1, <1>4, <1>8, <1>9, <3>1, <3>2 DEF HelperOK, kube, Switched
    <3>3. CASE k # i
        BY <1>1, <1>9, <3>1, <3>3 DEF HelperOK, Stopped, Copied, kube
    <3> QED
        BY <3>2, <3>3
  <2>3. quota.owner # 0 => resize'[quota.owner].phase \in {"copying", "cancelling"}
      BY <1>4, <1>9, <2>1, Bounds DEF OnTimeOK
  <2> QED
      BY <1>1, <1>12, <2>1, <2>2, <2>3 DEF OnTimeOK, kube
<1>14. \A k \in Ids : /\ resize'[k].claim = resize[k].claim
                      /\ resize[k].phase = "absent" => resize'[k].phase = "absent"
                      /\ resize'[k].phase \in {"absent", "queued"} => resize'[k].phase = resize[k].phase
                      /\ resize[k].phase \notin {"cancelling", "deleting_original"}
    BY <1>4, <1>8, <1>9, <1>11 DEF Blocking
<1> QED
    BY <1>1, <1>10, <1>12, <1>13, <1>14, ReturnFacts, Bounds, FreeIInv

\* The claim that was deleted is no longer charged: no other lane can still delete
\* it, or it has been deleted for good.
LEMMA ReclaimedIInv == ASSUME IInv, NEW w \in Lanes, Reclaimed(w) PROVE IInv'
<1>1. PICK l \in LaneState : l = lane[w]
    BY LaneFacts DEF Reclaimed
<1>2. PICK i \in Ids : i = l.id
    BY <1>1, LaneFacts DEF Reclaimed
<1>3. PICK p \in {"cancelled", "completed"} : p = l.pc
    BY <1>1 DEF Reclaimed
<1>4. /\ lock = w /\ Return(w) /\ UNCHANGED <<revision, rows, kube, late, faults>>
      /\ reserved' = reserved \ {Freed(w)}
    BY DEF Reclaimed, Check
<1>5. /\ TypeOK /\ resize[i] \in Resize /\ HoldOK(l) /\ (~late => HoldKube(l)) /\ CancelledOK(w)
      /\ Cur \notin Retired /\ ResizeOK(i)
    BY <1>1, <1>2, <1>3, <1>4, LaneFacts, DbFacts DEF IInv, LanesOK, LaneOK
<1>6. PICK c \in Claims : c = Freed(w) /\ c = IF p = "cancelled" THEN i ELSE resize[i].claim
    BY <1>1, <1>2, <1>3, <1>5, Bounds DEF Freed, Id, Resize
<1>7. /\ p = "cancelled" => resize[i].phase = "cancelling"
      /\ p = "completed" => resize[i].phase = "deleting_original"
    BY <1>2, <1>3, <1>5 DEF HoldOK, CancelPcs, DeletePcs
<1>8. \A k \in Ids \ {i} : resize[k].phase \notin Blocking
    BY <1>7, DbFacts DEF Blocking
<1>9. PICK z \in Resize : /\ resize' = [resize EXCEPT ![i] = z]
                          /\ z.phase = p /\ z.claim = resize[i].claim /\ z.base = resize[i].base
                          /\ z.verified = resize[i].verified /\ z.uid = resize[i].uid
  <2>1. PICK y \in Resize : y = resize[i]
      BY <1>5
  <2>2. [y EXCEPT !.phase = p, !.error = FALSE] \in Resize
      BY DEF Resize, Phases
  <2>3. resize' = [resize EXCEPT ![i] = [y EXCEPT !.phase = p, !.error = FALSE]]
      BY <1>1, <1>2, <1>3, <2>1 DEF Reclaimed, Id
  <2> QED
      BY <2>1, <2>2, <2>3 DEF Resize
<1>10. resize'[i] = z /\ \A k \in Ids \ {i} : resize'[k] = resize[k]
    BY <1>5, <1>9 DEF TypeOK
<1>11. TypeOK'
    BY <1>4, <1>5, <1>9, ReturnFacts DEF TypeOK, kube
<1>12. Cur # c
  <2>1. CASE p = "cancelled"
      BY <1>6, <1>7, <2>1, DbFacts DEF Switched
  <2>2. CASE p = "completed"
    <3>1. c \in Retired
        BY <1>6, <1>7, <2>2 DEF Retired, Switched
    <3> QED
        BY <1>5, <3>1
  <2> QED
      BY <2>1, <2>2
<1>13. DbOK' /\ Cur' = Cur
  <2>1. ASSUME NEW k \in Ids PROVE PhaseKept(k)
    <3>1. ResizeOK(k)
        BY DbFacts
    <3>2. CASE k = i
        BY <1>7, <1>9, <1>10, <3>1, <3>2 DEF PhaseKept, ResizeOK, Staged, Switched, Blocking
    <3>3. CASE k # i
        BY <1>8, <1>10, <3>1, <3>3 DEF PhaseKept, ResizeOK, Staged, Blocking
    <3> QED
        BY <3>2, <3>3
  <2>2. Cur \in reserved'
      BY <1>4, <1>6, <1>12, DbFacts
  <2> QED
      BY <1>4, <2>1, <2>2, DbKept DEF RowKept
<1>14. ASSUME ~late PROVE OnTimeOK'
  <2>1. OnTimeOK /\ quota.owner \in Claims /\ HoldKube(l)
      BY <1>5, <1>14 DEF IInv, KubeOK, TypeOK
  <2>2. pvc[c] = "none"
      BY <1>2, <1>3, <1>6, <2>1 DEF HoldKube
  <2>3. ASSUME NEW k \in Ids PROVE HelperOK(k)'
    <3>1. HelperOK(k)
        BY <2>1 DEF OnTimeOK
    <3>2. CASE k = i
        BY <1>4, <1>7, <1>9, <1>10, <3>1, <3>2 DEF HelperOK, kube, Switched
    <3>3. CASE k # i
        BY <1>4, <1>10, <3>1, <3>3 DEF HelperOK, Stopped, Copied, kube
    <3> QED
        BY <3>2, <3>3
  <2>4. quota.owner # 0 => resize'[quota.owner].phase \in {"copying", "cancelling"}
    <3>1. p = "cancelled" => quota.owner = 0
        BY <1>3, <2>1 DEF HoldKube
    <3> QED
        BY <1>7, <1>10, <2>1, <3>1, Bounds DEF OnTimeOK
  <2>5. \A d \in Claims : pvc[d] # "none" => d \in reserved'
      BY <1>4, <1>6, <2>1, <2>2 DEF OnTimeOK
  <2> QED
      BY <1>4, <1>13, <2>1, <2>3, <2>4, <2>5 DEF OnTimeOK, kube
<1>15. resize[i].phase = "cancelling" => i \in deleted \/ \A v \in Lanes : ~Deletes(lane[v], i)
    BY <1>1, <1>2, <1>3, <1>4, <1>5, <1>7 DEF CancelledOK
<1>16. resize[i].phase = "deleting_original" => resize[i].claim \in deleted
    BY <1>2, <1>3, <1>5, <1>7 DEF HoldOK
<1>17. \A k \in Ids : /\ resize'[k].claim = resize[k].claim
                      /\ resize[k].phase = "absent" => resize'[k].phase = "absent"
                      /\ resize'[k].phase \in {"absent", "queued"} => resize'[k].phase = resize[k].phase
                      /\ resize[k].phase \in {"cancelling", "deleting_original"} => k = i
    BY <1>7, <1>8, <1>9, <1>10 DEF Blocking
<1>18. revision' = revision /\ rows' = rows
    BY <1>4
<1> QED
    BY <1>4, <1>11, <1>13, <1>14, <1>15, <1>16, <1>17, <1>18, ReturnFacts, Bounds, FreeIInv

-----------------------------------------------------------------------------
(* Lanes: steps that change nothing but the lane.                          *)

\* The next state of a lane that goes on to pc.
LEMMA GotoFacts ==
    ASSUME IInv, NEW w \in Lanes, NEW pc \in Pcs, Goto(w, pc)
    PROVE  \E l \in LaneState :
              /\ Moves(w, l) /\ l.pc = pc /\ ~l.armed
              /\ l.id = lane[w].id /\ l.base = lane[w].base
              /\ l.verified = lane[w].verified /\ l.uid = lane[w].uid
<1>1. lane \in [Lanes -> LaneState]
    BY DEF IInv, TypeOK
<1>2. PICK m \in LaneState : m = lane[w]
    BY <1>1
<1>3. PICK l \in LaneState : l = [m EXCEPT !.pc = pc, !.armed = FALSE, !.fresh = FALSE]
  <2>1. [m EXCEPT !.pc = pc, !.armed = FALSE, !.fresh = FALSE] \in LaneState
      BY DEF LaneState
  <2> QED
      BY <2>1
<1>4. lane' = [lane EXCEPT ![w] = l]
    BY <1>1, <1>2, <1>3 DEF Goto
<1>5. Moves(w, l)
    BY <1>1, <1>4 DEF Moves, Alike
<1>6. l.pc = pc /\ ~l.armed /\ l.id = m.id /\ l.base = m.base /\ l.verified = m.verified /\ l.uid = m.uid
    BY <1>3 DEF LaneState
<1> QED
    BY <1>2, <1>5, <1>6

\* A step of a lane that changes nothing else.
LEMMA QuietIInv ==
    ASSUME IInv, NEW w \in Lanes, NEW l \in LaneState, Moves(w, l), lane[w].pc # "idle",
           UNCHANGED <<db, lock, kube, late>>, faults' \in 0..MaxFaults,
           l.pc # "idle", l.id = lane[w].id, l.base = lane[w].base,
           ~l.armed \/ l.pc \notin {"deleteTarget", "deleteOriginal"},
           lock = w => HoldOK(l) /\ (~late => HoldKube(l)),
           lock = w /\ l.pc = "cancelled" =>
              l.id \in deleted \/ \A v \in Lanes : ~Deletes(lane[v], l.id)
    PROVE  IInv'
<1>1. revision' = revision /\ rows' = rows /\ resize' = resize
    BY SameDb
<1>2. TypeOK'
    BY DEF IInv, TypeOK, db, kube, Moves
<1>3. PassOK(l)'
  <2>1. PassOK(lane[w])
      BY LaneFacts
  <2> QED
      BY <1>1, <2>1 DEF PassOK
<1>4. lock' = w => l.pc # "idle" /\ HoldOK(l)' /\ (~late' => HoldKube(l)')
    BY <1>1 DEF HoldOK, HoldKube, Stopped, Copied, kube
<1>5. lock' = w /\ l.pc = "cancelled" => l.id \in deleted' \/ \A v \in Lanes : ~Deletes(lane'[v], l.id)
    BY DEF Moves, Alike, Deletes, kube
<1>6. Recorded /\ QuotaOK'
    BY DEF Recorded, QuotaOK, IInv, KubeOK, kube
<1> QED
    BY <1>2, <1>3, <1>4, <1>5, <1>6, LaneIInv

\* A pass that is about to be saved, with or without an error.
LEMMA EndPassIInv ==
    ASSUME IInv, NEW w \in Lanes, lane[w].pc # "idle", NEW pc \in {"save", "fail"}, Goto(w, pc),
           UNCHANGED <<db, lock, kube, late>>, faults' \in 0..MaxFaults
    PROVE  IInv'
<1>1. pc \in Pcs
    BY DEF Pcs
<1>2. PICK l \in LaneState :
              /\ Moves(w, l) /\ l.pc = pc /\ ~l.armed
              /\ l.id = lane[w].id /\ l.base = lane[w].base
              /\ l.verified = lane[w].verified /\ l.uid = lane[w].uid
    BY <1>1, GotoFacts
<1>3. lock = w => HoldOK(l) /\ (~late => HoldKube(l))
    BY <1>2, LaneFacts
       DEF HoldOK, HoldKube, CopyPcs, SwitchPcs, CancelPcs, DeletePcs, Prepare
<1> QED
    BY <1>2, <1>3, QuietIInv

\* Steps after an error: a copy that was not verified is undone.
LEMMA AfterErrorIInv ==
    ASSUME IInv, NEW w \in Lanes, lane[w].pc # "idle", Goto(w, AfterError(w)),
           UNCHANGED <<db, lock, kube, late>>, faults' \in 0..MaxFaults
    PROVE  IInv'
<1>1. CASE Undoes(w)
  <2>1. "undo" \in Pcs /\ Goto(w, "undo")
      BY <1>1 DEF Pcs, Removing, AfterError
  <2>2. PICK l \in LaneState :
              /\ Moves(w, l) /\ l.pc = "undo" /\ ~l.armed
              /\ l.id = lane[w].id /\ l.base = lane[w].base
              /\ l.verified = lane[w].verified /\ l.uid = lane[w].uid
      BY <2>1, GotoFacts
  <2>3. lane[w].pc \in Prepare /\ ~lane[w].verified
      BY <1>1 DEF Undoes
  <2>4. lock = w => HoldOK(l) /\ (~late => HoldKube(l))
      BY <2>2, <2>3, LaneFacts
         DEF HoldOK, HoldKube, CopyPcs, SwitchPcs, CancelPcs, DeletePcs
  <2> QED
      BY <2>2, <2>4, QuietIInv
<1>2. CASE ~Undoes(w)
    BY <1>2, EndPassIInv DEF AfterError
<1> QED
    BY <1>1, <1>2

\* A pass that returns without a record: its session is gone, it crashed, it met a
\* conflict, or the services are not healthy yet.
LEMMA ReturnIInv ==
    ASSUME IInv, NEW w \in Lanes, Return(w), UNCHANGED <<db, kube, late>>, faults' \in 0..MaxFaults
    PROVE  IInv'
<1>1. PICK l \in LaneState : l = IdleLane
    BY BlankTypes
<1>2. Moves(w, l) /\ l.pc = "idle" /\ lock' \in {lock, NoOne} /\ lock' # w
    BY <1>1, ReturnFacts DEF Moves, Alike
<1>3. TypeOK'
    BY ReturnFacts DEF IInv, TypeOK, db, kube
<1>4. Recorded /\ QuotaOK'
    BY DEF Recorded, QuotaOK, IInv, KubeOK, kube
<1> QED
    BY <1>2, <1>3, <1>4, LaneIInv

\* The bound on faults.
LEMMA FaultTypes == ASSUME IInv, faults < MaxFaults, faults' = faults + 1 PROVE faults' \in 0..MaxFaults
<1>1. faults \in 0..MaxFaults /\ MaxFaults \in Nat
    BY Bounds DEF IInv, TypeOK
<1> QED
    BY <1>1

\* The session of a lane ends: the lane keeps its state, without the lock.
LEMMA SessionLostIInv == ASSUME IInv, NEW w \in Lanes, SessionLost(w) PROVE IInv'
<1>1. lock = w /\ lock' = NoOne /\ UNCHANGED <<db, lane, kube, late>> /\ faults' \in 0..MaxFaults
    BY FaultTypes DEF SessionLost
<1>2. PICK l \in LaneState : l = lane[w]
    BY DEF IInv, TypeOK
<1>3. Moves(w, l)
    BY <1>1, <1>2 DEF Moves, Alike, IInv, TypeOK
<1>4. TypeOK'
    BY <1>1 DEF IInv, TypeOK, db, kube
<1>5. Recorded /\ QuotaOK'
    BY <1>1 DEF Recorded, QuotaOK, IInv, KubeOK, kube
<1>6. l.pc # "idle" => PassOK(l)'
    BY <1>1, <1>2, SameDb DEF IInv, LanesOK, LaneOK, PassOK, kube
<1>7. lock' # w
    BY <1>1, Bounds
<1> QED
    BY <1>1, <1>3, <1>4, <1>5, <1>6, <1>7, LaneIInv

\* Steps of a pass that only end it.
LEMMA EndStepsIInv ==
    ASSUME IInv, NEW w \in Lanes,
           \/ CheckFails(w) \/ SessionGone(w) \/ Conflict(w) \/ RequestFails(w)
           \/ ClaimMissing(w) \/ HelperStays(w) \/ DeployConflict(w) \/ Crash(w)
    PROVE  IInv'
<1>0. faults \in 0..MaxFaults
    BY DEF IInv, TypeOK
<1>1. CASE CheckFails(w)
  <2>1. lane[w].pc # "idle"
      BY <1>1 DEF CheckFails, Needed, Removing
  <2> QED
      BY <1>0, <1>1, <2>1, EndPassIInv DEF CheckFails
<1>2. CASE SessionGone(w)
    BY <1>0, <1>2, ReturnIInv DEF SessionGone
<1>3. CASE Conflict(w)
  <2>1. lane[w].pc # "idle"
      BY <1>3 DEF Conflict, Removing
  <2> QED
      BY <1>0, <1>3, <2>1, EndPassIInv DEF Conflict
<1>4. CASE RequestFails(w)
    BY <1>4, FaultTypes, EndPassIInv, AfterErrorIInv DEF RequestFails
<1>5. CASE ClaimMissing(w)
    BY <1>0, <1>5, AfterErrorIInv DEF ClaimMissing
<1>6. CASE HelperStays(w)
  <2>1. lane[w].pc # "idle"
      BY <1>6 DEF HelperStays, Removing
  <2> QED
      BY <1>0, <1>6, <2>1, EndPassIInv DEF HelperStays, NotGone
<1>7. CASE DeployConflict(w)
    BY <1>7, FaultTypes, ReturnIInv DEF DeployConflict
<1>8. CASE Crash(w)
    BY <1>8, FaultTypes, ReturnIInv DEF Crash
<1> QED
    BY <1>1, <1>2, <1>3, <1>4, <1>5, <1>6, <1>7, <1>8

\* The check before a request: the lane has the lock, so its resize is in the phase
\* that the request belongs to.
LEMMA ArmIInv == ASSUME IInv, NEW w \in Lanes, Arm(w) PROVE IInv'
<1>1. lock = w /\ Needed(w) /\ UNCHANGED <<db, lock, kube, late, faults>>
      /\ lane' = [lane EXCEPT ![w].armed = TRUE, ![w].fresh = TRUE]
    BY DEF Arm, Check
<1>2. lane[w].pc # "idle"
    BY <1>1 DEF Needed, Removing
<1>3. PICK m \in LaneState : m = lane[w]
    BY <1>2, LaneFacts
<1>4. lane \in [Lanes -> LaneState]
    BY DEF IInv, TypeOK
<1>5. PICK l \in LaneState : l = [m EXCEPT !.armed = TRUE, !.fresh = TRUE]
  <2>1. [m EXCEPT !.armed = TRUE, !.fresh = TRUE] \in LaneState
      BY DEF LaneState
  <2> QED
      BY <2>1
<1>6. l.pc = m.pc /\ l.id = m.id /\ l.base = m.base /\ l.verified = m.verified /\ l.uid = m.uid
    BY <1>5 DEF LaneState
<1>7. lane' = [lane EXCEPT ![w] = l]
    BY <1>1, <1>3, <1>4, <1>5
<1>8. Moves(w, l)
    BY <1>4, <1>7 DEF Moves, Alike
<1>9. HoldOK(m) /\ PassOK(m) /\ (~late => HoldKube(m)) /\ CancelledOK(w)
    BY <1>1, <1>2, <1>3, LaneFacts DEF IInv, LanesOK, LaneOK
<1>10. PassOK(l)
  <2>1. l.pc = "deleteTarget" => resize[l.id].phase = "cancelling" /\ pvc[l.id] # "none"
      BY <1>1, <1>3, <1>6, <1>9 DEF Needed, Id, HoldOK, CancelPcs, Removing
  <2>2. l.pc = "deleteOriginal" => resize[l.id].phase = "deleting_original"
                                   /\ rows[revision].status = "succeeded"
      BY <1>6, <1>9 DEF HoldOK, DeletePcs
  <2> QED
      BY <1>6, <1>9, <2>1, <2>2 DEF PassOK
<1>11. HoldOK(l) /\ (~late => HoldKube(l))
    BY <1>6, <1>9 DEF HoldOK, HoldKube
<1>12. l.pc # "cancelled" /\ l.pc # "idle"
    BY <1>1, <1>3, <1>6 DEF Needed, Removing
<1>13. TypeOK'
    BY <1>1, <1>8 DEF IInv, TypeOK, Moves, db, kube
<1>14. Recorded /\ QuotaOK'
    BY <1>1 DEF Recorded, QuotaOK, IInv, KubeOK, kube
<1>15. PassOK(l)' /\ HoldOK(l)' /\ (~late' => HoldKube(l)')
    BY <1>1, <1>10, <1>11, SameDb DEF PassOK, HoldOK, HoldKube, Stopped, Copied, kube
<1>16. lock' = lock /\ lock' = w /\ late' = late /\ UNCHANGED db /\ UNCHANGED kube
    BY <1>1
<1> QED
    BY <1>8, <1>12, <1>13, <1>14, <1>15, <1>16, LaneIInv

\* Steps of a pass that go on, or end it, by what is there.
LEMMA AdoptClaimIInv == ASSUME IInv, NEW w \in Lanes, AdoptClaim(w) PROVE IInv'
<1>1. lane[w].pc = "claim" /\ ~lane[w].armed /\ UNCHANGED <<db, lock, kube, late, faults>>
    BY DEF AdoptClaim
<1>2. PICK m \in LaneState : m = lane[w]
    BY <1>1, LaneFacts
<1>3. PICK pc \in {"finish", "stop"} : pc = IF m.verified THEN "finish" ELSE "stop"
    OBVIOUS
<1>4. lane \in [Lanes -> LaneState] /\ faults \in 0..MaxFaults
    BY DEF IInv, TypeOK
<1>5. PICK l \in LaneState : l = [m EXCEPT !.uid = TRUE, !.pc = pc]
  <2>1. [m EXCEPT !.uid = TRUE, !.pc = pc] \in LaneState
      BY DEF LaneState, Pcs, Prepare, Removing
  <2> QED
      BY <2>1
<1>6. lane' = [lane EXCEPT ![w] = l]
    BY <1>2, <1>3, <1>4, <1>5 DEF AdoptClaim
<1>7. Moves(w, l)
    BY <1>4, <1>6 DEF Moves, Alike
<1>8. l.pc = pc /\ l.id = m.id /\ l.base = m.base /\ l.verified = m.verified /\ l.uid
    BY <1>5 DEF LaneState
<1>9. lock = w => HoldOK(m) /\ (~late => HoldKube(m))
    BY <1>1, <1>2, LaneFacts
<1>10. lock = w => HoldOK(l) /\ (~late => HoldKube(l))
    BY <1>1, <1>2, <1>3, <1>8, <1>9
       DEF HoldOK, HoldKube, CopyPcs, SwitchPcs, CancelPcs, DeletePcs, Prepare
<1> QED
    BY <1>1, <1>2, <1>3, <1>4, <1>7, <1>8, <1>10, QuietIInv

\* The pods of the services are gone: the copy can start.
LEMMA DrainIInv == ASSUME IInv, NEW w \in Lanes, Drain(w) PROVE IInv'
<1>1. lane[w].pc = "drain" /\ UNCHANGED <<db, lock, kube, late, faults>> /\ faults \in 0..MaxFaults
    BY DEF Drain, IInv, TypeOK
<1>2. CASE Drained
  <2>1. "helper" \in Pcs /\ Goto(w, "helper")
      BY <1>2 DEF Pcs, Prepare, Drain
  <2>2. PICK l \in LaneState :
              /\ Moves(w, l) /\ l.pc = "helper" /\ ~l.armed
              /\ l.id = lane[w].id /\ l.base = lane[w].base
              /\ l.verified = lane[w].verified /\ l.uid = lane[w].uid
      BY <2>1, GotoFacts
  <2>3. lock = w => HoldOK(l)
      BY <1>1, <2>2, LaneFacts DEF HoldOK, CopyPcs, SwitchPcs, CancelPcs, DeletePcs, Prepare
  <2>4. lock = w /\ ~late => HoldKube(l)
      BY <1>1, <1>2, <2>2, LaneFacts DEF HoldKube, Stopped, Drained
  <2> QED
      BY <1>1, <2>2, <2>3, <2>4, QuietIInv
<1>3. CASE ~Drained
    BY <1>1, <1>3, EndPassIInv DEF Drain
<1> QED
    BY <1>2, <1>3

\* A report is read: a copy that succeeded is complete.
LEMMA ReadReportIInv == ASSUME IInv, NEW w \in Lanes, ReadReport(w) PROVE IInv'
<1>1. lane[w].pc = "report" /\ UNCHANGED <<db, lock, kube, late, faults>>
    BY DEF ReadReport
<1>2. PICK m \in LaneState : m = lane[w]
    BY <1>1, LaneFacts
<1>3. lane \in [Lanes -> LaneState] /\ faults \in 0..MaxFaults
    BY DEF IInv, TypeOK
<1>4. lock = w => HoldOK(m) /\ (~late => HoldKube(m))
    BY <1>1, <1>2, LaneFacts
<1>5. PICK i \in Ids : i = m.id
    BY <1>1, <1>2, LaneFacts
<1>6. ASSUME VerifiedReport(w), lane' = [lane EXCEPT ![w].verified = TRUE, ![w].pc = "save"]
      PROVE  IInv'
  <2>1. PICK l \in LaneState : l = [m EXCEPT !.verified = TRUE, !.pc = "save"]
    <3>1. [m EXCEPT !.verified = TRUE, !.pc = "save"] \in LaneState
        BY DEF LaneState, Pcs
    <3> QED
        BY <3>1
  <2>2. lane' = [lane EXCEPT ![w] = l]
      BY <1>2, <1>3, <1>6, <2>1
  <2>3. Moves(w, l)
      BY <1>3, <2>2 DEF Moves, Alike
  <2>4. l.pc = "save" /\ l.id = m.id /\ l.base = m.base /\ l.verified /\ l.uid = m.uid
      BY <2>1 DEF LaneState
  <2>5. lock = w => HoldOK(l)
      BY <1>1, <1>2, <1>4, <2>4 DEF HoldOK, CopyPcs, SwitchPcs, CancelPcs, DeletePcs, Prepare
  <2>6. lock = w /\ ~late => HoldKube(l)
    <3> SUFFICES ASSUME lock = w, ~late PROVE HoldKube(l)
        OBVIOUS
    <3>1. resize[i].phase = "copying" /\ HelperOK(i) /\ helper[i] = "succeeded"
        BY <1>1, <1>2, <1>4, <1>5, <1>6
           DEF HoldOK, CopyPcs, Prepare, IInv, KubeOK, OnTimeOK, VerifiedReport, Id
    <3>2. Copied(i)
        BY <3>1 DEF HelperOK, Present, Copied
    <3> QED
        BY <1>5, <2>4, <3>2 DEF HoldKube
  <2> QED
      BY <1>1, <1>2, <1>3, <2>3, <2>4, <2>5, <2>6, QuietIInv
<1>7. ASSUME lane' = [lane EXCEPT ![w].retry = FALSE, ![w].pc = "again"]
      PROVE  IInv'
  <2>1. PICK l \in LaneState : l = [m EXCEPT !.retry = FALSE, !.pc = "again"]
    <3>1. [m EXCEPT !.retry = FALSE, !.pc = "again"] \in LaneState
        BY DEF LaneState, Pcs, Removing
    <3> QED
        BY <3>1
  <2>2. lane' = [lane EXCEPT ![w] = l]
      BY <1>2, <1>3, <1>7, <2>1
  <2>3. Moves(w, l)
      BY <1>3, <2>2 DEF Moves, Alike
  <2>4. l.pc = "again" /\ l.id = m.id /\ l.base = m.base /\ l.verified = m.verified /\ l.uid = m.uid
      BY <2>1 DEF LaneState
  <2>5. lock = w => HoldOK(l) /\ (~late => HoldKube(l))
      BY <1>1, <1>2, <1>4, <2>4
         DEF HoldOK, HoldKube, CopyPcs, SwitchPcs, CancelPcs, DeletePcs, Prepare
  <2> QED
      BY <1>1, <1>2, <1>3, <2>3, <2>4, <2>5, QuietIInv
<1>8. CASE Goto(w, AfterError(w))
    BY <1>1, <1>3, <1>8, AfterErrorIInv
<1>9. CASE Goto(w, "save")
    BY <1>1, <1>3, <1>9, EndPassIInv
<1> QED
    BY <1>6, <1>7, <1>8, <1>9 DEF ReadReport

\* The services are healthy on the original: the staging claim is deleted next.
LEMMA ObserveHealthIInv == ASSUME IInv, NEW w \in Lanes, ObserveHealth(w) PROVE IInv'
<1>1. lane[w].pc = "health" /\ UNCHANGED <<db, kube, late, faults>> /\ faults \in 0..MaxFaults
    BY DEF ObserveHealth, IInv, TypeOK
<1>2. CASE Goto(w, "deleteTarget") /\ UNCHANGED lock
  <2>1. "deleteTarget" \in Pcs
      BY DEF Pcs
  <2>2. PICK l \in LaneState :
              /\ Moves(w, l) /\ l.pc = "deleteTarget" /\ ~l.armed
              /\ l.id = lane[w].id /\ l.base = lane[w].base
              /\ l.verified = lane[w].verified /\ l.uid = lane[w].uid
      BY <1>2, <2>1, GotoFacts
  <2>3. lock = w => HoldOK(l) /\ (~late => HoldKube(l))
      BY <1>1, <2>2, LaneFacts
         DEF HoldOK, HoldKube, CopyPcs, SwitchPcs, CancelPcs, DeletePcs, Prepare
  <2> QED
      BY <1>1, <1>2, <2>2, <2>3, QuietIInv
<1>3. CASE Return(w)
    BY <1>1, <1>3, ReturnIInv
<1> QED
    BY <1>2, <1>3 DEF ObserveHealth

\* The current release is healthy: the original is deleted next.
LEMMA CheckReleaseIInv == ASSUME IInv, NEW w \in Lanes, CheckRelease(w) PROVE IInv'
<1>1. lane[w].pc = "check" /\ UNCHANGED <<db, lock, kube, late, faults>> /\ faults \in 0..MaxFaults
    BY DEF CheckRelease, IInv, TypeOK
<1>2. CASE CurrentHealthy(w)
  <2>1. "deleteOriginal" \in Pcs /\ Goto(w, "deleteOriginal")
      BY <1>2 DEF Pcs, CheckRelease
  <2>2. PICK l \in LaneState :
              /\ Moves(w, l) /\ l.pc = "deleteOriginal" /\ ~l.armed
              /\ l.id = lane[w].id /\ l.base = lane[w].base
              /\ l.verified = lane[w].verified /\ l.uid = lane[w].uid
      BY <2>1, GotoFacts
  <2>3. lock = w => HoldOK(l) /\ (~late => HoldKube(l))
      BY <1>1, <1>2, <2>2, LaneFacts
         DEF HoldOK, HoldKube, CopyPcs, SwitchPcs, CancelPcs, DeletePcs, Prepare, CurrentHealthy
  <2> QED
      BY <1>1, <2>2, <2>3, QuietIInv
<1>3. CASE ~CurrentHealthy(w)
    BY <1>1, <1>3, EndPassIInv DEF CheckRelease
<1> QED
    BY <1>2, <1>3

-----------------------------------------------------------------------------
(* Lanes: requests that land.                                              *)

\* The next state of a lane whose request landed and invalidated what others read.
LEMMA LandedFacts ==
    ASSUME IInv, NEW w \in Lanes, NEW pcs, NEW pc \in Pcs,
           lane' = [Overwritten(pcs) EXCEPT ![w] = [@ EXCEPT !.pc = pc, !.armed = FALSE]]
    PROVE  \E l \in LaneState :
              /\ Moves(w, l) /\ l.pc = pc /\ ~l.armed
              /\ l.id = lane[w].id /\ l.base = lane[w].base
              /\ l.verified = lane[w].verified /\ l.uid = lane[w].uid
<1>1. PICK f : f = Overwritten(pcs)
    OBVIOUS
<1>2. ASSUME NEW v \in Lanes PROVE f[v] \in LaneState /\ Alike(f[v], lane[v])
  <2>1. PICK m \in LaneState : m = lane[v]
      BY DEF IInv, TypeOK
  <2>2. [m EXCEPT !.fresh = FALSE] \in LaneState /\ Alike([m EXCEPT !.fresh = FALSE], m)
      BY DEF LaneState, Alike
  <2>3. f[v] = m \/ f[v] = [m EXCEPT !.fresh = FALSE]
      BY <1>1, <2>1 DEF Overwritten
  <2> QED
      BY <2>1, <2>2, <2>3 DEF Alike
<1>3. f \in [Lanes -> LaneState]
  <2>1. f = [v \in Lanes |-> f[v]]
      BY <1>1 DEF Overwritten
  <2> QED
      BY <1>2, <2>1
<1>4. PICK m \in LaneState : m = f[w]
    BY <1>3
<1>5. PICK l \in LaneState : l = [m EXCEPT !.pc = pc, !.armed = FALSE]
  <2>1. [m EXCEPT !.pc = pc, !.armed = FALSE] \in LaneState
      BY DEF LaneState
  <2> QED
      BY <2>1
<1>6. lane' = [f EXCEPT ![w] = l]
    BY <1>1, <1>3, <1>4, <1>5
<1>7. Moves(w, l)
  <2>1. lane' \in [Lanes -> LaneState] /\ lane'[w] = l /\ \A v \in Lanes \ {w} : lane'[v] = f[v]
      BY <1>3, <1>6
  <2> QED
      BY <1>2, <2>1 DEF Moves
<1>8. /\ l.pc = pc /\ ~l.armed /\ l.id = m.id /\ l.base = m.base
      /\ l.verified = m.verified /\ l.uid = m.uid
    BY <1>5 DEF LaneState
<1> QED
    BY <1>2, <1>4, <1>7, <1>8 DEF Alike

\* A request that lands, in time or late.
LEMMA RequestIInv ==
    ASSUME IInv, TypeOK', NEW w \in Lanes, NEW l \in LaneState, Moves(w, l), lane[w].pc # "idle",
           Lands(w), Recorded, QuotaOK',
           ~l.armed, l.pc # "idle", l.id = lane[w].id, l.base = lane[w].base,
           lock = w => HoldOK(l)',
           lock = w /\ ~late => OnTimeOK' /\ HoldKube(l)',
           lock = w /\ l.pc = "cancelled" => l.id \in deleted'
    PROVE  IInv'
<1>1. late' = (late \/ lock # w) /\ lock' = lock /\ UNCHANGED db
    BY DEF Lands, db
<1>2. resize' = resize
    BY <1>1, SameDb
<1>3. PassOK(l)'
    BY <1>2, LaneFacts DEF PassOK
<1>4. /\ late => late'
      /\ lock = w \/ late'
      /\ lock = w /\ ~late' => OnTimeOK'
      /\ lock' = w => HoldOK(l)' /\ (~late' => HoldKube(l)')
    BY <1>1
<1> QED
    BY <1>1, <1>3, <1>4, LaneIInv

\* What a lane that sends a request in time relies on.
LEMMA InTime ==
    ASSUME IInv, NEW w \in Lanes, lane[w].pc # "idle", lock = w
    PROVE  /\ HoldOK(lane[w]) /\ resize[lane[w].id].phase \in Blocking
           /\ \A k \in Ids : k # lane[w].id => resize[k].phase \notin Blocking
           /\ ~late => HoldKube(lane[w]) /\ OnTimeOK
BY LaneFacts, DbFacts DEF HoldOK, KubeOK

\* resizeQuota: the allowance of this resize, or of nobody.
LEMMA ResizeQuotaIInv == ASSUME IInv, NEW w \in Lanes, ResizeQuota(w) PROVE IInv'
<1>1. lane[w].pc = "quota" /\ TypeOK /\ faults \in 0..MaxFaults
    BY DbFacts DEF ResizeQuota, TypeOK
<1>2. ASSUME Goto(w, "claim"), UNCHANGED <<db, lock, kube, late, faults>> PROVE IInv'
  <2>1. "claim" \in Pcs
      BY DEF Pcs, Prepare
  <2>2. PICK l \in LaneState :
              /\ Moves(w, l) /\ l.pc = "claim" /\ ~l.armed
              /\ l.id = lane[w].id /\ l.base = lane[w].base
              /\ l.verified = lane[w].verified /\ l.uid = lane[w].uid
      BY <1>2, <2>1, GotoFacts
  <2>3. lock = w => HoldOK(l) /\ (~late => HoldKube(l))
      BY <1>1, <2>2, LaneFacts
         DEF HoldOK, HoldKube, CopyPcs, SwitchPcs, CancelPcs, DeletePcs, Prepare
  <2> QED
      BY <1>1, <1>2, <2>2, <2>3, QuietIInv
<1>3. ASSUME Goto(w, AfterError(w)), UNCHANGED <<db, lock, kube, late, faults>> PROVE IInv'
    BY <1>1, <1>3, AfterErrorIInv
<1>4. ASSUME quota.owner = 0, Lands(w), quota' = [owner |-> Id(w), extra |-> quota.extra + 1],
             lane' = [Overwritten({"quota"} \cup Removing) EXCEPT ![w] = [@ EXCEPT !.pc = "save", !.armed = FALSE]],
             UNCHANGED <<pvc, deleted, content, written, svc, pod, helper, faults>>
      PROVE  IInv'
  <2>1. "save" \in Pcs
      BY DEF Pcs
  <2>2. PICK l \in LaneState :
              /\ Moves(w, l) /\ l.pc = "save" /\ ~l.armed
              /\ l.id = lane[w].id /\ l.base = lane[w].base
              /\ l.verified = lane[w].verified /\ l.uid = lane[w].uid
      BY <1>4, <2>1, LandedFacts
  <2>3. PICK i \in Ids : i = lane[w].id /\ i \in Claims /\ i # 0
      BY <1>1, LaneFacts, Bounds
  <2>4. quota.extra = 0 /\ quota' = [owner |-> i, extra |-> 1]
      BY <1>4, <2>3 DEF Id, IInv, KubeOK, QuotaOK
  <2>5. QuotaOK' /\ Recorded /\ quota' \in [owner : Claims, extra : Nat]
      BY <1>4, <2>3, <2>4 DEF QuotaOK, Recorded
  <2>6. TypeOK' /\ late' \in BOOLEAN /\ UNCHANGED <<db, lock>>
    <3>1. late' \in BOOLEAN /\ UNCHANGED <<db, lock>>
        BY <1>1, <1>4 DEF Lands, TypeOK
    <3> QED
        BY <1>1, <1>4, <2>2, <2>5, <3>1 DEF TypeOK, Moves, db
  <2>7. revision' = revision /\ rows' = rows /\ resize' = resize /\ reserved' = reserved /\ Cur' = Cur
      BY <2>6, SameDb
  <2>8. ASSUME lock = w
        PROVE  HoldOK(l)' /\ (~late => OnTimeOK' /\ HoldKube(l)')
    <3>1. HoldOK(lane[w]) /\ resize[i].phase = "copying"
          /\ (~late => HoldKube(lane[w]) /\ OnTimeOK)
        BY <1>1, <2>3, <2>8, InTime DEF HoldOK, CopyPcs, Prepare
    <3>2. HoldOK(l)'
        BY <1>4, <2>2, <2>7, <3>1 DEF HoldOK, CopyPcs, SwitchPcs, CancelPcs, DeletePcs, Prepare
    <3>3. ~late => HoldKube(l)'
        BY <1>4, <2>2, <2>7, <3>1 DEF HoldKube, Stopped, Copied
    <3>4. ~late => OnTimeOK'
        BY <1>4, <2>4, <2>7, <3>1 DEF OnTimeOK, HelperOK, Stopped, Copied
    <3> QED
        BY <3>2, <3>3, <3>4
  <2> QED
      BY <1>1, <1>4, <2>2, <2>5, <2>6, <2>8, RequestIInv
<1> QED
    BY <1>2, <1>3, <1>4 DEF ResizeQuota

\* A request leaves the database alone.
LEMMA LandsFacts ==
    ASSUME IInv, NEW w \in Lanes, Lands(w)
    PROVE  /\ UNCHANGED db /\ UNCHANGED lock /\ late' \in BOOLEAN
           /\ revision' = revision /\ rows' = rows /\ resize' = resize /\ reserved' = reserved
           /\ Cur' = Cur
BY SameDb DEF Lands, IInv, TypeOK

\* The staging claim is created: it has been charged since the resize was accepted.
LEMMA CreateClaimIInv == ASSUME IInv, NEW w \in Lanes, CreateClaim(w) PROVE IInv'
<1>1. /\ lane[w].pc = "claim" /\ ~lane[w].uid /\ Lands(w) /\ TypeOK
      /\ UNCHANGED <<deleted, content, written, svc, pod, helper, quota>>
    BY DbFacts DEF CreateClaim
<1>2. PICK i \in Ids : i = lane[w].id /\ i \in Claims
    BY <1>1, LaneFacts, Bounds
<1>3. pvc' = [pvc EXCEPT ![i] = IF @ = "none" THEN "pending" ELSE @]
    BY <1>2 DEF CreateClaim, Id
<1>4. /\ UNCHANGED db /\ UNCHANGED lock /\ late' \in BOOLEAN
      /\ revision' = revision /\ rows' = rows /\ resize' = resize /\ reserved' = reserved /\ Cur' = Cur
    BY <1>1, LandsFacts
<1>5. /\ pvc' \in [Claims -> {"none", "pending", "bound"}]
      /\ \A c \in Claims : pvc'[c] = "none" => pvc[c] = "none"
      /\ \A c \in Claims \ {i} : pvc'[c] = pvc[c]
    BY <1>1, <1>2, <1>3 DEF TypeOK
<1>6. QuotaOK' /\ Recorded
    BY <1>1, <1>5 DEF QuotaOK, Recorded, IInv, KubeOK
<1>7. faults' \in 0..MaxFaults
  <2>1. faults \in 0..MaxFaults
      BY <1>1 DEF TypeOK
  <2> QED
      BY <2>1, FaultTypes DEF CreateClaim
<1>8. ASSUME lock = w
      PROVE  HoldOK(lane[w]) /\ resize[i].phase = "copying"
             /\ (~late => HoldKube(lane[w]) /\ OnTimeOK /\ i \in reserved) /\ ~lane[w].verified
    BY <1>1, <1>2, <1>8, InTime, CopyFacts DEF HoldOK, CopyPcs, Prepare, Staged
<1>9. ASSUME lock = w, ~late PROVE OnTimeOK'
    BY <1>1, <1>4, <1>5, <1>8, <1>9 DEF OnTimeOK, HelperOK, Stopped, Copied
<1>10. ASSUME NEW l \in LaneState, Moves(w, l), l.pc \in {"stop", "undo", "fail"}, ~l.armed,
              l.id = lane[w].id, l.base = lane[w].base, l.verified = lane[w].verified,
              l.pc = "stop" => l.uid
       PROVE  IInv'
  <2>1. TypeOK'
      BY <1>1, <1>4, <1>5, <1>7, <1>10 DEF TypeOK, Moves
  <2>2. lock = w => HoldOK(l)'
      BY <1>1, <1>2, <1>4, <1>8, <1>10
         DEF HoldOK, CopyPcs, SwitchPcs, CancelPcs, DeletePcs, Prepare
  <2>3. lock = w /\ ~late => HoldKube(l)'
      BY <1>1, <1>2, <1>4, <1>8, <1>10 DEF HoldKube
  <2> QED
      BY <1>1, <1>6, <1>9, <1>10, <2>1, <2>2, <2>3, RequestIInv
<1>11. CASE lane' = [lane EXCEPT ![w].uid = TRUE, ![w].pc = "stop", ![w].armed = FALSE]
  <2>1. PICK m \in LaneState : m = lane[w]
      BY <1>1, LaneFacts
  <2>2. PICK l \in LaneState : l = [m EXCEPT !.uid = TRUE, !.pc = "stop", !.armed = FALSE]
    <3>1. [m EXCEPT !.uid = TRUE, !.pc = "stop", !.armed = FALSE] \in LaneState
        BY DEF LaneState, Pcs, Prepare
    <3> QED
        BY <3>1
  <2>3. lane \in [Lanes -> LaneState] /\ lane' = [lane EXCEPT ![w] = l]
      BY <1>1, <1>11, <2>1, <2>2 DEF TypeOK
  <2>4. Moves(w, l)
      BY <2>3 DEF Moves, Alike
  <2>5. /\ l.pc = "stop" /\ ~l.armed /\ l.uid /\ l.id = m.id /\ l.base = m.base
        /\ l.verified = m.verified
      BY <2>2 DEF LaneState
  <2> QED
      BY <1>10, <2>1, <2>4, <2>5
<1>12. CASE Goto(w, AfterError(w))
  <2>1. PICK p \in {"undo", "fail"} : p = AfterError(w) /\ p \in Pcs
      BY DEF AfterError, Pcs, Removing
  <2>2. PICK l \in LaneState :
              /\ Moves(w, l) /\ l.pc = p /\ ~l.armed
              /\ l.id = lane[w].id /\ l.base = lane[w].base
              /\ l.verified = lane[w].verified /\ l.uid = lane[w].uid
      BY <1>12, <2>1, GotoFacts
  <2> QED
      BY <1>10, <2>1, <2>2
<1> QED
    BY <1>11, <1>12 DEF CreateClaim

\* The services are stopped: what was true of a stopped service stays true.
LEMMA StopServicesIInv == ASSUME IInv, NEW w \in Lanes, StopServices(w) PROVE IInv'
<1>1. lane[w].pc = "stop" /\ TypeOK /\ faults \in 0..MaxFaults /\ "drain" \in Pcs
    BY DbFacts DEF StopServices, TypeOK, Pcs, Prepare
<1>2. ASSUME svc.replicas = 0, Goto(w, "drain"), UNCHANGED <<db, lock, kube, late, faults>> PROVE IInv'
  <2>1. PICK l \in LaneState :
              /\ Moves(w, l) /\ l.pc = "drain" /\ ~l.armed
              /\ l.id = lane[w].id /\ l.base = lane[w].base
              /\ l.verified = lane[w].verified /\ l.uid = lane[w].uid
      BY <1>1, <1>2, GotoFacts
  <2>2. lock = w => HoldOK(l) /\ (~late => HoldKube(l))
      BY <1>1, <1>2, <2>1, LaneFacts
         DEF HoldOK, HoldKube, CopyPcs, SwitchPcs, CancelPcs, DeletePcs, Prepare
  <2> QED
      BY <1>1, <1>2, <2>1, <2>2, QuietIInv
<1>3. ASSUME Lands(w), svc' = [svc EXCEPT !.replicas = 0],
             lane' = [Overwritten({"stop", "undoResume", "resume"}) EXCEPT ![w] = [@ EXCEPT !.pc = "drain", !.armed = FALSE]],
             UNCHANGED <<pvc, deleted, content, written, pod, helper, quota, faults>>
      PROVE  IInv'
  <2>1. PICK l \in LaneState :
              /\ Moves(w, l) /\ l.pc = "drain" /\ ~l.armed
              /\ l.id = lane[w].id /\ l.base = lane[w].base
              /\ l.verified = lane[w].verified /\ l.uid = lane[w].uid
      BY <1>1, <1>3, LandedFacts
  <2>2. /\ UNCHANGED db /\ UNCHANGED lock /\ late' \in BOOLEAN
        /\ revision' = revision /\ rows' = rows /\ resize' = resize /\ reserved' = reserved /\ Cur' = Cur
      BY <1>3, LandsFacts
  <2>3. svc' \in [replicas : {0, 1}, claim : Claims] /\ svc'.replicas = 0
    <3>1. svc \in [replicas : {0, 1}, claim : Claims]
        BY <1>1 DEF TypeOK
    <3> QED
        BY <1>3, <3>1
  <2>4. TypeOK'
      BY <1>1, <1>3, <2>1, <2>2, <2>3 DEF TypeOK, Moves
  <2>5. QuotaOK' /\ Recorded
      BY <1>3 DEF QuotaOK, Recorded, IInv, KubeOK
  <2>6. Stopped => Stopped'
      BY <1>3, <2>3 DEF Stopped
  <2>7. ASSUME lock = w
        PROVE  HoldOK(l)' /\ (~late => OnTimeOK' /\ HoldKube(l)')
    <3>1. HoldOK(lane[w]) /\ (~late => HoldKube(lane[w]) /\ OnTimeOK)
        BY <1>1, <2>7, InTime
    <3>2. HoldOK(l)'
        BY <1>1, <1>3, <2>1, <2>2, <3>1
           DEF HoldOK, CopyPcs, SwitchPcs, CancelPcs, DeletePcs, Prepare
    <3>3. ~late => HoldKube(l)'
        BY <1>1, <1>3, <2>1, <2>2, <2>3, <3>1 DEF HoldKube, HoldOK
    <3>4. ~late => OnTimeOK'
        BY <1>3, <2>2, <2>3, <2>6, <3>1 DEF OnTimeOK, HelperOK, Copied
    <3> QED
        BY <3>2, <3>3, <3>4
  <2> QED
      BY <1>1, <1>3, <2>1, <2>4, <2>5, <2>7, RequestIInv
<1> QED
    BY <1>2, <1>3 DEF StopServices

\* The copy pod is created: the services have stopped.
LEMMA CreateHelperIInv == ASSUME IInv, NEW w \in Lanes, CreateHelper(w) PROVE IInv'
<1>1. lane[w].pc = "helper" /\ TypeOK /\ faults \in 0..MaxFaults /\ "report" \in Pcs
    BY DbFacts DEF CreateHelper, TypeOK, Pcs, Prepare
<1>2. ASSUME Goto(w, "report"), UNCHANGED <<db, lock, kube, late, faults>> PROVE IInv'
  <2>1. PICK l \in LaneState :
              /\ Moves(w, l) /\ l.pc = "report" /\ ~l.armed
              /\ l.id = lane[w].id /\ l.base = lane[w].base
              /\ l.verified = lane[w].verified /\ l.uid = lane[w].uid
      BY <1>1, <1>2, GotoFacts
  <2>2. lock = w => HoldOK(l) /\ (~late => HoldKube(l))
      BY <1>1, <2>1, LaneFacts
         DEF HoldOK, HoldKube, CopyPcs, SwitchPcs, CancelPcs, DeletePcs, Prepare
  <2> QED
      BY <1>1, <1>2, <2>1, <2>2, QuietIInv
<1>3. PICK i \in Ids : i = lane[w].id
    BY <1>1, LaneFacts
<1>4. ASSUME Lands(w), helper' = [helper EXCEPT ![i] = IF @ = "none" THEN "running" ELSE @],
             NEW p \in {"report", "undo", "fail"}, Goto(w, p),
             UNCHANGED <<pvc, deleted, content, written, svc, pod, quota, faults>>
      PROVE  IInv'
  <2>1. p \in Pcs
      BY DEF Pcs, Prepare, Removing
  <2>2. PICK l \in LaneState :
              /\ Moves(w, l) /\ l.pc = p /\ ~l.armed
              /\ l.id = lane[w].id /\ l.base = lane[w].base
              /\ l.verified = lane[w].verified /\ l.uid = lane[w].uid
      BY <1>4, <2>1, GotoFacts
  <2>3. /\ UNCHANGED db /\ UNCHANGED lock /\ late' \in BOOLEAN
        /\ revision' = revision /\ rows' = rows /\ resize' = resize /\ reserved' = reserved /\ Cur' = Cur
      BY <1>4, LandsFacts
  <2>4. /\ helper' \in [Ids -> {"none", "running", "succeeded", "failed", "terminating"}]
        /\ \A k \in Ids \ {i} : helper'[k] = helper[k]
        /\ helper'[i] = helper[i] \/ helper'[i] = "running"
      BY <1>1, <1>4 DEF TypeOK
  <2>5. TypeOK'
      BY <1>1, <1>4, <2>2, <2>3, <2>4 DEF TypeOK, Moves
  <2>6. QuotaOK' /\ Recorded
      BY <1>4 DEF QuotaOK, Recorded, IInv, KubeOK
  <2>7. ASSUME lock = w
        PROVE  HoldOK(l)' /\ (~late => OnTimeOK' /\ HoldKube(l)')
    <3>1. /\ HoldOK(lane[w]) /\ resize[i].phase = "copying" /\ ~resize[i].verified
          /\ ~late => HoldKube(lane[w]) /\ OnTimeOK /\ Stopped
        BY <1>1, <1>3, <2>7, InTime DEF HoldOK, HoldKube, CopyPcs, Prepare
    <3>2. HoldOK(l)'
        BY <1>1, <1>4, <2>2, <2>3, <3>1
           DEF HoldOK, CopyPcs, SwitchPcs, CancelPcs, DeletePcs, Prepare
    <3>3. ~late => HoldKube(l)'
        BY <1>1, <2>2, <2>3, <3>1 DEF HoldKube, HoldOK
    <3>4. ASSUME ~late PROVE OnTimeOK'
      <4>1. HelperOK(i)'
        <5>1. HelperOK(i)
            BY <3>1, <3>4 DEF OnTimeOK
        <5> QED
            BY <1>4, <2>3, <2>4, <3>1, <3>4, <5>1 DEF HelperOK, Stopped, Switched
      <4>2. \A k \in Ids \ {i} : HelperOK(k)'
          BY <1>4, <2>3, <2>4, <3>1, <3>4 DEF OnTimeOK, HelperOK, Stopped, Copied
      <4> QED
          BY <1>4, <2>3, <3>1, <3>4, <4>1, <4>2 DEF OnTimeOK
    <3> QED
        BY <3>2, <3>3, <3>4
  <2> QED
      BY <1>1, <1>4, <2>2, <2>5, <2>6, <2>7, RequestIInv
<1>5. AfterError(w) \in {"undo", "fail"}
    BY DEF AfterError
<1> QED
    BY <1>2, <1>3, <1>4, <1>5 DEF CreateHelper, Id

\* The copy pod is deleted: a copy that was verified stays.
LEMMA DeleteHelperIInv == ASSUME IInv, NEW w \in Lanes, DeleteHelper(w) PROVE IInv'
<1>1. /\ lane[w].pc \in Removing /\ lane[w].pc # "idle" /\ Lands(w) /\ TypeOK
      /\ UNCHANGED <<pvc, deleted, content, written, svc, pod, quota, faults>> /\ NotGone(w)
    BY DbFacts DEF DeleteHelper, Removing
<1>2. PICK i \in Ids : i = lane[w].id
    BY <1>1, LaneFacts
<1>3. helper' = [helper EXCEPT ![i] = "terminating"]
    BY <1>2 DEF DeleteHelper, Id
<1>4. PICK p \in {"save", "fail"} : Goto(w, p) /\ p \in Pcs
    BY <1>1 DEF NotGone, Pcs
<1>5. PICK l \in LaneState :
              /\ Moves(w, l) /\ l.pc = p /\ ~l.armed
              /\ l.id = lane[w].id /\ l.base = lane[w].base
              /\ l.verified = lane[w].verified /\ l.uid = lane[w].uid
    BY <1>4, GotoFacts
<1>6. /\ UNCHANGED db /\ UNCHANGED lock /\ late' \in BOOLEAN
      /\ revision' = revision /\ rows' = rows /\ resize' = resize /\ reserved' = reserved /\ Cur' = Cur
    BY <1>1, LandsFacts
<1>7. /\ helper' \in [Ids -> {"none", "running", "succeeded", "failed", "terminating"}]
      /\ \A k \in Ids \ {i} : helper'[k] = helper[k]
      /\ helper'[i] = "terminating"
    BY <1>1, <1>3 DEF TypeOK
<1>8. TypeOK'
    BY <1>1, <1>5, <1>6, <1>7 DEF TypeOK, Moves
<1>9. QuotaOK' /\ Recorded
    BY <1>1 DEF QuotaOK, Recorded, IInv, KubeOK
<1>10. ASSUME lock = w
       PROVE  HoldOK(l)' /\ (~late => OnTimeOK' /\ HoldKube(l)')
  <2>1. HoldOK(lane[w]) /\ (~late => HoldKube(lane[w]) /\ OnTimeOK)
        /\ resize[i].phase \notin {"absent", "queued"}
      BY <1>1, <1>2, <1>10, InTime, LaneFacts DEF PassOK
  <2>2. HoldOK(l)'
      BY <1>1, <1>4, <1>5, <1>6, <2>1
         DEF HoldOK, CopyPcs, SwitchPcs, CancelPcs, DeletePcs, Prepare
  <2>3. ~late => HoldKube(l)'
      BY <1>1, <1>2, <1>4, <1>5, <1>6, <1>7, <2>1 DEF HoldKube, Stopped, Copied
  <2>4. ASSUME ~late PROVE OnTimeOK'
    <3>1. HelperOK(i)'
      <4>1. HelperOK(i)
          BY <2>1, <2>4 DEF OnTimeOK
      <4> QED
          BY <1>1, <1>6, <1>7, <2>1, <4>1 DEF HelperOK, Stopped, Copied, Present
    <3>2. \A k \in Ids \ {i} : HelperOK(k)'
        BY <1>1, <1>6, <1>7, <2>1, <2>4 DEF OnTimeOK, HelperOK, Stopped, Copied
    <3> QED
        BY <1>1, <1>6, <2>1, <2>4, <3>1, <3>2 DEF OnTimeOK
  <2> QED
      BY <2>2, <2>3, <2>4
<1> QED
    BY <1>1, <1>4, <1>5, <1>8, <1>9, <1>10, RequestIInv

\* The copy pod is gone and the allowance is taken back: the pass goes on.
LEMMA HelperGoneIInv == ASSUME IInv, NEW w \in Lanes, HelperGone(w) PROVE IInv'
<1>1. lane[w].pc \in Removing /\ lane[w].pc # "idle" /\ TypeOK /\ faults \in 0..MaxFaults
    BY DbFacts DEF HelperGone, Removing, TypeOK
<1>2. PICK i \in Ids : i = lane[w].id /\ helper[i] = "none"
    BY <1>1, LaneFacts DEF HelperGone, Id
<1>3. PICK p \in {"undoResume", "cut", "save", "resume"} :
         /\ p = Gone(w) /\ p \in Pcs
         /\ p = "undoResume" => lane[w].pc = "undo"
         /\ p = "cut" => lane[w].pc = "finish"
         /\ p = "resume" => lane[w].pc = "cancel"
    BY <1>1 DEF Gone, Removing, Pcs
<1>4. ASSUME NEW l \in LaneState, l.pc = p, l.id = lane[w].id, l.base = lane[w].base,
             l.verified = lane[w].verified, l.uid = lane[w].uid, lock = w
      PROVE  HoldOK(l)
  <2>1. HoldOK(lane[w])
      BY <1>1, <1>4, LaneFacts
  <2> QED
      BY <1>3, <1>4, <2>1
         DEF HoldOK, CopyPcs, SwitchPcs, CancelPcs, DeletePcs, Prepare
<1>5. ASSUME quota.owner = 0, Goto(w, Gone(w)), UNCHANGED <<db, lock, kube, late, faults>> PROVE IInv'
  <2>1. PICK l \in LaneState :
              /\ Moves(w, l) /\ l.pc = p /\ ~l.armed
              /\ l.id = lane[w].id /\ l.base = lane[w].base
              /\ l.verified = lane[w].verified /\ l.uid = lane[w].uid
      BY <1>3, <1>5, GotoFacts
  <2>2. lock = w => HoldOK(l)
      BY <1>4, <2>1
  <2>3. lock = w /\ ~late => HoldKube(l)
      BY <1>1, <1>2, <1>3, <1>5, <2>1, LaneFacts DEF HoldKube
  <2> QED
      BY <1>1, <1>3, <1>5, <2>1, <2>2, <2>3, QuietIInv
<1>6. ASSUME Lands(w), quota' = RestoredQuota,
             lane' = [Overwritten({"quota"} \cup Removing) EXCEPT ![w] = [@ EXCEPT !.pc = Gone(w), !.armed = FALSE]],
             UNCHANGED <<pvc, deleted, content, written, svc, pod, helper, faults>>
      PROVE  IInv'
  <2>1. PICK l \in LaneState :
              /\ Moves(w, l) /\ l.pc = p /\ ~l.armed
              /\ l.id = lane[w].id /\ l.base = lane[w].base
              /\ l.verified = lane[w].verified /\ l.uid = lane[w].uid
      BY <1>3, <1>6, LandedFacts
  <2>2. /\ UNCHANGED db /\ UNCHANGED lock /\ late' \in BOOLEAN
        /\ revision' = revision /\ rows' = rows /\ resize' = resize /\ reserved' = reserved /\ Cur' = Cur
      BY <1>6, LandsFacts
  <2>3. quota'.owner = 0 /\ quota'.extra = 0 /\ quota' \in [owner : Claims, extra : Nat]
      BY <1>6, Bounds DEF RestoredQuota
  <2>4. QuotaOK' /\ Recorded
      BY <1>6, <2>3 DEF QuotaOK, Recorded
  <2>5. TypeOK'
      BY <1>1, <1>6, <2>1, <2>2, <2>3 DEF TypeOK, Moves
  <2>6. ASSUME lock = w
        PROVE  HoldOK(l)' /\ (~late => OnTimeOK' /\ HoldKube(l)')
    <3>1. HoldOK(l) /\ (~late => HoldKube(lane[w]) /\ OnTimeOK)
        BY <1>1, <1>4, <2>1, <2>6, InTime
    <3>2. HoldOK(l)'
        BY <1>6, <2>2, <3>1 DEF HoldOK
    <3>3. ~late => HoldKube(l)'
        BY <1>1, <1>2, <1>3, <1>6, <2>1, <2>2, <2>3, <3>1 DEF HoldKube, Stopped, Copied
    <3>4. ~late => OnTimeOK'
        BY <1>6, <2>2, <2>3, <3>1 DEF OnTimeOK, HelperOK, Stopped, Copied
    <3> QED
        BY <3>2, <3>3, <3>4
  <2> QED
      BY <1>1, <1>3, <1>6, <2>1, <2>4, <2>5, <2>6, RequestIInv
<1>7. ASSUME Goto(w, "fail"), UNCHANGED <<db, lock, kube, late, faults>> PROVE IInv'
    BY <1>1, <1>7, EndPassIInv
<1> QED
    BY <1>5, <1>6, <1>7 DEF HelperGone

\* The services resume on the source, which is still the current claim; no copy pod
\* is there, or the resize is cancelled.
LEMMA ResumeResizeServicesIInv == ASSUME IInv, NEW w \in Lanes, ResumeResizeServices(w) PROVE IInv'
<1>1. lane[w].pc \in {"undoResume", "resume"} /\ TypeOK /\ faults \in 0..MaxFaults
    BY DbFacts DEF ResumeResizeServices, TypeOK
<1>2. PICK i \in Ids : i = lane[w].id
    BY <1>1, LaneFacts
<1>3. PICK p \in {"fail", "health"} : /\ p = IF lane[w].pc = "undoResume" THEN "fail" ELSE "health"
                                      /\ p \in Pcs
    BY DEF Pcs
<1>4. ASSUME NEW l \in LaneState, l.pc = p, l.id = lane[w].id, l.base = lane[w].base,
             l.verified = lane[w].verified, l.uid = lane[w].uid, lock = w
      PROVE  HoldOK(l)
  <2>1. HoldOK(lane[w])
      BY <1>1, <1>4, LaneFacts
  <2> QED
      BY <1>1, <1>3, <1>4, <2>1
         DEF HoldOK, CopyPcs, SwitchPcs, CancelPcs, DeletePcs, Prepare
<1>5. ASSUME Goto(w, p), UNCHANGED <<db, lock, kube, late, faults>> PROVE IInv'
  <2>1. PICK l \in LaneState :
              /\ Moves(w, l) /\ l.pc = p /\ ~l.armed
              /\ l.id = lane[w].id /\ l.base = lane[w].base
              /\ l.verified = lane[w].verified /\ l.uid = lane[w].uid
      BY <1>3, <1>5, GotoFacts
  <2>2. lock = w => HoldOK(l)
      BY <1>4, <2>1
  <2>3. lock = w /\ ~late => HoldKube(l)
      BY <1>1, <1>3, <2>1, LaneFacts DEF HoldKube
  <2> QED
      BY <1>1, <1>3, <1>5, <2>1, <2>2, <2>3, QuietIInv
<1>6. ASSUME Goto(w, "fail"), UNCHANGED <<db, lock, kube, late, faults>> PROVE IInv'
    BY <1>1, <1>6, EndPassIInv
<1>7. ASSUME Lands(w), svc.claim = Source(w), svc' = [svc EXCEPT !.replicas = 1],
             lane' = [Overwritten({"stop", "undoResume", "resume"}) EXCEPT ![w] = [@ EXCEPT !.pc = p, !.armed = FALSE]],
             UNCHANGED <<pvc, deleted, content, written, pod, helper, quota, faults>>
      PROVE  IInv'
  <2>1. PICK l \in LaneState :
              /\ Moves(w, l) /\ l.pc = p /\ ~l.armed
              /\ l.id = lane[w].id /\ l.base = lane[w].base
              /\ l.verified = lane[w].verified /\ l.uid = lane[w].uid
    <3>1. lane' = [Overwritten({"stop", "undoResume", "resume"}) EXCEPT ![w] = [@ EXCEPT !.pc = p, !.armed = FALSE]]
        BY <1>7
    <3>2. p \in Pcs
        BY <1>3
    <3> QED
        BY <3>1, <3>2, LandedFacts
  <2>2. /\ UNCHANGED db /\ UNCHANGED lock /\ late' \in BOOLEAN
        /\ revision' = revision /\ rows' = rows /\ resize' = resize /\ reserved' = reserved /\ Cur' = Cur
      BY <1>7, LandsFacts
  <2>3. svc' \in [replicas : {0, 1}, claim : Claims] /\ svc'.claim = svc.claim
    <3>1. svc \in [replicas : {0, 1}, claim : Claims]
        BY <1>1 DEF TypeOK
    <3> QED
        BY <1>7, <3>1
  <2>4. TypeOK'
      BY <1>1, <1>7, <2>1, <2>2, <2>3 DEF TypeOK, Moves
  <2>5. QuotaOK' /\ Recorded
      BY <1>7 DEF QuotaOK, Recorded, IInv, KubeOK
  <2>6. ASSUME lock = w
        PROVE  HoldOK(l)' /\ (~late => OnTimeOK' /\ HoldKube(l)')
    <3>1. HoldOK(l) /\ HoldOK(lane[w]) /\ (~late => HoldKube(lane[w]) /\ OnTimeOK)
          /\ \A k \in Ids \ {i} : resize[k].phase \notin Blocking
        BY <1>1, <1>2, <1>4, <2>1, <2>6, InTime
    <3>2. HoldOK(l)'
        BY <1>7, <2>2, <3>1 DEF HoldOK
    <3>3. /\ lane[w].pc = "undoResume" => resize[i].phase = "copying" /\ ~lane[w].verified
                                          /\ (~late => helper[i] = "none")
          /\ lane[w].pc = "resume" => resize[i].phase = "cancelling"
        BY <1>2, <3>1 DEF HoldOK, HoldKube, CopyPcs, CancelPcs
    <3>4. resize[i].claim = Cur
        BY <1>1, <3>3, CopyFacts DEF Staged
    <3>5. ~late => HoldKube(l)'
        BY <1>1, <1>2, <1>3, <1>7, <2>1, <2>2, <3>1, <3>3 DEF HoldKube, CancelPcs
    <3>6. ASSUME ~late PROVE OnTimeOK'
      <4>1. svc'.claim = Cur
          BY <1>2, <1>7, <2>3, <3>4 DEF Source, Id
      <4>2. HelperOK(i)'
        <5>1. HelperOK(i) /\ (resize[i].phase = "copying" => ~resize[i].verified /\ helper[i] = "none")
            BY <1>1, <1>2, <3>1, <3>3, <3>6 DEF OnTimeOK, HoldOK
        <5> QED
            BY <1>7, <2>2, <5>1 DEF HelperOK, Present
      <4>3. \A k \in Ids \ {i} : HelperOK(k)'
          BY <1>7, <2>2, <3>1, <3>6 DEF OnTimeOK, HelperOK, Blocking
      <4> QED
          BY <1>7, <2>2, <3>1, <3>6, <4>1, <4>2, <4>3 DEF OnTimeOK
    <3> QED
        BY <3>2, <3>5, <3>6
  <2> QED
      BY <1>1, <1>3, <1>7, <2>1, <2>4, <2>5, <2>6, RequestIInv
<1> QED
    BY <1>3, <1>5, <1>6, <1>7 DEF ResumeResizeServices

\* The new revision is applied on the copy, which is the current claim now.
LEMMA DeployTargetIInv == ASSUME IInv, NEW w \in Lanes, DeployTarget(w) PROVE IInv'
<1>1. lane[w].pc = "deploy" /\ TypeOK /\ Lands(w) /\ faults' = faults /\ "applied" \in Pcs
    BY DbFacts DEF DeployTarget, Pcs
<1>2. PICK i \in Ids : i = lane[w].id /\ Apply(i) /\ pvc[i] # "none" /\ i \in Claims
    BY <1>1, LaneFacts, Bounds DEF DeployTarget, Id
<1>3. PICK l \in LaneState :
              /\ Moves(w, l) /\ l.pc = "applied" /\ ~l.armed
              /\ l.id = lane[w].id /\ l.base = lane[w].base
              /\ l.verified = lane[w].verified /\ l.uid = lane[w].uid
  <2>1. lane' = [Overwritten({"stop", "undoResume", "resume"}) EXCEPT ![w] = [@ EXCEPT !.pc = "applied", !.armed = FALSE]]
      BY DEF DeployTarget
  <2>2. "applied" \in Pcs
      BY <1>1
  <2> QED
      BY <2>1, <2>2, LandedFacts
<1>4. /\ UNCHANGED db /\ UNCHANGED lock /\ late' \in BOOLEAN
      /\ revision' = revision /\ rows' = rows /\ resize' = resize /\ reserved' = reserved /\ Cur' = Cur
    BY <1>1, LandsFacts
<1>5. /\ pvc' \in [Claims -> {"none", "pending", "bound"}]
      /\ svc' = [replicas |-> 1, claim |-> i] /\ svc' \in [replicas : {0, 1}, claim : Claims]
      /\ UNCHANGED <<deleted, content, written, pod, helper, quota>>
    BY <1>1, <1>2, ApplyTypes DEF Apply
<1>6. pvc' = pvc
    BY <1>1, <1>2 DEF Apply, TypeOK
<1>7. TypeOK'
    BY <1>1, <1>3, <1>4, <1>5 DEF TypeOK, Moves
<1>8. QuotaOK' /\ Recorded
    BY <1>5, <1>6 DEF QuotaOK, Recorded, IInv, KubeOK
<1>9. ASSUME lock = w
      PROVE  HoldOK(l)' /\ (~late => OnTimeOK' /\ HoldKube(l)')
  <2>1. /\ HoldOK(lane[w]) /\ resize[i].phase = "switching" /\ Cur = i
        /\ ~late => HoldKube(lane[w]) /\ OnTimeOK
        /\ \A k \in Ids \ {i} : resize[k].phase \notin Blocking
      BY <1>1, <1>2, <1>9, InTime, DbFacts DEF HoldOK, SwitchPcs, ResizeOK
  <2>2. HoldOK(l)'
      BY <1>2, <1>3, <1>4, <1>5, <2>1
         DEF HoldOK, CopyPcs, SwitchPcs, CancelPcs, DeletePcs, Prepare
  <2>3. ~late => HoldKube(l)'
      BY <1>2, <1>3, <1>4, <2>1 DEF HoldKube
  <2>4. ASSUME ~late PROVE OnTimeOK'
    <3>1. \A k \in Ids : HelperOK(k)'
        BY <1>4, <1>5, <2>1, <2>4 DEF OnTimeOK, HelperOK, Blocking
    <3> QED
        BY <1>4, <1>5, <1>6, <2>1, <2>4, <3>1 DEF OnTimeOK
  <2> QED
      BY <2>2, <2>3, <2>4
<1> QED
    BY <1>1, <1>3, <1>7, <1>8, <1>9, RequestIInv

\* What DeleteVolumes deletes, whether or not the lane still has the lock, is not
\* the current claim, and the current release has succeeded.
LEMMA DeletedUnused ==
    ASSUME IInv, NEW w \in Lanes, NEW c \in Claims,
           lane[w].pc \in {"deleteTarget", "deleteOriginal"}, lane[w].armed, c \notin deleted,
           c = IF lane[w].pc = "deleteTarget" THEN lane[w].id ELSE resize[lane[w].id].claim
    PROVE  /\ c # Cur /\ rows[revision].status = "succeeded"
           /\ \A k \in Ids : resize[k].phase # "copying"
<1>1. PassOK(lane[w]) /\ lane[w].id \in Ids
    BY LaneFacts
<1>2. CASE lane[w].pc = "deleteTarget"
  <2>1. resize[c].phase = "cancelling" /\ c \in Ids
      BY <1>1, <1>2 DEF PassOK
  <2>2. Cur # c /\ rows[revision].status = "succeeded"
      BY <2>1, CopyFacts DEF Staged
  <2>3. \A k \in Ids : resize[k].phase # "copying"
      BY <2>1, DbFacts DEF Blocking
  <2> QED
      BY <2>2, <2>3
<1>3. CASE lane[w].pc = "deleteOriginal"
  <2>1. PICK i \in Ids : i = lane[w].id /\ c = resize[i].claim
      BY <1>1, <1>3
  <2>2. resize[i].phase = "deleting_original" /\ rows[revision].status = "succeeded"
      BY <1>1, <1>3, <2>1 DEF PassOK
  <2>3. c \in Retired
      BY <2>1, <2>2 DEF Retired, Switched
  <2>4. \A k \in Ids : resize[k].phase # "copying"
      BY <2>2, DbFacts DEF Blocking
  <2> QED
      BY <2>2, <2>3, <2>4, DbFacts
<1> QED
    BY <1>2, <1>3

\* A volume is deleted, or is found gone.
LEMMA DeleteVolumeIInv == ASSUME IInv, NEW w \in Lanes, DeleteVolume(w) PROVE IInv'
<1>1. lane[w].pc \in {"deleteTarget", "deleteOriginal"} /\ TypeOK /\ faults \in 0..MaxFaults
    BY DbFacts DEF DeleteVolume, TypeOK
<1>2. PICK i \in Ids : i = lane[w].id /\ i \in Claims
    BY <1>1, LaneFacts, Bounds
<1>3. PICK c \in Claims : /\ c = IF lane[w].pc = "deleteTarget" THEN i ELSE resize[i].claim
                          /\ c = IF lane[w].pc = "deleteTarget" THEN Id(w) ELSE Source(w)
    BY <1>2, DbFacts DEF Id, Source, Resize
<1>4. PICK p \in {"cancelled", "completed"} :
         p = (IF lane[w].pc = "deleteTarget" THEN "cancelled" ELSE "completed") /\ p \in Pcs
    BY DEF Pcs
<1>5. /\ lane[w].pc = "deleteTarget" => p = "cancelled" /\ c = i
      /\ lane[w].pc = "deleteOriginal" => p = "completed" /\ c = resize[i].claim
    BY <1>3, <1>4
<1>6. ASSUME NEW l \in LaneState, l.pc = p, l.id = i, l.base = lane[w].base,
             l.verified = lane[w].verified, l.uid = lane[w].uid, lock = w,
             p = "completed" => c \in deleted'
      PROVE  HoldOK(l)' \/ resize' # resize \/ revision' # revision \/ rows' # rows
  <2>1. HoldOK(lane[w])
      BY <1>1, <1>6, LaneFacts
  <2> QED
      BY <1>1, <1>2, <1>5, <1>6, <2>1
         DEF HoldOK, CopyPcs, SwitchPcs, CancelPcs, DeletePcs, Prepare
<1>7. ASSUME NEW l \in LaneState, l.pc = p, l.id = i, lock = w, ~late,
             l.verified = lane[w].verified, pvc'[c] = "none"
      PROVE  HoldKube(l)' \/ resize' # resize \/ quota' # quota
  <2>1. HoldKube(lane[w]) /\ HoldOK(lane[w])
      BY <1>1, <1>7, LaneFacts
  <2>2. resize[i].phase # "copying"
      BY <1>1, <1>2, <2>1 DEF HoldOK, CancelPcs, DeletePcs
  <2> QED
      BY <1>1, <1>2, <1>5, <1>7, <2>1, <2>2 DEF HoldKube
<1>8. ASSUME pvc[c] = "none", Goto(w, p), UNCHANGED <<db, lock, kube, late, faults>> PROVE IInv'
  <2>1. PICK l \in LaneState :
              /\ Moves(w, l) /\ l.pc = p /\ ~l.armed
              /\ l.id = lane[w].id /\ l.base = lane[w].base
              /\ l.verified = lane[w].verified /\ l.uid = lane[w].uid
      BY <1>4, <1>8, GotoFacts
  <2>2. UNCHANGED <<revision, rows, resize>> /\ UNCHANGED <<pvc, deleted, svc, pod, helper, quota, content, written>>
      BY <1>8 DEF db, kube
  <2>3. p = "completed" => c \in deleted
    <3>1. SourceOK(i) /\ resize[i].phase # "absent"
        BY <1>1, <1>2, LaneFacts DEF IInv, KubeOK, PassOK
    <3> QED
        BY <1>1, <1>5, <1>8, <3>1 DEF SourceOK
  <2>4. lock = w => HoldOK(l)
      BY <1>2, <1>6, <2>1, <2>2, <2>3 DEF HoldOK
  <2>5. lock = w /\ ~late => HoldKube(l)
      BY <1>2, <1>7, <1>8, <2>1, <2>2 DEF HoldKube, Stopped, Copied
  <2>6. l.pc = "cancelled" => l.id \in deleted \/ \A v \in Lanes : ~Deletes(lane[v], l.id)
    <3> SUFFICES ASSUME l.pc = "cancelled", NEW v \in Lanes, Deletes(lane[v], i) PROVE i \in deleted
        BY <1>2, <2>1
    <3>1. c = i /\ pvc[i] = "none"
        BY <1>1, <1>5, <1>8, <2>1
    <3>2. PassOK(lane[v]) /\ lane[v].pc = "deleteTarget" /\ lane[v].armed /\ lane[v].id = i
        BY LaneFacts DEF Deletes
    <3> QED
        BY <3>1, <3>2 DEF PassOK
  <2> QED
      BY <1>1, <1>4, <1>8, <2>1, <2>4, <2>5, <2>6, QuietIInv
<1>9. ASSUME Deletable(w, c), Lands(w), Goto(w, p),
             pvc' = [pvc EXCEPT ![c] = "none"], deleted' = deleted \cup {c},
             content' = [content EXCEPT ![c] = 0],
             UNCHANGED <<written, svc, pod, helper, quota, faults>>
      PROVE  IInv'
  <2>1. PICK l \in LaneState :
              /\ Moves(w, l) /\ l.pc = p /\ ~l.armed
              /\ l.id = lane[w].id /\ l.base = lane[w].base
              /\ l.verified = lane[w].verified /\ l.uid = lane[w].uid
      BY <1>4, <1>9, GotoFacts
  <2>2. /\ UNCHANGED db /\ UNCHANGED lock /\ late' \in BOOLEAN
        /\ revision' = revision /\ rows' = rows /\ resize' = resize /\ reserved' = reserved /\ Cur' = Cur
      BY <1>9, LandsFacts
  <2>3. c \notin deleted /\ lane[w].armed
      BY <1>9 DEF Deletable, Lands
  <2>4. c # Cur /\ \A k \in Ids : resize[k].phase # "copying"
      BY <1>1, <1>2, <1>3, <2>3, DeletedUnused
  <2>5. /\ pvc' \in [Claims -> {"none", "pending", "bound"}]
        /\ content' \in [Claims -> 0..MaxWrites] /\ deleted' \subseteq Claims
        /\ pvc'[c] = "none"
        /\ \A d \in Claims \ {c} : pvc'[d] = pvc[d] /\ content'[d] = content[d]
      BY <1>1, <1>9, Bounds DEF TypeOK
  <2>6. TypeOK'
      BY <1>1, <1>9, <2>1, <2>2, <2>5 DEF TypeOK, Moves
  <2>7. QuotaOK' /\ Recorded
      BY <1>9, <2>5 DEF QuotaOK, Recorded, IInv, KubeOK
  <2>8. lock = w => HoldOK(l)'
      BY <1>2, <1>6, <1>9, <2>1, <2>2
  <2>9. lock = w /\ ~late => HoldKube(l)'
      BY <1>2, <1>7, <1>9, <2>1, <2>2, <2>5
  <2>10. ASSUME ~late PROVE OnTimeOK'
    <3>1. OnTimeOK
        BY <2>10 DEF IInv, KubeOK
    <3>2. content'[Cur] = written
        BY <2>4, <2>5, <3>1, DbFacts DEF OnTimeOK
    <3>3. \A k \in Ids : HelperOK(k)'
        BY <1>9, <2>2, <2>4, <3>1 DEF OnTimeOK, HelperOK
    <3> QED
        BY <1>9, <2>2, <2>5, <3>1, <3>2, <3>3 DEF OnTimeOK
  <2>11. l.pc = "cancelled" => l.id \in deleted'
      BY <1>1, <1>2, <1>5, <1>9, <2>1
  <2>12. lane[w].pc # "idle" /\ l.pc # "idle"
      BY <1>1, <2>1
  <2> QED
      BY <1>9, <2>1, <2>6, <2>7, <2>8, <2>9, <2>10, <2>11, <2>12, RequestIInv
<1>10. ASSUME Goto(w, "fail"), UNCHANGED <<db, lock, kube, late, faults>> PROVE IInv'
    BY <1>1, <1>10, EndPassIInv
<1> QED
    BY <1>3, <1>4, <1>8, <1>9, <1>10 DEF DeleteVolume

-----------------------------------------------------------------------------
(* The theorems.                                                           *)

\* Every step of a pass keeps the invariant.
LEMMA LaneStepIInv == ASSUME IInv, NEW w \in Lanes, LaneStep(w) PROVE IInv'
<1>1. ASSUME NEW i \in Ids, ClaimVolumeResize(w, i) PROVE IInv'
    BY <1>1, ClaimVolumeResizeIInv
<1>2. ASSUME NEW ok \in BOOLEAN, NEW attempt \in BOOLEAN, CutoverResult(w, ok, attempt) PROVE IInv'
    BY <1>2, CutoverResultIInv
<1>3. CASE Arm(w) \/ Save(w)
    BY <1>3, ArmIInv, SaveIInv
<1>4. CASE CheckFails(w) \/ SessionGone(w) \/ Conflict(w) \/ ClaimMissing(w) \/ HelperStays(w)
    BY <1>4, EndStepsIInv
<1>5. CASE ResizeQuota(w) \/ AdoptClaim(w) \/ CreateClaim(w) \/ StopServices(w) \/ Drain(w)
    BY <1>5, ResizeQuotaIInv, AdoptClaimIInv, CreateClaimIInv, StopServicesIInv, DrainIInv
<1>6. CASE CreateHelper(w) \/ ReadReport(w) \/ DeleteHelper(w) \/ HelperGone(w)
    BY <1>6, CreateHelperIInv, ReadReportIInv, DeleteHelperIInv, HelperGoneIInv
<1>7. CASE ResumeResizeServices(w) \/ BeginCutover(w) \/ DeployTarget(w)
    BY <1>7, ResumeResizeServicesIInv, BeginCutoverIInv, DeployTargetIInv
<1>8. CASE ObserveHealth(w) \/ DeleteVolume(w) \/ CheckRelease(w) \/ Reclaimed(w)
    BY <1>8, ObserveHealthIInv, DeleteVolumeIInv, CheckReleaseIInv, ReclaimedIInv
<1> QED
    BY <1>1, <1>2, <1>3, <1>4, <1>5, <1>6, <1>7, <1>8 DEF LaneStep

\* Every step keeps the invariant.
LEMMA NextIInv == IInv /\ [Next]_vars => IInv'
<1> SUFFICES ASSUME IInv, [Next]_vars PROVE IInv'
    OBVIOUS
<1>1. CASE User
    BY <1>1, StartVolumeResizeIInv, UserResizeIInv, AcceptIInv, ResumeDeploymentIInv DEF User
<1>2. CASE DeployStep
    BY <1>2, DeployClaimIInv, DeployApplyIInv, DeployEndIInv DEF DeployStep
<1>3. CASE Outside
    BY <1>3, PodStartsIInv, PodStopsIInv, BindIInv, HelperTerminatesIInv, CopyEndsIInv DEF Outside
<1>4. CASE Write
    BY <1>4, WriteIInv
<1>5. ASSUME NEW w \in Lanes, LaneStep(w) PROVE IInv'
    BY <1>5, LaneStepIInv
<1>6. ASSUME NEW w \in Lanes, RequestFails(w) \/ DeployConflict(w) \/ SessionLost(w) \/ Crash(w)
      PROVE  IInv'
    BY <1>6, EndStepsIInv, SessionLostIInv
<1>7. ASSUME NEW i \in Ids, Revoke(i) PROVE IInv'
    BY <1>7, RevokeIInv
<1>8. CASE UNCHANGED vars
  <2>1. UNCHANGED <<db, lock, lane, kube, late, faults>>
      BY <1>8 DEF vars
  <2>2. revision' = revision /\ rows' = rows /\ resize' = resize /\ reserved' = reserved
        /\ Cur' = Cur /\ DbOK'
      BY <2>1, SameDb DEF IInv
  <2>3. TypeOK'
      BY <2>1, <2>2 DEF IInv, TypeOK, kube
  <2>4. KubeOK'
      BY <2>1, <2>2 DEF IInv, KubeOK, QuotaOK, SourceOK, OnTimeOK, HelperOK, Stopped, Copied, kube
  <2>5. LanesOK'
      BY <2>1, <2>2 DEF IInv, LanesOK, LaneOK, CancelledOK, Deletes, PassOK, HoldOK, HoldKube,
                        Stopped, Copied, kube
  <2> QED
      BY <2>2, <2>3, <2>4, <2>5 DEF IInv
<1> QED
    BY <1>1, <1>2, <1>3, <1>4, <1>5, <1>6, <1>7, <1>8 DEF Next

\* The invariant is inductive.
THEOREM ResizeInductive == Spec => []IInv
BY InitIInv, NextIInv, PTL DEF Spec

\* Ordinary deployments cannot race active maintenance.
THEOREM Alone == Spec => []MaintenanceAlone
<1>1. IInv => MaintenanceAlone
  <2> SUFFICES ASSUME IInv, NEW i \in Ids, NEW r \in Revisions, rows[r].status \in Pending,
                      resize[i].phase \in {"queued", "copying", "switching", "cancelling"}
               PROVE  rows[r].resize = i
      BY DbFacts DEF MaintenanceAlone
  <2>1. ResizeOK(i)
      BY DbFacts
  <2>2. resize[i].phase \notin Staged
      BY CopyFacts DEF RowPending
  <2> QED
      BY <2>1, <2>2 DEF ResizeOK, Staged
<1> QED
    BY <1>1, ResizeInductive, PTL

\* Both copies remain charged until they are gone.
THEOREM ChargedWhileThere == Spec => []Charged
<1>1. IInv => Charged
    BY DEF IInv, KubeOK, OnTimeOK, Charged
<1> QED
    BY <1>1, ResizeInductive, PTL

\* The extra allowance of the quota is one claim and is taken back.
THEOREM OneAllowance == Spec => []AllowanceBounded
<1>1. IInv => AllowanceBounded
    BY DEF IInv, KubeOK, QuotaOK, OnTimeOK, AllowanceBounded
<1> QED
    BY <1>1, ResizeInductive, PTL

\* The services only ever run on the volume that holds everything they wrote.
THEOREM KeepsWrites == Spec => []NothingLost
<1>1. IInv => NothingLost
    BY DEF IInv, KubeOK, OnTimeOK, NothingLost
<1> QED
    BY <1>1, ResizeInductive, PTL

\* A request of a pass that does not delete a volume leaves the claims there.
LEMMA PassKeepsClaims ==
    ASSUME TypeOK, NEW c \in Claims, pvc[c] # "none", NEW w \in Lanes, Id(w) \in Claims,
           LaneStep(w), ~DeleteVolume(w)
    PROVE  pvc'[c] # "none"
<1> USE DEF kube, TypeOK
<1>1. ASSUME NEW d \in Claims, Apply(d) PROVE pvc'[c] # "none"
    BY <1>1 DEF Apply
<1>2. ASSUME NEW i \in Ids, ClaimVolumeResize(w, i) PROVE pvc'[c] # "none"
    BY <1>2 DEF ClaimVolumeResize
<1>3. ASSUME NEW ok \in BOOLEAN, NEW attempt \in BOOLEAN, CutoverResult(w, ok, attempt)
      PROVE  pvc'[c] # "none"
    BY <1>3 DEF CutoverResult
<1>4. CASE Arm(w) \/ Save(w) \/ CheckFails(w) \/ SessionGone(w) \/ Conflict(w)
    BY <1>4 DEF Arm, Save, CheckFails, SessionGone, Conflict
<1>5. CASE ResizeQuota(w) \/ AdoptClaim(w) \/ ClaimMissing(w) \/ StopServices(w) \/ Drain(w)
    BY <1>5 DEF ResizeQuota, AdoptClaim, ClaimMissing, StopServices, Drain
<1>6. CASE CreateHelper(w) \/ ReadReport(w) \/ DeleteHelper(w) \/ HelperStays(w) \/ HelperGone(w)
    BY <1>6 DEF CreateHelper, ReadReport, DeleteHelper, HelperStays, HelperGone
<1>7. CASE ResumeResizeServices(w) \/ BeginCutover(w) \/ ObserveHealth(w) \/ CheckRelease(w) \/ Reclaimed(w)
    BY <1>7 DEF ResumeResizeServices, BeginCutover, ObserveHealth, CheckRelease, Reclaimed
<1>8. CASE CreateClaim(w)
  <2>1. pvc' = [pvc EXCEPT ![Id(w)] = IF @ = "none" THEN "pending" ELSE @]
      BY <1>8 DEF CreateClaim
  <2> QED
      BY <2>1
<1>9. CASE DeployTarget(w)
    BY <1>1, <1>9 DEF DeployTarget
<1> QED
    BY <1>2, <1>3, <1>4, <1>5, <1>6, <1>7, <1>8, <1>9 DEF LaneStep

\* Only DeleteVolume removes a claim.
LEMMA OnlyDeleteRemoves ==
    ASSUME IInv, [Next]_vars, NEW c \in Claims, pvc[c] # "none", pvc'[c] = "none"
    PROVE  \E w \in Lanes : DeleteVolume(w)
<1> SUFFICES ASSUME \A w \in Lanes : ~DeleteVolume(w) PROVE FALSE
    OBVIOUS
<1>0. TypeOK
    BY DEF IInv
<1>1. CASE User
    BY <1>1 DEF User, kube, StartVolumeResize, Retry, Cancel, Retain, DeleteOriginal, ResizeAction,
                Accept, ResumeDeployment
<1>2. CASE DeployStep
  <2>1. ASSUME NEW r \in Revisions, DeployApply(r) PROVE FALSE
    <3>1. rows[r].claim \in Claims
        BY DbFacts DEF Row
    <3> QED
        BY <1>0, <2>1, <3>1 DEF DeployApply, Apply, TypeOK
  <2> QED
      BY <1>2, <2>1 DEF DeployStep, kube, DeployClaim, DeployEnd
<1>3. CASE Outside
  <2>1. ASSUME PodStarts PROVE FALSE
      BY <1>0, <2>1 DEF PodStarts, TypeOK
  <2>2. ASSUME NEW d \in Claims, Bind(d) PROVE FALSE
      BY <1>0, <2>2 DEF Bind, TypeOK
  <2> QED
      BY <1>3, <2>1, <2>2 DEF Outside, PodStops, HelperTerminates, CopyEnds
<1>4. CASE Write
    BY <1>4 DEF Write
<1>5. ASSUME NEW w \in Lanes, LaneStep(w) PROVE FALSE
  <2>1. lane[w].id \in Claims
      BY <1>0 DEF TypeOK, LaneState
  <2> QED
      BY <1>0, <1>5, <2>1, PassKeepsClaims DEF Id
<1>6. ASSUME NEW w \in Lanes, RequestFails(w) \/ DeployConflict(w) \/ SessionLost(w) \/ Crash(w)
      PROVE  FALSE
    BY <1>6 DEF RequestFails, DeployConflict, SessionLost, Crash, kube
<1>7. ASSUME NEW i \in Ids, Revoke(i) PROVE FALSE
    BY <1>7 DEF Revoke, kube
<1>8. CASE UNCHANGED vars
    BY <1>8 DEF vars, kube
<1> QED
    BY <1>1, <1>2, <1>3, <1>4, <1>5, <1>6, <1>7, <1>8 DEF Next

\* DeleteVolumes only removes a volume that nobody uses, after a release that
\* succeeded, even when its request lands late.
THEOREM DeletesUnused == Spec => OnlyUnusedDeleted
<1>1. ASSUME IInv, [Next]_vars, NEW c \in Claims, pvc[c] # "none", pvc'[c] = "none"
      PROVE  pod # c /\ rows[revision].claim # c /\ rows[revision].status = "succeeded"
  <2>1. PICK w \in Lanes : DeleteVolume(w)
      BY <1>1, OnlyDeleteRemoves
  <2>2. lane[w].pc \in {"deleteTarget", "deleteOriginal"}
      BY <2>1 DEF DeleteVolume
  <2>3. lane[w].id \in Ids
      BY <1>1, <2>2, LaneFacts
  <2>4. PICK d \in Claims : /\ d = IF lane[w].pc = "deleteTarget" THEN Id(w) ELSE Source(w)
                            /\ d = IF lane[w].pc = "deleteTarget" THEN lane[w].id
                                                                  ELSE resize[lane[w].id].claim
      BY <1>1, <2>3, Bounds, DbFacts DEF Id, Source, Resize
  <2>5. Deletable(w, d) /\ Lands(w) /\ pvc' = [pvc EXCEPT ![d] = "none"]
      BY <1>1, <2>1, <2>4 DEF DeleteVolume, kube
  <2>6. c = d
      BY <1>1, <2>5 DEF IInv, TypeOK
  <2>7. pod # c /\ c \notin deleted /\ lane[w].armed
      BY <2>5, <2>6 DEF Deletable, Lands
  <2>8. c # Cur /\ rows[revision].status = "succeeded"
      BY <1>1, <2>2, <2>4, <2>6, <2>7, DeletedUnused
  <2> QED
      BY <2>7, <2>8 DEF Cur
<1>2. IInv /\ [Next]_vars =>
         [\A c \in Claims : pvc[c] # "none" /\ pvc'[c] = "none" =>
             /\ pod # c /\ rows[revision].claim # c
             /\ rows[revision].status = "succeeded"]_vars
    BY <1>1
<1> QED
    BY <1>2, ResizeInductive, PTL DEF OnlyUnusedDeleted, Spec

=============================================================================

------------------------- MODULE InvocationsProofs -------------------------
(***************************************************************************)
(* Proofs about Invocations, for every number of lanes, invocations,       *)
(* revisions and faults.                                                   *)
(***************************************************************************)
EXTENDS Invocations, WellFoundedInduction, TLAPS

-----------------------------------------------------------------------------
(* The inductive invariant.                                                *)

\* The lane has claimed its receipt.
Working == {"loop", "checked", "armed", "created", "clean"}

\* A create that was checked for the receipt may still land: the fence is up,
\* and it stays up because the minute after the end has not begun to count.
Open(i) == Active(i) /\ (inv[i].status \in Finished => inv[i].age = "fresh")

\* What is true of every receipt and its Job.
ReceiptOK(i) ==
    /\ inv[i].cleanup => inv[i].status \in Finished
    /\ job[i] # "none" => Active(i)
    /\ i \in flying => Open(i)

\* What is true of a lane w in state n that has claimed a receipt.
WorkingOK(w, n) ==
    /\ n.status \in Started \cup Finished
    /\ n.pc \in {"checked", "armed", "created"} => n.status \in Started
    /\ n.pc = "armed" => n.status = "starting" /\ n.uid = 0 /\ Open(n.id)
    /\ lock = w /\ n.status \in Started => inv[n.id].lease = w
    /\ Holds(w) => inv[n.id].status = n.status /\ inv[n.id].uid = n.uid
    /\ n.status \in Finished => inv[n.id].status \in {n.status, "deleted"}
    /\ n.pc = "clean" => /\ n.status \in Finished
                         /\ inv[n.id].age # "fresh" => job[n.id] = "none"

\* What is true of every lane.
LaneOK(w) ==
    /\ lane[w].pc # "idle" => lane[w].id \in Ids
    /\ lock = w => lane[w].pc \notin {"idle", "candidate"}
    /\ lane[w].pc \in Working => WorkingOK(w, lane[w])

ReceiptsOK == \A i \in Ids : ReceiptOK(i)
LanesOK == \A w \in Lanes : LaneOK(w)

\* One receipt at most is active, and none while a deployment is pending.
Exclusive ==
    /\ \A i, k \in Ids : Active(i) /\ Active(k) => i = k
    /\ DeploymentPending => \A i \in Ids : ~Active(i)

IInv ==
    /\ TypeOK
    /\ ReceiptsOK
    /\ LanesOK
    /\ Exclusive

-----------------------------------------------------------------------------
(* Initial states.                                                         *)

\* The idle lane and the empty receipt.
LEMMA BlankTypes == IdleLane \in LaneState /\ NoReceipt \in Receipt
<1>1. 0 \in 0..MaxInvocations /\ 0 \in 0..MaxRevision /\ 0 \in Nat
    BY InvocationsAssumption
<1>2. IdleLane \in LaneState
    BY <1>1, Zenon DEF IdleLane, LaneState, Statuses
<1>3. NoReceipt \in Receipt
    BY <1>1, Zenon DEF NoReceipt, Receipt, Statuses, Ages
<1> QED
    BY <1>2, <1>3

\* The invariant holds before anything is invoked.
LEMMA InitIInv == Init => IInv
<1> SUFFICES ASSUME Init PROVE IInv
    OBVIOUS
<1> USE DEF Init
<1>1. TypeOK
    BY BlankTypes, InvocationsAssumption DEF TypeOK, Revisions
<1>2. \A i \in Ids : ~Active(i)
    BY DEF Active, NoReceipt, Started
<1>3. ReceiptsOK
    BY DEF ReceiptsOK, ReceiptOK, NoReceipt
<1>4. LanesOK
    BY InvocationsAssumption DEF LanesOK, LaneOK, IdleLane, Working
<1> QED
    BY <1>1, <1>2, <1>3, <1>4 DEF IInv, Exclusive

-----------------------------------------------------------------------------
(* Steps of one lane that change no receipt.                               *)

\* Lane w moves; it may take the free lock or give it up.
LaneMoves(w) ==
    /\ lane' = [lane EXCEPT ![w] = lane'[w]] /\ lane'[w] \in LaneState
    /\ lock' \in Lanes \cup {NoOne, Deployer}
    /\ \A v \in Lanes \ {w} : lock' = v <=> lock = v
    /\ faults' \in 0..MaxFaults
    /\ UNCHANGED <<revision, release, inv, allowed, flying, job, created, late>>

\* The other lanes do not notice.
LEMMA LaneMovesIInv ==
    ASSUME IInv, NEW w \in Lanes, LaneMoves(w), LaneOK(w)'
    PROVE  IInv'
<1> USE DEF LaneMoves
<1>1. TypeOK'
    BY DEF IInv, TypeOK
<1>2. ReceiptsOK' /\ Exclusive'
    BY DEF IInv, ReceiptsOK, ReceiptOK, Exclusive, Open, Active, DeploymentPending
<1>3. LanesOK'
  <2> SUFFICES ASSUME NEW v \in Lanes \ {w} PROVE LaneOK(v)'
      BY DEF LanesOK
  <2>1. LaneOK(v) /\ lane'[v] = lane[v]
      BY DEF IInv, LanesOK, TypeOK
  <2> QED
      BY <2>1 DEF LaneOK, WorkingOK, Open, Active, Holds
<1> QED
    BY <1>1, <1>2, <1>3 DEF IInv

\* What a lane may rely on.
LEMMA LaneFacts ==
    ASSUME IInv, NEW w \in Lanes
    PROVE  /\ LaneOK(w) /\ lane[w] \in LaneState /\ TypeOK
           /\ lane[w].pc # "idle" => /\ lane[w].id \in Ids /\ inv[lane[w].id] \in Receipt
                                     /\ ReceiptOK(lane[w].id)
    BY DEF IInv, LanesOK, LaneOK, TypeOK, ReceiptsOK

\* A lane that goes to pc with what it knows.
LEMMA GoesIInv ==
    ASSUME IInv, NEW w \in Lanes, lane[w].pc \in Working,
           NEW pc \in Working, lane' = [lane EXCEPT ![w].pc = pc],
           WorkingOK(w, [lane[w] EXCEPT !.pc = pc]),
           UNCHANGED <<revision, release, inv, allowed, lock, flying, job, created, late, faults>>
    PROVE  IInv'
<1>1. LaneOK(w) /\ lane[w] \in LaneState /\ TypeOK /\ lane[w].id \in Ids
    BY LaneFacts DEF Working
<1>2. lane'[w] = [lane[w] EXCEPT !.pc = pc]
    BY <1>1 DEF TypeOK
<1>3. lane'[w] \in LaneState /\ lane'[w].id = lane[w].id /\ lane'[w].pc = pc
    BY <1>1, <1>2 DEF LaneState, Working
<1>4. LaneMoves(w)
    BY <1>1, <1>2, <1>3 DEF LaneMoves, TypeOK
<1>5. Holds(w)' = Holds(w)
    BY <1>3 DEF Holds
<1>6. WorkingOK(w, lane[w])'
    BY <1>2, <1>3, <1>5 DEF WorkingOK, Open, Active
<1>7. LaneOK(w)'
    BY <1>1, <1>3, <1>6 DEF LaneOK, Working
<1> QED
    BY <1>4, <1>7, LaneMovesIInv

\* A lane that gives up what it has.
LEMMA ReturnsIInv ==
    ASSUME IInv, NEW w \in Lanes, lane' = [lane EXCEPT ![w] = IdleLane],
           lock' = IF lock = w THEN NoOne ELSE lock, faults' \in 0..MaxFaults,
           UNCHANGED <<revision, release, inv, allowed, flying, job, created, late>>
    PROVE  IInv'
<1>1. TypeOK
    BY DEF IInv
<1>2. lane'[w] = IdleLane
    BY <1>1 DEF TypeOK
<1>3. LaneMoves(w)
    BY <1>1, <1>2, BlankTypes, InvocationsAssumption DEF LaneMoves, TypeOK
<1>4. LaneOK(w)'
    BY <1>2, InvocationsAssumption DEF LaneOK, IdleLane, Working
<1> QED
    BY <1>3, <1>4, LaneMovesIInv

\* A set of invocations has an oldest one.
LEMMA OldestIn == ASSUME NEW S \in SUBSET Ids, S # {} PROVE Oldest(S) \in S
<1> DEFINE R == OpToRel(<, Nat)
<1>0. S \subseteq Nat
  <2>1. \A i \in Ids : i \in Nat
      BY DEF Ids
  <2> QED
      BY <2>1
<1>1. IsWellFoundedOn(R, Nat)
    BY NatLessThanWellFounded
<1>2. \A x, y \in Nat : y < x => <<y, x>> \in R
    BY DEF OpToRel
<1> HIDE DEF R
<1>3. PICK x \in S : \A y \in S : ~ (<<y, x>> \in R)
    BY <1>0, <1>1, WFMin
<1>4. ASSUME NEW y \in S PROVE x <= y
  <2>1. x \in Nat /\ y \in Nat
      BY <1>0
  <2>2. ~(y < x)
      BY <1>2, <1>3, <2>1
  <2> QED
      BY <2>1, <2>2
<1> QED
    BY <1>4 DEF Oldest

\* The candidate is read without the lock.
LEMMA ReadCandidateIInv == ASSUME IInv, NEW w \in Lanes, ReadCandidate(w) PROVE IInv'
<1>1. TypeOK /\ LaneOK(w) /\ lane[w] \in LaneState /\ lane[w].pc = "idle"
    BY LaneFacts DEF ReadCandidate
<1>2. PICK i \in Ids : i = Oldest(Candidates)
  <2>1. Candidates \in SUBSET Ids /\ Candidates # {}
      BY DEF Candidates, ReadCandidate, Queued, Tombstones
  <2> QED
      BY <2>1, OldestIn
<1>3. lane' = [lane EXCEPT ![w].pc = "candidate", ![w].id = i]
    BY <1>2 DEF ReadCandidate
<1>4. lane'[w] = [lane[w] EXCEPT !.pc = "candidate", !.id = i]
    BY <1>1, <1>3 DEF TypeOK
<1>5. i \in 0..MaxInvocations
    BY DEF Ids
<1>6. lane'[w] \in LaneState /\ lane'[w].pc = "candidate" /\ lane'[w].id = i
    BY <1>1, <1>4, <1>5 DEF LaneState
<1>7. LaneMoves(w)
    BY <1>1, <1>3, <1>4, <1>6 DEF LaneMoves, TypeOK, ReadCandidate
<1>8. LaneOK(w)'
    BY <1>1, <1>6 DEF LaneOK, Working, ReadCandidate
<1> QED
    BY <1>7, <1>8, LaneMovesIInv

\* The advisory lock is tried, not awaited.
LEMMA TryLockIInv == ASSUME IInv, NEW w \in Lanes, TryLock(w) PROVE IInv'
<1>1. TypeOK /\ LaneOK(w) /\ lane[w] \in LaneState /\ lane[w].pc = "candidate"
    BY LaneFacts DEF TryLock
<1>2. CASE lock # NoOne
  <2>1. lock # w
      BY <1>1 DEF LaneOK
  <2> QED
      BY <1>1, <1>2, <2>1, ReturnsIInv DEF TryLock, TypeOK
<1>3. CASE lock = NoOne
  <2>1. lock' = w /\ lane' = [lane EXCEPT ![w].pc = "locked"]
      BY <1>3 DEF TryLock
  <2>2. lane'[w] = [lane[w] EXCEPT !.pc = "locked"]
      BY <1>1, <2>1 DEF TypeOK
  <2>3. lane'[w] \in LaneState /\ lane'[w].pc = "locked" /\ lane'[w].id = lane[w].id
      BY <1>1, <2>2 DEF LaneState
  <2>4. LaneMoves(w)
      BY <1>1, <1>3, <2>1, <2>2, <2>3, InvocationsAssumption DEF LaneMoves, TypeOK, TryLock
  <2>5. LaneOK(w)'
      BY <1>1, <2>3 DEF LaneOK, Working
  <2> QED
      BY <2>4, <2>5, LaneMovesIInv
<1> QED
    BY <1>2, <1>3

\* The check under the lease.
LEMMA CheckIInv == ASSUME IInv, NEW w \in Lanes, Check(w) PROVE IInv'
<1>1. LaneOK(w) /\ lane[w] \in LaneState /\ lane[w].pc = "loop"
    BY LaneFacts DEF Check
<1>2. WorkingOK(w, [lane[w] EXCEPT !.pc = "checked"])
    BY <1>1 DEF LaneOK, WorkingOK, LaneState, Check, Working
<1> QED
    BY <1>1, <1>2, GoesIInv DEF Check, Working

\* A look at the runtime without a result.
LEMMA RuntimeErrorIInv == ASSUME IInv, NEW w \in Lanes, RuntimeError(w) PROVE IInv'
<1>1. LaneOK(w) /\ lane[w] \in LaneState /\ lane[w].pc = "checked"
    BY LaneFacts DEF RuntimeError
<1>2. WorkingOK(w, [lane[w] EXCEPT !.pc = "loop"])
    BY <1>1 DEF LaneOK, WorkingOK, LaneState, Working
<1> QED
    BY <1>1, <1>2, GoesIInv DEF RuntimeError, Working

\* A create without an effect.
LEMMA CreateFailsIInv == ASSUME IInv, NEW w \in Lanes, CreateFails(w) PROVE IInv'
<1>1. LaneOK(w) /\ lane[w] \in LaneState /\ lane[w].pc = "armed"
    BY LaneFacts DEF CreateFails
<1>2. WorkingOK(w, [lane[w] EXCEPT !.pc = "loop"])
    BY <1>1 DEF LaneOK, WorkingOK, LaneState, Working
<1> QED
    BY <1>1, <1>2, GoesIInv DEF CreateFails, Working

\* The last check before the create, under the lease: the fence is up.
LEMMA ArmCreateIInv == ASSUME IInv, NEW w \in Lanes, ArmCreate(w) PROVE IInv'
<1>1. LaneOK(w) /\ lane[w] \in LaneState /\ lane[w].pc = "checked"
    BY LaneFacts DEF ArmCreate
<1>2. Holds(w) /\ lane[w].status = "starting" /\ lane[w].uid = 0
    BY DEF ArmCreate, CheckPasses, MayCreate
<1>3. Open(lane[w].id)
    BY <1>1, <1>2 DEF LaneOK, WorkingOK, Working, Open, Active, Started, Finished
<1>4. WorkingOK(w, [lane[w] EXCEPT !.pc = "armed"])
    BY <1>1, <1>2, <1>3 DEF LaneOK, WorkingOK, LaneState, Working
<1> QED
    BY <1>1, <1>4, GoesIInv DEF ArmCreate, Working

\* A cleanup pass that finds nothing.
LEMMA CleanupInvocationIInv == ASSUME IInv, NEW w \in Lanes, CleanupInvocation(w) PROVE IInv'
<1>1. LaneOK(w) /\ lane[w] \in LaneState /\ lane[w].pc = "loop"
    BY LaneFacts DEF CleanupInvocation
<1>2. WorkingOK(w, [lane[w] EXCEPT !.pc = "clean"])
    BY <1>1 DEF LaneOK, WorkingOK, LaneState, Working, CleanupInvocation, Started, Finished
<1> QED
    BY <1>1, <1>2, GoesIInv DEF CleanupInvocation, Working

\* Errors that end a pass.
LEMMA LaneEndsIInv ==
    ASSUME IInv, NEW w \in Lanes, CleanupRefused(w) \/ LaneReturns(w) PROVE IInv'
<1>1. faults \in 0..MaxFaults
    BY DEF IInv, TypeOK
<1> QED
    BY <1>1, ReturnsIInv DEF CleanupRefused, LaneReturns

\* The lock is lost behind the lane's back.
LEMMA SessionLostIInv == ASSUME IInv, NEW w \in Lanes, SessionLost(w) PROVE IInv'
<1>1. TypeOK /\ LaneOK(w) /\ lane[w] \in LaneState
    BY LaneFacts
<1>2. faults' \in 0..MaxFaults
    BY <1>1, InvocationsAssumption DEF SessionLost, TypeOK
<1>3. LaneMoves(w)
    BY <1>1, <1>2, InvocationsAssumption DEF SessionLost, LaneMoves, TypeOK
<1>4. LaneOK(w)'
    BY <1>1, InvocationsAssumption DEF SessionLost, LaneOK, WorkingOK, Open, Active, Holds
<1> QED
    BY <1>3, <1>4, LaneMovesIInv

-----------------------------------------------------------------------------
(* Steps on one receipt.                                                   *)

\* Nothing changes but receipt i and its Job, and lanes whose new state is good.
Local(i) ==
    /\ \A k \in Ids \ {i} : /\ inv'[k] = inv[k] /\ job'[k] = job[k]
                            /\ k \in flying' => k \in flying
    /\ \A v \in Lanes :
         \/ LaneOK(v)'
         \/ lane'[v] = lane[v] /\ lane[v].id # i /\ (lock' = v => lock = v)

\* Such a step preserves what is true of the other receipts and lanes.
LEMMA LocalIInv ==
    ASSUME IInv, NEW i \in Ids, Local(i), TypeOK', ReceiptOK(i)', Exclusive'
    PROVE  IInv'
<1> USE DEF Local
<1>1. ReceiptsOK'
    BY DEF IInv, ReceiptsOK, ReceiptOK, Open, Active
<1>2. LanesOK'
  <2> SUFFICES ASSUME NEW v \in Lanes, lane'[v] = lane[v], lane[v].id # i,
                      lock' = v => lock = v
               PROVE  LaneOK(v)'
      BY DEF LanesOK
  <2>1. LaneOK(v) /\ (lane[v].pc # "idle" => lane[v].id \in Ids \ {i})
      BY DEF IInv, LanesOK, LaneOK
  <2>2. lane[v].pc \in Working => WorkingOK(v, lane[v])'
    <3> SUFFICES ASSUME lane[v].pc \in Working PROVE WorkingOK(v, lane[v])'
        OBVIOUS
    <3>1. lane[v].id \in Ids \ {i} /\ WorkingOK(v, lane[v])
        BY <2>1 DEF LaneOK, Working
    <3>2. inv'[lane[v].id] = inv[lane[v].id] /\ job'[lane[v].id] = job[lane[v].id]
        BY <3>1
    <3> QED
        BY <3>1, <3>2 DEF WorkingOK, Open, Active, Holds
  <2> QED
      BY <2>1, <2>2 DEF LaneOK
<1> QED
    BY <1>1, <1>2 DEF IInv

\* What becomes active by no step was excluded already.
LEMMA ExclusiveKept ==
    ASSUME IInv, UNCHANGED release, \A k \in Ids : Active(k)' => Active(k)
    PROVE  Exclusive'
    BY DEF IInv, Exclusive, DeploymentPending

\* A create that is in flight outlives its lane.
LEMMA CrashIInv == ASSUME IInv, NEW w \in Lanes, Crash(w) PROVE IInv'
<1>0. TypeOK /\ LaneOK(w) /\ lane[w] \in LaneState
    BY LaneFacts
<1>1. PICK i \in Ids : i = lane[w].id
    BY <1>0 DEF LaneOK, Crash
<1>2. faults' \in 0..MaxFaults
    BY <1>0, InvocationsAssumption DEF Crash, TypeOK
<1>3. lane' = [lane EXCEPT ![w] = IdleLane] /\ lock' = (IF lock = w THEN NoOne ELSE lock)
      /\ UNCHANGED <<revision, release, inv, allowed, job, created, late>>
    BY DEF Crash
<1>4. flying' = IF lane[w].pc = "armed" THEN flying \cup {i} ELSE flying
    BY <1>1 DEF Crash
<1>5. TypeOK'
    BY <1>0, <1>2, <1>3, <1>4, BlankTypes DEF TypeOK
<1>6. ReceiptOK(i)'
  <2>1. ReceiptOK(i) /\ (lane[w].pc = "armed" => Open(i))
      BY <1>0, <1>1 DEF IInv, ReceiptsOK, LaneOK, WorkingOK, Working
  <2> QED
      BY <1>3, <1>4, <2>1 DEF ReceiptOK, Open, Active
<1>7. Exclusive'
    BY <1>3, ExclusiveKept DEF Active
<1>8. Local(i)
  <2>1. LaneOK(w)'
      BY <1>0, <1>3, InvocationsAssumption DEF LaneOK, IdleLane, Working, TypeOK
  <2>2. ASSUME NEW v \in Lanes \ {w} PROVE LaneOK(v)'
    <3>1. LaneOK(v) /\ lane'[v] = lane[v] /\ (lock' = v => lock = v)
        BY <1>0, <1>3, InvocationsAssumption DEF IInv, LanesOK, TypeOK
    <3> QED
        BY <1>3, <3>1 DEF LaneOK, WorkingOK, Open, Active, Holds
  <2> QED
      BY <1>3, <1>4, <2>1, <2>2 DEF Local
<1> QED
    BY <1>5, <1>6, <1>7, <1>8, LocalIInv

\* A lane that claimed a receipt of which the holder of the lock now is another
\* lane knows only how it ended.
LEMMA SaveIInv ==
    ASSUME IInv, NEW w \in Lanes, lane[w].pc \in Working, lane[w].status \in Started,
           NEW status \in Started \cup Finished, NEW uid \in Nat, Save(w, status, uid)
    PROVE  IInv'
<1>0. TypeOK /\ LaneOK(w) /\ lane[w] \in LaneState /\ WorkingOK(w, lane[w])
    BY LaneFacts DEF LaneOK
<1>i. PICK i \in Ids : i = lane[w].id
    BY <1>0 DEF LaneOK, Working
<1>1. /\ inv[i] \in Receipt /\ ReceiptOK(i) /\ inv[i].status = lane[w].status
      /\ lock = w /\ inv[i].lease = w /\ inv[i].uid = lane[w].uid
    BY <1>0, <1>i DEF IInv, ReceiptsOK, TypeOK, WorkingOK, Save, Holds
<1> DEFINE u == IF uid = 0 THEN inv[i].uid ELSE uid
           row == Saved(inv[i], status, u)
           n == [lane[w] EXCEPT !.pc = "loop", !.status = status, !.uid = u]
<1>2. inv' = [inv EXCEPT ![i] = row]
      /\ UNCHANGED <<revision, release, allowed, lock, flying, job, created, late, faults>>
    BY <1>i DEF Save
<1>3. lane' = [lane EXCEPT ![w] = n]
  <2>1. lane' = [lane EXCEPT ![w] = [lane[w] EXCEPT !.pc = "loop", !.status = status,
                          !.uid = IF uid = 0 THEN lane[w].uid ELSE uid]]
      BY DEF Save
  <2> QED
      BY <1>1, <2>1
<1>4. u \in Nat
    BY <1>1 DEF Receipt
<1> HIDE DEF u
<1>5. status \in Statuses
    BY DEF Statuses
<1>6. /\ row \in Receipt /\ row.status = status /\ row.uid = u
      /\ row.cleanup = (status \in Finished) /\ row.lease = w
      /\ status \in Finished => row.age = "fresh"
  <2> DEFINE c == status \in Finished
             a == IF status \in Finished THEN "fresh" ELSE inv[i].age
  <2>1. row = [inv[i] EXCEPT !.status = status, !.uid = u, !.cleanup = c, !.age = a]
      BY <1>1 DEF Saved, Receipt
  <2>2. c \in BOOLEAN /\ a \in Ages /\ (status \in Finished => a = "fresh")
      BY <1>1 DEF Receipt, Ages
  <2> HIDE DEF c, a, row
  <2>3. /\ row \in Receipt /\ row.status = status /\ row.uid = u
        /\ row.cleanup = c /\ row.lease = w /\ row.age = a
      BY <1>1, <1>4, <1>5, <2>1, <2>2 DEF Receipt
  <2> QED
      BY <2>2, <2>3 DEF c
<1> HIDE DEF row
<1>7. n \in LaneState /\ n.pc = "loop" /\ n.status = status /\ n.uid = u /\ n.id = i
    BY <1>0, <1>i, <1>4, <1>5 DEF LaneState
<1> HIDE DEF n
<1>8. /\ inv'[i] = row /\ \A k \in Ids \ {i} : inv'[k] = inv[k]
      /\ lane'[w] = n /\ \A v \in Lanes \ {w} : lane'[v] = lane[v]
    BY <1>0, <1>2, <1>3 DEF TypeOK
<1>9. TypeOK'
    BY <1>0, <1>2, <1>3, <1>6, <1>7 DEF TypeOK
<1>10. Open(i)'
    BY <1>6, <1>8 DEF Open, Active
<1>11. ReceiptOK(i)'
    BY <1>6, <1>8, <1>10 DEF ReceiptOK, Open
<1>12. Exclusive'
  <2>1. Active(i)
      BY <1>1 DEF Active
  <2>2. \A k \in Ids : Active(k)' => Active(k)
      BY <1>8, <2>1 DEF Active
  <2> QED
      BY <1>2, <2>2, ExclusiveKept
<1>13. LaneOK(w)'
    BY <1>2, <1>6, <1>7, <1>8 DEF LaneOK, WorkingOK, Holds
<1>14. ASSUME NEW v \in Lanes \ {w}, lane[v].id = i PROVE LaneOK(v)'
  <2>1. LaneOK(v) /\ lane'[v] = lane[v] /\ lock' # v
      BY <1>1, <1>2, <1>8 DEF IInv, LanesOK
  <2>2. lane[v].pc \in Working => lane[v].status \notin Finished
      BY <1>1, <1>14, <2>1 DEF LaneOK, WorkingOK, Started, Finished
  <2> QED
      BY <1>10, <1>14, <2>1, <2>2 DEF LaneOK, WorkingOK, Holds
<1>15. Local(i)
    BY <1>2, <1>8, <1>13, <1>14 DEF Local
<1> QED
    BY <1>9, <1>11, <1>12, <1>15, LocalIInv

\* Every Save of a lane that runs its invocation.
LEMMA SavesIInv ==
    ASSUME IInv, NEW w \in Lanes,
           \/ StopInvocation(w) \/ FailInvocation(w)
           \/ \E status \in Statuses : SaveObserved(w, status) \/ SaveCreated(w, status)
    PROVE  IInv'
<1>0. TypeOK /\ LaneOK(w) /\ lane[w] \in LaneState /\ 0 \in Nat
    BY LaneFacts
<1>1. CASE StopInvocation(w) \/ FailInvocation(w)
    BY <1>0, <1>1, SaveIInv DEF StopInvocation, FailInvocation, Working, Finished
<1>2. ASSUME NEW status \in Statuses, SaveObserved(w, status) PROVE IInv'
  <2>1. lane[w].pc = "checked" /\ Save(w, status, created[lane[w].id])
      BY <1>2 DEF SaveObserved
  <2>2. lane[w].status \in Started /\ lane[w].id \in Ids
      BY <1>0, <2>1 DEF LaneOK, WorkingOK, Working
  <2>3. job[lane[w].id] \in {"running", "completed", "failed"} /\ created[lane[w].id] \in Nat
      BY <1>0, <1>2, <2>2 DEF TypeOK, SaveObserved, SameJob
  <2>4. status \in Started \cup Finished
      BY <1>2, <2>2, <2>3 DEF SaveObserved, Started, Finished
  <2> QED
      BY <2>1, <2>2, <2>3, <2>4, SaveIInv DEF Working
<1>3. ASSUME NEW status \in Statuses, SaveCreated(w, status) PROVE IInv'
  <2>1. lane[w].pc = "created" /\ Save(w, status, created[lane[w].id]) /\ status \in Started
      BY <1>3 DEF SaveCreated
  <2>2. lane[w].status \in Started /\ lane[w].id \in Ids
      BY <1>0, <2>1 DEF LaneOK, WorkingOK, Working
  <2>3. created[lane[w].id] \in Nat
      BY <1>0, <2>2 DEF TypeOK
  <2> QED
      BY <2>1, <2>2, <2>3, SaveIInv DEF Working
<1> QED
    BY <1>1, <1>2, <1>3

\* A step on receipt i alone that keeps what lanes and creates rely on.
ReceiptStep(i, row) ==
    /\ inv' = [inv EXCEPT ![i] = row] /\ row \in Receipt
    /\ row.cleanup => row.status \in Finished
    /\ UNCHANGED <<revision, release, allowed, flying, job, created, late, faults>>

\* Of the lanes that claimed it, and of its Job.
LEMMA ReceiptStepIInv ==
    ASSUME IInv, NEW i \in Ids, NEW row, ReceiptStep(i, row),
           lane' = lane, lock' = lock,
           Active(i)' => Active(i), job[i] # "none" => Active(i)',
           i \in flying => Open(i)',
           \A v \in Lanes : lane[v].pc \in Working /\ lane[v].id = i => WorkingOK(v, lane[v])'
    PROVE  IInv'
<1> USE DEF ReceiptStep
<1>0. TypeOK
    BY DEF IInv
<1>1. inv'[i] = row /\ \A k \in Ids \ {i} : inv'[k] = inv[k]
    BY <1>0 DEF TypeOK
<1>2. TypeOK'
    BY <1>0 DEF TypeOK
<1>3. ReceiptOK(i)'
    BY <1>1 DEF ReceiptOK
<1>4. Exclusive'
  <2>1. \A k \in Ids : Active(k)' => Active(k)
      BY <1>1 DEF Active
  <2> QED
      BY <2>1, ExclusiveKept
<1>5. Local(i)
  <2>1. ASSUME NEW v \in Lanes, lane[v].id = i PROVE LaneOK(v)'
    <3>1. LaneOK(v)
        BY DEF IInv, LanesOK
    <3> QED
        BY <2>1, <3>1 DEF LaneOK
  <2> QED
      BY <1>1, <2>1 DEF Local
<1> QED
    BY <1>2, <1>3, <1>4, <1>5, LocalIInv

\* What is known of a lane that has claimed receipt i.
LEMMA ClaimedFacts ==
    ASSUME IInv, NEW v \in Lanes, NEW i \in Ids, lane[v].pc \in Working, lane[v].id = i
    PROVE  /\ WorkingOK(v, lane[v])
           /\ lock = v /\ lane[v].status \in Started => inv[i].status \in Started
           /\ lane[v].status \in Started \cup Finished
           /\ lane[v].status \in Finished => inv[i].status \in Finished \cup {"deleted"}
<1>1. WorkingOK(v, lane[v])
    BY DEF IInv, LanesOK, LaneOK
<1> QED
    BY <1>1 DEF WorkingOK, Holds

\* An invocation is enqueued.
LEMMA EnqueueIInv == ASSUME IInv, NEW i \in Ids, Enqueue(i) PROVE IInv'
<1> DEFINE row == [NoReceipt EXCEPT !.status = "queued", !.rev = revision]
<1>0. TypeOK /\ ReceiptOK(i) /\ inv[i] \in Receipt /\ inv[i].status = "absent"
    BY DEF IInv, ReceiptsOK, TypeOK, Enqueue
<1>1. revision \in 0..MaxRevision
    BY <1>0 DEF TypeOK, Revisions
<1>2. NoReceipt.cleanup = FALSE /\ NoReceipt.lease = NoOne
    BY DEF NoReceipt
<1>3. row \in Receipt /\ row.status = "queued" /\ ~row.cleanup /\ row.lease = NoOne
    BY <1>1, <1>2, BlankTypes DEF Receipt, Statuses
<1>4. inv' = [inv EXCEPT ![i] = row]
    BY DEF Enqueue
<1> HIDE DEF row
<1>5. inv'[i] = row
    BY <1>0, <1>4 DEF TypeOK
<1>6. ~Active(i) /\ ~Active(i)' /\ job[i] = "none" /\ i \notin flying
    BY <1>0, <1>3, <1>5 DEF Active, ReceiptOK, Open, Started, Finished
<1>7. ASSUME NEW v \in Lanes, lane[v].pc \in Working, lane[v].id = i
      PROVE  WorkingOK(v, lane[v])'
  <2>1. /\ WorkingOK(v, lane[v]) /\ lane[v].status \in Started \ Finished
        /\ lock # v /\ lane[v].pc # "armed" /\ lane' = lane /\ lock' = lock
      BY <1>0, <1>6, <1>7, ClaimedFacts
         DEF Started, Finished, WorkingOK, Open, Enqueue
  <2> QED
      BY <2>1 DEF WorkingOK, Holds
<1>8. ReceiptStep(i, row)
    BY <1>3, <1>4 DEF ReceiptStep, Enqueue
<1> QED
    BY <1>6, <1>7, <1>8, ReceiptStepIInv DEF Enqueue

\* A change of the receipt that no lane looks at.
LEMMA QuietReceiptIInv ==
    ASSUME IInv, NEW i \in Ids, NEW row \in Receipt, inv' = [inv EXCEPT ![i] = row],
           row.status = inv[i].status, row.cleanup = inv[i].cleanup,
           row.uid = inv[i].uid, row.lease = inv[i].lease, row.age = inv[i].age,
           UNCHANGED <<revision, release, allowed, lock, lane, flying, job, created, late, faults>>
    PROVE  IInv'
<1>0. TypeOK /\ ReceiptOK(i)
    BY DEF IInv, ReceiptsOK
<1>1. inv'[i] = row
    BY <1>0 DEF TypeOK
<1>2. Active(i)' = Active(i) /\ Open(i)' = Open(i)
    BY <1>1 DEF Active, Open
<1>3. ASSUME NEW v \in Lanes, lane[v].pc \in Working, lane[v].id = i
      PROVE  WorkingOK(v, lane[v])'
    BY <1>1, <1>2, <1>3, ClaimedFacts DEF WorkingOK, Holds
<1>4. ReceiptStep(i, row)
    BY <1>0 DEF ReceiptStep, ReceiptOK
<1> QED
    BY <1>0, <1>2, <1>3, <1>4, ReceiptStepIInv DEF ReceiptOK

\* A cancellation is a request; a lease of a tombstone lapses.
LEMMA CancelIInv == ASSUME IInv, NEW i \in Ids, CancelInvocation(i) \/ Lapse(i) PROVE IInv'
<1>0. TypeOK /\ inv[i] \in Receipt
    BY DEF IInv, TypeOK
<1>1. CASE CancelInvocation(i)
  <2> DEFINE row == [inv[i] EXCEPT !.cancel = TRUE]
  <2>1. inv' = [inv EXCEPT ![i] = row]
      BY <1>0, <1>1 DEF TypeOK, CancelInvocation
  <2>2. /\ row \in Receipt /\ row.status = inv[i].status /\ row.cleanup = inv[i].cleanup
        /\ row.uid = inv[i].uid /\ row.lease = inv[i].lease /\ row.age = inv[i].age
      BY <1>0 DEF Receipt
  <2> HIDE DEF row
  <2> QED
      BY <1>1, <2>1, <2>2, QuietReceiptIInv DEF CancelInvocation
<1>2. CASE Lapse(i)
  <2> DEFINE row == [inv[i] EXCEPT !.lapsed = TRUE]
  <2>1. inv' = [inv EXCEPT ![i] = row]
      BY <1>0, <1>2 DEF TypeOK, Lapse
  <2>2. /\ row \in Receipt /\ row.status = inv[i].status /\ row.cleanup = inv[i].cleanup
        /\ row.uid = inv[i].uid /\ row.lease = inv[i].lease /\ row.age = inv[i].age
      BY <1>0 DEF Receipt
  <2> HIDE DEF row
  <2> QED
      BY <1>2, <2>1, <2>2, QuietReceiptIInv DEF Lapse
<1> QED
    BY <1>1, <1>2

\* Time passes: a minute only when no create of the receipt is on its way.
LEMMA PassIInv == ASSUME IInv, NEW i \in Ids, Pass(i) PROVE IInv'
<1>0. TypeOK /\ ReceiptOK(i) /\ inv[i] \in Receipt /\ inv[i].status \in Finished
    BY DEF IInv, ReceiptsOK, TypeOK, Pass, MinutePasses, TenMinutesPass
<1>1. PICK age \in {"recent", "old"} : inv' = [inv EXCEPT ![i].age = age]
    BY DEF Pass, MinutePasses, TenMinutesPass
<1> DEFINE row == [inv[i] EXCEPT !.age = age]
<1>2. inv' = [inv EXCEPT ![i] = row]
    BY <1>0, <1>1 DEF TypeOK
<1>3. /\ row \in Receipt /\ row.status = inv[i].status /\ row.cleanup = inv[i].cleanup
      /\ row.uid = inv[i].uid /\ row.lease = inv[i].lease
    BY <1>0 DEF Receipt, Ages
<1> HIDE DEF row
<1>4. inv'[i] = row
    BY <1>0, <1>2 DEF TypeOK
<1>5. Active(i)' = Active(i)
    BY <1>3, <1>4 DEF Active
<1>6. i \notin flying
    BY <1>0 DEF Pass, MinutePasses, TenMinutesPass, ReceiptOK, Open
<1>7. ASSUME NEW v \in Lanes, lane[v].pc \in Working, lane[v].id = i
      PROVE  WorkingOK(v, lane[v])'
  <2>1. WorkingOK(v, lane[v])
      BY <1>7, ClaimedFacts
  <2>2. lane[v].pc # "armed" /\ (lane[v].pc = "clean" => job[i] = "none")
      BY <1>0, <1>7, <2>1 DEF Pass, MinutePasses, TenMinutesPass, WorkingOK, Open
  <2>3. lane' = lane /\ lock' = lock /\ job' = job
      BY DEF Pass, MinutePasses, TenMinutesPass
  <2> QED
      BY <1>3, <1>4, <1>7, <2>1, <2>2, <2>3 DEF WorkingOK, Holds
<1>8. ReceiptStep(i, row)
    BY <1>0, <1>2, <1>3 DEF ReceiptStep, Pass, MinutePasses, TenMinutesPass
<1> QED
    BY <1>0, <1>5, <1>6, <1>7, <1>8, ReceiptStepIInv DEF Pass, MinutePasses, TenMinutesPass, ReceiptOK

\* A receipt is deleted after seven days.
LEMMA DeleteReceiptIInv == ASSUME IInv, NEW i \in Ids, DeleteReceipt(i) PROVE IInv'
<1> DEFINE row == [NoReceipt EXCEPT !.status = "deleted", !.age = "old"]
<1>0. TypeOK /\ ReceiptOK(i) /\ inv[i] \in Receipt /\ inv[i].status \in Finished
      /\ ~inv[i].cleanup
    BY DEF IInv, ReceiptsOK, TypeOK, DeleteReceipt
<1>1. NoReceipt.cleanup = FALSE /\ NoReceipt.lease = NoOne
    BY DEF NoReceipt
<1>2. row \in Receipt /\ row.status = "deleted" /\ ~row.cleanup /\ row.lease = NoOne
    BY <1>1, BlankTypes DEF Receipt, Statuses, Ages
<1>3. inv' = [inv EXCEPT ![i] = row]
    BY DEF DeleteReceipt
<1> HIDE DEF row
<1>4. inv'[i] = row
    BY <1>0, <1>3 DEF TypeOK
<1>5. ~Active(i) /\ ~Active(i)' /\ job[i] = "none" /\ i \notin flying
    BY <1>0, <1>2, <1>4 DEF Active, ReceiptOK, Open, Started, Finished
<1>6. ASSUME NEW v \in Lanes, lane[v].pc \in Working, lane[v].id = i
      PROVE  WorkingOK(v, lane[v])'
  <2>1. /\ WorkingOK(v, lane[v]) /\ (lock = v => lane[v].status \notin Started)
        /\ lane[v].pc # "armed" /\ lane' = lane /\ lock' = lock /\ job' = job
      BY <1>0, <1>5, <1>6, ClaimedFacts
         DEF Started, Finished, WorkingOK, Open, DeleteReceipt
  <2> QED
      BY <1>2, <1>4, <1>5, <1>6, <2>1, InvocationsAssumption DEF WorkingOK, Holds
<1>7. ReceiptStep(i, row)
    BY <1>2, <1>3 DEF ReceiptStep, DeleteReceipt
<1> QED
    BY <1>5, <1>6, <1>7, ReceiptStepIInv DEF DeleteReceipt

\* The claim leases the receipt while nothing else is active.
LEMMA LeaseIInv ==
    ASSUME IInv, NEW w \in Lanes, ClaimRow(w), Leasable(lane[w].id)
    PROVE  IInv'
<1>0. TypeOK /\ LaneOK(w) /\ lane[w] \in LaneState /\ lane[w].pc = "locked" /\ lock = w
    BY LaneFacts DEF ClaimRow
<1>i. PICK i \in Ids : i = lane[w].id
    BY <1>0 DEF LaneOK
<1>1. /\ inv[i] \in Receipt /\ ReceiptOK(i) /\ ~Obsolete(i) /\ ~Busy(i)
      /\ inv[i].status \in {"queued"} \cup Started \cup Finished
    BY <1>0, <1>i DEF IInv, ReceiptsOK, TypeOK, Leasable
<1> DEFINE s == IF inv[i].status = "queued" THEN "starting" ELSE inv[i].status
           row == [inv[i] EXCEPT !.status = s, !.lease = w, !.lapsed = FALSE]
           n == [lane[w] EXCEPT !.pc = "loop", !.status = s, !.uid = inv[i].uid]
<1>2. s \in Started \cup Finished /\ (inv[i].status # "queued" => s = inv[i].status)
    BY <1>1 DEF Started
<1>3. s \in Statuses
    BY <1>2 DEF Statuses
<1>4. /\ inv' = [inv EXCEPT ![i] = row]
      /\ UNCHANGED <<revision, release, allowed, lock, flying, job, created, late, faults>>
    BY <1>0, <1>1, <1>i DEF ClaimRow, Receipt, Leasable
<1>4a. lane' = [lane EXCEPT ![w].pc = "loop", ![w].status = row.status, ![w].uid = row.uid]
    BY <1>0, <1>1, <1>i DEF ClaimRow, Receipt, Leasable
<1> HIDE DEF s
<1>5. /\ row \in Receipt /\ row.status = s /\ row.uid = inv[i].uid /\ row.lease = w
      /\ row.cleanup = inv[i].cleanup /\ row.age = inv[i].age
    BY <1>1, <1>3 DEF Receipt
<1> HIDE DEF row
<1>6. lane' = [lane EXCEPT ![w] = n]
  <2>1. lane' = [lane EXCEPT ![w].pc = "loop", ![w].status = s, ![w].uid = inv[i].uid]
      BY <1>4a, <1>5
  <2> QED
      BY <1>0, <2>1 DEF TypeOK, LaneState
<1>7. n \in LaneState /\ n.pc = "loop" /\ n.status = s /\ n.uid = inv[i].uid /\ n.id = i
    BY <1>0, <1>1, <1>i, <1>3 DEF LaneState, Receipt
<1> HIDE DEF n
<1>8. /\ inv'[i] = row /\ \A k \in Ids \ {i} : inv'[k] = inv[k]
      /\ lane'[w] = n /\ \A v \in Lanes \ {w} : lane'[v] = lane[v]
    BY <1>0, <1>4, <1>6 DEF TypeOK
<1>9. TypeOK'
    BY <1>0, <1>4, <1>5, <1>6, <1>7 DEF TypeOK
<1>10. (Active(i) => Active(i)') /\ (Open(i) => Open(i)')
    BY <1>1, <1>2, <1>5, <1>8 DEF Open, Active, ReceiptOK, Started, Finished
<1>11. ReceiptOK(i)'
    BY <1>1, <1>2, <1>4, <1>5, <1>8, <1>10 DEF ReceiptOK, Finished
<1>12. Exclusive'
  <2>1. ~DeploymentPending' /\ \A k \in Ids \ {i} : ~Active(k)'
      BY <1>1, <1>4, <1>8 DEF Busy, Active, DeploymentPending
  <2> QED
      BY <2>1 DEF Exclusive
<1>13. LaneOK(w)'
    BY <1>2, <1>4, <1>5, <1>7, <1>8 DEF LaneOK, WorkingOK, Holds, Finished
<1>14. ASSUME NEW v \in Lanes \ {w}, lane[v].id = i PROVE LaneOK(v)'
  <2>1. LaneOK(v) /\ lane'[v] = lane[v] /\ lock' # v
      BY <1>0, <1>4, <1>8 DEF IInv, LanesOK
  <2>2. lane[v].pc \in Working /\ lane[v].status \in Finished => s = inv[i].status
      BY <1>2, <1>14, <2>1 DEF LaneOK, WorkingOK, Finished
  <2> QED
      BY <1>4, <1>5, <1>8, <1>10, <1>14, <2>1, <2>2 DEF LaneOK, WorkingOK, Holds
<1>15. Local(i)
    BY <1>4, <1>8, <1>13, <1>14 DEF Local
<1> QED
    BY <1>9, <1>11, <1>12, <1>15, LocalIInv

\* The end of a pass that closes receipt i: nothing of it is left.
LEMMA ClosesIInv ==
    ASSUME IInv, NEW w \in Lanes, NEW i \in Ids, NEW row \in Receipt, lock = w,
           inv' = [inv EXCEPT ![i] = row], lane' = [lane EXCEPT ![w] = IdleLane], lock' = NoOne,
           UNCHANGED <<revision, release, allowed, flying, job, created, late, faults>>,
           job[i] = "none", i \notin flying, row.status \in Finished, ~row.cleanup,
           \A v \in Lanes \ {w} : lane[v].pc \in Working /\ lane[v].id = i =>
               /\ lane[v].pc # "armed"
               /\ lane[v].status \in Finished => row.status = lane[v].status
    PROVE  IInv'
<1>0. TypeOK /\ ReceiptOK(i)
    BY DEF IInv, ReceiptsOK
<1>1. /\ inv'[i] = row /\ \A k \in Ids \ {i} : inv'[k] = inv[k]
      /\ lane'[w] = IdleLane /\ \A v \in Lanes \ {w} : lane'[v] = lane[v]
    BY <1>0 DEF TypeOK
<1>2. TypeOK'
    BY <1>0, BlankTypes DEF TypeOK
<1>3. ReceiptOK(i)'
    BY <1>1 DEF ReceiptOK
<1>4. Exclusive'
  <2>1. \A k \in Ids : Active(k)' => Active(k)
      BY <1>1 DEF Active, Started, Finished
  <2> QED
      BY <2>1, ExclusiveKept
<1>5. LaneOK(w)'
    BY <1>1, InvocationsAssumption DEF LaneOK, IdleLane, Working
<1>6. ASSUME NEW v \in Lanes \ {w}, lane[v].id = i PROVE LaneOK(v)'
  <2>1. LaneOK(v) /\ lane'[v] = lane[v] /\ lock' # v
      BY <1>1, InvocationsAssumption DEF IInv, LanesOK
  <2> QED
      BY <1>1, <1>6, <2>1 DEF LaneOK, WorkingOK, Holds
<1>7. Local(i)
    BY <1>1, <1>5, <1>6, InvocationsAssumption DEF Local
<1> QED
    BY <1>2, <1>3, <1>4, <1>7, LocalIInv

\* The claim of a queued receipt that must not start any more ends it.
LEMMA ObsoleteIInv ==
    ASSUME IInv, NEW w \in Lanes, ClaimRow(w), Obsolete(lane[w].id)
    PROVE  IInv'
<1>0. TypeOK /\ LaneOK(w) /\ lane[w] \in LaneState /\ lane[w].pc = "locked" /\ lock = w
    BY LaneFacts DEF ClaimRow
<1>i. PICK i \in Ids : i = lane[w].id
    BY <1>0 DEF LaneOK
<1>1. inv[i] \in Receipt /\ ReceiptOK(i) /\ inv[i].status = "queued"
    BY <1>0, <1>i DEF IInv, ReceiptsOK, TypeOK, Obsolete
<1> DEFINE row == [inv[i] EXCEPT !.status = "cancelled", !.age = "fresh"]
<1>2. /\ inv' = [inv EXCEPT ![i].status = "cancelled", ![i].age = "fresh"]
      /\ lane' = [lane EXCEPT ![w] = IdleLane] /\ lock' = NoOne
      /\ UNCHANGED <<revision, release, allowed, flying, job, created, late, faults>>
    BY <1>i DEF ClaimRow, Leasable
<1>3. inv' = [inv EXCEPT ![i] = row]
    BY <1>0, <1>2 DEF TypeOK, Receipt
<1>4. row \in Receipt /\ row.status = "cancelled" /\ row.cleanup = inv[i].cleanup
    BY <1>1 DEF Receipt, Statuses, Finished, Ages
<1> HIDE DEF row
<1>5. ~Active(i) /\ job[i] = "none" /\ i \notin flying /\ ~inv[i].cleanup
    BY <1>1 DEF Active, ReceiptOK, Open, Started, Finished
<1>6. ASSUME NEW v \in Lanes \ {w}, lane[v].pc \in Working, lane[v].id = i
      PROVE  lane[v].pc # "armed" /\ lane[v].status \notin Finished
    BY <1>1, <1>5, <1>6, ClaimedFacts DEF WorkingOK, Open, Finished
<1> QED
    BY <1>0, <1>2, <1>3, <1>4, <1>5, <1>6, ClosesIInv DEF Finished

\* ClaimInvocation under the lock.
LEMMA ClaimRowIInv == ASSUME IInv, NEW w \in Lanes, ClaimRow(w) PROVE IInv'
<1>1. CASE Leasable(lane[w].id)
    BY <1>1, LeaseIInv
<1>2. CASE Obsolete(lane[w].id)
    BY <1>2, ObsoleteIInv
<1>3. CASE ~Leasable(lane[w].id) /\ ~Obsolete(lane[w].id)
  <2>1. faults \in 0..MaxFaults
      BY DEF IInv, TypeOK
  <2> QED
      BY <1>3, <2>1, ReturnsIInv DEF ClaimRow
<1> QED
    BY <1>1, <1>2, <1>3

\* The fence is lifted a minute after the end, when no create can land any more.
LEMMA CleanedIInv == ASSUME IInv, NEW w \in Lanes, Cleaned(w) PROVE IInv'
<1>0. TypeOK /\ LaneOK(w) /\ lane[w] \in LaneState /\ lane[w].pc = "clean"
    BY LaneFacts DEF Cleaned
<1>i. PICK i \in Ids : i = lane[w].id
    BY <1>0 DEF LaneOK
<1>1. inv[i] \in Receipt /\ ReceiptOK(i) /\ WorkingOK(w, lane[w])
    BY <1>0, <1>i DEF IInv, ReceiptsOK, TypeOK, LaneOK, Working
<1>2. CASE WindowOver(i)
  <2> DEFINE row == [inv[i] EXCEPT !.cleanup = FALSE, !.lease = NoOne, !.lapsed = FALSE]
  <2>1. /\ Holds(w) /\ inv[i].status \in Finished
        /\ inv' = [inv EXCEPT ![i].cleanup = FALSE, ![i].lease = NoOne, ![i].lapsed = FALSE]
        /\ lane' = [lane EXCEPT ![w] = IdleLane] /\ lock' = NoOne
        /\ UNCHANGED <<revision, release, allowed, flying, job, created, late, faults>>
      BY <1>2, <1>i DEF Cleaned
  <2>2. inv' = [inv EXCEPT ![i] = row]
      BY <1>0, <2>1 DEF TypeOK, Receipt
  <2>3. row \in Receipt /\ row.status = inv[i].status /\ ~row.cleanup
      BY <1>1 DEF Receipt
  <2> HIDE DEF row
  <2>4. lock = w /\ job[i] = "none" /\ i \notin flying
      BY <1>0, <1>1, <1>2, <1>i, <2>1 DEF Holds, WorkingOK, WindowOver, ReceiptOK, Open
  <2>5. ASSUME NEW v \in Lanes \ {w}, lane[v].pc \in Working, lane[v].id = i
        PROVE  /\ lane[v].pc # "armed"
               /\ lane[v].status \in Finished => inv[i].status = lane[v].status
      BY <1>2, <2>1, <2>5, ClaimedFacts DEF WorkingOK, Open, WindowOver, Finished
  <2>6. /\ row.status \in Finished
        /\ \A v \in Lanes \ {w} : lane[v].pc \in Working /\ lane[v].id = i =>
              /\ lane[v].pc # "armed"
              /\ lane[v].status \in Finished => row.status = lane[v].status
      BY <2>1, <2>3, <2>5
  <2> QED
      BY <2>1, <2>2, <2>3, <2>4, <2>6, ClosesIInv
<1>3. CASE ~WindowOver(i)
  <2>1. lane' = [lane EXCEPT ![w].pc = "loop"]
        /\ UNCHANGED <<revision, release, inv, allowed, lock, flying, job, created, late, faults>>
      BY <1>3, <1>i DEF Cleaned
  <2>2. WorkingOK(w, [lane[w] EXCEPT !.pc = "loop"])
      BY <1>0, <1>1 DEF WorkingOK, LaneState
  <2> QED
      BY <1>0, <2>1, <2>2, GoesIInv DEF Working
<1> QED
    BY <1>2, <1>3

-----------------------------------------------------------------------------
(* Steps of the cluster on one Job.                                        *)

\* The Job of receipt i becomes state; a lane whose create arrived goes on.
JobStep(i, state) ==
    /\ job' = [job EXCEPT ![i] = state] /\ state \in {"none", "running", "completed", "failed"}
    /\ flying' \subseteq flying /\ created' \in [Ids -> Nat] /\ late' \subseteq Ids
    /\ faults' \in 0..MaxFaults /\ lane' \in [Lanes -> LaneState]
    /\ \A v \in Lanes : \/ lane'[v] = lane[v]
                        \/ /\ lane[v].pc = "armed" /\ lane[v].id = i
                           /\ lane'[v].id = i /\ lane'[v].pc \in {"created", "loop"}
                           /\ lane'[v].status = lane[v].status /\ lane'[v].uid = lane[v].uid
    /\ UNCHANGED <<revision, release, inv, allowed, lock>>

\* A Job appears only for an open receipt.
LEMMA JobStepIInv ==
    ASSUME IInv, NEW i \in Ids, NEW state, JobStep(i, state),
           state # "none" => job[i] # "none" \/ Open(i)
    PROVE  IInv'
<1>0. TypeOK /\ ReceiptOK(i)
    BY DEF IInv, ReceiptsOK
<1>1. job'[i] = state /\ \A k \in Ids \ {i} : job'[k] = job[k]
    BY <1>0 DEF JobStep, TypeOK
<1>2. TypeOK'
    BY <1>0 DEF JobStep, TypeOK
<1>3. inv' = inv /\ release' = release /\ lock' = lock /\ flying' \subseteq flying
    BY DEF JobStep
<1>4. ReceiptOK(i)'
    BY <1>0, <1>1, <1>3 DEF ReceiptOK, Open, Active
<1>5. Exclusive'
    BY <1>3, ExclusiveKept DEF Active
<1>6. ASSUME NEW v \in Lanes, lane[v].id = i PROVE LaneOK(v)'
  <2>0. LaneOK(v)
      BY DEF IInv, LanesOK
  <2>1. CASE lane'[v] = lane[v]
    <3>1. lane[v].pc \in Working => WorkingOK(v, lane[v])'
      <4> SUFFICES ASSUME lane[v].pc \in Working PROVE WorkingOK(v, lane[v])'
          OBVIOUS
      <4>1. WorkingOK(v, lane[v])
          BY <2>0 DEF LaneOK
      <4>2. lane[v].pc = "clean" /\ inv[i].age # "fresh" => job'[i] = "none"
          BY <1>0, <1>1, <1>6, <4>1 DEF WorkingOK, Open, Active, ReceiptOK, Started, Finished
      <4> QED
          BY <1>3, <1>6, <2>1, <4>1, <4>2 DEF WorkingOK, Holds, Open, Active
    <3> QED
        BY <1>3, <2>0, <2>1, <3>1 DEF LaneOK
  <2>2. CASE lane'[v] # lane[v]
    <3>1. /\ lane[v].pc = "armed" /\ lane'[v].id = i /\ lane'[v].pc \in {"created", "loop"}
          /\ lane'[v].status = lane[v].status /\ lane'[v].uid = lane[v].uid
        BY <2>2 DEF JobStep
    <3>2. WorkingOK(v, lane[v])
        BY <2>0, <3>1 DEF LaneOK, Working
    <3>3. WorkingOK(v, lane[v])'
        BY <1>3, <1>6, <3>1, <3>2 DEF WorkingOK, Holds, Started, Finished
    <3> QED
        BY <3>1, <3>3 DEF LaneOK
  <2> QED
      BY <2>1, <2>2
<1>7. Local(i)
    BY <1>1, <1>3, <1>6 DEF Local, JobStep
<1> QED
    BY <1>2, <1>4, <1>5, <1>7, LocalIInv

\* The Job ends, is deleted by a lane, or is removed by somebody else.
LEMMA JobChangesIInv ==
    ASSUME IInv, NEW i \in Ids,
           \/ \E state \in {"completed", "failed"} : JobEnds(i, state)
           \/ JobRemoved(i)
           \/ \E w \in Lanes : DeleteJob(w) /\ lane[w].id = i
    PROVE  IInv'
<1>0. TypeOK
    BY DEF IInv
<1>1. CASE \E state \in {"completed", "failed"} : JobEnds(i, state)
  <2>1. PICK state \in {"completed", "failed"} : JobEnds(i, state)
      BY <1>1
  <2>2. JobStep(i, state) /\ job[i] # "none"
      BY <1>0, <2>1 DEF JobEnds, JobStep, TypeOK
  <2> QED
      BY <2>2, JobStepIInv
<1>2. CASE JobRemoved(i)
  <2>1. faults' \in 0..MaxFaults
      BY <1>0, <1>2, InvocationsAssumption DEF JobRemoved, TypeOK
  <2>2. JobStep(i, "none")
      BY <1>0, <1>2, <2>1 DEF JobRemoved, JobStep, TypeOK
  <2> QED
      BY <2>2, JobStepIInv
<1>3. CASE \E w \in Lanes : DeleteJob(w) /\ lane[w].id = i
  <2>1. JobStep(i, "none")
      BY <1>0, <1>3 DEF DeleteJob, JobStep, TypeOK
  <2> QED
      BY <2>1, JobStepIInv
<1> QED
    BY <1>1, <1>2, <1>3

\* What a create that arrives does to the Job.
LEMMA CreateTypes ==
    ASSUME TypeOK, NEW i \in Ids, NEW locked \in BOOLEAN, Create(i, locked)
    PROVE  /\ created' \in [Ids -> Nat] /\ late' \subseteq Ids
           /\ \E state \in {"none", "running", "completed", "failed"} :
                 /\ job' = [job EXCEPT ![i] = state]
                 /\ state # "none" /\ job[i] = "none" => state = "running"
           /\ \A k \in Ids \ {i} : created'[k] = created[k]
           /\ created'[i] = created[i] \/ (~locked => i \in late')
<1>1. CASE job[i] = "none"
    BY <1>1 DEF Create, TypeOK
<1>2. CASE job[i] # "none"
  <2>1. job' = [job EXCEPT ![i] = job[i]] /\ job[i] \in {"none", "running", "completed", "failed"}
      BY <1>2 DEF Create, TypeOK
  <2> QED
      BY <1>2, <2>1 DEF Create, TypeOK
<1> QED
    BY <1>1, <1>2

\* A create that was checked under the lease lands, with or without the lock.
LEMMA CreateLandsIInv == ASSUME IInv, NEW w \in Lanes, CreateLands(w) PROVE IInv'
<1>0. TypeOK /\ LaneOK(w) /\ lane[w] \in LaneState /\ lane[w].pc = "armed"
    BY LaneFacts DEF CreateLands
<1>i. PICK i \in Ids : i = lane[w].id
    BY <1>0 DEF LaneOK
<1>1. Open(i)
    BY <1>0, <1>i DEF LaneOK, WorkingOK, Working
<1> DEFINE pc == IF job[i] = "none" THEN "created" ELSE "loop"
<1>2. Create(i, lock = w) /\ lane' = [lane EXCEPT ![w].pc = pc]
      /\ UNCHANGED <<revision, release, inv, allowed, lock, flying, faults>>
    BY <1>i DEF CreateLands
<1>3. pc \in {"created", "loop"}
    OBVIOUS
<1> HIDE DEF pc
<1>4. (lock = w) \in BOOLEAN
    OBVIOUS
<1>5. PICK state \in {"none", "running", "completed", "failed"} : job' = [job EXCEPT ![i] = state]
    BY <1>0, <1>2, <1>4, CreateTypes
<1>6. created' \in [Ids -> Nat] /\ late' \subseteq Ids
    BY <1>0, <1>2, <1>4, CreateTypes
<1>7. /\ lane'[w] = [lane[w] EXCEPT !.pc = pc]
      /\ \A v \in Lanes \ {w} : lane'[v] = lane[v]
    BY <1>0, <1>2 DEF TypeOK
<1>8. /\ lane'[w] \in LaneState /\ lane'[w].id = i /\ lane'[w].pc = pc
      /\ lane'[w].status = lane[w].status /\ lane'[w].uid = lane[w].uid
    BY <1>0, <1>3, <1>7, <1>i DEF LaneState
<1>9. lane' \in [Lanes -> LaneState]
    BY <1>0, <1>2, <1>7, <1>8 DEF TypeOK
<1>10. JobStep(i, state)
    BY <1>0, <1>2, <1>3, <1>5, <1>6, <1>7, <1>8, <1>9, <1>i DEF JobStep, TypeOK
<1> QED
    BY <1>1, <1>10, JobStepIInv

\* A create of a dead lane arrives, or is lost.
LEMMA FlyingEndsIInv == ASSUME IInv, NEW i \in Ids, FlyingEnds(i) PROVE IInv'
<1>0. TypeOK /\ ReceiptOK(i) /\ Open(i)
    BY DEF IInv, ReceiptsOK, ReceiptOK, FlyingEnds
<1>1. flying' \subseteq flying /\ UNCHANGED <<revision, release, inv, allowed, lock, lane, faults>>
    BY DEF FlyingEnds
<1>2. CASE Create(i, FALSE)
  <2>1. PICK state \in {"none", "running", "completed", "failed"} : job' = [job EXCEPT ![i] = state]
      BY <1>0, <1>2, CreateTypes
  <2>2. created' \in [Ids -> Nat] /\ late' \subseteq Ids
      BY <1>0, <1>2, CreateTypes
  <2>3. JobStep(i, state)
      BY <1>0, <1>1, <2>1, <2>2 DEF JobStep, TypeOK
  <2> QED
      BY <1>0, <2>3, JobStepIInv
<1>3. CASE UNCHANGED <<job, created, late>>
  <2>1. JobStep(i, job[i])
      BY <1>0, <1>1, <1>3 DEF JobStep, TypeOK
  <2> QED
      BY <2>1, JobStepIInv
<1> QED
    BY <1>2, <1>3 DEF FlyingEnds

-----------------------------------------------------------------------------
(* Deployments and keys.                                                   *)

\* A deployment is accepted only when the fence is down everywhere, and ends what
\* is queued.
LEMMA AcceptDeploymentIInv == ASSUME IInv, AcceptDeployment PROVE IInv'
<1>0. TypeOK /\ ReceiptsOK /\ LanesOK /\ \A i \in Ids : ~Active(i)
    BY DEF IInv, AcceptDeployment, Fence
<1> DEFINE ended(i) == [inv[i] EXCEPT !.status = "cancelled", !.cancel = TRUE, !.age = "fresh"]
<1>1. \A i \in Ids : inv'[i] = IF i \in Queued THEN ended(i) ELSE inv[i]
    BY DEF AcceptDeployment
<1>2. ASSUME NEW i \in Ids
      PROVE  /\ inv'[i] \in Receipt /\ inv'[i].cleanup = inv[i].cleanup
             /\ inv'[i].lease = inv[i].lease /\ inv'[i].uid = inv[i].uid
             /\ inv[i].status = "queued" => inv'[i].status = "cancelled"
             /\ inv[i].status # "queued" => inv'[i] = inv[i]
  <2>1. inv[i] \in Receipt /\ (i \in Queued <=> inv[i].status = "queued")
      BY <1>0 DEF TypeOK, Queued
  <2>2. /\ ended(i) \in Receipt /\ ended(i).cleanup = inv[i].cleanup
        /\ ended(i).lease = inv[i].lease /\ ended(i).uid = inv[i].uid
        /\ ended(i).status = "cancelled"
      BY <2>1 DEF Receipt, Statuses, Finished, Ages
  <2> HIDE DEF ended
  <2> QED
      BY <1>1, <2>1, <2>2
<1> HIDE DEF ended
<1>3. /\ revision' \in Revisions /\ lane' = lane /\ lock' = lock /\ job' = job /\ flying' = flying
      /\ release' \in [Revisions -> {"absent", "queued", "running", "succeeded", "failed"}]
  <2>1. revision + 1 \in Revisions
    <3>1. revision \in 1..MaxRevision /\ revision < MaxRevision /\ MaxRevision \in Nat
        BY <1>0, InvocationsAssumption DEF AcceptDeployment, TypeOK, Revisions
    <3> QED
        BY <3>1 DEF Revisions
  <2> QED
      BY <1>0, <2>1 DEF AcceptDeployment, TypeOK
<1>4. TypeOK'
  <2>1. inv' \in [Ids -> Receipt]
      BY <1>2 DEF AcceptDeployment
  <2> QED
      BY <1>0, <1>3, <2>1 DEF AcceptDeployment, TypeOK
<1>5. \A i \in Ids : ~Active(i)'
    BY <1>0, <1>2 DEF Active, Started
<1>6. ReceiptsOK'
    BY <1>0, <1>2, <1>3 DEF ReceiptsOK, ReceiptOK, Open, Active, Finished
<1>7. LanesOK'
  <2> SUFFICES ASSUME NEW v \in Lanes PROVE LaneOK(v)'
      BY DEF LanesOK
  <2>1. LaneOK(v) /\ lane'[v] = lane[v]
      BY <1>0, <1>3 DEF LanesOK
  <2>2. lane[v].pc \in Working => WorkingOK(v, lane[v])'
    <3> SUFFICES ASSUME lane[v].pc \in Working PROVE WorkingOK(v, lane[v])'
        OBVIOUS
    <3>1. PICK i \in Ids : i = lane[v].id
        BY <2>1 DEF LaneOK, Working
    <3>2. WorkingOK(v, lane[v]) /\ lane[v].pc # "armed"
        BY <1>0, <2>1, <3>1 DEF LaneOK, WorkingOK, Open
    <3>3. Holds(v)' = Holds(v) /\ lane'[v].id = i
        BY <1>2, <1>3, <2>1, <3>1 DEF Holds
    <3>4. Holds(v) \/ lane[v].status \in Finished => inv'[i] = inv[i]
        BY <1>2, <3>1, <3>2 DEF WorkingOK, Started, Finished
    <3> QED
        BY <1>2, <1>3, <2>1, <3>1, <3>2, <3>3, <3>4 DEF WorkingOK
  <2> QED
      BY <1>3, <2>1, <2>2 DEF LaneOK
<1> QED
    BY <1>4, <1>5, <1>6, <1>7 DEF IInv, Exclusive

\* A deployment takes the lock, runs, and gives the lock back.
LEMMA DeployStepIInv == ASSUME IInv, DeployStep PROVE IInv'
<1>0. TypeOK
    BY DEF IInv
<1>1. /\ UNCHANGED <<revision, inv, allowed, lane, flying, job, created, late, faults>>
      /\ \A v \in Lanes : lock' # v
      /\ TypeOK'
      /\ DeploymentPending' => \A i \in Ids : ~Active(i)
  <2>1. ASSUME NEW r \in Revisions, DeployClaim(r)
        PROVE  <1>1!1 /\ <1>1!2 /\ <1>1!3 /\ <1>1!4
      BY <1>0, <2>1, InvocationsAssumption DEF DeployClaim, Fence, TypeOK
  <2>2. ASSUME NEW r \in Revisions, NEW outcome \in {"succeeded", "failed"}, DeployEnd(r, outcome)
        PROVE  <1>1!1 /\ <1>1!2 /\ <1>1!3 /\ <1>1!4
    <3>1. \A q \in Revisions : q # r => release'[q] = release[q]
        BY <1>0, <2>2 DEF DeployEnd, TypeOK
    <3>2. DeploymentPending' => DeploymentPending
        BY <1>0, <2>2, <3>1 DEF DeployEnd, TypeOK, DeploymentPending
    <3> QED
        BY <1>0, <2>2, <3>2, InvocationsAssumption DEF DeployEnd, TypeOK, IInv, Exclusive
  <2> QED
      BY <2>1, <2>2 DEF DeployStep
<1>2. ReceiptsOK' /\ Exclusive'
    BY <1>1 DEF IInv, ReceiptsOK, ReceiptOK, Exclusive, Open, Active
<1>3. LanesOK'
  <2> SUFFICES ASSUME NEW v \in Lanes PROVE LaneOK(v)'
      BY DEF LanesOK
  <2>1. LaneOK(v) /\ lock' # v
      BY <1>1 DEF IInv, LanesOK
  <2> QED
      BY <1>1, <2>1 DEF LaneOK, WorkingOK, Open, Active, Holds
<1> QED
    BY <1>1, <1>2, <1>3 DEF IInv

\* The key loses its authority: the lanes notice at their next check.
LEMMA RevokeIInv == ASSUME IInv, Revoke PROVE IInv'
<1>1. TypeOK' /\ ReceiptsOK' /\ Exclusive'
    BY DEF IInv, TypeOK, Revoke, ReceiptsOK, ReceiptOK, Exclusive, Open, Active, DeploymentPending
<1>2. LanesOK'
    BY DEF IInv, Revoke, LanesOK, LaneOK, WorkingOK, Open, Active, Holds
<1> QED
    BY <1>1, <1>2 DEF IInv

-----------------------------------------------------------------------------
(* The theorems.                                                           *)

\* Every step preserves the invariant.
LEMMA NextIInv == ASSUME IInv, [Next]_vars PROVE IInv'
<1>1. CASE Caller
    BY <1>1, EnqueueIInv, CancelIInv, RevokeIInv, AcceptDeploymentIInv DEF Caller
<1>2. ASSUME NEW w \in Lanes, LaneStep(w) PROVE IInv'
  <2>1. CASE DeleteJob(w)
    <3>1. lane[w].id \in Ids
        BY <2>1, LaneFacts DEF DeleteJob
    <3> QED
        BY <2>1, <3>1, JobChangesIInv
  <2> QED
      BY <1>2, <2>1, ReadCandidateIInv, TryLockIInv, ClaimRowIInv, SavesIInv, CheckIInv,
         RuntimeErrorIInv, ArmCreateIInv, CreateLandsIInv, CreateFailsIInv,
         CleanupInvocationIInv, CleanedIInv, LaneEndsIInv DEF LaneStep
<1>3. CASE DeployStep
    BY <1>3, DeployStepIInv
<1>4. ASSUME NEW i \in Ids, Outside(i) \/ Pass(i) \/ JobRemoved(i) \/ Lapse(i) \/ DeleteReceipt(i)
      PROVE  IInv'
    BY <1>4, JobChangesIInv, PassIInv, FlyingEndsIInv, CancelIInv, DeleteReceiptIInv DEF Outside
<1>5. ASSUME NEW w \in Lanes, SessionLost(w) \/ Crash(w) PROVE IInv'
    BY <1>5, SessionLostIInv, CrashIInv
<1>6. CASE UNCHANGED vars
    BY <1>6 DEF vars, IInv, TypeOK, ReceiptsOK, ReceiptOK, LanesOK, LaneOK, WorkingOK, Holds,
                Exclusive, Open, Active, DeploymentPending
<1> QED
    BY <1>1, <1>2, <1>3, <1>4, <1>5, <1>6 DEF Next

\* Every reachable state of the invocations satisfies the inductive invariant:
\* the lanes, the receipts, the creates on their way and the Jobs agree.
THEOREM InvocationsInductive == Spec => []IInv
<1>1. Init => IInv
    BY InitIInv
<1>2. IInv /\ [Next]_vars => IInv'
    BY NextIInv
<1> QED
    BY <1>1, <1>2, PTL DEF Spec

\* At most one invocation of the application is active, whatever lanes claim,
\* lose their session or die: the unique index never refuses a claim.
THEOREM AtMostOneActive == Spec => []OneActive
<1>1. IInv => OneActive
    BY DEF IInv, Exclusive, OneActive
<1> QED
    BY <1>1, InvocationsInductive, PTL

\* A Job in the cluster has a fence, also when its create landed late, and no
\* deployment is pending behind a fence that is up.
THEOREM FenceHolds == Spec => []JobFenced
<1>1. IInv => JobFenced
    BY DEF IInv, ReceiptsOK, ReceiptOK, Exclusive, JobFenced
<1> QED
    BY <1>1, InvocationsInductive, PTL

\* Only the holder of the lease writes an outcome, and only over a started one.
LEMMA SaveKeepsOutcome ==
    ASSUME IInv, NEW w \in Lanes, NEW i \in Ids, inv[i].status \in Finished,
           \/ StopInvocation(w) \/ FailInvocation(w)
           \/ \E status \in Statuses : SaveObserved(w, status) \/ SaveCreated(w, status)
    PROVE  inv'[i] = inv[i]
<1>0. LaneOK(w) /\ TypeOK
    BY LaneFacts
<1>1. lane[w].pc \in Working /\ lane[w].status \in Started /\ Holds(w)
  <2>1. CASE StopInvocation(w) \/ FailInvocation(w)
      BY <2>1 DEF StopInvocation, FailInvocation, Save, Working
  <2>2. CASE \E status \in Statuses : SaveObserved(w, status) \/ SaveCreated(w, status)
    <3>1. lane[w].pc \in {"checked", "created"} /\ Holds(w)
        BY <2>2 DEF SaveObserved, SaveCreated, Save
    <3> QED
        BY <1>0, <3>1 DEF LaneOK, WorkingOK, Working
  <2> QED
      BY <2>1, <2>2
<1>2. lane[w].id # i
    BY <1>0, <1>1 DEF LaneOK, WorkingOK, Started, Finished
<1>3. \E row : inv' = [inv EXCEPT ![lane[w].id] = row]
    BY DEF StopInvocation, FailInvocation, SaveObserved, SaveCreated, Save
<1> QED
    BY <1>0, <1>2, <1>3 DEF TypeOK

\* What a step may do to a receipt that has ended.
LEMMA OutcomeStep ==
    ASSUME IInv, [Next]_vars, NEW i \in Ids, inv[i].status \in Finished
    PROVE  inv'[i].status \in {inv[i].status, "deleted"}
<1>0. TypeOK /\ inv[i] \in Receipt
    BY DEF IInv, TypeOK
<1>1. CASE Caller
  <2>1. ASSUME NEW k \in Ids, Enqueue(k) \/ CancelInvocation(k) PROVE inv'[i].status = inv[i].status
    <3>1. CASE Enqueue(k)
        BY <1>0, <3>1 DEF Enqueue, TypeOK, Finished
    <3>2. CASE CancelInvocation(k)
        BY <1>0, <3>2 DEF CancelInvocation, TypeOK, Finished, Started
    <3> QED
        BY <2>1, <3>1, <3>2
  <2>2. CASE Revoke
      BY <2>2 DEF Revoke
  <2>3. CASE AcceptDeployment
      BY <2>3 DEF AcceptDeployment, Queued, Finished
  <2> QED
      BY <1>1, <2>1, <2>2, <2>3 DEF Caller
<1>2. ASSUME NEW w \in Lanes, LaneStep(w) PROVE inv'[i].status = inv[i].status
  <2>1. CASE ClaimRow(w)
    <3>1. LaneOK(w) /\ lane[w].id \in Ids
        BY <2>1, LaneFacts DEF ClaimRow
    <3>2. CASE Leasable(lane[w].id)
      <4> DEFINE s == IF inv[lane[w].id].status = "queued" THEN "starting" ELSE inv[lane[w].id].status
      <4>1. inv' = [inv EXCEPT ![lane[w].id] =
                      [inv[lane[w].id] EXCEPT !.status = s, !.lease = w, !.lapsed = FALSE]]
          BY <1>0, <2>1, <3>1, <3>2 DEF ClaimRow, Leasable, TypeOK, Receipt
      <4>2. lane[w].id = i => s = inv[i].status
          BY DEF Finished
      <4> HIDE DEF s
      <4> QED
          BY <1>0, <3>1, <4>1, <4>2 DEF TypeOK, Receipt
    <3>3. CASE Obsolete(lane[w].id)
      <4>1. inv' = [inv EXCEPT ![lane[w].id].status = "cancelled", ![lane[w].id].age = "fresh"]
          BY <2>1, <3>3 DEF ClaimRow, Leasable
      <4>2. lane[w].id # i
          BY <3>3 DEF Obsolete, Finished
      <4> QED
          BY <1>0, <4>1, <4>2 DEF TypeOK
    <3>4. CASE ~Leasable(lane[w].id) /\ ~Obsolete(lane[w].id)
        BY <2>1, <3>4 DEF ClaimRow
    <3> QED
        BY <3>2, <3>3, <3>4
  <2>2. CASE Cleaned(w)
    <3>1. \/ inv' = inv
          \/ inv' = [inv EXCEPT ![lane[w].id].cleanup = FALSE, ![lane[w].id].lease = NoOne,
                                ![lane[w].id].lapsed = FALSE]
        BY <2>2 DEF Cleaned
    <3> QED
        BY <1>0, <3>1 DEF TypeOK, Receipt
  <2>3. CASE \/ ReadCandidate(w) \/ TryLock(w) \/ Check(w) \/ RuntimeError(w) \/ ArmCreate(w)
             \/ CreateLands(w) \/ CreateFails(w) \/ DeleteJob(w) \/ CleanupInvocation(w)
             \/ CleanupRefused(w) \/ LaneReturns(w)
      BY <2>3 DEF ReadCandidate, TryLock, Check, RuntimeError, ArmCreate, CreateLands, CreateFails,
                  DeleteJob, CleanupInvocation, CleanupRefused, LaneReturns
  <2> QED
      BY <1>2, <2>1, <2>2, <2>3, SaveKeepsOutcome DEF LaneStep
<1>3. CASE DeployStep
    BY <1>3 DEF DeployStep, DeployClaim, DeployEnd
<1>4. ASSUME NEW k \in Ids, Outside(k) \/ Pass(k) \/ JobRemoved(k) \/ Lapse(k) \/ DeleteReceipt(k)
      PROVE  inv'[i].status \in {inv[i].status, "deleted"}
  <2>1. CASE Pass(k) \/ Lapse(k)
    <3>1. \/ \E age : inv' = [inv EXCEPT ![k].age = age]
          \/ inv' = [inv EXCEPT ![k].lapsed = TRUE]
        BY <2>1 DEF Pass, MinutePasses, TenMinutesPass, Lapse
    <3> QED
        BY <1>0, <3>1 DEF TypeOK, Receipt
  <2>2. CASE DeleteReceipt(k)
    <3>1. NoReceipt \in Receipt
        BY BlankTypes
    <3> QED
        BY <1>0, <2>2, <3>1 DEF DeleteReceipt, TypeOK, Receipt
  <2>3. CASE JobRemoved(k) \/ FlyingEnds(k) \/ \E state \in {"completed", "failed"} : JobEnds(k, state)
      BY <2>3 DEF JobRemoved, FlyingEnds, JobEnds
  <2> QED
      BY <1>4, <2>1, <2>2, <2>3 DEF Outside
<1>5. ASSUME NEW w \in Lanes, SessionLost(w) \/ Crash(w) PROVE inv'[i].status = inv[i].status
    BY <1>5 DEF SessionLost, Crash
<1>6. CASE UNCHANGED vars
    BY <1>6 DEF vars
<1> QED
    BY <1>1, <1>2, <1>3, <1>4, <1>5, <1>6 DEF Next

\* The outcome of an invocation is final: no later observation, cancellation,
\* deployment or second lane writes another one.
THEOREM OutcomeIsFinal == Spec => OutcomeStays
<1>1. IInv /\ [Next]_vars => [\A i \in Ids : inv[i].status \in Finished =>
                                 inv'[i].status \in {inv[i].status, "deleted"}]_vars
    BY OutcomeStep
<1> QED
    BY <1>1, InvocationsInductive, PTL DEF Spec, OutcomeStays

\* What a step may do to the number of Jobs of an invocation.
LEMMA CreatedStep ==
    ASSUME IInv, [Next]_vars, NEW i \in Ids, inv[i].uid # 0, i \notin late'
    PROVE  created'[i] = created[i]
<1>0. TypeOK
    BY DEF IInv
<1>1. CASE Caller
    BY <1>1 DEF Caller, Enqueue, CancelInvocation, Revoke, AcceptDeployment
<1>2. ASSUME NEW w \in Lanes, LaneStep(w) PROVE created'[i] = created[i]
  <2>1. CASE CreateLands(w)
    <3>1. LaneOK(w) /\ lane[w].id \in Ids /\ lane[w].pc = "armed" /\ Create(lane[w].id, lock = w)
        BY <2>1, LaneFacts DEF CreateLands
    <3>2. lock = w => inv[lane[w].id].uid = 0
        BY <3>1 DEF LaneOK, WorkingOK, Working, Holds, Started
    <3>3. (lock = w) \in BOOLEAN
        OBVIOUS
    <3>4. CASE lane[w].id # i
        BY <1>0, <3>1, <3>3, <3>4, CreateTypes
    <3>5. CASE lane[w].id = i
      <4>1. lock # w
          BY <3>2, <3>5
      <4>2. Create(i, FALSE)
          BY <3>1, <3>5, <4>1 DEF Create
      <4> QED
          BY <1>0, <4>2, CreateTypes
    <3> QED
        BY <3>4, <3>5
  <2>2. CASE \/ StopInvocation(w) \/ FailInvocation(w)
             \/ \E status \in Statuses : SaveObserved(w, status) \/ SaveCreated(w, status)
      BY <2>2 DEF StopInvocation, FailInvocation, SaveObserved, SaveCreated, Save
  <2>3. CASE \/ ReadCandidate(w) \/ TryLock(w) \/ Check(w) \/ RuntimeError(w) \/ ArmCreate(w)
             \/ CreateFails(w) \/ DeleteJob(w) \/ CleanupInvocation(w)
             \/ CleanupRefused(w) \/ LaneReturns(w) \/ ClaimRow(w) \/ Cleaned(w)
      BY <2>3 DEF ReadCandidate, TryLock, Check, RuntimeError, ArmCreate, CreateFails, DeleteJob,
                  CleanupInvocation, CleanupRefused, LaneReturns, ClaimRow, Cleaned
  <2> QED
      BY <1>2, <2>1, <2>2, <2>3 DEF LaneStep
<1>3. CASE DeployStep
    BY <1>3 DEF DeployStep, DeployClaim, DeployEnd
<1>4. ASSUME NEW k \in Ids, Outside(k) \/ Pass(k) \/ JobRemoved(k) \/ Lapse(k) \/ DeleteReceipt(k)
      PROVE  created'[i] = created[i]
  <2>1. CASE FlyingEnds(k)
      BY <1>0, <2>1, CreateTypes DEF FlyingEnds
  <2> QED
      BY <1>4, <2>1 DEF Outside, JobRemoved, JobEnds, Pass, MinutePasses, TenMinutesPass, Lapse, DeleteReceipt
<1>5. ASSUME NEW w \in Lanes, SessionLost(w) \/ Crash(w) PROVE created'[i] = created[i]
    BY <1>5 DEF SessionLost, Crash
<1>6. CASE UNCHANGED vars
    BY <1>6 DEF vars
<1> QED
    BY <1>1, <1>2, <1>3, <1>4, <1>5, <1>6 DEF Next

\* Once its UID is recorded a Job is never created again under the lock: a lane
\* that holds the lock and is about to create has read a receipt without a UID.
THEOREM CreatedOnceRecorded == Spec => NeverRecreated
<1>1. IInv /\ [Next]_vars =>
        [\A i \in Ids : inv[i].uid # 0 /\ i \notin late' => created'[i] = created[i]]_vars
    BY CreatedStep
<1> QED
    BY <1>1, InvocationsInductive, PTL DEF Spec, NeverRecreated

=============================================================================

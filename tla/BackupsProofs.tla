--------------------------- MODULE BackupsProofs ---------------------------
(***************************************************************************)
(* Proofs about Backups, for every number of loops, removals, jobs,        *)
(* cancellations and faults.                                               *)
(***************************************************************************)
EXTENDS Backups, FiniteSetTheorems, WellFoundedInduction, TLAPS

-----------------------------------------------------------------------------
(* The inductive invariant.                                                *)

\* The loop has claimed job j and has not come to its end.
WorksOn(w, j) == worker[w].pc # "idle" /\ worker[w].job = j

\* The engine may still write objects of the job.
Writing(j) == engine[j] \in {"working", "cut"}

\* The job has not been claimed yet.
Untouched(j) ==
    \/ job[j].status = "absent"
    \/ job[j].status = "queued" /\ ~job[j].ref

\* What is true of every job, its artifact and its objects.
JobOK(j) ==
    /\ job[j].status = "absent" => job[j] = NoRow
    /\ job[j].lease # NoOne =>
         job[j].status = "running" /\ WorksOn(job[j].lease, j)
    /\ job[j].ref => job[j].engine
    /\ engine[j] # "idle" => job[j].engine
    /\ Untouched(j) => started[j] = 0
    /\ job[j].status = "succeeded" => ~Writing(j)
    /\ artifact[j] # "none" => job[j].status = "succeeded" /\ job[j].of = 0
    /\ artifact[j] = "live" => object[j] = "full"
    /\ artifact[j] = "deleted" => object[j] = "none"
    /\ job[j].status \in Active /\ job[j].of # 0 => artifact[job[j].of] = "live"

\* The loop's work, if it still counts, is complete.
Complete(w, n) ==
    /\ ~n.cancel /\ ~Writing(n.job)
    /\ job[n.job].engine => n.ref
    /\ job[n.job].of = 0 /\ job[n.job].lease = w => object[n.job] = "full"

\* A loop that was to stop the engine: nobody completes its job any more.
Hopeless(n) ==
    /\ n.ref /\ job[n.job].cancel /\ job[n.job].status # "succeeded"
    /\ job[n.job].lease # NoOne => worker[job[n.job].lease].cancel
    /\ n.pc \in {"claimed", "work", "finish"}

\* What is true of the state n of a loop w that has claimed a job.
BusyOK(w, n) ==
    /\ n.job \in Jobs /\ ~Untouched(n.job)
    /\ n.ref => job[n.job].ref
    /\ ~n.ref => IF job[n.job].ref THEN n.pc = "park"
                                   ELSE job[n.job].status # "succeeded"
    /\ n.pc \in {"claimed", "work", "verified"} /\ ~n.ref => started[n.job] = 0
    /\ n.pc \in {"uploaded", "verified"} => ~job[n.job].engine
    /\ n.pc = "uploaded" => job[n.job].of = 0
    /\ n.pc = "verified" => job[n.job].of # 0
    /\ n.pc = "accepted" => job[n.job].engine /\ ~n.ref
    /\ n.pc = "park" => job[n.job].ref
    /\ n.pc = "confirm" => n.ref /\ ~n.cancel /\ ~Writing(n.job)
    /\ n.pc = "finish" => n.outcome \in Ended
    /\ n.pc = "finish" /\ n.outcome = "succeeded" => Complete(w, n)
    /\ n.cancel => Hopeless(n)

LoopOK(w, n) == n.pc # "idle" => BusyOK(w, n)

\* What is true of a removal: it has marked the artifact before it deletes.
RemovalOK(r) ==
    /\ remover[r].pc # "idle" => remover[r].art \in Jobs
    /\ remover[r].pc \in {"objects", "manifest", "mark"} =>
         artifact[remover[r].art] \in {"pending", "deleted"}
    /\ remover[r].pc = "mark" => object[remover[r].art] = "none"

JobsOK == \A j \in Jobs : JobOK(j)
LoopsOK == \A w \in Workers : LoopOK(w, worker[w])
RemovalsOK == \A r \in Removers : RemovalOK(r)

\* A job is claimed once without a reference, whatever happens to its loop.
ClaimedOnce ==
    \A v, w \in Workers, j \in Jobs :
        WorksOn(v, j) /\ WorksOn(w, j) /\ ~worker[v].ref /\ ~worker[w].ref => v = w

\* One job at most runs without a reference, and none during a resize.
OneSlot ==
    /\ \A i, j \in Jobs :
         /\ job[i].status = "running" /\ ~job[i].ref
         /\ job[j].status = "running" /\ ~job[j].ref
         => i = j
    /\ resize => \A j \in Jobs : job[j].status # "running"

TypeOK ==
    /\ job \in [Jobs -> Row] /\ worker \in [Workers -> Loop]
    /\ remover \in [Removers -> Removal]
    /\ artifact \in [Jobs -> {"none", "live", "pending", "deleted"}]
    /\ object \in [Jobs -> {"none", "partial", "full"}]
    /\ engine \in [Jobs -> {"idle", "working", "cut", "done", "failed",
                            "overdue"}]
    /\ started \in [Jobs -> 0..1]

IInv ==
    /\ TypeOK
    /\ JobsOK
    /\ LoopsOK
    /\ ClaimedOnce
    /\ OneSlot
    /\ RemovalsOK

-----------------------------------------------------------------------------
(* Initial states.                                                         *)

\* The invariant holds before any job is queued.
LEMMA InitIInv == Init => IInv
<1> SUFFICES ASSUME Init PROVE IInv
    OBVIOUS
<1> USE DEF Init
<1>0. 0 \in 0..MaxJobs /\ 0 \in 0..1
    BY BackupsAssumption
<1>1. TypeOK
  <2>1. NoRow \in Row
      BY <1>0, Zenon DEF NoRow, Row
  <2>2. Idle \in Loop
      BY <1>0, Zenon DEF Idle, Loop
  <2>3. NoRemoval \in Removal
      BY <1>0, Zenon DEF NoRemoval, Removal
  <2> QED
      BY <1>0, <2>1, <2>2, <2>3 DEF TypeOK
<1>2. JobsOK
    BY DEF JobsOK, JobOK, NoRow, Active, Writing
<1>3. LoopsOK /\ ClaimedOnce
    BY DEF LoopsOK, LoopOK, ClaimedOnce, WorksOn, Idle
<1>4. OneSlot
    BY DEF OneSlot, NoRow
<1>5. RemovalsOK
    BY DEF RemovalsOK, RemovalOK, NoRemoval
<1> QED
    BY <1>1, <1>2, <1>3, <1>4, <1>5 DEF IInv

-----------------------------------------------------------------------------
(* Steps that concern one job.                                             *)

\* Nothing changes but job j, its artifact and objects, the loops that leave
\* it or take it up, and the removals of its artifact.  An artifact that a
\* restore uses stays.
Local(j) ==
    /\ \A i \in Jobs \ {j} :
         /\ job'[i] = job[i] /\ artifact'[i] = artifact[i]
         /\ object'[i] = object[i] /\ engine'[i] = engine[i]
         /\ started'[i] = started[i]
    /\ artifact[j] = "live" /\ InUse(j) => artifact'[j] = "live"
    /\ \A v \in Workers :
         \/ worker'[v] = worker[v]
         \/ /\ worker[v].pc = "idle" \/ worker[v].job = j
            /\ worker'[v].pc = "idle" \/ worker'[v].job = j
    /\ \A r \in Removers :
         remover'[r] = remover[r] \/ remover'[r].pc = "idle" \/ remover'[r].art = j

\* What a step that concerns job j has to show.
Settled(j) ==
    /\ JobOK(j)
    /\ \A v \in Workers : WorksOn(v, j) => BusyOK(v, worker[v])
    /\ \A v, w \in Workers :
         WorksOn(v, j) /\ WorksOn(w, j) /\ ~worker[v].ref /\ ~worker[w].ref => v = w
    /\ \A r \in Removers :
         remover[r].pc # "idle" /\ remover[r].art = j => RemovalOK(r)
    /\ OneSlot

\* A step that concerns job j preserves what is true of all others.
LEMMA LocalIInv ==
    ASSUME IInv, NEW j \in Jobs, Local(j), TypeOK', Settled(j)'
    PROVE  IInv'
<1> USE DEF Local
<1>1. JobsOK'
  <2> SUFFICES ASSUME NEW i \in Jobs, i # j PROVE JobOK(i)'
      BY DEF JobsOK, Settled
  <2>1. JobOK(i) /\ job[i] \in Row
      BY DEF IInv, JobsOK, TypeOK
  <2>2. job[i].lease # NoOne => WorksOn(job[i].lease, i)'
      BY <2>1 DEF JobOK, WorksOn, Row
  <2>3. job[i].status \in Active /\ job[i].of # 0 => artifact'[job[i].of] = "live"
      BY <2>1 DEF JobOK, InUse, ActiveJobs, Row, Jobs
  <2> QED
      BY <2>1, <2>2, <2>3 DEF JobOK, Untouched, Writing
<1>2. LoopsOK'
  <2> SUFFICES ASSUME NEW v \in Workers, worker'[v].pc # "idle",
                      worker'[v].job # j
               PROVE  BusyOK(v, worker[v])'
      BY DEF LoopsOK, LoopOK, Settled, WorksOn
  <2>1. worker'[v] = worker[v] /\ BusyOK(v, worker[v])
      BY DEF IInv, LoopsOK, LoopOK
  <2> DEFINE i == worker[v].job
  <2>2. i \in Jobs \ {j} /\ JobOK(i) /\ job[i] \in Row
      BY <2>1 DEF BusyOK, IInv, JobsOK, TypeOK
  <2>3. job[i].lease # NoOne => worker'[job[i].lease] = worker[job[i].lease]
      BY <2>2 DEF JobOK, WorksOn, Row
  <2> QED
      BY <2>1, <2>2, <2>3 DEF BusyOK, Complete, Hopeless, Untouched, Writing
<1>3. ClaimedOnce'
  <2> SUFFICES ASSUME NEW v \in Workers, NEW w \in Workers, NEW i \in Jobs, i # j,
                      WorksOn(v, i)', WorksOn(w, i)',
                      ~worker'[v].ref, ~worker'[w].ref
               PROVE  v = w
      BY DEF ClaimedOnce, Settled
  <2>1. worker'[v] = worker[v] /\ worker'[w] = worker[w]
      BY DEF WorksOn
  <2> QED
      BY <2>1 DEF WorksOn, IInv, ClaimedOnce
<1>4. RemovalsOK'
  <2> SUFFICES ASSUME NEW r \in Removers, remover'[r].pc # "idle",
                      remover'[r].art # j
               PROVE  RemovalOK(r)'
      BY DEF RemovalsOK, RemovalOK, Settled
  <2>1. remover'[r] = remover[r] /\ RemovalOK(r)
      BY DEF IInv, RemovalsOK
  <2> QED
      BY <2>1 DEF RemovalOK
<1> QED
    BY <1>1, <1>2, <1>3, <1>4 DEF IInv, Settled

-----------------------------------------------------------------------------
(* Steps of a loop that has claimed a job.                                 *)

\* What a loop that is not idle may rely on.
LEMMA BusyFacts ==
    ASSUME IInv, NEW w \in Workers, worker[w].pc # "idle"
    PROVE  /\ worker[w] \in Loop /\ worker[w].job \in Jobs
           /\ BusyOK(w, worker[w])
           /\ JobOK(worker[w].job) /\ job[worker[w].job] \in Row
<1>1. BusyOK(w, worker[w]) /\ worker[w] \in Loop
    BY DEF IInv, LoopsOK, LoopOK, TypeOK
<1>2. worker[w].job \in Jobs
    BY <1>1 DEF BusyOK
<1> QED
    BY <1>1, <1>2 DEF IInv, JobsOK, TypeOK

\* The loop goes on with its job and touches no row.
LoopActs(w) ==
    /\ worker[w].pc # "idle" /\ worker' = [worker EXCEPT ![w] = worker'[w]]
    /\ worker'[w].pc # "idle" /\ worker'[w].job = worker[w].job
    /\ worker'[w].ref = worker[w].ref /\ worker'[w].cancel = worker[w].cancel
    /\ UNCHANGED <<job, artifact, resize, remover>>

\* It may change what object storage and the engine hold of its job.
LEMMA LoopActsIInv ==
    ASSUME IInv, NEW w \in Workers, LoopActs(w), TypeOK',
           \A i \in Jobs \ {worker[w].job} :
               /\ object'[i] = object[i] /\ engine'[i] = engine[i]
               /\ started'[i] = started[i],
           JobOK(worker[w].job)', BusyOK(w, worker[w])',
           \A v \in Workers \ {w} :
               WorksOn(v, worker[w].job) => BusyOK(v, worker[v])',
           \A r \in Removers :
               remover[r].pc # "idle" /\ remover[r].art = worker[w].job => RemovalOK(r)'
    PROVE  IInv'
<1>j. PICK j \in Jobs : j = worker[w].job
    BY BusyFacts DEF LoopActs
<1>0. TypeOK
    BY DEF IInv
<1>1. \A v \in Workers \ {w} : worker'[v] = worker[v]
    BY <1>0 DEF LoopActs, TypeOK
<1>2. Local(j)
    BY <1>j, <1>0, <1>1 DEF Local, LoopActs
<1>3. Settled(j)'
  <2>1. OneSlot'
      BY DEF IInv, OneSlot, LoopActs
  <2>2. \A u, v \in Workers :
           WorksOn(u, j)' /\ WorksOn(v, j)' /\ ~worker'[u].ref /\ ~worker'[v].ref
           => u = v
      BY <1>j, <1>0, <1>1 DEF IInv, ClaimedOnce, WorksOn, LoopActs
  <2>3. \A v \in Workers : WorksOn(v, j)' => BusyOK(v, worker[v])'
      BY <1>j, <1>1 DEF WorksOn
  <2>4. \A r \in Removers :
           remover'[r].pc # "idle" /\ remover'[r].art = j => RemovalOK(r)'
      BY <1>j DEF LoopActs
  <2>5. JobOK(j)'
      BY <1>j DEF LoopActs
  <2> QED
      BY <2>1, <2>2, <2>3, <2>4, <2>5 DEF Settled
<1> QED
    BY <1>0, <1>2, <1>3, LocalIInv

\* The loop only goes to another point of its work.
LEMMA LoopMovesIInv ==
    ASSUME IInv, NEW w \in Workers, LoopActs(w), worker'[w] \in Loop,
           UNCHANGED <<object, engine, started>>, BusyOK(w, worker'[w])
    PROVE  IInv'
<1> DEFINE j == worker[w].job
<1>0. j \in Jobs /\ TypeOK /\ JobOK(j) /\ job[j] \in Row
    BY BusyFacts DEF LoopActs, IInv
<1>1. TypeOK'
    BY <1>0 DEF TypeOK, LoopActs
<1>2. \A v \in Workers \ {w} : worker'[v] = worker[v]
    BY <1>0 DEF LoopActs, TypeOK
<1>3. \A v \in Workers : worker'[v].cancel = worker[v].cancel
    BY <1>2 DEF LoopActs
<1>4. JobOK(j)'
  <2>1. job[j].lease # NoOne => WorksOn(job[j].lease, j)'
      BY <1>0, <1>2 DEF JobOK, WorksOn, Row, LoopActs
  <2> QED
      BY <1>0, <2>1 DEF JobOK, LoopActs, Untouched, Writing
<1>5. \A n : \A v \in Workers : BusyOK(v, n) /\ n.job = j => BusyOK(v, n)'
    BY <1>0, <1>3 DEF BusyOK, Complete, Hopeless, Untouched, Writing, LoopActs, Row
<1>6. BusyOK(w, worker[w])'
    BY <1>5 DEF LoopActs, BusyOK
<1>7. ASSUME NEW v \in Workers \ {w}, WorksOn(v, j) PROVE BusyOK(v, worker[v])'
    BY <1>2, <1>5, <1>7, BusyFacts DEF WorksOn
<1>8. \A r \in Removers : RemovalOK(r)'
    BY DEF LoopActs, IInv, RemovalsOK, RemovalOK
<1>9. worker'[w].job = j
    BY DEF LoopActs
<1> QED
    BY <1>1, <1>4, <1>6, <1>7, <1>8, <1>9, LoopActsIInv

\* An error takes the loop to the end of its job.
LEMMA FailedOutcome ==
    ASSUME NEW w \in Workers, Failed(w)
    PROVE  \E o \in {"failed", "cancelled"} : Finishing(w, o)
    BY DEF Failed

\* A loop may give up at any point of its work before it has parked the job.
LEMMA GivesUpIInv ==
    ASSUME IInv, NEW w \in Workers, worker[w].pc \notin {"idle", "park"},
           NEW o \in {"failed", "cancelled"}, Finishing(w, o),
           UNCHANGED <<job, artifact, object, engine, started, resize, remover>>
    PROVE  IInv'
<1>1. worker[w] \in Loop /\ BusyOK(w, worker[w])
    BY BusyFacts
<1>2. worker \in [Workers -> Loop]
    BY DEF IInv, TypeOK
<1>3. worker'[w] = [worker[w] EXCEPT !.pc = "finish", !.outcome = o]
    BY <1>2 DEF Finishing
<1>4. worker'[w] \in Loop
    BY <1>1, <1>3 DEF Loop, Ended
<1>5. LoopActs(w)
    BY <1>1, <1>2, <1>3 DEF LoopActs, Finishing, Loop
<1>6. BusyOK(w, worker'[w])
    BY <1>1, <1>3 DEF BusyOK, Loop, Complete, Hopeless, Ended
<1> QED
    BY <1>4, <1>5, <1>6, LoopMovesIInv

\* The loop goes to pc.
LEMMA GoesIInv ==
    ASSUME IInv, NEW w \in Workers, worker[w].pc # "idle",
           NEW pc, Goes(w, pc), pc \in {"work", "verified", "park", "confirm"},
           UNCHANGED <<job, artifact, object, engine, started, resize, remover>>,
           BusyOK(w, [worker[w] EXCEPT !.pc = pc])
    PROVE  IInv'
<1>1. worker[w] \in Loop
    BY BusyFacts
<1>2. worker \in [Workers -> Loop]
    BY DEF IInv, TypeOK
<1>3. worker'[w] = [worker[w] EXCEPT !.pc = pc]
    BY <1>2 DEF Goes
<1>4. worker'[w] \in Loop
    BY <1>1, <1>3 DEF Loop
<1>5. LoopActs(w)
    BY <1>1, <1>2, <1>3 DEF LoopActs, Goes, Loop
<1> QED
    BY <1>3, <1>4, <1>5, LoopMovesIInv

\* RunOnce's first heartbeat, with or without the lease.
LEMMA FirstHeartbeatIInv == ASSUME IInv, NEW w \in Workers, FirstHeartbeat(w) PROVE IInv'
<1> USE DEF FirstHeartbeat
<1>1. worker[w] \in Loop /\ BusyOK(w, worker[w]) /\ worker[w].pc = "claimed"
    BY BusyFacts
<1>2. CASE Finishing(w, "cancelled")
    BY <1>1, <1>2, GivesUpIInv
<1>3. CASE worker' = [worker EXCEPT ![w].pc = "work"]
  <2>1. BusyOK(w, [worker[w] EXCEPT !.pc = "work"])
      BY <1>1 DEF BusyOK, Complete, Hopeless, Loop
  <2> QED
      BY <1>1, <1>3, <2>1, GoesIInv DEF Goes
<1> QED
    BY <1>2, <1>3

\* A destination, target or artifact that cannot be resolved.
LEMMA WorkFailsIInv == ASSUME IInv, NEW w \in Workers, WorkFails(w) PROVE IInv'
<1>1. worker[w].pc = "work"
    BY DEF WorkFails, At
<1>2. PICK o \in {"failed", "cancelled"} : Finishing(w, o)
    BY FailedOutcome DEF WorkFails
<1> QED
    BY <1>1, <1>2, GivesUpIInv DEF WorkFails, jobVars

\* The download of an archive that a restore reads.
LEMMA FetchArchiveIInv == ASSUME IInv, NEW w \in Workers, FetchArchive(w) PROVE IInv'
<1>1. worker[w] \in Loop /\ BusyOK(w, worker[w]) /\ worker[w].pc = "work"
      /\ JobOK(worker[w].job)
    BY BusyFacts DEF FetchArchive, At
<1>2. BusyOK(w, [worker[w] EXCEPT !.pc = "verified"])
    BY <1>1 DEF BusyOK, Hopeless, Loop, FetchArchive, Mine, JobOK
<1> QED
    BY <1>1, <1>2, GoesIInv DEF FetchArchive, jobVars

\* One poll of the engine.
LEMMA PollEngineIInv == ASSUME IInv, NEW w \in Workers, PollEngine(w) PROVE IInv'
<1> USE DEF PollEngine
<1> DEFINE j == worker[w].job
<1>1. worker[w] \in Loop /\ BusyOK(w, worker[w]) /\ worker[w].pc = "work"
      /\ JobOK(j) /\ job[j] \in Row /\ ~worker[w].cancel
    BY BusyFacts DEF At
<1>2. worker[w].ref /\ job[j].ref
    BY <1>1 DEF BusyOK, Mine, Row, Loop
<1>u. UNCHANGED <<job, artifact, object, engine, started, resize, remover>>
    BY DEF jobVars
<1>3. CASE Failed(w)
  <2>1. PICK o \in {"failed", "cancelled"} : Finishing(w, o)
      BY <1>3, FailedOutcome
  <2> QED
      BY <1>1, <1>u, <2>1, GivesUpIInv
<1>4. CASE Goes(w, "park")
  <2>1. BusyOK(w, [worker[w] EXCEPT !.pc = "park"])
      BY <1>1, <1>2 DEF BusyOK, Loop
  <2> QED
      BY <1>1, <1>u, <1>4, <2>1, GoesIInv
<1>5. CASE engine[j] = "done" /\ Goes(w, "confirm")
  <2>1. BusyOK(w, [worker[w] EXCEPT !.pc = "confirm"])
      BY <1>1, <1>2, <1>5 DEF BusyOK, Loop, Writing
  <2> QED
      BY <1>1, <1>u, <1>5, <2>1, GoesIInv
<1>6. CASE engine[j] = "done" /\ Mine(w).of # 0 /\ Finishing(w, "succeeded")
  <2>1. worker \in [Workers -> Loop]
      BY DEF IInv, TypeOK
  <2>2. worker'[w] = [worker[w] EXCEPT !.pc = "finish", !.outcome = "succeeded"]
      BY <1>6, <2>1 DEF Finishing
  <2>3. worker'[w] \in Loop
      BY <1>1, <2>2 DEF Loop, Ended
  <2>4. LoopActs(w)
      BY <1>1, <1>u, <1>6, <2>1, <2>2 DEF LoopActs, Finishing, Loop
  <2>5. BusyOK(w, worker'[w])
      BY <1>1, <1>2, <1>6, <2>2 DEF BusyOK, Loop, Complete, Ended, Writing, Mine
  <2> QED
      BY <1>u, <2>3, <2>4, <2>5, LoopMovesIInv
<1> QED
    BY <1>3, <1>4, <1>5, <1>6

\* The engine's backup is compared with what object storage holds.
LEMMA ConfirmObjectsIInv == ASSUME IInv, NEW w \in Workers, ConfirmObjects(w) PROVE IInv'
<1> USE DEF ConfirmObjects
<1> DEFINE j == worker[w].job
<1>1. worker[w] \in Loop /\ BusyOK(w, worker[w]) /\ worker[w].pc = "confirm"
    BY BusyFacts DEF At
<1>u. UNCHANGED <<job, artifact, object, engine, started, resize, remover>>
    BY DEF jobVars
<1>2. CASE Failed(w)
  <2>1. PICK o \in {"failed", "cancelled"} : Finishing(w, o)
      BY <1>2, FailedOutcome
  <2> QED
      BY <1>1, <1>u, <2>1, GivesUpIInv
<1>3. CASE object[j] = "full" /\ Finishing(w, "succeeded")
  <2>1. worker \in [Workers -> Loop]
      BY DEF IInv, TypeOK
  <2>2. worker'[w] = [worker[w] EXCEPT !.pc = "finish", !.outcome = "succeeded"]
      BY <1>3, <2>1 DEF Finishing
  <2>3. worker'[w] \in Loop
      BY <1>1, <2>2 DEF Loop, Ended
  <2>4. LoopActs(w)
      BY <1>1, <1>u, <1>3, <2>1, <2>2 DEF LoopActs, Finishing, Loop
  <2>5. BusyOK(w, worker'[w])
      BY <1>1, <1>3, <2>2 DEF BusyOK, Loop, Complete, Ended, Writing
  <2> QED
      BY <1>u, <2>3, <2>4, <2>5, LoopMovesIInv
<1> QED
    BY <1>2, <1>3

\* No other loop works on a job that has no reference.
LEMMA AloneWithoutRef ==
    ASSUME IInv, NEW w \in Workers, worker[w].pc # "idle",
           ~job[worker[w].job].ref,
           NEW v \in Workers \ {w}
    PROVE  ~WorksOn(v, worker[w].job)
<1> SUFFICES ASSUME WorksOn(v, worker[w].job) PROVE FALSE
    OBVIOUS
<1>1. BusyOK(w, worker[w]) /\ worker[w] \in Loop /\ worker[w].job \in Jobs
    BY BusyFacts
<1>2. BusyOK(v, worker[v]) /\ worker[v] \in Loop
    BY BusyFacts DEF WorksOn
<1>3. ~worker[w].ref /\ ~worker[v].ref
    BY <1>1, <1>2 DEF BusyOK, WorksOn
<1> QED
    BY <1>1, <1>3 DEF IInv, ClaimedOnce, WorksOn

\* A step on the objects of a job that has not succeeded concerns no removal.
LEMMA NotRemoved ==
    ASSUME IInv, NEW j \in Jobs, job[j].status # "succeeded",
           UNCHANGED <<artifact, remover>>,
           \A i \in Jobs \ {j} : object'[i] = object[i],
           NEW r \in Removers
    PROVE  RemovalOK(r)'
<1>1. RemovalOK(r) /\ JobOK(j)
    BY DEF IInv, RemovalsOK, JobsOK
<1> QED
    BY <1>1 DEF RemovalOK, JobOK

\* A loop that works alone on a job that has not succeeded may change its
\* objects, if what it says of them afterwards is true.
LEMMA AloneIInv ==
    ASSUME IInv, NEW w \in Workers, LoopActs(w), TypeOK',
           ~job[worker[w].job].ref,
           \A i \in Jobs \ {worker[w].job} :
               /\ object'[i] = object[i] /\ engine'[i] = engine[i]
               /\ started'[i] = started[i],
           engine'[worker[w].job] # "idle" => job[worker[w].job].engine,
           BusyOK(w, worker[w])'
    PROVE  IInv'
<1>j. PICK j \in Jobs : j = worker[w].job
    BY BusyFacts DEF LoopActs
<1>0. TypeOK /\ BusyOK(w, worker[w]) /\ worker[w] \in Loop /\ JobOK(j) /\ job[j] \in Row
    BY <1>j, BusyFacts DEF LoopActs, IInv
<1>1. \A v \in Workers \ {w} : ~WorksOn(v, j)
    BY <1>j, AloneWithoutRef DEF LoopActs
<1>2. job[j].status # "succeeded" /\ ~Untouched(j)
    BY <1>0, <1>j DEF BusyOK
<1>3. \A r \in Removers : RemovalOK(r)'
    BY <1>j, <1>2, NotRemoved DEF LoopActs
<1>4. JobOK(j)'
  <2>1. job[j].lease # NoOne => WorksOn(job[j].lease, j)'
      BY <1>0, <1>1, <1>j DEF JobOK, WorksOn, Row, LoopActs
  <2> QED
      BY <1>0, <1>2, <2>1, <1>j DEF JobOK, LoopActs, Untouched
<1>5. JobOK(worker[w].job)'
    BY <1>4, <1>j DEF LoopActs
<1> QED
    BY <1>1, <1>3, <1>5, <1>j, LoopActsIInv

\* A dump is streamed for the first time, with or without the lease.
LEMMA StreamDumpIInv == ASSUME IInv, NEW w \in Workers, StreamDump(w) PROVE IInv'
<1> USE DEF StreamDump
<1>j. PICK j \in Jobs : j = worker[w].job
    BY BusyFacts DEF At
<1>1. /\ worker[w] \in Loop /\ BusyOK(w, worker[w]) /\ worker[w].pc = "work"
      /\ JobOK(j) /\ job[j] \in Row /\ TypeOK
    BY <1>j, BusyFacts DEF At, IInv
<1>2. ~job[j].engine /\ job[j].of = 0 /\ ~job[j].ref /\ ~worker[w].ref
      /\ started[j] = 0 /\ ~worker[w].cancel
    BY <1>1, <1>j DEF BusyOK, Mine, JobOK, Hopeless
<1>3. worker'[w] = [worker[w] EXCEPT !.pc = "uploaded"]
    BY <1>1 DEF Goes, TypeOK
<1>4. worker'[w] \in Loop
    BY <1>1, <1>3 DEF Loop
<1>5. started' = [started EXCEPT ![j] = 1] /\ object' = [object EXCEPT ![j] = "partial"]
  <2>1. started' = [started EXCEPT ![j] = started[j] + 1]
      BY <1>j
  <2>2. started[j] + 1 = 1
      BY <1>2
  <2> QED
      BY <1>j, <2>1, <2>2, Zenon
<1>6. TypeOK'
  <2>1. started \in [Jobs -> 0..1] /\ 1 \in 0..1
      BY <1>1 DEF TypeOK
  <2>2. started' \in [Jobs -> 0..1]
      BY <1>5, <2>1, Zenon
  <2> QED
      BY <1>1, <1>4, <1>5, <2>2 DEF TypeOK, Goes
<1>7. LoopActs(w)
    BY <1>1, <1>3 DEF LoopActs, Goes, Loop, TypeOK
<1>8. BusyOK(w, worker[w])'
    BY <1>1, <1>2, <1>3, <1>j DEF BusyOK, Loop, Untouched
<1>9. \A i \in Jobs \ {j} : object'[i] = object[i] /\ started'[i] = started[i]
    BY <1>1, <1>5 DEF TypeOK
<1> QED
    BY <1>1, <1>2, <1>6, <1>7, <1>8, <1>9, <1>j, AloneIInv DEF JobOK

\* The manifest completes an upload, or the upload is given up.
LEMMA WriteManifestIInv == ASSUME IInv, NEW w \in Workers, WriteManifest(w) PROVE IInv'
<1> USE DEF WriteManifest
<1>j. PICK j \in Jobs : j = worker[w].job
    BY BusyFacts DEF At
<1>1. /\ worker[w] \in Loop /\ BusyOK(w, worker[w]) /\ worker[w].pc = "uploaded"
      /\ JobOK(j) /\ job[j] \in Row /\ TypeOK
    BY <1>j, BusyFacts DEF At, IInv
<1>2. ~job[j].engine /\ job[j].of = 0 /\ ~job[j].ref /\ ~worker[w].ref
      /\ ~worker[w].cancel /\ engine[j] = "idle"
    BY <1>1, <1>j DEF BusyOK, JobOK, Hopeless
<1>3. PICK o \in Ended, left \in {"none", "partial", "full"} :
         /\ Finishing(w, o) /\ object' = [object EXCEPT ![j] = left]
         /\ o = "succeeded" => left = "full"
    BY <1>j, FailedOutcome DEF Ended
<1>4. worker'[w] = [worker[w] EXCEPT !.pc = "finish", !.outcome = o]
    BY <1>1, <1>3 DEF Finishing, TypeOK
<1>5. worker'[w] \in Loop
    BY <1>1, <1>4 DEF Loop
<1>6. TypeOK'
    BY <1>1, <1>3, <1>5 DEF TypeOK, Finishing
<1>7. LoopActs(w)
    BY <1>1, <1>3, <1>4 DEF LoopActs, Finishing, Loop, TypeOK
<1>8. o = "succeeded" => object'[j] = "full"
    BY <1>1, <1>3 DEF TypeOK
<1>9. BusyOK(w, worker[w])'
    BY <1>1, <1>2, <1>4, <1>8, <1>j DEF BusyOK, Complete, Loop, Untouched, Writing
<1>10. \A i \in Jobs \ {j} : object'[i] = object[i]
    BY <1>1, <1>3 DEF TypeOK
<1> QED
    BY <1>1, <1>2, <1>6, <1>7, <1>9, <1>10, <1>j, AloneIInv

\* A restore writes the new database, once.
LEMMA ApplyArchiveIInv == ASSUME IInv, NEW w \in Workers, ApplyArchive(w) PROVE IInv'
<1> USE DEF ApplyArchive
<1>j. PICK j \in Jobs : j = worker[w].job
    BY BusyFacts DEF At
<1>1. /\ worker[w] \in Loop /\ BusyOK(w, worker[w]) /\ worker[w].pc = "verified"
      /\ JobOK(j) /\ job[j] \in Row /\ TypeOK
    BY <1>j, BusyFacts DEF At, IInv
<1>2. ~job[j].engine /\ ~job[j].ref /\ ~worker[w].ref /\ started[j] = 0
      /\ ~worker[w].cancel /\ engine[j] = "idle" /\ job[j].of # 0
    BY <1>1, <1>j DEF BusyOK, JobOK, Hopeless
<1>3. PICK o \in Ended, n \in 0..1 :
         Finishing(w, o) /\ started' = [started EXCEPT ![j] = n]
  <2>1. started' = [started EXCEPT ![j] = started[j] + 1]
        \/ started' = [started EXCEPT ![j] = started[j]]
      BY <1>1, <1>j DEF TypeOK
  <2> QED
      BY <2>1, <1>2, FailedOutcome DEF Ended
<1>4. worker'[w] = [worker[w] EXCEPT !.pc = "finish", !.outcome = o]
    BY <1>1, <1>3 DEF Finishing, TypeOK
<1>5. worker'[w] \in Loop
    BY <1>1, <1>4 DEF Loop
<1>6. TypeOK'
    BY <1>1, <1>3, <1>5 DEF TypeOK, Finishing
<1>7. LoopActs(w)
    BY <1>1, <1>3, <1>4 DEF LoopActs, Finishing, Loop, TypeOK
<1>8. BusyOK(w, worker[w])'
    BY <1>1, <1>2, <1>4, <1>j DEF BusyOK, Complete, Loop, Untouched, Writing
<1>9. \A i \in Jobs \ {j} : started'[i] = started[i]
    BY <1>1, <1>3 DEF TypeOK
<1> QED
    BY <1>1, <1>2, <1>6, <1>7, <1>8, <1>9, <1>j, AloneIInv

\* The engine is asked to start, once, with or without the lease.
LEMMA StartEngineIInv == ASSUME IInv, NEW w \in Workers, StartEngine(w) PROVE IInv'
<1>j. PICK j \in Jobs : j = worker[w].job
    BY BusyFacts DEF At, StartEngine
<1>s. /\ Goes(w, "accepted") \/ Failed(w)
      /\ UNCHANGED <<job, artifact, resize, remover>>
    BY DEF StartEngine
<1>d. /\ engine' = [engine EXCEPT ![j] = "working"]
      /\ object' = [object EXCEPT ![j] = IF Mine(w).of = 0 THEN "partial" ELSE object[j]]
      /\ started' = [started EXCEPT ![j] = started[j] + 1]
    BY <1>j DEF StartEngine
<1>1. /\ worker[w] \in Loop /\ BusyOK(w, worker[w]) /\ worker[w].pc = "work"
      /\ JobOK(j) /\ job[j] \in Row /\ TypeOK
    BY <1>j, BusyFacts DEF At, IInv, StartEngine
<1>2. job[j].engine /\ ~job[j].ref /\ ~worker[w].ref /\ started[j] = 0
      /\ ~worker[w].cancel
    BY <1>1, <1>j DEF BusyOK, Mine, Hopeless, StartEngine
<1>3. PICK pc \in {"accepted", "finish"}, o \in {"none"} \cup Ended :
         /\ worker' = [worker EXCEPT ![w].pc = pc, ![w].outcome = o]
         /\ pc = "finish" => o \in Ended \ {"succeeded"}
  <2>1. CASE Failed(w)
      BY <2>1, FailedOutcome DEF Finishing, Ended
  <2>2. CASE Goes(w, "accepted")
    <3>1. worker' = [worker EXCEPT ![w].pc = "accepted",
                                   ![w].outcome = worker[w].outcome]
        BY <1>1, <2>2 DEF Goes, TypeOK, Loop
    <3> QED
        BY <1>1, <3>1 DEF Loop
  <2> QED
      BY <1>s, <2>1, <2>2
<1>4. worker'[w] = [worker[w] EXCEPT !.pc = pc, !.outcome = o]
    BY <1>1, <1>3 DEF TypeOK
<1>5. worker'[w] \in Loop
    BY <1>1, <1>4 DEF Loop
<1>6. started' = [started EXCEPT ![j] = 1] /\ 1 \in 0..1
  <2>1. started[j] + 1 = 1
      BY <1>2
  <2>2. started' = [started EXCEPT ![j] = 1]
      BY <1>d, <2>1, Zenon
  <2> QED
      BY <2>2
<1>7. TypeOK'
  <2>1. started' \in [Jobs -> 0..1]
      BY <1>1, <1>6, Zenon DEF TypeOK
  <2>2. worker' \in [Workers -> Loop]
      BY <1>1, <1>3, <1>5 DEF TypeOK
  <2> QED
      BY <1>1, <1>d, <1>s, <2>1, <2>2 DEF TypeOK
<1>8. LoopActs(w)
    BY <1>1, <1>3, <1>4, <1>s DEF LoopActs, Loop, TypeOK
<1>9. BusyOK(w, worker[w])'
  <2>1. /\ worker'[w].pc = pc /\ worker'[w].outcome = o /\ worker'[w].job = j
        /\ ~worker'[w].ref /\ ~worker'[w].cancel
      BY <1>1, <1>2, <1>4, <1>j DEF Loop
  <2>2. job[j].status # "succeeded" /\ ~Untouched(j) /\ job' = job
      BY <1>1, <1>2, <1>j, <1>s DEF BusyOK
  <2> QED
      BY <1>2, <1>3, <2>1, <2>2 DEF BusyOK, Untouched, Ended
<1>10. \A i \in Jobs \ {j} : /\ object'[i] = object[i] /\ engine'[i] = engine[i]
                             /\ started'[i] = started[i]
    BY <1>1, <1>d DEF TypeOK
<1> QED
    BY <1>1, <1>2, <1>7, <1>8, <1>9, <1>10, <1>j, AloneIInv

\* The objects of a cancelled backup are deleted by a loop that may have lost
\* its lease to another, which then wants to stop the engine too.
LEMMA CancelEngineIInv == ASSUME IInv, NEW w \in Workers, CancelEngine(w) PROVE IInv'
<1>j. PICK j \in Jobs : j = worker[w].job
    BY BusyFacts DEF At, CancelEngine
<1>s. Finishing(w, "cancelled") /\ UNCHANGED <<job, artifact, started, resize, remover>>
    BY DEF CancelEngine
<1>1. /\ worker[w] \in Loop /\ BusyOK(w, worker[w]) /\ worker[w].pc = "work"
      /\ JobOK(j) /\ job[j] \in Row /\ TypeOK
    BY <1>j, BusyFacts DEF At, IInv, CancelEngine
<1>2. worker[w].ref /\ worker[w].cancel /\ job[j].status # "succeeded"
      /\ (job[j].lease # NoOne => worker[job[j].lease].cancel)
    BY <1>1, <1>j DEF BusyOK, Stopping, Hopeless, CancelEngine
<1>3. worker'[w] = [worker[w] EXCEPT !.pc = "finish", !.outcome = "cancelled"]
    BY <1>1, <1>s DEF Finishing, TypeOK
<1>4. worker'[w] \in Loop
    BY <1>1, <1>s, <1>3 DEF Loop, Ended
<1>5. PICK left \in {"none", "partial", "full"},
           e \in {"idle", "working", "cut", "done", "failed", "overdue"} :
         /\ object' = [object EXCEPT ![j] = left]
         /\ engine' = [engine EXCEPT ![j] = e]
         /\ (e \in {"working", "cut"}) = Writing(j) /\ (e = "idle") = (engine[j] = "idle")
  <2>1. CASE PrefixDeleted(j)
    <3>1. PICK left \in {"none", "partial"} : object' = [object EXCEPT ![j] = left]
        BY <2>1 DEF PrefixDeleted
    <3>2. PICK e \in {engine[j], "cut"} :
             /\ engine' = [engine EXCEPT ![j] = e]
             /\ e = "cut" <=> engine[j] \in {"working", "cut"}
        BY <2>1 DEF PrefixDeleted
    <3>3. engine[j] \in {"idle", "working", "cut", "done", "failed", "overdue"}
        BY <1>1 DEF TypeOK
    <3> QED
        BY <3>1, <3>2, <3>3 DEF Writing
  <2>2. CASE UNCHANGED <<object, engine>>
    <3>1. object' = [object EXCEPT ![j] = object[j]] /\ engine' = [engine EXCEPT ![j] = engine[j]]
        BY <1>1, <2>2 DEF TypeOK
    <3>2. object[j] \in {"none", "partial", "full"}
          /\ engine[j] \in {"idle", "working", "cut", "done", "failed", "overdue"}
        BY <1>1 DEF TypeOK
    <3> QED
        BY <3>1, <3>2 DEF Writing
  <2> QED
      BY <1>j, <2>1, <2>2 DEF CancelEngine
<1>6. TypeOK'
    BY <1>1, <1>s, <1>4, <1>5 DEF TypeOK, Finishing
<1>7. LoopActs(w)
    BY <1>1, <1>s, <1>3 DEF LoopActs, Finishing, Loop, TypeOK
<1>8. Writing(j)' = Writing(j) /\ (engine'[j] = "idle") = (engine[j] = "idle")
    BY <1>1, <1>5 DEF Writing, TypeOK
<1>9. \A v \in Workers : worker'[v].cancel = worker[v].cancel
    BY <1>1, <1>s, <1>3 DEF TypeOK, Finishing, Loop
<1>10. JobOK(worker[w].job)'
  <2>1. job[j].lease # NoOne => WorksOn(job[j].lease, j)'
      BY <1>1, <1>s, <1>3, <1>j DEF JobOK, WorksOn, Row, Finishing, TypeOK, Loop
  <2>2. JobOK(j)'
      BY <1>1, <1>s, <1>2, <1>8, <2>1 DEF JobOK, Untouched
  <2> QED
      BY <2>2, <1>7, <1>j DEF LoopActs
<1>11. BusyOK(w, worker[w])'
  <2>1. /\ worker'[w].pc = "finish" /\ worker'[w].outcome = "cancelled"
        /\ worker'[w].job = j /\ worker'[w].ref /\ worker'[w].cancel
      BY <1>1, <1>2, <1>3, <1>j DEF Loop
  <2>2. job[j].ref /\ job[j].cancel /\ ~Untouched(j) /\ job' = job
      BY <1>1, <1>2, <1>j, <1>s DEF BusyOK, Hopeless
  <2>3. job[j].lease # NoOne => worker'[job[j].lease].cancel
      BY <1>1, <1>2, <1>9 DEF Row
  <2> QED
      BY <1>2, <2>1, <2>2, <2>3 DEF BusyOK, Untouched, Hopeless, Ended
<1>12. ASSUME NEW v \in Workers \ {w}, WorksOn(v, j) PROVE BusyOK(v, worker[v])'
  <2>1. worker'[v] = worker[v] /\ BusyOK(v, worker[v]) /\ worker[v].job = j
      BY <1>1, <1>s, <1>12, BusyFacts DEF WorksOn, Finishing, TypeOK
  <2>2. job[j].lease # NoOne => worker'[job[j].lease].cancel
      BY <1>1, <1>2, <1>9 DEF Row
  <2>3. Complete(v, worker[v]) => Complete(v, worker[v])'
      BY <1>1, <1>s, <1>2, <1>8, <2>1, BackupsAssumption DEF Complete
  <2>4. Hopeless(worker[v]) => Hopeless(worker[v])'
      BY <1>s, <2>1, <2>2 DEF Hopeless
  <2> QED
      BY <1>s, <1>8, <2>1, <2>3, <2>4 DEF BusyOK, Untouched
<1>13. \A i \in Jobs \ {j} : object'[i] = object[i] /\ engine'[i] = engine[i]
    BY <1>1, <1>5 DEF TypeOK
<1>14. \A r \in Removers : RemovalOK(r)'
    BY <1>s, <1>2, <1>13, NotRemoved
<1> QED
    BY <1>1, <1>6, <1>7, <1>10, <1>11, <1>12, <1>13, <1>14, <1>j, <1>s, LoopActsIInv

\* The engine's reference is recorded under the lease, and never twice.
LEMMA SetBackupJobEngineRefIInv ==
    ASSUME IInv, NEW w \in Workers, SetBackupJobEngineRef(w) PROVE IInv'
<1>j. PICK j \in Jobs : j = worker[w].job
    BY BusyFacts DEF At, SetBackupJobEngineRef
<1>1. /\ worker[w] \in Loop /\ BusyOK(w, worker[w]) /\ worker[w].pc = "accepted"
      /\ JobOK(j) /\ job[j] \in Row /\ TypeOK
    BY <1>j, BusyFacts DEF At, IInv, SetBackupJobEngineRef
<1>u. UNCHANGED <<artifact, object, engine, started, resize, remover>>
    BY DEF SetBackupJobEngineRef
<1>2. CASE Failed(w) /\ UNCHANGED job
  <2>1. PICK o \in {"failed", "cancelled"} : Finishing(w, o)
      BY <1>2, FailedOutcome
  <2> QED
      BY <1>1, <1>u, <1>2, <2>1, GivesUpIInv
<1>3. CASE Holds(w) /\ job' = [job EXCEPT ![worker[w].job].ref = TRUE] /\ Goes(w, "park")
  <2>1. /\ job[j].engine /\ ~worker[w].ref /\ ~worker[w].cancel /\ ~job[j].ref
        /\ job[j].status = "running" /\ job[j].lease = w
      BY <1>1, <1>3, <1>j DEF BusyOK, Hopeless, Holds
  <2>2. \A v \in Workers \ {w} : ~WorksOn(v, j)
      BY <1>1, <1>j, <2>1, AloneWithoutRef
  <2>3. /\ job'[j] = [job[j] EXCEPT !.ref = TRUE]
        /\ worker'[w] = [worker[w] EXCEPT !.pc = "park"]
        /\ \A i \in Jobs \ {j} : job'[i] = job[i]
        /\ \A v \in Workers \ {w} : worker'[v] = worker[v]
      BY <1>1, <1>3, <1>j DEF TypeOK, Goes
  <2>4. job'[j] \in Row /\ worker'[w] \in Loop
      BY <1>1, <2>3 DEF Row, Loop
  <2>5. TypeOK'
    <3>1. job' \in [Jobs -> Row]
        BY <1>1, <1>3, <1>j, <2>3, <2>4 DEF TypeOK
    <3>2. worker' \in [Workers -> Loop]
        BY <1>1, <1>3, <2>3, <2>4 DEF TypeOK, Goes
    <3> QED
        BY <1>1, <1>u, <3>1, <3>2 DEF TypeOK
  <2>6. /\ worker'[w].pc = "park" /\ worker'[w].job = j
        /\ ~worker'[w].ref /\ ~worker'[w].cancel
      BY <1>1, <1>j, <2>1, <2>3 DEF Loop
  <2>7. Local(j)
      BY <1>j, <1>u, <2>3, <2>6 DEF Local
  <2>8. /\ job'[j].ref /\ job'[j].engine /\ job'[j].status = "running"
        /\ job'[j].lease = w /\ job'[j].of = job[j].of
      BY <1>1, <2>1, <2>3 DEF Row
  <2>9. Settled(j)'
    <3>1. JobOK(j)'
      <4>1. job'[j].of # 0 => artifact'[job'[j].of] = "live"
          BY <1>1, <1>u, <2>1, <2>8 DEF JobOK, Active
      <4>2. artifact[j] = "none"
          BY <1>1, <2>1 DEF JobOK
      <4> QED
          BY <1>u, <2>6, <2>8, <4>1, <4>2 DEF JobOK, WorksOn, Untouched
    <3>2. BusyOK(w, worker[w])'
        BY <2>6, <2>8 DEF BusyOK, Untouched
    <3>3. \A v \in Workers : WorksOn(v, j)' => v = w
        BY <2>2, <2>3 DEF WorksOn
    <3>4. OneSlot'
        BY <1>1, <1>u, <2>1, <2>3, <2>8 DEF IInv, OneSlot
    <3>5. \A r \in Removers : RemovalOK(r)'
        BY <1>u DEF IInv, RemovalsOK, RemovalOK
    <3> QED
        BY <3>1, <3>2, <3>3, <3>4, <3>5 DEF Settled
  <2> QED
      BY <2>5, <2>7, <2>9, LocalIInv
<1> QED
    BY <1>2, <1>3 DEF SetBackupJobEngineRef

-----------------------------------------------------------------------------
(* Steps with which a loop leaves its job.                                 *)

\* The loop is idle again and its job's row is `row`.
Leaves(w, j, row) ==
    /\ worker[w].pc # "idle" /\ worker[w].job = j
    /\ worker' = [worker EXCEPT ![w] = Idle]
    /\ job' = [job EXCEPT ![j] = row]
    /\ row \in Row /\ row.engine = job[j].engine /\ row.of = job[j].of
    /\ row.ref = job[j].ref /\ row.cancel = job[j].cancel
    /\ row.lease \in {job[j].lease, NoOne} \ {w}
    /\ UNCHANGED <<object, engine, started, resize, remover>>

\* It gives up the lease, or never had it; or it parks the job.
LEMMA LeavesIInv ==
    ASSUME IInv, NEW w \in Workers, NEW j \in Jobs, NEW row, Leaves(w, j, row),
           UNCHANGED artifact,
           \/ row.status = job[j].status
           \/ /\ job[j].status = "running" /\ row.lease = NoOne
              /\ \/ row.status = "queued" /\ job[j].ref
                 \/ row.status \in {"failed", "cancelled"}
    PROVE  IInv'
<1> USE DEF Leaves
<1>1. /\ worker[w] \in Loop /\ BusyOK(w, worker[w]) /\ JobOK(j) /\ job[j] \in Row
      /\ TypeOK
    BY BusyFacts DEF IInv
<1>2. /\ job'[j] = row /\ worker'[w] = Idle
      /\ \A i \in Jobs \ {j} : job'[i] = job[i]
      /\ \A v \in Workers \ {w} : worker'[v] = worker[v]
    BY <1>1 DEF TypeOK
<1>3. TypeOK'
  <2>1. 0 \in 0..MaxJobs
      BY BackupsAssumption
  <2>2. Idle \in Loop
      BY <2>1, Zenon DEF Idle, Loop
  <2> QED
      BY <1>1, <2>2 DEF TypeOK
<1>4. Local(j)
    BY <1>1, <1>2 DEF Local, Idle
<1>5. ~Untouched(j) /\ ~Untouched(j)'
  <2>1. ~Untouched(j)
      BY <1>1 DEF BusyOK
  <2> QED
      BY <1>2, <2>1 DEF Untouched
<1>6. JobOK(j)'
  <2>1. row.lease # NoOne => row.status = "running" /\ WorksOn(row.lease, j)'
      BY <1>1, <1>2 DEF JobOK, WorksOn, Row
  <2>2. row.status \in Active => job[j].status \in Active
      BY DEF Active
  <2>3. job[j].status = "succeeded" => row.status = "succeeded"
      OBVIOUS
  <2>4. row.status = "succeeded" => job[j].status = "succeeded"
      OBVIOUS
  <2> QED
      BY <1>1, <1>2, <1>5, <2>1, <2>2, <2>3, <2>4 DEF JobOK, Writing, Untouched
<1>7. ASSUME NEW v \in Workers, WorksOn(v, j)' PROVE BusyOK(v, worker[v])'
  <2>1. v # w /\ worker'[v] = worker[v] /\ worker[v].job = j /\ worker[v].pc # "idle"
      BY <1>2, <1>7 DEF WorksOn, Idle
  <2>2. BusyOK(v, worker[v])
      BY <2>1, BusyFacts
  <2>3. row.status = "succeeded" <=> job[j].status = "succeeded"
      OBVIOUS
  <2>4. Complete(v, worker[v]) => Complete(v, worker[v])'
      BY <1>2, <2>1, BackupsAssumption DEF Complete, Writing
  <2>5. Hopeless(worker[v]) => Hopeless(worker[v])'
    <3>1. row.lease # NoOne => row.lease = job[j].lease /\ row.lease # w /\ row.lease \in Workers
        BY <1>1 DEF Row
    <3>2. row.lease # NoOne => worker'[row.lease] = worker[job[j].lease]
        BY <1>2, <3>1
    <3>3. job'[j].cancel = job[j].cancel /\ job'[j].lease = row.lease
          /\ (job'[j].status = "succeeded" <=> job[j].status = "succeeded")
        BY <1>2, <2>3
    <3>4. job'[j].ref = job[j].ref
        BY <1>2
    <3> HIDE DEF Leaves
    <3> QED
        BY <2>1, <3>2, <3>1, <3>3, <3>4 DEF Hopeless
  <2> QED
      BY <1>2, <1>5, <2>1, <2>2, <2>3, <2>4, <2>5 DEF BusyOK, Writing
<1>8. \A u, v \in Workers :
         WorksOn(u, j)' /\ WorksOn(v, j)' /\ ~worker'[u].ref /\ ~worker'[v].ref => u = v
    BY <1>2 DEF IInv, ClaimedOnce, WorksOn, Idle
<1>9. OneSlot'
  <2>1. row.status = "running" => job[j].status = "running"
      OBVIOUS
  <2> QED
      BY <1>2, <2>1 DEF IInv, OneSlot
<1>10. \A r \in Removers : RemovalOK(r)'
    BY DEF IInv, RemovalsOK, RemovalOK
<1>11. Settled(j)'
    BY <1>6, <1>7, <1>8, <1>9, <1>10 DEF Settled
<1> QED
    BY <1>3, <1>4, <1>11, LocalIInv

\* The lease of a loop is on its own job.
LEMMA HeldByOwner ==
    ASSUME IInv, NEW w \in Workers, NEW i \in Jobs, job[i].lease = w
    PROVE  /\ worker[w].pc # "idle" /\ worker[w].job = i
           /\ job[i].status = "running" /\ w # NoOne
    BY BackupsAssumption DEF IInv, JobsOK, JobOK, WorksOn

\* A parked job goes back to the queue.
LEMMA ReleaseBackupJobToEngineIInv ==
    ASSUME IInv, NEW w \in Workers, ReleaseBackupJobToEngine(w) PROVE IInv'
<1>j. PICK j \in Jobs : j = worker[w].job
    BY BusyFacts DEF At, ReleaseBackupJobToEngine
<1>1. /\ worker[w] \in Loop /\ BusyOK(w, worker[w]) /\ worker[w].pc = "park"
      /\ JobOK(j) /\ job[j] \in Row /\ TypeOK
    BY <1>j, BusyFacts DEF At, IInv, ReleaseBackupJobToEngine
<1>u. /\ worker' = [worker EXCEPT ![w] = Idle]
      /\ UNCHANGED <<artifact, object, engine, started, resize, remover>>
    BY DEF ReleaseBackupJobToEngine
<1>2. CASE job' = job /\ ~Holds(w)
  <2>1. job[j].lease # w
      BY <1>2, <1>j, HeldByOwner DEF Holds
  <2>2. job' = [job EXCEPT ![j] = job[j]]
      BY <1>1, <1>2 DEF TypeOK
  <2>3. Leaves(w, j, job[j])
      BY <1>1, <1>u, <1>j, <2>1, <2>2 DEF Leaves
  <2> QED
      BY <1>u, <2>3, LeavesIInv
<1>3. CASE Holds(w) /\ job' = [job EXCEPT ![worker[w].job].status = "queued",
               ![worker[w].job].lease = NoOne, ![worker[w].job].expired = FALSE]
  <2> DEFINE row == [job[j] EXCEPT !.status = "queued", !.lease = NoOne,
                                   !.expired = FALSE]
  <2>1. job' = [job EXCEPT ![j] = row]
      BY <1>1, <1>3, <1>j DEF TypeOK
  <2>2. /\ row \in Row /\ row.engine = job[j].engine /\ row.of = job[j].of
        /\ row.ref = job[j].ref /\ row.cancel = job[j].cancel
        /\ row.lease = NoOne /\ row.status = "queued"
      BY <1>1 DEF Row, Active
  <2>3. Leaves(w, j, row)
      BY <1>1, <1>u, <1>j, <2>1, <2>2, BackupsAssumption DEF Leaves
  <2>4. job[j].ref /\ job[j].status = "running"
      BY <1>1, <1>3, <1>j DEF BusyOK, Holds
  <2> HIDE DEF row
  <2> QED
      BY <1>u, <2>2, <2>3, <2>4, LeavesIInv
<1>4. CASE job' = [job EXCEPT ![worker[w].job].lease = NoOne]
  <2> DEFINE row == [job[j] EXCEPT !.lease = NoOne]
  <2>1. job' = [job EXCEPT ![j] = row]
      BY <1>1, <1>4, <1>j DEF TypeOK
  <2>2. /\ row \in Row /\ row.engine = job[j].engine /\ row.of = job[j].of
        /\ row.ref = job[j].ref /\ row.cancel = job[j].cancel
        /\ row.lease = NoOne /\ row.status = job[j].status
      BY <1>1 DEF Row
  <2>3. Leaves(w, j, row)
      BY <1>1, <1>u, <1>j, <2>1, <2>2, BackupsAssumption DEF Leaves
  <2> HIDE DEF row
  <2> QED
      BY <1>u, <2>2, <2>3, LeavesIInv
<1> QED
    BY <1>2, <1>3, <1>4 DEF ReleaseBackupJobToEngine

\* The process of a loop dies.
LEMMA CrashIInv == ASSUME IInv, NEW w \in Workers, Crash(w) PROVE IInv'
<1>j. PICK j \in Jobs : j = worker[w].job
    BY BusyFacts DEF Crash
<1>1. /\ worker[w] \in Loop /\ worker[w].pc # "idle"
      /\ JobOK(j) /\ job[j] \in Row /\ TypeOK
    BY <1>j, BusyFacts DEF IInv, Crash
<1>u. /\ worker' = [worker EXCEPT ![w] = Idle]
      /\ job' = [i \in Jobs |-> IF job[i].lease = w
                                THEN [job[i] EXCEPT !.lease = NoOne] ELSE job[i]]
      /\ UNCHANGED <<artifact, object, engine, started, resize, remover>>
    BY DEF Crash
<1>2. \A i \in Jobs \ {j} : job[i].lease # w
    BY <1>j, HeldByOwner
<1> DEFINE row == IF job[j].lease = w THEN [job[j] EXCEPT !.lease = NoOne] ELSE job[j]
<1>3. job' = [job EXCEPT ![j] = row]
    BY <1>1, <1>2, <1>u DEF TypeOK
<1>4. /\ row \in Row /\ row.engine = job[j].engine /\ row.of = job[j].of
      /\ row.ref = job[j].ref /\ row.cancel = job[j].cancel
      /\ row.lease \in {job[j].lease, NoOne} \ {w} /\ row.status = job[j].status
    BY <1>1, BackupsAssumption DEF Row
<1> HIDE DEF row
<1>5. Leaves(w, j, row)
    BY <1>1, <1>u, <1>j, <1>3, <1>4 DEF Leaves
<1> QED
    BY <1>u, <1>4, <1>5, LeavesIInv

\* The holder of the lease completes its job: its backup becomes an artifact.
LEMMA SucceedsIInv ==
    ASSUME IInv, NEW w \in Workers, NEW j \in Jobs, NEW row, Leaves(w, j, row),
           worker[w].pc = "finish", worker[w].outcome = "succeeded",
           job[j].status = "running", job[j].lease = w,
           row.status = "succeeded", row.lease = NoOne,
           artifact' = IF job[j].of = 0 THEN [artifact EXCEPT ![j] = "live"]
                                        ELSE artifact
    PROVE  IInv'
<1> USE DEF Leaves
<1>1. /\ worker[w] \in Loop /\ BusyOK(w, worker[w]) /\ JobOK(j) /\ job[j] \in Row
      /\ TypeOK
    BY BusyFacts DEF IInv
<1>c. /\ ~worker[w].cancel /\ ~Writing(j)
      /\ job[j].engine => worker[w].ref
      /\ job[j].of = 0 => object[j] = "full"
    BY <1>1 DEF BusyOK, Complete
<1>a. artifact[j] = "none"
    BY <1>1 DEF JobOK
<1>2. /\ job'[j] = row /\ worker'[w] = Idle
      /\ \A i \in Jobs \ {j} : job'[i] = job[i] /\ artifact'[i] = artifact[i]
      /\ \A v \in Workers \ {w} : worker'[v] = worker[v]
      /\ artifact'[j] = IF job[j].of = 0 THEN "live" ELSE "none"
    BY <1>1, <1>a DEF TypeOK
<1>3. TypeOK'
  <2>1. 0 \in 0..MaxJobs
      BY BackupsAssumption
  <2>2. Idle \in Loop
      BY <2>1, Zenon DEF Idle, Loop
  <2>3. artifact' \in [Jobs -> {"none", "live", "pending", "deleted"}]
      BY <1>1 DEF TypeOK
  <2> QED
      BY <1>1, <2>2, <2>3 DEF TypeOK
<1>4. Local(j)
    BY <1>1, <1>2, <1>a DEF Local, Idle
<1>5. JobOK(j)'
    BY <1>1, <1>2, <1>c DEF JobOK, Untouched, Writing, Active
<1>6. ASSUME NEW v \in Workers, WorksOn(v, j)' PROVE BusyOK(v, worker[v])'
  <2>1. v # w /\ worker'[v] = worker[v] /\ worker[v].job = j /\ worker[v].pc # "idle"
      BY <1>2, <1>6 DEF WorksOn, Idle
  <2>2. BusyOK(v, worker[v]) /\ worker[v] \in Loop
      BY <2>1, BusyFacts
  <2>3. job[j].ref
      BY <2>1, AloneWithoutRef DEF WorksOn
  <2>4. ~worker[v].cancel
      BY <1>c, <2>1, <2>2, BackupsAssumption DEF BusyOK, Hopeless
  <2>5. Complete(v, worker[v]) => Complete(v, worker[v])'
      BY <1>2, <1>c, <2>1, BackupsAssumption DEF Complete, Writing
  <2>6. ~Untouched(j)'
      BY <1>2 DEF Untouched
  <2>7. /\ job'[j].ref = job[j].ref /\ job'[j].engine = job[j].engine
        /\ job'[j].of = job[j].of /\ engine' = engine /\ started' = started
      BY <1>2
  <2> HIDE DEF Leaves
  <2> QED
      BY <2>1, <2>2, <2>3, <2>4, <2>5, <2>6, <2>7 DEF BusyOK, Writing
<1>7. \A u, v \in Workers :
         WorksOn(u, j)' /\ WorksOn(v, j)' /\ ~worker'[u].ref /\ ~worker'[v].ref => u = v
    BY <1>2 DEF IInv, ClaimedOnce, WorksOn, Idle
<1>8. OneSlot'
    BY <1>2 DEF IInv, OneSlot
<1>9. \A r \in Removers : RemovalOK(r)'
    BY <1>2, <1>a DEF IInv, RemovalsOK, RemovalOK
<1>10. Settled(j)'
    BY <1>5, <1>6, <1>7, <1>8, <1>9 DEF Settled
<1> QED
    BY <1>3, <1>4, <1>10, LocalIInv

\* FinishBackupJob, of the holder of the lease and of a loop that lost it.
LEMMA FinishBackupJobIInv == ASSUME IInv, NEW w \in Workers, FinishBackupJob(w) PROVE IInv'
<1>j. PICK j \in Jobs : j = worker[w].job
    BY BusyFacts DEF At, FinishBackupJob
<1>1. /\ worker[w] \in Loop /\ BusyOK(w, worker[w]) /\ worker[w].pc = "finish"
      /\ JobOK(j) /\ job[j] \in Row /\ TypeOK
    BY <1>j, BusyFacts DEF At, IInv, FinishBackupJob
<1>u. /\ worker' = [worker EXCEPT ![w] = Idle]
      /\ UNCHANGED <<object, engine, started, resize, remover>>
    BY DEF FinishBackupJob
<1>2. CASE ~Holds(w) /\ UNCHANGED <<job, artifact>>
  <2>1. job[j].lease # w
      BY <1>2, <1>j, HeldByOwner DEF Holds
  <2>2. job' = [job EXCEPT ![j] = job[j]]
      BY <1>1, <1>2 DEF TypeOK
  <2>3. Leaves(w, j, job[j])
      BY <1>1, <1>u, <1>j, <2>1, <2>2 DEF Leaves
  <2> QED
      BY <1>2, <2>3, LeavesIInv
<1>3. CASE job' = [job EXCEPT ![worker[w].job].lease = NoOne] /\ UNCHANGED artifact
  <2> DEFINE row == [job[j] EXCEPT !.lease = NoOne]
  <2>1. job' = [job EXCEPT ![j] = row]
      BY <1>1, <1>3, <1>j DEF TypeOK
  <2>2. /\ row \in Row /\ row.engine = job[j].engine /\ row.of = job[j].of
        /\ row.ref = job[j].ref /\ row.cancel = job[j].cancel
        /\ row.lease = NoOne /\ row.status = job[j].status
      BY <1>1 DEF Row
  <2>3. Leaves(w, j, row)
      BY <1>1, <1>u, <1>j, <2>1, <2>2, BackupsAssumption DEF Leaves
  <2> HIDE DEF row
  <2> QED
      BY <1>3, <2>2, <2>3, LeavesIInv
<1>4. CASE /\ Holds(w)
           /\ job' = [job EXCEPT ![worker[w].job].status = worker[w].outcome,
                 ![worker[w].job].lease = NoOne, ![worker[w].job].expired = FALSE]
           /\ artifact' = IF worker[w].outcome = "succeeded" /\ Mine(w).of = 0
                          THEN [artifact EXCEPT ![worker[w].job] = "live"] ELSE artifact
  <2> DEFINE row == [job[j] EXCEPT !.status = worker[w].outcome, !.lease = NoOne,
                                   !.expired = FALSE]
  <2>0. worker[w].outcome \in Ended
      BY <1>1 DEF BusyOK
  <2>1. job' = [job EXCEPT ![j] = row]
      BY <1>1, <1>4, <1>j DEF TypeOK
  <2>2. /\ row \in Row /\ row.engine = job[j].engine /\ row.of = job[j].of
        /\ row.ref = job[j].ref /\ row.cancel = job[j].cancel
        /\ row.lease = NoOne /\ row.status = worker[w].outcome
      BY <1>1, <2>0 DEF Row
  <2>3. Leaves(w, j, row)
      BY <1>1, <1>u, <1>j, <2>1, <2>2, BackupsAssumption DEF Leaves
  <2>4. job[j].status = "running" /\ job[j].lease = w
      BY <1>4, <1>j DEF Holds
  <2> HIDE DEF row
  <2>5. CASE worker[w].outcome = "succeeded"
    <3>1. artifact' = IF job[j].of = 0 THEN [artifact EXCEPT ![j] = "live"] ELSE artifact
        BY <1>4, <1>j, <2>5 DEF Mine
    <3> QED
        BY <1>1, <2>2, <2>3, <2>4, <2>5, <3>1, SucceedsIInv
  <2>6. CASE worker[w].outcome # "succeeded"
    <3>1. row.status \in {"failed", "cancelled"} /\ UNCHANGED artifact
        BY <1>4, <2>0, <2>2, <2>6 DEF Ended
    <3> QED
        BY <2>2, <2>3, <2>4, <3>1, LeavesIInv
  <2> QED
      BY <2>5, <2>6
<1> QED
    BY <1>2, <1>3, <1>4 DEF FinishBackupJob, MayFinish

-----------------------------------------------------------------------------
(* The claim.                                                              *)

\* A set of jobs has an oldest one.
LEMMA MinJob == ASSUME NEW S \in SUBSET Jobs, S # {} PROVE Min(S) \in S
<1> DEFINE R == OpToRel(<, Nat)
<1>0. S \subseteq Nat
  <2>1. \A j \in Jobs : j \in Nat
      BY DEF Jobs
  <2> QED
      BY <2>1
<1>1. IsWellFoundedOn(R, Nat)
    BY NatLessThanWellFounded
<1>2. \A x, y \in Nat : y < x => <<y, x>> \in R
    BY DEF OpToRel
<1> HIDE DEF R
<1>3. PICK x \in S : \A y \in S : ~ (<<y, x>> \in R)
    BY <1>0, <1>1, WFMin
<1>4. ASSUME NEW y \in S PROVE x <= y
  <2>1. x \in Nat /\ y \in Nat
      BY <1>0
  <2>2. ~(y < x)
      BY <1>2, <1>3, <2>1
  <2> QED
      BY <2>1, <2>2
<1> QED
    BY <1>4 DEF Min

\* What the claim makes of a row.
LEMMA ReapedRow ==
    ASSUME NEW row \in Row
    PROVE  /\ Reaped(row) \in Row
           /\ Reaped(row).engine = row.engine /\ Reaped(row).of = row.of
           /\ Reaped(row).ref = row.ref /\ Reaped(row).cancel = row.cancel
           /\ \/ Reaped(row) = row
              \/ /\ row.status = "running" /\ Reaped(row).lease = NoOne
                 /\ Reaped(row).status = IF row.ref THEN "queued" ELSE "failed"
<1> DEFINE s == IF row.ref THEN "queued" ELSE "failed"
<1>1. CASE row.status = "running" /\ row.expired
  <2>1. Reaped(row) = [row EXCEPT !.status = s, !.lease = NoOne, !.expired = FALSE]
      BY <1>1 DEF Reaped, Resumable
  <2>2. s \in Active \cup Ended
      BY DEF Active, Ended
  <2> HIDE DEF s
  <2>3. Reaped(row) \in Row
      BY <2>1, <2>2 DEF Row
  <2>4. /\ Reaped(row).engine = row.engine /\ Reaped(row).of = row.of
        /\ Reaped(row).ref = row.ref /\ Reaped(row).cancel = row.cancel
        /\ Reaped(row).lease = NoOne /\ Reaped(row).status = s
      BY <2>1 DEF Row
  <2> QED
      BY <1>1, <2>3, <2>4 DEF s
<1>2. CASE ~(row.status = "running" /\ row.expired)
    BY <1>2 DEF Reaped
<1> QED
    BY <1>1, <1>2

\* A job whose loop is lost is queued again only with its reference: the other
\* loops that work on it, late ones included, may go on.
LEMMA ReapedJob ==
    ASSUME IInv, NEW w \in Workers, worker[w].pc = "idle",
           \A v \in Workers \ {w} : worker'[v] = worker[v],
           UNCHANGED <<artifact, object, engine, started>>,
           NEW i \in Jobs, job'[i] = Reaped(job[i])
    PROVE  /\ JobOK(i)'
           /\ \A v \in Workers \ {w} : WorksOn(v, i) => BusyOK(v, worker[v])'
<1>1. JobOK(i) /\ job[i] \in Row /\ TypeOK
    BY DEF IInv, JobsOK, TypeOK
<1>2. /\ job'[i].engine = job[i].engine /\ job'[i].of = job[i].of
      /\ job'[i].ref = job[i].ref /\ job'[i].cancel = job[i].cancel
      /\ \/ job'[i] = job[i]
         \/ /\ job[i].status = "running" /\ job'[i].lease = NoOne
            /\ job'[i].status = IF job[i].ref THEN "queued" ELSE "failed"
    BY <1>1, ReapedRow
<1>3. job'[i].lease # NoOne =>
         /\ job'[i].lease = job[i].lease /\ job'[i].lease \in Workers \ {w}
         /\ job'[i] = job[i] /\ job[i].status = "running" /\ WorksOn(job[i].lease, i)'
    BY <1>1, <1>2 DEF JobOK, WorksOn, Row
<1>4. /\ Untouched(i)' <=> Untouched(i)
      /\ job'[i].status = "succeeded" <=> job[i].status = "succeeded"
      /\ job'[i].status = "absent" => job'[i] = job[i]
      /\ job'[i].status \in Active => job[i].status \in Active
    BY <1>2 DEF Untouched, Active
<1>5. JobOK(i)'
    BY <1>1, <1>2, <1>3, <1>4 DEF JobOK, Writing
<1>6. ASSUME NEW v \in Workers \ {w}, WorksOn(v, i) PROVE BusyOK(v, worker[v])'
  <2>1. worker'[v] = worker[v] /\ worker[v].job = i /\ BusyOK(v, worker[v])
      BY <1>6, BusyFacts DEF WorksOn
  <2>2. Complete(v, worker[v]) => Complete(v, worker[v])'
      BY <1>2, <2>1, BackupsAssumption DEF Complete, Writing
  <2>3. Hopeless(worker[v]) => Hopeless(worker[v])'
      BY <1>2, <1>3, <1>4, <2>1 DEF Hopeless
  <2> QED
      BY <1>2, <1>4, <2>1, <2>2, <2>3 DEF BusyOK, Writing
<1> QED
    BY <1>5, <1>6

\* The claim: reap, and take a job that may run.
LEMMA ClaimBackupJobIInv == ASSUME IInv, NEW w \in Workers, ClaimBackupJob(w) PROVE IInv'
<1> DEFINE rows == [i \in Jobs |-> Reaped(job[i])]
           queue == {i \in Jobs : Claimable(rows, i)}
<1>1. /\ worker[w].pc = "idle" /\ TypeOK
      /\ UNCHANGED <<artifact, object, engine, started, resize, remover>>
    BY DEF IInv, ClaimBackupJob
<1>2. /\ rows \in [Jobs -> Row]
      /\ \A i \in Jobs : rows[i] = Reaped(job[i]) /\ rows[i].ref = job[i].ref
      /\ \A i \in Jobs : rows[i].status = "running" => job[i].status = "running"
    BY <1>1, ReapedRow DEF TypeOK
<1>3. RemovalsOK'
    BY <1>1 DEF IInv, RemovalsOK, RemovalOK
<1>4. CASE queue = {} /\ job' = rows /\ UNCHANGED worker
  <2>1. TypeOK'
      BY <1>1, <1>2, <1>4 DEF TypeOK
  <2>2. \A i \in Jobs : JobOK(i)' /\ \A v \in Workers \ {w} :
                           WorksOn(v, i) => BusyOK(v, worker[v])'
      BY <1>1, <1>2, <1>4, ReapedJob
  <2>3. LoopsOK'
    <3> SUFFICES ASSUME NEW v \in Workers, worker[v].pc # "idle"
                 PROVE  BusyOK(v, worker[v])'
        BY <1>4 DEF LoopsOK, LoopOK
    <3>1. worker[v].job \in Jobs /\ v # w
        BY <1>1, BusyFacts
    <3> QED
        BY <2>2, <3>1 DEF WorksOn
  <2>4. ClaimedOnce'
      BY <1>4 DEF IInv, ClaimedOnce, WorksOn
  <2>5. OneSlot'
      BY <1>1, <1>2, <1>4 DEF IInv, OneSlot
  <2> QED
      BY <1>3, <2>1, <2>2, <2>3, <2>4, <2>5 DEF IInv, JobsOK
<1>5. CASE queue # {}
  <2>j. PICK j \in queue : j = Min(queue)
      BY <1>5, MinJob
  <2>0. /\ Claimable(rows, j) /\ j \in Jobs
        /\ job' = [rows EXCEPT ![j].status = "running", ![j].lease = w]
        /\ worker' = [worker EXCEPT ![w] = [Idle EXCEPT !.pc = "claimed",
              !.job = j, !.cancel = rows[j].cancel, !.ref = rows[j].ref]]
      BY <1>5, <2>j DEF ClaimBackupJob
  <2> HIDE DEF queue
  <2>1. /\ worker'[w] = [pc |-> "claimed", job |-> j, cancel |-> rows[j].cancel,
                         ref |-> rows[j].ref, outcome |-> "none"]
        /\ \A v \in Workers \ {w} : worker'[v] = worker[v]
      BY <1>1, <2>0 DEF TypeOK, Idle
  <2>2. /\ job'[j] = [rows[j] EXCEPT !.status = "running", !.lease = w]
        /\ \A i \in Jobs \ {j} : job'[i] = rows[i]
      BY <1>2, <2>0
  <2>3. /\ JobOK(j) /\ job[j] \in Row /\ rows[j] \in Row
        /\ rows[j].engine = job[j].engine /\ rows[j].of = job[j].of
        /\ rows[j].cancel = job[j].cancel /\ rows[j].ref = job[j].ref
        /\ rows[j].status = "queued" /\ (~job[j].ref => job[j].status = "queued")
        /\ job[j].status \in Active /\ (job[j].cancel => job[j].ref)
      BY <1>1, <1>2, <2>0, ReapedRow
         DEF IInv, JobsOK, TypeOK, Claimable, Active, Resumable
  <2>4. /\ job'[j].status = "running" /\ job'[j].lease = w
        /\ job'[j].engine = job[j].engine /\ job'[j].of = job[j].of
        /\ job'[j].cancel = job[j].cancel /\ job'[j].ref = job[j].ref
        /\ job'[j] \in Row
      BY <2>2, <2>3 DEF Row, Active
  <2>5. TypeOK'
    <3>1. worker'[w] \in Loop
      <4>1. j \in 0..MaxJobs
          BY <2>0 DEF Jobs
      <4>2. rows[j].cancel \in BOOLEAN /\ rows[j].ref \in BOOLEAN
          BY <2>3 DEF Row
      <4> DEFINE c == rows[j].cancel
                 f == rows[j].ref
      <4>3. worker'[w] = [pc |-> "claimed", job |-> j, cancel |-> c, ref |-> f,
                          outcome |-> "none"]
          BY <2>1
      <4> HIDE DEF c, f
      <4>4. c \in BOOLEAN /\ f \in BOOLEAN
          BY <4>2 DEF c, f
      <4> QED
          BY <4>1, <4>3, <4>4 DEF Loop
    <3>2. worker' \in [Workers -> Loop]
        BY <1>1, <2>0, <2>1, <3>1 DEF TypeOK
    <3>3. job' \in [Jobs -> Row]
        BY <1>2, <2>0, <2>2, <2>4
    <3> QED
        BY <1>1, <3>2, <3>3 DEF TypeOK
  <2>6. ASSUME NEW i \in Jobs \ {j}
        PROVE  JobOK(i)' /\ \A v \in Workers \ {w} : WorksOn(v, i) => BusyOK(v, worker[v])'
      BY <1>1, <1>2, <2>1, <2>2, ReapedJob
  <2>7. JobOK(j)'
    <3>1. WorksOn(w, j)'
        BY <2>1 DEF WorksOn
    <3>2. artifact[j] = "none" /\ ~(job[j].ref /\ ~job[j].engine)
        BY <2>3 DEF JobOK, Active
    <3>3. job[j].of # 0 => artifact[job[j].of] = "live"
        BY <2>3 DEF JobOK
    <3> QED
        BY <1>1, <2>3, <2>4, <3>1, <3>2, <3>3 DEF JobOK, Untouched
  <2>8. ~job[j].ref => Untouched(j) /\ started[j] = 0 /\ \A v \in Workers : ~WorksOn(v, j)
      BY <2>3, BusyFacts DEF JobOK, Untouched, BusyOK, WorksOn
  <2>9. BusyOK(w, worker[w])'
    <3>1. /\ worker'[w].pc = "claimed" /\ worker'[w].job = j
          /\ worker'[w].ref = job[j].ref /\ worker'[w].cancel = job[j].cancel
        BY <2>1, <2>3
    <3> QED
        BY <1>1, <2>0, <2>3, <2>4, <2>8, <3>1 DEF BusyOK, Untouched, Hopeless
  <2>10. ASSUME NEW v \in Workers \ {w}, WorksOn(v, j) PROVE BusyOK(v, worker[v])'
    <3>1. worker'[v] = worker[v] /\ worker[v].job = j /\ BusyOK(v, worker[v]) /\ job[j].ref
        BY <2>1, <2>8, <2>10, BusyFacts DEF WorksOn
    <3>2. Complete(v, worker[v]) => Complete(v, worker[v])'
        BY <1>1, <2>4, <3>1 DEF Complete, Writing
    <3>3. Hopeless(worker[v]) => Hopeless(worker[v])'
      <4>1. worker'[w].cancel = job[j].cancel
          BY <2>1, <2>3
      <4> QED
          BY <2>4, <3>1, <4>1 DEF Hopeless
    <3> QED
        BY <1>1, <2>4, <3>1, <3>2, <3>3 DEF BusyOK, Writing, Untouched
  <2>11. LoopsOK'
    <3> SUFFICES ASSUME NEW v \in Workers \ {w}, worker[v].pc # "idle"
                 PROVE  BusyOK(v, worker[v])'
        BY <2>1, <2>9 DEF LoopsOK, LoopOK
    <3>1. worker[v].job \in Jobs
        BY BusyFacts
    <3> QED
        BY <2>6, <2>10, <3>1 DEF WorksOn
  <2>12. ClaimedOnce'
    <3> SUFFICES ASSUME NEW u \in Workers, NEW v \in Workers, NEW i \in Jobs,
                        WorksOn(u, i)', WorksOn(v, i)',
                        ~worker'[u].ref, ~worker'[v].ref, u # v
                 PROVE  FALSE
        BY DEF ClaimedOnce
    <3>1. CASE u # w /\ v # w
        BY <2>1, <3>1 DEF WorksOn, IInv, ClaimedOnce
    <3>2. CASE u = w \/ v = w
      <4>1. i = j /\ ~job[j].ref
          BY <2>1, <2>3, <3>2 DEF WorksOn
      <4> QED
          BY <2>1, <2>8, <3>2, <4>1 DEF WorksOn
    <3> QED
        BY <3>1, <3>2
  <2>13. OneSlot'
    <3>1. ~resize /\ (~job[j].ref => \A i \in Jobs : rows[i].status # "running")
        BY <2>0, <2>3 DEF Claimable, Resumable
    <3>2. \A i \in Jobs : job'[i].ref = job[i].ref
        BY <1>2, <2>2, <2>4
    <3>3. \A i \in Jobs \ {j} : job'[i].status = "running" =>
             rows[i].status = "running" /\ job[i].status = "running"
        BY <1>2, <2>2
    <3> HIDE DEF rows
    <3> QED
        BY <1>1, <3>1, <3>2, <3>3 DEF IInv, OneSlot
  <2> QED
      BY <1>3, <2>5, <2>6, <2>7, <2>11, <2>12, <2>13 DEF IInv, JobsOK
<1> QED
    BY <1>4, <1>5 DEF ClaimBackupJob

-----------------------------------------------------------------------------
(* Steps on one row that no loop takes.                                    *)

\* A step on the row of job j alone.
RowStep(j) ==
    /\ job' = [job EXCEPT ![j] = job'[j]] /\ job'[j] \in Row
    /\ UNCHANGED <<artifact, object, engine, started, resize, worker, remover>>

\* It preserves the invariant if the row is good and no loop relied on it.
LEMMA RowStepIInv ==
    ASSUME IInv, NEW j \in Jobs, RowStep(j), JobOK(j)',
           \A v \in Workers : WorksOn(v, j) => BusyOK(v, worker[v])',
           /\ job'[j].status = "running" <=> job[j].status = "running"
           /\ job[j].status = "running" => job'[j].ref = job[j].ref
    PROVE  IInv'
<1> USE DEF RowStep
<1>0. TypeOK
    BY DEF IInv
<1>1. \A i \in Jobs \ {j} : job'[i] = job[i]
    BY <1>0 DEF TypeOK
<1>2. TypeOK'
    BY <1>0 DEF TypeOK
<1>3. Local(j)
    BY <1>1 DEF Local
<1>4. \A u, v \in Workers :
         WorksOn(u, j)' /\ WorksOn(v, j)' /\ ~worker'[u].ref /\ ~worker'[v].ref => u = v
    BY DEF IInv, ClaimedOnce, WorksOn
<1>5. OneSlot'
    BY <1>1 DEF IInv, OneSlot
<1>6. \A r \in Removers : RemovalOK(r)'
    BY DEF IInv, RemovalsOK, RemovalOK
<1>7. \A v \in Workers : WorksOn(v, j)' => BusyOK(v, worker[v])'
    BY DEF WorksOn
<1>8. Settled(j)'
    BY <1>4, <1>5, <1>6, <1>7 DEF Settled
<1> QED
    BY <1>2, <1>3, <1>8, LocalIInv

\* A new job, a backup or the restore of an artifact that is there.
LEMMA EnqueuedIInv ==
    ASSUME IInv, NEW row \in Row, Enqueued(row),
           row.status = "queued", ~row.ref, row.lease = NoOne,
           row.of # 0 => artifact[row.of] = "live",
           UNCHANGED <<artifact, object, engine, started, resize, worker, remover>>
    PROVE  IInv'
<1>1. PICK j \in Jobs : job[j].status = "absent" /\ job' = [job EXCEPT ![j] = row]
    BY DEF Enqueued
<1>2. TypeOK /\ JobOK(j)
    BY DEF IInv, JobsOK
<1>3. job'[j] = row
    BY <1>1, <1>2 DEF TypeOK
<1>4. engine[j] = "idle" /\ artifact[j] = "none" /\ started[j] = 0
    BY <1>1, <1>2 DEF JobOK, NoRow, Untouched
<1>5. JobOK(j)'
    BY <1>3, <1>4 DEF JobOK, Untouched
<1>6. \A v \in Workers : ~WorksOn(v, j)
    BY <1>1, BusyFacts DEF BusyOK, WorksOn, Untouched
<1>7. RowStep(j)
    BY <1>1, <1>3 DEF RowStep
<1> QED
    BY <1>1, <1>3, <1>5, <1>6, <1>7, RowStepIInv

\* The empty row.
LEMMA NoRowType == NoRow \in Row /\ ~NoRow.ref /\ NoRow.lease = NoOne /\ NoRow.of = 0
<1>1. 0 \in 0..MaxJobs
    BY BackupsAssumption
<1>2. NoRow \in Row
    BY <1>1, Zenon DEF NoRow, Row
<1> QED
    BY <1>2 DEF NoRow

\* A backup that an administrator or the schedule asks for.
LEMMA EnqueueBackupIInv ==
    ASSUME IInv, NEW e \in BOOLEAN, EnqueueBackup(e) \/ QueueDueBackups(e) PROVE IInv'
<1>1. CASE EnqueueBackup(e)
  <2> DEFINE row == [NoRow EXCEPT !.status = "queued", !.engine = e]
  <2>1. row \in Row /\ row.status = "queued" /\ ~row.ref /\ row.lease = NoOne
        /\ row.of = 0
      BY NoRowType DEF Row, Active
  <2>2. Enqueued(row)
      BY <1>1 DEF EnqueueBackup
  <2> HIDE DEF row
  <2> QED
      BY <1>1, <2>1, <2>2, EnqueuedIInv DEF EnqueueBackup
<1>2. CASE QueueDueBackups(e)
  <2> DEFINE row == [NoRow EXCEPT !.status = "queued", !.engine = e,
                                  !.scheduled = TRUE]
  <2>1. row \in Row /\ row.status = "queued" /\ ~row.ref /\ row.lease = NoOne
        /\ row.of = 0
      BY NoRowType DEF Row, Active
  <2>2. Enqueued(row)
      BY <1>2 DEF QueueDueBackups
  <2> HIDE DEF row
  <2> QED
      BY <1>2, <2>1, <2>2, EnqueuedIInv DEF QueueDueBackups
<1> QED
    BY <1>1, <1>2

\* A restore is queued for an artifact that is there at that moment.
LEMMA AcceptBackupRestoreIInv ==
    ASSUME IInv, NEW a \in Jobs, AcceptBackupRestore(a) PROVE IInv'
<1> DEFINE e == job[a].engine
           row == [NoRow EXCEPT !.status = "queued", !.engine = e, !.of = a]
<1>1. e \in BOOLEAN /\ a \in 0..MaxJobs
    BY DEF IInv, TypeOK, Row, Jobs
<1>2. Enqueued(row) /\ artifact[a] = "live"
    BY DEF AcceptBackupRestore, StillAvailable
<1> HIDE DEF e
<1>3. row \in Row /\ row.status = "queued" /\ ~row.ref /\ row.lease = NoOne
      /\ row.of = a
    BY <1>1, NoRowType DEF Row, Active
<1> HIDE DEF row
<1> QED
    BY <1>2, <1>3, EnqueuedIInv DEF AcceptBackupRestore

\* Cancelling ends a job that nobody has claimed; otherwise it is a request.
LEMMA CancelBackupJobIInv ==
    ASSUME IInv, NEW j \in Jobs, CancelBackupJob(j) PROVE IInv'
<1>1. TypeOK /\ JobOK(j) /\ job[j] \in Row /\ job[j].status \in Active
    BY DEF IInv, JobsOK, TypeOK, CancelBackupJob
<1> DEFINE s == IF job[j].status = "queued" /\ ~job[j].ref THEN "cancelled"
                ELSE job[j].status
           row == [job[j] EXCEPT !.cancel = TRUE, !.status = s]
<1>2. job' = [job EXCEPT ![j] = row]
    BY <1>1 DEF CancelBackupJob, TypeOK
<1>3. s \in Active \cup Ended /\ s # "succeeded" /\ s # "absent"
    BY <1>1 DEF Active, Ended
<1>4. /\ s = "running" <=> job[j].status = "running"
      /\ s = "queued" => job[j].ref
      /\ s \in Active => s = job[j].status
    BY <1>1 DEF Active
<1> HIDE DEF s
<1>5. row \in Row
    BY <1>1, <1>3 DEF Row
<1>6. /\ row.status = s /\ row.cancel /\ row.ref = job[j].ref
      /\ row.engine = job[j].engine /\ row.of = job[j].of /\ row.lease = job[j].lease
    BY <1>1 DEF Row
<1>7. job'[j] = row
    BY <1>1, <1>2 DEF TypeOK
<1> HIDE DEF row
<1>8. RowStep(j)
    BY <1>2, <1>5, <1>7 DEF RowStep, CancelBackupJob
<1>9. ~Untouched(j)'
    BY <1>3, <1>4, <1>6, <1>7 DEF Untouched
<1>10. JobOK(j)'
  <2>1. artifact[j] = "none"
      BY <1>1 DEF JobOK, Active
  <2>2. job[j].lease # NoOne =>
           /\ s = "running" /\ worker'[job[j].lease].pc # "idle"
           /\ worker'[job[j].lease].job = j
      BY <1>1, <1>4, <1>8 DEF JobOK, WorksOn, RowStep
  <2>3. s \in Active /\ job[j].of # 0 => artifact[job[j].of] = "live"
      BY <1>1, <1>4 DEF JobOK
  <2> QED
      BY <1>1, <1>3, <1>6, <1>7, <1>8, <1>9, <2>1, <2>2, <2>3
         DEF JobOK, RowStep, Writing, WorksOn
<1>11. ASSUME NEW v \in Workers, WorksOn(v, j) PROVE BusyOK(v, worker[v])'
  <2>1. worker' = worker /\ worker[v].job = j /\ BusyOK(v, worker[v])
      BY <1>8, <1>11, BusyFacts DEF WorksOn, RowStep
  <2>2. Complete(v, worker[v]) => Complete(v, worker[v])'
      BY <1>6, <1>7, <1>8, <2>1 DEF Complete, Writing, RowStep
  <2>3. Hopeless(worker[v]) => Hopeless(worker[v])'
      BY <1>3, <1>6, <1>7, <2>1 DEF Hopeless
  <2> QED
      BY <1>3, <1>6, <1>7, <1>8, <1>9, <2>1, <2>2, <2>3 DEF BusyOK, Writing, RowStep
<1> QED
    BY <1>4, <1>6, <1>7, <1>8, <1>10, <1>11, RowStepIInv

\* A lease runs out: nothing else happens until the next claim.
LEMMA LeaseExpiresIInv == ASSUME IInv, NEW j \in Jobs, LeaseExpires(j) PROVE IInv'
<1>1. TypeOK /\ JobOK(j) /\ job[j] \in Row
    BY DEF IInv, JobsOK, TypeOK
<1> DEFINE row == [job[j] EXCEPT !.expired = TRUE]
<1>2. job' = [job EXCEPT ![j] = row] /\ job'[j] = row
    BY <1>1 DEF LeaseExpires, TypeOK
<1>3. row \in Row
    BY <1>1 DEF Row
<1>4. /\ row.status = job[j].status /\ row.cancel = job[j].cancel
      /\ row.ref = job[j].ref /\ row.engine = job[j].engine
      /\ row.of = job[j].of /\ row.lease = job[j].lease
    BY <1>1 DEF Row
<1> HIDE DEF row
<1>5. RowStep(j)
    BY <1>2, <1>3 DEF RowStep, LeaseExpires, environment
<1>6. JobOK(j)'
  <2>1. job[j].status # "absent"
      BY DEF LeaseExpires
  <2> QED
      BY <1>1, <1>2, <1>4, <1>5, <2>1 DEF JobOK, RowStep, Untouched, Writing, WorksOn
<1>7. ASSUME NEW v \in Workers, WorksOn(v, j) PROVE BusyOK(v, worker[v])'
  <2>1. worker' = worker /\ worker[v].job = j /\ BusyOK(v, worker[v])
      BY <1>5, <1>7, BusyFacts DEF WorksOn, RowStep
  <2>2. Complete(v, worker[v]) => Complete(v, worker[v])'
      BY <1>2, <1>4, <1>5, <2>1 DEF Complete, Writing, RowStep
  <2>3. Hopeless(worker[v]) => Hopeless(worker[v])'
      BY <1>2, <1>4, <2>1 DEF Hopeless
  <2> QED
      BY <1>2, <1>4, <1>5, <2>1, <2>2, <2>3 DEF BusyOK, Writing, RowStep, Untouched
<1> QED
    BY <1>2, <1>4, <1>5, <1>6, <1>7, RowStepIInv

-----------------------------------------------------------------------------
(* The engine and the removals.                                            *)

\* A step on the artifact, the objects and the engine's work of job a, and on
\* removals of a.
DataStep(a) ==
    /\ \A i \in Jobs \ {a} : /\ artifact'[i] = artifact[i]
                             /\ object'[i] = object[i] /\ engine'[i] = engine[i]
    /\ artifact[a] = "live" /\ InUse(a) => artifact'[a] = "live"
    /\ \A r \in Removers :
         remover'[r] = remover[r] \/ remover'[r].pc = "idle" \/ remover'[r].art = a
    /\ UNCHANGED <<job, started, resize, worker>>

\* It preserves the invariant if no loop is about to report those objects.
LEMMA DataStepIInv ==
    ASSUME IInv, NEW a \in Jobs, DataStep(a), TypeOK',
           JobOK(a)', Writing(a)' => Writing(a),
           Writing(a) \/ object'[a] = object[a] \/ job[a].status # "running",
           \A r \in Removers :
               remover'[r].pc # "idle" /\ remover'[r].art = a => RemovalOK(r)'
    PROVE  IInv'
<1> USE DEF DataStep
<1>1. Local(a)
    BY DEF Local
<1>2. ASSUME NEW v \in Workers, WorksOn(v, a) PROVE BusyOK(v, worker[v])'
  <2>1. worker' = worker /\ worker[v].job = a /\ BusyOK(v, worker[v]) /\ JobOK(a)
      BY <1>2, BusyFacts DEF WorksOn
  <2>2. Complete(v, worker[v]) => Complete(v, worker[v])'
      BY <2>1, BackupsAssumption DEF Complete, Writing, JobOK
  <2>3. Hopeless(worker[v]) => Hopeless(worker[v])'
      BY <2>1 DEF Hopeless
  <2>4. ~Untouched(a)' /\ (~Writing(a) => ~Writing(a)')
      BY <2>1 DEF BusyOK, Untouched
  <2> QED
      BY <2>1, <2>2, <2>3, <2>4 DEF BusyOK, Writing
<1>3. \A u, v \in Workers :
         WorksOn(u, a)' /\ WorksOn(v, a)' /\ ~worker'[u].ref /\ ~worker'[v].ref => u = v
    BY DEF IInv, ClaimedOnce, WorksOn
<1>4. OneSlot'
    BY DEF IInv, OneSlot
<1>5. \A v \in Workers : WorksOn(v, a)' => BusyOK(v, worker[v])'
    BY <1>2 DEF WorksOn
<1>6. Settled(a)'
    BY <1>3, <1>4, <1>5 DEF Settled
<1> QED
    BY <1>1, <1>6, LocalIInv

\* The engine ends a backup, which nobody can have recorded yet.
LEMMA EngineEndsIInv == ASSUME IInv, NEW j \in Jobs, EngineEnds(j) PROVE IInv'
<1>0. TypeOK /\ JobOK(j) /\ job[j] \in Row
    BY DEF IInv, JobsOK, TypeOK
<1>1. PICK result \in {"done", "failed"}, o \in {"none", "partial", "full"} :
         /\ engine' = [engine EXCEPT ![j] = result]
         /\ object' = [object EXCEPT ![j] = o]
  <2>1. PICK result \in {"done", "failed"} :
           /\ engine' = [engine EXCEPT ![j] = result]
           /\ object' = IF job[j].of # 0 THEN object ELSE
                [object EXCEPT ![j] = IF engine[j] = "working" /\ result = "done"
                                      THEN "full" ELSE "partial"]
      BY DEF EngineEnds
  <2>2. object = [object EXCEPT ![j] = object[j]] /\ object[j] \in {"none", "partial", "full"}
      BY <1>0 DEF TypeOK
  <2> QED
      BY <2>1, <2>2
<1>2. Writing(j) /\ job[j].status # "succeeded" /\ artifact[j] = "none"
      /\ job[j].engine
    BY <1>0 DEF EngineEnds, Writing, JobOK
<1>3. UNCHANGED <<job, artifact, started, resize, worker, remover>>
    BY DEF EngineEnds, environment
<1>4. TypeOK'
    BY <1>0, <1>1, <1>3 DEF TypeOK
<1>5. engine'[j] \in {"done", "failed"} /\ engine'[j] # engine[j]
      /\ \A i \in Jobs \ {j} : object'[i] = object[i] /\ engine'[i] = engine[i]
    BY <1>0, <1>1, <1>2 DEF TypeOK, Writing
<1>6. JobOK(j)'
    BY <1>0, <1>2, <1>3, <1>5 DEF JobOK, Untouched, WorksOn
<1>7. ~Writing(j)'
    BY <1>5 DEF Writing
<1>8. \A r \in Removers : RemovalOK(r)'
    BY <1>2, <1>3, <1>5, NotRemoved
<1> QED
    BY <1>2, <1>3, <1>4, <1>5, <1>6, <1>7, <1>8, DataStepIInv DEF DataStep

\* A parked job has waited too long.
LEMMA ElapsesIInv == ASSUME IInv, NEW j \in Jobs, Elapses(j) PROVE IInv'
<1>0. TypeOK /\ JobOK(j) /\ job[j] \in Row
    BY DEF IInv, JobsOK, TypeOK
<1>1. /\ engine' = [engine EXCEPT ![j] = "overdue"] /\ job[j].ref
      /\ UNCHANGED <<job, artifact, object, started, resize, worker, remover>>
    BY DEF Elapses, environment
<1>2. TypeOK'
    BY <1>0, <1>1 DEF TypeOK
<1>3. engine'[j] = "overdue" /\ \A i \in Jobs \ {j} : engine'[i] = engine[i]
    BY <1>0, <1>1 DEF TypeOK
<1>4. ~Writing(j)'
    BY <1>3 DEF Writing
<1>5. JobOK(j)'
    BY <1>0, <1>1, <1>3, <1>4 DEF JobOK, Untouched, WorksOn
<1>6. \A r \in Removers : RemovalOK(r)'
    BY <1>1 DEF IInv, RemovalsOK, RemovalOK
<1> QED
    BY <1>1, <1>2, <1>3, <1>4, <1>5, <1>6, DataStepIInv DEF DataStep

\* A removal that has not touched anything yet, or gives up.
LEMMA RemoverMovesIInv ==
    ASSUME IInv, NEW r \in Removers, NEW n \in Removal,
           remover' = [remover EXCEPT ![r] = n],
           n.pc \in {"idle", "claim"}, n.pc = "claim" => n.art \in Jobs,
           UNCHANGED <<job, artifact, object, engine, started, resize, worker>>
    PROVE  IInv'
<1>1. TypeOK'
    BY DEF IInv, TypeOK
<1>2. JobsOK'
    BY DEF IInv, JobsOK, JobOK, WorksOn, Untouched, Writing
<1>3. LoopsOK'
  <2> SUFFICES ASSUME NEW v \in Workers PROVE LoopOK(v, worker[v])'
      BY DEF LoopsOK
  <2>1. LoopOK(v, worker[v])
      BY DEF IInv, LoopsOK
  <2> QED
      BY <2>1 DEF LoopOK, BusyOK, Complete, Hopeless, Untouched, Writing
<1>4. ClaimedOnce' /\ OneSlot'
    BY DEF IInv, ClaimedOnce, OneSlot, WorksOn
<1>5. RemovalsOK'
  <2> SUFFICES ASSUME NEW q \in Removers PROVE RemovalOK(q)'
      BY DEF RemovalsOK
  <2>1. RemovalOK(q) /\ remover'[q] = IF q = r THEN n ELSE remover[q]
      BY DEF IInv, RemovalsOK, TypeOK
  <2> QED
      BY <2>1 DEF RemovalOK
<1> QED
    BY <1>1, <1>2, <1>3, <1>4, <1>5 DEF IInv

\* The retention pass and the delete handler read, and remove later.
LEMMA RemovalBeginsIInv ==
    ASSUME IInv, NEW r \in Removers, NEW a \in Jobs, ListExpired(r, a) \/ AskDeletion(r, a)
    PROVE  IInv'
<1> DEFINE n == [pc |-> "claim", art |-> a]
<1>1. a \in 0..MaxJobs
    BY DEF Jobs
<1>2. n \in Removal /\ n.pc = "claim" /\ n.art = a
    BY <1>1 DEF Removal
<1>3. /\ remover' = [remover EXCEPT ![r] = n]
      /\ UNCHANGED <<job, artifact, object, engine, started, resize, worker>>
    BY DEF ListExpired, AskDeletion
<1> HIDE DEF n
<1> QED
    BY <1>2, <1>3, RemoverMovesIInv

\* No removal.
LEMMA NoRemovalType == NoRemoval \in Removal /\ NoRemoval.pc = "idle"
<1>1. 0 \in 0..MaxJobs
    BY BackupsAssumption
<1>2. NoRemoval \in Removal
    BY <1>1, Zenon DEF NoRemoval, Removal
<1> QED
    BY <1>2 DEF NoRemoval

\* A removal is lost between two of its steps.
LEMMA RemovalStopsIInv == ASSUME IInv, NEW r \in Removers, RemovalStops(r) PROVE IInv'
    BY NoRemovalType, RemoverMovesIInv DEF RemovalStops

\* The claim of a removal: not while a restore uses the artifact.
LEMMA ClaimBackupArtifactDeletionIInv ==
    ASSUME IInv, NEW r \in Removers, ClaimBackupArtifactDeletion(r) PROVE IInv'
<1>0. RemovalOK(r) /\ TypeOK /\ remover[r] \in Removal /\ remover[r].pc = "claim"
    BY DEF IInv, RemovalsOK, TypeOK, ClaimBackupArtifactDeletion
<1>a. PICK a \in Jobs : a = remover[r].art
    BY <1>0 DEF RemovalOK
<1>u. UNCHANGED <<job, object, engine, started, resize, worker>>
    BY DEF ClaimBackupArtifactDeletion
<1>1. CASE ~MayRemove(a)
    BY <1>a, <1>u, <1>1, NoRemovalType, RemoverMovesIInv DEF ClaimBackupArtifactDeletion
<1>2. CASE MayRemove(a)
  <2>1. /\ artifact' = [artifact EXCEPT ![a] = "pending"]
        /\ remover' = [remover EXCEPT ![r].pc = "objects"]
      BY <1>a, <1>2 DEF ClaimBackupArtifactDeletion
  <2>2. /\ artifact'[a] = "pending" /\ \A i \in Jobs \ {a} : artifact'[i] = artifact[i]
        /\ remover'[r] = [remover[r] EXCEPT !.pc = "objects"]
        /\ \A q \in Removers \ {r} : remover'[q] = remover[q]
      BY <1>0, <2>1 DEF TypeOK
  <2>3. remover'[r] \in Removal /\ remover'[r].art = a /\ remover'[r].pc = "objects"
      BY <1>0, <1>a, <2>2 DEF Removal
  <2>4. TypeOK'
      BY <1>0, <1>u, <2>1, <2>2, <2>3 DEF TypeOK
  <2>5. JobOK(a)'
    <3>1. JobOK(a) /\ artifact[a] \in {"live", "pending"}
        BY <1>2 DEF IInv, JobsOK, MayRemove
    <3> QED
        BY <1>u, <2>2, <3>1 DEF JobOK, Untouched, WorksOn, Writing, Active
  <2>6. \A q \in Removers : RemovalOK(q)'
    <3> SUFFICES ASSUME NEW q \in Removers PROVE RemovalOK(q)'
        OBVIOUS
    <3>1. RemovalOK(q)
        BY DEF IInv, RemovalsOK
    <3>2. CASE q = r
        BY <2>2, <2>3, <3>2 DEF RemovalOK
    <3>3. CASE q # r
        BY <1>u, <2>2, <3>1, <3>3 DEF RemovalOK
    <3> QED
        BY <3>2, <3>3
  <2>7. DataStep(a)
      BY <1>2, <1>u, <2>2, <2>3 DEF DataStep, MayRemove
  <2> QED
      BY <1>u, <2>4, <2>5, <2>6, <2>7, DataStepIInv DEF Writing
<1> QED
    BY <1>1, <1>2

\* The objects go, of an artifact that is marked.
LEMMA DeleteObjectsIInv == ASSUME IInv, NEW r \in Removers, DeleteObjects(r) PROVE IInv'
<1>0. RemovalOK(r) /\ TypeOK /\ remover[r] \in Removal
      /\ remover[r].pc \in {"objects", "manifest"}
    BY DEF IInv, RemovalsOK, TypeOK, DeleteObjects
<1>a. PICK a \in Jobs : a = remover[r].art
    BY <1>0 DEF RemovalOK
<1>u. UNCHANGED <<job, artifact, started, resize, worker>>
    BY DEF DeleteObjects
<1>1. /\ JobOK(a) /\ artifact[a] \in {"pending", "deleted"}
      /\ job[a].status = "succeeded" /\ ~Writing(a)
    BY <1>0, <1>a DEF IInv, JobsOK, JobOK, RemovalOK
<1>2. object[a] \in {"none", "partial", "full"} /\ engine[a] \notin {"working", "cut"}
    BY <1>0, <1>1 DEF TypeOK, Writing
<1>3. PICK left \in {"none", "partial"}, n \in {NoRemoval, [remover[r] EXCEPT !.pc = "mark"],
                                        [remover[r] EXCEPT !.pc = "manifest"]} :
         /\ object' = [object EXCEPT ![a] = left] /\ UNCHANGED engine
         /\ remover' = [remover EXCEPT ![r] = n]
         /\ object[a] = "none" => left = "none"
         /\ n = [remover[r] EXCEPT !.pc = "mark"] => left = "none"
  <2>1. CASE job[a].engine
    <3>1. PICK left \in {"none", "partial"} :
             /\ object' = [object EXCEPT ![a] = left]
             /\ left = "partial" => object[a] = "full"
        BY <1>a, <1>2, <2>1 DEF DeleteObjects, PrefixDeleted
    <3>2. engine' = [engine EXCEPT ![a] = IF engine[a] = "working" THEN "cut" ELSE engine[a]]
        BY <1>a, <2>1 DEF DeleteObjects, PrefixDeleted
    <3>3. UNCHANGED engine
        BY <1>0, <1>2, <3>2 DEF TypeOK
    <3>4. object'[a] = left
        BY <1>0, <3>1 DEF TypeOK
    <3>5. remover' = [remover EXCEPT ![r] = IF object'[a] = "none"
                          THEN [remover[r] EXCEPT !.pc = "mark"] ELSE NoRemoval]
        BY <1>a, <2>1 DEF DeleteObjects
    <3>6. NoRemoval # [remover[r] EXCEPT !.pc = "mark"]
        BY <1>0 DEF NoRemoval, Removal
    <3> QED
        BY <3>1, <3>3, <3>4, <3>5, <3>6
  <2>2. CASE ~job[a].engine /\ remover[r].pc = "objects"
    <3> DEFINE left == IF object[a] = "full" THEN "partial" ELSE object[a]
    <3>1. object' = [object EXCEPT ![a] = left] /\ UNCHANGED engine
          /\ remover' = [remover EXCEPT ![r].pc = "manifest"]
        BY <1>a, <2>2 DEF DeleteObjects
    <3>2. remover' = [remover EXCEPT ![r] = [remover[r] EXCEPT !.pc = "manifest"]]
        BY <1>0, <3>1 DEF TypeOK
    <3>3. left \in {"none", "partial"} /\ (object[a] = "none" => left = "none")
        BY <1>2
    <3>4. [remover[r] EXCEPT !.pc = "manifest"] # [remover[r] EXCEPT !.pc = "mark"]
        BY <1>0 DEF Removal
    <3> HIDE DEF left
    <3> QED
        BY <3>1, <3>2, <3>3, <3>4
  <2>3. CASE ~job[a].engine /\ remover[r].pc = "manifest"
    <3>1. object' = [object EXCEPT ![a] = "none"] /\ UNCHANGED engine
          /\ remover' = [remover EXCEPT ![r].pc = "mark"]
        BY <1>a, <2>3 DEF DeleteObjects
    <3>2. remover' = [remover EXCEPT ![r] = [remover[r] EXCEPT !.pc = "mark"]]
        BY <1>0, <3>1 DEF TypeOK
    <3> QED
        BY <3>1, <3>2
  <2> QED
      BY <1>0, <2>1, <2>2, <2>3
<1>4. n \in Removal /\ (n.pc = "idle" \/ (n.art = a /\ n.pc \in {"mark", "manifest"}))
      /\ (n.pc = "mark" => left = "none")
    BY <1>0, <1>a, <1>3, NoRemovalType DEF Removal
<1>5. /\ object'[a] = left /\ \A i \in Jobs \ {a} : object'[i] = object[i]
      /\ remover'[r] = n /\ \A q \in Removers \ {r} : remover'[q] = remover[q]
    BY <1>0, <1>3 DEF TypeOK
<1>6. TypeOK'
    BY <1>0, <1>u, <1>3, <1>4 DEF TypeOK
<1>7. JobOK(a)'
    BY <1>u, <1>1, <1>3, <1>5 DEF JobOK, Untouched, WorksOn, Writing, Active
<1>8. ASSUME NEW q \in Removers, remover'[q].pc # "idle", remover'[q].art = a
      PROVE  RemovalOK(q)'
  <2>1. RemovalOK(q)
      BY DEF IInv, RemovalsOK
  <2> QED
      BY <1>u, <1>1, <1>3, <1>4, <1>5, <1>8, <2>1 DEF RemovalOK
<1>9. DataStep(a)
    BY <1>u, <1>3, <1>4, <1>5 DEF DataStep
<1> QED
    BY <1>u, <1>1, <1>3, <1>6, <1>7, <1>8, <1>9, DataStepIInv DEF Writing

\* The artifact is recorded as deleted when nothing is left of it.
LEMMA MarkBackupArtifactDeletedIInv ==
    ASSUME IInv, NEW r \in Removers, MarkBackupArtifactDeleted(r) PROVE IInv'
<1>0. RemovalOK(r) /\ TypeOK /\ remover[r] \in Removal /\ remover[r].pc = "mark"
    BY DEF IInv, RemovalsOK, TypeOK, MarkBackupArtifactDeleted
<1>a. PICK a \in Jobs : a = remover[r].art
    BY <1>0 DEF RemovalOK
<1>u. /\ artifact' = [artifact EXCEPT ![a] = "deleted"]
      /\ remover' = [remover EXCEPT ![r] = NoRemoval]
      /\ UNCHANGED <<job, object, engine, started, resize, worker>>
    BY <1>a DEF MarkBackupArtifactDeleted
<1>1. /\ JobOK(a) /\ artifact[a] \in {"pending", "deleted"} /\ object[a] = "none"
    BY <1>0, <1>a DEF IInv, JobsOK, RemovalOK
<1>2. /\ artifact'[a] = "deleted" /\ \A i \in Jobs \ {a} : artifact'[i] = artifact[i]
      /\ remover'[r] = NoRemoval /\ \A q \in Removers \ {r} : remover'[q] = remover[q]
    BY <1>0, <1>u DEF TypeOK
<1>3. TypeOK'
    BY <1>0, <1>u, NoRemovalType DEF TypeOK
<1>4. JobOK(a)'
    BY <1>u, <1>1, <1>2 DEF JobOK, Untouched, WorksOn, Writing, Active
<1>5. \A q \in Removers : RemovalOK(q)'
  <2> SUFFICES ASSUME NEW q \in Removers PROVE RemovalOK(q)'
      OBVIOUS
  <2>1. RemovalOK(q)
      BY DEF IInv, RemovalsOK
  <2> QED
      BY <1>u, <1>2, <2>1, NoRemovalType DEF RemovalOK
<1>6. DataStep(a)
    BY <1>u, <1>1, <1>2, NoRemovalType DEF DataStep
<1> QED
    BY <1>u, <1>3, <1>4, <1>5, <1>6, DataStepIInv DEF Writing

-----------------------------------------------------------------------------
(* The theorems.                                                           *)

\* A step that leaves the jobs, loops and removals alone.
LEMMA QuietIInv ==
    ASSUME IInv,
           UNCHANGED <<job, artifact, object, engine, started, worker, remover>>,
           resize' => resize \/ \A j \in Jobs : job[j].status # "running"
    PROVE  IInv'
<1>1. TypeOK' /\ RemovalsOK'
    BY DEF IInv, TypeOK, RemovalsOK, RemovalOK
<1>2. JobsOK'
    BY DEF IInv, JobsOK, JobOK, WorksOn, Untouched, Writing
<1>3. LoopsOK'
  <2> SUFFICES ASSUME NEW v \in Workers PROVE LoopOK(v, worker[v])'
      BY DEF LoopsOK
  <2>1. LoopOK(v, worker[v])
      BY DEF IInv, LoopsOK
  <2> QED
      BY <2>1 DEF LoopOK, BusyOK, Complete, Hopeless, Untouched, Writing
<1>4. ClaimedOnce' /\ OneSlot'
    BY DEF IInv, ClaimedOnce, OneSlot, WorksOn
<1> QED
    BY <1>1, <1>2, <1>3, <1>4 DEF IInv

\* Every step preserves the invariant.
LEMMA NextIInv == IInv /\ [Next]_vars => IInv'
<1> SUFFICES ASSUME IInv, [Next]_vars PROVE IInv'
    OBVIOUS
<1>1. CASE \E e \in ByHand : EnqueueBackup(e)
    BY <1>1, EnqueueBackupIInv, BackupsAssumption
<1>2. CASE \E e \in BySchedule : QueueDueBackups(e)
    BY <1>2, EnqueueBackupIInv, BackupsAssumption
<1>3. CASE \E j \in Jobs : \/ SaveBackupRestorePlan(j) \/ AcceptBackupRestore(j)
                           \/ CancelBackupJob(j) \/ EngineEnds(j) \/ Elapses(j)
                           \/ LeaseExpires(j)
  <2>1. ASSUME NEW j \in Jobs, SaveBackupRestorePlan(j) PROVE IInv'
      BY <2>1, QuietIInv DEF SaveBackupRestorePlan
  <2> QED
      BY <1>3, <2>1, AcceptBackupRestoreIInv, CancelBackupJobIInv, EngineEndsIInv,
         ElapsesIInv, LeaseExpiresIInv
<1>4. CASE \E w \in Workers : \/ ClaimBackupJob(w) \/ Work(w) \/ Crash(w)
    BY <1>4, ClaimBackupJobIInv, CrashIInv, FirstHeartbeatIInv, WorkFailsIInv,
       StreamDumpIInv, WriteManifestIInv, FetchArchiveIInv, ApplyArchiveIInv,
       StartEngineIInv, SetBackupJobEngineRefIInv, PollEngineIInv,
       ConfirmObjectsIInv, CancelEngineIInv, ReleaseBackupJobToEngineIInv,
       FinishBackupJobIInv DEF Work
<1>5. CASE \E r \in Removers : \/ Remove(r) \/ RemovalStops(r)
                               \/ \E a \in Jobs : ListExpired(r, a) \/ AskDeletion(r, a)
    BY <1>5, ClaimBackupArtifactDeletionIInv, DeleteObjectsIInv,
       MarkBackupArtifactDeletedIInv, RemovalStopsIInv, RemovalBeginsIInv DEF Remove
<1>6. CASE Withdraw \/ StartVolumeResize \/ EndVolumeResize
    BY <1>6, QuietIInv DEF Withdraw, StartVolumeResize, EndVolumeResize
<1>7. CASE UNCHANGED vars
    BY <1>7, QuietIInv DEF vars
<1> QED
    BY <1>1, <1>2, <1>3, <1>4, <1>5, <1>6, <1>7 DEF Next

\* IInv is an invariant of the backup jobs.
THEOREM BackupsInductive == Spec => []IInv
<1> QED
    BY InitIInv, NextIInv, PTL DEF Spec

\* FinishBackupJob, engineCancel, DeleteArtifact: for any number of loops, jobs
\* and faults a live artifact has all of its objects and a deleted one none.
THEOREM KeepsArtifacts == Spec => []ArtifactIntact
<1>1. IInv => ArtifactIntact
    BY DEF IInv, TypeOK, JobsOK, JobOK, ArtifactIntact
<1> QED
    BY <1>1, BackupsInductive, PTL

\* acceptBackupRestoreOnce, ClaimBackupArtifactDeletion: no removal, however it
\* was asked for, reaches the artifact of a restore that has not ended.
THEOREM ProtectsRestores == Spec => []RestoreProtected
<1>1. ASSUME IInv PROVE RestoreProtected
  <2> SUFFICES ASSUME NEW j \in ActiveJobs, job[j].of # 0
               PROVE  artifact[job[j].of] = "live" /\ object[job[j].of] = "full"
      BY DEF RestoreProtected
  <2>1. JobOK(j) /\ job[j].status \in Active /\ job[j] \in Row
      BY <1>1 DEF ActiveJobs, IInv, JobsOK, TypeOK
  <2>2. artifact[job[j].of] = "live" /\ job[j].of \in Jobs
      BY <2>1 DEF JobOK, Row, Jobs
  <2>3. JobOK(job[j].of)
      BY <1>1, <2>2 DEF IInv, JobsOK
  <2> QED
      BY <2>2, <2>3 DEF JobOK
<1> QED
    BY <1>1, BackupsInductive, PTL

\* ClaimBackupJob, SetBackupJobEngineRef, StartVolumeResize: whatever is lost,
\* nothing is begun twice, one job at most streams and none runs in a resize.
THEOREM StartsOnce == Spec => []StartedOnce
<1>1. ASSUME IInv PROVE StartedOnce
  <2> DEFINE S == {j \in Jobs : job[j].status = "running" /\ ~job[j].ref}
  <2>1. \A j \in Jobs : started[j] <= 1
      BY <1>1 DEF IInv, TypeOK
  <2>2. Cardinality(S) <= 1
    <3>1. CASE S = {}
        BY <3>1, FS_EmptySet
    <3>2. CASE S # {}
      <4>1. PICK j : S = {j}
          BY <1>1, <3>2 DEF IInv, OneSlot
      <4>2. Cardinality({j}) = 1
          BY FS_Singleton
      <4> HIDE DEF S
      <4> QED
          BY <4>1, <4>2
    <3> QED
        BY <3>1, <3>2
  <2> QED
      BY <1>1, <2>1, <2>2 DEF StartedOnce, IInv, OneSlot
<1> QED
    BY <1>1, BackupsInductive, PTL

=============================================================================

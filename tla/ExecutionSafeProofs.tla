------------------------- MODULE ExecutionSafeProofs -------------------------
(***************************************************************************)
(* Type correctness and the safety invariant of the execution journal, for *)
(* every number of processes, nodes, executions, crashes, store errors and *)
(* broken locks.                                                           *)
(*                                                                         *)
(* TypeOK is not inductive: a crash turns the running subprocesses of a    *)
(* process into orphans of the execution sid names, so sid must name one   *)
(* whenever a worker runs.  Shape adds where a process and its workers can *)
(* be (Control).  One lemma per kind of step shows that Shape is kept.     *)
(*                                                                         *)
(* Safe is about who may write an execution.  A worker that is about to    *)
(* start a subprocess, or watches one, owns its node: the stored record    *)
(* says so (OwnerStored), it blocks new work, and no session of another    *)
(* process holds the current revision (OwnerAlone), so no write of theirs  *)
(* can land.  A session that holds the current revision has the current    *)
(* record (SessionCurrent), so a phase it publishes follows from the phase *)
(* stored, and a node whose command was started never returns to a phase   *)
(* it could be started from (Started).  A crash hands the subprocess on    *)
(* with nobody holding the current revision (OrphanStored).                *)
(***************************************************************************)
EXTENDS Execution, TLAPS

\* A drawn revision (newExecutionRevision) is one that neither the store nor
\* a session of the execution holds.
LEMMA NewRevFresh ==
  ASSUME NEW i, \E v \in Revs : v \notin HeldRevs(i)
  PROVE  NewRev(i) \in Revs /\ NewRev(i) \notin HeldRevs(i)
BY Zenon DEF NewRev

\* The record beginExecution builds is well formed.
LEMMA NewRecordType ==
  ASSUME NEW saved \in BOOLEAN, NEW sel
  PROVE  NewRecord(saved, sel) \in Record
BY Zenon DEF NewRecord, Record, Statuses, Phases

\* A transition changes one phase and nothing that recovery reads.
LEMMA WithPhaseType ==
  ASSUME NEW r \in Record, NEW n \in Nodes, NEW ph \in Phases
  PROVE  /\ WithPhase(r, n, ph) \in Record
         /\ WithPhase(r, n, ph).phase = [r.phase EXCEPT ![n] = ph]
         /\ WithPhase(r, n, ph).recovered = r.recovered
BY Zenon DEF WithPhase, Record

\* retainPlan's transition records the phase with the plan ID.
LEMMA WithPlanType ==
  ASSUME NEW r \in Record, NEW n \in Nodes, NEW k \in PlanIds
  PROVE  /\ WithPlan(r, n, k) \in Record
         /\ WithPlan(r, n, k).phase = [r.phase EXCEPT ![n] = "planned"]
         /\ WithPlan(r, n, k).recovered = r.recovered
BY Zenon DEF WithPlan, Record, Phases

\* finish writes a known status and leaves every phase as it is.
LEMMA FinishedType ==
  ASSUME NEW r \in Record, NEW ok \in BOOLEAN
  PROVE  /\ Finished(r, ok) \in Record
         /\ Finished(r, ok).phase = r.phase
BY Zenon DEF Finished, Record, Statuses

\* finishSaved writes a known status; of the phases it only takes interrupted
\* planning back to pending.
LEMMA FinishedSavedType ==
  ASSUME NEW r \in Record, NEW ok \in BOOLEAN
  PROVE  /\ FinishedSaved(r, ok) \in Record
         /\ FinishedSaved(r, ok).phase =
              [n \in Nodes |-> IF r.phase[n] = "preparing" THEN "pending" ELSE r.phase[n]]
BY Zenon DEF FinishedSaved, Record, Statuses, Phases

\* The end of ApplySavedPlans leaves every phase as it is.
LEMMA AppliedSavedType ==
  ASSUME NEW r \in Record
  PROVE  AppliedSaved(r) \in Record /\ AppliedSaved(r).phase = r.phase
BY Zenon DEF AppliedSaved, Record, Statuses

\* The record recovery retires keeps its phases.
LEMMA RecoveredType ==
  ASSUME NEW r \in Record
  PROVE  Recovered(r) \in Record /\ Recovered(r).phase = r.phase
BY Zenon DEF Recovered, Record, Statuses

\* A cancelled or expired record keeps its phases.
LEMMA TerminalType ==
  ASSUME NEW r \in Record, NEW s \in Statuses
  PROVE  Terminal(r, s) \in Record /\ Terminal(r, s).phase = r.phase
BY Zenon DEF Terminal, Record

\* executionStore.write stores a well-formed record under a real revision.
LEMMA PutType ==
  ASSUME TypeOK, NEW i, NEW r \in Record, Put(i, r)
  PROVE  store' \in [Ids -> [rev : Revs \cup {NoRev}, rec : Record]]
<1>1. NewRev(i) \in Revs
  BY Zenon, NewRevFresh DEF Put
<1>2. QED
  BY Zenon, <1>1 DEF Put, TypeOK

Stored == [Ids -> [rev : Revs \cup {NoRev}, rec : Record]]

\* Whatever a write reports, store, session and revision stay well formed.
LEMMA WriteType ==
  ASSUME TypeOK, NEW p \in Procs, NEW i, NEW next \in Record,
         WriteOK(p, i, next) \/ WriteErr(p, i, next)
  PROVE  /\ store' \in Stored
         /\ rec' \in [Procs -> Record]
         /\ rev' \in [Procs -> Revs \cup {NoRev}]
         /\ faults' \in Nat
<1>1. CASE WriteOK(p, i, next)
  <2>1. store' \in Stored
    BY Zenon, <1>1, PutType DEF WriteOK, Stored
  <2>2. NewRev(i) \in Revs
    BY Zenon, <1>1, NewRevFresh DEF WriteOK, Put
  <2>3. QED
    BY Zenon, <1>1, <2>1, <2>2 DEF WriteOK, TypeOK
<1>2. CASE WriteErr(p, i, next)
  <2>1. store' \in Stored
    BY Zenon, <1>2, PutType DEF WriteErr, Stored, TypeOK
  <2>2. faults' \in Nat
    BY <1>2 DEF WriteErr, TypeOK
  <2>3. QED
    BY Zenon, <1>2, <2>1, <2>2 DEF WriteErr, TypeOK
<1>3. QED
  BY Zenon, <1>1, <1>2
------------------------------------------------------------------------------
(* Where the control of a process is.                                       *)

\* A session is open: sid names the execution, rec and rev its record.
Active == {"bind", "run", "finish_saved", "recover", "replan", "cancel", "clean"}

InitWork == {"init", "initRun"}
RunWork  == {"read", "prepared", "planned", "review", "apply", "applyRun"}
Busy     == {"init", "initRun", "collect"}

SessionNamed ==
  \A p \in Procs :
    \/ pc[p] \in Active
    \/ pc[p] = "locked" /\ cmd[p] \notin BeginKinds \cup {"prune"}
    => sid[p] \in Ids

WorkPlaced ==
  \A p \in Procs, n \in Nodes :
    /\ work[p][n] \in RunWork => pc[p] = "run"
    /\ work[p][n] \in InitWork => pc[p] \in {"run", "recover"}

\* Recovery collects one node at a time.
RecoverySequential ==
  \A p \in Procs : pc[p] = "recover" =>
    \A m, n \in Nodes : work[p][m] \in Busy /\ work[p][n] \in Busy => m = n

Control == SessionNamed /\ WorkPlaced /\ RecoverySequential

Shape == TypeOK /\ Control

\* The empty store with idle processes satisfies Shape.
LEMMA ShapeInit == ASSUME Init PROVE Shape
<1>1. NullRecord \in Record
  BY Zenon, NewRecordType DEF NullRecord
<1>2. TypeOK
  BY Zenon, <1>1, KindsAssumption DEF Init, TypeOK, PCs, NoWork, Works
<1>3. Control
  BY Zenon DEF Init, Control, SessionNamed, WorkPlaced, RecoverySequential, Active,
         NoWork, RunWork, InitWork, Busy
<1>4. QED
  BY Zenon, <1>2, <1>3 DEF Shape

\* A worker's step moves that worker and no other.
LEMMA StepType ==
  ASSUME work \in [Procs -> [Nodes -> Works]], NEW p \in Procs, NEW n \in Nodes,
         NEW w \in Works, Step(p, n, w)
  PROVE  /\ work' \in [Procs -> [Nodes -> Works]]
         /\ \A q \in Procs, m \in Nodes :
              work'[q][m] = IF q = p /\ m = n THEN w ELSE work[q][m]
BY Zenon DEF Step

\* A worker's step in run: its write, and where its node goes.
LEMMA TransitionShape ==
  ASSUME Shape, NEW p \in Procs, NEW n \in Nodes, NEW next \in Record,
         NEW w \in Works, pc[p] = "run",
         \/ WriteOK(p, sid[p], next) /\ Step(p, n, w)
         \/ WriteErr(p, sid[p], next) /\ Step(p, n, "failed"),
         bundles' \subseteq [plan : PlanIds, exec : Ids, node : Nodes],
         expired' \subseteq PlanIds, starts' \in [Ids -> [Nodes -> Nat]],
         UNCHANGED <<lock, pc, cmd, sid, todo, used, crashes, forced, orphans>>
  PROVE  Shape'
<1>1. /\ store' \in Stored
      /\ rec' \in [Procs -> Record]
      /\ rev' \in [Procs -> Revs \cup {NoRev}]
      /\ faults' \in Nat
  BY Zenon, WriteType DEF Shape
<1> "failed" \in Works
  BY Zenon DEF Works
<1>w. PICK v \in Works : Step(p, n, v)
  BY Zenon
<1>2. /\ work' \in [Procs -> [Nodes -> Works]]
      /\ \A q \in Procs, m \in Nodes :
           work'[q][m] = IF q = p /\ m = n THEN v ELSE work[q][m]
  BY SMTT(30), <1>w, StepType DEF Shape, TypeOK
<1>3. TypeOK'
  BY Zenon, <1>1, <1>2 DEF Shape, TypeOK, Stored
<1>4. SessionNamed'
  BY Zenon DEF Shape, Control, SessionNamed
<1>5. WorkPlaced'
  BY ZenonT(60), <1>2 DEF Shape, Control, WorkPlaced, RunWork, InitWork
<1>6. RecoverySequential'
  BY ZenonT(90), SMTT(60), <1>2 DEF Shape, Control, RecoverySequential
<1>7. QED
  BY Zenon, <1>3, <1>4, <1>5, <1>6 DEF Shape, Control
\* A worker's step in run that writes nothing.
LEMMA MoveShape ==
  ASSUME Shape, NEW p \in Procs, NEW n \in Nodes, NEW w \in Works,
         pc[p] = "run", Step(p, n, w), NoWrite,
         starts' \in [Ids -> [Nodes -> Nat]],
         UNCHANGED <<bundles, workerFrame>>
  PROVE  Shape'
<1>1. /\ work' \in [Procs -> [Nodes -> Works]]
      /\ \A q \in Procs, m \in Nodes :
           work'[q][m] = IF q = p /\ m = n THEN w ELSE work[q][m]
  BY StepType DEF Shape, TypeOK
<1>2. TypeOK'
  BY Zenon, <1>1 DEF Shape, TypeOK, NoWrite, workerFrame
<1>3. SessionNamed'
  BY Zenon DEF Shape, Control, SessionNamed, workerFrame
<1>4. WorkPlaced'
  BY Zenon, <1>1 DEF Shape, Control, WorkPlaced, RunWork, InitWork, workerFrame
<1>5. RecoverySequential'
  BY ZenonT(90), SMTT(60), <1>1 DEF Shape, Control, RecoverySequential, workerFrame
<1>6. QED
  BY Zenon, <1>2, <1>3, <1>4, <1>5 DEF Shape, Control

\* No worker of p owns or prepares anything: p may leave run or recover.
Quiet(p) == \A n \in Nodes : work[p][n] \notin RunWork \cup InitWork

\* A process outside run and recover, or whose workers have ended, has none
\* that a subprocess could depend on.
LEMMA QuietWork ==
  ASSUME Shape, NEW p \in Procs, AllEnded(p) \/ pc[p] \notin {"run", "recover"}
  PROVE  Quiet(p)
<1>1. CASE AllEnded(p)
  BY Zenon, <1>1 DEF AllEnded, Ended, Quiet, RunWork, InitWork
<1>2. CASE pc[p] \notin {"run", "recover"}
  BY Zenon, <1>2 DEF Shape, Control, WorkPlaced, Quiet
<1>3. QED
  BY Zenon, <1>1, <1>2

\* A process moves from one point to another and its workers stay put.
LEMMA GotoShape ==
  ASSUME Shape, NEW p \in Procs, NEW l \in PCs \ {"locked", "recover"}, Goto(p, l),
         Quiet(p), l \in Active => sid[p] \in Ids,
         UNCHANGED <<cmd, sid, work>>
  PROVE  Control' /\ pc' \in [Procs -> PCs]
<1>1. /\ pc' \in [Procs -> PCs]
      /\ \A q \in Procs : pc'[q] = IF q = p THEN l ELSE pc[q]
  BY Zenon DEF Shape, TypeOK, Goto
<1>2. SessionNamed'
  BY Zenon, <1>1 DEF Shape, Control, SessionNamed
<1>3. WorkPlaced'
  BY Zenon, <1>1 DEF Shape, Control, WorkPlaced, Quiet
<1>4. RecoverySequential'
  BY Zenon, <1>1 DEF Shape, Control, RecoverySequential
<1>5. QED
  BY Zenon, <1>1, <1>2, <1>3, <1>4 DEF Control

\* Ending a command with a publish, acknowledged or not, keeps Shape.
LEMMA PublishShape ==
  ASSUME Shape, NEW p \in Procs, NEW next \in Record,
         NEW l \in PCs \ {"locked", "recover"}, NEW e \in PCs \ {"locked", "recover"},
         pc[p] \in Active, Quiet(p), Publish(p, next, l, e), UNCHANGED endFrame
  PROVE  Shape'
<1>1. /\ store' \in Stored
      /\ rec' \in [Procs -> Record]
      /\ rev' \in [Procs -> Revs \cup {NoRev}]
      /\ faults' \in Nat
  BY Zenon, WriteType DEF Shape, Publish
<1>2. PICK x \in PCs \ {"locked", "recover"} : Goto(p, x)
  BY Zenon DEF Publish
<1>3. Control' /\ pc' \in [Procs -> PCs]
  BY Zenon, <1>2, GotoShape DEF Shape, Control, SessionNamed, endFrame
<1>4. TypeOK'
  BY Zenon, <1>1, <1>3 DEF Shape, TypeOK, Stored, endFrame, ghost, env
<1>5. QED
  BY Zenon, <1>3, <1>4 DEF Shape

\* The workers of a fresh run wait or are skipped.
LEMMA WaitingType ==
  ASSUME NEW sel
  PROVE  /\ Waiting(sel) \in [Nodes -> Works]
         /\ \A n \in Nodes : Waiting(sel)[n] \in {"wait", "skipped"}
BY Zenon DEF Waiting, Works

\* p's session is replaced by nothing: it died or released the locks.
LEMMA ForgetShape ==
  ASSUME Shape, NEW p \in Procs, Forget(p),
         orphans' \subseteq [exec : Ids, node : Nodes],
         lock' \in Procs \cup {NoProc}, crashes' \in Nat,
         UNCHANGED <<object, bundles, starts, used, expired, forced>>
  PROVE  Shape'
<1>1. NullRecord \in Record /\ NoWork \in [Nodes -> Works]
  BY Zenon, NewRecordType DEF NullRecord, NoWork, Works
<1>2. TypeOK'
  BY Zenon, <1>1 DEF Shape, TypeOK, Forget, object, PCs
<1>3. SessionNamed'
  BY Zenon DEF Shape, TypeOK, Control, SessionNamed, Forget, Active
<1>4. \A q \in Procs, n \in Nodes :
        work'[q][n] = IF q = p THEN "skipped" ELSE work[q][n]
  BY Zenon DEF Shape, TypeOK, Forget, NoWork
<1>5. \A q \in Procs : pc'[q] = IF q = p THEN "idle" ELSE pc[q]
  BY Zenon DEF Shape, TypeOK, Forget
<1>6. WorkPlaced'
  BY ZenonT(60), <1>4, <1>5 DEF Shape, Control, WorkPlaced, RunWork, InitWork
<1>7. RecoverySequential'
  BY ZenonT(90), SMTT(60), <1>4, <1>5 DEF Shape, Control, RecoverySequential
<1>8. QED
  BY Zenon, <1>2, <1>3, <1>6, <1>7 DEF Shape, Control

\* Taking the locks for a command keeps Shape.
LEMMA AcquireShape ==
  ASSUME Shape, NEW p \in Procs, NEW k \in Kinds, NEW i \in Ids \cup {NoId},
         Acquire(p, k, i)
  PROVE  Shape'
<1>1. k \in AllKinds
  BY Zenon, KindsAssumption
<1>2. TypeOK'
  BY Zenon, <1>1 DEF Shape, TypeOK, Acquire, Goto, object, ghost, env, PCs
<1>3. \A q \in Procs : pc'[q] = IF q = p THEN "locked" ELSE pc[q]
  BY Zenon DEF Shape, TypeOK, Acquire, Goto
<1>4. SessionNamed'
  BY Zenon, <1>3 DEF Shape, TypeOK, Control, SessionNamed, Acquire, Active
<1>5. Quiet(p)
  BY Zenon, QuietWork DEF Acquire
<1>6. WorkPlaced'
  BY Zenon, <1>3, <1>5 DEF Shape, Control, WorkPlaced, Acquire, Quiet
<1>7. RecoverySequential'
  BY Zenon, <1>3 DEF Shape, Control, RecoverySequential, Acquire
<1>8. QED
  BY Zenon, <1>2, <1>4, <1>6, <1>7 DEF Shape, Control

\* cleanupExecution, complete or interrupted, only removes bundles.
LEMMA CleanupType ==
  ASSUME TypeOK, NEW r, CleanupOK(r) \/ CleanupErr(r)
  PROVE  bundles' \subseteq bundles /\ faults' \in Nat
<1>1. CASE CleanupOK(r)
  <2>1. bundles' \subseteq bundles
    BY Zenon, <1>1 DEF CleanupOK, Others
  <2>2. faults' \in Nat
    BY Zenon, <1>1 DEF CleanupOK, TypeOK
  <2>3. QED
    BY Zenon, <2>1, <2>2
<1>2. CASE CleanupErr(r)
  <2>1. PICK kept \in SUBSET (bundles \ Others(r)) : bundles' = Others(r) \cup kept
    BY Zenon, <1>2 DEF CleanupErr
  <2>2. bundles' \subseteq bundles
    BY Zenon, <2>1 DEF Others
  <2>3. faults' \in Nat
    <3>1. faults \in Nat /\ faults > 0 /\ faults' = faults - 1
      BY Zenon, <1>2 DEF CleanupErr, TypeOK
    <3>2. QED
      BY <3>1
  <2>4. QED
    BY Zenon, <2>2, <2>3
<1>3. QED
  BY Zenon, <1>1, <1>2

\* The steps of pruneExecutions, and the barrier before it.
LEMMA PruneShape ==
  ASSUME Shape, NEW p \in Procs, CheckExecutionBarrier(p) \/ PruneStep(p)
  PROVE  Shape'
<1> USE DEF object, session, ghost, env
<1>0. pc[p] \in {"locked", "prune"}
  BY Zenon DEF CheckExecutionBarrier, PruneStep, PruneSkip, PruneExpire, PruneError,
         PruneBundles, PruneRecord, PruneEnd
<1>q. Quiet(p)
  BY Zenon, <1>0, QuietWork
<1>n. NullRecord \in Record
  BY Zenon, NewRecordType DEF NullRecord
<1>u. ASSUME UNCHANGED <<pc, cmd, sid, work>> PROVE Control'
  BY Zenon, <1>u DEF Shape, Control, SessionNamed, WorkPlaced, RecoverySequential
<1>g. ASSUME NEW l \in {"release", "prune", "create"}, Goto(p, l),
             UNCHANGED <<cmd, sid, work>>
      PROVE  Control' /\ pc' \in [Procs -> PCs]
  <2>1. l \in PCs \ {"locked", "recover"} /\ l \notin Active
    BY Zenon DEF PCs, Active
  <2>2. QED
    BY Zenon, <2>1, <1>g, <1>q, GotoShape
<1>1. CASE CheckExecutionBarrier(p)
  <2>1. Control' /\ pc' \in [Procs -> PCs]
    BY Zenon, <1>1, <1>g DEF CheckExecutionBarrier
  <2>2. todo' \in [Procs -> SUBSET Ids]
    BY ZenonT(90), SMTT(60), <1>1 DEF CheckExecutionBarrier, Shape, TypeOK
  <2>3. QED
    BY Zenon, <1>1, <2>1, <2>2 DEF CheckExecutionBarrier, Shape, TypeOK
<1>2. ASSUME NEW i \in Ids, PruneSkip(p, i) PROVE Shape'
  <2>1. Control'
    BY Zenon, <1>2, <1>u DEF PruneSkip
  <2>2. QED
    BY Zenon, <1>2, <2>1 DEF PruneSkip, Visited, Shape, TypeOK
<1>3. ASSUME NEW i \in Ids, PruneExpire(p, i) PROVE Shape'
  <2>1. Terminal(store[i].rec, "expired") \in Record
    BY Zenon, TerminalType DEF Shape, TypeOK, Statuses
  <2>2. store' \in Stored
    BY Zenon, <1>3, <2>1, PutType DEF PruneExpire, Shape, TypeOK, Stored
  <2>3. faults' \in Nat
    BY <1>3 DEF PruneExpire, Shape, TypeOK
  <2>4. Control' /\ pc' \in [Procs -> PCs]
    <3>1. CASE UNCHANGED pc
      BY Zenon, <1>3, <3>1, <1>u DEF PruneExpire, Shape, TypeOK
    <3>2. CASE Goto(p, "release")
      BY ZenonT(30), <1>3, <3>2, <1>g DEF PruneExpire
    <3>3. QED
      BY Zenon, <1>3, <3>1, <3>2 DEF PruneExpire
  <2>5. QED
    BY Zenon, <1>3, <2>2, <2>3, <2>4 DEF PruneExpire, Shape, TypeOK, Stored
<1>4. ASSUME NEW i \in Ids, PruneError(p, i) PROVE Shape'
  <2>1. Control' /\ pc' \in [Procs -> PCs]
    BY ZenonT(30), <1>4, <1>g DEF PruneError
  <2>2. QED
    BY Zenon, <1>4, <2>1 DEF PruneError, Shape, TypeOK
<1>5. ASSUME NEW i \in Ids, PruneBundles(p, i) PROVE Shape'
  <2>1. bundles' \subseteq bundles /\ faults' \in Nat
    BY Zenon, <1>5, CleanupType DEF PruneBundles, Shape
  <2>2. bundles' \subseteq [plan : PlanIds, exec : Ids, node : Nodes]
    BY Zenon, <2>1 DEF Shape, TypeOK
  <2>3. Control' /\ pc' \in [Procs -> PCs]
    <3>1. CASE UNCHANGED pc
      BY Zenon, <1>5, <3>1, <1>u DEF PruneBundles, Shape, TypeOK
    <3>2. CASE Goto(p, "release")
      BY ZenonT(30), <1>5, <3>2, <1>g DEF PruneBundles
    <3>3. QED
      BY Zenon, <1>5, <3>1, <3>2 DEF PruneBundles
  <2>4. QED
    BY Zenon, <1>5, <2>1, <2>2, <2>3 DEF PruneBundles, Shape, TypeOK
<1>6. ASSUME NEW i \in Ids, PruneRecord(p, i) PROVE Shape'
  <2>1. store' \in Stored
    <3>1. CASE UNCHANGED store
      BY Zenon, <3>1 DEF Shape, TypeOK, Stored
    <3>2. CASE store' = [store EXCEPT ![i] = [rev |-> NoRev, rec |-> NullRecord]]
      BY Zenon, <3>2, <1>n DEF Shape, TypeOK, Stored
    <3>3. QED
      BY Zenon, <1>6, <3>1, <3>2 DEF PruneRecord
  <2>2. faults' \in Nat /\ todo' \in [Procs -> SUBSET Ids]
    <3>1. CASE Visited(p, i) /\ UNCHANGED faults
      BY Zenon, <3>1 DEF Visited, Shape, TypeOK
    <3>2. CASE faults > 0 /\ faults' = faults - 1 /\ UNCHANGED todo
      BY SMTT(30), <3>2 DEF Shape, TypeOK
    <3>3. QED
      BY Zenon, <1>6, <3>1, <3>2 DEF PruneRecord
  <2>3. Control' /\ pc' \in [Procs -> PCs]
    <3>1. CASE UNCHANGED pc
      BY ZenonT(30), <1>6, <3>1, <1>u DEF PruneRecord, Shape, TypeOK
    <3>2. CASE Goto(p, "release")
      BY Zenon, <1>6, <3>2, <1>g DEF PruneRecord
    <3>3. QED
      BY Zenon, <1>6, <3>1, <3>2 DEF PruneRecord
  <2>4. QED
    BY ZenonT(30), <1>6, <2>1, <2>2, <2>3 DEF PruneRecord, Shape, TypeOK, Stored
<1>7. CASE PruneEnd(p)
  <2>1. Control' /\ pc' \in [Procs -> PCs]
    BY ZenonT(30), <1>7, <1>g DEF PruneEnd
  <2>2. QED
    BY Zenon, <1>7, <2>1 DEF PruneEnd, Shape, TypeOK
<1>8. QED
  BY Zenon, <1>1, <1>2, <1>3, <1>4, <1>5, <1>6, <1>7 DEF PruneStep

\* The steps that open a session: a new record or a stored one.
LEMMA OpenShape ==
  ASSUME Shape, NEW p \in Procs, NEW l \in PCs, Goto(p, l),
         NEW w \in [Nodes -> Works], work' = [work EXCEPT ![p] = w],
         \A n \in Nodes : w[n] \in {"wait", "skipped"},
         sid'[p] \in Ids, \A q \in Procs : q # p => sid'[q] = sid[q],
         sid' \in [Procs -> Ids \cup {NoId}],
         UNCHANGED cmd
  PROVE  /\ Control'
         /\ pc' \in [Procs -> PCs]
         /\ work' \in [Procs -> [Nodes -> Works]]
<1>1. /\ pc' \in [Procs -> PCs]
      /\ \A q \in Procs : pc'[q] = IF q = p THEN l ELSE pc[q]
  BY Zenon DEF Shape, TypeOK, Goto
<1>2. /\ work' \in [Procs -> [Nodes -> Works]]
      /\ \A q \in Procs : work'[q] = IF q = p THEN w ELSE work[q]
  BY Zenon DEF Shape, TypeOK
<1>3. SessionNamed'
  BY Zenon, <1>1 DEF Shape, Control, SessionNamed
<1>4. WorkPlaced'
  BY ZenonT(90), SMTT(60), <1>1, <1>2 DEF Shape, Control, WorkPlaced, RunWork, InitWork
<1>5. RecoverySequential'
  BY ZenonT(90), SMTT(60), <1>1, <1>2 DEF Shape, Control, RecoverySequential, Busy
<1>6. QED
  BY ZenonT(30), <1>1, <1>2, <1>3, <1>4, <1>5 DEF Control

\* Giving a command up before its workers start keeps Shape.
LEMMA ReleaseShape ==
  ASSUME Shape, NEW p \in Procs, pc[p] \notin {"run", "recover"}, Goto(p, "release"),
         UNCHANGED <<cmd, sid, work>>
  PROVE  Control' /\ pc' \in [Procs -> PCs]
<1>1. "release" \in PCs \ {"locked", "recover"} /\ "release" \notin Active
  BY Zenon DEF PCs, Active
<1>2. QED
  BY Zenon, <1>1, QuietWork, GotoShape

\* beginExecution's write of the new record keeps Shape.
LEMMA CreateRecordShape ==
  ASSUME Shape, NEW p \in Procs, CreateRecord(p)
  PROVE  Shape'
<1> USE DEF ghost
<1>1. PICK i \in Ids \ used, sel \in SelectionsOf(cmd[p]) \ {{}} :
        LET new == NewRecord(cmd[p] = "save", sel) IN
        /\ used' = used \cup {i}
        /\ \/ /\ WriteOK(p, i, new)
              /\ sid' = [sid EXCEPT ![p] = i]
              /\ IF cmd[p] = "save"
                 THEN Goto(p, "bind") /\ UNCHANGED work
                 ELSE Goto(p, "run") /\ work' = [work EXCEPT ![p] = Waiting(sel)]
           \/ /\ WriteErr(p, i, new)
              /\ Goto(p, "release") /\ UNCHANGED <<sid, work>>
  BY Zenon DEF CreateRecord
<1> DEFINE new == NewRecord(cmd[p] = "save", sel)
<1>2. new \in Record
  BY ZenonT(30), NewRecordType
<1> HIDE DEF new
<1>3. /\ store' \in Stored
      /\ rec' \in [Procs -> Record]
      /\ rev' \in [Procs -> Revs \cup {NoRev}]
      /\ faults' \in Nat
  <2>1. WriteOK(p, i, new) \/ WriteErr(p, i, new)
    BY Zenon, <1>1 DEF new
  <2>2. QED
    BY Zenon, <1>2, <2>1, WriteType DEF Shape
<1>4. pc[p] = "create"
  BY Zenon DEF CreateRecord
<1>5. /\ Control'
      /\ pc' \in [Procs -> PCs]
      /\ work' \in [Procs -> [Nodes -> Works]]
      /\ sid' \in [Procs -> Ids \cup {NoId}]
  <2>1. CASE sid' = [sid EXCEPT ![p] = i] /\ Goto(p, "bind") /\ UNCHANGED work
    <3>1. "bind" \in PCs
      BY Zenon DEF PCs
    <3>2. \A q \in Procs : pc'[q] = IF q = p THEN "bind" ELSE pc[q]
      BY Zenon, <2>1 DEF Goto, Shape, TypeOK
    <3>3. Quiet(p)
      BY Zenon, <1>4, QuietWork
    <3>4. SessionNamed'
      BY Zenon, <2>1, <3>2 DEF CreateRecord, Shape, TypeOK, Control, SessionNamed
    <3>5. WorkPlaced'
      BY Zenon, <2>1, <3>2, <3>3 DEF Shape, Control, WorkPlaced, Quiet
    <3>6. RecoverySequential'
      BY Zenon, <2>1, <3>2 DEF Shape, Control, RecoverySequential
    <3>7. QED
      BY Zenon, <2>1, <3>1, <3>4, <3>5, <3>6 DEF Control, Goto, Shape, TypeOK
  <2>2. CASE /\ sid' = [sid EXCEPT ![p] = i] /\ Goto(p, "run")
             /\ work' = [work EXCEPT ![p] = Waiting(sel)]
    <3>1. "run" \in PCs
      BY Zenon DEF PCs
    <3>2. /\ sid' \in [Procs -> Ids \cup {NoId}]
          /\ sid'[p] \in Ids
          /\ \A q \in Procs : q # p => sid'[q] = sid[q]
      BY Zenon, <2>2 DEF Shape, TypeOK
    <3>3. UNCHANGED cmd
      BY Zenon DEF CreateRecord
    <3>4. QED
      BY ZenonT(30), <2>2, <3>1, <3>2, <3>3, WaitingType, OpenShape
  <2>3. CASE Goto(p, "release") /\ UNCHANGED <<sid, work>>
    <3>1. UNCHANGED cmd
      BY Zenon DEF CreateRecord
    <3>2. QED
      BY ZenonT(30), <1>4, <2>3, <3>1, ReleaseShape DEF Shape, TypeOK
  <2>4. QED
    BY Zenon, <1>1, <2>1, <2>2, <2>3
<1>6. used' \subseteq Ids
  BY Zenon, <1>1 DEF Shape, TypeOK
<1>7. QED
  BY Zenon, <1>3, <1>5, <1>6 DEF CreateRecord, Shape, TypeOK, Stored

\* The session opened on a stored record is well formed.
LEMMA OpenType ==
  ASSUME TypeOK, NEW p \in Procs, sid[p] \in Ids, Open(p)
  PROVE  rec' \in [Procs -> Record] /\ rev' \in [Procs -> Revs \cup {NoRev}]
BY Zenon DEF TypeOK, Open

\* openSavedExecution keeps Shape.
LEMMA OpenSavedShape ==
  ASSUME Shape, NEW p \in Procs, OpenSavedExecution(p)
  PROVE  Shape'
<1> USE DEF object, ghost, env
<1>1. /\ pc[p] = "locked" /\ cmd[p] \in ResumeKinds
      /\ UNCHANGED <<object, bundles, lock, cmd, todo, sid, ghost, env>>
  BY Zenon DEF OpenSavedExecution
<1>2. sid[p] \in Ids
  BY Zenon, <1>1 DEF Shape, Control, SessionNamed, ResumeKinds, BeginKinds, RunKinds
<1>3. CASE Goto(p, "release") /\ UNCHANGED <<rec, rev, work>>
  <2>1. Control' /\ pc' \in [Procs -> PCs]
    BY ZenonT(30), <1>1, <1>3, ReleaseShape
  <2>2. QED
    BY Zenon, <1>1, <1>3, <2>1 DEF Shape, TypeOK
<1>4. CASE Open(p) /\ Goto(p, "bind") /\ UNCHANGED work
  <2>1. "bind" \in PCs \ {"locked", "recover"}
    BY Zenon DEF PCs
  <2>2. Control' /\ pc' \in [Procs -> PCs]
    BY ZenonT(30), <1>1, <1>2, <1>4, <2>1, QuietWork, GotoShape
  <2>3. QED
    BY Zenon, <1>1, <1>2, <1>4, <2>2, OpenType DEF Shape, TypeOK
<1>5. CASE /\ Open(p) /\ Goto(p, "run")
           /\ work' = [work EXCEPT ![p] = Waiting(PlannedNodes(store[sid[p]].rec))]
  <2>1. "run" \in PCs
    BY Zenon DEF PCs
  <2>2. sid' \in [Procs -> Ids \cup {NoId}] /\ \A q \in Procs : sid'[q] = sid[q]
    BY Zenon, <1>1 DEF Shape, TypeOK
  <2>w. PICK w \in [Nodes -> Works] :
          /\ work' = [work EXCEPT ![p] = w]
          /\ \A n \in Nodes : w[n] \in {"wait", "skipped"}
    BY ZenonT(30), <1>5, WaitingType
  <2>3. /\ Control'
        /\ pc' \in [Procs -> PCs]
        /\ work' \in [Procs -> [Nodes -> Works]]
    BY Zenon, <1>1, <1>2, <1>5, <2>1, <2>2, <2>w, OpenShape
  <2>4. QED
    BY Zenon, <1>1, <1>2, <1>5, <2>3, OpenType DEF Shape, TypeOK
<1>6. QED
  BY Zenon, <1>3, <1>4, <1>5 DEF OpenSavedExecution

------------------------------------------------------------------------------
(* The workers, the end of a command and the environment.                   *)

\* The workers of recovery: nothing but work and the session moves.
LEMMA RecoverShape ==
  ASSUME Shape, NEW p \in Procs, NEW n \in Nodes, NEW w \in Works, pc[p] = "recover",
         w \notin RunWork, Step(p, n, w),
         \A m \in Nodes : m # n => work[p][m] \notin Busy,
         store' \in Stored, rec' \in [Procs -> Record],
         rev' \in [Procs -> Revs \cup {NoRev}], faults' \in Nat,
         UNCHANGED <<bundles, starts, workerFrame>>
  PROVE  Shape'
<1>1. /\ work' \in [Procs -> [Nodes -> Works]]
      /\ \A q \in Procs, m \in Nodes :
           work'[q][m] = IF q = p /\ m = n THEN w ELSE work[q][m]
  BY SMTT(30), StepType DEF Shape, TypeOK
<1>2. TypeOK'
  BY Zenon, <1>1 DEF Shape, TypeOK, Stored, workerFrame
<1>3. SessionNamed'
  BY ZenonT(30) DEF Shape, Control, SessionNamed, workerFrame
<1>4. WorkPlaced'
  BY ZenonT(60), <1>1 DEF Shape, Control, WorkPlaced, workerFrame
<1>5. RecoverySequential'
  BY SMTT(30), Z3T(30), <1>1 DEF Shape, Control, RecoverySequential, workerFrame
<1>6. QED
  BY ZenonT(30), <1>2, <1>3, <1>4, <1>5 DEF Shape, Control

\* recoverNodeOutputs up to and including its isolated init keeps Shape.
LEMMA RecoverWorkerShape ==
  ASSUME Shape, NEW p \in Procs, NEW n \in Nodes, RecoverNode(p, n) \/ RecoverInit(p, n)
  PROVE  Shape'
<1>1. /\ pc[p] = "recover"
      /\ UNCHANGED <<bundles, starts, workerFrame>>
  BY Zenon DEF RecoverNode, RecoverInit
<1>2. \A m \in Nodes : m # n => work[p][m] \notin Busy
  <2>1. CASE RecoverNode(p, n)
    BY Zenon, <2>1 DEF RecoverNode, Ended, Busy
  <2>2. CASE RecoverInit(p, n)
    <3>1. work[p][n] \in Busy
      BY Zenon, <2>2 DEF RecoverInit, Busy
    <3>2. QED
      BY Zenon, <1>1, <3>1 DEF Shape, Control, RecoverySequential
  <2>3. QED
    BY Zenon, <2>1, <2>2
<1>3. PICK w \in Works \ RunWork : Step(p, n, w)
  BY Zenon DEF RecoverNode, RecoverInit, Fails, Works, RunWork
<1>4. /\ store' \in Stored
      /\ rec' \in [Procs -> Record]
      /\ rev' \in [Procs -> Revs \cup {NoRev}]
      /\ faults' \in Nat
  <2>1. CASE NoWrite
    BY Zenon, <2>1 DEF NoWrite, Shape, TypeOK, Stored
  <2>2. ASSUME NEW b \in BOOLEAN,
               LET next == [rec[p] EXCEPT !.prep = b] IN
                 WriteOK(p, sid[p], next) \/ WriteErr(p, sid[p], next)
        PROVE  /\ store' \in Stored
               /\ rec' \in [Procs -> Record]
               /\ rev' \in [Procs -> Revs \cup {NoRev}]
               /\ faults' \in Nat
    <3> DEFINE next == [rec[p] EXCEPT !.prep = b]
    <3>0. rec[p] \in Record
      BY Zenon DEF Shape, TypeOK
    <3>1. next \in Record
      BY Zenon, <3>0 DEF Record
    <3>2. WriteOK(p, sid[p], next) \/ WriteErr(p, sid[p], next)
      BY Zenon, <2>2
    <3> HIDE DEF next
    <3>3. QED
      BY Zenon, <3>1, <3>2, WriteType DEF Shape
  <2>3. QED
    BY Zenon, <2>1, <2>2 DEF RecoverNode, RecoverInit, Fails
<1>5. QED
  BY Zenon, <1>1, <1>2, <1>3, <1>4, RecoverShape

\* The collection of a recovered node's outputs keeps Shape.
LEMMA RecoverOutputsShape ==
  ASSUME Shape, NEW p \in Procs, NEW n \in Nodes, RecoverOutputs(p, n)
  PROVE  Shape'
<1> USE DEF ghost, env
<1> DEFINE next == WithPhase(rec[p], n, "completed")
<1>1. next \in Record
  BY ZenonT(30), WithPhaseType DEF Shape, TypeOK, Phases
<1> HIDE DEF next
<1>2. /\ pc[p] = "recover" /\ work[p][n] = "collect"
      /\ UNCHANGED <<bundles, lock, cmd, sid, todo, ghost, env>>
  BY Zenon DEF RecoverOutputs
<1>3. \A m \in Nodes : m # n => work[p][m] \notin Busy
  BY ZenonT(30), <1>2 DEF Shape, Control, RecoverySequential, Busy
<1>4. CASE Fails(p, n) /\ UNCHANGED pc
  <2>1. /\ store' \in Stored
        /\ rec' \in [Procs -> Record]
        /\ rev' \in [Procs -> Revs \cup {NoRev}]
        /\ faults' \in Nat
    BY Zenon, <1>4 DEF Fails, NoWrite, Shape, TypeOK, Stored
  <2>2. "failed" \in Works \ RunWork /\ Step(p, n, "failed")
    BY Zenon, <1>4 DEF Works, RunWork, Fails
  <2>3. QED
    BY ZenonT(30), <1>2, <1>3, <1>4, <2>1, <2>2, RecoverShape DEF workerFrame
<1>5. CASE WriteOK(p, sid[p], next) /\ Step(p, n, "done") /\ UNCHANGED pc
  <2>1. /\ store' \in Stored
        /\ rec' \in [Procs -> Record]
        /\ rev' \in [Procs -> Revs \cup {NoRev}]
        /\ faults' \in Nat
    BY Zenon, <1>1, <1>5, WriteType DEF Shape
  <2>2. "done" \in Works \ RunWork
    BY Zenon DEF Works, RunWork
  <2>3. QED
    BY Zenon, <1>2, <1>3, <1>5, <2>1, <2>2, RecoverShape DEF workerFrame
<1>6. CASE WriteErr(p, sid[p], next) /\ Goto(p, "release") /\ UNCHANGED work
  <2>1. /\ store' \in Stored
        /\ rec' \in [Procs -> Record]
        /\ rev' \in [Procs -> Revs \cup {NoRev}]
        /\ faults' \in Nat
    BY Zenon, <1>1, <1>6, WriteType DEF Shape
  <2>2. Quiet(p)
    BY Zenon, <1>2, <1>3 DEF Quiet, Busy, InitWork, RunWork, Shape, Control, WorkPlaced
  <2>3. "release" \in PCs \ {"locked", "recover"} /\ "release" \notin Active
    BY Zenon DEF PCs, Active
  <2>4. Control' /\ pc' \in [Procs -> PCs]
    BY Zenon, <1>2, <1>6, <2>2, <2>3, GotoShape
  <2>5. QED
    BY Zenon, <1>2, <1>6, <2>1, <2>4 DEF Shape, TypeOK, Stored
<1>7. QED
  BY ZenonT(30), <1>4, <1>5, <1>6 DEF RecoverOutputs, next

\* The workers of run.
LEMMA WorkerShape ==
  ASSUME Shape, NEW p \in Procs, NEW n \in Nodes, WorkerStep(p, n)
  PROVE  Shape'
<1>r. rec[p] \in Record
  BY Zenon DEF Shape, TypeOK
<1>f. ASSUME pc[p] = "run", Fails(p, n), UNCHANGED <<bundles, starts, workerFrame>>
      PROVE  Shape'
  <2>1. "failed" \in Works /\ starts' \in [Ids -> [Nodes -> Nat]]
    BY Zenon, <1>f DEF Works, Shape, TypeOK
  <2>2. QED
    BY Zenon, <1>f, <2>1, MoveShape DEF Fails
<1>t. ASSUME pc[p] = "run", NEW ph \in Phases, NEW w \in Works,
             Transition(p, n, ph, w), UNCHANGED <<bundles, starts, workerFrame>>
      PROVE  Shape'
  <2> DEFINE next == WithPhase(rec[p], n, ph)
  <2>1. next \in Record
    BY ZenonT(30), <1>r, WithPhaseType
  <2>2. \/ WriteOK(p, sid[p], next) /\ Step(p, n, w)
        \/ WriteErr(p, sid[p], next) /\ Step(p, n, "failed")
    BY Zenon, <1>t DEF Transition
  <2> HIDE DEF next
  <2>3. /\ bundles' \subseteq [plan : PlanIds, exec : Ids, node : Nodes]
        /\ expired' \subseteq PlanIds
        /\ starts' \in [Ids -> [Nodes -> Nat]]
    BY Zenon, <1>t DEF workerFrame, Shape, TypeOK
  <2>4. QED
    BY ZenonT(30), <1>t, <2>1, <2>2, <2>3, TransitionShape DEF workerFrame
<1>1. CASE SkipNode(p, n)
  <2>1. "skipped" \in Works /\ starts' \in [Ids -> [Nodes -> Nat]]
    BY Zenon, <1>1 DEF SkipNode, Works, Shape, TypeOK
  <2>2. QED
    BY ZenonT(30), <1>1, <2>1, MoveShape DEF SkipNode, Ready
<1>2. CASE StartNode(p, n)
  BY ZenonT(30), <1>2, <1>f, <1>t DEF StartNode, Ready, Phases, Works
<1>3. CASE RunInit(p, n)
  <2>1. "initRun" \in Works /\ starts' \in [Ids -> [Nodes -> Nat]]
    BY Zenon, <1>3 DEF RunInit, Works, Shape, TypeOK
  <2>2. CASE Step(p, n, "initRun") /\ NoWrite
    BY ZenonT(30), <1>3, <2>1, <2>2, MoveShape DEF RunInit
  <2>3. CASE Transition(p, n, "failed", "failed")
    BY Zenon, <1>3, <2>3, <1>t DEF RunInit, Phases, Works
  <2>4. QED
    BY Zenon, <1>3, <2>2, <2>3 DEF RunInit
<1>4. CASE InitReturns(p, n)
  BY Zenon, <1>4, <1>t DEF InitReturns, Phases, Works
<1>5. CASE ReadReturns(p, n)
  BY Zenon, <1>5, <1>t DEF ReadReturns, Phases, Works
<1>6. CASE PlanReturns(p, n)
  BY Zenon, <1>6, <1>t, <1>f DEF PlanReturns, Phases, Works
<1>7. CASE RetainPlan(p, n)
  <2>1. CASE /\ faults > 0 /\ faults' = faults - 1
             /\ Step(p, n, "failed")
             /\ UNCHANGED <<store, rec, rev, bundles, expired>>
    <3>1. "failed" \in Works
      BY Zenon DEF Works
    <3>2. /\ work' \in [Procs -> [Nodes -> Works]]
          /\ \A q \in Procs, m \in Nodes :
               work'[q][m] = IF q = p /\ m = n THEN "failed" ELSE work[q][m]
      BY SMTT(30), Z3T(30), <2>1, <3>1, StepType DEF Shape, TypeOK
    <3>3. TypeOK'
      BY SMTT(30), <1>7, <2>1, <3>2 DEF RetainPlan, Shape, TypeOK
    <3>4. Control'
      BY ZenonT(90), SMTT(60), <1>7, <3>2 DEF RetainPlan, Shape, Control, SessionNamed, WorkPlaced,
                        RecoverySequential, RunWork, InitWork
    <3>5. QED
      BY Zenon, <3>3, <3>4 DEF Shape
  <2>2. CASE LET next == WithPlan(rec[p], n, NewPlan) IN
             /\ bundles' = bundles \cup
                  {[plan |-> NewPlan, exec |-> sid[p], node |-> n]}
             /\ expired' = expired \ {NewPlan}
             /\ \/ /\ WriteOK(p, sid[p], next)
                   /\ Step(p, n, IF cmd[p] = "retain" THEN "planned" ELSE "review")
                \/ WriteErr(p, sid[p], next) /\ Step(p, n, "failed")
    <3> DEFINE next == WithPlan(rec[p], n, NewPlan)
               w == IF cmd[p] = "retain" THEN "planned" ELSE "review"
    <3>1. NewPlan \in PlanIds
      BY ZenonT(30), <1>7 DEF RetainPlan, NewPlan
    <3>2. next \in Record
      BY Zenon, <1>r, <3>1, WithPlanType
    <3>3. w \in Works
      BY Zenon DEF Works
    <3>4. sid[p] \in Ids
      BY ZenonT(30), <1>7 DEF RetainPlan, Shape, Control, SessionNamed, Active
    <3>5. /\ bundles' \subseteq [plan : PlanIds, exec : Ids, node : Nodes]
          /\ expired' \subseteq PlanIds
          /\ starts' \in [Ids -> [Nodes -> Nat]]
      BY SMTT(30), <1>7, <2>2, <3>1, <3>4 DEF RetainPlan, Shape, TypeOK
    <3>6. \/ WriteOK(p, sid[p], next) /\ Step(p, n, w)
          \/ WriteErr(p, sid[p], next) /\ Step(p, n, "failed")
      BY Zenon, <2>2
    <3> HIDE DEF next, w
    <3>7. QED
      BY ZenonT(30), <1>7, <3>2, <3>3, <3>5, <3>6, TransitionShape DEF RetainPlan
  <2>3. QED
    BY Zenon, <1>7, <2>1, <2>2 DEF RetainPlan
<1>8. CASE SetReview(p, n)
  <2>1. "done" \in Works
    BY Zenon DEF Works
  <2>2. /\ bundles' \subseteq [plan : PlanIds, exec : Ids, node : Nodes]
        /\ expired' \subseteq PlanIds
        /\ starts' \in [Ids -> [Nodes -> Nat]]
    BY Zenon, <1>8 DEF SetReview, workerFrame, Shape, TypeOK
  <2>3. QED
    BY Zenon, <1>8, <1>r, <2>1, <2>2, TransitionShape DEF SetReview, workerFrame
<1>9. CASE AdmitPlan(p, n)
  BY Zenon, <1>9, <1>t, <1>f DEF AdmitPlan, Phases, Works
<1>10. CASE RunMutation(p, n)
  <2>1. CASE /\ Step(p, n, "applyRun") /\ NoWrite
             /\ starts' = [starts EXCEPT ![sid[p]][n] = @ + 1]
    <3>1. "applyRun" \in Works
      BY Zenon DEF Works
    <3>2. sid[p] \in Ids
      BY Zenon, <1>10 DEF RunMutation, Shape, Control, SessionNamed, Active
    <3>3. starts' \in [Ids -> [Nodes -> Nat]]
      BY SMTT(30), <2>1, <3>2 DEF Shape, TypeOK
    <3>4. QED
      BY Zenon, <1>10, <2>1, <3>1, <3>3, MoveShape DEF RunMutation
  <2>2. CASE Transition(p, n, "failed", "failed") /\ UNCHANGED starts
    BY Zenon, <1>10, <2>2, <1>t DEF RunMutation, Phases, Works
  <2>3. QED
    BY Zenon, <1>10, <2>1, <2>2 DEF RunMutation
<1>11. CASE MutationReturns(p, n)
  BY Zenon, <1>11, <1>t, <1>f DEF MutationReturns, Phases, Works
<1>12. CASE CollectOutputs(p, n)
  BY Zenon, <1>12, <1>t, <1>f DEF CollectOutputs, Phases, Works
<1>13. QED
  BY Zenon, <1>1, <1>2, <1>3, <1>4, <1>5, <1>6, <1>7, <1>8, <1>9, <1>10, <1>11, <1>12,
     RecoverWorkerShape, RecoverOutputsShape DEF WorkerStep

\* The steps that end a command with a publish.
LEMMA EndShape ==
  ASSUME Shape, NEW p \in Procs,
         \/ Finish(p) \/ SavedStepDone(p) \/ NoteSavedFailure(p) \/ FinishSaved(p)
         \/ Replan(p) \/ RecoverEnd(p) \/ CancelExecution(p)
  PROVE  Shape'
<1>r. rec[p] \in Record
  BY Zenon DEF Shape, TypeOK
<1>p. {"clean", "release", "finish_saved"} \subseteq PCs \ {"locked", "recover"}
  BY Zenon DEF PCs
<1>e. UNCHANGED endFrame
  BY Zenon DEF Finish, SavedStepDone, NoteSavedFailure, FinishSaved, Replan, RecoverEnd,
         CancelExecution
<1>a. pc[p] \in Active
  BY Zenon DEF Finish, SavedStepDone, NoteSavedFailure, FinishSaved, Replan, RecoverEnd,
         CancelExecution, Active
<1>q. Quiet(p)
  BY ZenonT(30), QuietWork DEF Finish, SavedStepDone, NoteSavedFailure, FinishSaved, Replan,
                   RecoverEnd, CancelExecution
<1>1. CASE Finish(p)
  <2>1. PICK ok \in BOOLEAN : Publish(p, Finished(rec[p], ok), "clean", "release")
    BY Zenon, <1>1 DEF Finish
  <2>2. QED
    BY Zenon, <1>r, <1>p, <1>e, <1>a, <1>q, <2>1, FinishedType, PublishShape
<1>2. CASE SavedStepDone(p)
  <2> DEFINE next == IF cmd[p] = "apply_saved" THEN AppliedSaved(rec[p])
                     ELSE [rec[p] EXCEPT !.status = "waiting_for_apply"]
  <2>1. [rec[p] EXCEPT !.status = "waiting_for_apply"] \in Record
    BY Zenon, <1>r DEF Record, Statuses
  <2>2. next \in Record
    BY Zenon, <1>r, <2>1, AppliedSavedType
  <2>3. Publish(p, next, "clean", "finish_saved")
    BY Zenon, <1>2 DEF SavedStepDone
  <2> HIDE DEF next
  <2>4. QED
    BY Zenon, <1>p, <1>e, <1>a, <1>q, <2>2, <2>3, PublishShape
<1>3. CASE NoteSavedFailure(p)
  BY ZenonT(30), <1>3, <1>r, <1>p, <1>e, <1>a, <1>q, PublishShape DEF NoteSavedFailure
<1>4. CASE FinishSaved(p)
  <2>1. FinishedSaved(rec[p], FALSE) \in Record
    BY ZenonT(30), <1>r, FinishedSavedType
  <2>2. QED
    BY ZenonT(30), <1>4, <2>1, <1>p, <1>e, <1>a, <1>q, PublishShape DEF FinishSaved
<1>5. CASE Publish(p, Recovered(rec[p]), "release", "release")
  <2>1. Recovered(rec[p]) \in Record
    BY Zenon, <1>r, RecoveredType
  <2>2. QED
    BY Zenon, <1>5, <2>1, <1>p, <1>e, <1>a, <1>q, PublishShape
<1>6. CASE NoWrite /\ Goto(p, "release")
  <2>1. Control' /\ pc' \in [Procs -> PCs]
    BY Zenon, <1>6, <1>p, <1>e, <1>q, GotoShape DEF endFrame, Active
  <2>2. QED
    BY Zenon, <1>6, <1>e, <2>1 DEF Shape, TypeOK, NoWrite, endFrame, ghost, env
<1>7. CASE CancelExecution(p)
  <2>1. Terminal(rec[p], "cancelled") \in Record
    BY Zenon, <1>r, TerminalType DEF Statuses
  <2>2. QED
    BY Zenon, <1>7, <2>1, <1>p, <1>e, <1>a, <1>q, PublishShape DEF CancelExecution
<1>8. QED
  BY ZenonT(30), <1>1, <1>2, <1>3, <1>4, <1>5, <1>6, <1>7 DEF Replan, RecoverEnd

\* Binding the graph and computing the frontier (SavePlans) keeps Shape.
LEMMA BindGraphShape ==
  ASSUME Shape, NEW p \in Procs, BindGraph(p)
  PROVE  Shape'
<1> USE DEF ghost, env
<1>1. pc[p] = "bind" /\ UNCHANGED <<bundles, lock, cmd, sid, todo, ghost, env>>
  BY ZenonT(30) DEF BindGraph
<1>2. PICK l \in {"finish_saved", "run"} : Goto(p, l)
  BY Zenon DEF BindGraph, Publish
<1>3. l \in PCs
  BY Zenon DEF PCs
<1>4. PICK w \in [Nodes -> Works] :
        /\ work' = [work EXCEPT ![p] = w]
        /\ \A n \in Nodes : w[n] \in {"wait", "skipped"}
  BY Zenon, WaitingType DEF BindGraph
<1>5. /\ sid' \in [Procs -> Ids \cup {NoId}]
      /\ sid'[p] \in Ids
      /\ \A q \in Procs : sid'[q] = sid[q]
  BY Zenon, <1>1 DEF Shape, TypeOK, Control, SessionNamed, Active
<1>6. /\ Control'
      /\ pc' \in [Procs -> PCs]
      /\ work' \in [Procs -> [Nodes -> Works]]
  BY ZenonT(30), <1>1, <1>2, <1>3, <1>4, <1>5, OpenShape
<1>7. /\ store' \in Stored
      /\ rec' \in [Procs -> Record]
      /\ rev' \in [Procs -> Revs \cup {NoRev}]
      /\ faults' \in Nat
  <2>1. rec[p] \in Record
    BY Zenon DEF Shape, TypeOK
  <2>2. CASE NoWrite
    BY Zenon, <2>2 DEF NoWrite, Shape, TypeOK, Stored
  <2>3. CASE WriteOK(p, sid[p], rec[p]) \/ WriteErr(p, sid[p], rec[p])
    BY ZenonT(30), <2>1, <2>3, WriteType DEF Shape
  <2>4. QED
    BY Zenon, <2>2, <2>3 DEF BindGraph, Publish
<1>8. QED
  BY Zenon, <1>1, <1>6, <1>7 DEF Shape, TypeOK, Stored

\* The cleanup at the end of a command keeps Shape.
LEMMA CleanupShape ==
  ASSUME Shape, NEW p \in Procs, CleanupExecution(p)
  PROVE  Shape'
<1> USE DEF session, ghost, env
<1>1. bundles' \subseteq bundles /\ faults' \in Nat
  <2>1. CASE CleanupOK(rec[p]) \/ CleanupErr(rec[p])
    BY Zenon, <2>1, CleanupType DEF Shape
  <2>2. CASE UNCHANGED <<bundles, faults>>
    BY Zenon, <2>2 DEF Shape, TypeOK
  <2>3. QED
    BY Zenon, <2>1, <2>2 DEF CleanupExecution
<1>2. bundles' \subseteq [plan : PlanIds, exec : Ids, node : Nodes]
  BY Zenon, <1>1 DEF Shape, TypeOK
<1>3. Control' /\ pc' \in [Procs -> PCs]
  BY Zenon, ReleaseShape DEF CleanupExecution
<1>4. QED
  BY Zenon, <1>1, <1>2, <1>3 DEF CleanupExecution, Shape, TypeOK

\* RecoverExecution's checks and its opening of the record keep Shape.
LEMMA OpenRecoveryShape ==
  ASSUME Shape, NEW p \in Procs, OpenRecovery(p)
  PROVE  Shape'
<1> USE DEF ghost, env
<1>1. /\ pc[p] = "locked" /\ cmd[p] \in RecoverKinds
      /\ UNCHANGED <<store, bundles, lock, cmd, sid, todo, ghost, env>>
  BY Zenon DEF OpenRecovery
<1>2. sid[p] \in Ids
  BY ZenonT(30), <1>1 DEF Shape, Control, SessionNamed, RecoverKinds, BeginKinds, RunKinds
<1>3. CASE /\ Goto(p, "release") /\ UNCHANGED <<rec, rev, work>>
           /\ faults' \in Nat
  <2>1. Control' /\ pc' \in [Procs -> PCs]
    BY ZenonT(30), <1>1, <1>3, ReleaseShape
  <2>2. QED
    BY Zenon, <1>1, <1>3, <2>1 DEF Shape, TypeOK
<1>4. CASE /\ Open(p) /\ Goto(p, cmd[p]) /\ UNCHANGED faults
           /\ work' = [work EXCEPT ![p] = IF cmd[p] = "replan" THEN NoWork
                         ELSE Waiting(Recoverable(store[sid[p]].rec))]
  <2>1. cmd[p] \in PCs
    BY Zenon, <1>1 DEF PCs, RecoverKinds
  <2>2. sid' \in [Procs -> Ids \cup {NoId}] /\ \A q \in Procs : sid'[q] = sid[q]
    BY Zenon, <1>1 DEF Shape, TypeOK
  <2>3. NoWork \in [Nodes -> Works] /\ \A n \in Nodes : NoWork[n] = "skipped"
    BY Zenon DEF NoWork, Works
  <2>4. PICK w \in [Nodes -> Works] :
          /\ work' = [work EXCEPT ![p] = w]
          /\ \A n \in Nodes : w[n] \in {"wait", "skipped"}
    BY ZenonT(30), <1>4, <2>3, WaitingType
  <2>5. /\ Control'
        /\ pc' \in [Procs -> PCs]
        /\ work' \in [Procs -> [Nodes -> Works]]
    BY ZenonT(30), <1>1, <1>2, <1>4, <2>1, <2>2, <2>4, OpenShape
  <2>6. QED
    BY Zenon, <1>1, <1>2, <1>4, <2>5, OpenType DEF Shape, TypeOK
<1>5. QED
  BY SMTT(30), <1>3, <1>4 DEF OpenRecovery, ReadError, Shape, TypeOK

\* CancelExecution's checks and its opening of the record keep Shape.
LEMMA OpenCancelShape ==
  ASSUME Shape, NEW p \in Procs, OpenCancel(p)
  PROVE  Shape'
<1> USE DEF ghost, env
<1>1. /\ pc[p] = "locked" /\ cmd[p] = "cancel"
      /\ UNCHANGED <<store, bundles, lock, cmd, sid, work, todo, ghost, env>>
  BY Zenon DEF OpenCancel
<1>2. sid[p] \in Ids
  BY ZenonT(30), <1>1 DEF Shape, Control, SessionNamed, BeginKinds, RunKinds
<1>3. CASE Goto(p, "release") /\ UNCHANGED <<rec, rev>> /\ faults' \in Nat
  <2>1. Control' /\ pc' \in [Procs -> PCs]
    BY ZenonT(30), <1>1, <1>3, ReleaseShape
  <2>2. QED
    BY Zenon, <1>1, <1>3, <2>1 DEF Shape, TypeOK
<1>4. CASE /\ Open(p) /\ UNCHANGED faults
           /\ Goto(p, AfterOpenCancel(store[sid[p]].rec))
  <2>1. PICK l \in {"clean", "cancel"} : Goto(p, l)
    BY Zenon, <1>4 DEF AfterOpenCancel
  <2>2. l \in PCs \ {"locked", "recover"}
    BY Zenon DEF PCs
  <2>3. Control' /\ pc' \in [Procs -> PCs]
    BY Zenon, <1>1, <1>2, <2>1, <2>2, QuietWork, GotoShape
  <2>4. QED
    BY ZenonT(30), <1>1, <1>2, <1>4, <2>3, OpenType DEF Shape, TypeOK
<1>5. QED
  BY SMTT(30), <1>3, <1>4 DEF OpenCancel, ReadError, Shape, TypeOK

\* Release, and the steps of the environment.
LEMMA EnvironmentShape ==
  ASSUME Shape, (\E p \in Procs : Release(p)) \/ Environment
  PROVE  Shape'
<1> USE DEF object, control, session, ghost, env
<1>1. ASSUME NEW p \in Procs, Release(p) PROVE Shape'
  BY Zenon, <1>1, ForgetShape DEF Release, Shape, TypeOK
<1>2. ASSUME NEW p \in Procs, Crash(p) PROVE Shape'
  <2>1. orphans' \subseteq [exec : Ids, node : Nodes]
    <3>1. \A n \in Running(p) : sid[p] \in Ids
      BY Zenon DEF Running, Shape, Control, WorkPlaced, SessionNamed, RunWork, InitWork, Active
    <3>2. QED
      BY SMTT(30), <1>2, <3>1 DEF Crash, Running, Shape, TypeOK
  <2>2. crashes' \in Nat
    BY SMTT(30), <1>2 DEF Crash, Shape, TypeOK
  <2>3. QED
    BY ZenonT(30), <1>2, <2>1, <2>2, ForgetShape DEF Crash, Shape, TypeOK
<1>u. ASSUME UNCHANGED <<pc, cmd, sid, work>> PROVE Control'
  BY Zenon, <1>u DEF Shape, Control, SessionNamed, WorkPlaced, RecoverySequential
<1>3. CASE OrphanExits
  BY Zenon, <1>3, <1>u DEF OrphanExits, Shape, TypeOK
<1>4. CASE Unlock
  BY SMTT(30), <1>4, <1>u DEF Unlock, Shape, TypeOK
<1>5. CASE PlanExpires
  <2>1. expired' \subseteq PlanIds
    BY Zenon, <1>5 DEF PlanExpires, Shape, TypeOK
  <2>2. QED
    BY Zenon, <1>5, <2>1, <1>u DEF PlanExpires, Shape, TypeOK
<1>6. QED
  BY Zenon, <1>1, <1>2, <1>3, <1>4, <1>5 DEF Environment

\* Every step of the protocol keeps Shape.
LEMMA ShapeStep ==
  ASSUME Shape, [Next]_vars
  PROVE  Shape'
<1>1. CASE UNCHANGED vars
  BY ZenonT(30), <1>1 DEF vars, Shape, TypeOK, Control, SessionNamed, WorkPlaced,
              RecoverySequential
<1>2. ASSUME NEW p \in Procs, CommandStep(p) PROVE Shape'
  BY Zenon, <1>2, PruneShape, CreateRecordShape, OpenSavedShape, BindGraphShape, EndShape,
     CleanupShape, OpenRecoveryShape, OpenCancelShape, EnvironmentShape, WorkerShape
     DEF CommandStep
<1>3. QED
  BY Zenon, <1>1, <1>2, AcquireShape, EnvironmentShape DEF Next

\* Every state the protocol reaches is well typed, for any number of
\* processes, nodes, executions, crashes, store errors and broken locks: no
\* sequence of commands drives a record to a phase or status, or a session to
\* an execution, that no reader of the journal knows.
THEOREM TypeCorrect == Spec => []TypeOK
<1>1. Init => Shape
  BY Zenon, ShapeInit
<1>2. Shape /\ [Next]_vars => Shape'
  BY Zenon, ShapeStep
<1>3. Shape => TypeOK
  BY Zenon DEF Shape
<1>4. QED
  BY <1>1, <1>2, <1>3, PTL DEF Spec

------------------------------------------------------------------------------
(* Safety.                                                                  *)

\* The phases of a node whose mutating command has been started.
StartedPhases == {"applying", "operating", "applied", "indeterminate", "completed"}

\* A worker whose subprocess is about to start or runs.
OwnWork == {"init", "initRun", "apply", "applyRun"}

\* The session's phase for a node, given where its worker is.
Fits(w, ph) ==
  /\ w = "wait" => ph \in {"pending", "planned"}
  /\ w \in InitWork => ph = "initializing"
  /\ w = "read" => ph = "reading"
  /\ w = "prepared" => ph = "preparing"
  /\ w \in {"planned", "review"} => ph = "planned"
  /\ w \in {"apply", "applyRun"} => ph \in {"applying", "operating"}
  /\ w = "collect" => ph = "applied"

UsedIds ==
  /\ \A i \in Ids : Exists(i) => i \in used
  /\ \A p \in Procs : sid[p] \in Ids => sid[p] \in used
  /\ \A i \in Ids : i \notin used => \A n \in Nodes : starts[i][n] = 0

Revisions ==
  \A p \in Procs :
    /\ pc[p] \in {"idle", "locked", "prune", "create"} => rev[p] = NoRev
    /\ pc[p] \in Active => rev[p] # NoRev

SessionFits ==
  \A p \in Procs :
    /\ pc[p] \in {"bind", "run", "finish_saved", "recover"} => ~rec[p].recovered
    /\ pc[p] = "run" => \A n \in Nodes : Fits(work[p][n], rec[p].phase[n])

\* What the store says while a worker owns its node.
OwnerStored ==
  \A p \in Procs, n \in Nodes :
    work[p][n] \in OwnWork =>
      /\ Exists(sid[p])
      /\ ~store[sid[p]].rec.recovered
      /\ IF pc[p] = "recover" THEN store[sid[p]].rec.prep
                              ELSE store[sid[p]].rec.phase[n] = rec[p].phase[n]

\* No other session of the execution holds the current revision.
OwnerAlone ==
  \A p \in Procs, n \in Nodes, q \in Procs :
    work[p][n] \in OwnWork /\ q # p /\ sid[q] = sid[p]
      => rev[q] # store[sid[p]].rev

OwnerUnique ==
  \A p, q \in Procs, m, n \in Nodes :
    work[p][m] \in OwnWork /\ work[q][n] \in OwnWork /\ sid[p] = sid[q] => p = q

Started ==
  /\ \A i \in Ids, n \in Nodes :
       starts[i][n] # 0 =>
         starts[i][n] = 1 /\ (Exists(i) => store[i].rec.phase[n] \in StartedPhases)
  /\ \A p \in Procs, n \in Nodes : work[p][n] = "apply" => starts[sid[p]][n] = 0

OrphanStored ==
  \A o \in orphans :
    /\ Exists(o.exec)
    /\ ExecutionNeedsRecovery(store[o.exec].rec)
    /\ \A q \in Procs : sid[q] = o.exec => rev[q] # store[o.exec].rev

Safe == /\ UsedIds /\ Revisions /\ SessionCurrent /\ SessionFits
        /\ OwnerStored /\ OwnerAlone /\ OwnerUnique /\ Started /\ OrphanStored

\* The empty store with idle processes satisfies Safe.
LEMMA SafeInit == ASSUME Init PROVE Safe
<1> USE DEF Init
<1>1. UsedIds
  BY Zenon, SentinelAssumption DEF UsedIds, Exists
<1>2. Revisions
  BY Zenon DEF Revisions, Active
<1>3. SessionCurrent
  BY Zenon DEF SessionCurrent
<1>4. SessionFits
  BY Zenon DEF SessionFits
<1>5. \A p \in Procs, n \in Nodes : work[p][n] = "skipped"
  BY Zenon DEF NoWork
<1>6. OwnerStored /\ OwnerAlone /\ OwnerUnique
  BY ZenonT(60), <1>5 DEF OwnerStored, OwnerAlone, OwnerUnique, OwnWork
<1>7. Started
  BY Zenon, <1>5 DEF Started
<1>8. OrphanStored
  BY Zenon DEF OrphanStored
<1>9. QED
  BY Zenon, <1>1, <1>2, <1>3, <1>4, <1>6, <1>7, <1>8 DEF Safe

\* A record whose execution a worker owns blocks new work.
LEMMA OwnerBlocks ==
  ASSUME Shape, Safe, NEW p \in Procs, NEW n \in Nodes, work[p][n] \in OwnWork
  PROVE  /\ sid[p] \in Ids /\ pc[p] \in {"run", "recover"}
         /\ Exists(sid[p])
         /\ ExecutionNeedsRecovery(store[sid[p]].rec)
<1>1. pc[p] \in {"run", "recover"} /\ sid[p] \in Ids
  BY Zenon DEF Shape, Control, WorkPlaced, SessionNamed, OwnWork, RunWork, InitWork, Active
<1>2. /\ Exists(sid[p])
      /\ ~store[sid[p]].rec.recovered
      /\ IF pc[p] = "recover" THEN store[sid[p]].rec.prep
                              ELSE store[sid[p]].rec.phase[n] = rec[p].phase[n]
  BY Zenon DEF Safe, OwnerStored
<1>3. pc[p] = "run" => store[sid[p]].rec.phase[n] \in Unresolved
  BY Zenon, <1>2 DEF Safe, SessionFits, Fits, OwnWork, InitWork, Unresolved
<1>4. QED
  BY Zenon, <1>1, <1>2, <1>3 DEF ExecutionNeedsRecovery

\* A session's write took effect: p held the current revision, the new one
\* is unknown to every session, and p learnt of it or did not.
Landed(p, next) ==
  LET i == sid[p] IN
  /\ store[i].rev = rev[p]
  /\ store'[i].rec = next
  /\ store'[i].rev \in Revs
  /\ \A q \in Procs : sid[q] = i => rev[q] # store'[i].rev
  /\ \A j \in Ids : j # i => store'[j] = store[j]
  /\ \A q \in Procs : q # p => rec'[q] = rec[q] /\ rev'[q] = rev[q]

Acked(p, next) == rec'[p] = next /\ rev'[p] = store'[sid[p]].rev
NotAcked(p)    == rec'[p] = rec[p] /\ rev'[p] = rev[p]

\* After a write, no session of the execution knows the stored revision.
LEMMA PutFresh ==
  ASSUME TypeOK, NEW i \in Ids, NEW r, Put(i, r)
  PROVE  /\ store'[i].rec = r
         /\ store'[i].rev = NewRev(i)
         /\ store'[i].rev \in Revs
         /\ store'[i].rev # store[i].rev
         /\ \A q \in Procs : sid[q] = i => rev[q] # store'[i].rev
         /\ \A j \in Ids : j # i => store'[j] = store[j]
<1>1. NewRev(i) \in Revs /\ NewRev(i) \notin HeldRevs(i)
  BY Zenon, NewRevFresh DEF Put
<1>2. store' = [store EXCEPT ![i] = [rev |-> NewRev(i), rec |-> r]]
  BY Zenon DEF Put
<1>3. /\ NewRev(i) # store[i].rev
      /\ \A q \in Procs : sid[q] = i => rev[q] # NewRev(i)
  BY Zenon, <1>1 DEF HeldRevs
<1> HIDE DEF NewRev
<1>4. QED
  BY Zenon, <1>1, <1>2, <1>3 DEF TypeOK

\* An acknowledged write landed and moved the session; one that reported an
\* error landed behind the session's back or changed nothing.
LEMMA WriteCases ==
  ASSUME TypeOK, NEW p \in Procs, sid[p] \in Ids, NEW next
  PROVE  /\ WriteOK(p, sid[p], next) => Landed(p, next) /\ Acked(p, next)
         /\ WriteErr(p, sid[p], next) => \/ Landed(p, next) /\ NotAcked(p)
                                        \/ UNCHANGED <<store, rec, rev>>
<1>1. ASSUME WriteOK(p, sid[p], next) PROVE Landed(p, next) /\ Acked(p, next)
  <2>1. Put(sid[p], next)
    BY Zenon, <1>1 DEF WriteOK
  <2> DEFINE v == NewRev(sid[p])
  <2>2. /\ store[sid[p]].rev = rev[p]
        /\ rec' = [rec EXCEPT ![p] = next]
        /\ rev' = [rev EXCEPT ![p] = v]
    BY Zenon, <1>1 DEF WriteOK
  <2>3. store'[sid[p]].rev = v
    BY Zenon, <2>1, PutFresh
  <2> HIDE DEF v
  <2>4. /\ rec'[p] = next /\ rev'[p] = v
        /\ \A q \in Procs : q # p => rec'[q] = rec[q] /\ rev'[q] = rev[q]
    BY Zenon, <2>2 DEF TypeOK
  <2>5. QED
    BY Zenon, <1>1, <2>1, <2>2, <2>3, <2>4, PutFresh DEF Landed, Acked
<1>2. ASSUME WriteErr(p, sid[p], next)
      PROVE  \/ Landed(p, next) /\ NotAcked(p)
             \/ UNCHANGED <<store, rec, rev>>
  <2>1. UNCHANGED <<rec, rev>>
    BY Zenon, <1>2 DEF WriteErr
  <2>2. CASE store[sid[p]].rev = rev[p] /\ Put(sid[p], next)
    BY Zenon, <1>2, <2>1, <2>2, PutFresh DEF Landed, NotAcked
  <2>3. CASE UNCHANGED store
    BY Zenon, <1>2, <2>1, <2>3
  <2>4. QED
    BY Zenon, <1>2, <2>2, <2>3 DEF WriteErr
<1>3. QED
  BY Zenon, <1>1, <1>2

\* The sessions of the other processes are as before.
OthersStay(p) == \A q \in Procs : q # p => pc'[q] = pc[q] /\ work'[q] = work[q]

\* What a step of p owes the invariant about p's own session.
Kept(p) ==
  /\ pc'[p] \in Active \cup {"release"}
  /\ pc'[p] \in {"bind", "run", "finish_saved", "recover"} => ~rec'[p].recovered
  /\ pc'[p] = "run" => \A n \in Nodes : Fits(work'[p][n], rec'[p].phase[n])

\* A session's write that took effect.
LEMMA LandSafe ==
  ASSUME Shape, Safe, NEW p \in Procs, NEW next, pc[p] \in Active, Landed(p, next),
         Acked(p, next) \/ NotAcked(p), OthersStay(p), Kept(p),
         UNCHANGED <<sid, used, orphans, starts>>,
         \A n \in Nodes : work'[p][n] \in OwnWork =>
           /\ ~next.recovered
           /\ IF pc'[p] = "recover" THEN next.prep
                                    ELSE next.phase[n] = rec'[p].phase[n],
         \A n \in Nodes : /\ starts[sid[p]][n] # 0 => next.phase[n] \in StartedPhases
                          /\ work'[p][n] = "apply" => starts[sid[p]][n] = 0
  PROVE  Safe'
<1> DEFINE i == sid[p]
<1>i. i \in Ids
  BY Zenon DEF Shape, Control, SessionNamed
<1>v. rev[p] # NoRev /\ store[i].rev # NoRev /\ store'[i].rev # NoRev
  BY ZenonT(60), SentinelAssumption DEF Safe, Revisions, Landed
<1>o. \A q \in Procs, n \in Nodes : q # p /\ sid[q] = i => work[q][n] \notin OwnWork
  <2>s. OwnerAlone
    BY Zenon DEF Safe
  <2>q. QED
    BY ZenonT(60), SMTT(30), <2>s, <1>i DEF OwnerAlone, Landed
<1>w. \A q \in Procs, n \in Nodes : q # p => work'[q][n] = work[q][n]
  BY Zenon DEF OthersStay
<1>s. \A q \in Procs : sid[q] \in Ids /\ sid[q] # i => store'[sid[q]] = store[sid[q]]
  BY Zenon DEF Landed
<1>1. UsedIds'
  BY Zenon, <1>i, <1>v DEF Safe, UsedIds, Exists, Landed
<1>2. Revisions'
  <2>1. rev'[p] # NoRev
    BY Zenon, <1>v DEF Acked, NotAcked
  <2>2. QED
    <3>s. Revisions
      BY Zenon DEF Safe
    <3>q. QED
      BY ZenonT(60), SMTT(30), <3>s, <2>1 DEF Revisions, OthersStay, Kept, Active, Landed
<1>3. SessionCurrent'
  <2>1. SUFFICES ASSUME NEW q \in Procs, sid[q] # NoId, rev'[q] # NoRev,
                        store'[sid[q]].rev = rev'[q]
                 PROVE  store'[sid[q]].rec = rec'[q]
    BY Zenon DEF SessionCurrent
  <2>2. sid[q] \in Ids
    BY Zenon, <2>1 DEF Shape, TypeOK
  <2>3. CASE q = p
    BY Zenon, <2>1, <2>3 DEF Landed, Acked, NotAcked
  <2>4. CASE q # p /\ sid[q] = i
    BY Zenon, <2>1, <2>4 DEF Landed
  <2>5. CASE q # p /\ sid[q] # i
    <3>s. SessionCurrent
      BY Zenon DEF Safe
    <3>q. QED
      BY ZenonT(60), SMTT(30), <3>s, <2>1, <2>2, <2>5, <1>s DEF Landed, SessionCurrent
  <2>6. QED
    BY Zenon, <2>3, <2>4, <2>5
<1>4. SessionFits'
  <2>1. SUFFICES ASSUME NEW q \in Procs
        PROVE /\ pc'[q] \in {"bind", "run", "finish_saved", "recover"} => ~rec'[q].recovered
              /\ pc'[q] = "run" => \A n \in Nodes : Fits(work'[q][n], rec'[q].phase[n])
    BY Zenon DEF SessionFits
  <2>2. CASE q = p
    BY Zenon, <2>2 DEF Kept
  <2>3. CASE q # p
    BY ZenonT(60), <2>3 DEF Safe, SessionFits, OthersStay, Landed
  <2>4. QED
    BY Zenon, <2>2, <2>3
<1>5. OwnerStored'
  <2>1. SUFFICES ASSUME NEW q \in Procs, NEW n \in Nodes, work'[q][n] \in OwnWork
        PROVE /\ store'[sid[q]].rev # NoRev
              /\ ~store'[sid[q]].rec.recovered
              /\ IF pc'[q] = "recover" THEN store'[sid[q]].rec.prep
                 ELSE store'[sid[q]].rec.phase[n] = rec'[q].phase[n]
    BY ZenonT(60) DEF OwnerStored, Exists
  <2>2. CASE q = p
    BY Zenon, <2>1, <2>2, <1>v DEF Landed
  <2>3. CASE q # p
    <3>1. work[q][n] \in OwnWork /\ sid[q] # i
      BY Zenon, <2>1, <2>3, <1>w, <1>o
    <3>2. store'[sid[q]] = store[sid[q]]
      BY Zenon, <3>1, <1>s, OwnerBlocks
    <3>3. pc'[q] = pc[q] /\ rec'[q] = rec[q]
      BY Zenon, <2>3 DEF OthersStay, Landed
    <3>4. QED
      <4>s. OwnerStored
        BY Zenon DEF Safe
      <4>q. QED
        BY ZenonT(60), SMTT(30), <4>s, <3>1, <3>2, <3>3 DEF OwnerStored, Exists
  <2>4. QED
    BY Zenon, <2>2, <2>3
<1>6. OwnerAlone'
  <2>1. SUFFICES ASSUME NEW q \in Procs, NEW n \in Nodes, NEW r \in Procs,
                        work'[q][n] \in OwnWork, r # q, sid[r] = sid[q]
                 PROVE  rev'[r] # store'[sid[q]].rev
    BY ZenonT(60) DEF OwnerAlone
  <2>2. CASE q = p
    BY Zenon, <2>1, <2>2 DEF Landed
  <2>3. CASE q # p
    <3>1. work[q][n] \in OwnWork /\ sid[q] # i
      BY Zenon, <2>1, <2>3, <1>w, <1>o
    <3>2. store'[sid[q]] = store[sid[q]]
      BY Zenon, <3>1, <1>s, OwnerBlocks
    <3>3. r # p
      BY Zenon, <2>1, <3>1
    <3>4. QED
      <4>s. OwnerAlone
        BY Zenon DEF Safe
      <4>q. QED
        BY ZenonT(60), SMTT(30), <4>s, <2>1, <3>1, <3>2, <3>3 DEF OwnerAlone, Landed
  <2>4. QED
    BY Zenon, <2>2, <2>3
<1>7. OwnerUnique'
  BY SMTT(30), <1>w, <1>o DEF Safe, OwnerUnique
<1>8. Started'
  <2>1. \A j \in Ids, n \in Nodes : starts[j][n] # 0 =>
          starts[j][n] = 1 /\ (store'[j].rev # NoRev => store'[j].rec.phase[n] \in StartedPhases)
    <3>s. Started
      BY Zenon DEF Safe
    <3>q. QED
      BY ZenonT(60), SMTT(30), <3>s, <1>i DEF Started, Exists, Landed
  <2>2. \A q \in Procs, n \in Nodes : work'[q][n] = "apply" => starts[sid[q]][n] = 0
    <3>s. Started
      BY Zenon DEF Safe
    <3>q. QED
      BY ZenonT(60), SMTT(30), <3>s, <1>w DEF Started
  <2>3. QED
    BY ZenonT(60), <2>1, <2>2 DEF Started, Exists
<1>9. OrphanStored'
  <2>1. SUFFICES ASSUME NEW o \in orphans
        PROVE /\ store'[o.exec].rev # NoRev
              /\ ExecutionNeedsRecovery(store'[o.exec].rec)
              /\ \A q \in Procs : sid[q] = o.exec => rev'[q] # store'[o.exec].rev
    BY Zenon DEF OrphanStored, Exists
  <2>2. o.exec \in Ids
    BY ZenonT(60) DEF Shape, TypeOK
  <2>3. o.exec # i
    BY DEF Safe, OrphanStored, Landed
  <2>4. store'[o.exec] = store[o.exec]
    BY Zenon, <2>2, <2>3 DEF Landed
  <2>5. QED
    <3>s. OrphanStored
      BY Zenon DEF Safe
    <3>q. QED
      BY ZenonT(60), SMTT(30), <3>s, <2>3, <2>4 DEF OrphanStored, Exists, Landed
<1>10. QED
  BY Zenon, <1>1, <1>2, <1>3, <1>4, <1>5, <1>6, <1>7, <1>8, <1>9 DEF Safe

\* A step of p that leaves the store, the sessions and the counts alone.
LEMMA HoldSafe ==
  ASSUME Shape, Safe, NEW p \in Procs, OthersStay(p),
         UNCHANGED <<store, rec, rev, sid, used, orphans, starts>>,
         \/ pc[p] \in Active /\ Kept(p)
         \/ pc'[p] \in {"prune", "create"} /\ pc[p] \in {"locked", "prune"}
         \/ pc'[p] = "release",
         \A n \in Nodes : /\ work'[p][n] \in OwnWork =>
                               work[p][n] \in OwnWork /\ pc'[p] = pc[p]
                          /\ work'[p][n] = "apply" => work[p][n] = "apply"
  PROVE  Safe'
<1>w. \A q \in Procs, n \in Nodes : work'[q][n] \in OwnWork =>
        work[q][n] \in OwnWork /\ pc'[q] = pc[q]
  BY Zenon DEF OthersStay
<1>1. UsedIds'
  BY Zenon DEF Safe, UsedIds, Exists
<1>2. Revisions'
  BY Zenon DEF Safe, Revisions, OthersStay, Kept, Active
<1>3. SessionCurrent'
  BY Zenon DEF Safe, SessionCurrent
<1>4. SessionFits'
  <2>1. SUFFICES ASSUME NEW q \in Procs
        PROVE /\ pc'[q] \in {"bind", "run", "finish_saved", "recover"} => ~rec'[q].recovered
              /\ pc'[q] = "run" => \A n \in Nodes : Fits(work'[q][n], rec'[q].phase[n])
    BY Zenon DEF SessionFits
  <2>2. CASE q = p
    BY Zenon, <2>2 DEF Kept
  <2>3. CASE q # p
    BY Zenon, <2>3 DEF Safe, SessionFits, OthersStay
  <2>4. QED
    BY Zenon, <2>2, <2>3
<1>5. OwnerStored'
  <2>s. OwnerStored
    BY Zenon DEF Safe
  <2>q. QED
    BY ZenonT(60), SMTT(30), <2>s, <1>w DEF OwnerStored, Exists
<1>6. OwnerAlone' /\ OwnerUnique'
  <2>1. OwnerAlone'
    BY ZenonT(30), <1>w DEF Safe, OwnerAlone
  <2>2. OwnerUnique'
    BY ZenonT(30), <1>w DEF Safe, OwnerUnique
  <2>3. QED
    BY Zenon, <2>1, <2>2
<1>7. Started'
  <2>s. Started
    BY Zenon DEF Safe
  <2>q. QED
    BY ZenonT(60), SMTT(30), <2>s DEF Started, OthersStay, Exists
<1>8. OrphanStored'
  BY Zenon DEF Safe, OrphanStored, Exists
<1>9. QED
  BY Zenon, <1>1, <1>2, <1>3, <1>4, <1>5, <1>6, <1>7, <1>8 DEF Safe

\* The invariant about a session, when its write is not acknowledged or lands.
LEMMA CurrentRecord ==
  ASSUME Shape, Safe, NEW p \in Procs, NEW next, pc[p] \in Active, Landed(p, next)
  PROVE  /\ sid[p] \in Ids /\ Exists(sid[p])
         /\ store[sid[p]].rec = rec[p]
         /\ \A n \in Nodes :
              starts[sid[p]][n] # 0 => rec[p].phase[n] \in StartedPhases
<1>1. sid[p] \in Ids /\ sid[p] # NoId
  BY Zenon, SentinelAssumption DEF Shape, Control, SessionNamed
<1>2. rev[p] # NoRev /\ store[sid[p]].rev = rev[p]
  BY Zenon DEF Safe, Revisions, Landed
<1>3. store[sid[p]].rec = rec[p]
  BY Zenon, <1>1, <1>2 DEF Safe, SessionCurrent
<1>4. QED
  BY Zenon, <1>1, <1>2, <1>3 DEF Safe, Started, Exists

\* A worker in run publishes phase ph of its node and goes on to w.
LEMMA TransitionSafe ==
  ASSUME Shape, Safe, NEW p \in Procs, NEW n \in Nodes, pc[p] = "run",
         NEW next \in Record, NEW ph \in Phases, NEW w \in Works,
         next.phase = [rec[p].phase EXCEPT ![n] = ph],
         next.recovered = rec[p].recovered,
         \/ WriteOK(p, sid[p], next) /\ Step(p, n, w)
         \/ WriteErr(p, sid[p], next) /\ Step(p, n, "failed"),
         UNCHANGED <<pc, sid, used, orphans, starts>>,
         Fits(w, ph),
         \/ ph \in StartedPhases /\ w # "apply"
         \/ rec[p].phase[n] \notin StartedPhases
         \/ starts[sid[p]][n] = 0
  PROVE  Safe'
<1>0. pc[p] \in Active /\ sid[p] \in Ids
  BY Zenon DEF Active, Shape, Control, SessionNamed
<1>r. /\ rec[p].phase \in [Nodes -> Phases]
      /\ ~rec[p].recovered
      /\ \A m \in Nodes : Fits(work[p][m], rec[p].phase[m])
  BY Zenon DEF Shape, TypeOK, Record, Safe, SessionFits
<1>p. \A m \in Nodes : next.phase[m] = IF m = n THEN ph ELSE rec[p].phase[m]
  BY ZenonT(30), <1>r
<1>f. "failed" \in Works /\ \A x : Fits("failed", x)
  BY Zenon DEF Works, Fits, InitWork
<1>t. work \in [Procs -> [Nodes -> Works]]
  BY Zenon DEF Shape, TypeOK
<1>1. CASE Landed(p, next) /\ Acked(p, next) /\ Step(p, n, w)
  <2>1. \A q \in Procs, m \in Nodes :
          work'[q][m] = IF q = p /\ m = n THEN w ELSE work[q][m]
    BY SMTT(30), Z3T(30), <1>1, <1>t, StepType
  <2>2. OthersStay(p)
    BY Zenon, <1>1, <1>t DEF OthersStay, Step
  <2>3. Kept(p)
    BY ZenonT(30), <1>1, <1>0, <1>r, <1>p, <2>1 DEF Kept, Acked
  <2>4. \A m \in Nodes : work'[p][m] \in OwnWork =>
          /\ ~next.recovered
          /\ IF pc'[p] = "recover" THEN next.prep
                                   ELSE next.phase[m] = rec'[p].phase[m]
    BY Zenon, <1>1, <1>r DEF Acked
  <2>5. \A m \in Nodes : starts[sid[p]][m] # 0 => rec[p].phase[m] \in StartedPhases
    BY ZenonT(60), <1>0, <1>1, CurrentRecord
  <2>6. \A m \in Nodes : /\ starts[sid[p]][m] # 0 => next.phase[m] \in StartedPhases
                         /\ work'[p][m] = "apply" => starts[sid[p]][m] = 0
    BY SMTT(30), Z3T(30), <1>p, <2>1, <2>5 DEF Safe, Started
  <2>7. QED
    BY ZenonT(30), <1>0, <1>1, <2>2, <2>3, <2>4, <2>6, LandSafe
<1>2. CASE WriteErr(p, sid[p], next) /\ Step(p, n, "failed")
  <2>1. \A q \in Procs, m \in Nodes :
          work'[q][m] = IF q = p /\ m = n THEN "failed" ELSE work[q][m]
    BY SMTT(30), Z3T(30), <1>2, <1>f, <1>t, StepType
  <2>2. OthersStay(p)
    BY Zenon, <1>2, <1>t DEF OthersStay, Step
  <2>3. UNCHANGED <<rec, rev>>
    BY ZenonT(30), <1>2 DEF WriteErr
  <2>4. Kept(p)
    BY ZenonT(60), <1>0, <1>r, <1>f, <2>1, <2>3 DEF Kept
  <2>5. CASE Landed(p, next) /\ NotAcked(p)
    <3>1. \A m \in Nodes : work'[p][m] \in OwnWork => m # n
      BY ZenonT(30), <2>1 DEF OwnWork
    <3>2. \A m \in Nodes : work'[p][m] \in OwnWork =>
            /\ ~next.recovered
            /\ IF pc'[p] = "recover" THEN next.prep
                                     ELSE next.phase[m] = rec'[p].phase[m]
      BY ZenonT(30), <1>r, <1>p, <2>3, <3>1
    <3>3. \A m \in Nodes : starts[sid[p]][m] # 0 => rec[p].phase[m] \in StartedPhases
      BY ZenonT(60), <1>0, <2>5, CurrentRecord
    <3>4. \A m \in Nodes : work'[p][m] = "apply" => starts[sid[p]][m] = 0
      <4>s. Started
        BY Zenon DEF Safe
      <4>q. QED
        BY ZenonT(60), SMTT(30), <4>s, <2>1 DEF Started
    <3>5. starts[sid[p]][n] # 0 => ph \in StartedPhases
      BY Zenon, <3>3
    <3>6. \A m \in Nodes : starts[sid[p]][m] # 0 => next.phase[m] \in StartedPhases
      BY Zenon, <1>p, <3>3, <3>5
    <3>7. QED
      BY ZenonT(30), <1>0, <2>2, <2>4, <2>5, <3>2, <3>4, <3>6, LandSafe
  <2>6. CASE UNCHANGED <<store, rec, rev>>
    <3>1. \A m \in Nodes : /\ work'[p][m] \in OwnWork =>
                                work[p][m] \in OwnWork /\ pc'[p] = pc[p]
                           /\ work'[p][m] = "apply" => work[p][m] = "apply"
      BY ZenonT(30), <2>1 DEF OwnWork
    <3>2. QED
      BY Zenon, <1>0, <2>2, <2>4, <2>6, <3>1, HoldSafe
  <2>7. QED
    BY ZenonT(60), <1>0, <1>2, <2>5, <2>6, WriteCases DEF Shape
<1>3. QED
  BY Zenon, <1>0, <1>1, <1>2, WriteCases DEF Shape

\* A worker in run goes on to w without a write.
LEMMA MoveSafe ==
  ASSUME Shape, Safe, NEW p \in Procs, NEW n \in Nodes, pc[p] = "run",
         NEW w \in Works, Step(p, n, w), NoWrite,
         UNCHANGED <<pc, sid, used, orphans, starts>>,
         Fits(w, rec[p].phase[n]),
         w \in OwnWork => work[p][n] \in OwnWork, w # "apply"
  PROVE  Safe'
<1>1. \A q \in Procs, m \in Nodes :
        work'[q][m] = IF q = p /\ m = n THEN w ELSE work[q][m]
  BY SMTT(30), StepType DEF Shape, TypeOK
<1>2. OthersStay(p)
  BY Zenon DEF OthersStay, Step, Shape, TypeOK
<1>3. UNCHANGED <<store, rec, rev>>
  BY Zenon DEF NoWrite
<1>4. Kept(p) /\ pc[p] \in Active
  BY Zenon, <1>1, <1>3 DEF Kept, Active, Safe, SessionFits
<1>5. \A m \in Nodes : /\ work'[p][m] \in OwnWork =>
                            work[p][m] \in OwnWork /\ pc'[p] = pc[p]
                       /\ work'[p][m] = "apply" => work[p][m] = "apply"
  BY Zenon, <1>1
<1>6. QED
  BY ZenonT(30), <1>2, <1>3, <1>4, <1>5, HoldSafe

\* The mutating command of a node starts: its execution never started one for
\* the node before, and no other worker of the execution is about to.
LEMMA MutationStartSafe ==
  ASSUME Shape, Safe, NEW p \in Procs, NEW n \in Nodes, pc[p] = "run",
         work[p][n] = "apply", Step(p, n, "applyRun"), NoWrite,
         starts' = [starts EXCEPT ![sid[p]][n] = @ + 1],
         UNCHANGED <<pc, sid, used, orphans>>
  PROVE  Safe'
<1>0. work[p][n] \in OwnWork /\ "applyRun" \in Works
  BY Zenon DEF OwnWork, Works
<1>1. sid[p] \in Ids /\ Exists(sid[p])
  BY Zenon, <1>0, OwnerBlocks
<1>2. \A q \in Procs, m \in Nodes :
        work'[q][m] = IF q = p /\ m = n THEN "applyRun" ELSE work[q][m]
  BY SMTT(30), Z3T(30), <1>0, StepType DEF Shape, TypeOK
<1>3. UNCHANGED <<store, rec, rev>>
  BY Zenon DEF NoWrite
<1>4. starts[sid[p]][n] = 0
  BY Zenon DEF Safe, Started
<1>5. \A i \in Ids, m \in Nodes :
        starts'[i][m] = IF i = sid[p] /\ m = n THEN 1 ELSE starts[i][m]
  BY SMTT(30), Z3T(30), <1>1, <1>4 DEF Shape, TypeOK
<1>6. store[sid[p]].rec.phase[n] \in StartedPhases
  BY ZenonT(60), <1>0 DEF Safe, OwnerStored, SessionFits, Fits, StartedPhases
<1>w. \A q \in Procs, m \in Nodes : work'[q][m] \in OwnWork => work[q][m] \in OwnWork
  BY Zenon, <1>0, <1>2
<1>7. UsedIds'
  BY SMTT(30), Z3T(30), <1>1, <1>3, <1>5 DEF Safe, UsedIds, Exists
<1>8. Revisions' /\ SessionCurrent'
  BY Zenon, <1>3 DEF Safe, Revisions, SessionCurrent
<1>9. SessionFits'
  <2>1. \A q \in Procs, m \in Nodes : pc[q] = "run" => Fits(work'[q][m], rec[q].phase[m])
    BY SMTT(30), <1>2 DEF Safe, SessionFits, Fits, InitWork
  <2>2. QED
    BY ZenonT(60), <1>3, <2>1 DEF Safe, SessionFits
<1>10. OwnerStored'
  BY ZenonT(60), <1>3, <1>w DEF Safe, OwnerStored, Exists
<1>11. OwnerAlone' /\ OwnerUnique'
  BY SMTT(30), Z3T(30), <1>3, <1>w DEF Safe, OwnerAlone, OwnerUnique
<1>12. Started'
  <2>1. ASSUME NEW i \in Ids, NEW m \in Nodes, starts'[i][m] # 0
        PROVE  starts'[i][m] = 1 /\ (store'[i].rev # NoRev => store'[i].rec.phase[m] \in StartedPhases)
    <3>1. CASE i = sid[p] /\ m = n
      BY Zenon, <3>1, <1>3, <1>5, <1>6
    <3>2. CASE ~(i = sid[p] /\ m = n)
      <4>1. starts'[i][m] = starts[i][m] /\ store'[i] = store[i]
        BY Zenon, <3>2, <1>3, <1>5
      <4>2. QED
        BY Zenon, <2>1, <4>1 DEF Safe, Started, Exists
    <3>3. QED
      BY Zenon, <3>1, <3>2
  <2>2. ASSUME NEW q \in Procs, NEW m \in Nodes, work'[q][m] = "apply"
        PROVE  starts'[sid[q]][m] = 0
    <3>1. work[q][m] = "apply" /\ ~(q = p /\ m = n)
      BY Zenon, <2>2, <1>2
    <3>2. work[q][m] \in OwnWork
      BY Zenon, <3>1 DEF OwnWork
    <3>3. sid[q] \in Ids
      BY Zenon, <3>2, OwnerBlocks
    <3>4. ~(sid[q] = sid[p] /\ m = n)
      BY Zenon, <3>1, <3>2, <1>0 DEF Safe, OwnerUnique
    <3>5. QED
      BY Zenon, <3>1, <3>3, <3>4, <1>5 DEF Safe, Started
  <2>3. QED
    BY ZenonT(90), SMTT(60), <2>1, <2>2 DEF Started, Exists
<1>13. OrphanStored'
  BY Zenon, <1>3 DEF Safe, OrphanStored, Exists
<1>14. QED
  BY Zenon, <1>7, <1>8, <1>9, <1>10, <1>11, <1>12, <1>13 DEF Safe

\* The workers of run.
LEMMA WorkerSafe ==
  ASSUME Shape, Safe, NEW p \in Procs, NEW n \in Nodes,
         \/ SkipNode(p, n) \/ StartNode(p, n) \/ RunInit(p, n) \/ InitReturns(p, n)
         \/ ReadReturns(p, n) \/ PlanReturns(p, n) \/ RetainPlan(p, n)
         \/ SetReview(p, n) \/ AdmitPlan(p, n) \/ RunMutation(p, n)
         \/ MutationReturns(p, n) \/ CollectOutputs(p, n)
  PROVE  Safe'
<1>r. rec[p] \in Record /\ rec[p].phase \in [Nodes -> Phases]
  BY Zenon DEF Shape, TypeOK, Record
<1>0. pc[p] = "run" /\ UNCHANGED <<pc, sid, used, orphans>>
  BY Zenon DEF SkipNode, StartNode, RunInit, InitReturns, ReadReturns, PlanReturns,
         RetainPlan, SetReview, AdmitPlan, RunMutation, MutationReturns,
         CollectOutputs, Ready, workerFrame
<1>s. Fits(work[p][n], rec[p].phase[n])
  BY ZenonT(30), <1>0 DEF Safe, SessionFits
<1>f. ASSUME UNCHANGED starts, Fails(p, n) PROVE Safe'
  <2>1. "failed" \in Works /\ "failed" \notin OwnWork /\ Fits("failed", rec[p].phase[n])
    BY ZenonT(30) DEF Works, OwnWork, Fits, InitWork
  <2>2. QED
    BY ZenonT(30), <1>0, <1>f, <2>1, MoveSafe DEF Fails
<1>t. ASSUME UNCHANGED starts, NEW ph \in Phases, NEW w \in Works, Fits(w, ph),
             \/ ph \in StartedPhases /\ w # "apply"
             \/ rec[p].phase[n] \notin StartedPhases
             \/ starts[sid[p]][n] = 0,
             Transition(p, n, ph, w)
      PROVE  Safe'
  <2> DEFINE next == WithPhase(rec[p], n, ph)
  <2>1. /\ next \in Record
        /\ next.phase = [rec[p].phase EXCEPT ![n] = ph]
        /\ next.recovered = rec[p].recovered
    BY ZenonT(90), SMTT(60), <1>r, WithPhaseType
  <2>2. \/ WriteOK(p, sid[p], next) /\ Step(p, n, w)
        \/ WriteErr(p, sid[p], next) /\ Step(p, n, "failed")
    BY Zenon, <1>t DEF Transition
  <2> HIDE DEF next
  <2>3. QED
    BY ZenonT(30), <1>0, <1>t, <2>1, <2>2, TransitionSafe
<1> DEFINE Pairs == {<<"initializing", "init">>, <<"operating", "apply">>,
                     <<"reading", "read">>, <<"failed", "failed">>,
                     <<"completed", "done">>, <<"planned", "planned">>,
                     <<"preparing", "prepared">>, <<"indeterminate", "failed">>,
                     <<"applying", "apply">>, <<"applied", "collect">>}
<1>p. \A x \in Pairs : x[1] \in Phases /\ x[2] \in Works /\ Fits(x[2], x[1])
  BY DEF Phases, Works, Fits, InitWork
<1>n. ASSUME UNCHANGED starts, rec[p].phase[n] \notin StartedPhases,
             NEW ph, NEW w, <<ph, w>> \in Pairs, Transition(p, n, ph, w)
      PROVE  Safe'
  <2>1. ph \in Phases /\ w \in Works /\ Fits(w, ph)
    BY Zenon, <1>n, <1>p
  <2>2. QED
    BY Zenon, <1>n, <1>t, <2>1
<1>d. /\ <<"initializing", "init">> \in Pairs /\ <<"operating", "apply">> \in Pairs
      /\ <<"reading", "read">> \in Pairs /\ <<"failed", "failed">> \in Pairs
      /\ <<"completed", "done">> \in Pairs /\ <<"planned", "planned">> \in Pairs
      /\ <<"preparing", "prepared">> \in Pairs /\ <<"indeterminate", "failed">> \in Pairs
      /\ <<"applying", "apply">> \in Pairs /\ <<"applied", "collect">> \in Pairs
  BY Zenon
<1> HIDE DEF Pairs
<1>1. CASE SkipNode(p, n)
  <2>1. "skipped" \in Works /\ "skipped" \notin OwnWork /\ Fits("skipped", rec[p].phase[n])
    BY ZenonT(30) DEF Works, OwnWork, Fits, InitWork
  <2>2. QED
    BY ZenonT(30), <1>0, <1>1, <2>1, MoveSafe DEF SkipNode
<1>2. CASE StartNode(p, n)
  <2>1. rec[p].phase[n] \notin StartedPhases
    BY ZenonT(30), <1>2, <1>s DEF StartNode, Ready, Fits, StartedPhases
  <2>2. QED
    BY ZenonT(30), <1>2, <2>1, <1>f, <1>n, <1>d DEF StartNode
<1>3. CASE RunInit(p, n)
  <2>1. rec[p].phase[n] = "initializing"
    BY ZenonT(30), <1>3, <1>s DEF RunInit, Fits, InitWork
  <2>2. CASE Step(p, n, "initRun") /\ NoWrite
    <3>1. /\ "initRun" \in Works /\ Fits("initRun", rec[p].phase[n])
          /\ work[p][n] \in OwnWork
      BY ZenonT(30), <1>3, <2>1 DEF RunInit, Works, OwnWork, Fits, InitWork
    <3>2. QED
      BY ZenonT(30), <1>0, <1>3, <2>2, <3>1, MoveSafe DEF RunInit
  <2>3. CASE Transition(p, n, "failed", "failed")
    BY ZenonT(30), <1>3, <2>1, <2>3, <1>n, <1>d DEF RunInit, StartedPhases
  <2>4. QED
    BY ZenonT(30), <1>3, <2>2, <2>3 DEF RunInit
<1>4. CASE InitReturns(p, n)
  <2>1. rec[p].phase[n] \notin StartedPhases
    BY Zenon, <1>4, <1>s DEF InitReturns, Fits, InitWork, StartedPhases
  <2>2. QED
    BY ZenonT(30), <1>4, <2>1, <1>n, <1>d DEF InitReturns
<1>5. CASE ReadReturns(p, n)
  <2>1. rec[p].phase[n] \notin StartedPhases
    BY ZenonT(30), <1>5, <1>s DEF ReadReturns, Fits, StartedPhases
  <2>2. QED
    BY ZenonT(30), <1>5, <2>1, <1>n, <1>d DEF ReadReturns
<1>6. CASE PlanReturns(p, n)
  <2>1. rec[p].phase[n] \notin StartedPhases
    BY ZenonT(30), <1>6, <1>s DEF PlanReturns, Fits, StartedPhases
  <2>2. QED
    BY ZenonT(30), <1>6, <2>1, <1>f, <1>n, <1>d DEF PlanReturns
<1>7. CASE RetainPlan(p, n)
  <2>1. rec[p].phase[n] \notin StartedPhases /\ UNCHANGED starts
    BY ZenonT(30), <1>7, <1>s DEF RetainPlan, Fits, StartedPhases
  <2>2. CASE Step(p, n, "failed") /\ UNCHANGED <<store, rec, rev>>
    <3>1. "failed" \in Works /\ "failed" \notin OwnWork /\ Fits("failed", rec[p].phase[n])
      BY ZenonT(30) DEF Works, OwnWork, Fits, InitWork
    <3>2. \A q \in Procs, m \in Nodes :
            work'[q][m] = IF q = p /\ m = n THEN "failed" ELSE work[q][m]
      BY SMTT(30), Z3T(30), <2>2, <3>1, StepType DEF Shape, TypeOK
    <3>3. OthersStay(p)
      BY Zenon, <1>0, <2>2 DEF OthersStay, Step, Shape, TypeOK
    <3>4. Kept(p) /\ pc[p] \in Active
      BY ZenonT(30), <1>0, <2>2, <3>1, <3>2 DEF Kept, Active, Safe, SessionFits
    <3>5. \A m \in Nodes : /\ work'[p][m] \in OwnWork =>
                                work[p][m] \in OwnWork /\ pc'[p] = pc[p]
                           /\ work'[p][m] = "apply" => work[p][m] = "apply"
      BY ZenonT(30), <1>0, <3>1, <3>2
    <3>6. QED
      BY ZenonT(30), <1>0, <2>1, <2>2, <3>3, <3>4, <3>5, HoldSafe
  <2>3. CASE LET next == WithPlan(rec[p], n, NewPlan) IN
             \/ /\ WriteOK(p, sid[p], next)
                /\ Step(p, n, IF cmd[p] = "retain" THEN "planned" ELSE "review")
             \/ WriteErr(p, sid[p], next) /\ Step(p, n, "failed")
    <3> DEFINE next == WithPlan(rec[p], n, NewPlan)
               w == IF cmd[p] = "retain" THEN "planned" ELSE "review"
    <3>1. NewPlan \in PlanIds
      BY ZenonT(30), <1>7 DEF RetainPlan, NewPlan
    <3>2. /\ next \in Record
          /\ next.phase = [rec[p].phase EXCEPT ![n] = "planned"]
          /\ next.recovered = rec[p].recovered
      BY ZenonT(90), SMTT(60), <1>r, <3>1, WithPlanType
    <3>3. w \in Works /\ "planned" \in Phases /\ Fits(w, "planned")
      BY Zenon DEF Works, Phases, Fits, InitWork
    <3>4. \/ WriteOK(p, sid[p], next) /\ Step(p, n, w)
          \/ WriteErr(p, sid[p], next) /\ Step(p, n, "failed")
      BY ZenonT(30), <2>3
    <3> HIDE DEF next, w
    <3>5. QED
      BY ZenonT(30), <1>0, <2>1, <3>2, <3>3, <3>4, TransitionSafe
  <2>4. QED
    BY ZenonT(30), <1>7, <2>2, <2>3 DEF RetainPlan
<1>8. CASE SetReview(p, n)
  <2>1. rec[p].phase[n] = "planned"
    BY Zenon, <1>8, <1>s DEF SetReview, Fits
  <2>2. rec[p].phase = [rec[p].phase EXCEPT ![n] = "planned"]
    BY ZenonT(30), <1>r, <2>1
  <2>3. /\ "done" \in Works /\ "planned" \in Phases /\ Fits("done", "planned")
        /\ "planned" \notin StartedPhases
    BY Zenon DEF Works, Phases, Fits, InitWork, StartedPhases
  <2>4. QED
    BY ZenonT(90), SMTT(60), <1>0, <1>r, <1>8, <2>1, <2>2, <2>3, TransitionSafe DEF SetReview
<1>9. CASE AdmitPlan(p, n)
  <2>1. rec[p].phase[n] \notin StartedPhases
    BY ZenonT(30), <1>9, <1>s DEF AdmitPlan, Fits, StartedPhases
  <2>2. QED
    BY ZenonT(30), <1>9, <2>1, <1>f, <1>n, <1>d DEF AdmitPlan
<1>10. CASE RunMutation(p, n)
  <2>1. CASE /\ Step(p, n, "applyRun") /\ NoWrite
             /\ starts' = [starts EXCEPT ![sid[p]][n] = @ + 1]
    BY ZenonT(30), <1>0, <1>10, <2>1, MutationStartSafe DEF RunMutation
  <2>2. CASE Transition(p, n, "failed", "failed") /\ UNCHANGED starts
    <3>1. starts[sid[p]][n] = 0
      BY Zenon, <1>10 DEF RunMutation, Safe, Started
    <3>2. "failed" \in Phases /\ "failed" \in Works /\ Fits("failed", "failed")
      BY Zenon DEF Phases, Works, Fits, InitWork
    <3>3. QED
      BY Zenon, <2>2, <3>1, <3>2, <1>t
  <2>3. QED
    BY Zenon, <1>10, <2>1, <2>2 DEF RunMutation
<1>m. ASSUME UNCHANGED starts, NEW ph \in {"completed", "applied", "indeterminate"},
             NEW w, w # "apply", <<ph, w>> \in Pairs, Transition(p, n, ph, w)
      PROVE  Safe'
  <2>1. ph \in Phases /\ w \in Works /\ Fits(w, ph)
    BY Zenon, <1>m, <1>p
  <2>2. ph \in StartedPhases
    BY Zenon, <1>m DEF StartedPhases
  <2>3. QED
    BY ZenonT(30), <1>m, <1>t, <2>1, <2>2
<1>11. CASE MutationReturns(p, n)
  <2>1. /\ UNCHANGED starts
        /\ \/ Transition(p, n, "completed", "done")
           \/ Transition(p, n, "applied", "collect")
           \/ Transition(p, n, "indeterminate", "failed")
           \/ Fails(p, n)
    BY ZenonT(30), <1>11 DEF MutationReturns
  <2>2. QED
    BY ZenonT(30), <2>1, <1>f, <1>m, <1>d
<1>12. CASE CollectOutputs(p, n)
  <2>1. UNCHANGED starts /\ (Fails(p, n) \/ Transition(p, n, "completed", "done"))
    BY ZenonT(30), <1>12 DEF CollectOutputs
  <2>2. QED
    BY ZenonT(30), <2>1, <1>f, <1>m, <1>d
<1>13. QED
  BY ZenonT(60), <1>1, <1>2, <1>3, <1>4, <1>5, <1>6, <1>7, <1>8, <1>9, <1>10, <1>11, <1>12

------------------------------------------------------------------------------
(* Recovery, the end of a command and the opening of a stored record.       *)

\* The workers of recovery.
LEMMA RecoverSafe ==
  ASSUME Shape, Safe, NEW p \in Procs, NEW n \in Nodes,
         RecoverNode(p, n) \/ RecoverInit(p, n) \/ RecoverOutputs(p, n)
  PROVE  Safe'
<1> USE DEF ghost, env
<1>0. pc[p] = "recover" /\ pc[p] \in Active /\ UNCHANGED <<sid, used, orphans, starts>>
  BY Zenon DEF RecoverNode, RecoverInit, RecoverOutputs, workerFrame, Active
<1>i. sid[p] \in Ids
  BY Zenon, <1>0 DEF Shape, Control, SessionNamed
<1>r. rec[p] \in Record /\ ~rec[p].recovered
  BY Zenon, <1>0 DEF Shape, TypeOK, Safe, SessionFits
<1>o. \A m \in Nodes : m # n => work[p][m] \notin OwnWork
  <2>1. \A m \in Nodes : m # n => work[p][m] \notin Busy
    BY Zenon, <1>0 DEF RecoverNode, RecoverInit, RecoverOutputs, Ended, Busy, Shape, Control,
                RecoverySequential
  <2>2. \A m \in Nodes : work[p][m] \notin RunWork
    BY ZenonT(30), <1>0 DEF Shape, Control, WorkPlaced
  <2>3. QED
    BY Zenon, <2>1, <2>2 DEF OwnWork, Busy, RunWork
<1>t. work \in [Procs -> [Nodes -> Works]]
  BY Zenon DEF Shape, TypeOK
\* A worker moves on without a write.
<1>h. ASSUME NEW w \in Works, Step(p, n, w), NoWrite, UNCHANGED pc, w # "apply",
             w \in OwnWork => work[p][n] \in OwnWork
      PROVE  Safe'
  <2>1. \A q \in Procs, m \in Nodes :
          work'[q][m] = IF q = p /\ m = n THEN w ELSE work[q][m]
    BY SMTT(30), <1>h, <1>t, StepType
  <2>2. OthersStay(p)
    BY Zenon, <1>h, <1>t DEF OthersStay, Step
  <2>3. UNCHANGED <<store, rec, rev>>
    BY ZenonT(30), <1>h DEF NoWrite
  <2>4. Kept(p)
    BY ZenonT(30), <1>0, <1>r, <1>h, <2>3 DEF Kept
  <2>5. \A m \in Nodes : /\ work'[p][m] \in OwnWork =>
                              work[p][m] \in OwnWork /\ pc'[p] = pc[p]
                         /\ work'[p][m] = "apply" => work[p][m] = "apply"
    BY ZenonT(30), <1>h, <2>1
  <2>6. QED
    BY ZenonT(60), <1>0, <2>2, <2>3, <2>4, <2>5, HoldSafe
\* The session writes next; the worker goes to w, or stays behind.
<1>w. ASSUME NEW next \in Record, NEW w \in Works,
             ~next.recovered,
             \A m \in Nodes : next.phase[m] = rec[p].phase[m] \/ next.phase[m] \in StartedPhases,
             w # "apply", w \in OwnWork => next.prep,
             \/ WriteOK(p, sid[p], next) /\ Step(p, n, w) /\ UNCHANGED pc
             \/ WriteErr(p, sid[p], next) /\ Step(p, n, "failed") /\ UNCHANGED pc
             \/ /\ WriteErr(p, sid[p], next) /\ Goto(p, "release") /\ UNCHANGED work
                /\ work[p][n] = "collect"
      PROVE  Safe'
  <2>1. "failed" \in Works /\ "failed" \notin OwnWork /\ "collect" \notin OwnWork
    BY Zenon DEF Works, OwnWork
  <2>2. CASE WriteOK(p, sid[p], next) /\ Step(p, n, w) /\ UNCHANGED pc
    <3>1. \A q \in Procs, m \in Nodes :
            work'[q][m] = IF q = p /\ m = n THEN w ELSE work[q][m]
      BY SMTT(30), Z3T(30), <2>2, <1>t, StepType
    <3>2. OthersStay(p)
      BY Zenon, <2>2, <1>t DEF OthersStay, Step
    <3>3. Landed(p, next) /\ Acked(p, next)
      BY Zenon, <2>2, <1>i, WriteCases DEF Shape
    <3>4. Kept(p)
      BY ZenonT(30), <1>0, <1>w, <2>2, <3>3 DEF Kept, Acked
    <3>5. \A m \in Nodes : work'[p][m] \in OwnWork =>
            /\ ~next.recovered
            /\ IF pc'[p] = "recover" THEN next.prep
                                     ELSE next.phase[m] = rec'[p].phase[m]
      BY ZenonT(30), <1>0, <1>o, <1>w, <2>2, <3>1
    <3>6. \A m \in Nodes : starts[sid[p]][m] # 0 => rec[p].phase[m] \in StartedPhases
      BY ZenonT(60), <1>0, <3>3, CurrentRecord
    <3>7. \A m \in Nodes : /\ starts[sid[p]][m] # 0 => next.phase[m] \in StartedPhases
                           /\ work'[p][m] = "apply" => starts[sid[p]][m] = 0
      BY SMTT(30), Z3T(30), <1>w, <3>1, <3>6 DEF Safe, Started
    <3>8. QED
      BY ZenonT(30), <1>0, <3>2, <3>3, <3>4, <3>5, <3>7, LandSafe
  <2>3. CASE /\ WriteErr(p, sid[p], next)
             /\ \/ Step(p, n, "failed") /\ UNCHANGED pc
                \/ Goto(p, "release") /\ UNCHANGED work /\ work[p][n] = "collect"
    <3>1. OthersStay(p)
      BY Zenon, <2>3, <1>t DEF OthersStay, Step, Goto, Shape, TypeOK
    <3>2. \A m \in Nodes : work'[p][m] \notin OwnWork
      <4>1. CASE Step(p, n, "failed")
        <5>1. \A q \in Procs, m \in Nodes :
                work'[q][m] = IF q = p /\ m = n THEN "failed" ELSE work[q][m]
          BY SMTT(30), Z3T(30), <4>1, <2>1, <1>t, StepType
        <5>2. QED
          BY ZenonT(60), <5>1, <2>1, <1>o
      <4>2. CASE UNCHANGED work /\ work[p][n] = "collect"
        BY Zenon, <4>2, <2>1, <1>o
      <4>3. QED
        BY ZenonT(30), <2>3, <4>1, <4>2
    <3>3. \A m \in Nodes : work'[p][m] # "apply"
      BY Zenon, <3>2 DEF OwnWork
    <3>4. UNCHANGED <<rec, rev>>
      BY ZenonT(30), <2>3 DEF WriteErr
    <3>5. pc'[p] \in {"recover", "release"}
      BY Zenon, <1>0, <2>3 DEF Goto, Shape, TypeOK
    <3>6. Kept(p)
      BY ZenonT(30), <1>0, <1>r, <3>4, <3>5 DEF Kept, Active
    <3>7. CASE Landed(p, next) /\ NotAcked(p)
      <4>1. \A m \in Nodes : starts[sid[p]][m] # 0 => rec[p].phase[m] \in StartedPhases
        BY ZenonT(30), <1>0, <3>7, CurrentRecord
      <4>2. \A m \in Nodes : starts[sid[p]][m] # 0 => next.phase[m] \in StartedPhases
        BY ZenonT(30), <1>w, <4>1
      <4>3. QED
        BY ZenonT(30), <1>0, <3>1, <3>2, <3>3, <3>6, <3>7, <4>2, LandSafe
    <3>8. CASE UNCHANGED <<store, rec, rev>>
      BY ZenonT(60), <1>0, <3>1, <3>2, <3>3, <3>6, <3>8, HoldSafe
    <3>9. QED
      BY ZenonT(60), <2>3, <1>i, <3>7, <3>8, WriteCases DEF Shape
  <2>4. QED
    BY Zenon, <1>w, <2>2, <2>3
<1>p. ASSUME NEW b \in BOOLEAN
      PROVE  LET next == [rec[p] EXCEPT !.prep = b] IN
             /\ next \in Record /\ ~next.recovered /\ next.prep = b
             /\ next.phase = rec[p].phase
  BY Zenon, <1>r DEF Record
<1>f. /\ {"failed", "collect", "init", "initRun", "done"} \subseteq Works
      /\ {"failed", "collect", "done"} \cap OwnWork = {}
  BY Zenon DEF Works, OwnWork
<1>1. CASE RecoverNode(p, n)
  <2>1. UNCHANGED pc
    BY Zenon, <1>1 DEF RecoverNode, workerFrame
  <2>2. CASE Fails(p, n) \/ (Step(p, n, "collect") /\ NoWrite)
    BY Zenon, <2>1, <2>2, <1>f, <1>h DEF Fails
  <2>3. CASE LET next == [rec[p] EXCEPT !.prep = TRUE] IN
             \/ WriteOK(p, sid[p], next) /\ Step(p, n, "init")
             \/ WriteErr(p, sid[p], next) /\ Step(p, n, "failed")
    <3> DEFINE next == [rec[p] EXCEPT !.prep = TRUE]
    <3>1. /\ next \in Record /\ ~next.recovered /\ next.prep
          /\ next.phase = rec[p].phase
      BY ZenonT(30), <1>p
    <3>2. \/ WriteOK(p, sid[p], next) /\ Step(p, n, "init")
          \/ WriteErr(p, sid[p], next) /\ Step(p, n, "failed")
      BY Zenon, <2>3
    <3> HIDE DEF next
    <3>3. QED
      BY ZenonT(60), <2>1, <3>1, <3>2, <1>f, <1>w
  <2>4. QED
    BY Zenon, <1>1, <2>2, <2>3 DEF RecoverNode
<1>2. CASE RecoverInit(p, n)
  <2>1. UNCHANGED pc
    BY Zenon, <1>2 DEF RecoverInit, workerFrame
  <2>2. CASE Fails(p, n)
    BY Zenon, <2>1, <2>2, <1>f, <1>h DEF Fails
  <2>3. CASE work[p][n] = "init" /\ Step(p, n, "initRun") /\ NoWrite
    <3>1. work[p][n] \in OwnWork
      BY Zenon, <2>3 DEF OwnWork
    <3>2. QED
      BY Zenon, <2>1, <2>3, <3>1, <1>f, <1>h
  <2>4. CASE LET next == [rec[p] EXCEPT !.prep = FALSE] IN
             \/ WriteOK(p, sid[p], next) /\ Step(p, n, "collect")
             \/ WriteErr(p, sid[p], next) /\ Step(p, n, "failed")
    <3> DEFINE next == [rec[p] EXCEPT !.prep = FALSE]
    <3>1. next \in Record /\ ~next.recovered /\ next.phase = rec[p].phase
      BY ZenonT(30), <1>p
    <3>2. \/ WriteOK(p, sid[p], next) /\ Step(p, n, "collect")
          \/ WriteErr(p, sid[p], next) /\ Step(p, n, "failed")
      BY Zenon, <2>4
    <3> HIDE DEF next
    <3>3. "collect" \notin OwnWork
      BY Zenon, <1>f
    <3>4. QED
      BY ZenonT(60), <2>1, <3>1, <3>2, <3>3, <1>f, <1>w
  <2>5. QED
    BY Zenon, <1>2, <2>2, <2>3, <2>4 DEF RecoverInit
<1>3. CASE RecoverOutputs(p, n)
  <2>1. CASE Fails(p, n) /\ UNCHANGED pc
    BY Zenon, <2>1, <1>f, <1>h DEF Fails
  <2> DEFINE next == WithPhase(rec[p], n, "completed")
  <2>2. /\ next \in Record
        /\ next.phase = [rec[p].phase EXCEPT ![n] = "completed"]
        /\ next.recovered = rec[p].recovered
    BY ZenonT(30), <1>r, WithPhaseType DEF Phases
  <2>3. \A m \in Nodes : next.phase[m] = rec[p].phase[m] \/ next.phase[m] \in StartedPhases
    BY Zenon, <1>r, <2>2 DEF StartedPhases, Record
  <2>4. /\ work[p][n] = "collect"
        /\ \/ Fails(p, n) /\ UNCHANGED pc
           \/ WriteOK(p, sid[p], next) /\ Step(p, n, "done") /\ UNCHANGED pc
           \/ WriteErr(p, sid[p], next) /\ Goto(p, "release") /\ UNCHANGED work
    BY Zenon, <1>3 DEF RecoverOutputs
  <2> HIDE DEF next
  <2>5. "done" \notin OwnWork
    BY Zenon, <1>f
  <2>6. QED
    BY ZenonT(60), <1>r, <2>1, <2>2, <2>3, <2>4, <2>5, <1>f, <1>w
<1>4. QED
  BY Zenon, <1>1, <1>2, <1>3

\* The steps that end or continue a command with a publish: no worker owns a
\* node, and no started node leaves its phase.
LEMMA PublishSafe ==
  ASSUME Shape, Safe, NEW p \in Procs, pc[p] \in Active, NEW next \in Record,
         NEW l \in {"run", "clean", "release", "finish_saved"},
         NEW e \in {"release", "finish_saved"},
         Publish(p, next, l, e), Quiet(p), OthersStay(p),
         UNCHANGED <<sid, used, orphans, starts>>,
         \A n \in Nodes : work'[p][n] \in {"wait", "skipped"} \/ work'[p] = work[p],
         \A n \in Nodes : rec[p].phase[n] \in StartedPhases => next.phase[n] \in StartedPhases,
         {l, e} \cap {"run", "finish_saved"} # {} =>
           ~rec[p].recovered /\ (l \in {"run", "finish_saved"} => ~next.recovered),
         l = "run" => \A n \in Nodes : Fits(work'[p][n], next.phase[n])
  PROVE  Safe'
<1>i. sid[p] \in Ids
  BY Zenon DEF Shape, Control, SessionNamed
<1>o. \A n \in Nodes : work'[p][n] \notin OwnWork /\ work'[p][n] # "apply"
  BY ZenonT(30) DEF Quiet, OwnWork, RunWork, InitWork
<1>g. ASSUME NEW x, Goto(p, x) PROVE pc'[p] = x
  BY ZenonT(30), <1>g DEF Goto, Shape, TypeOK
<1>1. CASE WriteOK(p, sid[p], next) /\ Goto(p, l)
  <2>1. Landed(p, next) /\ Acked(p, next)
    BY ZenonT(30), <1>1, <1>i, WriteCases DEF Shape
  <2>2. pc'[p] = l
    BY Zenon, <1>1, <1>g
  <2>3. Kept(p)
    BY ZenonT(30), <2>1, <2>2 DEF Kept, Acked, Active
  <2>4. \A n \in Nodes : starts[sid[p]][n] # 0 => next.phase[n] \in StartedPhases
    BY Zenon, <2>1, CurrentRecord
  <2>5. QED
    BY ZenonT(30), <1>o, <2>1, <2>3, <2>4, LandSafe
<1>2. CASE WriteErr(p, sid[p], next) /\ Goto(p, e)
  <2>1. pc'[p] = e
    BY ZenonT(30), <1>2, <1>g
  <2>2. UNCHANGED <<rec, rev>>
    BY Zenon, <1>2 DEF WriteErr
  <2>3. Kept(p)
    BY ZenonT(30), <2>1, <2>2 DEF Kept, Active
  <2>4. CASE Landed(p, next) /\ NotAcked(p)
    <3>1. \A n \in Nodes : starts[sid[p]][n] # 0 => next.phase[n] \in StartedPhases
      BY ZenonT(30), <2>4, CurrentRecord
    <3>2. QED
      BY ZenonT(30), <1>o, <2>3, <2>4, <3>1, LandSafe
  <2>5. CASE UNCHANGED <<store, rec, rev>>
    BY ZenonT(30), <1>o, <2>3, <2>5, HoldSafe
  <2>6. QED
    BY ZenonT(30), <1>2, <1>i, <2>4, <2>5, WriteCases DEF Shape
<1>3. QED
  BY ZenonT(30), <1>1, <1>2 DEF Publish

\* finish, finishSaved, the end of a saved step, of a recovery and of a
\* cancellation keep Safe.
LEMMA EndSafe ==
  ASSUME Shape, Safe, NEW p \in Procs,
         \/ Finish(p) \/ SavedStepDone(p) \/ NoteSavedFailure(p) \/ FinishSaved(p)
         \/ Replan(p) \/ RecoverEnd(p) \/ CancelExecution(p)
  PROVE  Safe'
<1>r. rec[p] \in Record
  BY Zenon DEF Shape, TypeOK
<1>e. UNCHANGED endFrame
  BY Zenon DEF Finish, SavedStepDone, NoteSavedFailure, FinishSaved, Replan, RecoverEnd,
         CancelExecution
<1>a. pc[p] \in Active
  BY Zenon DEF Finish, SavedStepDone, NoteSavedFailure, FinishSaved, Replan, RecoverEnd,
         CancelExecution, Active
<1>q. Quiet(p)
  BY Zenon, QuietWork DEF Finish, SavedStepDone, NoteSavedFailure, FinishSaved, Replan,
                   RecoverEnd, CancelExecution
<1>u. UNCHANGED <<sid, used, orphans, starts, work>>
  BY Zenon, <1>e DEF endFrame, ghost, env
<1>s. OthersStay(p)
  BY ZenonT(30), <1>u DEF Finish, SavedStepDone, NoteSavedFailure, FinishSaved, Replan,
         RecoverEnd, CancelExecution, Publish, Goto, OthersStay, Shape, TypeOK
<1>f. pc[p] \in {"run", "finish_saved"} => ~rec[p].recovered
  BY Zenon DEF Safe, SessionFits
<1>p. ASSUME NEW next \in Record, next.phase = rec[p].phase,
             NEW l \in {"clean", "release", "finish_saved"},
             NEW e \in {"release", "finish_saved"}, Publish(p, next, l, e),
             {l, e} \cap {"run", "finish_saved"} # {} =>
               ~rec[p].recovered /\ (l \in {"run", "finish_saved"} => ~next.recovered)
      PROVE  Safe'
  BY ZenonT(60), <1>p, <1>a, <1>q, <1>u, <1>s, PublishSafe
<1>1. CASE Finish(p)
  <2>1. PICK ok \in BOOLEAN : Publish(p, Finished(rec[p], ok), "clean", "release")
    BY Zenon, <1>1 DEF Finish
  <2>2. Finished(rec[p], ok) \in Record /\ Finished(rec[p], ok).phase = rec[p].phase
    BY Zenon, <1>r, FinishedType
  <2>3. QED
    BY ZenonT(30), <2>1, <2>2, <1>p
<1>2. CASE SavedStepDone(p)
  <2> DEFINE next == IF cmd[p] = "apply_saved" THEN AppliedSaved(rec[p])
                     ELSE [rec[p] EXCEPT !.status = "waiting_for_apply"]
  <2>1. LET x == [rec[p] EXCEPT !.status = "waiting_for_apply"] IN
        x \in Record /\ x.phase = rec[p].phase
    BY Zenon, <1>r DEF Record, Statuses
  <2>2. next \in Record /\ next.phase = rec[p].phase
    BY Zenon, <1>r, <2>1, AppliedSavedType
  <2>3. Publish(p, next, "clean", "finish_saved") /\ pc[p] = "run"
    BY Zenon, <1>2 DEF SavedStepDone
  <2> HIDE DEF next
  <2>4. QED
    BY Zenon, <1>f, <2>2, <2>3, <1>p
<1>3. CASE NoteSavedFailure(p)
  BY Zenon, <1>3, <1>r, <1>f, <1>p DEF NoteSavedFailure
<1>4. CASE FinishSaved(p)
  <2> DEFINE next == FinishedSaved(rec[p], FALSE)
  <2>1. next \in Record /\ next.phase =
          [n \in Nodes |-> IF rec[p].phase[n] = "preparing" THEN "pending" ELSE rec[p].phase[n]]
    BY Zenon, <1>r, FinishedSavedType
  <2>2. \A n \in Nodes : rec[p].phase[n] \in StartedPhases => next.phase[n] \in StartedPhases
    BY Zenon, <2>1 DEF StartedPhases
  <2>3. Publish(p, next, "clean", "release")
    BY Zenon, <1>4 DEF FinishSaved
  <2> HIDE DEF next
  <2>4. QED
    BY ZenonT(60), <1>a, <1>q, <1>u, <1>s, <2>1, <2>2, <2>3, PublishSafe
<1>5. CASE Publish(p, Recovered(rec[p]), "release", "release")
  <2>1. Recovered(rec[p]) \in Record /\ Recovered(rec[p]).phase = rec[p].phase
    BY Zenon, <1>r, RecoveredType
  <2>2. QED
    BY Zenon, <1>5, <2>1, <1>p
<1>6. CASE NoWrite /\ Goto(p, "release")
  <2>1. pc'[p] = "release" /\ UNCHANGED <<store, rec, rev>>
    BY Zenon, <1>6 DEF Goto, NoWrite, Shape, TypeOK
  <2>2. \A n \in Nodes : work'[p][n] \notin OwnWork /\ work'[p][n] # "apply"
    BY Zenon, <1>q, <1>u DEF Quiet, OwnWork, RunWork, InitWork
  <2>3. QED
    BY ZenonT(60), <1>u, <1>s, <2>1, <2>2, HoldSafe
<1>7. CASE CancelExecution(p)
  <2>1. /\ Terminal(rec[p], "cancelled") \in Record
        /\ Terminal(rec[p], "cancelled").phase = rec[p].phase
    BY Zenon, <1>r, TerminalType DEF Statuses
  <2>2. QED
    BY Zenon, <1>7, <2>1, <1>p DEF CancelExecution
<1>8. QED
  BY ZenonT(30), <1>1, <1>2, <1>3, <1>4, <1>5, <1>6, <1>7 DEF Replan, RecoverEnd

\* Binding the graph keeps Safe: the frontier holds pending nodes only.
LEMMA BindGraphSafe ==
  ASSUME Shape, Safe, NEW p \in Procs, BindGraph(p)
  PROVE  Safe'
<1> DEFINE f == Frontier(rec[p])
<1>0. /\ pc[p] = "bind" /\ pc[p] \in Active /\ Quiet(p) /\ ~rec[p].recovered
      /\ UNCHANGED <<sid, used, orphans, starts>>
  BY Zenon, QuietWork DEF BindGraph, Active, ghost, env, Safe, SessionFits
<1>r. rec[p] \in Record
  BY Zenon DEF Shape, TypeOK
<1>1. OthersStay(p)
  BY Zenon DEF BindGraph, Publish, Goto, OthersStay, Shape, TypeOK
<1>2. \A n \in Nodes : work'[p][n] = IF n \in f THEN "wait" ELSE "skipped"
  BY Zenon DEF BindGraph, Waiting, Shape, TypeOK
<1>3. \A n \in f : rec[p].phase[n] = "pending"
  BY ZenonT(30) DEF Frontier
<1>4. \A n \in Nodes : Fits(work'[p][n], rec[p].phase[n])
  BY ZenonT(30), <1>2, <1>3 DEF Fits, InitWork
<1>5. CASE NoWrite /\ Goto(p, "finish_saved")
  <2>1. pc'[p] = "finish_saved" /\ UNCHANGED <<store, rec, rev>>
    BY Zenon, <1>5 DEF Goto, NoWrite, Shape, TypeOK
  <2>2. Kept(p)
    BY Zenon, <1>0, <2>1 DEF Kept, Active
  <2>3. \A n \in Nodes : work'[p][n] \notin OwnWork /\ work'[p][n] # "apply"
    BY Zenon, <1>2 DEF OwnWork
  <2>4. QED
    BY Zenon, <1>0, <1>1, <2>1, <2>2, <2>3, HoldSafe
<1>6. CASE Publish(p, rec[p], IF f = {} THEN "finish_saved" ELSE "run", "finish_saved")
  <2>1. PICK l \in {"run", "finish_saved"} : Publish(p, rec[p], l, "finish_saved")
    BY Zenon, <1>6
  <2>2. \A n \in Nodes : work'[p][n] \in {"wait", "skipped"}
    BY Zenon, <1>2
  <2>3. QED
    BY ZenonT(60), <1>0, <1>1, <1>4, <1>r, <2>1, <2>2, PublishSafe
<1>7. QED
  BY Zenon, <1>5, <1>6 DEF BindGraph

\* A command opens a session on a record that no live worker and no orphaned
\* subprocess still works on.
LEMMA OpenSafe ==
  ASSUME Shape, Safe, NEW p \in Procs, sid[p] \in Ids, Exists(sid[p]), Open(p),
         \A q \in Procs, n \in Nodes : q # p /\ work[q][n] \in OwnWork => sid[q] # sid[p],
         \A o \in orphans : o.exec # sid[p],
         \A n \in Nodes : work'[p][n] \notin OwnWork,
         OthersStay(p), Kept(p), UNCHANGED <<store, sid, used, orphans, starts>>
  PROVE  Safe'
<1>1. /\ rec'[p] = store[sid[p]].rec /\ rev'[p] = store[sid[p]].rev
      /\ \A q \in Procs : q # p => rec'[q] = rec[q] /\ rev'[q] = rev[q]
  BY Zenon DEF Open, Shape, TypeOK
<1>w. \A q \in Procs, n \in Nodes : work'[q][n] \in OwnWork =>
        q # p /\ work[q][n] \in OwnWork /\ pc'[q] = pc[q] /\ sid[q] # sid[p]
  BY ZenonT(30) DEF OthersStay
<1>a. \A q \in Procs, n \in Nodes : work'[q][n] = "apply" => work[q][n] = "apply"
  BY ZenonT(30) DEF OthersStay, OwnWork
<1>2. UsedIds'
  BY ZenonT(30) DEF Safe, UsedIds, Exists
<1>3. Revisions'
  BY ZenonT(30), <1>1 DEF Safe, Revisions, OthersStay, Kept, Exists, Active
<1>4. SessionCurrent'
  BY ZenonT(30), <1>1 DEF Safe, SessionCurrent
<1>5. SessionFits'
  <2>1. SUFFICES ASSUME NEW q \in Procs
        PROVE /\ pc'[q] \in {"bind", "run", "finish_saved", "recover"} => ~rec'[q].recovered
              /\ pc'[q] = "run" => \A n \in Nodes : Fits(work'[q][n], rec'[q].phase[n])
    BY Zenon DEF SessionFits
  <2>2. CASE q = p
    BY Zenon, <2>2 DEF Kept
  <2>3. CASE q # p
    BY ZenonT(30), <2>3, <1>1 DEF Safe, SessionFits, OthersStay
  <2>4. QED
    BY ZenonT(30), <2>2, <2>3
<1>6. OwnerStored'
  <2>1. SUFFICES ASSUME NEW q \in Procs, NEW n \in Nodes, work'[q][n] \in OwnWork
        PROVE  /\ store'[sid'[q]].rev # NoRev /\ ~store'[sid'[q]].rec.recovered
               /\ IF pc'[q] = "recover" THEN store'[sid'[q]].rec.prep
                  ELSE store'[sid'[q]].rec.phase[n] = rec'[q].phase[n]
    BY Zenon DEF OwnerStored, Exists
  <2>2. /\ work[q][n] \in OwnWork /\ pc'[q] = pc[q] /\ rec'[q] = rec[q]
        /\ store'[sid'[q]] = store[sid[q]]
    BY Zenon, <2>1, <1>1, <1>w
  <2>3. QED
    <3>s. OwnerStored
      BY Zenon DEF Safe
    <3>q. QED
      BY ZenonT(60), SMTT(30), <3>s, <2>2 DEF OwnerStored, Exists
<1>7. OwnerAlone'
  <2>1. SUFFICES ASSUME NEW q \in Procs, NEW n \in Nodes, NEW r \in Procs,
                        work'[q][n] \in OwnWork, r # q, sid'[r] = sid'[q]
                 PROVE  rev'[r] # store'[sid'[q]].rev
    BY ZenonT(30) DEF OwnerAlone
  <2>2. work[q][n] \in OwnWork /\ sid[q] # sid[p] /\ sid[r] = sid[q]
    BY Zenon, <2>1, <1>w
  <2>3. rev'[r] = rev[r]
    BY Zenon, <2>2, <1>1
  <2>4. QED
    BY Zenon, <2>1, <2>2, <2>3 DEF Safe, OwnerAlone
<1>8. OwnerUnique'
  <2>s. OwnerUnique
    BY Zenon DEF Safe
  <2>q. QED
    BY ZenonT(60), SMTT(30), <2>s, <1>w DEF OwnerUnique
<1>9. Started'
  BY ZenonT(60), <1>a DEF Safe, Started, Exists
<1>10. OrphanStored'
  <2>s. OrphanStored
    BY Zenon DEF Safe
  <2>q. QED
    BY ZenonT(60), SMTT(30), <2>s, <1>1 DEF OrphanStored, Exists
<1>11. QED
  BY Zenon, <1>2, <1>3, <1>4, <1>5, <1>6, <1>7, <1>8, <1>9, <1>10 DEF Safe

\* A resolved record has no worker and no orphan.
LEMMA ResolvedFree ==
  ASSUME Shape, Safe, NEW i \in Ids, ~ExecutionNeedsRecovery(store[i].rec)
  PROVE  /\ \A q \in Procs, n \in Nodes : work[q][n] \in OwnWork => sid[q] # i
         /\ \A o \in orphans : o.exec # i
<1>1. \A q \in Procs, n \in Nodes : work[q][n] \in OwnWork => sid[q] # i
  BY Zenon, OwnerBlocks
<1>2. \A o \in orphans : o.exec # i
  BY Zenon DEF Safe, OrphanStored
<1>3. QED
  BY Zenon, <1>1, <1>2

\* Resuming, recovering or cancelling opens a session only on a record that
\* is resolved or confirmed stopped.
LEMMA OpenCommandSafe ==
  ASSUME Shape, Safe, NEW p \in Procs,
         OpenSavedExecution(p) \/ OpenRecovery(p) \/ OpenCancel(p)
  PROVE  Safe'
<1> USE DEF object, ghost, env
<1>0. /\ pc[p] = "locked" /\ cmd[p] \in ResumeKinds \cup RecoverKinds \cup {"cancel"}
      /\ UNCHANGED <<store, sid, used, orphans, starts>>
  BY ZenonT(30) DEF OpenSavedExecution, OpenRecovery, OpenCancel
<1>i. sid[p] \in Ids
  BY ZenonT(30), <1>0 DEF Shape, Control, SessionNamed, ResumeKinds, RecoverKinds, BeginKinds, RunKinds
<1>q. Quiet(p) /\ \A n \in Nodes : work[p][n] \notin OwnWork
  BY ZenonT(30), <1>0, QuietWork DEF Quiet, OwnWork, RunWork, InitWork
<1>g. ASSUME NEW l, Goto(p, l)
      PROVE  pc'[p] = l /\ \A q \in Procs : q # p => pc'[q] = pc[q]
  BY Zenon, <1>g DEF Goto, Shape, TypeOK
<1> DEFINE r == store[sid[p]].rec
<1>o. Open(p) => rec'[p] = r
  BY Zenon DEF Open, Shape, TypeOK
<1>x. CASE Goto(p, "release") /\ UNCHANGED <<rec, rev, work>>
  <2>1. OthersStay(p) /\ pc'[p] = "release"
    BY Zenon, <1>x, <1>g DEF OthersStay
  <2>2. QED
    BY ZenonT(30), <1>0, <1>q, <1>x, <2>1, HoldSafe DEF OwnWork
<1>1. CASE OpenSavedExecution(p)
  <2>1. CASE ~(Goto(p, "release") /\ UNCHANGED <<rec, rev, work>>)
    <3>1. /\ Exists(sid[p]) /\ ~r.recovered /\ ~ExecutionNeedsRecovery(r) /\ Open(p)
          /\ \/ Goto(p, "bind") /\ UNCHANGED work
             \/ /\ Goto(p, "run")
                /\ work' = [work EXCEPT ![p] = Waiting(PlannedNodes(r))]
      BY ZenonT(30), <1>1, <2>1 DEF OpenSavedExecution
    <3>2. /\ \A q \in Procs, n \in Nodes : work[q][n] \in OwnWork => sid[q] # sid[p]
          /\ \A o \in orphans : o.exec # sid[p]
      BY ZenonT(30), <1>i, <3>1, ResolvedFree
    <3>3. CASE Goto(p, "bind") /\ UNCHANGED work
      <4>1. OthersStay(p) /\ pc'[p] = "bind"
        BY Zenon, <3>3, <1>g DEF OthersStay
      <4>2. Kept(p)
        BY ZenonT(30), <1>o, <3>1, <4>1 DEF Kept, Active
      <4>3. QED
        BY ZenonT(30), <1>0, <1>i, <1>q, <3>1, <3>2, <3>3, <4>1, <4>2, OpenSafe
    <3>4. CASE /\ Goto(p, "run")
               /\ work' = [work EXCEPT ![p] = Waiting(PlannedNodes(r))]
      <4>1. /\ \A n \in Nodes :
                 work'[p][n] = IF n \in PlannedNodes(r) THEN "wait" ELSE "skipped"
            /\ \A q \in Procs : q # p => work'[q] = work[q]
        BY Zenon, <3>4 DEF Waiting, Shape, TypeOK
      <4>2. OthersStay(p) /\ pc'[p] = "run"
        BY Zenon, <3>4, <4>1, <1>g DEF OthersStay
      <4>3. \A n \in Nodes : Fits(work'[p][n], r.phase[n]) /\ work'[p][n] \notin OwnWork
        BY ZenonT(30), <4>1 DEF PlannedNodes, Fits, InitWork, OwnWork
      <4>4. Kept(p)
        BY ZenonT(30), <1>o, <3>1, <4>2, <4>3 DEF Kept, Active
      <4>5. QED
        BY ZenonT(30), <1>0, <1>i, <3>1, <3>2, <4>2, <4>3, <4>4, OpenSafe
    <3>5. QED
      BY ZenonT(30), <3>1, <3>3, <3>4
  <2>2. QED
    BY Zenon, <1>x, <2>1
<1>2. CASE OpenRecovery(p)
  <2>1. CASE ~(Goto(p, "release") /\ UNCHANGED <<rec, rev, work>>)
    <3>1. /\ Exists(sid[p]) /\ ExecutionNeedsRecovery(r)
          /\ ConfirmedStopped(p, sid[p]) /\ Open(p) /\ Goto(p, cmd[p])
          /\ cmd[p] \in RecoverKinds
          /\ work' = [work EXCEPT ![p] = IF cmd[p] = "replan" THEN NoWork
                        ELSE Waiting(Recoverable(r))]
      BY ZenonT(30), <1>2, <2>1 DEF OpenRecovery, ReadError
    <3>2. /\ \A q \in Procs, n \in Nodes : q # p /\ work[q][n] \in OwnWork => sid[q] # sid[p]
          /\ \A o \in orphans : o.exec # sid[p]
      BY ZenonT(30), <3>1 DEF ConfirmedStopped
    <3>3. /\ \A n \in Nodes : work'[p][n] \in {"wait", "skipped"}
          /\ \A q \in Procs : q # p => work'[q] = work[q]
      BY Zenon, <3>1 DEF Waiting, NoWork, Shape, TypeOK
    <3>4. OthersStay(p) /\ pc'[p] = cmd[p]
      BY ZenonT(30), <3>1, <3>3, <1>g DEF OthersStay
    <3>5. ~r.recovered
      BY ZenonT(30), <3>1 DEF ExecutionNeedsRecovery
    <3>6. Kept(p)
      BY ZenonT(30), <1>o, <3>1, <3>4, <3>5 DEF Kept, Active, RecoverKinds
    <3>7. \A n \in Nodes : work'[p][n] \notin OwnWork
      BY Zenon, <3>3 DEF OwnWork
    <3>8. QED
      BY ZenonT(30), <1>0, <1>i, <3>1, <3>2, <3>4, <3>6, <3>7, OpenSafe
  <2>2. QED
    BY Zenon, <1>x, <2>1
<1>3. CASE OpenCancel(p)
  <2>1. CASE ~(Goto(p, "release") /\ UNCHANGED <<rec, rev, work>>)
    <3>1. /\ Exists(sid[p]) /\ ~ExecutionNeedsRecovery(r) /\ Open(p)
          /\ Goto(p, AfterOpenCancel(r)) /\ UNCHANGED work
      BY ZenonT(30), <1>3, <2>1 DEF OpenCancel, ReadError
    <3>2. /\ \A q \in Procs, n \in Nodes : work[q][n] \in OwnWork => sid[q] # sid[p]
          /\ \A o \in orphans : o.exec # sid[p]
      BY ZenonT(30), <1>i, <3>1, ResolvedFree
    <3>3. OthersStay(p) /\ pc'[p] \in {"clean", "cancel"}
      BY ZenonT(30), <3>1, <1>g DEF OthersStay, AfterOpenCancel
    <3>4. Kept(p)
      BY Zenon, <3>3 DEF Kept, Active
    <3>5. QED
      BY ZenonT(30), <1>0, <1>i, <1>q, <3>1, <3>2, <3>3, <3>4, OpenSafe
  <2>2. QED
    BY Zenon, <1>x, <2>1
<1>4. QED
  BY Zenon, <1>1, <1>2, <1>3

\* A new record takes an ID nobody has used.
LEMMA CreateSafe ==
  ASSUME Shape, Safe, NEW p \in Procs, CreateRecord(p)
  PROVE  Safe'
<1> USE DEF ghost
<1>0. pc[p] = "create" /\ UNCHANGED <<orphans, starts>>
  BY ZenonT(30) DEF CreateRecord
<1>1. PICK i \in Ids \ used, sel \in SelectionsOf(cmd[p]) \ {{}} :
        LET new == NewRecord(cmd[p] = "save", sel) IN
        /\ used' = used \cup {i}
        /\ \/ /\ WriteOK(p, i, new)
              /\ sid' = [sid EXCEPT ![p] = i]
              /\ IF cmd[p] = "save"
                 THEN Goto(p, "bind") /\ UNCHANGED work
                 ELSE Goto(p, "run") /\ work' = [work EXCEPT ![p] = Waiting(sel)]
           \/ /\ WriteErr(p, i, new)
              /\ Goto(p, "release") /\ UNCHANGED <<sid, work>>
  BY ZenonT(30) DEF CreateRecord
<1> DEFINE new == NewRecord(cmd[p] = "save", sel)
<1>n. /\ ~new.recovered
      /\ \A n \in Nodes : new.phase[n] = IF n \in sel THEN "pending" ELSE "absent"
  BY Zenon DEF NewRecord
<1>w. WriteOK(p, i, new) \/ WriteErr(p, i, new)
  BY Zenon, <1>1
<1>x. /\ used' = used \cup {i}
      /\ \/ /\ WriteOK(p, i, new)
            /\ sid' = [sid EXCEPT ![p] = i]
            /\ \/ Goto(p, "bind") /\ UNCHANGED work
               \/ Goto(p, "run") /\ work' = [work EXCEPT ![p] = Waiting(sel)]
         \/ /\ WriteErr(p, i, new)
            /\ Goto(p, "release") /\ UNCHANGED <<sid, work>>
  BY Zenon, <1>1
<1> HIDE DEF new
<1>u. /\ store[i].rev = NoRev
      /\ \A q \in Procs : sid[q] # i
      /\ \A n \in Nodes : starts[i][n] = 0
      /\ \A o \in orphans : o.exec # i
  BY Zenon DEF Safe, UsedIds, Exists, OrphanStored
<1>q. \A n \in Nodes : work[p][n] \notin OwnWork
  BY Zenon, <1>0, QuietWork DEF Quiet, OwnWork, RunWork, InitWork
<1>p. \A q \in Procs : q # p => pc'[q] = pc[q] /\ work'[q] = work[q] /\ sid'[q] = sid[q]
  BY ZenonT(60), <1>x DEF Goto, Shape, TypeOK
<1>o. \A n \in Nodes : work'[p][n] \notin OwnWork
  <2>1. CASE UNCHANGED work
    BY Zenon, <2>1, <1>q
  <2>2. CASE work' = [work EXCEPT ![p] = Waiting(sel)]
    <3>1. \A n \in Nodes : work'[p][n] \in {"wait", "skipped"}
      BY Zenon, <2>2 DEF Waiting, Shape, TypeOK
    <3>2. QED
      BY Zenon, <3>1 DEF OwnWork
  <2>3. QED
    BY Zenon, <1>x, <2>1, <2>2
<1>j. \A j \in Ids : j # i => store'[j] = store[j]
  <2>1. CASE Put(i, new)
    BY Zenon, <2>1, PutFresh DEF Shape
  <2>2. QED
    BY Zenon, <1>w, <2>1 DEF WriteOK, WriteErr
<1>k. \A q \in Procs : q # p => rec'[q] = rec[q] /\ rev'[q] = rev[q]
  BY Zenon, <1>w DEF WriteOK, WriteErr, Shape, TypeOK
<1>s. \A q \in Procs : sid[q] \in Ids => store'[sid[q]] = store[sid[q]]
  BY ZenonT(30), <1>j, <1>u
\* Where p stands afterwards.
<1>a. \/ /\ sid'[p] = i /\ rec'[p] = new /\ store'[i].rec = new
         /\ rev'[p] = store'[i].rev /\ rev'[p] # NoRev
         /\ \/ pc'[p] = "bind"
            \/ /\ pc'[p] = "run"
               /\ \A n \in Nodes : work'[p][n] = IF n \in sel THEN "wait" ELSE "skipped"
      \/ sid'[p] = sid[p] /\ rev'[p] = NoRev /\ pc'[p] = "release"
  <2>1. CASE WriteOK(p, i, new) /\ sid' = [sid EXCEPT ![p] = i]
    <3>1. Put(i, new)
      BY Zenon, <2>1 DEF WriteOK
    <3>2. store'[i].rec = new /\ store'[i].rev = NewRev(i) /\ store'[i].rev \in Revs
      BY Zenon, <3>1, PutFresh DEF Shape
    <3>3. rec'[p] = new /\ rev'[p] = NewRev(i) /\ sid'[p] = i
      BY ZenonT(60), <2>1 DEF WriteOK, Shape, TypeOK
    <3>4. \/ pc'[p] = "bind"
          \/ /\ pc'[p] = "run"
             /\ \A n \in Nodes : work'[p][n] = IF n \in sel THEN "wait" ELSE "skipped"
          \/ pc'[p] = "release" /\ sid'[p] = sid[p]
      BY SMTT(30), Z3T(30), <1>x DEF Goto, Waiting, Shape, TypeOK
    <3>5. sid[p] # i
      BY Zenon, <1>u
    <3>6. QED
      BY ZenonT(30), <3>2, <3>3, <3>4, <3>5, SentinelAssumption
  <2>2. CASE WriteErr(p, i, new) /\ Goto(p, "release") /\ UNCHANGED sid
    <3>1. pc'[p] = "release" /\ rev'[p] = rev[p]
      BY Zenon, <2>2 DEF WriteErr, Goto, Shape, TypeOK
    <3>2. QED
      BY ZenonT(30), <1>0, <2>2, <3>1 DEF Safe, Revisions
  <2>3. QED
    BY ZenonT(30), <1>x, <2>1, <2>2
<1>2. UsedIds'
  <2>1. \A j \in Ids : store'[j].rev # NoRev => j \in used'
    BY ZenonT(30), <1>x, <1>j DEF Safe, UsedIds, Exists
  <2>2. \A q \in Procs : sid'[q] \in Ids => sid'[q] \in used'
    BY ZenonT(30), <1>x, <1>p, <1>a DEF Safe, UsedIds
  <2>3. \A j \in Ids : j \notin used' => \A n \in Nodes : starts'[j][n] = 0
    BY ZenonT(30), <1>0, <1>x DEF Safe, UsedIds
  <2>4. QED
    BY ZenonT(30), <2>1, <2>2, <2>3 DEF UsedIds, Exists
<1>3. Revisions'
  BY ZenonT(30), <1>p, <1>k, <1>a DEF Safe, Revisions, Active
<1>4. SessionCurrent'
  <2>1. SUFFICES ASSUME NEW q \in Procs, sid'[q] # NoId, rev'[q] # NoRev,
                        store'[sid'[q]].rev = rev'[q]
                 PROVE  store'[sid'[q]].rec = rec'[q]
    BY Zenon DEF SessionCurrent
  <2>2. CASE q = p
    BY Zenon, <2>1, <2>2, <1>a
  <2>3. CASE q # p
    <3>1. sid'[q] = sid[q] /\ sid[q] \in Ids
      BY Zenon, <2>1, <2>3, <1>p DEF Shape, TypeOK
    <3>2. QED
      <4>s. SessionCurrent
        BY Zenon DEF Safe
      <4>q. QED
        BY ZenonT(60), SMTT(30), <4>s, <2>1, <2>3, <3>1, <1>k, <1>s DEF SessionCurrent
  <2>4. QED
    BY Zenon, <2>2, <2>3
<1>5. SessionFits'
  <2>1. SUFFICES ASSUME NEW q \in Procs
        PROVE /\ pc'[q] \in {"bind", "run", "finish_saved", "recover"} => ~rec'[q].recovered
              /\ pc'[q] = "run" => \A n \in Nodes : Fits(work'[q][n], rec'[q].phase[n])
    BY Zenon DEF SessionFits
  <2>2. CASE q = p
    BY ZenonT(60), <2>2, <1>a, <1>n DEF Fits, InitWork
  <2>3. CASE q # p
    BY Zenon, <2>3, <1>p, <1>k DEF Safe, SessionFits
  <2>4. QED
    BY Zenon, <2>2, <2>3
<1>b. \A q \in Procs, n \in Nodes : work'[q][n] \in OwnWork =>
        /\ q # p /\ work[q][n] \in OwnWork /\ sid'[q] = sid[q] /\ sid[q] \in Ids
        /\ store'[sid[q]] = store[sid[q]]
  BY ZenonT(30), <1>o, <1>p, <1>s, OwnerBlocks
<1>6. OwnerStored'
  <2>1. SUFFICES ASSUME NEW q \in Procs, NEW n \in Nodes, work'[q][n] \in OwnWork
        PROVE  /\ store'[sid'[q]].rev # NoRev /\ ~store'[sid'[q]].rec.recovered
               /\ IF pc'[q] = "recover" THEN store'[sid'[q]].rec.prep
                  ELSE store'[sid'[q]].rec.phase[n] = rec'[q].phase[n]
    BY Zenon DEF OwnerStored, Exists
  <2>2. /\ work[q][n] \in OwnWork /\ pc'[q] = pc[q] /\ rec'[q] = rec[q]
        /\ store'[sid'[q]] = store[sid[q]]
    BY Zenon, <2>1, <1>b, <1>p, <1>k
  <2>3. QED
    <3>s. OwnerStored
      BY Zenon DEF Safe
    <3>q. QED
      BY ZenonT(60), SMTT(30), <3>s, <2>2 DEF OwnerStored, Exists
<1>7. OwnerAlone'
  <2>1. SUFFICES ASSUME NEW q \in Procs, NEW n \in Nodes, NEW r \in Procs,
                        work'[q][n] \in OwnWork, r # q, sid'[r] = sid'[q]
                 PROVE  rev'[r] # store'[sid'[q]].rev
    BY ZenonT(30) DEF OwnerAlone
  <2>2. CASE r = p
    <3>1. sid'[q] # i
      BY Zenon, <2>1, <1>b, <1>u
    <3>2. rev'[r] = NoRev
      BY ZenonT(30), <2>1, <2>2, <3>1, <1>a
    <3>3. QED
      <4>s. OwnerStored
        BY Zenon DEF Safe
      <4>q. QED
        BY ZenonT(60), SMTT(30), <4>s, <2>1, <3>2, <1>b DEF OwnerStored, Exists
  <2>3. CASE r # p
    <3>1. /\ work[q][n] \in OwnWork /\ sid'[q] = sid[q]
          /\ store'[sid[q]] = store[sid[q]]
      BY Zenon, <2>1, <1>b
    <3>2. sid'[r] = sid[r] /\ rev'[r] = rev[r]
      BY Zenon, <2>3, <1>p, <1>k
    <3>3. QED
      BY Zenon, <2>1, <3>1, <3>2 DEF Safe, OwnerAlone
  <2>4. QED
    BY Zenon, <2>2, <2>3
<1>8. OwnerUnique'
  <2>s. OwnerUnique
    BY Zenon DEF Safe
  <2>q. QED
    BY ZenonT(60), SMTT(30), <2>s, <1>b DEF OwnerUnique
<1>9. Started'
  <2>1. \A j \in Ids, n \in Nodes : starts'[j][n] # 0 =>
          starts'[j][n] = 1 /\ (store'[j].rev # NoRev => store'[j].rec.phase[n] \in StartedPhases)
    BY ZenonT(30), <1>0, <1>u, <1>j DEF Safe, Started, Exists
  <2>2. \A q \in Procs, n \in Nodes : work'[q][n] = "apply" => starts'[sid'[q]][n] = 0
    BY SMTT(30), Z3T(30), <1>0, <1>b, <1>p DEF Safe, Started, OwnWork
  <2>3. QED
    BY Zenon, <2>1, <2>2 DEF Started, Exists
<1>10. OrphanStored'
  <2>1. SUFFICES ASSUME NEW o \in orphans
        PROVE /\ store'[o.exec].rev # NoRev
              /\ ExecutionNeedsRecovery(store'[o.exec].rec)
              /\ \A q \in Procs : sid'[q] = o.exec => rev'[q] # store'[o.exec].rev
    BY ZenonT(30), <1>0 DEF OrphanStored, Exists
  <2>2. o.exec \in Ids /\ o.exec # i
    BY Zenon, <1>u DEF Shape, TypeOK
  <2>3. store'[o.exec] = store[o.exec] /\ store[o.exec].rev # NoRev
    BY Zenon, <2>2, <1>j DEF Safe, OrphanStored, Exists
  <2>4. ASSUME NEW q \in Procs, sid'[q] = o.exec
        PROVE  rev'[q] # store'[o.exec].rev
    <3>1. CASE q = p
      <4>1. rev'[q] = NoRev
        BY Zenon, <2>2, <2>4, <3>1, <1>a
      <4>2. QED
        BY Zenon, <2>3, <4>1
    <3>2. CASE q # p
      <4>1. sid[q] = o.exec /\ rev'[q] = rev[q]
        BY Zenon, <2>4, <3>2, <1>p, <1>k
      <4>2. rev[q] # store[o.exec].rev
        BY Zenon, <4>1 DEF Safe, OrphanStored
      <4>3. QED
        BY Zenon, <2>3, <4>1, <4>2
    <3>3. QED
      BY Zenon, <3>1, <3>2
  <2>5. QED
    BY Zenon, <2>3, <2>4 DEF Safe, OrphanStored
<1>11. QED
  BY ZenonT(30), <1>2, <1>3, <1>4, <1>5, <1>6, <1>7, <1>8, <1>9, <1>10 DEF Safe

\* Pruning rewrites or deletes a resolved record behind every session's back.
LEMMA PruneWriteSafe ==
  ASSUME Shape, Safe, NEW p \in Procs, pc[p] = "prune", pc'[p] \in {"prune", "release"},
         OthersStay(p), NEW i \in Ids, Exists(i), ~ExecutionNeedsRecovery(store[i].rec),
         \A j \in Ids : j # i => store'[j] = store[j],
         \/ store'[i].rev = NoRev
         \/ /\ store'[i].rec.phase = store[i].rec.phase
            /\ \A q \in Procs : sid[q] = i => rev[q] # store'[i].rev,
         UNCHANGED <<rec, rev, sid, work, used, orphans, starts>>
  PROVE  Safe'
<1>f. /\ \A q \in Procs, n \in Nodes : work[q][n] \in OwnWork => sid[q] # i
      /\ \A o \in orphans : o.exec # i
  BY ZenonT(30), ResolvedFree
<1>o. \A q \in Procs, n \in Nodes : work[q][n] \in OwnWork =>
        sid[q] \in Ids /\ store'[sid[q]] = store[sid[q]]
  BY Zenon, <1>f, OwnerBlocks
<1>q. \A n \in Nodes : work[p][n] \notin OwnWork
  BY ZenonT(30), QuietWork DEF Quiet, OwnWork, RunWork, InitWork
<1>1. UsedIds'
  BY ZenonT(30) DEF Safe, UsedIds, Exists
<1>2. Revisions'
  BY Zenon DEF Safe, Revisions, OthersStay, Active
<1>3. SessionCurrent'
  <2>1. SUFFICES ASSUME NEW q \in Procs, sid[q] # NoId, rev[q] # NoRev,
                        store'[sid[q]].rev = rev[q]
                 PROVE  store'[sid[q]].rec = rec[q]
    BY ZenonT(30) DEF SessionCurrent
  <2>2. sid[q] \in Ids /\ sid[q] # i
    BY ZenonT(30), <2>1 DEF Shape, TypeOK
  <2>3. QED
    BY Zenon, <2>1, <2>2 DEF Safe, SessionCurrent
<1>4. SessionFits'
  BY ZenonT(30) DEF Safe, SessionFits, OthersStay
<1>5. OwnerStored'
  <2>1. SUFFICES ASSUME NEW q \in Procs, NEW n \in Nodes, work[q][n] \in OwnWork
                 PROVE  /\ store'[sid[q]].rev # NoRev
                        /\ ~store'[sid[q]].rec.recovered
                        /\ IF pc'[q] = "recover" THEN store'[sid[q]].rec.prep
                           ELSE store'[sid[q]].rec.phase[n] = rec[q].phase[n]
    BY ZenonT(30) DEF OwnerStored, Exists
  <2>2. pc'[q] = pc[q]
    BY Zenon, <2>1, <1>q DEF OthersStay
  <2>3. store'[sid[q]] = store[sid[q]]
    BY Zenon, <2>1, <1>o
  <2>4. /\ store[sid[q]].rev # NoRev
        /\ ~store[sid[q]].rec.recovered
        /\ IF pc[q] = "recover" THEN store[sid[q]].rec.prep
           ELSE store[sid[q]].rec.phase[n] = rec[q].phase[n]
    BY ZenonT(30), <2>1 DEF Safe, OwnerStored, Exists
  <2>5. QED
    BY Zenon, <2>2, <2>3, <2>4
<1>6. OwnerAlone' /\ OwnerUnique'
  <2>1. OwnerAlone'
    <3>s. OwnerAlone
      BY Zenon DEF Safe
    <3>q. QED
      BY ZenonT(60), SMTT(30), <3>s, <1>o DEF OwnerAlone
  <2>2. OwnerUnique'
    BY ZenonT(30), <1>o DEF Safe, OwnerUnique
  <2>3. QED
    BY Zenon, <2>1, <2>2
<1>7. Started'
  BY ZenonT(60) DEF Safe, Started, Exists
<1>8. OrphanStored'
  <2>1. \A o \in orphans : store'[o.exec] = store[o.exec]
    BY Zenon, <1>f DEF Shape, TypeOK
  <2>2. QED
    <3>s. OrphanStored
      BY Zenon DEF Safe
    <3>q. QED
      BY ZenonT(60), SMTT(30), <3>s, <2>1 DEF OrphanStored, Exists
<1>9. QED
  BY Zenon, <1>1, <1>2, <1>3, <1>4, <1>5, <1>6, <1>7, <1>8 DEF Safe

\* The barrier, pruneExecutions and cleanupExecution keep Safe.
LEMMA PruneSafe ==
  ASSUME Shape, Safe, NEW p \in Procs,
         CheckExecutionBarrier(p) \/ PruneStep(p) \/ CleanupExecution(p)
  PROVE  Safe'
<1> USE DEF object, session, ghost, env
<1>0. pc[p] \in {"locked", "prune", "clean"}
  BY ZenonT(30) DEF CheckExecutionBarrier, PruneStep, PruneSkip, PruneExpire, PruneError,
         PruneBundles, PruneRecord, PruneEnd, CleanupExecution
<1>u. UNCHANGED <<rec, rev, sid, work, used, orphans, starts>>
  BY ZenonT(30) DEF CheckExecutionBarrier, PruneStep, PruneSkip, PruneExpire, PruneError,
         PruneBundles, PruneRecord, PruneEnd, CleanupExecution
<1>q. \A n \in Nodes : work'[p][n] \notin OwnWork /\ work'[p][n] # "apply"
  BY Zenon, <1>0, <1>u, QuietWork DEF Quiet, OwnWork, RunWork, InitWork
<1>g. ASSUME NEW l, Goto(p, l) PROVE pc'[p] = l /\ OthersStay(p)
  BY Zenon, <1>g, <1>u DEF Goto, OthersStay, Shape, TypeOK
<1>s. UNCHANGED pc => OthersStay(p)
  BY Zenon, <1>u DEF OthersStay
\* The steps that leave the store alone.
<1>h. ASSUME UNCHANGED store, OthersStay(p),
             \/ pc'[p] \in {"prune", "create"} /\ pc[p] \in {"locked", "prune"}
             \/ pc'[p] = "release"
      PROVE  Safe'
  BY Zenon, <1>h, <1>q, <1>u, HoldSafe
<1>1. CASE CheckExecutionBarrier(p)
  <2>1. pc[p] = "locked" /\ UNCHANGED store /\ (Goto(p, "release") \/ Goto(p, "prune"))
    BY Zenon, <1>1 DEF CheckExecutionBarrier
  <2>2. QED
    BY ZenonT(30), <2>1, <1>g, <1>h
<1>2. ASSUME NEW i \in Ids,
             PruneSkip(p, i) \/ PruneError(p, i) \/ PruneBundles(p, i)
      PROVE  Safe'
  <2>1. pc[p] = "prune" /\ UNCHANGED store /\ (UNCHANGED pc \/ Goto(p, "release"))
    BY ZenonT(30), <1>2 DEF PruneSkip, PruneError, PruneBundles
  <2>2. QED
    BY SMTT(30), Z3T(30), <2>1, <1>g, <1>s, <1>h
<1>3. ASSUME NEW i \in Ids, PruneExpire(p, i) PROVE Safe'
  <2> DEFINE r == store[i].rec
  <2>1. /\ pc[p] = "prune" /\ Exists(i) /\ ~ExecutionNeedsRecovery(r)
        /\ UNCHANGED store \/ Put(i, Terminal(r, "expired"))
        /\ UNCHANGED pc \/ Goto(p, "release")
    BY Zenon, <1>3 DEF PruneExpire
  <2>2. pc'[p] \in {"prune", "release"} /\ OthersStay(p)
    BY Zenon, <2>1, <1>g, <1>s
  <2>3. CASE Put(i, Terminal(r, "expired"))
    <3>1. Terminal(r, "expired").phase = r.phase
      BY Zenon, TerminalType DEF Statuses, Shape, TypeOK
    <3>2. /\ store'[i].rec = Terminal(r, "expired")
          /\ \A q \in Procs : sid[q] = i => rev[q] # store'[i].rev
          /\ \A j \in Ids : j # i => store'[j] = store[j]
      BY ZenonT(30), <2>3, PutFresh DEF Shape
    <3>3. QED
      BY ZenonT(30), <1>u, <2>1, <2>2, <3>1, <3>2, PruneWriteSafe
  <2>4. CASE UNCHANGED store
    BY Zenon, <2>1, <2>2, <2>4, <1>h
  <2>5. QED
    BY Zenon, <2>1, <2>3, <2>4
<1>4. ASSUME NEW i \in Ids, PruneRecord(p, i) PROVE Safe'
  <2>1. /\ pc[p] = "prune" /\ Exists(i) /\ ~ExecutionNeedsRecovery(store[i].rec)
        /\ \/ UNCHANGED store
           \/ store' = [store EXCEPT ![i] = [rev |-> NoRev, rec |-> NullRecord]]
        /\ UNCHANGED pc \/ Goto(p, "release")
    BY ZenonT(30), <1>4 DEF PruneRecord, Settled
  <2>2. pc'[p] \in {"prune", "release"} /\ OthersStay(p)
    BY Zenon, <2>1, <1>g, <1>s
  <2>3. CASE store' = [store EXCEPT ![i] = [rev |-> NoRev, rec |-> NullRecord]]
    <3>1. store'[i].rev = NoRev /\ \A j \in Ids : j # i => store'[j] = store[j]
      BY ZenonT(30), <2>3 DEF Shape, TypeOK
    <3>2. QED
      BY ZenonT(30), <1>u, <2>1, <2>2, <3>1, PruneWriteSafe
  <2>4. CASE UNCHANGED store
    BY Zenon, <2>1, <2>2, <2>4, <1>h
  <2>5. QED
    BY Zenon, <2>1, <2>3, <2>4
<1>5. CASE PruneEnd(p)
  <2>1. pc[p] = "prune" /\ UNCHANGED store /\ (Goto(p, "release") \/ Goto(p, "create"))
    BY Zenon, <1>5 DEF PruneEnd
  <2>2. QED
    BY ZenonT(30), <2>1, <1>g, <1>h
<1>6. CASE CleanupExecution(p)
  <2>1. UNCHANGED store /\ Goto(p, "release")
    BY Zenon, <1>6 DEF CleanupExecution
  <2>2. QED
    BY Zenon, <2>1, <1>g, <1>h
<1>7. QED
  BY Zenon, <1>1, <1>2, <1>3, <1>4, <1>5, <1>6 DEF PruneStep

\* A command starts: it has no revision yet.
LEMMA AcquireSafe ==
  ASSUME Shape, Safe, NEW p \in Procs, NEW k \in Kinds, NEW i \in Ids \cup {NoId},
         Acquire(p, k, i)
  PROVE  Safe'
<1> USE DEF object, ghost, env
<1>0. /\ pc[p] = "idle" /\ rev[p] = NoRev
      /\ UNCHANGED <<store, rec, rev, work, orphans, starts, used>>
      /\ i \in Ids => Exists(i)
  BY Zenon, SentinelAssumption DEF Acquire, Safe, Revisions
<1>1. \A q \in Procs : /\ pc'[q] = IF q = p THEN "locked" ELSE pc[q]
                       /\ sid'[q] = IF q = p THEN i ELSE sid[q]
  BY Zenon DEF Acquire, Goto, Shape, TypeOK
<1>q. \A n \in Nodes : work[p][n] \notin OwnWork
  BY ZenonT(30), <1>0, QuietWork DEF Quiet, OwnWork, RunWork, InitWork
<1>2. UsedIds'
  BY ZenonT(30), <1>0, <1>1 DEF Safe, UsedIds, Exists
<1>3. Revisions'
  BY Zenon, <1>0, <1>1 DEF Safe, Revisions, Active
<1>4. SessionCurrent'
  BY Zenon, <1>0, <1>1 DEF Safe, SessionCurrent
<1>5. SessionFits'
  BY ZenonT(30), <1>0, <1>1 DEF Safe, SessionFits
<1>6. OwnerStored'
  <2>s. OwnerStored
    BY Zenon DEF Safe
  <2>q. QED
    BY ZenonT(60), SMTT(30), <2>s, <1>0, <1>1, <1>q DEF OwnerStored, Exists
<1>7. OwnerAlone'
  <2>1. SUFFICES ASSUME NEW q \in Procs, NEW n \in Nodes, NEW r \in Procs,
                        work'[q][n] \in OwnWork, r # q, sid'[r] = sid'[q]
                 PROVE  rev'[r] # store'[sid'[q]].rev
    BY ZenonT(30) DEF OwnerAlone
  <2>2. /\ q # p /\ work[q][n] \in OwnWork /\ sid'[q] = sid[q]
        /\ rev'[r] = rev[r] /\ store'[sid[q]] = store[sid[q]]
    BY Zenon, <2>1, <1>0, <1>1, <1>q
  <2>3. CASE r = p
    BY Zenon, <2>2, <2>3, <1>0 DEF Safe, OwnerStored, Exists
  <2>4. CASE r # p
    <3>1. sid[r] = sid[q]
      BY Zenon, <2>1, <2>2, <2>4, <1>1
    <3>2. QED
      BY Zenon, <2>1, <2>2, <3>1 DEF Safe, OwnerAlone
  <2>5. QED
    BY Zenon, <2>3, <2>4
<1>8. OwnerUnique'
  BY SMTT(30), <1>0, <1>1, <1>q DEF Safe, OwnerUnique
<1>9. Started'
  BY ZenonT(30), <1>0, <1>1, <1>q DEF Safe, Started, Exists, OwnWork
<1>10. OrphanStored'
  BY ZenonT(90), <1>0, <1>1 DEF Safe, OrphanStored, Exists
<1>11. QED
  BY ZenonT(60), <1>2, <1>3, <1>4, <1>5, <1>6, <1>7, <1>8, <1>9, <1>10 DEF Safe

\* A process ends or dies; what it leaves running still blocks new work.
LEMMA ForgetSafe ==
  ASSUME Shape, Safe, NEW p \in Procs, Forget(p),
         UNCHANGED <<store, used, starts>>,
         orphans' \subseteq orphans \cup {[exec |-> sid[p], node |-> n] : n \in Running(p)}
  PROVE  Safe'
<1>1. \A q \in Procs : /\ pc'[q] = IF q = p THEN "idle" ELSE pc[q]
                       /\ sid'[q] = IF q = p THEN NoId ELSE sid[q]
                       /\ rev'[q] = IF q = p THEN NoRev ELSE rev[q]
                       /\ q # p => rec'[q] = rec[q]
                       /\ q # p => work'[q] = work[q]
  BY ZenonT(30) DEF Forget, Shape, TypeOK
<1>2. \A n \in Nodes : work'[p][n] = "skipped"
  BY ZenonT(30) DEF Forget, NoWork, Shape, TypeOK
<1>w. \A q \in Procs, n \in Nodes : work'[q][n] \in OwnWork =>
        q # p /\ work[q][n] \in OwnWork /\ sid[q] \in Ids
  BY ZenonT(30), <1>1, <1>2, OwnerBlocks DEF OwnWork
<1>3. UsedIds'
  BY ZenonT(30), <1>1, SentinelAssumption DEF Safe, UsedIds, Exists
<1>4. Revisions'
  BY SMTT(30), <1>1 DEF Safe, Revisions, Active
<1>5. SessionCurrent'
  BY ZenonT(90), <1>1 DEF Safe, SessionCurrent
<1>6. SessionFits'
  BY ZenonT(30), <1>1 DEF Safe, SessionFits
<1>7. OwnerStored'
  <2>1. SUFFICES ASSUME NEW q \in Procs, NEW n \in Nodes, work'[q][n] \in OwnWork
        PROVE  /\ store'[sid'[q]].rev # NoRev /\ ~store'[sid'[q]].rec.recovered
               /\ IF pc'[q] = "recover" THEN store'[sid'[q]].rec.prep
                  ELSE store'[sid'[q]].rec.phase[n] = rec'[q].phase[n]
    BY Zenon DEF OwnerStored, Exists
  <2>2. /\ work[q][n] \in OwnWork /\ pc'[q] = pc[q] /\ rec'[q] = rec[q]
        /\ store'[sid'[q]] = store[sid[q]]
    BY Zenon, <2>1, <1>1, <1>w
  <2>3. QED
    BY ZenonT(60), <2>2 DEF Safe, OwnerStored, Exists
<1>8. OwnerAlone'
  <2>1. SUFFICES ASSUME NEW q \in Procs, NEW n \in Nodes, NEW r \in Procs,
                        work'[q][n] \in OwnWork, r # q, sid'[r] = sid'[q]
                 PROVE  rev'[r] # store'[sid'[q]].rev
    BY ZenonT(30) DEF OwnerAlone
  <2>2. q # p /\ work[q][n] \in OwnWork /\ sid[q] \in Ids /\ sid'[q] = sid[q]
    BY Zenon, <2>1, <1>1, <1>w
  <2>3. r # p
    BY Zenon, <2>1, <2>2, <1>1, SentinelAssumption
  <2>4. sid[r] = sid[q] /\ rev'[r] = rev[r]
    BY Zenon, <2>1, <2>2, <2>3, <1>1
  <2>5. QED
    BY Zenon, <2>1, <2>2, <2>4 DEF Safe, OwnerAlone
<1>9. OwnerUnique'
  BY SMTT(30), Z3T(30), <1>1, <1>w DEF Safe, OwnerUnique
<1>10. Started'
  <2>1. \A q \in Procs, n \in Nodes : work'[q][n] = "apply" => q # p /\ work[q][n] = "apply"
    BY Zenon, <1>1, <1>2
  <2>2. QED
    <3>s. Started
      BY Zenon DEF Safe
    <3>q. QED
      BY ZenonT(60), SMTT(30), <3>s, <1>1, <2>1 DEF Started, Exists
<1>11. OrphanStored'
  <2>1. SUFFICES ASSUME NEW o \in orphans'
        PROVE /\ store[o.exec].rev # NoRev
              /\ ExecutionNeedsRecovery(store[o.exec].rec)
              /\ \A q \in Procs : sid'[q] = o.exec => rev'[q] # store[o.exec].rev
    BY ZenonT(90) DEF OrphanStored, Exists
  <2>2. CASE o \in orphans
    <3>s. OrphanStored
      BY Zenon DEF Safe
    <3>q. QED
      BY ZenonT(60), SMTT(30), <3>s, <2>2, <1>1 DEF OrphanStored, Exists
  <2>3. CASE o \notin orphans
    <3>1. PICK n \in Running(p) : o = [exec |-> sid[p], node |-> n]
      BY ZenonT(30), <2>1, <2>3
    <3>2. o.exec = sid[p] /\ n \in Nodes /\ work[p][n] \in OwnWork
      BY Zenon, <3>1 DEF Running, OwnWork
    <3>3. /\ sid[p] \in Ids /\ Exists(sid[p])
          /\ ExecutionNeedsRecovery(store[sid[p]].rec)
      BY ZenonT(30), <3>2, OwnerBlocks
    <3>4. \A q \in Procs : q # p /\ sid[q] = sid[p] => rev[q] # store[sid[p]].rev
      BY Zenon, <3>2 DEF Safe, OwnerAlone
    <3>5. QED
      BY Zenon, <3>2, <3>3, <3>4, <1>1 DEF Exists
  <2>4. QED
    BY ZenonT(30), <2>2, <2>3
<1>12. QED
  BY Zenon, <1>3, <1>4, <1>5, <1>6, <1>7, <1>8, <1>9, <1>10, <1>11 DEF Safe

\* Crashes, exiting orphans, broken locks and expiry keep Safe.
LEMMA EnvironmentSafe ==
  ASSUME Shape, Safe, (\E p \in Procs : Release(p)) \/ Environment
  PROVE  Safe'
<1> USE DEF object, control, session, ghost, env
<1>1. ASSUME NEW p \in Procs, Release(p) \/ Crash(p) PROVE Safe'
  <2>1. /\ Forget(p) /\ UNCHANGED <<store, used, starts>>
        /\ orphans' \subseteq orphans \cup {[exec |-> sid[p], node |-> n] : n \in Running(p)}
    BY Zenon, <1>1 DEF Release, Crash
  <2>2. QED
    BY ZenonT(30), <2>1, ForgetSafe
<1>2. CASE OrphanExits \/ Unlock \/ PlanExpires
  <2>1. /\ UNCHANGED <<store, used, starts, pc, sid, rec, rev, work>>
        /\ orphans' \subseteq orphans
    BY Zenon, <1>2 DEF OrphanExits, Unlock, PlanExpires
  <2>2. UsedIds' /\ Revisions' /\ SessionCurrent' /\ SessionFits'
    BY ZenonT(30), <2>1 DEF Safe, UsedIds, Revisions, SessionCurrent, SessionFits, Exists
  <2>3. OwnerStored' /\ OwnerAlone' /\ OwnerUnique' /\ Started'
    <3>1. OwnerStored'
      BY ZenonT(30), <2>1 DEF Safe, OwnerStored, Exists
    <3>2. OwnerAlone' /\ OwnerUnique'
      BY ZenonT(30), <2>1 DEF Safe, OwnerAlone, OwnerUnique
    <3>3. Started'
      BY ZenonT(30), <2>1 DEF Safe, Started, Exists
    <3>4. QED
      BY Zenon, <3>1, <3>2, <3>3
  <2>4. OrphanStored'
    BY Zenon, <2>1 DEF Safe, OrphanStored, Exists
  <2>5. QED
    BY Zenon, <2>2, <2>3, <2>4 DEF Safe
<1>3. QED
  BY Zenon, <1>1, <1>2 DEF Environment

\* Every step of the protocol keeps Safe.
LEMMA SafeStep ==
  ASSUME Shape, Safe, [Next]_vars
  PROVE  Safe'
<1>1. CASE UNCHANGED vars
  <2>1. UsedIds' /\ Revisions' /\ SessionCurrent' /\ SessionFits'
    BY ZenonT(90), <1>1 DEF vars, Safe, UsedIds, Revisions, SessionCurrent, SessionFits, Exists
  <2>2. OwnerStored' /\ OwnerAlone' /\ OwnerUnique' /\ Started' /\ OrphanStored'
    <3>0. UNCHANGED <<store, pc, sid, rec, rev, work, starts, orphans>>
      BY Zenon, <1>1 DEF vars, object, control, session, ghost, env
    <3>1. OwnerStored'
      BY ZenonT(30), <3>0 DEF Safe, OwnerStored, Exists
    <3>2. OwnerAlone' /\ OwnerUnique'
      BY ZenonT(30), <3>0 DEF Safe, OwnerAlone, OwnerUnique
    <3>3. Started'
      BY ZenonT(30), <3>0 DEF Safe, Started, Exists
    <3>4. OrphanStored'
      BY ZenonT(30), <3>0 DEF Safe, OrphanStored, Exists
    <3>5. QED
      BY Zenon, <3>1, <3>2, <3>3, <3>4
  <2>3. QED
    BY Zenon, <2>1, <2>2 DEF Safe
<1>2. ASSUME NEW p \in Procs, NEW n \in Nodes, WorkerStep(p, n) PROVE Safe'
  BY Zenon, <1>2, WorkerSafe, RecoverSafe DEF WorkerStep
<1>3. ASSUME NEW p \in Procs, CommandStep(p) PROVE Safe'
  BY Zenon, <1>2, <1>3, PruneSafe, CreateSafe, OpenCommandSafe, BindGraphSafe, EndSafe,
     EnvironmentSafe DEF CommandStep
<1>4. QED
  BY Zenon, <1>1, <1>3, AcquireSafe, EnvironmentSafe DEF Next

\* The strengthening is an invariant of the protocol, with any number of
\* crashes, store errors and broken locks.
THEOREM SafeInvariant == Spec => [](Shape /\ Safe)
<1>1. Init => Shape /\ Safe
  BY Zenon, ShapeInit, SafeInit
<1>2. Shape /\ Safe /\ [Next]_vars => (Shape /\ Safe)'
  BY Zenon, ShapeStep, SafeStep
<1>3. QED
  BY <1>1, <1>2, PTL DEF Spec

\* No execution starts the mutating command of a node twice (RunMutation),
\* whatever crashes, lost acknowledgements, resumptions and broken locks
\* happen: the compare-and-swap on the revision is what guarantees it.
THEOREM NeverReplayed == Spec => []NoReplay
<1>1. ASSUME Shape, Safe PROVE NoReplay
  <2>1. \A i \in Ids, n \in Nodes : starts[i][n] = 0 \/ starts[i][n] = 1
    BY Zenon, <1>1 DEF Safe, Started
  <2>2. QED
    BY <2>1 DEF NoReplay
<1>2. QED
  BY <1>1, SafeInvariant, PTL

\* A session whose revision is current has the current record in memory, so
\* executionSession.publish never overwrites a change its writer has not seen.
THEOREM SessionsCurrent == Spec => []SessionCurrent
<1>1. Shape /\ Safe => SessionCurrent
  BY Zenon DEF Safe
<1>2. QED
  BY <1>1, SafeInvariant, PTL

\* Every subprocess alive, watched or orphaned by a crash, belongs to a stored
\* record that executionNeedsRecovery reports: the barrier sees it.
THEOREM RuntimeIsJournaled == Spec => []RuntimeJournaled
<1>1. ASSUME Shape, Safe PROVE RuntimeJournaled
  <2>1. SUFFICES ASSUME NEW o \in LiveRuntime
                 PROVE  Exists(o.exec) /\ ExecutionNeedsRecovery(store[o.exec].rec)
    BY Zenon DEF RuntimeJournaled
  <2>2. CASE o \in orphans
    BY Zenon, <1>1, <2>2 DEF Safe, OrphanStored
  <2>3. CASE o \notin orphans
    <3>1. PICK p \in Procs : \E n \in Running(p) : o = [exec |-> sid[p], node |-> n]
      BY Zenon, <2>1, <2>3 DEF LiveRuntime
    <3>n. PICK n \in Running(p) : o = [exec |-> sid[p], node |-> n]
      BY Zenon, <3>1
    <3>2. o.exec = sid[p] /\ n \in Nodes /\ work[p][n] \in OwnWork
      BY Zenon, <3>n DEF Running, OwnWork
    <3>3. QED
      BY ZenonT(30), <1>1, <3>2, OwnerBlocks
  <2>4. QED
    BY Zenon, <2>2, <2>3
<1>2. QED
  BY <1>1, SafeInvariant, PTL

==============================================================================

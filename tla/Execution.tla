------------------------------ MODULE Execution ------------------------------
(***************************************************************************)
(* The execution engine's journal protocol: terragraph processes that      *)
(* create, advance, pause, resume, recover, cancel and prune execution     *)
(* records in one shared store, and the terraform/tofu subprocesses they   *)
(* start (internal/engine: execution_journal, execution_store, apply,      *)
(* destroy, plan, prepared_plan, plan_bundle, node_operation,              *)
(* saved_execution, execution_recovery, recovery_outputs,                  *)
(* execution_cleanup).                                                     *)
(*                                                                         *)
(* A process runs one command at a time.  Its node workers share one       *)
(* session: the record and the revision the process last wrote.  Every     *)
(* publish is a compare-and-swap on that revision; it can also fail        *)
(* without effect, or take effect and still report an error.  A process    *)
(* can die between any two steps, leaving its subprocesses running.        *)
(***************************************************************************)
EXTENDS ExecutionRecord

CONSTANTS Procs,        \* terragraph processes
          Ids,          \* execution IDs (one per record ever created)
          Revs,         \* object revisions
          NoRev,        \* revision "": the object does not exist
          NoProc, NoId,
          Kinds,        \* the commands the operators issue
          Selections,   \* the node selections they name
          Hooks,        \* TRUE: a runtime hook may refuse to start a command
          MaxCrashes, MaxFaults, MaxForced

ASSUME SentinelAssumption ==
  NoRev \notin Revs /\ NoProc \notin Procs /\ NoId \notin Ids

RunKinds    == {"run", "run_init", "run_read"}
BeginKinds  == {"apply", "retain", "destroy", "plan", "review", "save"} \cup RunKinds
ResumeKinds == {"continue", "apply_saved"}
SavedKinds  == {"save", "continue", "apply_saved"}
RecoverKinds == {"recover", "replan"}
AllKinds == BeginKinds \cup ResumeKinds \cup RecoverKinds \cup {"cancel", "prune"}

ASSUME KindsAssumption ==
  /\ Kinds \subseteq AllKinds
  /\ Selections \subseteq SUBSET Nodes
  /\ Hooks \in BOOLEAN
  /\ MaxCrashes \in Nat /\ MaxFaults \in Nat /\ MaxForced \in Nat

VARIABLES
  store,    \* Ids -> [rev, rec]; rev = NoRev when the object is missing
  bundles,  \* the stored plan bundles, each [plan, exec, node]
  expired,  \* the plans whose ExpiresAt has passed
  used,     \* the execution IDs already drawn
  lock,     \* who holds the run lock and the graph lock
  pc,       \* where each process is in its command
  cmd,      \* the command it runs
  sid,      \* the execution its session is about
  rec,      \* executionSession.record
  rev,      \* executionSession.revision
  work,     \* where each node's worker is
  todo,     \* the records pruneExecutions has not visited yet
  orphans,  \* subprocesses that outlived their terragraph process
  starts,   \* starts[i][n]: mutating commands started for n by execution i
  crashes, faults, forced   \* what is left of each bound

session == <<sid, rec, rev>>
object  == <<store, faults>>
control == <<lock, pc, cmd, todo>>
ghost   == <<orphans, starts>>
env     == <<used, expired, crashes, forced>>
vars == <<store, bundles, expired, used, lock, pc, cmd, sid, rec, rev, work,
          todo, orphans, starts, crashes, faults, forced>>

PCs == {"idle", "locked", "prune", "create", "bind", "run",
        "finish_saved", "recover", "replan", "cancel", "clean", "release"}

\* A worker's program counter.  init and apply: the phase is published, the
\* subprocess is not yet started; initRun and applyRun: it runs.
Works == {"skipped", "wait", "init", "initRun", "read", "prepared", "planned",
          "review", "apply", "applyRun", "collect", "done", "failed"}
Ended == {"skipped", "done", "failed"}

NullRecord == NewRecord(FALSE, {})
NoWork     == [n \in Nodes |-> "skipped"]

TypeOK ==
  /\ store \in [Ids -> [rev : Revs \cup {NoRev}, rec : Record]]
  /\ bundles \subseteq [plan : PlanIds, exec : Ids, node : Nodes]
  /\ expired \subseteq PlanIds
  /\ used \subseteq Ids
  /\ lock \in Procs \cup {NoProc}
  /\ pc \in [Procs -> PCs]
  /\ cmd \in [Procs -> AllKinds \cup {"none"}]
  /\ sid \in [Procs -> Ids \cup {NoId}]
  /\ rec \in [Procs -> Record]
  /\ rev \in [Procs -> Revs \cup {NoRev}]
  /\ work \in [Procs -> [Nodes -> Works]]
  /\ todo \in [Procs -> SUBSET Ids]
  /\ orphans \subseteq [exec : Ids, node : Nodes]
  /\ starts \in [Ids -> [Nodes -> Nat]]
  /\ crashes \in Nat /\ faults \in Nat /\ forced \in Nat

Init ==
  /\ store = [i \in Ids |-> [rev |-> NoRev, rec |-> NullRecord]]
  /\ bundles = {} /\ expired = {} /\ used = {}
  /\ lock = NoProc
  /\ pc = [p \in Procs |-> "idle"]
  /\ cmd = [p \in Procs |-> "none"]
  /\ sid = [p \in Procs |-> NoId]
  /\ rec = [p \in Procs |-> NullRecord]
  /\ rev = [p \in Procs |-> NoRev]
  /\ work = [p \in Procs |-> NoWork]
  /\ todo = [p \in Procs |-> {}]
  /\ orphans = {}
  /\ starts = [i \in Ids |-> [n \in Nodes |-> 0]]
  /\ crashes = MaxCrashes /\ faults = MaxFaults /\ forced = MaxForced

------------------------------------------------------------------------------
(* The store: executionStore.write and executionSession.publish. *)

Exists(i) == store[i].rev # NoRev

HeldRevs(i) == {store[i].rev} \cup {rev[q] : q \in {r \in Procs : sid[r] = i}}

\* A revision is drawn at random at every write: no holder has seen it.
\* Revisions are only compared for equality, so a forgotten one may return.
NewRev(i) == CHOOSE r \in Revs : r \notin HeldRevs(i)

Put(i, r) ==
  /\ \E v \in Revs : v \notin HeldRevs(i)
  /\ store' = [store EXCEPT ![i] = [rev |-> NewRev(i), rec |-> r]]

\* Mutant: the write does not compare revisions.
WriteOKBlind(p, i, next) ==
  /\ Put(i, next)
  /\ rec' = [rec EXCEPT ![p] = next]
  /\ rev' = [rev EXCEPT ![p] = NewRev(i)]
  /\ UNCHANGED faults

\* The write took effect and was acknowledged: the session moves with it.
WriteOK(p, i, next) ==
  /\ store[i].rev = rev[p]
  /\ Put(i, next)
  /\ rec' = [rec EXCEPT ![p] = next]
  /\ rev' = [rev EXCEPT ![p] = NewRev(i)]
  /\ UNCHANGED faults

\* Mutant: after a conflict the session adopts the stored revision.
WriteErrAdopts(p, i, next) ==
  /\ store[i].rev # rev[p]
  /\ rev' = [rev EXCEPT ![p] = store[i].rev]
  /\ UNCHANGED <<rec, store, faults>>

\* The write reported an error: the revision moved on, the store was not
\* reached, or the object was replaced and the acknowledgement was lost.
WriteErr(p, i, next) ==
  /\ UNCHANGED <<rec, rev>>
  /\ \/ /\ store[i].rev # rev[p]
        /\ UNCHANGED <<store, faults>>
     \/ /\ faults > 0
        /\ faults' = faults - 1
        /\ \/ UNCHANGED store
           \/ store[i].rev = rev[p] /\ Put(i, next)

NoWrite == UNCHANGED <<store, faults, rec, rev>>

------------------------------------------------------------------------------
(* Starting a command: the locks, the recovery barrier, pruning, and the    *)
(* record it creates or reopens.                                            *)

Goto(p, l) == pc' = [pc EXCEPT ![p] = l]

\* Bound: every command that will create a record finds an unused ID.
IdLeft ==
  Cardinality({q \in Procs : cmd[q] \in BeginKinds /\ sid[q] = NoId})
    < Cardinality(Ids \ used)

\* lockRun and lockGraph, entered with the command's arguments.
Acquire(p, k, i) ==
  /\ pc[p] = "idle" /\ lock = NoProc
  /\ k \in Kinds
  /\ IF k \in BeginKinds \cup {"prune"}
     THEN i = NoId /\ (k \in BeginKinds => IdLeft)
     ELSE i \in Ids /\ Exists(i)
  /\ lock' = p
  /\ Goto(p, "locked")
  /\ cmd' = [cmd EXCEPT ![p] = k]
  /\ sid' = [sid EXCEPT ![p] = i]
  /\ UNCHANGED <<object, bundles, rec, rev, work, todo, ghost, env>>

\* Mutant: the barrier trusts the status and ignores the phases.
BlockingByStatus(except) ==
  {j \in Ids : Exists(j) /\ j # except /\ store[j].rec.status = "needs_recovery"}

\* The records that block new work, the one named by except aside.
Blocking(except) ==
  {j \in Ids : Exists(j) /\ j # except /\ ExecutionNeedsRecovery(store[j].rec)}

\* The commands that an unresolved execution does not stop.
Unbarred == {"run_read", "prune"}

\* beginExecution up to pruneExecutions.  The configuration or the store may
\* also be unusable.
CheckExecutionBarrier(p) ==
  /\ pc[p] = "locked" /\ cmd[p] \in BeginKinds \cup {"prune"}
  /\ \/ Goto(p, "release") /\ UNCHANGED todo
     \/ /\ cmd[p] \in Unbarred \/ Blocking(NoId) = {}
        /\ Goto(p, "prune")
        /\ todo' = [todo EXCEPT ![p] = {j \in Ids : Exists(j)}]
  /\ UNCHANGED <<object, bundles, lock, cmd, session, work, ghost, env>>

\* A planned node's bundle, as frontierExpired and readPlanBundle look it up.
HasBundle(r, i, n) ==
  \E b \in bundles : b.plan = r.plan[n] /\ b.exec = i /\ b.node = n

Visited(p, i) == todo' = [todo EXCEPT ![p] = @ \ {i}]

\* One record of pruneExecutions' loop is passed over.
PruneSkip(p, i) ==
  LET r == store[i].rec IN
  /\ pc[p] = "prune" /\ i \in todo[p] /\ Exists(i)
  /\ \/ ExecutionNeedsRecovery(r)
     \/ /\ ~r.finished
        /\ r.status = "waiting_for_apply" =>
             \A n \in PlannedNodes(r) : HasBundle(r, i, n) /\ r.plan[n] \notin expired
  /\ Visited(p, i)
  /\ UNCHANGED <<object, bundles, lock, pc, cmd, session, work, ghost, env>>

\* A paused execution with an expired plan is published as expired.
PruneExpire(p, i) ==
  LET r == store[i].rec IN
  /\ pc[p] = "prune" /\ i \in todo[p] /\ Exists(i)
  /\ ~ExecutionNeedsRecovery(r) /\ r.status = "waiting_for_apply"
  /\ \E n \in PlannedNodes(r) : HasBundle(r, i, n) /\ r.plan[n] \in expired
  /\ \/ /\ Put(i, Terminal(r, "expired"))
        /\ UNCHANGED <<faults, pc>>
     \/ /\ faults > 0 /\ faults' = faults - 1
        /\ UNCHANGED store \/ Put(i, Terminal(r, "expired"))
        /\ Goto(p, "release")
  /\ UNCHANGED <<bundles, lock, cmd, todo, session, work, ghost, env>>

\* A listed record, or the bundle of a paused execution, cannot be read.
Unreadable(i) ==
  LET r == store[i].rec IN
  Exists(i) =>
    /\ ~ExecutionNeedsRecovery(r) /\ r.status = "waiting_for_apply"
    /\ \E n \in PlannedNodes(r) : ~HasBundle(r, i, n)

PruneError(p, i) ==
  /\ pc[p] = "prune" /\ i \in todo[p] /\ Unreadable(i)
  /\ Goto(p, "release")
  /\ UNCHANGED <<object, bundles, lock, cmd, todo, session, work, ghost, env>>

\* cleanupExecution: bundle by bundle, so an error leaves some behind.
Others(r) == {b \in bundles : b.plan \notin BundlesOf(r)}

CleanupOK(r) == bundles' = Others(r) /\ UNCHANGED faults

CleanupErr(r) ==
  /\ faults > 0 /\ faults' = faults - 1
  /\ \E kept \in SUBSET (bundles \ Others(r)) : bundles' = Others(r) \cup kept

\* A settled record: its bundles go first, then, past its retention, the
\* record itself, whose removal can fail with or without effect.
PruneBundles(p, i) ==
  LET r == store[i].rec IN
  /\ pc[p] = "prune" /\ i \in todo[p] /\ Exists(i) /\ Settled(r)
  /\ bundles # Others(r)
  /\ \/ CleanupOK(r) /\ UNCHANGED pc
     \/ CleanupErr(r) /\ Goto(p, "release")
  /\ UNCHANGED <<store, lock, cmd, todo, session, work, ghost, env>>

\* Mutant: the record goes before its bundles.
PruneRecordFirst(p, i) ==
  /\ pc[p] = "prune" /\ i \in todo[p] /\ Exists(i) /\ Settled(store[i].rec)
  /\ store' = [store EXCEPT ![i] = [rev |-> NoRev, rec |-> NullRecord]]
  /\ Visited(p, i)
  /\ UNCHANGED <<faults, bundles, lock, pc, cmd, session, work, ghost, env>>

PruneRecord(p, i) ==
  LET r == store[i].rec IN
  /\ pc[p] = "prune" /\ i \in todo[p] /\ Exists(i) /\ Settled(r)
  /\ bundles = Others(r)
  /\ \/ UNCHANGED store
     \/ store' = [store EXCEPT ![i] = [rev |-> NoRev, rec |-> NullRecord]]
  /\ \/ Visited(p, i) /\ UNCHANGED <<faults, pc>>
     \/ /\ faults > 0 /\ faults' = faults - 1
        /\ Goto(p, "release") /\ UNCHANGED todo
  /\ UNCHANGED <<bundles, lock, cmd, session, work, ghost, env>>

PruneEnd(p) ==
  /\ pc[p] = "prune" /\ todo[p] = {}
  /\ Goto(p, IF cmd[p] = "prune" THEN "release" ELSE "create")
  /\ UNCHANGED <<object, bundles, lock, cmd, todo, session, work, ghost, env>>

SelectionsOf(k) == IF k \in RunKinds THEN {{n} : n \in Nodes} ELSE Selections

Waiting(sel) == [n \in Nodes |-> IF n \in sel THEN "wait" ELSE "skipped"]

\* beginExecution's write of the new record.
CreateRecord(p) ==
  /\ pc[p] = "create"
  /\ \E i \in Ids \ used : \E sel \in SelectionsOf(cmd[p]) \ {{}} :
       LET new == NewRecord(cmd[p] = "save", sel) IN
       /\ used' = used \cup {i}
       /\ \/ /\ WriteOK(p, i, new)
             /\ sid' = [sid EXCEPT ![p] = i]
             /\ IF cmd[p] = "save"
                THEN Goto(p, "bind") /\ UNCHANGED work
                ELSE Goto(p, "run") /\ work' = [work EXCEPT ![p] = Waiting(sel)]
          \/ /\ WriteErr(p, i, new)
             /\ Goto(p, "release") /\ UNCHANGED <<sid, work>>
  /\ UNCHANGED <<bundles, lock, cmd, todo, ghost, expired, crashes, forced>>

\* The session a command opens on the record it read.
Open(p) ==
  /\ rec' = [rec EXCEPT ![p] = store[sid[p]].rec]
  /\ rev' = [rev EXCEPT ![p] = store[sid[p]].rev]

\* The store cannot be opened or the record cannot be read.
ReadError(p) ==
  /\ faults > 0 /\ faults' = faults - 1
  /\ Goto(p, "release") /\ UNCHANGED <<rec, rev>>

\* openSavedExecution and the checks that follow it in SavePlans and
\* ApplySavedPlans; a selection, a runtime or (apply) a graph binding that
\* changed stops the command before it is finalised.
OpenSavedExecution(p) ==
  LET i == sid[p]
      r == store[i].rec
      ok == /\ Exists(i) /\ r.saved /\ ~r.recovered
            /\ ~ExecutionNeedsRecovery(r) /\ Blocking(i) = {}
            /\ IF cmd[p] = "continue"
               THEN r.status \in {"preparing", "ready_for_next_plan"}
               ELSE r.status = "waiting_for_apply"
  IN
  /\ pc[p] = "locked" /\ cmd[p] \in ResumeKinds
  /\ \/ Goto(p, "release") /\ UNCHANGED <<rec, rev, work>>
     \/ /\ ok /\ Open(p)
        /\ IF cmd[p] = "continue"
           THEN Goto(p, "bind") /\ UNCHANGED work
           ELSE /\ Goto(p, "run")
                /\ work' = [work EXCEPT ![p] = Waiting(PlannedNodes(r))]
  /\ UNCHANGED <<object, bundles, lock, cmd, todo, sid, ghost, env>>

------------------------------------------------------------------------------
(* One node's worker, in the order its operation journals it.               *)

Step(p, n, w) == work' = [work EXCEPT ![p][n] = w]

\* Mutant: a failed publish does not stop the node.
TransitionUnchecked(p, n, phase, w) ==
  LET next == WithPhase(rec[p], n, phase) IN
  /\ WriteOK(p, sid[p], next) \/ WriteErr(p, sid[p], next)
  /\ Step(p, n, w)

\* executionSession.transition: publish the node's phase, then go on; a
\* failed publish ends the node.
Transition(p, n, phase, w) ==
  LET next == WithPhase(rec[p], n, phase) IN
  \/ WriteOK(p, sid[p], next) /\ Step(p, n, w)
  \/ WriteErr(p, sid[p], next) /\ Step(p, n, "failed")

\* The node fails without touching its recorded phase.
Fails(p, n) == NoWrite /\ Step(p, n, "failed")

workerFrame == <<lock, pc, cmd, sid, todo, used, expired, crashes, forced, orphans>>

\* Mutant: destroy walks the levels forwards.
EarlierForwards(p, n) == {m \in Selected(rec[p]) : Level[m] < Level[n]}

\* runLevels: level by level, backwards for destroy.
Earlier(p, n) ==
  {m \in Selected(rec[p]) : IF cmd[p] = "destroy" THEN Level[m] > Level[n]
                                                  ELSE Level[m] < Level[n]}

\* What a failure keeps from running: everything in later levels; for a plan
\* review only the failed node's dependents; for the saved commands, which
\* work one node at a time, every node still waiting.
Blockers(p, n) ==
  CASE cmd[p] = "review" -> Up[n] \cap Selected(rec[p])
    [] cmd[p] \in SavedKinds -> {m \in Nodes : work[p][m] = "failed"}
    [] OTHER -> Earlier(p, n)

Stopped(p, n) == \E m \in Blockers(p, n) : work[p][m] \in {"failed", "skipped"}

Ready(p, n) ==
  /\ pc[p] = "run" /\ work[p][n] = "wait"
  /\ IF cmd[p] \in SavedKinds
     THEN \A m \in Nodes : work[p][m] \in Ended \cup {"wait"}
     ELSE \A m \in Earlier(p, n) : work[p][m] \in Ended

SkipNode(p, n) ==
  /\ Ready(p, n) /\ Stopped(p, n)
  /\ Step(p, n, "skipped") /\ NoWrite
  /\ UNCHANGED <<bundles, starts, workerFrame>>

\* Up to the first transition.  Inputs, runtime checks, a cancelled context
\* or an unreadable or expired bundle end the node before it.
StartNode(p, n) ==
  /\ Ready(p, n) /\ ~Stopped(p, n)
  /\ \/ Fails(p, n)
     \/ /\ cmd[p] \notin {"run", "run_read"}
        /\ cmd[p] = "apply_saved" =>
             HasBundle(rec[p], sid[p], n) /\ rec[p].plan[n] \notin expired
        /\ Transition(p, n, "initializing", "init")
     \/ cmd[p] \in {"destroy", "run"} /\ Transition(p, n, "operating", "apply")
     \/ cmd[p] = "run_read" /\ Transition(p, n, "reading", "read")
  /\ UNCHANGED <<bundles, starts, workerFrame>>

\* The subprocess of init starts; or the hook refuses (ErrNotStarted).
RunInit(p, n) ==
  /\ pc[p] = "run" /\ work[p][n] = "init"
  /\ \/ Step(p, n, "initRun") /\ NoWrite
     \/ Hooks /\ Transition(p, n, "failed", "failed")
  /\ UNCHANGED <<bundles, starts, workerFrame>>

InitReturns(p, n) ==
  /\ pc[p] = "run" /\ work[p][n] = "initRun"
  /\ \/ CASE cmd[p] = "run_init"    -> Transition(p, n, "completed", "done")
          [] cmd[p] = "apply_saved" -> Transition(p, n, "planned", "planned")
          [] OTHER                  -> Transition(p, n, "preparing", "prepared")
     \/ Transition(p, n, "indeterminate", "failed")
  /\ UNCHANGED <<bundles, starts, workerFrame>>

ReadReturns(p, n) ==
  /\ pc[p] = "run" /\ work[p][n] = "read"
  /\ \/ Transition(p, n, "completed", "done")
     \/ Transition(p, n, "failed", "failed")
  /\ UNCHANGED <<bundles, starts, workerFrame>>

\* After the plan: it failed or was refused; the operation was only a plan,
\* or there is nothing to change; or the mutation is admitted and journaled.
PlanReturns(p, n) ==
  /\ pc[p] = "run" /\ work[p][n] = "prepared"
  /\ \/ Fails(p, n)
     \/ cmd[p] \in {"plan", "review", "apply"} /\ Transition(p, n, "completed", "done")
     \/ cmd[p] = "apply" /\ Transition(p, n, "applying", "apply")
     \/ cmd[p] = "destroy" /\ Transition(p, n, "operating", "apply")
  /\ UNCHANGED <<bundles, starts, workerFrame>>

PlansInUse ==
  {b.plan : b \in bundles} \cup (UNION {BundlesOf(store[i].rec) : i \in Ids})
  \cup (UNION {BundlesOf(rec[q]) : q \in Procs})

NewPlan == CHOOSE k \in PlanIds : k \notin PlansInUse

\* Mutant: the node is published as planned before its bundle is stored.
RetainPlanPublishFirst(p, n) ==
  /\ pc[p] = "run" /\ work[p][n] = "prepared"
  /\ cmd[p] \in {"retain", "save", "continue"}
  /\ \E k \in PlanIds : k \notin PlansInUse
  /\ WriteOK(p, sid[p], WithPlan(rec[p], n, NewPlan))
  /\ \/ /\ Step(p, n, "failed")
        /\ UNCHANGED <<bundles, expired>>
     \/ /\ bundles' = bundles \cup
             {[plan |-> NewPlan, exec |-> sid[p], node |-> n]}
        /\ expired' = expired \ {NewPlan}
        /\ Step(p, n, IF cmd[p] = "retain" THEN "planned" ELSE "review")
  /\ UNCHANGED <<lock, pc, cmd, sid, todo, used, crashes, forced, orphans, starts>>

\* retainPlan: store the bundle, then publish the node as planned.  When the
\* second write fails, or the process dies before it, the bundle is orphaned.
RetainPlan(p, n) ==
  /\ pc[p] = "run" /\ work[p][n] = "prepared"
  /\ cmd[p] \in {"retain", "save", "continue"}
  /\ \E k \in PlanIds : k \notin PlansInUse
  /\ \/ /\ faults > 0 /\ faults' = faults - 1
        /\ Step(p, n, "failed")
        /\ UNCHANGED <<store, rec, rev, bundles, expired>>
     \/ LET next == WithPlan(rec[p], n, NewPlan) IN
        /\ bundles' = bundles \cup
             {[plan |-> NewPlan, exec |-> sid[p], node |-> n]}
        /\ expired' = expired \ {NewPlan}
        /\ \/ /\ WriteOK(p, sid[p], next)
              /\ Step(p, n, IF cmd[p] = "retain" THEN "planned" ELSE "review")
           \/ WriteErr(p, sid[p], next) /\ Step(p, n, "failed")
  /\ UNCHANGED <<lock, pc, cmd, sid, todo, used, crashes, forced, orphans, starts>>

\* setReview publishes the change summary of a saved plan.
SetReview(p, n) ==
  /\ pc[p] = "run" /\ work[p][n] = "review"
  /\ \/ WriteOK(p, sid[p], rec[p]) /\ Step(p, n, "done")
     \/ WriteErr(p, sid[p], rec[p]) /\ Step(p, n, "failed")
  /\ UNCHANGED <<bundles, starts, workerFrame>>

\* applyPreparedPlan for a retained plan.  A saved plan is applied even when
\* it changes nothing (verifyUnchanged).
AdmitPlan(p, n) ==
  /\ pc[p] = "run" /\ work[p][n] = "planned"
  /\ \/ Fails(p, n)
     \/ cmd[p] = "retain" /\ Transition(p, n, "completed", "done")
     \/ Transition(p, n, "applying", "apply")
  /\ UNCHANGED <<bundles, starts, workerFrame>>

\* The mutating subprocess starts; or the hook refuses.
RunMutation(p, n) ==
  /\ pc[p] = "run" /\ work[p][n] = "apply"
  /\ \/ /\ Step(p, n, "applyRun") /\ NoWrite
        /\ starts' = [starts EXCEPT ![sid[p]][n] = @ + 1]
     \/ Hooks /\ Transition(p, n, "failed", "failed") /\ UNCHANGED starts
  /\ UNCHANGED <<bundles, workerFrame>>

\* It returns; the state backup of a run command may then fail to persist.
MutationReturns(p, n) ==
  /\ pc[p] = "run" /\ work[p][n] = "applyRun"
  /\ \/ IF cmd[p] \in {"destroy", "run"}
        THEN Transition(p, n, "completed", "done")
        ELSE Transition(p, n, "applied", "collect")
     \/ Transition(p, n, "indeterminate", "failed")
     \/ cmd[p] = "run" /\ Fails(p, n)
  /\ UNCHANGED <<bundles, starts, workerFrame>>

\* Outputs, output contracts, snapshot.
CollectOutputs(p, n) ==
  /\ pc[p] = "run" /\ work[p][n] = "collect"
  /\ \/ Fails(p, n)
     \/ Transition(p, n, "completed", "done")
  /\ UNCHANGED <<bundles, starts, workerFrame>>

------------------------------------------------------------------------------
(* The end of a command.                                                    *)

\* Mutant: a failed publish is tried again until it succeeds.
PublishRetried(p, next, l, e) ==
  \/ WriteOK(p, sid[p], next) /\ Goto(p, l)
  \/ WriteErr(p, sid[p], next) /\ UNCHANGED pc

\* Publish, then go to l, or to e when it reports an error.
Publish(p, next, l, e) ==
  \/ WriteOK(p, sid[p], next) /\ Goto(p, l)
  \/ WriteErr(p, sid[p], next) /\ Goto(p, e)

AllEnded(p) == \A n \in Nodes : work[p][n] \in Ended

endFrame == <<bundles, lock, cmd, sid, work, todo, ghost, env>>

\* finish, for the commands that own their record.
Finish(p) ==
  LET ok == \A n \in Selected(rec[p]) : work[p][n] = "done" IN
  /\ pc[p] = "run" /\ cmd[p] \in BeginKinds \ SavedKinds /\ AllEnded(p)
  /\ Publish(p, Finished(rec[p], ok), "clean", "release")
  /\ UNCHANGED endFrame

\* SavePlans computes the graph binding, which may have changed, publishes
\* it, then computes its frontier; an empty one is an error.
BindGraph(p) ==
  LET f == Frontier(rec[p]) IN
  /\ pc[p] = "bind"
  /\ \/ NoWrite /\ Goto(p, "finish_saved")
     \/ Publish(p, rec[p], IF f = {} THEN "finish_saved" ELSE "run", "finish_saved")
  /\ work' = [work EXCEPT ![p] = Waiting(f)]
  /\ UNCHANGED <<bundles, lock, cmd, sid, todo, ghost, env>>

\* The frontier is planned, or every planned node applied.
SavedStepDone(p) ==
  /\ pc[p] = "run" /\ cmd[p] \in SavedKinds /\ AllEnded(p)
  /\ \A n \in Nodes : work[p][n] # "failed"
  /\ Publish(p, IF cmd[p] = "apply_saved" THEN AppliedSaved(rec[p])
                ELSE [rec[p] EXCEPT !.status = "waiting_for_apply"],
             "clean", "finish_saved")
  /\ UNCHANGED endFrame

\* A node failed: noteSavedFailure publishes its code, whatever the outcome
\* finishSaved follows.
NoteSavedFailure(p) ==
  /\ pc[p] = "run" /\ cmd[p] \in SavedKinds /\ AllEnded(p)
  /\ \E n \in Nodes : work[p][n] = "failed"
  /\ Publish(p, rec[p], "finish_saved", "finish_saved")
  /\ UNCHANGED endFrame

\* finishSaved; its early return for a finished record needs plugin teardown.
FinishSaved(p) ==
  /\ pc[p] = "finish_saved"
  /\ Publish(p, FinishedSaved(rec[p], FALSE), "clean", "release")
  /\ UNCHANGED endFrame

\* cleanupExecution on the session's record; its errors are only logged.
CleanupExecution(p) ==
  /\ pc[p] = "clean"
  /\ IF Settled(rec[p]) THEN CleanupOK(rec[p]) \/ CleanupErr(rec[p])
                        ELSE UNCHANGED <<bundles, faults>>
  /\ Goto(p, "release")
  /\ UNCHANGED <<store, lock, cmd, session, work, todo, ghost, env>>

Forget(p) ==
  /\ pc' = [pc EXCEPT ![p] = "idle"]
  /\ cmd' = [cmd EXCEPT ![p] = "none"]
  /\ sid' = [sid EXCEPT ![p] = NoId]
  /\ rec' = [rec EXCEPT ![p] = NullRecord]
  /\ rev' = [rev EXCEPT ![p] = NoRev]
  /\ work' = [work EXCEPT ![p] = NoWork]
  /\ todo' = [todo EXCEPT ![p] = {}]

\* The locks are released last; a lock that was broken and taken over by
\* another process is left to it (If-Match on the lock object).
Release(p) ==
  /\ pc[p] = "release"
  /\ lock' = IF lock = p THEN NoProc ELSE lock
  /\ Forget(p)
  /\ UNCHANGED <<object, bundles, ghost, env>>

------------------------------------------------------------------------------
(* Recovery and cancellation.                                               *)

\* The operator's --confirm-stopped is taken to be true when the record is
\* read: nothing else works on the execution any more.
ConfirmedStopped(p, i) ==
  /\ \A q \in Procs \ {p} : sid[q] # i
  /\ \A o \in orphans : o.exec # i

\* Mutant: an interrupted apply is taken for a finished one.
RecoverableApplying(r) == {n \in Nodes : r.phase[n] \in {"applying", "applied"}}

\* The nodes whose mutation is over and whose outputs can be read again.
Recoverable(r) == {n \in Nodes : r.phase[n] = "applied"}

\* RecoverExecution's checks; the output path collects node by node.
OpenRecovery(p) ==
  LET r == store[sid[p]].rec
      ok == /\ Exists(sid[p]) /\ ExecutionNeedsRecovery(r)
            /\ ConfirmedStopped(p, sid[p])
  IN
  /\ pc[p] = "locked" /\ cmd[p] \in RecoverKinds
  /\ IF ok
     THEN \/ /\ Open(p)
             /\ Goto(p, cmd[p])
             /\ work' = [work EXCEPT ![p] = IF cmd[p] = "replan" THEN NoWork
                           ELSE Waiting(Recoverable(r))]
             /\ UNCHANGED faults
          \/ ReadError(p) /\ UNCHANGED work
     ELSE Goto(p, "release") /\ UNCHANGED <<rec, rev, work, faults>>
  /\ UNCHANGED <<store, bundles, lock, cmd, sid, todo, ghost, env>>

Replan(p) ==
  /\ pc[p] = "replan"
  /\ Publish(p, Recovered(rec[p]), "release", "release")
  /\ UNCHANGED endFrame

\* recoverNodeOutputs up to its init: the backend is read-only, or its
\* initialisation is journaled in Preparation first.
RecoverNode(p, n) ==
  /\ pc[p] = "recover" /\ work[p][n] = "wait"
  /\ \A m \in Nodes : work[p][m] \in Ended \cup {"wait"}
  /\ \/ Fails(p, n)
     \/ Step(p, n, "collect") /\ NoWrite
     \/ /\ ~rec[p].prep
        /\ LET next == [rec[p] EXCEPT !.prep = TRUE] IN
           \/ WriteOK(p, sid[p], next) /\ Step(p, n, "init")
           \/ WriteErr(p, sid[p], next) /\ Step(p, n, "failed")
  /\ UNCHANGED <<bundles, starts, workerFrame>>

\* The isolated init runs and returns; Preparation is cleared on success.
RecoverInit(p, n) ==
  /\ pc[p] = "recover"
  /\ \/ work[p][n] = "init" /\ Step(p, n, "initRun") /\ NoWrite
     \/ work[p][n] = "init" /\ Hooks /\ Fails(p, n)
     \/ work[p][n] = "initRun" /\ Fails(p, n)
     \/ /\ work[p][n] = "initRun"
        /\ LET next == [rec[p] EXCEPT !.prep = FALSE] IN
           \/ WriteOK(p, sid[p], next) /\ Step(p, n, "collect")
           \/ WriteErr(p, sid[p], next) /\ Step(p, n, "failed")
  /\ UNCHANGED <<bundles, starts, workerFrame>>

\* Outputs are collected again; a failed publish ends the whole command.
RecoverOutputs(p, n) ==
  LET next == WithPhase(rec[p], n, "completed") IN
  /\ pc[p] = "recover" /\ work[p][n] = "collect"
  /\ \/ Fails(p, n) /\ UNCHANGED pc
     \/ WriteOK(p, sid[p], next) /\ Step(p, n, "done") /\ UNCHANGED pc
     \/ WriteErr(p, sid[p], next) /\ Goto(p, "release") /\ UNCHANGED work
  /\ UNCHANGED <<bundles, lock, cmd, sid, todo, ghost, env>>

\* With nothing left unexplained the record is retired.
RecoverEnd(p) ==
  LET issues == \/ rec[p].prep
                \/ \E n \in Nodes : \/ work[p][n] = "failed"
                                    \/ rec[p].phase[n] \in Unresolved \ {"applied"}
  IN
  /\ pc[p] = "recover" /\ AllEnded(p)
  /\ IF issues THEN NoWrite /\ Goto(p, "release")
               ELSE Publish(p, Recovered(rec[p]), "release", "release")
  /\ UNCHANGED endFrame

\* Mutant: a finished record is cancelled again.
CancelsFinished(r) == "cancel"

\* A finished record only has its cleanup repeated.
AfterOpenCancel(r) == IF r.finished THEN "clean" ELSE "cancel"

OpenCancel(p) ==
  LET r == store[sid[p]].rec IN
  /\ pc[p] = "locked" /\ cmd[p] = "cancel"
  /\ IF Exists(sid[p]) /\ ~ExecutionNeedsRecovery(r)
     THEN \/ /\ Open(p)
             /\ Goto(p, AfterOpenCancel(r))
             /\ UNCHANGED faults
          \/ ReadError(p)
     ELSE Goto(p, "release") /\ UNCHANGED <<rec, rev, faults>>
  /\ UNCHANGED <<store, bundles, lock, cmd, sid, work, todo, ghost, env>>

CancelExecution(p) ==
  /\ pc[p] = "cancel"
  /\ Publish(p, Terminal(rec[p], "cancelled"), "clean", "release")
  /\ UNCHANGED endFrame

------------------------------------------------------------------------------
(* The environment.                                                         *)

Running(p) == {n \in Nodes : work[p][n] \in {"initRun", "applyRun"}}

\* The process dies (SIGKILL, power).  Its subprocesses live on.
Crash(p) ==
  /\ pc[p] # "idle" /\ crashes > 0
  /\ crashes' = crashes - 1
  /\ orphans' = orphans \cup {[exec |-> sid[p], node |-> n] : n \in Running(p)}
  /\ Forget(p)
  /\ UNCHANGED <<object, bundles, lock, starts, used, expired, forced>>

OrphanExits ==
  /\ \E o \in orphans : orphans' = orphans \ {o}
  /\ UNCHANGED <<object, bundles, control, session, work, starts, env>>

\* The lock of a dead process goes: the kernel drops the run lock, an
\* operator force-unlocks the graph lock.  forced counts the times one is
\* broken while its holder still works.
Unlock ==
  /\ lock # NoProc
  /\ \/ pc[lock] = "idle" /\ UNCHANGED forced
     \/ pc[lock] # "idle" /\ forced > 0 /\ forced' = forced - 1
  /\ lock' = NoProc
  /\ UNCHANGED <<object, bundles, pc, cmd, todo, session, work, ghost, used,
                 expired, crashes>>

PlanExpires ==
  /\ \E b \in bundles : b.plan \notin expired /\ expired' = expired \cup {b.plan}
  /\ UNCHANGED <<object, bundles, control, session, work, ghost, used, crashes,
                 forced>>

WorkerStep(p, n) ==
  \/ SkipNode(p, n) \/ StartNode(p, n) \/ RunInit(p, n) \/ InitReturns(p, n)
  \/ ReadReturns(p, n) \/ PlanReturns(p, n) \/ RetainPlan(p, n)
  \/ SetReview(p, n) \/ AdmitPlan(p, n) \/ RunMutation(p, n)
  \/ MutationReturns(p, n) \/ CollectOutputs(p, n) \/ RecoverNode(p, n)
  \/ RecoverInit(p, n) \/ RecoverOutputs(p, n)

PruneStep(p) ==
  \/ \E i \in Ids : \/ PruneSkip(p, i) \/ PruneExpire(p, i)
                    \/ PruneError(p, i) \/ PruneBundles(p, i)
                    \/ PruneRecord(p, i)
  \/ PruneEnd(p)

CommandStep(p) ==
  \/ CheckExecutionBarrier(p) \/ PruneStep(p) \/ CreateRecord(p)
  \/ OpenSavedExecution(p) \/ BindGraph(p) \/ Finish(p) \/ SavedStepDone(p)
  \/ NoteSavedFailure(p) \/ FinishSaved(p) \/ CleanupExecution(p) \/ Release(p)
  \/ OpenRecovery(p) \/ Replan(p) \/ RecoverEnd(p) \/ OpenCancel(p)
  \/ CancelExecution(p) \/ \E n \in Nodes : WorkerStep(p, n)

Environment ==
  \/ \E p \in Procs : Crash(p)
  \/ OrphanExits \/ Unlock \/ PlanExpires

Next ==
  \/ \E p \in Procs : \/ CommandStep(p)
                      \/ \E k \in Kinds, i \in Ids \cup {NoId} : Acquire(p, k, i)
  \/ Environment

Spec == Init /\ [][Next]_vars

------------------------------------------------------------------------------
(* What the protocol promises.                                              *)

\* The subprocesses alive, whoever still watches them.
LiveRuntime ==
  orphans \cup UNION {{[exec |-> sid[p], node |-> n] : n \in Running(p)} : p \in Procs}

\* While an init, apply, destroy or state command can still change
\* infrastructure, the stored record of its execution blocks new work: the
\* phase is published before the command starts and nothing resolves it
\* before the command is known to be over.
RuntimeJournaled ==
  \A o \in LiveRuntime : Exists(o.exec) /\ ExecutionNeedsRecovery(store[o.exec].rec)

\* No execution starts the mutating command of a node twice: not after a
\* crash, not after a write whose outcome was lost, not by resuming, and not
\* from two processes that both believe they hold the lock.
NoReplay == \A i \in Ids, n \in Nodes : starts[i][n] <= 1

\* A session holding the current revision holds the current record: a
\* compare-and-swap that succeeds overwrites nothing the writer has not seen.
SessionCurrent ==
  \A p \in Procs :
    sid[p] # NoId /\ rev[p] # NoRev /\ store[sid[p]].rev = rev[p]
      => store[sid[p]].rec = rec[p]

\* At most one execution is unresolved: the barrier admits no second one.
OneUnresolved ==
  \A i, j \in Ids : ExecutionNeedsRecovery(store[i].rec)
                    /\ ExecutionNeedsRecovery(store[j].rec) => i = j

\* A mutation is only journaled once every selected dependency (for destroy:
\* every selected dependent) is recorded as completed.
DependencyOrder ==
  \A p \in Procs, n \in Nodes :
    work[p][n] \in {"apply", "applyRun"} =>
      LET r == store[sid[p]].rec IN
      \A m \in Selected(r) :
        m \in (IF cmd[p] = "destroy" THEN {d \in Nodes : n \in Up[d]} ELSE Up[n])
          => r.phase[m] = "completed"

\* An execution waiting for apply still has the bundle of every planned node:
\* only settled records lose theirs, and the plan is stored before the phase.
WaitingPlansKept ==
  \A i \in Ids :
    Exists(i) /\ ~store[i].rec.finished =>
      \A n \in PlannedNodes(store[i].rec) : HasBundle(store[i].rec, i, n)

\* A finished, resolved record keeps its outcome until it is deleted.
SettledIsFinal ==
  [][\A i \in Ids : Exists(i) /\ Settled(store[i].rec)
       => store'[i].rev = NoRev \/ store'[i].rec = store[i].rec]_vars

\* An outcome nobody observed is never relabelled: once no live command works
\* on an execution, a phase that leaves a mutation unknown stays as recorded.
UnknownStaysUnknown ==
  [][\A i \in Ids :
       (\A p \in Procs : sid[p] = i => pc[p] # "run") =>
         \A n \in Nodes :
           store[i].rec.phase[n] \in Unresolved \ {"applied"} =>
             \/ store'[i].rev = NoRev
             \/ store'[i].rec.phase[n] = store[i].rec.phase[n]]_vars

\* A bundle its record refers to is deleted only once that record is settled,
\* and a record is deleted only after its bundles.
EvidenceKept ==
  [][\A i \in Ids : Exists(i) =>
       LET r == store[i].rec
           Mine(s) == {b \in s : b.exec = i /\ b.plan \in BundlesOf(r)} IN
       /\ ~Settled(r) => Mine(bundles) \subseteq bundles'
       /\ store'[i].rev = NoRev => Mine(bundles') = {}]_vars

------------------------------------------------------------------------------
(* What docs/executions.md says and the code does not do.                   *)

\* docs/executions.md:113, "unapplied plans remain available": a saved plan
\* whose node failed before its mutation started is still planned.  The code
\* records a refused hook (ErrNotStarted) as phase failed, which no retry
\* picks up.
UnappliedPlanStaysAvailable ==
  \A i \in Ids, n \in Nodes :
    Exists(i) /\ store[i].rec.saved /\ store[i].rec.plan[n] # NoPlan
    /\ starts[i][n] = 0 => store[i].rec.phase[n] # "failed"

------------------------------------------------------------------------------
(* Progress.                                                                *)

\* Processes are scheduled, subprocesses end, and the lock of a dead process
\* is freed.
Fairness ==
  /\ \A p \in Procs : WF_vars(CommandStep(p))
  /\ WF_vars(OrphanExits)
  /\ WF_vars(Unlock /\ pc[lock] = "idle")

\* The operator keeps answering an unresolved execution with --replan.
Replans ==
  \A i \in Ids : SF_vars(\E p \in Procs : Acquire(p, "replan", i))

\* The operator keeps alternating --continue and apply --plan, and what can
\* be refused without a trace (inputs, plan, approval) is not refused forever.
Persists ==
  \A p \in Procs :
    /\ \A i \in Ids, k \in ResumeKinds : SF_vars(Acquire(p, k, i))
    /\ SF_vars(OpenSavedExecution(p) /\ pc'[p] \in {"bind", "run"})
    /\ SF_vars(BindGraph(p) /\ pc'[p] = "run")
    /\ \A n \in Nodes :
         /\ SF_vars(StartNode(p, n) /\ work'[p][n] = "init")
         /\ SF_vars(RetainPlan(p, n) /\ work'[p][n] = "review")
         /\ SF_vars(AdmitPlan(p, n) /\ work'[p][n] = "apply")

RecoverySpec == Spec /\ Fairness /\ Replans
SavedSpec == Spec /\ Fairness /\ Persists

\* Every command ends: no publish error, refused barrier, failed or skipped
\* node leaves a process waiting with the locks held.
CommandsEnd == \A p \in Procs : pc[p] # "idle" ~> pc[p] = "idle"

\* An unresolved execution does not stay so: whatever crash or lost write
\* left it behind, --replan gets through the locks and retires it.
RecoveryResolves ==
  \A i \in Ids : ExecutionNeedsRecovery(store[i].rec)
                   ~> ~ExecutionNeedsRecovery(store[i].rec)

\* A saved execution whose operator keeps repeating continue and apply gets
\* every node completed, or needs recovery, or lets a plan expire: no
\* interrupted command leaves it in a status or phase that both commands refuse.
SavedCompletes ==
  \A i \in Ids :
    Exists(i) /\ store[i].rec.saved ~>
      \/ AllCompleted(store[i].rec)
      \/ ExecutionNeedsRecovery(store[i].rec)
      \/ ~Exists(i) \/ expired # {}
==============================================================================

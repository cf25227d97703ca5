------------------------ MODULE ExecutionOrderProofs -------------------------
(***************************************************************************)
(* What may run when: within an execution no mutation runs before the      *)
(* nodes it depends on (DependencyOrder), and among executions none while  *)
(* another is unresolved (OneUnresolved).                                  *)
(*                                                                         *)
(* DependencyOrder compares the work of a session with the stored record.  *)
(* The invariant Ordered connects them: in the session a node works only   *)
(* when the levels before it are done, or in a saved execution when its    *)
(* upstreams are completed (OrderSession); a session and the store have the*)
(* same nodes (SessionKind); and what was done is in the store before the  *)
(* mutation is (Cleared).  A saved execution outlives its sessions, so the *)
(* order must also hold in the record itself (InOrder).                    *)
(***************************************************************************)
EXTENDS ExecutionProofs

------------------------------------------------------------------------------
(* The order of mutations.                                                  *)

Upstream(r, n) == \A u \in Up[n] : r.phase[u] \in {"absent", "completed"}

\* In a saved execution nothing leaves pending before its dependencies are
\* completed.
InOrder(r) ==
  r.saved => \A n \in Nodes : r.phase[n] \notin {"absent", "pending"} => Upstream(r, n)

\* Neither the operation nor the selection of an execution changes.
SameNodes(r, x) == x.saved = r.saved /\ Selected(x) = Selected(r)

MutationWork == {"apply", "applyRun"}

\* What a session's own state says: saved commands only work on nodes whose
\* dependencies are completed, level by level commands on nodes whose earlier
\* levels are done, and a node is done once its phase is completed.
OrderSession(p) ==
  /\ InOrder(rec[p])
  /\ pc[p] = "prune" => cmd[p] \in BeginKinds \cup {"prune"}
  /\ pc[p] = "create" => cmd[p] \in BeginKinds
  /\ pc[p] \in {"bind", "run"} => (rec[p].saved <=> cmd[p] \in SavedKinds)
  /\ pc[p] = "run" /\ cmd[p] \in SavedKinds =>
       \A n \in Nodes : work[p][n] # "skipped" => Upstream(rec[p], n)
  /\ pc[p] = "run" /\ cmd[p] \in LevelKinds => \A n \in Nodes :
       /\ work[p][n] \notin {"wait", "skipped", "failed"} =>
            \A m \in Earlier(p, n) : work[p][m] = "done"
       /\ work[p][n] = "done" => rec[p].phase[n] = "completed"
  /\ \A n \in Nodes :
       /\ work[p][n] \in {"planned"} \cup MutationWork =>
            cmd[p] \in LevelKinds \cup {"apply_saved"}
       /\ work[p][n] = "review" => cmd[p] \in {"save", "continue"}

\* The session and the store agree on what is being executed, ...
SessionKind(p) ==
  pc[p] \in Active /\ Exists(sid[p]) => SameNodes(rec[p], store[sid[p]].rec)

\* ... and while a mutation runs the store has the earlier levels completed.
Cleared(p) ==
  \A n \in Nodes :
    work[p][n] \in MutationWork /\ cmd[p] \in LevelKinds =>
      \A m \in Earlier(p, n) : store[sid[p]].rec.phase[m] = "completed"

Ordered == /\ \A i \in Ids : InOrder(store[i].rec)
           /\ \A p \in Procs : OrderSession(p) /\ SessionKind(p) /\ Cleared(p)

\* The earlier levels of a node depend only on the command and the selection.
LEMMA EarlierSame ==
  ASSUME NEW p, NEW n, Selected(rec'[p]) = Selected(rec[p]), cmd'[p] = cmd[p]
  PROVE  Earlier(p, n)' = Earlier(p, n)
<1>1. Selected(rec[p])' = Selected(rec'[p])
  BY Zenon DEF Selected
<1>2. QED
  BY Zenon, <1>1 DEF Earlier

\* No object changes its operation or its selection, and none is created
\* under an ID that a session may know.
KindsKept ==
  \A i \in Ids : store'[i].rev # NoRev =>
    \/ Exists(i) /\ SameNodes(store[i].rec, store'[i].rec)
    \/ i \notin used

\* What others mutate is not written to.
OwnedKept(p) ==
  \A q \in Procs, n \in Nodes :
    q # p /\ work[q][n] \in OwnWork => store'[sid[q]] = store[sid[q]]

\* A step of p keeps Ordered if it keeps what Ordered says of p and of the store.
LEMMA OrderedFrom ==
  ASSUME Shape, Safe, Ordered, NEW p \in Procs, OthersStay(p), KindsKept, OwnedKept(p),
         \A q \in Procs : q # p => rec'[q] = rec[q] /\ sid'[q] = sid[q] /\ cmd'[q] = cmd[q],
         \A i \in Ids : InOrder(store'[i].rec),
         OrderSession(p)', SessionKind(p)', Cleared(p)'
  PROVE  Ordered'
<1>1. \A i \in Ids : InOrder(store[i].rec)'
  BY Zenon DEF InOrder, Upstream
<1>2. SUFFICES ASSUME NEW q \in Procs, q # p
               PROVE  OrderSession(q)' /\ SessionKind(q)' /\ Cleared(q)'
  BY Zenon, <1>1 DEF Ordered
<1>3. /\ pc'[q] = pc[q] /\ work'[q] = work[q] /\ rec'[q] = rec[q]
      /\ sid'[q] = sid[q] /\ cmd'[q] = cmd[q]
  BY Zenon, <1>2 DEF OthersStay
<1>4. OrderSession(q) /\ SessionKind(q) /\ Cleared(q)
  BY Zenon DEF Ordered
<1>5. \A n \in Nodes : Earlier(q, n)' = Earlier(q, n)
  BY ZenonT(60), <1>3, EarlierSame
<1>6. OrderSession(q)'
  <2>1. InOrder(rec[q])'
    BY ZenonT(60), <1>3, <1>4 DEF OrderSession, InOrder, Upstream
  <2>2. \A n \in Nodes : Upstream(rec[q], n)' <=> Upstream(rec[q], n)
    BY Zenon, <1>3 DEF Upstream
  <2>3. QED
    BY SMTT(30), Z3T(30), <2>1, <2>2, <1>3, <1>4, <1>5 DEF OrderSession
<1>7. SessionKind(q)'
  <2>1. ASSUME pc[q] \in Active, store'[sid[q]].rev # NoRev
        PROVE  SameNodes(rec[q], store'[sid[q]].rec)
    <3>1. sid[q] \in Ids /\ sid[q] \in used
      BY Zenon, <2>1 DEF Shape, Control, SessionNamed, Safe, UsedIds
    <3>2. Exists(sid[q]) /\ SameNodes(store[sid[q]].rec, store'[sid[q]].rec)
      BY Zenon, <2>1, <3>1 DEF KindsKept
    <3>3. QED
      BY Zenon, <1>4, <2>1, <3>2 DEF SessionKind, SameNodes
  <2>2. QED
    BY ZenonT(90), SMTT(60), <1>3, <2>1 DEF SessionKind, Exists, SameNodes, Selected
<1>8. Cleared(q)'
  <2>1. ASSUME NEW n \in Nodes, work[q][n] \in MutationWork PROVE store'[sid[q]] = store[sid[q]]
    BY Zenon, <1>2, <2>1 DEF OwnedKept, OwnWork, MutationWork
  <2>2. SUFFICES ASSUME NEW n \in Nodes, work[q][n] \in MutationWork, cmd[q] \in LevelKinds,
                        NEW m \in Earlier(q, n)
                 PROVE  store'[sid[q]].rec.phase[m] = "completed"
    BY ZenonT(90), SMTT(60), <1>3, <1>5 DEF Cleared
  <2>3. store[sid[q]].rec.phase[m] = "completed"
    BY Zenon, <1>4, <2>2 DEF Cleared
  <2>4. QED
    BY Zenon, <2>1, <2>2, <2>3
<1>9. QED
  BY ZenonT(60), <1>6, <1>7, <1>8

\* A session that does not run has little to keep.
LEMMA Resting ==
  ASSUME Shape', NEW p \in Procs, pc'[p] # "run", InOrder(rec'[p]),
         pc'[p] = "bind" => (rec'[p].saved <=> cmd'[p] \in SavedKinds),
         pc'[p] = "prune" => cmd'[p] \in BeginKinds \cup {"prune"},
         pc'[p] = "create" => cmd'[p] \in BeginKinds
  PROVE  OrderSession(p)' /\ Cleared(p)'
<1>1. \A n \in Nodes : work'[p][n] \notin RunWork
  BY Zenon DEF Shape, Control, WorkPlaced
<1>2. \A n \in Nodes : /\ work'[p][n] \notin {"planned"} \cup MutationWork
                       /\ work'[p][n] # "review"
  BY SMTT(30), Z3T(30), <1>1 DEF RunWork, MutationWork
<1>3. InOrder(rec[p])'
  BY Zenon DEF InOrder, Upstream
<1>4. pc'[p] \in {"bind", "run"} => pc'[p] = "bind"
  BY Zenon
<1>5. OrderSession(p)'
  BY ZenonT(60), <1>2, <1>3, <1>4 DEF OrderSession
<1>6. Cleared(p)'
  BY Zenon, <1>2 DEF Cleared
<1>7. QED
  BY Zenon, <1>5, <1>6

\* A session that starts to run: the nodes of sel wait.
LEMMA Starting ==
  ASSUME NEW p \in Procs, NEW sel, pc'[p] = "run", work'[p] = Waiting(sel), InOrder(rec'[p]),
         rec'[p].saved <=> cmd'[p] \in SavedKinds,
         cmd'[p] \in SavedKinds => \A n \in Nodes : n \in sel => Upstream(rec'[p], n)
  PROVE  OrderSession(p)' /\ Cleared(p)'
<1>1. \A n \in Nodes : /\ work'[p][n] \in {"wait", "skipped"}
                       /\ work'[p][n] # "skipped" => n \in sel
  BY Zenon DEF Waiting
<1>2. InOrder(rec[p])' /\ \A n \in Nodes : Upstream(rec'[p], n) => Upstream(rec[p], n)'
  BY Zenon DEF InOrder, Upstream
<1>3. \A n \in Nodes : /\ work'[p][n] \notin {"planned"} \cup MutationWork
                       /\ work'[p][n] # "review" /\ work'[p][n] # "done"
                       /\ work'[p][n] \in {"wait", "skipped", "failed"}
  BY Zenon, <1>1 DEF MutationWork
<1>4. pc'[p] # "prune" /\ pc'[p] # "create"
  BY Zenon
<1>5. OrderSession(p)'
  BY ZenonT(60), <1>1, <1>2, <1>3, <1>4 DEF OrderSession
<1>6. Cleared(p)'
  BY Zenon, <1>3 DEF Cleared
<1>7. QED
  BY ZenonT(60), <1>5, <1>6

\* A session that publishes a record of the same execution.
LEMMA PublishOrder ==
  ASSUME Shape, Safe, Ordered, NEW p \in Procs, pc[p] \in Active, NEW next, Wrote(p, next),
         SameNodes(rec[p], next), InOrder(next), UNCHANGED <<sid, cmd>>, OthersStay(p),
         OrderSession(p)', Cleared(p)'
  PROVE  Ordered'
<1>1. sid[p] \in Ids /\ rev[p] # NoRev
  BY Zenon DEF Shape, Control, SessionNamed, Safe, Revisions
<1>2. ASSUME store[sid[p]].rev = rev[p] PROVE store[sid[p]].rec = rec[p] /\ Exists(sid[p])
  BY ZenonT(60), <1>1, <1>2, SentinelAssumption DEF Safe, SessionCurrent, Exists
<1>3. \A i \in Ids :
        \/ store'[i] = store[i]
        \/ /\ i = sid[p] /\ store'[i].rec = next /\ store[i].rev = rev[p]
           /\ store[i].rec = rec[p] /\ Exists(i)
  BY Zenon, <1>2 DEF Wrote
<1>4. \A q \in Procs : q # p => rec'[q] = rec[q]
  BY Zenon DEF Wrote
<1>5. KindsKept
  BY Zenon, <1>3 DEF KindsKept, Exists, SameNodes
<1>6. OwnedKept(p)
  <2>1. SUFFICES ASSUME NEW q \in Procs, NEW n \in Nodes, q # p, work[q][n] \in OwnWork
                 PROVE  store'[sid[q]] = store[sid[q]]
    BY Zenon DEF OwnedKept
  <2>2. sid[q] \in Ids
    BY Zenon, <2>1, OwnerBlocks
  <2>3. sid[p] = sid[q] => rev[p] # store[sid[q]].rev
    BY Zenon, <2>1 DEF Safe, OwnerAlone
  <2>4. QED
    BY ZenonT(60), <1>3, <2>2, <2>3
<1>7. \A i \in Ids : InOrder(store'[i].rec)
  BY Zenon, <1>3 DEF Ordered
<1>8. SessionKind(p)'
  <2>1. SessionKind(p) /\ rec'[p] \in {rec[p], next}
    BY Zenon DEF Ordered, Wrote
  <2>2. store'[sid[p]].rev # NoRev => SameNodes(rec[p], store'[sid[p]].rec)
    BY ZenonT(60), <1>1, <1>3, <2>1 DEF SessionKind, Exists
  <2>3. store'[sid[p]].rev # NoRev => SameNodes(rec'[p], store'[sid[p]].rec)
    BY ZenonT(60), <2>1, <2>2 DEF SameNodes
  <2>4. QED
    BY Zenon, <2>3 DEF SessionKind, Exists, SameNodes, Selected
<1>9. QED
  BY ZenonT(60), <1>4, <1>5, <1>6, <1>7, <1>8, OrderedFrom

\* A node that still works is neither outside the selection nor completed.
LEMMA WorkingPhase ==
  ASSUME Shape, Safe, Lived, NEW p \in Procs, NEW n \in Nodes, pc[p] \in {"run", "recover"},
         work[p][n] \notin Ended, WorkerStep(p, n)
  PROVE  /\ rec[p].phase[n] \notin {"absent", "completed"}
         /\ pc[p] = "recover" => rec[p].phase[n] = "applied"
<1>1. CASE pc[p] = "run"
  <2>1. Fits(work[p][n], rec[p].phase[n])
    BY Zenon, <1>1 DEF Safe, SessionFits
  <2>2. work[p][n] \in Works
    BY ZenonT(90), SMTT(60) DEF Shape, TypeOK
  <2>3. QED
    BY Zenon, <1>1, <2>1, <2>2 DEF Fits, Works, Ended, InitWork
<1>2. CASE pc[p] = "recover"
  <2>1. work[p][n] \in Busy \cup {"wait"}
    BY Zenon, <1>2 DEF WorkerStep, SkipNode, StartNode, Ready, RunInit, InitReturns, ReadReturns,
       PlanReturns, RetainPlan, SetReview, AdmitPlan, RunMutation, MutationReturns,
       CollectOutputs, RecoverNode, RecoverInit, RecoverOutputs, Busy
  <2>2. rec[p].phase[n] = "applied"
    BY Zenon, <1>2, <2>1 DEF Lived, OpenSession
  <2>3. QED
    BY <2>2
<1>3. QED
  BY ZenonT(60), <1>1, <1>2

\* A change to one node that waits for nothing keeps the order.
LEMMA ChangeInOrder ==
  ASSUME NEW p, NEW n \in Nodes, NEW next, NodeChange(p, n, next), InOrder(rec[p]),
         rec[p].phase[n] \notin {"absent", "completed"},
         rec[p].saved => Upstream(rec[p], n)
  PROVE  /\ InOrder(next) /\ SameNodes(rec[p], next)
         /\ \A k \in Nodes : Upstream(rec[p], k) => Upstream(next, k)
<1>1. ASSUME NEW k \in Nodes, Upstream(rec[p], k) PROVE Upstream(next, k)
  <2>1. \A u \in Up[k] : u \in Nodes /\ u # n
    BY ZenonT(60), <1>1, GraphAssumption DEF Upstream
  <2>2. QED
    BY ZenonT(60), <1>1, <2>1 DEF Upstream, NodeChange
<1>2. InOrder(next)
  <2>1. SUFFICES ASSUME next.saved, NEW k \in Nodes, next.phase[k] \notin {"absent", "pending"}
                 PROVE  Upstream(rec[p], k)
    BY Zenon, <1>1 DEF InOrder
  <2>2. rec[p].saved
    BY ZenonT(60), <2>1 DEF NodeChange
  <2>3. CASE k = n
    BY ZenonT(60), <2>2, <2>3
  <2>4. CASE k # n
    BY ZenonT(60), <2>1, <2>2, <2>4 DEF InOrder, NodeChange
  <2>5. QED
    BY ZenonT(60), <2>3, <2>4
<1>3. SameNodes(rec[p], next)
  <2>1. \A k \in Nodes : next.phase[k] = "absent" <=> rec[p].phase[k] = "absent"
    BY Zenon DEF NodeChange
  <2>2. Selected(next) = Selected(rec[p])
    BY ZenonT(60), <2>1 DEF Selected
  <2>3. QED
    BY Zenon, <2>2 DEF SameNodes, NodeChange
<1>4. QED
  BY ZenonT(60), <1>1, <1>2, <1>3

\* The steps of a worker keep the order.
LEMMA WorkerOrder ==
  ASSUME Shape, Shape', Safe, Lived, Ordered, NEW p \in Procs, NEW n \in Nodes, WorkerStep(p, n)
  PROVE  Ordered'
<1>1. PICK next, w : /\ NodeChange(p, n, next) /\ Outcome(p, n, next, w)
                     /\ pc[p] = "run" => Advances(p, n, next.phase[n], w)
  BY Zenon, WorkerTable
<1>2. /\ pc[p] \in {"run", "recover"} /\ pc'[p] \in {pc[p], "release"}
      /\ UNCHANGED <<cmd, sid>> /\ OthersStay(p) /\ work[p][n] \notin Ended
  BY ZenonT(60), WorkerWrites, WorkerOthers, WorkerTable
<1>3. pc[p] \in Active /\ sid[p] \in Ids /\ rev[p] # NoRev
  <2>1. pc[p] \in Active
    BY Zenon, <1>2 DEF Active
  <2>2. QED
    BY ZenonT(60), <2>1 DEF Shape, Control, SessionNamed, Safe, Revisions
<1>4. Wrote(p, next)
  BY ZenonT(60), <1>1, <1>3, WriteWrote DEF Outcome, NoWrite
<1>5. OrderSession(p) /\ Cleared(p)
  BY Zenon DEF Ordered
<1>6. /\ rec[p].phase[n] \notin {"absent", "completed"}
      /\ pc[p] = "recover" => rec[p].phase[n] = "applied"
  BY ZenonT(60), <1>2, WorkingPhase
<1>7. rec[p].saved => Upstream(rec[p], n)
  <2>1. pc[p] = "recover" => rec[p].phase[n] \notin {"absent", "pending"}
    BY Zenon, <1>6
  <2>2. work[p][n] # "skipped"
    BY Zenon, <1>2 DEF Ended
  <2>3. QED
    BY ZenonT(60), <1>2, <1>5, <2>1, <2>2 DEF OrderSession, InOrder
<1>8. /\ InOrder(next) /\ InOrder(rec[p]) /\ SameNodes(rec[p], next)
      /\ \A k \in Nodes : Upstream(rec[p], k) => Upstream(next, k)
  BY ZenonT(60), <1>1, <1>5, <1>6, <1>7, ChangeInOrder DEF OrderSession
<1>9. rec'[p] \in {rec[p], next}
  BY ZenonT(60), <1>4 DEF Wrote
<1>10. SUFFICES OrderSession(p)' /\ Cleared(p)'
  BY ZenonT(60), <1>2, <1>3, <1>4, <1>8, PublishOrder
<1>11. CASE pc'[p] # "run"
  <2>1. pc'[p] # "bind" /\ pc'[p] # "prune" /\ pc'[p] # "create"
    BY Zenon, <1>2, <1>11
  <2>2. InOrder(rec'[p])
    BY ZenonT(60), <1>8, <1>9
  <2>3. QED
    BY ZenonT(60), <1>11, <2>1, <2>2, Resting
<1>12. ASSUME pc'[p] = "run" PROVE OrderSession(p)' /\ Cleared(p)'
  <2>1. pc[p] = "run"
    BY Zenon, <1>2, <1>12
  <2>a. Advances(p, n, next.phase[n], w)
    BY ZenonT(60), <1>1, <2>1
  <2>2. /\ \A m \in Nodes : m # n => work'[p][m] = work[p][m]
        /\ \/ work'[p][n] = w /\ rec'[p] = next
           \/ work'[p][n] \in {"failed", work[p][n]} /\ rec'[p] = rec[p]
    <3>1. WriteOK(p, sid[p], next) => rec'[p] = next
      BY ZenonT(60), <1>3, WriteCases DEF Shape, Acked
    <3>2. WriteErr(p, sid[p], next) => rec'[p] = rec[p]
      BY ZenonT(60) DEF WriteErr
    <3>3. CASE Step(p, n, w) /\ rec'[p] = next
      BY ZenonT(60), <3>3 DEF Step, Shape, TypeOK
    <3>4. CASE (Step(p, n, "failed") \/ UNCHANGED work) /\ rec'[p] = rec[p]
      <4>1. work \in [Procs -> [Nodes -> Works]]
        BY Zenon DEF Shape, TypeOK
      <4>2. Step(p, n, "failed") =>
              work'[p][n] = "failed" /\ \A m \in Nodes : m # n => work'[p][m] = work[p][m]
        BY Zenon, <4>1 DEF Step
      <4>3. QED
        BY Zenon, <3>4, <4>2
    <3>5. QED
      BY ZenonT(60), <1>1, <3>1, <3>2, <3>3, <3>4 DEF Outcome, NoWrite
  <2>3. SameNodes(rec[p], rec'[p])
    BY ZenonT(60), <1>8, <1>9 DEF SameNodes
  <2>4. \A k \in Nodes : Earlier(p, k)' = Earlier(p, k)
    BY ZenonT(60), <1>2, <2>3, EarlierSame DEF SameNodes
  <2>5. \A k \in Nodes : Earlier(p, k) \subseteq Nodes
    BY Zenon DEF Earlier, Selected
  <2>6. \A k \in Nodes : Upstream(rec[p], k) => Upstream(rec'[p], k)
    BY ZenonT(60), <1>8, <1>9
  <2>7. \A k \in Nodes : k # n => rec'[p].phase[k] = rec[p].phase[k]
    BY ZenonT(60), <1>1, <1>9 DEF NodeChange
  <2>8. ASSUME cmd[p] \in LevelKinds, NEW k \in Nodes,
               work'[p][k] \notin {"wait", "skipped", "failed"}
        PROVE  \A m \in Earlier(p, k) : m # n /\ work[p][m] = "done"
    <3>1. \A m \in Earlier(p, k) : work[p][m] = "done" => m # n
      BY ZenonT(60), <1>2 DEF Ended
    <3>2. CASE work[p][k] \notin {"wait", "skipped", "failed"}
      BY ZenonT(60), <1>5, <2>1, <2>8, <3>1, <3>2 DEF OrderSession
    <3>3. CASE work[p][k] \in {"wait", "skipped", "failed"}
      <4>1. k = n /\ work'[p][k] = w
        BY Zenon, <2>2, <2>8, <3>3
      <4>2. work[p][n] = "wait"
        BY Zenon, <1>2, <3>3, <4>1 DEF Ended
      <4>3. Ready(p, n) /\ ~Stopped(p, n)
        BY ZenonT(60), <2>8, <2>a, <4>1, <4>2 DEF Advances
      <4>4. cmd[p] \notin SavedKinds /\ cmd[p] # "review"
        BY Zenon, <2>8 DEF LevelKinds, RunKinds, SavedKinds
      <4>5. \A m \in Earlier(p, n) : work[p][m] \in Ended
        BY ZenonT(60), <4>3, <4>4 DEF Ready
      <4>6. Blockers(p, n) = Earlier(p, n)
        BY Zenon, <4>4 DEF Blockers
      <4>7. \A m \in Earlier(p, n) : work[p][m] \notin {"failed", "skipped"}
        BY ZenonT(60), <4>3, <4>6 DEF Stopped
      <4>8. QED
        BY Zenon, <3>1, <4>1, <4>5, <4>7 DEF Ended
    <3>4. QED
      BY ZenonT(60), <3>2, <3>3
  <2>9. ASSUME cmd[p] \in LevelKinds, NEW k \in Nodes, work'[p][k] = "done"
        PROVE  rec'[p].phase[k] = "completed"
    <3>1. CASE k # n
      BY ZenonT(90), SMTT(60), <1>5, <2>1, <2>2, <2>7, <2>9, <3>1 DEF OrderSession
    <3>2. CASE k = n
      <4>1. w = "done" /\ rec'[p] = next
        BY Zenon, <1>2, <2>2, <2>9, <3>2 DEF Ended
      <4>2. work[p][n] # "review"
        BY Zenon, <1>5, <2>9 DEF OrderSession, LevelKinds, RunKinds
      <4>3. QED
        BY Zenon, <2>9, <2>a, <3>2, <4>1, <4>2 DEF Advances
    <3>3. QED
      BY ZenonT(60), <3>1, <3>2
  <2>10. OrderSession(p)'
    <3>1. InOrder(rec[p])'
      BY ZenonT(60), <1>8, <1>9 DEF InOrder, Upstream
    <3>2. rec'[p].saved <=> cmd'[p] \in SavedKinds
      BY ZenonT(60), <1>2, <1>5, <2>1, <2>3 DEF OrderSession, SameNodes
    <3>3. ASSUME cmd[p] \in SavedKinds, NEW k \in Nodes, work'[p][k] # "skipped"
          PROVE  Upstream(rec'[p], k)
      <4>1. work[p][k] # "skipped"
        BY Zenon, <1>2, <2>2, <3>3 DEF Ended
      <4>2. QED
        BY ZenonT(60), <1>5, <2>1, <2>6, <3>3, <4>1 DEF OrderSession
    <3>4. ASSUME cmd[p] \in LevelKinds, NEW k \in Nodes,
                 work'[p][k] \notin {"wait", "skipped", "failed"}, NEW m \in Earlier(p, k)
          PROVE  work'[p][m] = "done"
      BY ZenonT(60), <2>2, <2>5, <2>8, <3>4
    <3>5. ASSUME NEW k \in Nodes
          PROVE  /\ work'[p][k] \in {"planned"} \cup MutationWork =>
                      cmd[p] \in LevelKinds \cup {"apply_saved"}
                 /\ work'[p][k] = "review" => cmd[p] \in {"save", "continue"}
      <4>1. CASE work'[p][k] = work[p][k] \/ work'[p][k] = "failed"
        BY ZenonT(60), <1>5, <4>1 DEF OrderSession, MutationWork
      <4>2. CASE k = n /\ work'[p][k] = w
        BY Zenon, <1>5, <2>a, <4>2 DEF OrderSession, MutationWork, Advances
      <4>3. QED
        BY ZenonT(60), <2>2, <4>1, <4>2
    <3>6. pc'[p] # "prune" /\ pc'[p] # "create"
      BY Zenon, <1>12
    <3>7. \A k \in Nodes : Upstream(rec[p], k)' <=> Upstream(rec'[p], k)
      BY Zenon DEF Upstream
    <3>8. QED
      BY SMTT(60), Z3T(60), <1>2, <1>12, <2>4, <2>9, <3>1, <3>2, <3>3, <3>4, <3>5, <3>6, <3>7 DEF OrderSession
  <2>11. ASSUME NEW k \in Nodes, work'[p][k] \in MutationWork, cmd[p] \in LevelKinds,
                NEW m \in Earlier(p, k)
         PROVE  store'[sid[p]].rec.phase[m] = "completed"
    <3>1. m \in Nodes /\ m # n /\ work[p][m] = "done"
      BY ZenonT(60), <2>5, <2>8, <2>11 DEF MutationWork
    <3>2. rec[p].phase[m] = "completed" /\ next.phase[m] = "completed"
      <4>1. rec[p].phase[m] = "completed"
        BY ZenonT(60), <1>5, <2>1, <2>11, <3>1 DEF OrderSession
      <4>2. next.phase[m] = rec[p].phase[m]
        BY Zenon, <1>1, <3>1 DEF NodeChange
      <4>3. QED
        BY Zenon, <4>1, <4>2
    <3>3. CASE store'[sid[p]].rec = next
      BY Zenon, <3>2, <3>3
    <3>4. CASE UNCHANGED <<store, rec>>
      <4>1. work[p][k] \in MutationWork
        <5>1. CASE work'[p][k] = work[p][k]
          BY ZenonT(60), <2>11, <5>1
        <5>2. CASE k = n /\ work'[p][n] # work[p][n]
          <6>1. work'[p][n] \in MutationWork /\ work'[p][n] # "failed"
            BY Zenon, <2>11, <5>2 DEF MutationWork
          <6>2. work'[p][n] = w
            BY ZenonT(60), <2>2, <5>2, <6>1
          <6>3. CASE WriteOK(p, sid[p], next)
            <7>1. store'[sid[p]].rev # store[sid[p]].rev
              BY ZenonT(60), <1>3, <6>3, PutFresh DEF WriteOK, Shape
            <7>2. QED
              BY ZenonT(60), <3>4, <7>1
          <6>4. CASE Step(p, n, "failed") \/ UNCHANGED work
            <7>1. work \in [Procs -> [Nodes -> Works]]
              BY Zenon DEF Shape, TypeOK
            <7>2. Step(p, n, "failed") => work'[p][n] = "failed"
              BY Zenon, <7>1 DEF Step
            <7>3. QED
              BY Zenon, <5>2, <6>1, <6>4, <7>2
          <6>5. CASE w \in {"apply", "applyRun"} => work[p][n] = "apply"
            BY Zenon, <5>2, <6>1, <6>2, <6>5 DEF MutationWork
          <6>6. QED
            BY ZenonT(60), <1>1, <6>3, <6>4, <6>5 DEF Outcome
        <5>3. QED
          BY ZenonT(60), <2>2, <5>1, <5>2
      <4>2. QED
        BY Zenon, <1>5, <2>11, <3>4, <4>1 DEF Cleared
    <3>5. QED
      BY ZenonT(60), <1>4, <3>3, <3>4 DEF Wrote
  <2>12. Cleared(p)'
    BY ZenonT(60), <1>2, <2>4, <2>11 DEF Cleared
  <2>13. QED
    BY ZenonT(60), <2>10, <2>12
<1>13. QED
  BY ZenonT(60), <1>11, <1>12

\* A record that is closed stays in order.
LEMMA ClosesInOrder ==
  ASSUME NEW r, NEW next, Closes(r, next), InOrder(r)
  PROVE  InOrder(next) /\ SameNodes(r, next)
<1>1. \A n \in Nodes : next.phase[n] \notin {"absent", "pending"} => next.phase[n] = r.phase[n]
  BY ZenonT(60) DEF Closes
<1>2. \A n \in Nodes : r.phase[n] \in {"absent", "completed"} => next.phase[n] = r.phase[n]
  BY Zenon DEF Closes
<1>3. \A n \in Nodes : Upstream(r, n) => Upstream(next, n)
  <2>1. \A n \in Nodes : \A u \in Up[n] : u \in Nodes
    BY ZenonT(60), GraphAssumption
  <2>2. QED
    BY ZenonT(60), <1>2, <2>1 DEF Upstream
<1>4. InOrder(next)
  BY ZenonT(60), <1>1, <1>3 DEF InOrder, Closes
<1>5. \A n \in Nodes : next.phase[n] = "absent" <=> r.phase[n] = "absent"
  BY Zenon DEF Closes
<1>6. QED
  BY ZenonT(60), <1>4, <1>5 DEF SameNodes, Selected, Closes

\* The end of a command keeps the order.
LEMMA EndOrder ==
  ASSUME Shape, Shape', Safe, Ordered, NEW p \in Procs, EndStep(p)
  PROVE  Ordered'
<1>1. PICK next : Wrote(p, next) /\ Closes(rec[p], next)
  BY Zenon, EndTable
<1>2. /\ pc[p] \in Writers /\ UNCHANGED <<sid, cmd>> /\ OthersStay(p)
      /\ pc'[p] \in {"run", "clean", "release", "finish_saved"}
      /\ pc'[p] = "run" => /\ pc[p] = "bind" /\ rec'[p] = rec[p]
                           /\ work'[p] = Waiting(Frontier(rec[p]))
  BY ZenonT(60), EndTable
<1>3. OrderSession(p) /\ InOrder(rec[p])
  BY Zenon DEF Ordered, OrderSession
<1>4. InOrder(next) /\ SameNodes(rec[p], next) /\ InOrder(rec'[p])
  BY ZenonT(60), <1>1, <1>3, ClosesInOrder DEF Wrote
<1>5. OrderSession(p)' /\ Cleared(p)'
  <2>1. CASE pc'[p] = "run"
    <3>1. \A n \in Nodes : n \in Frontier(rec[p]) => Upstream(rec'[p], n)
      BY ZenonT(60), <1>2, <2>1 DEF Frontier, Upstream
    <3>2. rec'[p].saved <=> cmd'[p] \in SavedKinds
      BY ZenonT(60), <1>2, <1>3, <2>1 DEF OrderSession
    <3>3. QED
      BY ZenonT(60), <1>2, <1>4, <2>1, <3>1, <3>2, Starting
  <2>2. CASE pc'[p] # "run"
    <3>1. pc'[p] # "bind" /\ pc'[p] # "prune" /\ pc'[p] # "create"
      BY Zenon, <1>2
    <3>2. QED
      BY ZenonT(60), <1>4, <2>2, <3>1, Resting
  <2>3. QED
    BY ZenonT(60), <2>1, <2>2
<1>6. pc[p] \in Active
  BY ZenonT(60), <1>2 DEF Writers
<1>7. QED
  BY ZenonT(60), <1>1, <1>2, <1>4, <1>5, <1>6, PublishOrder

\* A step that leaves every session as it is, but for p's place.
LEMMA PlaceOrder ==
  ASSUME Shape, Shape', Safe, Ordered, NEW p \in Procs, OthersStay(p), UNCHANGED <<sid, cmd, rec>>,
         pc'[p] \notin Active,
         pc'[p] = "prune" => cmd[p] \in BeginKinds \cup {"prune"},
         pc'[p] = "create" => cmd[p] \in BeginKinds,
         KindsKept, OwnedKept(p), \A i \in Ids : InOrder(store'[i].rec)
  PROVE  Ordered'
<1>1. pc'[p] # "run" /\ pc'[p] # "bind"
  BY Zenon DEF Active
<1>2. InOrder(rec'[p])
  BY Zenon DEF Ordered, OrderSession
<1>3. OrderSession(p)' /\ Cleared(p)'
  BY ZenonT(60), <1>1, <1>2, Resting
<1>4. SessionKind(p)'
  BY Zenon DEF SessionKind
<1>5. QED
  BY ZenonT(60), <1>3, <1>4, OrderedFrom

\* The barrier, pruning and cleanup keep the order.
LEMMA PruneOrder ==
  ASSUME Shape, Shape', Safe, Ordered, NEW p \in Procs,
         CheckExecutionBarrier(p) \/ PruneStep(p) \/ CleanupExecution(p)
  PROVE  Ordered'
<1>1. /\ UNCHANGED <<sid, cmd, rec>> /\ OthersStay(p)
      /\ pc'[p] \in {"prune", "create", "release"}
      /\ pc'[p] = "prune" => \/ pc[p] = "prune"
                             \/ pc[p] = "locked" /\ cmd[p] \in BeginKinds \cup {"prune"}
      /\ pc'[p] = "create" => pc[p] = "prune" /\ cmd[p] # "prune"
      /\ UNCHANGED <<store, bundles>> \/ Expires \/ Cleans(p) \/ Deletes
  BY ZenonT(60), PruneTable
<1>2. /\ pc'[p] = "prune" => cmd[p] \in BeginKinds \cup {"prune"}
      /\ pc'[p] = "create" => cmd[p] \in BeginKinds
  BY ZenonT(60), <1>1 DEF Ordered, OrderSession
<1>3. pc'[p] \notin Active
  BY Zenon, <1>1 DEF Active
<1>4. \A i \in Ids : InOrder(store[i].rec)
  BY Zenon DEF Ordered
<1>5. ASSUME NEW i \in Ids, ~ExecutionNeedsRecovery(store[i].rec),
             \A j \in Ids : j # i => store'[j] = store[j],
             InOrder(store'[i].rec), Exists(i),
             store'[i].rev # NoRev => SameNodes(store[i].rec, store'[i].rec)
      PROVE  Ordered'
  <2>1. KindsKept
    BY ZenonT(60), <1>5 DEF KindsKept, Exists, SameNodes
  <2>2. ASSUME NEW q \in Procs, NEW n \in Nodes, work[q][n] \in OwnWork
        PROVE  store'[sid[q]] = store[sid[q]]
    BY ZenonT(60), <1>5, <2>2, ResolvedFree, OwnerBlocks
  <2>3. OwnedKept(p)
    BY ZenonT(60), <2>2 DEF OwnedKept
  <2>4. \A j \in Ids : InOrder(store'[j].rec)
    BY ZenonT(60), <1>4, <1>5
  <2>5. QED
    BY ZenonT(60), <1>1, <1>2, <1>3, <2>1, <2>3, <2>4, PlaceOrder
<1>6. CASE UNCHANGED store
  <2>1. KindsKept /\ OwnedKept(p)
    BY ZenonT(60), <1>6 DEF KindsKept, OwnedKept, Exists, SameNodes
  <2>2. \A j \in Ids : InOrder(store'[j].rec)
    BY ZenonT(60), <1>4, <1>6
  <2>3. QED
    BY ZenonT(60), <1>1, <1>2, <1>3, <2>1, <2>2, PlaceOrder
<1>7. CASE Expires
  <2>1. PICK i \in Ids : /\ Exists(i) /\ ~ExecutionNeedsRecovery(store[i].rec)
                         /\ store'[i].rec = Terminal(store[i].rec, "expired")
                         /\ \A j \in Ids : j # i => store'[j] = store[j]
    BY ZenonT(60), <1>7 DEF Expires
  <2>2. Closes(store[i].rec, store'[i].rec)
    <3>1. store[i].rec \in Record
      BY Zenon DEF Shape, TypeOK
    <3>2. QED
      BY ZenonT(60), <2>1, <3>1, ClosesRecords
  <2>3. QED
    BY ZenonT(60), <1>4, <1>5, <2>1, <2>2, ClosesInOrder
<1>8. CASE Deletes
  <2>1. ~NullRecord.saved
    BY Zenon DEF NullRecord, NewRecord
  <2>2. QED
    BY ZenonT(60), <1>5, <1>8, <2>1 DEF Deletes, Settled, InOrder
<1>9. QED
  BY ZenonT(60), <1>1, <1>6, <1>7, <1>8 DEF Cleans

\* A new record has nothing started.
LEMMA CreateOrder ==
  ASSUME Shape, Shape', Safe, Ordered, NEW p \in Procs, CreateRecord(p)
  PROVE  Ordered'
<1>1. PICK i \in Ids \ used, sel \in SelectionsOf(cmd[p]) :
        LET new == NewRecord(cmd[p] = "save", sel) IN
        /\ \/ UNCHANGED store
           \/ /\ store'[i].rec = new /\ store'[i].rev # NoRev
              /\ \A j \in Ids : j # i => store'[j] = store[j]
        /\ \/ pc'[p] = "release" /\ UNCHANGED <<rec, sid, work>>
           \/ /\ pc'[p] = "bind" /\ cmd[p] = "save" /\ UNCHANGED work
              /\ rec'[p] = new /\ sid'[p] = i
           \/ /\ pc'[p] = "run" /\ cmd[p] # "save" /\ work'[p] = Waiting(sel)
              /\ rec'[p] = new /\ sid'[p] = i
  BY ZenonT(60), CreateTable
<1> DEFINE new == NewRecord(cmd[p] = "save", sel)
<1>2. /\ new.saved = (cmd[p] = "save")
      /\ \A n \in Nodes : new.phase[n] \in {"absent", "pending"}
  <2>1. new.saved = (cmd[p] = "save")
    BY ZenonT(60) DEF NewRecord
  <2>2. \A n \in Nodes : new.phase[n] \in {"absent", "pending"}
    BY Zenon DEF NewRecord
  <2>3. QED
    BY ZenonT(60), <2>1, <2>2
<1>3. InOrder(new)
  BY ZenonT(60), <1>2 DEF InOrder
<1> HIDE DEF new
<1>4. /\ pc[p] = "create" /\ UNCHANGED cmd /\ OthersStay(p)
      /\ \A q \in Procs : q # p => rec'[q] = rec[q] /\ sid'[q] = sid[q]
  BY ZenonT(60), CreateTable
<1>5. \A j \in Ids : store'[j] = store[j] \/ (j = i /\ store'[j].rec = new)
  BY ZenonT(60), <1>1 DEF new
<1>6. /\ pc'[p] \in {"release", "bind", "run"}
      /\ \/ pc'[p] = "release" /\ UNCHANGED <<rec, sid>>
         \/ rec'[p] = new /\ sid'[p] = i
      /\ pc'[p] = "bind" => rec'[p] = new /\ cmd[p] = "save"
      /\ pc'[p] = "run" => rec'[p] = new /\ cmd[p] # "save" /\ work'[p] = Waiting(sel)
  BY Zenon, <1>1 DEF new
<1>7. ~Exists(i)
  BY ZenonT(60) DEF Safe, UsedIds
<1>8. KindsKept
  BY ZenonT(60), <1>5 DEF KindsKept, Exists, SameNodes
<1>9. OwnedKept(p)
  <2>1. ASSUME NEW q \in Procs, NEW n \in Nodes, work[q][n] \in OwnWork
        PROVE  store'[sid[q]] = store[sid[q]]
    <3>1. Exists(sid[q]) /\ sid[q] \in Ids
      BY ZenonT(60), <2>1, OwnerBlocks DEF Safe, OwnerStored
    <3>2. QED
      BY ZenonT(60), <1>5, <1>7, <3>1
  <2>2. QED
    BY ZenonT(60), <2>1 DEF OwnedKept
<1>10. \A j \in Ids : InOrder(store'[j].rec)
  BY ZenonT(60), <1>3, <1>5 DEF Ordered
<1>11. InOrder(rec'[p])
  BY ZenonT(60), <1>3, <1>6 DEF Ordered, OrderSession
<1>12. cmd[p] \in BeginKinds
  BY ZenonT(60), <1>4 DEF Ordered, OrderSession
<1>13. cmd[p] \in SavedKinds <=> cmd[p] = "save"
  BY Zenon, <1>12 DEF BeginKinds, RunKinds, SavedKinds
<1>14. OrderSession(p)' /\ Cleared(p)'
  <2>1. CASE pc'[p] = "run"
    BY ZenonT(60), <1>2, <1>4, <1>6, <1>11, <1>13, <2>1, Starting
  <2>2. CASE pc'[p] # "run"
    <3>1. pc'[p] # "prune" /\ pc'[p] # "create"
      BY Zenon, <1>6
    <3>2. pc'[p] = "bind" => (rec'[p].saved <=> cmd'[p] \in SavedKinds)
      BY ZenonT(60), <1>2, <1>4, <1>6, <1>13
    <3>3. QED
      BY ZenonT(60), <1>11, <2>2, <3>1, <3>2, Resting
  <2>3. QED
    BY ZenonT(60), <2>1, <2>2
<1>15. SessionKind(p)'
  <2>1. CASE pc'[p] = "release"
    BY Zenon, <2>1 DEF SessionKind, Active
  <2>2. CASE rec'[p] = new /\ sid'[p] = i
    <3>1. store'[i].rev # NoRev => store'[i].rec = new
      BY ZenonT(60), <1>5, <1>7 DEF Exists
    <3>2. QED
      BY ZenonT(60), <2>2, <3>1 DEF SessionKind, Exists, SameNodes, Selected
  <2>3. QED
    BY ZenonT(60), <1>6, <2>1, <2>2
<1>16. QED
  BY ZenonT(60), <1>4, <1>8, <1>9, <1>10, <1>14, <1>15, OrderedFrom

\* A session opened on a stored record takes over its order.
LEMMA OpenOrder ==
  ASSUME Shape, Shape', Safe, Ordered, NEW p \in Procs,
         OpenSavedExecution(p) \/ OpenRecovery(p) \/ OpenCancel(p)
  PROVE  Ordered'
<1>1. /\ sid[p] \in Ids /\ UNCHANGED <<store, sid, cmd>> /\ OthersStay(p)
      /\ \A q \in Procs : q # p => rec'[q] = rec[q]
      /\ \/ pc'[p] = "release" /\ UNCHANGED <<rec, work>>
         \/ /\ rec'[p] = store[sid[p]].rec
            /\ \/ /\ pc'[p] \in {"recover", "replan", "clean", "cancel"}
                  /\ cmd[p] \notin SavedKinds
               \/ /\ pc'[p] = "bind" /\ cmd[p] = "continue" /\ rec'[p].saved
               \/ /\ pc'[p] = "run" /\ cmd[p] = "apply_saved" /\ rec'[p].saved
                  /\ work'[p] = Waiting(PlannedNodes(rec'[p]))
  BY ZenonT(60), OpenTable
<1>2. KindsKept /\ OwnedKept(p) /\ \A i \in Ids : InOrder(store'[i].rec)
  BY ZenonT(60), <1>1 DEF KindsKept, OwnedKept, Exists, SameNodes, Ordered
<1>3. InOrder(rec'[p])
  BY ZenonT(60), <1>1 DEF Ordered, OrderSession
<1>4. OrderSession(p)' /\ Cleared(p)'
  <2>1. CASE pc'[p] = "run"
    <3>1. cmd'[p] \in SavedKinds /\ rec'[p].saved /\ work'[p] = Waiting(PlannedNodes(rec'[p]))
      BY Zenon, <1>1, <2>1 DEF SavedKinds
    <3>2. ASSUME NEW n \in Nodes, n \in PlannedNodes(rec'[p]) PROVE Upstream(rec'[p], n)
      <4>1. rec'[p].phase[n] \notin {"absent", "pending"}
        BY Zenon, <3>2 DEF PlannedNodes
      <4>2. QED
        BY ZenonT(60), <1>3, <3>1, <4>1 DEF InOrder
    <3>3. QED
      BY ZenonT(60), <1>3, <2>1, <3>1, <3>2, Starting
  <2>2. CASE pc'[p] # "run"
    <3>1. pc'[p] # "prune" /\ pc'[p] # "create"
      BY Zenon, <1>1
    <3>2. pc'[p] = "bind" => (rec'[p].saved <=> cmd'[p] \in SavedKinds)
      BY Zenon, <1>1 DEF SavedKinds
    <3>3. QED
      BY ZenonT(60), <1>3, <2>2, <3>1, <3>2, Resting
  <2>3. QED
    BY ZenonT(60), <2>1, <2>2
<1>5. SessionKind(p)'
  <2>1. pc'[p] \in Active => rec'[p] = store'[sid'[p]].rec
    BY Zenon, <1>1 DEF Active
  <2>2. QED
    BY ZenonT(60), <2>1 DEF SessionKind, SameNodes, Selected
<1>6. QED
  BY ZenonT(60), <1>1, <1>2, <1>4, <1>5, OrderedFrom

\* Locks, crashes and orphans keep the order.
LEMMA EnvironmentOrder ==
  ASSUME Shape, Shape', Safe, Ordered,
         \/ \E p \in Procs : Release(p) \/ \E k \in Kinds, i \in Ids \cup {NoId} : Acquire(p, k, i)
         \/ Environment
         \/ UNCHANGED vars
  PROVE  Ordered'
<1> USE DEF object, control, session, ghost, env
<1>f. ASSUME NEW p \in Procs, UNCHANGED store, OthersStay(p),
             pc'[p] \in {"idle", "locked"}, InOrder(rec'[p]),
             \A q \in Procs : q # p => rec'[q] = rec[q] /\ sid'[q] = sid[q] /\ cmd'[q] = cmd[q]
      PROVE  Ordered'
  <2>1. KindsKept /\ OwnedKept(p) /\ \A i \in Ids : InOrder(store'[i].rec)
    BY ZenonT(60), <1>f DEF KindsKept, OwnedKept, Exists, SameNodes, Ordered
  <2>2. /\ pc'[p] # "run" /\ pc'[p] # "bind" /\ pc'[p] # "prune" /\ pc'[p] # "create"
        /\ pc'[p] \notin Active
    BY Zenon, <1>f DEF Active
  <2>3. OrderSession(p)' /\ Cleared(p)'
    BY ZenonT(60), <1>f, <2>2, Resting
  <2>4. SessionKind(p)'
    BY ZenonT(60), <2>2 DEF SessionKind
  <2>5. QED
    BY ZenonT(60), <1>f, <2>1, <2>3, <2>4, OrderedFrom
<1>1. ASSUME NEW p \in Procs, Release(p) \/ Crash(p) PROVE Ordered'
  <2>1. Forget(p) /\ UNCHANGED store
    BY ZenonT(30), <1>1 DEF Release, Crash
  <2>2. /\ OthersStay(p) /\ pc'[p] = "idle" /\ rec'[p] = NullRecord
        /\ \A q \in Procs : q # p => rec'[q] = rec[q] /\ sid'[q] = sid[q] /\ cmd'[q] = cmd[q]
    BY ZenonT(90), SMTT(60), <2>1 DEF Forget, OthersStay, Shape, TypeOK
  <2>3. ~NullRecord.saved
    BY DEF NullRecord, NewRecord
  <2>4. QED
    BY ZenonT(60), <1>f, <2>1, <2>2, <2>3 DEF InOrder
<1>2. ASSUME NEW p \in Procs, NEW k \in Kinds, NEW i \in Ids \cup {NoId}, Acquire(p, k, i)
      PROVE  Ordered'
  <2>1. /\ UNCHANGED <<store, rec>> /\ pc'[p] = "locked"
        /\ OthersStay(p) /\ \A q \in Procs : q # p => sid'[q] = sid[q] /\ cmd'[q] = cmd[q]
    BY ZenonT(30), <1>2 DEF Acquire, Goto, OthersStay, Shape, TypeOK
  <2>2. InOrder(rec'[p])
    BY ZenonT(60), <2>1 DEF Ordered, OrderSession
  <2>3. QED
    BY Zenon, <1>f, <2>1, <2>2
<1>3. CASE OrphanExits \/ Unlock \/ PlanExpires \/ UNCHANGED vars
  <2>1. UNCHANGED <<store, pc, cmd, sid, rec, work>>
    BY ZenonT(60), <1>3 DEF OrphanExits, Unlock, PlanExpires, vars
  <2>2. \A i \in Ids : InOrder(store[i].rec)'
    BY ZenonT(60), <2>1 DEF Ordered, InOrder, Upstream
  <2>3. ASSUME NEW q \in Procs PROVE OrderSession(q)' /\ SessionKind(q)' /\ Cleared(q)'
    <3>1. OrderSession(q) /\ SessionKind(q) /\ Cleared(q)
      BY Zenon DEF Ordered
    <3>2. \A n \in Nodes : Earlier(q, n)' = Earlier(q, n) /\ (Upstream(rec[q], n)' <=> Upstream(rec[q], n))
      BY ZenonT(60), <2>1, EarlierSame DEF Upstream
    <3>3. InOrder(rec[q])'
      BY ZenonT(60), <2>1, <3>1 DEF OrderSession, InOrder, Upstream
    <3>4. OrderSession(q)'
      <4>1. pc'[q] = pc[q] /\ cmd'[q] = cmd[q] /\ rec'[q] = rec[q] /\ work'[q] = work[q]
        BY ZenonT(60), <2>1
      <4>2. pc'[q] = "run" /\ cmd'[q] \in SavedKinds =>
              \A n \in Nodes : work'[q][n] # "skipped" => Upstream(rec[q], n)'
        <5>1. pc[q] = "run" /\ cmd[q] \in SavedKinds =>
                \A n \in Nodes : work[q][n] # "skipped" => Upstream(rec[q], n)
          BY Zenon, <3>1 DEF OrderSession
        <5>2. QED
          BY Zenon, <5>1, <3>2, <4>1
      <4>3. pc'[q] = "run" /\ cmd'[q] \in LevelKinds => \A n \in Nodes :
              /\ work'[q][n] \notin {"wait", "skipped", "failed"} =>
                   \A m \in Earlier(q, n)' : work'[q][m] = "done"
              /\ work'[q][n] = "done" => rec'[q].phase[n] = "completed"
        <5>1. pc[q] = "run" /\ cmd[q] \in LevelKinds => \A n \in Nodes :
                /\ work[q][n] \notin {"wait", "skipped", "failed"} =>
                     \A m \in Earlier(q, n) : work[q][m] = "done"
                /\ work[q][n] = "done" => rec[q].phase[n] = "completed"
          BY Zenon, <3>1 DEF OrderSession
        <5>2. QED
          BY Zenon, <5>1, <3>2, <4>1
      <4>4. /\ pc'[q] = "prune" => cmd'[q] \in BeginKinds \cup {"prune"}
            /\ pc'[q] = "create" => cmd'[q] \in BeginKinds
            /\ pc'[q] \in {"bind", "run"} => (rec'[q].saved <=> cmd'[q] \in SavedKinds)
            /\ \A n \in Nodes :
                 /\ work'[q][n] \in {"planned"} \cup MutationWork =>
                      cmd'[q] \in LevelKinds \cup {"apply_saved"}
                 /\ work'[q][n] = "review" => cmd'[q] \in {"save", "continue"}
        BY SMTT(30), Z3T(30), <3>1, <4>1 DEF OrderSession
      <4>5. QED
        BY ZenonT(60), <3>3, <4>2, <4>3, <4>4 DEF OrderSession
    <3>5. SessionKind(q)'
      BY ZenonT(60), <2>1, <3>1 DEF SessionKind, Exists, SameNodes, Selected
    <3>6. Cleared(q)'
      BY ZenonT(60), <2>1, <3>1, <3>2 DEF Cleared
    <3>7. QED
      BY ZenonT(60), <3>4, <3>5, <3>6
  <2>4. QED
    BY ZenonT(60), <2>2, <2>3 DEF Ordered
<1>4. QED
  BY ZenonT(60), <1>1, <1>2, <1>3 DEF Environment

\* Every step keeps Ordered.
LEMMA OrderStep ==
  ASSUME Shape, Safe, Lived, Ordered, [Next]_vars
  PROVE  Ordered'
<1>s. Shape'
  BY Zenon, ShapeStep
<1>1. ASSUME NEW p \in Procs, CommandStep(p) PROVE Ordered'
  BY ZenonT(60), <1>s, <1>1, WorkerOrder, PruneOrder, CreateOrder, OpenOrder, EndOrder,
     EnvironmentOrder DEF CommandStep, EndStep
<1>2. QED
  BY ZenonT(60), <1>s, <1>1, EnvironmentOrder DEF Next

\* The empty store is in order.
LEMMA OrderInit == ASSUME Init PROVE Ordered
<1>1. InOrder(NullRecord)
  BY Zenon DEF InOrder, NullRecord, NewRecord
<1>2. /\ \A i \in Ids : store[i].rec = NullRecord
      /\ \A p \in Procs : rec[p] = NullRecord /\ pc[p] = "idle" /\ work[p] = NoWork
  BY Zenon DEF Init
<1>3. \A p \in Procs, n \in Nodes : work[p][n] = "skipped"
  BY Zenon, <1>2 DEF NoWork
<1>4. \A p \in Procs : OrderSession(p) /\ Cleared(p)
  BY ZenonT(60), <1>1, <1>2, <1>3 DEF OrderSession, Cleared, MutationWork
<1>5. \A p \in Procs : SessionKind(p)
  BY Zenon, <1>2 DEF SessionKind, Active
<1>6. QED
  BY ZenonT(60), <1>1, <1>2, <1>4, <1>5 DEF Ordered

\* The journal's inductive invariant with Lived and Ordered.
THEOREM OrderedInvariant == Spec => [](Shape /\ Safe /\ Lived /\ Ordered)
<1>1. Init => Lived /\ Ordered
  BY ZenonT(60), LivedInit, OrderInit
<1>2. Shape /\ Safe /\ Lived /\ Ordered /\ [Next]_vars => Lived' /\ Ordered'
  BY ZenonT(60), SoundStep, OrderStep DEF StepSound
<1>3. QED
  BY <1>1, <1>2, SafeInvariant, PTL DEF Spec

\* In the store a mutation comes after the nodes it depends on, or for destroy
\* after the nodes that depend on it, for every graph and every selection:
\* runLevels lets no node of a later level start before the earlier ones are
\* published as completed, and SavePlans plans nothing ahead of its upstreams,
\* so that a saved plan may be applied in a later command.
THEOREM DependenciesFirst == Spec => []DependencyOrder
<1>1. ASSUME Shape, Safe, Ordered PROVE DependencyOrder
  <2>1. SUFFICES ASSUME NEW p \in Procs, NEW n \in Nodes, work[p][n] \in MutationWork,
                        NEW m \in Selected(store[sid[p]].rec),
                        m \in (IF cmd[p] = "destroy" THEN {d \in Nodes : n \in Up[d]} ELSE Up[n])
                 PROVE  store[sid[p]].rec.phase[m] = "completed"
    BY Zenon DEF DependencyOrder, MutationWork
  <2>2. /\ OrderSession(p) /\ SessionKind(p) /\ Cleared(p)
        /\ \A i \in Ids : InOrder(store[i].rec)
    BY ZenonT(60), <1>1 DEF Ordered
  <2>3. pc[p] = "run" /\ pc[p] \in Active /\ work[p][n] \in OwnWork
    <3>1. work[p][n] \in RunWork /\ work[p][n] \in OwnWork
      BY Zenon, <2>1 DEF MutationWork, RunWork, OwnWork
    <3>2. pc[p] = "run"
      BY ZenonT(60), <1>1, <3>1 DEF Shape, Control, WorkPlaced
    <3>3. QED
      BY ZenonT(60), <3>1, <3>2 DEF Active
  <2>4. Exists(sid[p]) /\ sid[p] \in Ids /\ store[sid[p]].rec.phase[n] = rec[p].phase[n]
    <3>1. Exists(sid[p]) /\ store[sid[p]].rec.phase[n] = rec[p].phase[n]
      BY Zenon, <1>1, <2>3 DEF Safe, OwnerStored
    <3>2. QED
      BY ZenonT(60), <1>1, <2>3, <3>1, OwnerBlocks
  <2>5. SameNodes(rec[p], store[sid[p]].rec)
    BY ZenonT(60), <2>2, <2>3, <2>4 DEF SessionKind
  <2>6. m \in Nodes /\ m \in Selected(rec[p])
    BY Zenon, <2>5 DEF SameNodes, Selected
  <2>7. CASE cmd[p] \in LevelKinds
    <3>1. m \in Earlier(p, n)
      BY Zenon, <2>1, <2>6, GraphAssumption DEF Earlier
    <3>2. QED
      BY ZenonT(60), <2>1, <2>2, <2>7, <3>1 DEF Cleared
  <2>8. CASE cmd[p] = "apply_saved"
    <3>1. rec[p].phase[n] \notin {"absent", "pending"}
      BY Zenon, <1>1, <2>1, <2>3 DEF Safe, SessionFits, Fits, MutationWork
    <3>2. rec[p].saved
      BY Zenon, <2>2, <2>3, <2>8 DEF OrderSession, SavedKinds
    <3>3. Upstream(store[sid[p]].rec, n)
      BY ZenonT(60), <2>2, <2>4, <2>5, <3>1, <3>2 DEF InOrder, SameNodes
    <3>4. m \in Up[n]
      BY Zenon, <2>1, <2>8
    <3>5. QED
      BY ZenonT(60), <2>1, <3>3, <3>4 DEF Upstream, Selected
  <2>9. QED
    BY ZenonT(60), <2>1, <2>2, <2>7, <2>8 DEF OrderSession
<1>2. QED
  BY <1>1, OrderedInvariant, PTL

------------------------------------------------------------------------------
(***************************************************************************)
(* The recovery barrier: while no lock is broken under its holder, at most *)
(* one execution is unresolved.                                            *)
(*                                                                         *)
(* The barrier is a check made once, before a record exists; what makes it *)
(* still true when the record gets an unresolved phase, many writes later, *)
(* is the lock.  So the invariant says that a process at work holds the    *)
(* lock (LockHeld), that past the barrier no record but its own blocks     *)
(* (Admitted), and that the commands the barrier lets through, and a       *)
(* cancellation, never make their own record block (Harmless).  A broken   *)
(* lock ends all of this, hence the assumption on MaxForced.               *)
(***************************************************************************)

Blocks(i) == ExecutionNeedsRecovery(store[i].rec)

\* No execution but i is unresolved.
OnlyBlocks(i) == \A j \in Ids : j # i => ~Blocks(j)

LockHeld == \A p \in Procs : pc[p] # "idle" => lock = p

\* The command passed the barrier and has no record yet.
Passed(p) == pc[p] \in {"prune", "create"} /\ cmd[p] \notin Unbarred

\* The command may leave its own record unresolved.
Sole(p) == \/ pc[p] \in {"bind", "finish_saved", "recover", "replan"}
           \/ pc[p] = "run" /\ cmd[p] # "run_read"

\* The command is a run that only reads.
Reads(p) == pc[p] = "run" /\ cmd[p] = "run_read"

Admitted(p) == /\ Passed(p) => OnlyBlocks(NoId)
               /\ Sole(p) => OnlyBlocks(sid[p])
               /\ pc[p] = "create" => cmd[p] # "prune"
               /\ pc[p] = "bind" => cmd[p] # "run_read"

Harmless(p) == /\ Reads(p) \/ pc[p] = "cancel" => ~ExecutionNeedsRecovery(rec[p])
               /\ Reads(p) => \A n \in Nodes : work[p][n] \in Ended \cup {"wait", "read"}

Barred == /\ OneUnresolved
          /\ \A i \in Ids : Blocks(i) => Exists(i)
          /\ forced = 0
          /\ LockHeld
          /\ \A p \in Procs : Admitted(p) /\ Harmless(p)

------------------------------------------------------------------------------
(* A step of the process that holds the lock.                               *)

\* p is at work, so every other process is idle.  A step of p that writes at
\* most the record i, and lets it block only when it blocks alone, keeps
\* Barred if it keeps what Barred says of p.
LEMMA HolderStep ==
  ASSUME Shape, Barred, NEW p \in Procs, pc[p] # "idle",
         UNCHANGED <<lock, forced>>,
         \A q \in Procs : q # p => pc'[q] = pc[q],
         NEW i \in Ids \cup {NoId},
         \A j \in Ids : j # i => store'[j] = store[j],
         i \in Ids /\ ExecutionNeedsRecovery(store'[i].rec) =>
           store'[i].rev # NoRev /\ OnlyBlocks(i),
         Admitted(p)', Harmless(p)'
  PROVE  Barred'
<1>1. \A q \in Procs : q # p => pc'[q] = "idle"
  BY ZenonT(60) DEF Barred, LockHeld
<1>2. OneUnresolved'
  BY Zenon DEF Barred, OneUnresolved, OnlyBlocks, Blocks
<1>3. \A j \in Ids : ExecutionNeedsRecovery(store'[j].rec) => store'[j].rev # NoRev
  BY Zenon DEF Barred, Blocks, Exists
<1>4. LockHeld'
  BY ZenonT(60), <1>1 DEF Barred, LockHeld
<1>5. ASSUME NEW q \in Procs PROVE (Admitted(q) /\ Harmless(q))'
  <2>1. CASE q = p
    BY ZenonT(60), <2>1
  <2>2. CASE q # p
    BY Zenon, <2>2, <1>1 DEF Admitted, Harmless, Passed, Sole, Reads
  <2>3. QED
    BY ZenonT(60), <2>1, <2>2
<1>6. QED
  BY ZenonT(60), <1>2, <1>3, <1>4, <1>5 DEF Barred, Blocks, Exists

\* The same for a step that ends the command, or its last but one, and
\* leaves the store alone.
LEMMA LeaveStep ==
  ASSUME Shape, Barred, NEW p \in Procs, pc[p] # "idle",
         UNCHANGED <<lock, forced, store>>,
         \A q \in Procs : q # p => pc'[q] = pc[q],
         pc'[p] \in {"clean", "release"}
  PROVE  Barred'
<1>1. Admitted(p)' /\ Harmless(p)'
  BY Zenon DEF Admitted, Harmless, Passed, Sole, Reads
<1>2. QED
  BY ZenonT(60), <1>1, HolderStep, SentinelAssumption

\* A publish of a command that may leave its record unresolved, or of a
\* record that is not.
LEMMA PublishStep ==
  ASSUME Shape, Barred, NEW p \in Procs, pc[p] \in Active, NEW next, Wrote(p, next),
         UNCHANGED <<lock, forced, cmd, sid>>,
         \A q \in Procs : q # p => pc'[q] = pc[q],
         Sole(p) \/ ~ExecutionNeedsRecovery(next),
         pc'[p] \in (Active \ {"bind", "cancel"}) \cup {"release"},
         Sole(p)' => Sole(p),
         Reads(p)' => /\ Reads(p) /\ ~ExecutionNeedsRecovery(next)
                      /\ \A n \in Nodes : work'[p][n] \in Ended \cup {"wait", "read"}
  PROVE  Barred'
<1>1. sid[p] \in Ids /\ pc[p] # "idle"
  BY Zenon DEF Shape, Control, SessionNamed, Active
<1>2. Admitted(p) /\ Harmless(p)
  BY Zenon DEF Barred
<1>3. \A j \in Ids : j # sid[p] => store'[j] = store[j]
  BY Zenon DEF Wrote
<1>4. Admitted(p)'
  <2>1. ~Passed(p)' /\ pc'[p] \notin {"create", "bind"}
    BY Zenon DEF Passed, Active
  <2>2. Sole(p)' => OnlyBlocks(sid[p])'
    BY ZenonT(60), <1>2, <1>3 DEF Admitted, OnlyBlocks, Blocks
  <2>3. QED
    BY ZenonT(60), <2>1, <2>2 DEF Admitted
<1>5. Harmless(p)'
  <2>1. pc'[p] # "cancel"
    BY Zenon DEF Active
  <2>2. Reads(p)' => ~ExecutionNeedsRecovery(rec'[p])
    BY ZenonT(60), <1>2 DEF Harmless, Wrote
  <2>3. QED
    BY ZenonT(60), <2>1, <2>2 DEF Harmless
<1>6. ExecutionNeedsRecovery(store'[sid[p]].rec) =>
        store'[sid[p]].rev # NoRev /\ OnlyBlocks(sid[p])
  <2>1. CASE store' = store
    <3>1. Blocks(sid[p]) => Exists(sid[p]) /\ OnlyBlocks(sid[p])
      BY Zenon, <1>1 DEF Barred, OneUnresolved, OnlyBlocks, Blocks
    <3>2. QED
      BY ZenonT(60), <2>1, <3>1 DEF Blocks, Exists
  <2>2. CASE store'[sid[p]].rec = next /\ store'[sid[p]].rev # NoRev
    BY ZenonT(60), <2>2, <1>2 DEF Admitted
  <2>3. QED
    BY ZenonT(60), <2>1, <2>2 DEF Wrote
<1>7. QED
  BY ZenonT(30), <1>1, <1>3, <1>4, <1>5, <1>6, HolderStep

------------------------------------------------------------------------------
(* The workers.                                                             *)

\* A record gets a phase that leaves nothing unresolved.
LEMMA ResolvedPhase ==
  ASSUME NEW r \in Record, NEW n \in Nodes, NEW ph, ph \notin Unresolved,
         ~ExecutionNeedsRecovery(r)
  PROVE  ~ExecutionNeedsRecovery(WithPhase(r, n, ph))
<1>1. /\ WithPhase(r, n, ph).recovered = r.recovered
      /\ WithPhase(r, n, ph).prep = r.prep
      /\ \A m \in Nodes : WithPhase(r, n, ph).phase[m] = IF m = n THEN ph ELSE r.phase[m]
  BY SMTT(30), Z3T(30), WithPhaseKeeps
<1>2. QED
  BY ZenonT(60), <1>1 DEF ExecutionNeedsRecovery

\* The workers keep Barred: those of a run that only reads publish reading,
\* completed and failed, the others belong to a command that blocks alone.
LEMMA WorkerBarred ==
  ASSUME Shape, Barred, NEW p \in Procs, NEW n \in Nodes, WorkerStep(p, n)
  PROVE  Barred'
<1>0. /\ pc[p] \in {"run", "recover"} /\ pc'[p] \in {pc[p], "release"}
      /\ \A q \in Procs : q # p => pc'[q] = pc[q]
      /\ UNCHANGED <<lock, forced, cmd, sid>>
  BY ZenonT(60), WorkerWrites
<1>a. pc[p] \in Active /\ pc'[p] \in (Active \ {"bind", "cancel"}) \cup {"release"}
  BY Zenon, <1>0 DEF Active
<1>1. CASE Sole(p)
  <2>1. PICK next : Wrote(p, next)
    BY Zenon, WorkerWrites
  <2>2. ~Reads(p)'
    BY ZenonT(60), <1>0, <1>1 DEF Sole, Reads
  <2>3. QED
    BY ZenonT(30), <1>0, <1>a, <1>1, <2>1, <2>2, PublishStep
<1>2. CASE Reads(p)
  <2>1. /\ ~ExecutionNeedsRecovery(rec[p])
        /\ \A m \in Nodes : work[p][m] \in Ended \cup {"wait", "read"}
        /\ rec[p] \in Record /\ work \in [Procs -> [Nodes -> Works]]
    BY ZenonT(60), <1>2 DEF Barred, Harmless, Shape, TypeOK
  <2>2. ~Sole(p)'
    BY ZenonT(60), <1>0, <1>2 DEF Sole, Reads
  <2>s. ASSUME NEW w \in Ended \cup {"wait", "read"}, Step(p, n, w)
        PROVE  \A m \in Nodes : work'[p][m] \in Ended \cup {"wait", "read"}
    BY ZenonT(60), <2>1, <2>s DEF Step
  <2>n. ASSUME NoWrite, NEW w \in Ended \cup {"wait", "read"}, Step(p, n, w)
        PROVE  Barred'
    <3>1. Wrote(p, rec[p])
      BY Zenon, <2>n DEF NoWrite, Wrote
    <3>2. QED
      BY ZenonT(30), <1>0, <1>a, <1>2, <2>1, <2>2, <2>n, <2>s, <3>1, PublishStep
  <2>t. ASSUME NEW ph, ph \notin Unresolved, NEW w \in Ended \cup {"wait", "read"},
               Transition(p, n, ph, w)
        PROVE  Barred'
    <3> DEFINE next == WithPhase(rec[p], n, ph)
    <3>1. ~ExecutionNeedsRecovery(next)
      BY ZenonT(60), <2>1, <2>t, ResolvedPhase
    <3>2. /\ WriteOK(p, sid[p], next) \/ WriteErr(p, sid[p], next)
          /\ Step(p, n, w) \/ Step(p, n, "failed")
      BY ZenonT(60), <2>t DEF Transition
    <3> HIDE DEF next
    <3>3. Wrote(p, next)
      BY ZenonT(60), <1>a, <3>2, WriteWrote
    <3>4. \A m \in Nodes : work'[p][m] \in Ended \cup {"wait", "read"}
      BY ZenonT(60), <2>s, <3>2 DEF Ended
    <3>5. QED
      BY ZenonT(30), <1>0, <1>a, <1>2, <2>2, <3>1, <3>3, <3>4, PublishStep
  <2>3. work[p][n] \in {"skipped", "done", "failed", "wait", "read"}
    BY ZenonT(60), <2>1 DEF Ended
  <2>4. SkipNode(p, n) \/ StartNode(p, n) \/ ReadReturns(p, n)
    BY ZenonT(60), <1>2, <2>3 DEF WorkerStep, Reads, RunInit, InitReturns, PlanReturns, RetainPlan,
       SetReview, AdmitPlan, RunMutation, MutationReturns, CollectOutputs, RecoverNode,
       RecoverInit, RecoverOutputs
  <2>5. CASE SkipNode(p, n)
    BY ZenonT(60), <2>5, <2>n DEF SkipNode, Ended
  <2>6. CASE StartNode(p, n)
    <3>1. (NoWrite /\ Step(p, n, "failed")) \/ Transition(p, n, "reading", "read")
      BY ZenonT(60), <1>2, <2>6 DEF StartNode, Reads, Fails
    <3>2. QED
      BY ZenonT(60), <3>1, <2>n, <2>t DEF Ended, Unresolved
  <2>7. CASE ReadReturns(p, n)
    BY ZenonT(60), <2>7, <2>t DEF ReadReturns, Ended, Unresolved
  <2>8. QED
    BY ZenonT(60), <2>4, <2>5, <2>6, <2>7
<1>3. QED
  BY ZenonT(60), <1>0, <1>1, <1>2 DEF Sole, Reads

------------------------------------------------------------------------------
(* The end of a command.                                                    *)

\* finish, finishSaved, the end of a saved step, of a recovery and of a
\* cancellation, and binding the graph keep Barred.
LEMMA EndBarred ==
  ASSUME Shape, Barred, NEW p \in Procs,
         \/ Finish(p) \/ SavedStepDone(p) \/ NoteSavedFailure(p) \/ FinishSaved(p)
         \/ Replan(p) \/ RecoverEnd(p) \/ CancelExecution(p) \/ BindGraph(p)
  PROVE  Barred'
<1>0. UNCHANGED <<lock, forced, cmd, sid>> /\ pc[p] \in Active
  BY ZenonT(60) DEF Finish, SavedStepDone, NoteSavedFailure, FinishSaved, Replan, RecoverEnd,
         CancelExecution, BindGraph, endFrame, env, Active
<1>r. rec[p] \in Record
  BY ZenonT(60) DEF Shape, TypeOK
<1>g. ASSUME NEW l, Goto(p, l)
      PROVE  pc'[p] = l /\ \A q \in Procs : q # p => pc'[q] = pc[q]
  BY ZenonT(60), <1>g DEF Goto, Shape, TypeOK
<1>e. ASSUME NEW next, Wrote(p, next), NEW l \in {"clean", "release"}, Goto(p, l),
             Sole(p) \/ ~ExecutionNeedsRecovery(next)
      PROVE  Barred'
  <2>1. /\ pc'[p] \in (Active \ {"bind", "cancel"}) \cup {"release"}
        /\ ~Sole(p)' /\ ~Reads(p)'
    BY Zenon, <1>e, <1>g DEF Active, Sole, Reads
  <2>2. QED
    BY ZenonT(30), <1>0, <1>e, <1>g, <2>1, PublishStep
<1>s. ASSUME NEW next, Wrote(p, next), NEW l \in {"clean", "release", "finish_saved", "run"},
             Goto(p, l), Sole(p), l = "run" => cmd[p] # "run_read"
      PROVE  Barred'
  <2>1. /\ pc'[p] \in (Active \ {"bind", "cancel"}) \cup {"release"}
        /\ ~Reads(p)'
    BY Zenon, <1>0, <1>s, <1>g DEF Active, Reads
  <2>2. QED
    BY ZenonT(30), <1>0, <1>s, <1>g, <2>1, PublishStep
<1>p. ASSUME NEW next, NEW l, NEW e, Publish(p, next, l, e)
      PROVE  Wrote(p, next) /\ (Goto(p, l) \/ Goto(p, e))
  BY ZenonT(60), <1>0, <1>p, WriteWrote DEF Publish
<1>1. CASE Finish(p)
  <2>1. PICK ok \in BOOLEAN : Publish(p, Finished(rec[p], ok), "clean", "release")
    BY Zenon, <1>1 DEF Finish
  <2>2. Sole(p) \/ ~ExecutionNeedsRecovery(Finished(rec[p], ok))
    BY ZenonT(60), <1>1, <1>r, FinishedSound DEF Finish, Sole, Reads, Barred, Harmless
  <2>3. QED
    BY ZenonT(60), <2>1, <2>2, <1>e, <1>p
<1>2. CASE SavedStepDone(p) \/ NoteSavedFailure(p) \/ FinishSaved(p)
  <2>1. Sole(p)
    BY Zenon, <1>2 DEF SavedStepDone, NoteSavedFailure, FinishSaved, Sole, SavedKinds
  <2>2. \E next : \/ Publish(p, next, "clean", "finish_saved")
                  \/ Publish(p, next, "finish_saved", "finish_saved")
                  \/ Publish(p, next, "clean", "release")
    BY Zenon, <1>2 DEF SavedStepDone, NoteSavedFailure, FinishSaved
  <2>3. QED
    BY ZenonT(60), <2>1, <2>2, <1>s, <1>p
<1>3. CASE Replan(p) \/ RecoverEnd(p)
  <2>1. Sole(p)
    BY Zenon, <1>3 DEF Replan, RecoverEnd, Sole
  <2>2. \/ Publish(p, Recovered(rec[p]), "release", "release")
        \/ Goto(p, "release") /\ NoWrite
    BY Zenon, <1>3 DEF Replan, RecoverEnd
  <2>3. NoWrite => Wrote(p, rec[p])
    BY Zenon DEF NoWrite, Wrote
  <2>4. QED
    BY ZenonT(60), <2>1, <2>2, <2>3, <1>s, <1>p
<1>4. CASE CancelExecution(p)
  <2>1. Publish(p, Terminal(rec[p], "cancelled"), "clean", "release") /\ pc[p] = "cancel"
    BY Zenon, <1>4 DEF CancelExecution
  <2>2. ~ExecutionNeedsRecovery(Terminal(rec[p], "cancelled"))
    BY ZenonT(60), <1>r, <2>1, FinishedSound DEF Barred, Harmless
  <2>3. QED
    BY ZenonT(60), <2>1, <2>2, <1>e, <1>p
<1>5. CASE BindGraph(p)
  <2>1. pc[p] = "bind" /\ Sole(p) /\ cmd[p] # "run_read"
    BY ZenonT(60), <1>5 DEF BindGraph, Sole, Barred, Admitted
  <2>2. \/ Goto(p, "finish_saved") /\ NoWrite
        \/ Publish(p, rec[p], "run", "finish_saved")
        \/ Publish(p, rec[p], "finish_saved", "finish_saved")
    BY ZenonT(60), <1>5 DEF BindGraph
  <2>3. NoWrite => Wrote(p, rec[p])
    BY Zenon DEF NoWrite, Wrote
  <2>4. QED
    BY ZenonT(60), <2>1, <2>2, <2>3, <1>s, <1>p
<1>6. QED
  BY ZenonT(60), <1>1, <1>2, <1>3, <1>4, <1>5

------------------------------------------------------------------------------
(* Starting a command.                                                      *)

\* A new record blocks nothing.
LEMMA NewRecordResolved ==
  ASSUME NEW s, NEW sel
  PROVE  ~ExecutionNeedsRecovery(NewRecord(s, sel))
BY Zenon DEF NewRecord, ExecutionNeedsRecovery, Unresolved

\* The barrier and pruneExecutions keep Barred: only resolved records are
\* expired or removed, and the barrier lets nothing pass that could block
\* beside another record.
LEMMA PruneBarred ==
  ASSUME Shape, Barred, NEW p \in Procs,
         CheckExecutionBarrier(p) \/ PruneStep(p) \/ CleanupExecution(p)
  PROVE  Barred'
<1> USE DEF object, session, env
<1>0. /\ pc[p] \in {"locked", "prune", "clean"} /\ pc[p] # "idle"
      /\ UNCHANGED <<lock, forced, cmd, sid>>
  BY ZenonT(30) DEF CheckExecutionBarrier, PruneStep, PruneSkip, PruneExpire, PruneError,
         PruneBundles, PruneRecord, PruneEnd, CleanupExecution
<1>g. ASSUME NEW l, Goto(p, l)
      PROVE  pc'[p] = l /\ \A q \in Procs : q # p => pc'[q] = pc[q]
  BY ZenonT(60), <1>g DEF Goto, Shape, TypeOK
<1>l. ASSUME UNCHANGED store, Goto(p, "release") PROVE Barred'
  BY ZenonT(60), <1>0, <1>l, <1>g, LeaveStep
\* A step of the loop on record i, which stays or becomes resolved.
<1>w. ASSUME pc[p] = "prune", NEW i \in Ids \cup {NoId},
             \A j \in Ids : j # i => store'[j] = store[j],
             i \in Ids => ~ExecutionNeedsRecovery(store'[i].rec),
             UNCHANGED pc \/ Goto(p, "release")
      PROVE  Barred'
  <2>1. /\ pc'[p] \in {"prune", "release"}
        /\ \A q \in Procs : q # p => pc'[q] = pc[q]
    BY ZenonT(60), <1>g, <1>w
  <2>2. Passed(p)' => OnlyBlocks(NoId)'
    <3>1. Passed(p)' => OnlyBlocks(NoId)
      BY ZenonT(60), <1>0, <1>w, <2>1 DEF Passed, Barred, Admitted
    <3>2. QED
      BY ZenonT(60), <1>w, <3>1 DEF OnlyBlocks, Blocks
  <2>3. Admitted(p)' /\ Harmless(p)'
    BY Zenon, <2>1, <2>2 DEF Admitted, Harmless, Sole, Reads
  <2>4. QED
    BY ZenonT(30), <1>0, <1>w, <2>1, <2>3, HolderStep
<1>1. CASE CheckExecutionBarrier(p)
  <2>1. UNCHANGED store
    BY Zenon, <1>1 DEF CheckExecutionBarrier
  <2>2. CASE Goto(p, "release")
    BY ZenonT(60), <2>1, <2>2, <1>l
  <2>3. CASE Goto(p, "prune") /\ (cmd[p] \in Unbarred \/ Blocking(NoId) = {})
    <3>1. pc'[p] = "prune" /\ \A q \in Procs : q # p => pc'[q] = pc[q]
      BY ZenonT(60), <2>3, <1>g
    <3>2. Blocking(NoId) = {} => OnlyBlocks(NoId)'
      BY ZenonT(60), <2>1 DEF Blocking, OnlyBlocks, Barred, Blocks
    <3>3. Admitted(p)' /\ Harmless(p)'
      BY ZenonT(60), <1>0, <2>3, <3>1, <3>2 DEF Admitted, Harmless, Passed, Sole, Reads
    <3>4. QED
      BY ZenonT(30), <1>0, <2>1, <3>1, <3>3, HolderStep, SentinelAssumption
  <2>4. QED
    BY ZenonT(60), <1>1, <2>2, <2>3 DEF CheckExecutionBarrier
<1>2. ASSUME NEW i \in Ids, PruneSkip(p, i) \/ PruneError(p, i) \/ PruneBundles(p, i)
      PROVE  Barred'
  <2>1. pc[p] = "prune" /\ UNCHANGED store /\ (UNCHANGED pc \/ Goto(p, "release"))
    BY ZenonT(30), <1>2 DEF PruneSkip, PruneError, PruneBundles
  <2>2. QED
    BY ZenonT(60), <2>1, <1>w, SentinelAssumption
<1>3. ASSUME NEW i \in Ids, PruneExpire(p, i) PROVE Barred'
  <2> DEFINE r == store[i].rec
  <2>1. /\ pc[p] = "prune" /\ ~ExecutionNeedsRecovery(r)
        /\ UNCHANGED store \/ Put(i, Terminal(r, "expired"))
        /\ UNCHANGED pc \/ Goto(p, "release")
    BY Zenon, <1>3 DEF PruneExpire
  <2>2. /\ ~ExecutionNeedsRecovery(store'[i].rec)
        /\ \A j \in Ids : j # i => store'[j] = store[j]
    <3>1. ~ExecutionNeedsRecovery(Terminal(r, "expired"))
      BY ZenonT(60), <2>1, FinishedSound DEF Shape, TypeOK
    <3>2. QED
      BY ZenonT(60), <2>1, <3>1, PutFresh DEF Shape
  <2>3. QED
    BY ZenonT(60), <2>1, <2>2, <1>w
<1>4. ASSUME NEW i \in Ids, PruneRecord(p, i) PROVE Barred'
  <2>1. /\ pc[p] = "prune" /\ ~ExecutionNeedsRecovery(store[i].rec)
        /\ \/ UNCHANGED store
           \/ store' = [store EXCEPT ![i] = [rev |-> NoRev, rec |-> NullRecord]]
        /\ UNCHANGED pc \/ Goto(p, "release")
    BY ZenonT(30), <1>4 DEF PruneRecord, Settled
  <2>2. /\ ~ExecutionNeedsRecovery(store'[i].rec)
        /\ \A j \in Ids : j # i => store'[j] = store[j]
    <3>1. ~ExecutionNeedsRecovery(NullRecord)
      BY Zenon, NewRecordResolved DEF NullRecord
    <3>2. CASE store' = [store EXCEPT ![i] = [rev |-> NoRev, rec |-> NullRecord]]
      <4>1. /\ store'[i].rec = NullRecord
            /\ \A j \in Ids : j # i => store'[j] = store[j]
        BY ZenonT(30), <3>2 DEF Shape, TypeOK
      <4>2. QED
        BY ZenonT(60), <3>1, <4>1
    <3>3. QED
      BY ZenonT(60), <2>1, <3>2
  <2>3. QED
    BY ZenonT(60), <2>1, <2>2, <1>w
<1>5. CASE PruneEnd(p)
  <2>1. /\ pc[p] = "prune" /\ UNCHANGED store
        /\ \/ Goto(p, "release")
           \/ Goto(p, "create") /\ cmd[p] # "prune"
    BY Zenon, <1>5 DEF PruneEnd
  <2>2. CASE Goto(p, "create") /\ cmd[p] # "prune"
    <3>1. pc'[p] = "create" /\ \A q \in Procs : q # p => pc'[q] = pc[q]
      BY ZenonT(60), <2>2, <1>g
    <3>2. Passed(p)' => OnlyBlocks(NoId)'
      BY ZenonT(60), <1>0, <2>1 DEF Passed, Barred, Admitted, OnlyBlocks, Blocks
    <3>3. Admitted(p)' /\ Harmless(p)'
      BY Zenon, <1>0, <2>2, <3>1, <3>2 DEF Admitted, Harmless, Sole, Reads
    <3>4. QED
      BY ZenonT(30), <1>0, <2>1, <3>1, <3>3, HolderStep, SentinelAssumption
  <2>3. QED
    BY ZenonT(60), <2>1, <2>2, <1>l
<1>6. CASE CleanupExecution(p)
  BY ZenonT(60), <1>6, <1>l DEF CleanupExecution
<1>7. QED
  BY ZenonT(60), <1>1, <1>2, <1>3, <1>4, <1>5, <1>6 DEF PruneStep

\* beginExecution's write: the new record blocks nothing, and the others did
\* not when the barrier was passed.
LEMMA CreateBarred ==
  ASSUME Shape, Barred, NEW p \in Procs, CreateRecord(p)
  PROVE  Barred'
<1>0. /\ pc[p] = "create" /\ pc[p] # "idle"
      /\ UNCHANGED <<lock, forced, cmd>>
  BY ZenonT(30) DEF CreateRecord
<1>1. PICK i \in Ids, sel \in SelectionsOf(cmd[p]) :
        \/ /\ WriteOK(p, i, NewRecord(cmd[p] = "save", sel))
           /\ sid' = [sid EXCEPT ![p] = i]
           /\ IF cmd[p] = "save"
              THEN Goto(p, "bind") /\ UNCHANGED work
              ELSE Goto(p, "run") /\ work' = [work EXCEPT ![p] = Waiting(sel)]
        \/ WriteErr(p, i, NewRecord(cmd[p] = "save", sel)) /\ Goto(p, "release")
  BY ZenonT(30) DEF CreateRecord
<1> DEFINE new == NewRecord(cmd[p] = "save", sel)
<1>n. ~ExecutionNeedsRecovery(new)
  BY ZenonT(60), NewRecordResolved
<1>g. ASSUME NEW l, Goto(p, l)
      PROVE  pc'[p] = l /\ \A q \in Procs : q # p => pc'[q] = pc[q]
  BY ZenonT(60), <1>g DEF Goto, Shape, TypeOK
<1>2. CASE WriteErr(p, i, new) /\ Goto(p, "release")
  <2>1. UNCHANGED store \/ Put(i, new)
    BY Zenon, <1>2 DEF WriteErr
  <2> HIDE DEF new
  <2>2. Admitted(p)' /\ Harmless(p)'
    <3>1. pc'[p] = "release"
      BY ZenonT(60), <1>2, <1>g
    <3>2. ~Passed(p)' /\ ~Sole(p)' /\ ~Reads(p)'
      BY Zenon, <3>1 DEF Passed, Sole, Reads
    <3>3. QED
      BY ZenonT(60), <3>1, <3>2 DEF Admitted, Harmless
  <2>3. CASE UNCHANGED store
    BY ZenonT(30), <1>0, <1>2, <1>g, <2>3, LeaveStep
  <2>4. CASE Put(i, new)
    <3>1. store'[i].rec = new /\ \A j \in Ids : j # i => store'[j] = store[j]
      BY ZenonT(60), <2>4, PutFresh DEF Shape
    <3>2. QED
      BY ZenonT(30), <1>0, <1>2, <1>g, <1>n, <2>2, <3>1, HolderStep
  <2>5. QED
    BY ZenonT(60), <2>1, <2>3, <2>4
<1>3. CASE /\ WriteOK(p, i, new)
           /\ sid' = [sid EXCEPT ![p] = i]
           /\ \/ cmd[p] = "save" /\ Goto(p, "bind")
              \/ Goto(p, "run") /\ work' = [work EXCEPT ![p] = Waiting(sel)]
  <2>1. Put(i, new) /\ rec' = [rec EXCEPT ![p] = new]
    BY ZenonT(60), <1>3 DEF WriteOK
  <2> HIDE DEF new
  <2>2. /\ store'[i].rec = new /\ \A j \in Ids : j # i => store'[j] = store[j]
        /\ rec'[p] = new /\ sid'[p] = i
    BY ZenonT(30), <1>3, <2>1, PutFresh DEF Shape, TypeOK
  <2>g. /\ \/ cmd[p] = "save" /\ pc'[p] = "bind"
           \/ pc'[p] = "run" /\ work' = [work EXCEPT ![p] = Waiting(sel)]
        /\ \A q \in Procs : q # p => pc'[q] = pc[q]
    BY ZenonT(60), <1>3, <1>g
  <2>3. /\ pc'[p] \in {"bind", "run"}
        /\ pc'[p] = "bind" => cmd[p] = "save"
        /\ \A q \in Procs : q # p => pc'[q] = pc[q]
    BY Zenon, <2>g
  <2>4. cmd[p] # "run_read" => OnlyBlocks(i)'
    <3>1. cmd[p] # "run_read" => OnlyBlocks(NoId)
      BY ZenonT(60), <1>0 DEF Barred, Admitted, Passed, Unbarred
    <3>2. QED
      BY ZenonT(60), <2>2, <3>1, SentinelAssumption DEF OnlyBlocks, Blocks
  <2>5. pc'[p] = "run" => \A n \in Nodes : work'[p][n] \in Ended \cup {"wait", "read"}
    <3>1. CASE work' = [work EXCEPT ![p] = Waiting(sel)]
      BY ZenonT(60), <3>1 DEF Waiting, Ended, Shape, TypeOK
    <3>2. QED
      BY Zenon, <2>g, <3>1
  <2>6. Admitted(p)'
    <3>1. Sole(p)' => cmd[p] # "run_read"
      BY ZenonT(60), <1>0, <2>3 DEF Sole
    <3>2. Sole(p)' => OnlyBlocks(sid[p])'
      BY ZenonT(60), <2>2, <2>4, <3>1 DEF OnlyBlocks
    <3>3. QED
      BY Zenon, <1>0, <2>3, <3>2 DEF Admitted, Passed
  <2>7. Harmless(p)'
    BY ZenonT(60), <1>n, <2>2, <2>3, <2>5 DEF Harmless, Reads
  <2>8. QED
    BY ZenonT(30), <1>0, <1>n, <2>2, <2>3, <2>6, <2>7, HolderStep
<1>4. QED
  BY ZenonT(60), <1>1, <1>2, <1>3

\* Resuming is barred by every other unresolved execution; recovery opens the
\* one that is; a cancellation opens a record that is not.
LEMMA OpenBarred ==
  ASSUME Shape, Barred, NEW p \in Procs,
         OpenSavedExecution(p) \/ OpenRecovery(p) \/ OpenCancel(p)
  PROVE  Barred'
<1> USE DEF object, env
<1>0. /\ pc[p] = "locked" /\ pc[p] # "idle"
      /\ cmd[p] \in ResumeKinds \cup RecoverKinds \cup {"cancel"}
      /\ UNCHANGED <<store, sid, cmd, lock, forced>>
  BY ZenonT(30) DEF OpenSavedExecution, OpenRecovery, OpenCancel
<1>i. sid[p] \in Ids /\ cmd[p] # "run_read"
  BY ZenonT(30), <1>0 DEF Shape, Control, SessionNamed, ResumeKinds, RecoverKinds, BeginKinds, RunKinds
<1>g. ASSUME NEW l, Goto(p, l)
      PROVE  pc'[p] = l /\ \A q \in Procs : q # p => pc'[q] = pc[q]
  BY ZenonT(60), <1>g DEF Goto, Shape, TypeOK
<1>l. ASSUME NEW l \in {"clean", "release"}, Goto(p, l) PROVE Barred'
  BY ZenonT(60), <1>0, <1>l, <1>g, LeaveStep
<1>s. ASSUME OnlyBlocks(sid[p]), NEW l \in {"bind", "run", "recover", "replan"}, Goto(p, l)
      PROVE  Barred'
  <2>1. OnlyBlocks(sid[p])'
    BY ZenonT(60), <1>0, <1>s DEF OnlyBlocks, Blocks
  <2>2. Admitted(p)' /\ Harmless(p)'
    BY Zenon, <1>0, <1>i, <1>s, <1>g, <2>1 DEF Admitted, Harmless, Passed, Sole, Reads
  <2>3. QED
    BY ZenonT(30), <1>0, <1>s, <1>g, <2>2, HolderStep, SentinelAssumption
<1>1. CASE OpenSavedExecution(p)
  <2>1. \/ Goto(p, "release")
        \/ Blocking(sid[p]) = {} /\ (Goto(p, "bind") \/ Goto(p, "run"))
    BY ZenonT(30), <1>1 DEF OpenSavedExecution
  <2>2. Blocking(sid[p]) = {} => OnlyBlocks(sid[p])
    BY Zenon DEF Blocking, OnlyBlocks, Barred, Blocks
  <2>3. QED
    BY ZenonT(60), <2>1, <2>2, <1>l, <1>s
<1>2. CASE OpenRecovery(p)
  <2>1. \/ Goto(p, "release")
        \/ /\ ExecutionNeedsRecovery(store[sid[p]].rec)
           /\ cmd[p] \in RecoverKinds /\ Goto(p, cmd[p])
    BY ZenonT(30), <1>2 DEF OpenRecovery, ReadError
  <2>2. ExecutionNeedsRecovery(store[sid[p]].rec) => OnlyBlocks(sid[p])
    BY Zenon, <1>i DEF Barred, OneUnresolved, OnlyBlocks, Blocks
  <2>3. QED
    BY ZenonT(60), <2>1, <2>2, <1>l, <1>s DEF RecoverKinds
<1>3. CASE OpenCancel(p)
  <2>1. \/ Goto(p, "release") \/ Goto(p, "clean")
        \/ /\ ~ExecutionNeedsRecovery(store[sid[p]].rec) /\ Open(p) /\ Goto(p, "cancel")
    BY ZenonT(30), <1>3 DEF OpenCancel, ReadError, AfterOpenCancel
  <2>2. CASE ~ExecutionNeedsRecovery(store[sid[p]].rec) /\ Open(p) /\ Goto(p, "cancel")
    <3>1. rec'[p] = store[sid[p]].rec
      BY ZenonT(60), <2>2 DEF Open, Shape, TypeOK
    <3>2. Admitted(p)' /\ Harmless(p)'
      BY SMTT(30), Z3T(30), <2>2, <3>1, <1>g DEF Admitted, Harmless, Passed, Sole, Reads
    <3>3. QED
      BY ZenonT(30), <1>0, <2>2, <3>2, <1>g, HolderStep, SentinelAssumption
  <2>3. QED
    BY ZenonT(60), <2>1, <2>2, <1>l
<1>4. QED
  BY ZenonT(60), <1>1, <1>2, <1>3

\* A command starts when nobody holds the lock.
LEMMA AcquireBarred ==
  ASSUME Shape, Barred, NEW p \in Procs, NEW k \in Kinds, NEW i \in Ids \cup {NoId},
         Acquire(p, k, i)
  PROVE  Barred'
<1>0. /\ lock = NoProc /\ lock' = p /\ UNCHANGED <<store, forced>>
      /\ \A q \in Procs : pc'[q] = IF q = p THEN "locked" ELSE pc[q]
  BY Zenon DEF Acquire, Goto, object, env, Shape, TypeOK
<1>1. \A q \in Procs : pc'[q] = IF q = p THEN "locked" ELSE "idle"
  BY ZenonT(60), <1>0, SentinelAssumption DEF Barred, LockHeld
<1>2. \A q \in Procs : (Admitted(q) /\ Harmless(q))'
  BY Zenon, <1>1 DEF Admitted, Harmless, Passed, Sole, Reads
<1>3. LockHeld'
  BY ZenonT(60), <1>0, <1>1 DEF LockHeld
<1>4. QED
  BY ZenonT(60), <1>0, <1>2, <1>3 DEF Barred, OneUnresolved, Blocks, Exists

\* The process ends and gives up the lock, or dies; the lock of a dead
\* process goes; subprocesses exit and plans expire.
LEMMA EnvironmentBarred ==
  ASSUME Shape, Barred, (\E p \in Procs : Release(p)) \/ Environment
  PROVE  Barred'
<1> USE DEF object, control, session, ghost, env
<1>1. ASSUME NEW p \in Procs, Release(p) \/ Crash(p) PROVE Barred'
  <2>1. /\ pc[p] # "idle" /\ UNCHANGED <<store, forced>>
        /\ \A q \in Procs : pc'[q] = IF q = p THEN "idle" ELSE pc[q]
    BY ZenonT(60), <1>1 DEF Release, Crash, Forget, Shape, TypeOK
  <2>2. \A q \in Procs : pc'[q] = "idle"
    BY ZenonT(60), <2>1 DEF Barred, LockHeld
  <2>3. \A q \in Procs : (Admitted(q) /\ Harmless(q))'
    BY Zenon, <2>2 DEF Admitted, Harmless, Passed, Sole, Reads
  <2>4. LockHeld'
    BY Zenon, <2>2 DEF LockHeld
  <2>5. QED
    BY ZenonT(60), <2>1, <2>3, <2>4 DEF Barred, OneUnresolved, Blocks, Exists
<1>2. CASE OrphanExits \/ Unlock \/ PlanExpires
  <2>1. UNCHANGED <<store, pc, cmd, sid, rec, work>>
    BY Zenon, <1>2 DEF OrphanExits, Unlock, PlanExpires
  <2>2. UNCHANGED <<lock, forced>> \/ Unlock
    BY Zenon, <1>2 DEF OrphanExits, PlanExpires
  <2>3. UNCHANGED forced /\ LockHeld'
    <3>1. CASE Unlock
      <4>1. ~(forced > 0)
        BY SMTT(30), Z3T(30) DEF Barred
      <4>2. lock \in Procs /\ pc[lock] = "idle" /\ UNCHANGED forced
        BY ZenonT(60), <3>1, <4>1 DEF Unlock, Shape, TypeOK
      <4>3. \A q \in Procs : pc[q] = "idle"
        BY ZenonT(60), <4>2 DEF Barred, LockHeld
      <4>4. QED
        BY ZenonT(60), <2>1, <4>2, <4>3 DEF LockHeld
    <3>2. QED
      BY ZenonT(60), <2>1, <2>2, <3>1 DEF Barred, LockHeld
  <2>4. \A q \in Procs : (Admitted(q) /\ Harmless(q))'
    BY Zenon, <2>1 DEF Barred, Admitted, Harmless, Passed, Sole, Reads, OnlyBlocks, Blocks
  <2>5. QED
    BY ZenonT(60), <2>1, <2>3, <2>4 DEF Barred, OneUnresolved, Blocks, Exists
<1>3. QED
  BY ZenonT(60), <1>1, <1>2 DEF Environment

------------------------------------------------------------------------------
\* Every step of the protocol keeps Barred.
LEMMA BarredStep ==
  ASSUME Shape, Barred, [Next]_vars
  PROVE  Barred'
<1>1. CASE UNCHANGED vars
  <2>1. UNCHANGED <<store, pc, cmd, sid, rec, work, lock, forced>>
    BY ZenonT(60), <1>1 DEF vars
  <2>2. \A q \in Procs : (Admitted(q) /\ Harmless(q))'
    BY Zenon, <2>1 DEF Barred, Admitted, Harmless, Passed, Sole, Reads, OnlyBlocks, Blocks
  <2>3. QED
    BY ZenonT(60), <2>1, <2>2 DEF Barred, OneUnresolved, LockHeld, Blocks, Exists
<1>2. ASSUME NEW p \in Procs, CommandStep(p) PROVE Barred'
  BY ZenonT(60), <1>2, PruneBarred, CreateBarred, OpenBarred, EndBarred, WorkerBarred,
     EnvironmentBarred DEF CommandStep
<1>3. QED
  BY ZenonT(60), <1>1, <1>2, AcquireBarred, EnvironmentBarred DEF Next

\* While no lock is broken under a live holder (a force-unlock only ever meets
\* a dead process), checkExecutionBarrier admits no second unresolved
\* execution: for any number of processes, nodes, executions, crashes and
\* store errors, whatever commands are issued.
THEOREM BarrierHolds == ASSUME MaxForced = 0 PROVE Spec => []OneUnresolved
<1>1. ASSUME Init PROVE Barred
  <2>1. \A i \in Ids : ~ExecutionNeedsRecovery(store[i].rec)
    BY ZenonT(60), <1>1, NewRecordResolved DEF Init, NullRecord
  <2>2. forced = 0 /\ \A p \in Procs : pc[p] = "idle"
    BY ZenonT(60), <1>1 DEF Init
  <2>3. \A p \in Procs : Admitted(p) /\ Harmless(p)
    BY Zenon, <2>2 DEF Admitted, Harmless, Passed, Sole, Reads
  <2>4. QED
    BY ZenonT(60), <2>1, <2>2, <2>3 DEF Barred, OneUnresolved, LockHeld, Blocks
<1>2. Init => Shape /\ Barred
  BY ZenonT(60), <1>1, ShapeInit
<1>3. Shape /\ Barred /\ [Next]_vars => (Shape /\ Barred)'
  BY ZenonT(60), ShapeStep, BarredStep
<1>4. Shape /\ Barred => OneUnresolved
  BY Zenon DEF Barred
<1>5. QED
  BY <1>2, <1>3, <1>4, PTL DEF Spec
==============================================================================

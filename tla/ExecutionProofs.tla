--------------------------- MODULE ExecutionProofs ---------------------------
(***************************************************************************)
(* What stays in the journal: outcomes and plans.                          *)
(*                                                                         *)
(* The first part shows what no step does to a stored outcome, from the    *)
(* invariant Lived.  The second shows that the plans a record refers to    *)
(* stay stored (WaitingPlansKept, EvidenceKept), from the invariant        *)
(* Evidence.                                                               *)
(***************************************************************************)
EXTENDS ExecutionSafeProofs

------------------------------------------------------------------------------
(* Outcomes.  That a settled record keeps its outcome, and an unknown one   *)
(* is not relabelled, rests on what the sessions hold: a session that can   *)
(* still write holds a record that is not finished (OpenSession), what it   *)
(* writes is finished only when nothing is unresolved (Sound), and its      *)
(* write lands only on the record it holds (SessionCurrent).                *)

\* The statuses a finished record never has.
OpenStatuses == {"preparing", "waiting_for_apply", "ready_for_next_plan", "needs_recovery"}

Sound(r) == r.finished => r.status \notin OpenStatuses /\ ~ExecutionNeedsRecovery(r)

\* Where a session may still write.
Writers == Active \ {"clean"}

OpenSession(p) ==
  /\ pc[p] \in Writers => ~rec[p].finished
  /\ pc[p] \in {"bind", "run", "finish_saved"} => ~rec[p].prep
  /\ pc[p] = "cancel" => ~ExecutionNeedsRecovery(rec[p])
  /\ pc[p] = "recover" => \A n \in Nodes :
       work[p][n] \in Busy \cup {"wait"} => rec[p].phase[n] = "applied"

Lived == /\ \A i \in Ids : /\ Sound(store[i].rec)
                           /\ store[i].rev = NoRev => store[i].rec = NullRecord
         /\ \A p \in Procs : OpenSession(p)

\* The phases that leave a mutation unknown.
Unknown == Unresolved \ {"applied"}

\* What SettledIsFinal and UnknownStaysUnknown say of one step.
SettledKept ==
  \A i \in Ids : Exists(i) /\ Settled(store[i].rec)
    => store'[i].rev = NoRev \/ store'[i].rec = store[i].rec

UnknownKept ==
  \A i \in Ids :
    (\A p \in Procs : sid[p] = i => pc[p] # "run") =>
      \A n \in Nodes :
        store[i].rec.phase[n] \in Unresolved \ {"applied"} =>
          \/ store'[i].rev = NoRev
          \/ store'[i].rec.phase[n] = store[i].rec.phase[n]

StepSound == Lived' /\ SettledKept /\ UnknownKept

\* The outcome of a session's publish: next is stored over the revision the
\* session holds, known to the session or not, or nothing happened.
Wrote(p, next) ==
  \/ /\ store[sid[p]].rev = rev[p]
     /\ store'[sid[p]].rec = next /\ store'[sid[p]].rev # NoRev
     /\ \A j \in Ids : j # sid[p] => store'[j] = store[j]
     /\ rec'[p] \in {next, rec[p]}
     /\ \A q \in Procs : q # p => rec'[q] = rec[q]
  \/ UNCHANGED <<store, rec>>

\* executionSession.publish, and steps that write nothing.
LEMMA WriteWrote ==
  ASSUME Shape, NEW p \in Procs, pc[p] \in Active, NEW next,
         \/ WriteOK(p, sid[p], next) \/ WriteErr(p, sid[p], next)
         \/ UNCHANGED <<store, rec>>
  PROVE  Wrote(p, next)
<1>1. sid[p] \in Ids
  BY Zenon DEF Shape, Control, SessionNamed
<1>2. CASE UNCHANGED <<store, rec>>
  BY Zenon, <1>2 DEF Wrote
<1>3. CASE Landed(p, next) /\ (Acked(p, next) \/ NotAcked(p))
  BY ZenonT(30), <1>3, SentinelAssumption DEF Landed, Acked, NotAcked, Wrote
<1>4. QED
  BY ZenonT(30), <1>1, <1>2, <1>3, WriteCases DEF Shape

\* A step of p that leaves the store alone.
LEMMA QuietSound ==
  ASSUME Lived, NEW p \in Procs, UNCHANGED store, OthersStay(p),
         \A q \in Procs : q # p => rec'[q] = rec[q], OpenSession(p)'
  PROVE  StepSound
<1>1. SettledKept /\ UnknownKept
  BY Zenon DEF SettledKept, UnknownKept
<1>2. \A q \in Procs : q # p => (OpenSession(q))'
  BY DEF Lived, OpenSession, OthersStay
<1>3. QED
  BY Zenon, <1>1, <1>2 DEF StepSound, Lived

\* A publish of a session that may still write.
LEMMA PublishSound ==
  ASSUME Shape, Safe, Lived, NEW p \in Procs, pc[p] \in Writers, NEW next,
         Wrote(p, next), Sound(next), UNCHANGED sid, OthersStay(p), OpenSession(p)',
         pc[p] # "run" => \A n \in Nodes :
           rec[p].phase[n] \in Unknown => next.phase[n] = rec[p].phase[n]
  PROVE  StepSound
<1>1. CASE UNCHANGED <<store, rec>>
  BY Zenon, <1>1, QuietSound
<1>2. CASE ~UNCHANGED <<store, rec>>
  <2> DEFINE i == sid[p]
  <2>1. /\ store[i].rev = rev[p]
        /\ store'[i].rec = next /\ store'[i].rev # NoRev
        /\ \A j \in Ids : j # i => store'[j] = store[j]
        /\ \A q \in Procs : q # p => rec'[q] = rec[q]
    BY Zenon, <1>2 DEF Wrote
  <2>2. i \in Ids /\ rev[p] # NoRev /\ pc[p] \in Active
    BY Zenon DEF Shape, Control, SessionNamed, Safe, Revisions, Writers
  <2>3. store[i].rec = rec[p] /\ ~rec[p].finished
    BY Zenon, <2>1, <2>2, SentinelAssumption DEF Safe, SessionCurrent, Lived, OpenSession
  <2> HIDE DEF i
  <2>4. SettledKept
    BY Zenon, <2>1, <2>3 DEF SettledKept, Settled
  <2>5. UnknownKept
    <3>1. SUFFICES ASSUME NEW j \in Ids, \A q \in Procs : sid[q] = j => pc[q] # "run",
                          NEW n \in Nodes, store[j].rec.phase[n] \in Unknown
                   PROVE  \/ store'[j].rev = NoRev
                          \/ store'[j].rec.phase[n] = store[j].rec.phase[n]
      BY Zenon DEF UnknownKept, Unknown
    <3>2. CASE j = i
      BY ZenonT(60), <2>1, <2>3, <3>1, <3>2 DEF i
    <3>3. CASE j # i
      BY ZenonT(60), <2>1, <3>3
    <3>4. QED
      BY Zenon, <3>2, <3>3
  <2>6. \A q \in Procs : q # p => OpenSession(q)'
    BY SMTT(30), Z3T(30), <2>1 DEF Lived, OpenSession, OthersStay
  <2>7. \A j \in Ids : /\ Sound(store'[j].rec)
                       /\ store'[j].rev = NoRev => store'[j].rec = NullRecord
    BY ZenonT(60), <2>1 DEF Lived
  <2>8. QED
    BY Zenon, <2>4, <2>5, <2>6, <2>7 DEF StepSound, Lived
<1>3. QED
  BY Zenon, <1>1, <1>2

------------------------------------------------------------------------------
(* The workers.                                                             *)

\* A phase is set: nothing else of the record changes.
LEMMA WithPhaseKeeps ==
  ASSUME NEW r \in Record, NEW n \in Nodes, NEW ph
  PROVE  /\ WithPhase(r, n, ph).recovered = r.recovered
         /\ WithPhase(r, n, ph).prep = r.prep
         /\ WithPhase(r, n, ph).finished = r.finished
         /\ \A m \in Nodes : WithPhase(r, n, ph).phase[m] = IF m = n THEN ph ELSE r.phase[m]
BY DEF WithPhase, Record

\* Whatever a worker does, its session publishes one record or none, that
\* record is as finished as the one it had, and the command stays where it
\* is or ends.
LEMMA WorkerWrites ==
  ASSUME Shape, NEW p \in Procs, NEW n \in Nodes, WorkerStep(p, n)
  PROVE  /\ \E next : /\ Wrote(p, next) /\ next.finished = rec[p].finished
                      /\ pc[p] = "run" => next.prep = rec[p].prep
         /\ pc[p] \in {"run", "recover"} /\ pc'[p] \in {pc[p], "release"}
         /\ \A q \in Procs : q # p => pc'[q] = pc[q]
         /\ UNCHANGED <<lock, forced, cmd, sid>>
<1> DEFINE Same(next) == /\ next.finished = rec[p].finished
                         /\ pc[p] = "run" => next.prep = rec[p].prep
           Writes == \/ UNCHANGED <<store, rec>>
                     \/ \E next : /\ Same(next)
                                  /\ WriteOK(p, sid[p], next) \/ WriteErr(p, sid[p], next)
           Goal == /\ Writes
                   /\ pc[p] \in {"run", "recover"} /\ pc'[p] \in {pc[p], "release"}
                   /\ \A q \in Procs : q # p => pc'[q] = pc[q]
                   /\ UNCHANGED <<lock, forced, cmd, sid>>
<1> USE DEF workerFrame, env
<1>r. rec[p] \in Record
  BY Zenon DEF Shape, TypeOK
<1>s. SUFFICES Goal
  <2>1. ASSUME Goal PROVE \E next : Wrote(p, next) /\ Same(next)
    <3>1. pc[p] \in Active
      BY Zenon, <2>1 DEF Active
    <3>2. Same(rec[p])
      BY Zenon
    <3>3. QED
      BY Zenon, <2>1, <3>1, <3>2, WriteWrote
  <2>2. QED
    BY Zenon, <2>1
<1>t. ASSUME NEW ph, NEW w, Transition(p, n, ph, w) PROVE Writes
  <2>1. Same(WithPhase(rec[p], n, ph))
    BY SMTT(30), <1>r, WithPhaseKeeps
  <2>2. QED
    BY Zenon, <1>t, <2>1 DEF Transition
<1>f. Fails(p, n) \/ NoWrite => Writes
  BY Zenon DEF Fails, NoWrite
<1>1. CASE SkipNode(p, n)
  BY Zenon, <1>1, <1>f DEF SkipNode, Ready
<1>2. CASE StartNode(p, n)
  BY Zenon, <1>2, <1>f, <1>t DEF StartNode, Ready
<1>3. CASE RunInit(p, n)
  BY Zenon, <1>3, <1>f, <1>t DEF RunInit
<1>4. CASE InitReturns(p, n)
  <2>1. PICK ph, w : Transition(p, n, ph, w)
    BY Zenon, <1>4 DEF InitReturns
  <2>2. QED
    BY Zenon, <1>4, <2>1, <1>t DEF InitReturns
<1>5. CASE ReadReturns(p, n)
  BY Zenon, <1>5, <1>t DEF ReadReturns
<1>6. CASE PlanReturns(p, n)
  BY Zenon, <1>6, <1>f, <1>t DEF PlanReturns
<1>7. CASE RetainPlan(p, n)
  <2>1. Same(WithPlan(rec[p], n, NewPlan))
    BY Zenon, <1>r DEF WithPlan, Record
  <2>2. Writes
    BY Zenon, <1>7, <2>1 DEF RetainPlan
  <2>3. QED
    BY Zenon, <1>7, <2>2 DEF RetainPlan
<1>8. CASE SetReview(p, n)
  BY Zenon, <1>8 DEF SetReview
<1>9. CASE AdmitPlan(p, n)
  BY Zenon, <1>9, <1>f, <1>t DEF AdmitPlan
<1>10. CASE RunMutation(p, n)
  BY Zenon, <1>10, <1>f, <1>t DEF RunMutation
<1>11. CASE MutationReturns(p, n)
  BY Zenon, <1>11, <1>f, <1>t DEF MutationReturns
<1>12. CASE CollectOutputs(p, n)
  BY Zenon, <1>12, <1>f, <1>t DEF CollectOutputs
<1>p. ASSUME NEW b, pc[p] = "recover" PROVE Same([rec[p] EXCEPT !.prep = b])
  BY Zenon, <1>p, <1>r DEF Record
<1>13. CASE RecoverNode(p, n)
  <2>1. Writes
    BY Zenon, <1>13, <1>f, <1>p DEF RecoverNode
  <2>2. QED
    BY Zenon, <1>13, <2>1 DEF RecoverNode
<1>14. CASE RecoverInit(p, n)
  <2>1. Writes
    BY Zenon, <1>14, <1>f, <1>p DEF RecoverInit
  <2>2. QED
    BY Zenon, <1>14, <2>1 DEF RecoverInit
<1>15. CASE RecoverOutputs(p, n)
  <2>0. Same(WithPhase(rec[p], n, "completed"))
    BY SMTT(30), Z3T(30), <1>r, WithPhaseKeeps
  <2>1. Writes
    BY Zenon, <1>15, <1>f, <2>0 DEF RecoverOutputs
  <2>2. pc[p] = "recover" /\ UNCHANGED <<lock, forced, cmd, sid>>
        /\ (UNCHANGED pc \/ Goto(p, "release"))
    BY Zenon, <1>15 DEF RecoverOutputs
  <2>3. QED
    BY Zenon, <2>1, <2>2 DEF Goto, Shape, TypeOK
<1>16. QED
  BY ZenonT(60), <1>1, <1>2, <1>3, <1>4, <1>5, <1>6, <1>7, <1>8, <1>9, <1>10, <1>11, <1>12,
     <1>13, <1>14, <1>15 DEF WorkerStep

\* A worker's step moves no worker of another process.
LEMMA WorkerOthers ==
  ASSUME Shape, NEW p \in Procs, NEW n \in Nodes, WorkerStep(p, n)
  PROVE  OthersStay(p)
<1>1. ASSUME (\E w : Step(p, n, w)) \/ UNCHANGED work
      PROVE  \A q \in Procs : q # p => work'[q] = work[q]
  BY Zenon, <1>1 DEF Step, Shape, TypeOK
<1>t. ASSUME NEW ph, NEW w, Transition(p, n, ph, w) PROVE \E x : Step(p, n, x)
  BY Zenon, <1>t DEF Transition
<1>f. Fails(p, n) => \E x : Step(p, n, x)
  BY Zenon DEF Fails
<1>2. CASE \/ SkipNode(p, n) \/ StartNode(p, n) \/ RunInit(p, n) \/ ReadReturns(p, n)
           \/ PlanReturns(p, n) \/ SetReview(p, n) \/ AdmitPlan(p, n)
  BY ZenonT(60), <1>2, <1>1, <1>t, <1>f, WorkerWrites DEF SkipNode, StartNode, RunInit, ReadReturns,
     PlanReturns, SetReview, AdmitPlan, OthersStay
<1>3. CASE InitReturns(p, n)
  <2>1. \E ph, w : Transition(p, n, ph, w)
    BY Zenon, <1>3 DEF InitReturns
  <2>2. QED
    BY ZenonT(60), <2>1, <1>1, <1>t, WorkerWrites DEF OthersStay
<1>4. CASE RetainPlan(p, n)
  <2>1. \E w : Step(p, n, w)
    BY Zenon, <1>4 DEF RetainPlan
  <2>2. QED
    BY Zenon, <2>1, <1>1, WorkerWrites DEF OthersStay
<1>5. CASE RunMutation(p, n) \/ MutationReturns(p, n) \/ CollectOutputs(p, n)
  BY ZenonT(60), <1>5, <1>1, <1>t, <1>f, WorkerWrites DEF RunMutation, MutationReturns,
     CollectOutputs, OthersStay
<1>6. CASE RecoverNode(p, n) \/ RecoverInit(p, n) \/ RecoverOutputs(p, n)
  <2>1. (\E w : Step(p, n, w)) \/ UNCHANGED work
    BY Zenon, <1>6, <1>f DEF RecoverNode, RecoverInit, RecoverOutputs
  <2>2. QED
    BY Zenon, <2>1, <1>1, WorkerWrites DEF OthersStay
<1>7. QED
  BY ZenonT(60), <1>2, <1>3, <1>4, <1>5, <1>6 DEF WorkerStep

\* The workers of run write on a record that is not finished, and leave it so.
LEMMA RunWorkerSound ==
  ASSUME Shape, Safe, Lived, NEW p \in Procs, NEW n \in Nodes, WorkerStep(p, n),
         pc[p] = "run"
  PROVE  StepSound
<1>1. PICK next : /\ Wrote(p, next) /\ next.finished = rec[p].finished
                  /\ next.prep = rec[p].prep
  BY Zenon, WorkerWrites
<1>2. pc'[p] \in {"run", "release"} /\ UNCHANGED sid /\ pc[p] \in Writers
  BY Zenon, WorkerWrites DEF Writers, Active
<1>3. ~rec[p].finished /\ ~rec[p].prep
  BY Zenon, <1>2 DEF Lived, OpenSession
<1>4. rec'[p] \in {next, rec[p]}
  BY Zenon, <1>1 DEF Wrote
<1>5. OpenSession(p)'
  BY Zenon, <1>1, <1>2, <1>3, <1>4 DEF OpenSession
<1>6. Sound(next)
  BY Zenon, <1>1, <1>3 DEF Sound
<1>7. QED
  BY Zenon, <1>1, <1>2, <1>5, <1>6, WorkerOthers, PublishSound

\* The workers of recovery touch the phase of a node they collect, which was
\* applied.
LEMMA RecoverWorkerSound ==
  ASSUME Shape, Safe, Lived, NEW p \in Procs, NEW n \in Nodes, WorkerStep(p, n),
         pc[p] = "recover"
  PROVE  StepSound
<1> DEFINE Held == Busy \cup {"wait"}
<1>0. /\ RecoverNode(p, n) \/ RecoverInit(p, n) \/ RecoverOutputs(p, n)
      /\ work[p][n] \in Held
  <2>1. RecoverNode(p, n) \/ RecoverInit(p, n) \/ RecoverOutputs(p, n)
    BY Zenon DEF WorkerStep, SkipNode, StartNode, RunInit, InitReturns, ReadReturns, PlanReturns,
       RetainPlan, SetReview, AdmitPlan, RunMutation, MutationReturns, CollectOutputs, Ready
  <2>2. QED
    BY Zenon, <2>1 DEF RecoverNode, RecoverInit, RecoverOutputs, Busy
<1>r. /\ rec[p] \in Record /\ ~rec[p].finished
      /\ \A m \in Nodes : work[p][m] \in Held => rec[p].phase[m] = "applied"
  BY Zenon DEF Shape, TypeOK, Lived, OpenSession, Writers, Active
<1>t. work \in [Procs -> [Nodes -> Works]]
  BY Zenon DEF Shape, TypeOK
<1>a. pc[p] \in Writers /\ pc[p] \in Active /\ UNCHANGED sid /\ OthersStay(p)
  BY Zenon, WorkerWrites, WorkerOthers DEF Writers, Active
<1>u. "applied" \notin Unknown
  BY Zenon DEF Unknown
\* The session publishes next, and the worker goes to w or fails.
<1>w. ASSUME NEW next, next.finished = rec[p].finished,
             \A m \in Nodes : m # n => next.phase[m] = rec[p].phase[m],
             NEW w, w \in Held => next.phase[n] = rec[p].phase[n],
             \/ WriteOK(p, sid[p], next) /\ Step(p, n, w) /\ UNCHANGED pc
             \/ WriteErr(p, sid[p], next) /\ Step(p, n, "failed") /\ UNCHANGED pc
             \/ WriteErr(p, sid[p], next) /\ Goto(p, "release")
      PROVE  StepSound
  <2>1. Wrote(p, next)
    BY Zenon, <1>a, <1>w, WriteWrote
  <2>2. rec'[p] \in {next, rec[p]} /\ Sound(next) /\ ~rec'[p].finished
    BY Zenon, <1>r, <1>w, <2>1 DEF Wrote, Sound
  <2>3. \A m \in Nodes : rec[p].phase[m] \in Unknown => next.phase[m] = rec[p].phase[m]
    BY Zenon, <1>0, <1>r, <1>u, <1>w
  <2>4. OpenSession(p)'
    <3>1. CASE WriteErr(p, sid[p], next) /\ Goto(p, "release")
      <4>1. pc'[p] = "release"
        BY Zenon, <3>1 DEF Goto, Shape, TypeOK
      <4>2. QED
        BY Zenon, <4>1 DEF OpenSession, Writers, Active
    <3>2. CASE WriteErr(p, sid[p], next) /\ Step(p, n, "failed") /\ UNCHANGED pc
      <4>1. \A m \in Nodes : work'[p][m] = IF m = n THEN "failed" ELSE work[p][m]
        BY Zenon, <3>2, <1>t DEF Step
      <4>2. \A m \in Nodes : work'[p][m] \in Held => rec[p].phase[m] = "applied"
        BY Zenon, <4>1, <1>r DEF Busy
      <4>3. UNCHANGED rec
        BY Zenon, <3>2 DEF WriteErr
      <4>4. QED
        BY Zenon, <2>2, <3>2, <4>2, <4>3 DEF OpenSession
    <3>3. CASE WriteOK(p, sid[p], next) /\ Step(p, n, w) /\ UNCHANGED pc
      <4>1. \A m \in Nodes : work'[p][m] = IF m = n THEN w ELSE work[p][m]
        BY Zenon, <3>3, <1>t DEF Step
      <4>2. rec'[p] = next
        BY Zenon, <3>3 DEF WriteOK, Shape, TypeOK
      <4>3. \A m \in Nodes : work'[p][m] \in Held => next.phase[m] = "applied"
        BY Zenon, <1>0, <1>r, <1>w, <4>1
      <4>4. QED
        BY Zenon, <2>2, <3>3, <4>2, <4>3 DEF OpenSession
    <3>4. QED
      BY Zenon, <1>w, <3>1, <3>2, <3>3
  <2>5. QED
    BY Zenon, <1>a, <2>1, <2>2, <2>3, <2>4, PublishSound
<1>m. ASSUME NoWrite, NEW w, Step(p, n, w), UNCHANGED pc PROVE StepSound
  <2>1. UNCHANGED <<store, rec>>
    BY Zenon, <1>m DEF NoWrite
  <2>2. \A m \in Nodes : work'[p][m] = IF m = n THEN w ELSE work[p][m]
    BY Zenon, <1>m, <1>t DEF Step
  <2>3. \A m \in Nodes : work'[p][m] \in Held => rec[p].phase[m] = "applied"
    BY Zenon, <1>0, <1>r, <2>2
  <2>4. OpenSession(p)'
    BY Zenon, <1>r, <1>m, <2>1, <2>3 DEF OpenSession
  <2>5. QED
    BY Zenon, <1>a, <2>1, <2>4, QuietSound
<1>p. ASSUME NEW b
      PROVE  LET x == [rec[p] EXCEPT !.prep = b] IN
             x.finished = rec[p].finished /\ x.phase = rec[p].phase
  BY Zenon, <1>r DEF Record
<1>1. CASE RecoverNode(p, n)
  <2> DEFINE next == [rec[p] EXCEPT !.prep = TRUE]
  <2>1. /\ UNCHANGED pc
        /\ \/ NoWrite /\ \E w : Step(p, n, w)
           \/ WriteOK(p, sid[p], next) /\ Step(p, n, "init")
           \/ WriteErr(p, sid[p], next) /\ Step(p, n, "failed")
    BY Zenon, <1>1 DEF RecoverNode, Fails, workerFrame
  <2>2. next.finished = rec[p].finished /\ next.phase = rec[p].phase
    BY Zenon, <1>p
  <2> HIDE DEF next
  <2>3. QED
    BY Zenon, <2>1, <2>2, <1>m, <1>w
<1>2. CASE RecoverInit(p, n)
  <2> DEFINE next == [rec[p] EXCEPT !.prep = FALSE]
  <2>1. /\ UNCHANGED pc
        /\ \/ NoWrite /\ \E w : Step(p, n, w)
           \/ WriteOK(p, sid[p], next) /\ Step(p, n, "collect")
           \/ WriteErr(p, sid[p], next) /\ Step(p, n, "failed")
    BY Zenon, <1>2 DEF RecoverInit, Fails, workerFrame
  <2>2. next.finished = rec[p].finished /\ next.phase = rec[p].phase
    BY Zenon, <1>p
  <2> HIDE DEF next
  <2>3. QED
    BY Zenon, <2>1, <2>2, <1>m, <1>w
<1>3. CASE RecoverOutputs(p, n)
  <2> DEFINE next == WithPhase(rec[p], n, "completed")
  <2>1. \/ NoWrite /\ Step(p, n, "failed") /\ UNCHANGED pc
        \/ WriteOK(p, sid[p], next) /\ Step(p, n, "done") /\ UNCHANGED pc
        \/ WriteErr(p, sid[p], next) /\ Goto(p, "release")
    BY Zenon, <1>3 DEF RecoverOutputs, Fails
  <2>2. /\ next.finished = rec[p].finished
        /\ \A m \in Nodes : m # n => next.phase[m] = rec[p].phase[m]
    BY SMTT(30), Z3T(30), <1>r, WithPhaseKeeps
  <2>3. "done" \notin Held
    BY Zenon DEF Busy
  <2> HIDE DEF next
  <2>4. QED
    BY Zenon, <2>1, <2>2, <2>3, <1>m, <1>w
<1>4. QED
  BY Zenon, <1>0, <1>1, <1>2, <1>3

------------------------------------------------------------------------------
(* The end of a command.                                                    *)

\* Records that differ in status and end only block alike.
LEMMA BlocksAlike ==
  ASSUME NEW r, NEW x, x.recovered = r.recovered, x.prep = r.prep, x.phase = r.phase
  PROVE  ExecutionNeedsRecovery(x) <=> ExecutionNeedsRecovery(r)
BY Zenon DEF ExecutionNeedsRecovery

\* finish and cancellation write sound records, and keep the phases.
LEMMA FinishedSound ==
  ASSUME NEW r \in Record
  PROVE  /\ \A ok \in BOOLEAN : /\ ~r.finished => Sound(Finished(r, ok))
                                /\ Finished(r, ok).phase = r.phase
         /\ \A ok \in BOOLEAN :
              ExecutionNeedsRecovery(Finished(r, ok)) <=> ExecutionNeedsRecovery(r)
         /\ \A s : /\ Terminal(r, s).phase = r.phase
                   /\ ExecutionNeedsRecovery(Terminal(r, s)) <=> ExecutionNeedsRecovery(r)
                   /\ s \notin OpenStatuses /\ ~ExecutionNeedsRecovery(r)
                        => Sound(Terminal(r, s))
<1>1. ASSUME NEW s
      PROVE  LET x == Terminal(r, s) IN
             /\ x.recovered = r.recovered /\ x.prep = r.prep /\ x.phase = r.phase
             /\ x.status = s
  BY Zenon DEF Record, Terminal
<1>2. ASSUME NEW s
      PROVE  ExecutionNeedsRecovery(Terminal(r, s)) <=> ExecutionNeedsRecovery(r)
  BY Zenon, <1>1, BlocksAlike
<1>3. ASSUME NEW ok \in BOOLEAN
      PROVE  LET x == Finished(r, ok) IN
             /\ x.recovered = r.recovered /\ x.prep = r.prep /\ x.phase = r.phase
             /\ ExecutionNeedsRecovery(r) => x.finished = r.finished
             /\ ~ExecutionNeedsRecovery(r) => x.status \in {"completed", "failed"}
  BY ZenonT(30) DEF Record, Finished
<1>4. ASSUME NEW ok \in BOOLEAN
      PROVE  ExecutionNeedsRecovery(Finished(r, ok)) <=> ExecutionNeedsRecovery(r)
  BY Zenon, <1>3, BlocksAlike
<1>5. "completed" \notin OpenStatuses /\ "failed" \notin OpenStatuses
  BY DEF OpenStatuses
<1>6. ASSUME NEW ok \in BOOLEAN, ~r.finished PROVE Sound(Finished(r, ok))
  BY Zenon, <1>3, <1>4, <1>5, <1>6 DEF Sound
<1>7. ASSUME NEW s, s \notin OpenStatuses, ~ExecutionNeedsRecovery(r)
      PROVE  Sound(Terminal(r, s))
  BY Zenon, <1>1, <1>2, <1>7 DEF Sound
<1>8. QED
  BY ZenonT(60), <1>1, <1>2, <1>3, <1>4, <1>6, <1>7

\* The end of a saved step: completed only when every node is.
LEMMA AppliedSavedSound ==
  ASSUME NEW r \in Record, ~r.finished, ~r.prep
  PROVE  Sound(AppliedSaved(r)) /\ AppliedSaved(r).phase = r.phase
<1> DEFINE x == AppliedSaved(r)
<1>1. /\ x.recovered = r.recovered /\ x.prep = r.prep /\ x.phase = r.phase
      /\ AllCompleted(r) => x.status = "completed"
      /\ ~AllCompleted(r) => x.finished = r.finished
  BY ZenonT(30) DEF Record, AppliedSaved
<1> HIDE DEF x
<1>2. AllCompleted(r) => ~ExecutionNeedsRecovery(r)
  BY DEF AllCompleted, Selected, ExecutionNeedsRecovery, Unresolved
<1>3. ExecutionNeedsRecovery(x) <=> ExecutionNeedsRecovery(r)
  BY Zenon, <1>1, BlocksAlike
<1>4. "completed" \notin OpenStatuses
  BY DEF OpenStatuses
<1>5. Sound(x)
  BY Zenon, <1>1, <1>2, <1>3, <1>4 DEF Sound
<1>6. QED
  BY Zenon, <1>1, <1>5 DEF x

\* finishSaved ends an execution with nothing unresolved, planned or pending;
\* it takes back interrupted planning and no other phase.
LEMMA FinishedSavedSound ==
  ASSUME NEW r \in Record
  PROVE  LET x == FinishedSaved(r, FALSE) IN
         /\ Sound(x)
         /\ \A n \in Nodes : r.phase[n] \in Unknown => x.phase[n] = r.phase[n]
<1> DEFINE x == FinishedSaved(r, FALSE)
           ph == [n \in Nodes |-> IF r.phase[n] = "preparing" THEN "pending" ELSE r.phase[n]]
           Some(y) == \E n \in Nodes : ph[n] = y
           over == ~ExecutionNeedsRecovery(r) /\ ~Some("planned") /\ ~Some("pending")
<1>1. /\ x.recovered = r.recovered /\ x.prep = r.prep /\ x.phase = ph
      /\ x.finished = over
  BY Zenon DEF FinishedSaved, Record
<1>2. over => x.status = "failed"
  BY DEF FinishedSaved, Record
<1> HIDE DEF x, over
<1>3. \A n \in Nodes : ph[n] = r.phase[n] \/ (r.phase[n] = "preparing" /\ ph[n] = "pending")
  BY Zenon
<1> HIDE DEF ph
<1>4. ExecutionNeedsRecovery(x) => ExecutionNeedsRecovery(r)
  BY Zenon, <1>1, <1>3 DEF ExecutionNeedsRecovery, Unresolved
<1>5. Sound(x)
  BY ZenonT(30), <1>1, <1>2, <1>4 DEF Sound, OpenStatuses, over
<1>6. \A n \in Nodes : r.phase[n] \in Unknown => x.phase[n] = r.phase[n]
  BY <1>1, <1>3 DEF Unknown, Unresolved
<1>7. QED
  BY Zenon, <1>5, <1>6 DEF x

\* A retired record blocks nothing.
LEMMA RecoveredSound ==
  ASSUME NEW r \in Record
  PROVE  Sound(Recovered(r)) /\ Recovered(r).phase = r.phase
BY DEF Recovered, Record, Sound, OpenStatuses, ExecutionNeedsRecovery

\* finish, finishSaved, the end of a saved step, of a recovery and of a
\* cancellation, and binding the graph.
LEMMA EndSound ==
  ASSUME Shape, Safe, Lived, NEW p \in Procs,
         \/ Finish(p) \/ SavedStepDone(p) \/ NoteSavedFailure(p) \/ FinishSaved(p)
         \/ Replan(p) \/ RecoverEnd(p) \/ CancelExecution(p) \/ BindGraph(p)
  PROVE  StepSound
<1>0. UNCHANGED sid /\ pc[p] \in Writers /\ pc[p] \in Active
  BY Zenon DEF Finish, SavedStepDone, NoteSavedFailure, FinishSaved, Replan, RecoverEnd,
         CancelExecution, BindGraph, endFrame, Writers, Active
<1>r. /\ rec[p] \in Record /\ ~rec[p].finished
      /\ pc[p] \in {"bind", "run", "finish_saved"} => ~rec[p].prep
  BY Zenon, <1>0 DEF Shape, TypeOK, Lived, OpenSession
<1>g. ASSUME NEW l, Goto(p, l)
      PROVE  pc'[p] = l /\ \A q \in Procs : q # p => pc'[q] = pc[q]
  BY Zenon, <1>g DEF Goto, Shape, TypeOK
<1>o. ASSUME NEW l, Goto(p, l), UNCHANGED work \/ BindGraph(p) PROVE OthersStay(p)
  BY Zenon, <1>g, <1>o DEF OthersStay, BindGraph, Shape, TypeOK
<1>n. ASSUME NEW l \in {"clean", "release"}, Goto(p, l) PROVE OpenSession(p)'
  BY Zenon, <1>n, <1>g DEF OpenSession, Writers, Active
<1>c. ASSUME NEW l \in {"run", "finish_saved"}, Goto(p, l), rec'[p] = rec[p],
             pc[p] \in {"bind", "run", "finish_saved"}
      PROVE  OpenSession(p)'
  BY Zenon, <1>c, <1>g, <1>r DEF OpenSession
<1>p. ASSUME NEW next, NEW l, NEW e, Publish(p, next, l, e)
      PROVE  /\ Wrote(p, next)
             /\ \/ Goto(p, l) /\ rec'[p] = next
                \/ Goto(p, e) /\ rec'[p] = rec[p]
  <2>1. Wrote(p, next)
    BY Zenon, <1>0, <1>p, WriteWrote DEF Publish
  <2>2. WriteOK(p, sid[p], next) => rec'[p] = next
    BY Zenon DEF WriteOK, Shape, TypeOK
  <2>3. WriteErr(p, sid[p], next) => rec'[p] = rec[p]
    BY Zenon DEF WriteErr
  <2>4. QED
    BY Zenon, <1>p, <2>1, <2>2, <2>3 DEF Publish
<1>k. Sound(rec[p])
  BY Zenon, <1>r DEF Sound
<1>w. ASSUME NEW next, Wrote(p, next), Sound(next), OthersStay(p), OpenSession(p)',
             next.phase = rec[p].phase
      PROVE  StepSound
  BY Zenon, <1>0, <1>w, PublishSound
<1>1. CASE Finish(p)
  <2>1. PICK ok \in BOOLEAN : Publish(p, Finished(rec[p], ok), "clean", "release")
    BY Zenon, <1>1 DEF Finish
  <2>2. Sound(Finished(rec[p], ok)) /\ Finished(rec[p], ok).phase = rec[p].phase
    BY Zenon, <1>r, FinishedSound
  <2>3. OthersStay(p) /\ OpenSession(p)'
    BY ZenonT(60), <1>1, <2>1, <1>p, <1>o, <1>n DEF Finish, endFrame
  <2>4. QED
    BY ZenonT(60), <2>1, <2>2, <2>3, <1>p, <1>w
<1>2. CASE SavedStepDone(p)
  <2> DEFINE next == IF cmd[p] = "apply_saved" THEN AppliedSaved(rec[p])
                     ELSE [rec[p] EXCEPT !.status = "waiting_for_apply"]
  <2>1. Publish(p, next, "clean", "finish_saved") /\ pc[p] = "run" /\ UNCHANGED work
    BY Zenon, <1>2 DEF SavedStepDone, endFrame
  <2>2. Sound(next) /\ next.phase = rec[p].phase
    <3>1. LET x == [rec[p] EXCEPT !.status = "waiting_for_apply"] IN
          x.finished = rec[p].finished /\ x.phase = rec[p].phase
      BY Zenon, <1>r DEF Record
    <3>2. QED
      BY Zenon, <1>r, <2>1, <3>1, AppliedSavedSound DEF Sound
  <2> HIDE DEF next
  <2>3. OthersStay(p) /\ OpenSession(p)'
    BY Zenon, <2>1, <1>p, <1>o, <1>n, <1>c
  <2>4. QED
    BY ZenonT(60), <2>1, <2>2, <2>3, <1>p, <1>w
<1>3. CASE NoteSavedFailure(p)
  <2>1. Publish(p, rec[p], "finish_saved", "finish_saved") /\ pc[p] = "run" /\ UNCHANGED work
    BY Zenon, <1>3 DEF NoteSavedFailure, endFrame
  <2>2. OthersStay(p) /\ OpenSession(p)'
    BY Zenon, <2>1, <1>p, <1>o, <1>c
  <2>3. QED
    BY ZenonT(60), <2>1, <2>2, <1>k, <1>p, <1>w
<1>4. CASE FinishSaved(p)
  <2> DEFINE next == FinishedSaved(rec[p], FALSE)
  <2>1. Publish(p, next, "clean", "release") /\ UNCHANGED work
    BY Zenon, <1>4 DEF FinishSaved, endFrame
  <2>2. /\ Sound(next)
        /\ \A n \in Nodes : rec[p].phase[n] \in Unknown => next.phase[n] = rec[p].phase[n]
    BY Zenon, <1>r, FinishedSavedSound
  <2> HIDE DEF next
  <2>3. OthersStay(p) /\ OpenSession(p)'
    BY Zenon, <2>1, <1>p, <1>o, <1>n
  <2>4. QED
    BY ZenonT(60), <1>0, <2>1, <2>2, <2>3, <1>p, PublishSound
<1>5. CASE Replan(p) \/ RecoverEnd(p)
  <2>1. /\ UNCHANGED work
        /\ \/ Publish(p, Recovered(rec[p]), "release", "release")
           \/ Goto(p, "release") /\ NoWrite
    BY Zenon, <1>5 DEF Replan, RecoverEnd, endFrame
  <2>2. OthersStay(p) /\ OpenSession(p)'
    BY Zenon, <2>1, <1>p, <1>o, <1>n
  <2>3. NoWrite => Wrote(p, rec[p])
    BY Zenon DEF NoWrite, Wrote
  <2>4. Sound(Recovered(rec[p])) /\ Recovered(rec[p]).phase = rec[p].phase
    BY Zenon, <1>r, RecoveredSound
  <2>5. QED
    BY ZenonT(60), <2>1, <2>2, <2>3, <2>4, <1>k, <1>p, <1>w
<1>6. CASE CancelExecution(p)
  <2>1. /\ Publish(p, Terminal(rec[p], "cancelled"), "clean", "release")
        /\ pc[p] = "cancel" /\ UNCHANGED work
    BY Zenon, <1>6 DEF CancelExecution, endFrame
  <2>2. "cancelled" \notin OpenStatuses
    BY ZenonT(60) DEF OpenStatuses
  <2>3. /\ Sound(Terminal(rec[p], "cancelled"))
        /\ Terminal(rec[p], "cancelled").phase = rec[p].phase
    BY Zenon, <1>r, <2>1, <2>2, FinishedSound DEF Lived, OpenSession
  <2>4. OthersStay(p) /\ OpenSession(p)'
    BY Zenon, <2>1, <1>p, <1>o, <1>n
  <2>5. QED
    BY ZenonT(60), <2>1, <2>3, <2>4, <1>p, <1>w
<1>7. CASE BindGraph(p)
  <2>1. /\ pc[p] = "bind"
        /\ \/ Goto(p, "finish_saved") /\ NoWrite
           \/ Publish(p, rec[p], "run", "finish_saved")
           \/ Publish(p, rec[p], "finish_saved", "finish_saved")
    BY Zenon, <1>7 DEF BindGraph
  <2>2. NoWrite => Wrote(p, rec[p]) /\ rec'[p] = rec[p]
    BY Zenon DEF NoWrite, Wrote
  <2>3. OthersStay(p) /\ OpenSession(p)' /\ Wrote(p, rec[p])
    BY ZenonT(60), <1>7, <2>1, <2>2, <1>p, <1>o, <1>c
  <2>4. QED
    BY Zenon, <2>3, <1>k, <1>w
<1>8. QED
  BY ZenonT(60), <1>1, <1>2, <1>3, <1>4, <1>5, <1>6, <1>7

------------------------------------------------------------------------------
(* Starting a command.                                                      *)

\* A step of p that writes a record outside of a session.
LEMMA RecordStep ==
  ASSUME Lived, NEW p \in Procs, OthersStay(p), OpenSession(p)',
         \A q \in Procs : q # p => rec'[q] = rec[q],
         NEW i \in Ids, \A j \in Ids : j # i => store'[j] = store[j],
         Sound(store'[i].rec), store'[i].rev = NoRev => store'[i].rec = NullRecord,
         Exists(i) /\ Settled(store[i].rec) => store'[i].rev = NoRev,
         \A n \in Nodes : store[i].rec.phase[n] \in Unknown =>
           \/ store'[i].rev = NoRev
           \/ store'[i].rec.phase[n] = store[i].rec.phase[n]
  PROVE  StepSound
<1>1. SettledKept
  BY Zenon DEF SettledKept
<1>2. UnknownKept
  <2>1. SUFFICES ASSUME NEW j \in Ids, NEW n \in Nodes, store[j].rec.phase[n] \in Unknown
                 PROVE  \/ store'[j].rev = NoRev
                        \/ store'[j].rec.phase[n] = store[j].rec.phase[n]
    BY ZenonT(60) DEF UnknownKept, Unknown
  <2>2. QED
    BY Zenon, <2>1
<1>3. \A q \in Procs : q # p => OpenSession(q)'
  BY SMTT(30) DEF Lived, OpenSession, OthersStay
<1>4. QED
  BY ZenonT(60), <1>1, <1>2, <1>3 DEF StepSound, Lived

\* The barrier, pruneExecutions and cleanupExecution: an expired record was
\* waiting, so it was not finished; what is settled is only removed.
LEMMA PruneSound ==
  ASSUME Shape, Lived, NEW p \in Procs,
         CheckExecutionBarrier(p) \/ PruneStep(p) \/ CleanupExecution(p)
  PROVE  StepSound
<1> USE DEF object, session, ghost, env
<1>u. UNCHANGED <<rec, work>>
  BY ZenonT(30) DEF CheckExecutionBarrier, PruneStep, PruneSkip, PruneExpire, PruneError,
         PruneBundles, PruneRecord, PruneEnd, CleanupExecution
<1>g. ASSUME NEW l \in {"prune", "create", "release"},
             Goto(p, l) \/ (UNCHANGED pc /\ pc[p] = l)
      PROVE  OthersStay(p) /\ OpenSession(p)'
  <2>1. pc'[p] = l /\ OthersStay(p)
    BY Zenon, <1>g, <1>u DEF Goto, OthersStay, Shape, TypeOK
  <2>2. QED
    BY Zenon, <2>1 DEF OpenSession, Writers, Active
<1>1. CASE CheckExecutionBarrier(p) \/ PruneEnd(p) \/ CleanupExecution(p)
  <2>1. UNCHANGED store /\ (Goto(p, "release") \/ Goto(p, "prune") \/ Goto(p, "create"))
    BY Zenon, <1>1 DEF CheckExecutionBarrier, PruneEnd, CleanupExecution
  <2>2. QED
    BY ZenonT(60), <2>1, <1>g, <1>u, QuietSound
<1>2. ASSUME NEW i \in Ids, PruneSkip(p, i) \/ PruneError(p, i) \/ PruneBundles(p, i)
      PROVE  StepSound
  <2>1. UNCHANGED store /\ (Goto(p, "release") \/ (UNCHANGED pc /\ pc[p] = "prune"))
    BY ZenonT(30), <1>2 DEF PruneSkip, PruneError, PruneBundles
  <2>2. QED
    BY Zenon, <2>1, <1>g, <1>u, QuietSound
<1>3. ASSUME NEW i \in Ids, PruneExpire(p, i) PROVE StepSound
  <2> DEFINE r == store[i].rec
             x == Terminal(r, "expired")
  <2>1. /\ ~ExecutionNeedsRecovery(r) /\ r.status = "waiting_for_apply"
        /\ UNCHANGED store \/ Put(i, x)
        /\ Goto(p, "release") \/ (UNCHANGED pc /\ pc[p] = "prune")
    BY Zenon, <1>3 DEF PruneExpire
  <2>2. OthersStay(p) /\ OpenSession(p)'
    BY Zenon, <2>1, <1>g
  <2>3. "expired" \notin OpenStatuses /\ "waiting_for_apply" \in OpenStatuses
    BY Zenon DEF OpenStatuses
  <2>4. Sound(x) /\ x.phase = r.phase /\ ~r.finished
    <3>1. r \in Record /\ Sound(r)
      BY Zenon DEF Lived, Shape, TypeOK
    <3>2. Sound(x) /\ x.phase = r.phase
      BY ZenonT(60), <2>1, <2>3, <3>1, FinishedSound
    <3>3. ~r.finished
      BY Zenon, <2>1, <2>3, <3>1 DEF Sound
    <3>4. QED
      BY Zenon, <3>2, <3>3
  <2> HIDE DEF x
  <2>5. CASE Put(i, x)
    <3>1. /\ store'[i].rec = x /\ store'[i].rev # NoRev
          /\ \A j \in Ids : j # i => store'[j] = store[j]
      BY Zenon, <2>5, PutFresh, SentinelAssumption DEF Shape
    <3>2. QED
      BY ZenonT(30), <1>u, <2>2, <2>4, <3>1, RecordStep DEF Settled
  <2>6. QED
    BY ZenonT(60), <1>u, <2>1, <2>2, <2>5, QuietSound
<1>4. ASSUME NEW i \in Ids, PruneRecord(p, i) PROVE StepSound
  <2>1. /\ \/ UNCHANGED store
           \/ store' = [store EXCEPT ![i] = [rev |-> NoRev, rec |-> NullRecord]]
        /\ Goto(p, "release") \/ (UNCHANGED pc /\ pc[p] = "prune")
    BY ZenonT(30), <1>4 DEF PruneRecord
  <2>2. OthersStay(p) /\ OpenSession(p)'
    BY Zenon, <2>1, <1>g
  <2>3. CASE store' = [store EXCEPT ![i] = [rev |-> NoRev, rec |-> NullRecord]]
    <3>1. /\ store'[i].rec = NullRecord /\ store'[i].rev = NoRev
          /\ \A j \in Ids : j # i => store'[j] = store[j]
      BY ZenonT(30), <2>3 DEF Shape, TypeOK
    <3>2. Sound(NullRecord)
      BY Zenon DEF NullRecord, NewRecord, Sound
    <3>3. QED
      BY ZenonT(30), <1>u, <2>2, <3>1, <3>2, RecordStep
  <2>4. QED
    BY Zenon, <1>u, <2>1, <2>2, <2>3, QuietSound
<1>5. QED
  BY ZenonT(60), <1>1, <1>2, <1>3, <1>4 DEF PruneStep

\* beginExecution writes under an ID nobody used.
LEMMA CreateSound ==
  ASSUME Shape, Safe, Lived, NEW p \in Procs, CreateRecord(p)
  PROVE  StepSound
<1>1. PICK i \in Ids \ used, sel \in SelectionsOf(cmd[p]) :
        \/ /\ WriteOK(p, i, NewRecord(cmd[p] = "save", sel))
           /\ IF cmd[p] = "save"
              THEN Goto(p, "bind") /\ UNCHANGED work
              ELSE Goto(p, "run") /\ work' = [work EXCEPT ![p] = Waiting(sel)]
        \/ /\ WriteErr(p, i, NewRecord(cmd[p] = "save", sel))
           /\ Goto(p, "release") /\ UNCHANGED work
  BY ZenonT(30) DEF CreateRecord
<1> DEFINE new == NewRecord(cmd[p] = "save", sel)
<1>n. ~new.finished /\ ~new.prep
  BY Zenon DEF NewRecord
<1>2. /\ WriteOK(p, i, new) \/ WriteErr(p, i, new)
      /\ \/ WriteOK(p, i, new) /\ (Goto(p, "bind") \/ Goto(p, "run"))
         \/ Goto(p, "release")
      /\ UNCHANGED work \/ work' = [work EXCEPT ![p] = Waiting(sel)]
  BY Zenon, <1>1
<1> HIDE DEF new
<1>u. store[i].rev = NoRev /\ store[i].rec = NullRecord
  BY Zenon DEF Safe, UsedIds, Exists, Lived
<1>z. \A n \in Nodes : NullRecord.phase[n] \notin Unknown
  BY Zenon DEF NullRecord, NewRecord, Unknown, Unresolved
<1>g. ASSUME NEW l, Goto(p, l)
      PROVE  pc'[p] = l /\ \A q \in Procs : q # p => pc'[q] = pc[q]
  BY Zenon, <1>g DEF Goto, Shape, TypeOK
<1>3. OthersStay(p)
  BY Zenon, <1>2, <1>g DEF OthersStay, Shape, TypeOK
<1>4. /\ \A q \in Procs : q # p => rec'[q] = rec[q]
      /\ WriteOK(p, i, new) => rec'[p] = new
  BY ZenonT(60), <1>2 DEF WriteOK, WriteErr, Shape, TypeOK
<1>5. OpenSession(p)'
  <2>1. pc'[p] = "release" \/ (pc'[p] \in {"bind", "run"} /\ rec'[p] = new)
    BY Zenon, <1>2, <1>4, <1>g
  <2>2. QED
    BY Zenon, <1>n, <2>1 DEF OpenSession, Writers, Active
<1>6. UNCHANGED store \/ Put(i, new)
  BY Zenon, <1>2 DEF WriteOK, WriteErr
<1>7. CASE Put(i, new)
  <2>1. /\ store'[i].rec = new /\ store'[i].rev # NoRev
        /\ \A j \in Ids : j # i => store'[j] = store[j]
    BY ZenonT(60), <1>7, PutFresh, SentinelAssumption DEF Shape
  <2>2. Sound(new)
    BY Zenon, <1>n DEF Sound
  <2>3. QED
    BY ZenonT(30), <1>u, <1>z, <1>3, <1>4, <1>5, <2>1, <2>2, RecordStep DEF Exists
<1>8. QED
  BY ZenonT(60), <1>3, <1>4, <1>5, <1>6, <1>7, QuietSound

\* A session is opened on a record that is not finished, or goes to its
\* cleanup at once.
LEMMA OpenSound ==
  ASSUME Shape, Lived, NEW p \in Procs,
         OpenSavedExecution(p) \/ OpenRecovery(p) \/ OpenCancel(p)
  PROVE  StepSound
<1> USE DEF object, ghost, env
<1>0. /\ pc[p] = "locked" /\ UNCHANGED store
      /\ cmd[p] \in ResumeKinds \cup RecoverKinds \cup {"cancel"}
  BY ZenonT(30) DEF OpenSavedExecution, OpenRecovery, OpenCancel
<1>i. sid[p] \in Ids
  BY ZenonT(30), <1>0 DEF Shape, Control, SessionNamed, ResumeKinds, RecoverKinds, BeginKinds, RunKinds
<1> DEFINE r == store[sid[p]].rec
<1>s. Sound(r)
  BY Zenon, <1>i DEF Lived
<1>g. ASSUME NEW l, Goto(p, l)
      PROVE  pc'[p] = l /\ \A q \in Procs : q # p => pc'[q] = pc[q]
  BY ZenonT(60), <1>g DEF Goto, Shape, TypeOK
<1>o. /\ Open(p) => rec'[p] = r
      /\ Open(p) \/ UNCHANGED rec => \A q \in Procs : q # p => rec'[q] = rec[q]
  BY Zenon DEF Open, Shape, TypeOK
<1>q. ASSUME OpenSession(p)', NEW l, Goto(p, l), Open(p) \/ UNCHANGED rec,
             UNCHANGED work \/ \E w : work' = [work EXCEPT ![p] = w]
      PROVE  StepSound
  <2>1. OthersStay(p)
    BY ZenonT(60), <1>g, <1>q DEF OthersStay, Shape, TypeOK
  <2>2. QED
    BY ZenonT(60), <1>0, <1>o, <1>q, <2>1, QuietSound
<1>l. ASSUME NEW l \in {"clean", "release"}, Goto(p, l), Open(p) \/ UNCHANGED rec, UNCHANGED work
      PROVE  StepSound
  <2>1. OpenSession(p)'
    BY Zenon, <1>l, <1>g DEF OpenSession, Writers, Active
  <2>2. QED
    BY ZenonT(60), <1>l, <1>q, <2>1
<1>1. CASE OpenSavedExecution(p)
  <2>1. CASE ~(Goto(p, "release") /\ UNCHANGED <<rec, rev, work>>)
    <3>1. /\ ~r.recovered /\ ~ExecutionNeedsRecovery(r) /\ Open(p)
          /\ r.status \in {"preparing", "ready_for_next_plan", "waiting_for_apply"}
          /\ \/ Goto(p, "bind") /\ UNCHANGED work
             \/ /\ Goto(p, "run")
                /\ work' = [work EXCEPT ![p] = Waiting(PlannedNodes(r))]
      BY ZenonT(30), <1>1, <2>1 DEF OpenSavedExecution
    <3>2. ~r.finished
      BY Zenon, <1>s, <3>1 DEF Sound, OpenStatuses
    <3>3. ~r.prep
      BY Zenon, <3>1 DEF ExecutionNeedsRecovery
    <3>4. rec'[p] = r
      BY Zenon, <3>1, <1>o
    <3>5. pc'[p] \in {"bind", "run"}
      BY ZenonT(60), <3>1, <1>g
    <3>6. OpenSession(p)'
      BY Zenon, <3>2, <3>3, <3>4, <3>5 DEF OpenSession
    <3>7. QED
      BY Zenon, <3>1, <3>6, <1>q
  <2>2. QED
    BY Zenon, <2>1, <1>l
<1>2. CASE OpenRecovery(p)
  <2>1. CASE ~(Goto(p, "release") /\ UNCHANGED <<rec, rev, work>>)
    <3>1. /\ ExecutionNeedsRecovery(r) /\ Open(p)
          /\ cmd[p] \in {"recover", "replan"} /\ Goto(p, cmd[p])
          /\ work' = [work EXCEPT ![p] = IF cmd[p] = "replan" THEN NoWork
                        ELSE Waiting(Recoverable(r))]
      BY ZenonT(30), <1>2, <2>1 DEF OpenRecovery, ReadError, RecoverKinds
    <3>2. ~r.finished
      BY Zenon, <1>s, <3>1 DEF Sound
    <3>3. rec'[p] = r /\ pc'[p] = cmd[p]
      BY Zenon, <3>1, <1>o, <1>g
    <3>4. cmd[p] = "recover" => \A n \in Nodes :
            work'[p][n] = IF n \in Recoverable(r) THEN "wait" ELSE "skipped"
      <4>1. CASE cmd[p] = "recover"
        <5>1. work' = [work EXCEPT ![p] = Waiting(Recoverable(r))]
          BY Zenon, <3>1, <4>1
        <5>2. QED
          BY ZenonT(60), <5>1 DEF Waiting, Shape, TypeOK
      <4>2. QED
        BY Zenon, <4>1
    <3>5. cmd[p] = "recover" => \A n \in Nodes :
            work'[p][n] \in Busy \cup {"wait"} => r.phase[n] = "applied"
      BY Zenon, <3>4 DEF Recoverable, Busy
    <3>6. OpenSession(p)'
      BY ZenonT(60), <3>1, <3>2, <3>3, <3>5 DEF OpenSession
    <3>7. QED
      BY ZenonT(60), <3>1, <3>6, <1>q
  <2>2. QED
    BY Zenon, <2>1, <1>l
<1>3. CASE OpenCancel(p)
  <2>1. CASE ~(Goto(p, "release") /\ UNCHANGED <<rec, rev, work>>)
    <3>1. /\ ~ExecutionNeedsRecovery(r) /\ Open(p) /\ UNCHANGED work
          /\ \/ Goto(p, "clean")
             \/ ~r.finished /\ Goto(p, "cancel")
      BY ZenonT(30), <1>3, <2>1 DEF OpenCancel, ReadError, AfterOpenCancel
    <3>2. CASE ~r.finished /\ Goto(p, "cancel")
      <4>1. rec'[p] = r /\ pc'[p] = "cancel"
        BY ZenonT(60), <3>1, <3>2, <1>o, <1>g
      <4>2. OpenSession(p)'
        BY ZenonT(60), <3>1, <3>2, <4>1 DEF OpenSession
      <4>3. QED
        BY ZenonT(60), <3>1, <3>2, <4>2, <1>q
    <3>3. QED
      BY Zenon, <3>1, <3>2, <1>l
  <2>2. QED
    BY Zenon, <2>1, <1>l
<1>4. QED
  BY Zenon, <1>1, <1>2, <1>3

\* The locks, the end of a process and the environment write no record.
LEMMA EnvironmentSound ==
  ASSUME Shape, Lived,
         \/ \E p \in Procs : Release(p) \/ \E k \in Kinds, i \in Ids \cup {NoId} : Acquire(p, k, i)
         \/ Environment
         \/ UNCHANGED vars
  PROVE  StepSound
<1> USE DEF object, control, session, ghost, env
<1>1. ASSUME NEW p \in Procs, Release(p) \/ Crash(p) PROVE StepSound
  <2>1. /\ UNCHANGED store /\ pc'[p] = "idle" /\ OthersStay(p)
        /\ \A q \in Procs : q # p => rec'[q] = rec[q]
    BY ZenonT(30), <1>1 DEF Release, Crash, Forget, OthersStay, Shape, TypeOK
  <2>2. OpenSession(p)'
    BY Zenon, <2>1 DEF OpenSession, Writers, Active
  <2>3. QED
    BY ZenonT(60), <2>1, <2>2, QuietSound
<1>2. ASSUME NEW p \in Procs, NEW k \in Kinds, NEW i \in Ids \cup {NoId}, Acquire(p, k, i)
      PROVE  StepSound
  <2>1. UNCHANGED <<store, rec>> /\ pc'[p] = "locked" /\ OthersStay(p)
    BY ZenonT(60), <1>2 DEF Acquire, Goto, OthersStay, Shape, TypeOK
  <2>2. OpenSession(p)'
    BY Zenon, <2>1 DEF OpenSession, Writers, Active
  <2>3. QED
    BY ZenonT(60), <2>1, <2>2, QuietSound
<1>3. CASE OrphanExits \/ Unlock \/ PlanExpires \/ UNCHANGED vars
  <2>1. UNCHANGED <<store, pc, rec, work>>
    BY ZenonT(60), <1>3 DEF OrphanExits, Unlock, PlanExpires, vars
  <2>2. \A q \in Procs : OpenSession(q)'
    BY Zenon, <2>1 DEF Lived, OpenSession
  <2>3. SettledKept /\ UnknownKept
    BY Zenon, <2>1 DEF SettledKept, UnknownKept
  <2>4. QED
    BY ZenonT(60), <2>1, <2>2, <2>3 DEF StepSound, Lived
<1>4. QED
  BY Zenon, <1>1, <1>2, <1>3 DEF Environment

------------------------------------------------------------------------------
\* Every step keeps Lived, settled outcomes and unknown outcomes.
LEMMA SoundStep ==
  ASSUME Shape, Safe, Lived, [Next]_vars
  PROVE  StepSound
<1>1. ASSUME NEW p \in Procs, NEW n \in Nodes, WorkerStep(p, n) PROVE StepSound
  BY Zenon, <1>1, WorkerWrites, RunWorkerSound, RecoverWorkerSound
<1>2. ASSUME NEW p \in Procs, CommandStep(p) PROVE StepSound
  BY ZenonT(60), <1>1, <1>2, PruneSound, CreateSound, OpenSound, EndSound, EnvironmentSound
     DEF CommandStep
<1>3. QED
  BY Zenon, <1>2, EnvironmentSound DEF Next

\* The empty store with idle processes satisfies Lived.
LEMMA LivedInit == ASSUME Init PROVE Lived
<1>1. \A i \in Ids : store[i].rec = NullRecord
  BY Zenon DEF Init
<1>2. Sound(NullRecord)
  BY Zenon DEF NullRecord, NewRecord, Sound
<1>3. \A p \in Procs : OpenSession(p)
  BY Zenon DEF Init, OpenSession, Writers, Active
<1>4. QED
  BY Zenon, <1>1, <1>2, <1>3 DEF Lived

\* A finished, resolved record keeps its outcome until pruneExecutions removes
\* it, also when a lock was broken and a displaced process still writes.
THEOREM OutcomesFinal == Spec => SettledIsFinal
<1>1. Shape /\ Safe /\ Lived /\ [Next]_vars => Lived' /\ SettledKept
  BY Zenon, SoundStep DEF StepSound
<1>2. Init => Lived
  BY Zenon, LivedInit
<1>3. QED
  BY <1>1, <1>2, SafeInvariant, PTL DEF Spec, SettledIsFinal, SettledKept

\* A phase that leaves a mutation unknown is changed by the command that runs
\* the node and by nobody else: not by recovery, resumption or cancellation.
THEOREM UnknownOutcomesStay == Spec => UnknownStaysUnknown
<1>1. Shape /\ Safe /\ Lived /\ [Next]_vars => Lived' /\ UnknownKept
  BY Zenon, SoundStep DEF StepSound
<1>2. Init => Lived
  BY Zenon, LivedInit
<1>3. QED
  BY <1>1, <1>2, SafeInvariant, PTL DEF Spec, UnknownStaysUnknown, UnknownKept

------------------------------------------------------------------------------
(* The workers, once more: what they publish and where they go.             *)

\* The commands that walk the levels and stop at the first failure.
LevelKinds == {"apply", "retain", "destroy", "plan"} \cup RunKinds

\* A record that differs from the session's in what concerns node n.
NodeChange(p, n, next) ==
  /\ next.saved = rec[p].saved
  /\ \A m \in Nodes : m # n => next.phase[m] = rec[p].phase[m]
  /\ next.phase[n] = "absent" => rec[p].phase[n] = "absent"
  /\ ~RetainPlan(p, n) =>
       /\ next.plan = rec[p].plan
       /\ next.phase[n] = "planned" =>
            \/ rec[p].phase[n] = "planned"
            \/ pc[p] = "run" /\ cmd[p] = "apply_saved" /\ work[p][n] = "initRun"

\* Where a worker of a run goes, with the phase its session publishes.
Advances(p, n, ph, w) ==
  /\ w # "wait"
  /\ w \in InitWork /\ cmd[p] = "apply_saved" =>
       work[p][n] = "init" \/ rec[p].plan[n] # NoPlan
  /\ w = "done" /\ cmd[p] \in LevelKinds => ph = "completed" \/ work[p][n] = "review"
  /\ w = "review" => cmd[p] \in {"save", "continue"}
  /\ work[p][n] = "wait" =>
       w \in {"skipped", "failed"} \/ (Ready(p, n) /\ ~Stopped(p, n))
  /\ w \in {"planned", "apply", "applyRun"} =>
       work[p][n] \in {"planned", "apply"} \/ cmd[p] \in LevelKinds \cup {"apply_saved"}

\* The record is published and the worker goes on, there is nothing to
\* publish, or publishing fails and ends the node or the command.
Outcome(p, n, next, w) ==
  \/ WriteOK(p, sid[p], next) /\ Step(p, n, w)
  \/ /\ NoWrite /\ Step(p, n, w) /\ next = rec[p]
     /\ w \in {"apply", "applyRun"} => work[p][n] = "apply"
  \/ UNCHANGED <<store, rec>> /\ Step(p, n, "failed") /\ next = rec[p] /\ w = "failed"
  \/ WriteErr(p, sid[p], next) /\ (Step(p, n, "failed") \/ UNCHANGED work)

\* The steps of a worker: what they write and where they lead.
LEMMA WorkerTable ==
  ASSUME Shape, NEW p \in Procs, NEW n \in Nodes, WorkerStep(p, n)
  PROVE  /\ work[p][n] \notin Ended
         /\ \E next, w : /\ NodeChange(p, n, next) /\ Outcome(p, n, next, w)
                         /\ pc[p] = "run" => Advances(p, n, next.phase[n], w)
<1> DEFINE Goal == \E next, w : /\ NodeChange(p, n, next) /\ Outcome(p, n, next, w)
                                /\ pc[p] = "run" => Advances(p, n, next.phase[n], w)
           Moved == work[p][n] \notin Ended /\ Goal
<1>r. rec[p] \in Record
  BY Zenon DEF Shape, TypeOK
<1>c. NodeChange(p, n, rec[p])
  BY Zenon DEF NodeChange
<1>n. ASSUME NoWrite, NEW w, Step(p, n, w), pc[p] = "run" => Advances(p, n, rec[p].phase[n], w),
             w \in {"apply", "applyRun"} => work[p][n] = "apply"
      PROVE  Goal
  BY Zenon, <1>n, <1>c DEF Outcome
<1>f. ASSUME Fails(p, n) PROVE Goal
  <2>1. Advances(p, n, rec[p].phase[n], "failed")
    BY Zenon DEF Advances, InitWork
  <2>2. QED
    BY Zenon, <1>f, <1>n, <2>1 DEF Fails
<1>t. ASSUME NEW ph, NEW w, Transition(p, n, ph, w), pc[p] = "run", ph # "absent",
             ph = "planned" => cmd[p] = "apply_saved" /\ work[p][n] = "initRun",
             Advances(p, n, ph, w)
      PROVE  Goal
  <2> DEFINE next == WithPhase(rec[p], n, ph)
  <2>1. /\ next.saved = rec[p].saved /\ next.plan = rec[p].plan
        /\ next.phase[n] = ph
        /\ \A m \in Nodes : m # n => next.phase[m] = rec[p].phase[m]
    BY Zenon, <1>r DEF WithPhase, Record
  <2>2. Outcome(p, n, next, w)
    BY Zenon, <1>t DEF Outcome, Transition
  <2> HIDE DEF next
  <2>3. NodeChange(p, n, next)
    BY Zenon, <1>t, <2>1 DEF NodeChange
  <2>4. QED
    BY ZenonT(60), <1>t, <2>1, <2>2, <2>3
<1>u. ASSUME NEW next, pc[p] = "recover", NodeChange(p, n, next), NEW w, Outcome(p, n, next, w)
      PROVE  Goal
  BY Zenon, <1>u
<1> SUFFICES Moved
  BY Zenon
<1> HIDE DEF Goal
<1> USE DEF Ended, Advances, InitWork, LevelKinds, RunKinds
<1>1. CASE SkipNode(p, n)
  BY Zenon, <1>1, <1>n DEF SkipNode, Ready
<1>2. CASE StartNode(p, n)
  <2>1. HasBundle(rec[p], sid[p], n) => rec[p].plan[n] # NoPlan
    BY ZenonT(60), PlanAssumption DEF HasBundle, Shape, TypeOK
  <2>2. QED
    BY ZenonT(60), <1>2, <2>1, <1>f, <1>t DEF StartNode, Ready
<1>3. CASE RunInit(p, n)
  BY Zenon, <1>3, <1>n, <1>t DEF RunInit
<1>4. CASE InitReturns(p, n)
  BY ZenonT(60), <1>4, <1>t DEF InitReturns
<1>5. CASE ReadReturns(p, n)
  BY Zenon, <1>5, <1>t DEF ReadReturns
<1>6. CASE PlanReturns(p, n)
  BY Zenon, <1>6, <1>f, <1>t DEF PlanReturns
<1>7. CASE RetainPlan(p, n)
  <2> DEFINE next == WithPlan(rec[p], n, NewPlan)
             w == IF cmd[p] = "retain" THEN "planned" ELSE "review"
  <2>1. NodeChange(p, n, next)
    BY Zenon, <1>r, <1>7 DEF NodeChange, WithPlan, Record
  <2>2. Advances(p, n, next.phase[n], w) /\ Advances(p, n, rec[p].phase[n], "failed")
    BY Zenon, <1>7 DEF RetainPlan
  <2>3. \/ Outcome(p, n, next, w)
        \/ Outcome(p, n, rec[p], "failed")
    BY ZenonT(60), <1>7 DEF RetainPlan, Outcome
  <2>4. work[p][n] \notin Ended
    BY Zenon, <1>7 DEF RetainPlan
  <2> HIDE DEF next, w
  <2>5. Goal
    BY ZenonT(60), <2>1, <2>2, <2>3, <1>c DEF Goal
  <2>6. QED
    BY Zenon, <2>4, <2>5
<1>8. CASE SetReview(p, n)
  <2>1. Outcome(p, n, rec[p], "done") /\ pc[p] = "run" /\ work[p][n] = "review"
    BY ZenonT(60), <1>8 DEF SetReview, Outcome
  <2>2. Advances(p, n, rec[p].phase[n], "done")
    BY Zenon, <2>1
  <2>3. Goal
    BY ZenonT(60), <2>1, <2>2, <1>c DEF Goal
  <2>4. QED
    BY Zenon, <2>1, <2>3
<1>9. CASE AdmitPlan(p, n)
  BY Zenon, <1>9, <1>f, <1>t DEF AdmitPlan
<1>10. CASE RunMutation(p, n)
  BY Zenon, <1>10, <1>n, <1>t DEF RunMutation
<1>11. CASE MutationReturns(p, n)
  BY Zenon, <1>11, <1>f, <1>t DEF MutationReturns
<1>12. CASE CollectOutputs(p, n)
  BY Zenon, <1>12, <1>f, <1>t DEF CollectOutputs
<1>p. ASSUME NEW b PROVE NodeChange(p, n, [rec[p] EXCEPT !.prep = b])
  BY Zenon, <1>r DEF NodeChange, Record
<1>q. NodeChange(p, n, WithPhase(rec[p], n, "completed"))
  BY Zenon, <1>r DEF NodeChange, WithPhase, Record
<1>13. CASE RecoverNode(p, n)
  <2>1. \/ Fails(p, n)
        \/ Outcome(p, n, rec[p], "collect")
        \/ Outcome(p, n, [rec[p] EXCEPT !.prep = TRUE], "init")
    BY Zenon, <1>13 DEF RecoverNode, Outcome
  <2>2. pc[p] = "recover" /\ work[p][n] = "wait"
    BY Zenon, <1>13 DEF RecoverNode
  <2>3. Goal
    BY ZenonT(60), <2>1, <2>2, <1>c, <1>f, <1>p, <1>u
  <2>4. QED
    BY ZenonT(60), <2>2, <2>3
<1>14. CASE RecoverInit(p, n)
  <2>1. \/ Fails(p, n)
        \/ Outcome(p, n, rec[p], "initRun")
        \/ Outcome(p, n, [rec[p] EXCEPT !.prep = FALSE], "collect")
    BY Zenon, <1>14 DEF RecoverInit, Outcome
  <2>2. pc[p] = "recover" /\ work[p][n] \in {"init", "initRun"}
    BY Zenon, <1>14 DEF RecoverInit
  <2>3. Goal
    BY ZenonT(60), <2>1, <2>2, <1>c, <1>f, <1>p, <1>u
  <2>4. QED
    BY Zenon, <2>2, <2>3
<1>15. CASE RecoverOutputs(p, n)
  <2>1. \/ Fails(p, n)
        \/ Outcome(p, n, WithPhase(rec[p], n, "completed"), "done")
    BY Zenon, <1>15 DEF RecoverOutputs, Outcome
  <2>2. pc[p] = "recover" /\ work[p][n] = "collect"
    BY Zenon, <1>15 DEF RecoverOutputs
  <2>3. Goal
    BY ZenonT(60), <2>1, <2>2, <1>f, <1>q, <1>u
  <2>4. QED
    BY Zenon, <2>2, <2>3
<1>16. QED
  BY ZenonT(60), <1>1, <1>2, <1>3, <1>4, <1>5, <1>6, <1>7, <1>8, <1>9, <1>10, <1>11,
     <1>12, <1>13, <1>14, <1>15 DEF WorkerStep

------------------------------------------------------------------------------
(* Plans and their bundles.                                                 *)

\* Plan k belongs to node n of execution i, as a bundle, the stored record or
\* a session says.
Refers(k, i, n) ==
  \/ \E b \in bundles : b.plan = k /\ b.exec = i /\ b.node = n
  \/ store[i].rec.plan[n] = k
  \/ \E p \in Procs : sid[p] = i /\ rec[p].plan[n] = k

OneOwner ==
  \A k \in PlanIds, i, j \in Ids, n, m \in Nodes :
    Refers(k, i, n) /\ Refers(k, j, m) => i = j /\ n = m

Bundled ==
  \A i \in Ids : Exists(i) /\ ~Settled(store[i].rec) =>
    \A n \in Nodes : store[i].rec.plan[n] # NoPlan => HasBundle(store[i].rec, i, n)

PlanKnown(r) == \A n \in Nodes : r.phase[n] = "planned" => r.plan[n] # NoPlan

Opening == {"idle", "locked", "prune", "create"}

PlanSession(p) ==
  /\ pc[p] \in Opening => rec[p] = NullRecord
  /\ PlanKnown(rec[p])
  /\ pc[p] = "run" /\ cmd[p] = "apply_saved" =>
       \A n \in Nodes : work[p][n] \in InitWork => rec[p].plan[n] # NoPlan
  /\ pc[p] = "clean" /\ Settled(rec[p]) /\ Exists(sid[p])
       => Settled(store[sid[p]].rec)

\* A plan has one owner, every plan an open record refers to is stored, a
\* planned node has a plan, and a command that is about to delete bundles
\* works on an execution that is settled in the store too.
Evidence == /\ OneOwner /\ Bundled
            /\ \A i \in Ids : PlanKnown(store[i].rec)
            /\ \A p \in Procs : PlanSession(p)

\* The step of EvidenceKept.
EvidenceStep ==
  \A i \in Ids : Exists(i) =>
    LET r == store[i].rec
        Mine(s) == {b \in s : b.exec = i /\ b.plan \in BundlesOf(r)} IN
    /\ ~Settled(r) => Mine(bundles) \subseteq bundles'
    /\ store'[i].rev = NoRev => Mine(bundles') = {}

\* What every step does except the one that stores a plan: it refers to no
\* plan anew, deletes bundles of settled executions only, a record after its
\* bundles, and keeps the plans of the records that stay open.
Careful ==
  /\ bundles' \subseteq bundles
  /\ \A b \in bundles \ bundles' : \E j \in Ids, m \in Nodes :
       Refers(b.plan, j, m) /\ (Exists(j) => Settled(store[j].rec))
  /\ \A i \in Ids : Exists(i) /\ store'[i].rev = NoRev =>
       \A b \in bundles' : b.plan \notin BundlesOf(store[i].rec)
  /\ \A k \in PlanIds, i \in Ids, n \in Nodes : Refers(k, i, n)' => Refers(k, i, n)
  /\ \A i \in Ids : store'[i].rev # NoRev /\ ~Settled(store'[i].rec) =>
       \/ \A n \in Nodes : store'[i].rec.plan[n] = NoPlan
       \/ /\ Exists(i) /\ ~Settled(store[i].rec)
          /\ store'[i].rec.plan = store[i].rec.plan

\* A step that deletes no bundle in use and stores no plan keeps the bundles.
LEMMA CarefulKeeps ==
  ASSUME Shape, Evidence, Careful
  PROVE  OneOwner' /\ Bundled' /\ EvidenceStep
<1>1. OneOwner'
  <2>1. SUFFICES ASSUME NEW k \in PlanIds, NEW i \in Ids, NEW j \in Ids,
                        NEW n \in Nodes, NEW m \in Nodes,
                        Refers(k, i, n)', Refers(k, j, m)'
                 PROVE  i = j /\ n = m
    BY ZenonT(60) DEF OneOwner
  <2>2. Refers(k, i, n) /\ Refers(k, j, m)
    BY Zenon, <2>1 DEF Careful
  <2>3. QED
    BY Zenon, <2>2 DEF Evidence, OneOwner
<1>2. ASSUME NEW i \in Ids, Exists(i), ~Settled(store[i].rec), NEW b \in bundles, b.exec = i
      PROVE  b \in bundles'
  <2>1. b.plan \in PlanIds /\ b.node \in Nodes
    BY Zenon DEF Shape, TypeOK
  <2>2. Refers(b.plan, i, b.node)
    BY Zenon, <1>2 DEF Refers
  <2>3. SUFFICES ASSUME b \notin bundles' PROVE FALSE
    BY Zenon
  <2>4. PICK j \in Ids, m \in Nodes :
          Refers(b.plan, j, m) /\ (Exists(j) => Settled(store[j].rec))
    BY Zenon, <2>3 DEF Careful
  <2>5. i = j
    BY ZenonT(60), <2>1, <2>2, <2>4 DEF Evidence, OneOwner
  <2>6. QED
    BY ZenonT(60), <1>2, <2>4, <2>5
<1>3. Bundled'
  <2>1. SUFFICES ASSUME NEW i \in Ids, Exists(i)', ~Settled(store'[i].rec), NEW n \in Nodes,
                        store'[i].rec.plan[n] # NoPlan
                 PROVE  \E b \in bundles' :
                          b.plan = store'[i].rec.plan[n] /\ b.exec = i /\ b.node = n
    BY Zenon DEF Bundled, HasBundle, Settled, ExecutionNeedsRecovery
  <2>2. /\ Exists(i) /\ ~Settled(store[i].rec)
        /\ store'[i].rec.plan = store[i].rec.plan
    BY Zenon, <2>1 DEF Careful, Exists
  <2>a. store[i].rec.plan[n] # NoPlan
    BY Zenon, <2>1, <2>2
  <2>3. PICK b \in bundles : b.plan = store[i].rec.plan[n] /\ b.exec = i /\ b.node = n
    BY ZenonT(60), <2>a, <2>2 DEF Evidence, Bundled, HasBundle
  <2>4. QED
    BY ZenonT(60), <2>2, <2>3, <1>2
<1>4. EvidenceStep
  BY Zenon, <1>2 DEF EvidenceStep, Careful
<1>5. QED
  BY ZenonT(60), <1>1, <1>3, <1>4

\* No object is created under an ID that a session may know.
NoneBack == \A i \in Ids : store'[i].rev # NoRev => Exists(i) \/ i \notin used

\* A step of p leaves the plans of the other sessions.
LEMMA OtherPlans ==
  ASSUME Shape, Safe, Evidence, SettledKept, NoneBack, NEW p \in Procs, OthersStay(p),
         \A q \in Procs : q # p => rec'[q] = rec[q] /\ sid'[q] = sid[q] /\ cmd'[q] = cmd[q],
         PlanSession(p)'
  PROVE  \A q \in Procs : PlanSession(q)'
<1>1. SUFFICES ASSUME NEW q \in Procs, q # p PROVE PlanSession(q)'
  BY Zenon
<1>2. PlanSession(q)
  BY Zenon DEF Evidence
<1>3. /\ pc'[q] = pc[q] /\ work'[q] = work[q] /\ rec'[q] = rec[q]
      /\ sid'[q] = sid[q] /\ cmd'[q] = cmd[q]
  BY Zenon, <1>1 DEF OthersStay
<1>4. ASSUME pc[q] = "clean", Settled(rec[q]), store'[sid[q]].rev # NoRev
      PROVE  Settled(store'[sid[q]].rec)
  <2>1. sid[q] \in Ids
    BY Zenon, <1>4 DEF Shape, Control, SessionNamed, Active
  <2>2. Exists(sid[q])
    BY ZenonT(60), <1>4, <2>1 DEF NoneBack, Safe, UsedIds
  <2>3. QED
    BY ZenonT(60), <1>2, <1>4, <2>1, <2>2 DEF PlanSession, SettledKept
<1>5. QED
  BY ZenonT(90), SMTT(60), <1>2, <1>3, <1>4 DEF PlanSession, PlanKnown, Settled, ExecutionNeedsRecovery, Exists

\* A careful step of p keeps Evidence if it keeps what Evidence says of p.
LEMMA EvidenceFrom ==
  ASSUME Shape, Safe, Evidence, SettledKept, NoneBack, Careful, NEW p \in Procs, OthersStay(p),
         \A q \in Procs : q # p => rec'[q] = rec[q] /\ sid'[q] = sid[q] /\ cmd'[q] = cmd[q],
         \A i \in Ids : PlanKnown(store'[i].rec),
         PlanSession(p)'
  PROVE  Evidence' /\ EvidenceStep
<1>1. \A q \in Procs : PlanSession(q)'
  BY Zenon, OtherPlans
<1>2. \A i \in Ids : PlanKnown(store[i].rec)'
  BY Zenon DEF PlanKnown
<1>3. QED
  BY ZenonT(60), <1>1, <1>2, CarefulKeeps DEF Evidence

\* A session that publishes keeps the plans of the record it read.
LEMMA PublishPlans ==
  ASSUME Shape, Safe, Lived, Evidence, SettledKept, NEW p \in Procs, pc[p] \in Writers,
         NEW next, Wrote(p, next), next.plan = rec[p].plan, PlanKnown(next),
         UNCHANGED <<bundles, sid, cmd>>, OthersStay(p),
         pc'[p] \notin Opening,
         pc'[p] = "clean" => rec'[p] = store'[sid[p]].rec,
         pc'[p] = "run" /\ cmd[p] = "apply_saved" =>
           \A n \in Nodes : work'[p][n] \in InitWork => rec[p].plan[n] # NoPlan
  PROVE  Evidence' /\ EvidenceStep
<1>1. pc[p] \in Active
  BY Zenon DEF Writers
<1>2. sid[p] \in Ids /\ rev[p] # NoRev /\ ~rec[p].finished /\ PlanSession(p)
  BY Zenon, <1>1 DEF Shape, Control, SessionNamed, Safe, Revisions, Lived, OpenSession, Evidence
<1>3. ASSUME store[sid[p]].rev = rev[p]
      PROVE  store[sid[p]].rec = rec[p] /\ Exists(sid[p]) /\ ~Settled(store[sid[p]].rec)
  BY ZenonT(60), <1>2, <1>3, SentinelAssumption DEF Safe, SessionCurrent, Exists, Settled
<1>4. /\ rec'[p].plan = rec[p].plan /\ PlanKnown(rec'[p])
      /\ \A q \in Procs : q # p => rec'[q] = rec[q]
  BY Zenon, <1>2 DEF Wrote, PlanSession
<1>5. \A i \in Ids :
        \/ store'[i] = store[i]
        \/ /\ store'[i].rec = next /\ store'[i].rev # NoRev
           /\ store[i].rec = rec[p] /\ Exists(i) /\ ~Settled(store[i].rec)
  BY ZenonT(60), <1>3 DEF Wrote
<1>6. \A i \in Ids : store'[i].rec.plan = store[i].rec.plan
  BY Zenon, <1>5
<1>7. \A q \in Procs : rec'[q].plan = rec[q].plan
  BY ZenonT(60), <1>4
<1>8. Careful
  <2>1. ASSUME NEW k \in PlanIds, NEW i \in Ids, NEW n \in Nodes, Refers(k, i, n)'
        PROVE  Refers(k, i, n)
    BY ZenonT(60), <2>1, <1>6, <1>7 DEF Refers
  <2>2. ASSUME NEW i \in Ids, store'[i].rev # NoRev, ~Settled(store'[i].rec)
        PROVE  Exists(i) /\ ~Settled(store[i].rec)
    BY Zenon, <2>2, <1>5 DEF Exists
  <2>3. ASSUME NEW i \in Ids, store'[i].rev = NoRev PROVE ~Exists(i)
    BY ZenonT(60), <2>3, <1>5 DEF Exists
  <2>4. QED
    BY ZenonT(60), <2>1, <2>2, <2>3, <1>6 DEF Careful
<1>9. NoneBack
  BY Zenon, <1>5 DEF NoneBack, Exists
<1>10. \A i \in Ids : PlanKnown(store'[i].rec)
  BY Zenon, <1>5 DEF Evidence
<1>11. PlanSession(p)'
  <2>1. PlanKnown(rec[p])'
    BY Zenon, <1>4 DEF PlanKnown
  <2>2. pc'[p] = "clean" => (Settled(rec[p])' => Settled(store[sid[p]].rec)')
    BY Zenon DEF Settled, ExecutionNeedsRecovery
  <2>3. pc'[p] = "run" /\ cmd'[p] = "apply_saved" =>
          \A n \in Nodes : work'[p][n] \in InitWork => rec'[p].plan[n] # NoPlan
    BY ZenonT(60), <1>4
  <2>4. QED
    BY ZenonT(60), <2>1, <2>2, <2>3 DEF PlanSession
<1>12. QED
  BY ZenonT(60), <1>4, <1>8, <1>9, <1>10, <1>11, EvidenceFrom

\* A step of one worker leaves the others where they are.
LEMMA StepKeeps ==
  ASSUME Shape, NEW p \in Procs, NEW n \in Nodes, NEW w, Step(p, n, w)
  PROVE  /\ work'[p][n] = w
         /\ \A q \in Procs, m \in Nodes : q # p \/ m # n => work'[q][m] = work[q][m]
  BY Zenon DEF Step, Shape, TypeOK

\* The steps of a worker other than RetainPlan keep Evidence.
LEMMA WorkerPlans ==
  ASSUME Shape, Safe, Lived, Evidence, SettledKept, NEW p \in Procs, NEW n \in Nodes,
         WorkerStep(p, n), ~RetainPlan(p, n)
  PROVE  Evidence' /\ EvidenceStep
<1>1. PICK next, w : /\ NodeChange(p, n, next) /\ Outcome(p, n, next, w)
                     /\ pc[p] = "run" => Advances(p, n, next.phase[n], w)
  BY Zenon, WorkerTable
<1>2. /\ pc[p] \in {"run", "recover"} /\ pc'[p] \in {pc[p], "release"}
      /\ UNCHANGED <<cmd, sid>> /\ OthersStay(p)
  BY ZenonT(60), WorkerWrites, WorkerOthers
<1>3. UNCHANGED bundles
  BY Zenon DEF WorkerStep, SkipNode, StartNode, RunInit, InitReturns, ReadReturns,
     PlanReturns, SetReview, AdmitPlan, RunMutation, MutationReturns, CollectOutputs,
     RecoverNode, RecoverInit, RecoverOutputs
<1>4. pc[p] \in Active /\ pc[p] \in Writers
  BY Zenon, <1>2 DEF Active, Writers
<1>5. Wrote(p, next)
  BY Zenon, <1>1, <1>4, WriteWrote DEF Outcome, NoWrite
<1>6. PlanSession(p)
  BY Zenon DEF Evidence
<1>7. PlanKnown(next)
  <2>1. SUFFICES ASSUME NEW m \in Nodes, next.phase[m] = "planned"
                 PROVE  rec[p].plan[m] # NoPlan
    BY Zenon, <1>1 DEF PlanKnown, NodeChange
  <2>2. \/ rec[p].phase[m] = "planned"
        \/ m = n /\ pc[p] = "run" /\ cmd[p] = "apply_saved" /\ work[p][n] = "initRun"
    BY Zenon, <1>1, <2>1 DEF NodeChange
  <2>3. QED
    BY Zenon, <2>2, <1>6 DEF PlanSession, PlanKnown, InitWork
<1>8. \A m \in Nodes : work'[p][m] = work[p][m] \/ (m = n /\ work'[p][m] \in {w, "failed"})
  <2>1. Step(p, n, w) \/ Step(p, n, "failed") \/ UNCHANGED work
    BY ZenonT(60), <1>1 DEF Outcome
  <2>2. ASSUME NEW x, Step(p, n, x), NEW m \in Nodes
        PROVE  work'[p][m] = work[p][m] \/ (m = n /\ work'[p][m] = x)
    BY Zenon, <2>2 DEF Step, Shape, TypeOK
  <2>3. QED
    BY Zenon, <2>1, <2>2
<1>9. ASSUME pc[p] = "run", cmd[p] = "apply_saved", NEW m \in Nodes, work'[p][m] \in InitWork
      PROVE  rec[p].plan[m] # NoPlan
  <2>1. CASE work'[p][m] = work[p][m]
    BY ZenonT(60), <2>1, <1>9, <1>6 DEF PlanSession
  <2>2. CASE m = n /\ work'[p][m] = w
    BY ZenonT(60), <2>2, <1>1, <1>6, <1>9 DEF PlanSession, Advances, InitWork
  <2>3. CASE work'[p][m] = "failed"
    BY ZenonT(60), <2>3, <1>9 DEF InitWork
  <2>4. QED
    BY ZenonT(60), <1>8, <2>1, <2>2, <2>3
<1>10. pc'[p] \notin Opening /\ pc'[p] # "clean" /\ (pc'[p] = "run" => pc[p] = "run")
  BY Zenon, <1>2 DEF Opening
<1>11. next.plan = rec[p].plan
  BY Zenon, <1>1 DEF NodeChange
<1>12. QED
  BY ZenonT(60), <1>2, <1>3, <1>4, <1>5, <1>7, <1>9, <1>10, <1>11, PublishPlans

\* The steps that end a command, and BindGraph.
EndStep(p) ==
  \/ Finish(p) \/ SavedStepDone(p) \/ NoteSavedFailure(p) \/ FinishSaved(p)
  \/ Replan(p) \/ RecoverEnd(p) \/ CancelExecution(p) \/ BindGraph(p)

\* The record they publish: plans and selection stay, and so does every phase,
\* except that interrupted planning is pending again.
Closes(r, next) ==
  /\ next.plan = r.plan /\ next.saved = r.saved
  /\ \A n \in Nodes : \/ next.phase[n] = r.phase[n]
                      \/ r.phase[n] = "preparing" /\ next.phase[n] = "pending"

\* The records that the end of a command writes.
LEMMA ClosesRecords ==
  ASSUME NEW r \in Record
  PROVE  /\ Closes(r, r) /\ Closes(r, [r EXCEPT !.status = "waiting_for_apply"])
         /\ \A ok \in BOOLEAN : Closes(r, Finished(r, ok))
         /\ Closes(r, AppliedSaved(r)) /\ Closes(r, Recovered(r))
         /\ Closes(r, FinishedSaved(r, FALSE))
         /\ \A s : Closes(r, Terminal(r, s))
<1>1. Closes(r, r)
  BY Zenon DEF Closes
<1>2. Closes(r, [r EXCEPT !.status = "waiting_for_apply"])
  BY Zenon DEF Closes, Record
<1>3. \A ok \in BOOLEAN : Closes(r, Finished(r, ok))
  BY Zenon DEF Closes, Record, Finished
<1>4. Closes(r, AppliedSaved(r)) /\ Closes(r, Recovered(r))
  BY Zenon DEF Closes, Record, AppliedSaved, Recovered
<1>5. Closes(r, FinishedSaved(r, FALSE))
  <2>1. /\ FinishedSaved(r, FALSE).plan = r.plan /\ FinishedSaved(r, FALSE).saved = r.saved
    BY Zenon DEF FinishedSaved, Record
  <2>2. FinishedSaved(r, FALSE).phase =
          [n \in Nodes |-> IF r.phase[n] = "preparing" THEN "pending" ELSE r.phase[n]]
    BY Zenon, FinishedSavedType
  <2>3. \A n \in Nodes : \/ FinishedSaved(r, FALSE).phase[n] = r.phase[n]
                          \/ /\ r.phase[n] = "preparing"
                             /\ FinishedSaved(r, FALSE).phase[n] = "pending"
    BY ZenonT(60), <2>2
  <2>4. QED
    BY ZenonT(60), <2>1, <2>3 DEF Closes
<1>6. \A s : Closes(r, Terminal(r, s))
  BY Zenon DEF Closes, Record, Terminal
<1>7. QED
  BY ZenonT(60), <1>1, <1>2, <1>3, <1>4, <1>5, <1>6

\* The end of a command: what it writes and where it leads.
LEMMA EndTable ==
  ASSUME Shape, NEW p \in Procs, EndStep(p)
  PROVE  /\ pc[p] \in Writers /\ UNCHANGED <<bundles, sid, cmd>> /\ OthersStay(p)
         /\ pc'[p] \in {"run", "clean", "release", "finish_saved"}
         /\ \E next : /\ Wrote(p, next) /\ Closes(rec[p], next)
                      /\ pc'[p] = "clean" => rec'[p] = store'[sid[p]].rec
         /\ pc'[p] = "run" => /\ pc[p] = "bind" /\ rec'[p] = rec[p]
                              /\ work'[p] = Waiting(Frontier(rec[p]))
<1>1. UNCHANGED <<bundles, sid, cmd>> /\ pc[p] \in Writers /\ pc[p] \in Active
  BY Zenon DEF EndStep, Finish, SavedStepDone, NoteSavedFailure, FinishSaved, Replan,
         RecoverEnd, CancelExecution, BindGraph, endFrame, Writers, Active
<1>r. rec[p] \in Record /\ sid[p] \in Ids
  BY ZenonT(60), <1>1 DEF Shape, TypeOK, Control, SessionNamed
<1>g. ASSUME NEW l, Goto(p, l)
      PROVE  pc'[p] = l /\ \A q \in Procs : q # p => pc'[q] = pc[q]
  BY ZenonT(60), <1>g DEF Goto, Shape, TypeOK
<1>o. ASSUME NEW l, Goto(p, l), UNCHANGED work \/ BindGraph(p) PROVE OthersStay(p)
  BY ZenonT(60), <1>g, <1>o DEF OthersStay, BindGraph, Shape, TypeOK
<1>p. ASSUME NEW next, NEW l, NEW e, Publish(p, next, l, e)
      PROVE  /\ Wrote(p, next)
             /\ \/ Goto(p, l) /\ rec'[p] = next /\ store'[sid[p]].rec = next
                \/ Goto(p, e) /\ rec'[p] = rec[p]
  <2>1. Wrote(p, next)
    BY ZenonT(60), <1>1, <1>p, WriteWrote DEF Publish
  <2>2. WriteOK(p, sid[p], next) => rec'[p] = next /\ store'[sid[p]].rec = next
    BY ZenonT(60), <1>r, WriteCases DEF Shape, Landed, Acked
  <2>3. WriteErr(p, sid[p], next) => rec'[p] = rec[p]
    BY Zenon DEF WriteErr
  <2>4. QED
    BY ZenonT(60), <1>p, <2>1, <2>2, <2>3 DEF Publish
<1> DEFINE Goal == /\ OthersStay(p)
                   /\ pc'[p] \in {"run", "clean", "release", "finish_saved"}
                   /\ \E next : /\ Wrote(p, next) /\ Closes(rec[p], next)
                                /\ pc'[p] = "clean" => rec'[p] = store'[sid[p]].rec
                   /\ pc'[p] = "run" => /\ pc[p] = "bind" /\ rec'[p] = rec[p]
                                        /\ work'[p] = Waiting(Frontier(rec[p]))
<1>2. ASSUME NEW next, Closes(rec[p], next), NEW l \in {"clean", "release", "finish_saved"},
             NEW e \in {"release", "finish_saved"}, Publish(p, next, l, e),
             UNCHANGED work \/ BindGraph(p)
      PROVE  Goal
  <2>1. Goto(p, l) \/ Goto(p, e)
    BY Zenon, <1>2 DEF Publish
  <2>2. OthersStay(p) /\ pc'[p] \in {l, e}
    BY ZenonT(60), <1>2, <1>g, <1>o, <2>1
  <2>3. pc'[p] = "clean" => rec'[p] = store'[sid[p]].rec
    BY Zenon, <1>2, <1>g, <1>p
  <2>4. Wrote(p, next)
    BY ZenonT(60), <1>2, <1>p
  <2>5. pc'[p] # "run" /\ pc'[p] \in {"run", "clean", "release", "finish_saved"}
    BY Zenon, <2>2
  <2>6. QED
    BY ZenonT(60), <1>2, <2>2, <2>3, <2>4, <2>5
<1>3. ASSUME NEW l \in {"release", "finish_saved"}, Goto(p, l), NoWrite,
             UNCHANGED work \/ BindGraph(p)
      PROVE  Goal
  <2>1. OthersStay(p) /\ pc'[p] = l /\ Wrote(p, rec[p])
    BY ZenonT(60), <1>3, <1>g, <1>o DEF NoWrite, Wrote
  <2>2. pc'[p] # "clean" /\ pc'[p] # "run"
    BY Zenon, <2>1
  <2>3. QED
    BY ZenonT(60), <2>1, <2>2, <1>r, ClosesRecords
<1>s. SUFFICES Goal
  BY Zenon, <1>1
<1> HIDE DEF Goal
<1>4. CASE Finish(p)
  <2>1. PICK ok \in BOOLEAN : Publish(p, Finished(rec[p], ok), "clean", "release")
    BY ZenonT(60), <1>4 DEF Finish
  <2>2. QED
    BY ZenonT(60), <1>4, <2>1, <1>2, <1>r, ClosesRecords DEF Finish, endFrame
<1>5. CASE SavedStepDone(p)
  <2> DEFINE next == IF cmd[p] = "apply_saved" THEN AppliedSaved(rec[p])
                     ELSE [rec[p] EXCEPT !.status = "waiting_for_apply"]
  <2>1. Publish(p, next, "clean", "finish_saved") /\ UNCHANGED work
    BY Zenon, <1>5 DEF SavedStepDone, endFrame
  <2>2. Closes(rec[p], next)
    BY Zenon, <1>r, ClosesRecords
  <2> HIDE DEF next
  <2>3. QED
    BY ZenonT(60), <2>1, <2>2, <1>2
<1>6. CASE NoteSavedFailure(p)
  BY ZenonT(60), <1>6, <1>2, <1>r, ClosesRecords DEF NoteSavedFailure, endFrame
<1>7. CASE FinishSaved(p)
  BY ZenonT(60), <1>7, <1>2, <1>r, ClosesRecords DEF FinishSaved, endFrame
<1>8. CASE Replan(p) \/ RecoverEnd(p)
  BY ZenonT(60), <1>8, <1>2, <1>3, <1>r, ClosesRecords DEF Replan, RecoverEnd, endFrame
<1>9. CASE CancelExecution(p)
  BY ZenonT(60), <1>9, <1>2, <1>r, ClosesRecords DEF CancelExecution, endFrame
<1>10. CASE BindGraph(p)
  <2>1. /\ pc[p] = "bind" /\ work'[p] = Waiting(Frontier(rec[p]))
        /\ \/ NoWrite /\ Goto(p, "finish_saved")
           \/ Publish(p, rec[p], "finish_saved", "finish_saved")
           \/ Publish(p, rec[p], "run", "finish_saved")
    BY Zenon, <1>10 DEF BindGraph, Shape, TypeOK
  <2>2. CASE Publish(p, rec[p], "run", "finish_saved")
    <3>1. Goto(p, "run") \/ Goto(p, "finish_saved")
      BY Zenon, <2>2 DEF Publish
    <3>2. OthersStay(p) /\ pc'[p] \in {"run", "finish_saved"}
      BY ZenonT(60), <3>1, <1>10, <1>g, <1>o
    <3>3. Wrote(p, rec[p]) /\ rec'[p] = rec[p] /\ Closes(rec[p], rec[p])
      BY ZenonT(60), <2>2, <1>p, <1>r, ClosesRecords
    <3>4. pc'[p] # "clean" /\ pc'[p] \in {"run", "clean", "release", "finish_saved"}
      BY Zenon, <3>2
    <3>5. QED
      BY ZenonT(60), <2>1, <3>2, <3>3, <3>4 DEF Goal
  <2>3. QED
    BY ZenonT(60), <1>10, <2>1, <2>2, <1>2, <1>3, <1>r, ClosesRecords
<1>11. QED
  BY ZenonT(60), <1>4, <1>5, <1>6, <1>7, <1>8, <1>9, <1>10 DEF EndStep

\* The end of a command keeps Evidence.
LEMMA EndPlans ==
  ASSUME Shape, Safe, Lived, Evidence, SettledKept, NEW p \in Procs, EndStep(p)
  PROVE  Evidence' /\ EvidenceStep
<1>1. PICK next : /\ Wrote(p, next) /\ Closes(rec[p], next)
                  /\ pc'[p] = "clean" => rec'[p] = store'[sid[p]].rec
  BY Zenon, EndTable
<1>2. /\ pc[p] \in Writers /\ UNCHANGED <<bundles, sid, cmd>> /\ OthersStay(p)
      /\ pc'[p] \in {"run", "clean", "release", "finish_saved"}
      /\ pc'[p] = "run" => work'[p] = Waiting(Frontier(rec[p]))
  BY ZenonT(60), EndTable
<1>3. PlanKnown(next)
  <2>1. PlanKnown(rec[p])
    BY Zenon DEF Evidence, PlanSession
  <2>2. QED
    BY Zenon, <2>1, <1>1 DEF Closes, PlanKnown
<1>4. pc'[p] = "run" => \A n \in Nodes : work'[p][n] \notin InitWork
  BY Zenon, <1>2 DEF Waiting, InitWork
<1>5. pc'[p] \notin Opening
  BY Zenon, <1>2 DEF Opening
<1>6. next.plan = rec[p].plan
  BY Zenon, <1>1 DEF Closes
<1>7. QED
  BY ZenonT(60), <1>1, <1>2, <1>3, <1>4, <1>5, <1>6, PublishPlans

\* retainPlan draws a plan nothing refers to and stores its bundle first.
LEMMA RetainPlans ==
  ASSUME Shape, Safe, Lived, Evidence, SettledKept, NEW p \in Procs, NEW n \in Nodes,
         RetainPlan(p, n)
  PROVE  Evidence' /\ EvidenceStep
<1> DEFINE k0 == NewPlan
           next == WithPlan(rec[p], n, k0)
           b0 == [plan |-> k0, exec |-> sid[p], node |-> n]
<1>1. /\ pc[p] = "run" /\ UNCHANGED <<pc, cmd, sid, used>> /\ OthersStay(p)
      /\ pc[p] \in Active /\ pc[p] \in Writers /\ sid[p] \in Ids /\ rev[p] # NoRev
      /\ rec[p] \in Record /\ ~rec[p].finished /\ PlanSession(p)
  <2>1. pc[p] = "run" /\ UNCHANGED <<pc, cmd, sid, used>>
    BY Zenon DEF RetainPlan
  <2>2. pc[p] \in Active /\ pc[p] \in Writers
    BY ZenonT(60), <2>1 DEF Active, Writers
  <2>3. OthersStay(p)
    BY Zenon, WorkerOthers DEF WorkerStep
  <2>4. QED
    BY ZenonT(60), <2>1, <2>2, <2>3 DEF Shape, Control, SessionNamed, TypeOK, Safe, Revisions,
       Lived, OpenSession, Evidence
<1>2. k0 \in PlanIds /\ k0 \notin PlansInUse
  BY Zenon DEF RetainPlan, NewPlan
<1>3. ASSUME NEW i \in Ids, NEW m \in Nodes PROVE ~Refers(k0, i, m)
  <2>1. k0 # NoPlan
    BY Zenon, <1>2, PlanAssumption
  <2>a. ASSUME NEW r, r.plan[m] = k0 PROVE k0 \in BundlesOf(r)
    BY Zenon, <2>1, <2>a DEF BundlesOf
  <2> HIDE DEF k0
  <2>2. store[i].rec.plan[m] # k0
    BY ZenonT(60), <1>2, <2>a DEF PlansInUse
  <2>3. \A q \in Procs : rec[q].plan[m] # k0
    BY ZenonT(60), <1>2, <2>a DEF PlansInUse
  <2>4. \A b \in bundles : b.plan # k0
    BY Zenon, <1>2 DEF PlansInUse
  <2>5. QED
    BY ZenonT(60), <2>2, <2>3, <2>4 DEF Refers
<1>4. /\ next.plan = [rec[p].plan EXCEPT ![n] = k0] /\ next.finished = rec[p].finished
      /\ next.phase = [rec[p].phase EXCEPT ![n] = "planned"]
  BY Zenon, <1>1 DEF WithPlan, Record
<1>5. /\ bundles \subseteq bundles' /\ bundles' \subseteq bundles \cup {b0}
      /\ UNCHANGED <<store, rec>> \/ b0 \in bundles'
      /\ UNCHANGED <<store, rec>> \/ WriteOK(p, sid[p], next) \/ WriteErr(p, sid[p], next)
  BY Zenon DEF RetainPlan
<1> HIDE DEF k0, next
<1>6. Wrote(p, next)
  BY ZenonT(60), <1>1, <1>5, WriteWrote
<1>7. \A i \in Ids :
        \/ store'[i] = store[i]
        \/ /\ i = sid[p] /\ store'[i].rec = next /\ store'[i].rev # NoRev
           /\ store[i].rec = rec[p] /\ Exists(i) /\ ~Settled(store[i].rec)
           /\ b0 \in bundles'
  <2>1. SUFFICES ASSUME ~UNCHANGED <<store, rec>> PROVE
          /\ store[sid[p]].rec = rec[p] /\ Exists(sid[p]) /\ ~Settled(store[sid[p]].rec)
    BY Zenon, <1>5, <1>6 DEF Wrote
  <2>2. store[sid[p]].rev = rev[p]
    BY Zenon, <2>1, <1>6 DEF Wrote
  <2>3. QED
    BY ZenonT(60), <2>2, <1>1, SentinelAssumption DEF Safe, SessionCurrent, Exists, Settled
<1>8. /\ rec'[p] \in {rec[p], next}
      /\ \A q \in Procs : q # p => rec'[q] = rec[q]
  BY ZenonT(60), <1>6 DEF Wrote
<1>9. \A m \in Nodes : next.plan[m] = IF m = n THEN k0 ELSE rec[p].plan[m]
  BY Zenon, <1>1, <1>4 DEF Record
<1>10. \A m \in Nodes : next.phase[m] = IF m = n THEN "planned" ELSE rec[p].phase[m]
  BY Zenon, <1>1, <1>4 DEF Record
<1>11. OneOwner'
  <2>1. ASSUME NEW k, NEW i \in Ids, NEW m \in Nodes, Refers(k, i, m)'
        PROVE  Refers(k, i, m) \/ (k = k0 /\ i = sid[p] /\ m = n)
    <3>1. CASE \E b \in bundles' : b.plan = k /\ b.exec = i /\ b.node = m
      <4>1. b0.plan = k0 /\ b0.exec = sid[p] /\ b0.node = n
        BY Zenon
      <4> HIDE DEF b0
      <4>2. QED
        BY ZenonT(60), <3>1, <4>1, <1>5 DEF Refers
    <3>2. CASE store'[i].rec.plan[m] = k
      BY Zenon, <3>2, <1>7, <1>9 DEF Refers
    <3>3. CASE \E q \in Procs : sid'[q] = i /\ rec'[q].plan[m] = k
      <4>1. PICK q \in Procs : sid[q] = i /\ rec'[q].plan[m] = k
        BY ZenonT(60), <3>3, <1>1
      <4>2. CASE rec'[q] = rec[q]
        BY ZenonT(60), <4>1, <4>2 DEF Refers
      <4>3. CASE q = p /\ rec'[p] = next
        BY Zenon, <4>1, <4>3, <1>9 DEF Refers
      <4>4. QED
        BY ZenonT(60), <4>2, <4>3, <1>8
    <3>4. QED
      BY ZenonT(60), <2>1, <3>1, <3>2, <3>3 DEF Refers
  <2>2. SUFFICES ASSUME NEW k \in PlanIds, NEW i \in Ids, NEW j \in Ids,
                        NEW m1 \in Nodes, NEW m2 \in Nodes,
                        Refers(k, i, m1)', Refers(k, j, m2)'
                 PROVE  i = j /\ m1 = m2
    BY Zenon DEF OneOwner
  <2>3. \/ Refers(k, i, m1) /\ Refers(k, j, m2)
        \/ k = k0 /\ i = sid[p] /\ m1 = n /\ j = sid[p] /\ m2 = n
    BY ZenonT(60), <2>1, <2>2, <1>3
  <2>4. QED
    BY Zenon, <2>3 DEF Evidence, OneOwner
<1>12. Bundled'
  <2>1. SUFFICES ASSUME NEW i \in Ids, Exists(i)', ~Settled(store'[i].rec), NEW m \in Nodes,
                        store'[i].rec.plan[m] # NoPlan
                 PROVE  \E b \in bundles' :
                          b.plan = store'[i].rec.plan[m] /\ b.exec = i /\ b.node = m
    BY ZenonT(60) DEF Bundled, HasBundle, Settled, ExecutionNeedsRecovery
  <2>2. CASE store'[i].rec = next /\ m = n /\ i = sid[p] /\ b0 \in bundles'
    BY Zenon, <2>2, <1>9
  <2>3. CASE /\ store'[i].rec.plan[m] = store[i].rec.plan[m]
             /\ Exists(i) /\ ~Settled(store[i].rec)
    <3>1. store[i].rec.plan[m] # NoPlan
      BY Zenon, <2>1, <2>3
    <3>2. PICK b \in bundles : b.plan = store[i].rec.plan[m] /\ b.exec = i /\ b.node = m
      BY ZenonT(60), <2>3, <3>1 DEF Evidence, Bundled, HasBundle
    <3>3. QED
      BY ZenonT(60), <2>3, <3>2, <1>5
  <2>4. store'[i] = store[i] => Exists(i) /\ ~Settled(store[i].rec)
    BY Zenon, <2>1 DEF Exists
  <2>5. QED
    BY Zenon, <2>2, <2>3, <2>4, <1>7, <1>9
<1>13. EvidenceStep
  <2>1. \A i \in Ids : Exists(i) => store'[i].rev # NoRev
    BY Zenon, <1>7 DEF Exists
  <2>2. QED
    BY Zenon, <2>1, <1>5 DEF EvidenceStep
<1>14. PlanKnown(rec[p])
  BY ZenonT(60), <1>1 DEF PlanSession
<1>15. PlanKnown(next)
  BY Zenon, <1>14, <1>9, <1>10, <1>2, PlanAssumption DEF PlanKnown
<1>16. \A i \in Ids : PlanKnown(store[i].rec)'
  <2>1. \A i \in Ids : PlanKnown(store'[i].rec)
    BY ZenonT(60), <1>7, <1>15 DEF Evidence
  <2>2. QED
    BY Zenon, <2>1 DEF PlanKnown
<1>17. PlanSession(p)'
  <2>1. PlanKnown(rec[p])'
    BY ZenonT(60), <1>8, <1>14, <1>15 DEF PlanKnown
  <2>2. pc'[p] = "run" /\ cmd'[p] # "apply_saved"
    BY Zenon, <1>1 DEF RetainPlan
  <2>3. QED
    BY Zenon, <2>1, <2>2 DEF PlanSession, Opening
<1>18. NoneBack
  BY Zenon, <1>7 DEF NoneBack, Exists
<1>19. \A q \in Procs : q # p => rec'[q] = rec[q] /\ sid'[q] = sid[q] /\ cmd'[q] = cmd[q]
  BY ZenonT(60), <1>1, <1>8
<1>20. \A q \in Procs : PlanSession(q)'
  BY ZenonT(60), <1>1, <1>17, <1>18, <1>19, OtherPlans
<1>21. QED
  BY ZenonT(60), <1>11, <1>12, <1>13, <1>16, <1>20 DEF Evidence

\* A paused record is published as expired.
Expires ==
  /\ UNCHANGED bundles
  /\ \E i \in Ids :
       LET r == store[i].rec IN
       /\ Exists(i) /\ ~ExecutionNeedsRecovery(r)
       /\ store'[i].rec = Terminal(r, "expired") /\ store'[i].rev # NoRev
       /\ \A j \in Ids : j # i => store'[j] = store[j]

\* Bundles of a settled record go, or of the settled record of a session.
Cleans(p) ==
  /\ UNCHANGED store /\ bundles' \subseteq bundles
  /\ \/ pc[p] = "clean" /\ Settled(rec[p]) /\ Others(rec[p]) \subseteq bundles'
     \/ \E i \in Ids : /\ Exists(i) /\ Settled(store[i].rec)
                       /\ Others(store[i].rec) \subseteq bundles'

\* A settled record without bundles goes.
Deletes ==
  /\ UNCHANGED bundles
  /\ \E i \in Ids :
       /\ Exists(i) /\ Settled(store[i].rec) /\ bundles = Others(store[i].rec)
       /\ store'[i].rec = NullRecord /\ store'[i].rev = NoRev
       /\ \A j \in Ids : j # i => store'[j] = store[j]

\* The barrier, pruning and cleanup: what they leave alone.
LEMMA PruneTable ==
  ASSUME Shape, NEW p \in Procs,
         CheckExecutionBarrier(p) \/ PruneStep(p) \/ CleanupExecution(p)
  PROVE  /\ UNCHANGED <<sid, cmd, rec, work>> /\ OthersStay(p)
         /\ pc'[p] \in {"prune", "create", "release"}
         /\ pc'[p] = "prune" => \/ pc[p] = "prune"
                                \/ pc[p] = "locked" /\ cmd[p] \in BeginKinds \cup {"prune"}
         /\ pc'[p] = "create" => pc[p] = "prune" /\ cmd[p] # "prune"
         /\ UNCHANGED <<store, bundles>> \/ Expires \/ Cleans(p) \/ Deletes
<1> USE DEF object, session, ghost, env
<1>u. UNCHANGED <<sid, cmd, rec, work>>
  BY ZenonT(30) DEF CheckExecutionBarrier, PruneStep, PruneSkip, PruneExpire, PruneError,
         PruneBundles, PruneRecord, PruneEnd, CleanupExecution
<1> DEFINE Prunes == /\ OthersStay(p) /\ pc'[p] \in {"prune", "create", "release"}
                     /\ pc'[p] = "prune" =>
                          \/ pc[p] = "prune"
                          \/ pc[p] = "locked" /\ cmd[p] \in BeginKinds \cup {"prune"}
                     /\ pc'[p] = "create" => pc[p] = "prune" /\ cmd[p] # "prune"
           Goal == /\ Prunes
                   /\ UNCHANGED <<store, bundles>> \/ Expires \/ Cleans(p) \/ Deletes
<1>s. SUFFICES Goal
  BY ZenonT(60), <1>u
<1>g. ASSUME NEW l \in {"prune", "create", "release"},
             \/ Goto(p, l) /\ l = "release"
             \/ Goto(p, l) /\ l = "create" /\ pc[p] = "prune" /\ cmd[p] # "prune"
             \/ /\ Goto(p, l) /\ l = "prune" /\ pc[p] = "locked"
                /\ cmd[p] \in BeginKinds \cup {"prune"}
             \/ UNCHANGED pc /\ pc[p] = "prune" /\ l = "prune"
      PROVE  Prunes
  <2>1. pc'[p] = l /\ OthersStay(p)
    BY ZenonT(60), <1>g, <1>u DEF Goto, OthersStay, Shape, TypeOK
  <2>2. QED
    BY Zenon, <1>g, <2>1
<1>c. ASSUME NEW r, CleanupOK(r) \/ CleanupErr(r)
      PROVE  bundles' \subseteq bundles /\ Others(r) \subseteq bundles'
  BY Zenon, <1>c DEF CleanupOK, CleanupErr, Others
<1> HIDE DEF Prunes
<1>1. CASE CheckExecutionBarrier(p) \/ PruneEnd(p)
  <2>1. /\ UNCHANGED <<store, bundles>>
        /\ \/ Goto(p, "release")
           \/ /\ Goto(p, "prune") /\ pc[p] = "locked"
              /\ cmd[p] \in BeginKinds \cup {"prune"}
           \/ Goto(p, "create") /\ pc[p] = "prune" /\ cmd[p] # "prune"
    BY Zenon, <1>1 DEF CheckExecutionBarrier, PruneEnd
  <2>2. QED
    BY Zenon, <2>1, <1>g
<1>2. CASE CleanupExecution(p)
  <2>1. /\ UNCHANGED store /\ pc[p] = "clean" /\ Goto(p, "release")
        /\ \/ UNCHANGED bundles
           \/ Settled(rec[p]) /\ (CleanupOK(rec[p]) \/ CleanupErr(rec[p]))
    BY Zenon, <1>2 DEF CleanupExecution
  <2>2. QED
    BY ZenonT(60), <2>1, <1>g, <1>c DEF Cleans
<1>3. ASSUME NEW i \in Ids, PruneSkip(p, i) \/ PruneError(p, i)
      PROVE  Goal
  <2>1. UNCHANGED <<store, bundles>> /\ (Goto(p, "release") \/ (UNCHANGED pc /\ pc[p] = "prune"))
    BY ZenonT(30), <1>3 DEF PruneSkip, PruneError
  <2>2. QED
    BY ZenonT(60), <2>1, <1>g
<1>4. ASSUME NEW i \in Ids, PruneBundles(p, i) PROVE Goal
  <2>1. /\ UNCHANGED store /\ (Goto(p, "release") \/ (UNCHANGED pc /\ pc[p] = "prune"))
        /\ Exists(i) /\ Settled(store[i].rec)
        /\ CleanupOK(store[i].rec) \/ CleanupErr(store[i].rec)
    BY ZenonT(30), <1>4 DEF PruneBundles
  <2>2. Prunes
    BY Zenon, <2>1, <1>g
  <2>3. QED
    BY Zenon, <2>1, <2>2, <1>c DEF Cleans
<1>5. ASSUME NEW i \in Ids, PruneExpire(p, i) PROVE Goal
  <2> DEFINE x == Terminal(store[i].rec, "expired")
  <2>1. /\ Exists(i) /\ ~ExecutionNeedsRecovery(store[i].rec) /\ UNCHANGED bundles
        /\ UNCHANGED store \/ Put(i, x)
        /\ Goto(p, "release") \/ (UNCHANGED pc /\ pc[p] = "prune")
    BY Zenon, <1>5 DEF PruneExpire
  <2>2. Prunes
    BY Zenon, <2>1, <1>g
  <2>3. CASE Put(i, x)
    <3>1. /\ store'[i].rec = x /\ store'[i].rev # NoRev
          /\ \A j \in Ids : j # i => store'[j] = store[j]
      BY ZenonT(60), <2>3, PutFresh, SentinelAssumption DEF Shape
    <3>2. QED
      BY ZenonT(60), <2>1, <2>2, <3>1 DEF Expires
  <2>4. QED
    BY Zenon, <2>1, <2>2, <2>3
<1>6. ASSUME NEW i \in Ids, PruneRecord(p, i) PROVE Goal
  <2>1. /\ \/ UNCHANGED store
           \/ store' = [store EXCEPT ![i] = [rev |-> NoRev, rec |-> NullRecord]]
        /\ Exists(i) /\ Settled(store[i].rec) /\ bundles = Others(store[i].rec)
        /\ UNCHANGED bundles
        /\ Goto(p, "release") \/ (UNCHANGED pc /\ pc[p] = "prune")
    BY ZenonT(30), <1>6 DEF PruneRecord
  <2>2. Prunes
    BY Zenon, <2>1, <1>g
  <2>3. CASE store' = [store EXCEPT ![i] = [rev |-> NoRev, rec |-> NullRecord]]
    <3>1. /\ store'[i].rec = NullRecord /\ store'[i].rev = NoRev
          /\ \A j \in Ids : j # i => store'[j] = store[j]
      BY ZenonT(30), <2>3 DEF Shape, TypeOK
    <3>2. QED
      BY ZenonT(60), <2>1, <2>2, <3>1 DEF Deletes
  <2>4. QED
    BY ZenonT(60), <2>1, <2>2, <2>3
<1>7. QED
  BY ZenonT(60), <1>1, <1>2, <1>3, <1>4, <1>5, <1>6 DEF PruneStep

\* Pruning and cleanup delete only what no open record refers to.
LEMMA PrunePlans ==
  ASSUME Shape, Safe, Lived, Evidence, SettledKept, NEW p \in Procs,
         CheckExecutionBarrier(p) \/ PruneStep(p) \/ CleanupExecution(p)
  PROVE  Evidence' /\ EvidenceStep
<1>1. /\ UNCHANGED <<sid, cmd, rec, work>> /\ OthersStay(p)
      /\ pc'[p] \in {"prune", "create", "release"}
      /\ pc'[p] \in {"prune", "create"} => pc[p] \in {"locked", "prune"}
  BY Zenon, PruneTable
<1>2. PlanSession(p)'
  <2>1. PlanSession(p)
    BY Zenon DEF Evidence
  <2>2. PlanKnown(rec[p])'
    BY ZenonT(60), <1>1, <2>1 DEF PlanSession, PlanKnown
  <2>3. pc'[p] # "run" /\ pc'[p] # "clean" /\ (pc'[p] \in Opening => pc[p] \in Opening)
    BY Zenon, <1>1 DEF Opening
  <2>4. QED
    BY Zenon, <1>1, <2>1, <2>2, <2>3 DEF PlanSession
<1> DEFINE Goal == Evidence' /\ EvidenceStep
<1>3. ASSUME Careful, NoneBack, \A i \in Ids : PlanKnown(store'[i].rec) PROVE Goal
  BY ZenonT(60), <1>1, <1>2, <1>3, EvidenceFrom
<1>s. SUFFICES Goal
  BY Zenon
<1> HIDE DEF Goal
<1>4. \A i \in Ids : PlanKnown(store[i].rec)
  BY Zenon DEF Evidence
<1>5. CASE UNCHANGED <<store, bundles>>
  <2>1. \A k \in PlanIds, i \in Ids, n \in Nodes : Refers(k, i, n)' => Refers(k, i, n)
    BY Zenon, <1>1, <1>5 DEF Refers
  <2>2. Careful /\ NoneBack
    BY Zenon, <1>5, <2>1 DEF Careful, NoneBack, Exists
  <2>3. QED
    BY ZenonT(60), <1>3, <1>4, <1>5, <2>2
<1>6. ASSUME UNCHANGED bundles, NEW i \in Ids, Exists(i), ~ExecutionNeedsRecovery(store[i].rec),
             store'[i].rec = Terminal(store[i].rec, "expired"), store'[i].rev # NoRev,
             \A j \in Ids : j # i => store'[j] = store[j]
      PROVE  Goal
  <2>r. store[i].rec \in Record
    BY Zenon DEF Shape, TypeOK
  <2>1. /\ store'[i].rec.plan = store[i].rec.plan /\ store'[i].rec.phase = store[i].rec.phase
        /\ store'[i].rec.finished
    BY Zenon, <1>6, <2>r DEF Terminal, Record
  <2>2. ~ExecutionNeedsRecovery(store'[i].rec)
    <3>1. ~ExecutionNeedsRecovery(Terminal(store[i].rec, "expired"))
      BY Zenon, <1>6, <2>r, FinishedSound
    <3>2. QED
      BY Zenon, <1>6, <3>1
  <2>3. \A k \in PlanIds, j \in Ids, n \in Nodes : Refers(k, j, n)' => Refers(k, j, n)
    BY ZenonT(60), <1>1, <1>6, <2>1 DEF Refers
  <2>4. \A j \in Ids : store'[j].rev # NoRev /\ ~Settled(store'[j].rec) =>
          Exists(j) /\ store'[j] = store[j]
    BY ZenonT(60), <1>6, <2>1, <2>2 DEF Settled, Exists
  <2>5. \A j \in Ids : (store'[j].rev # NoRev <=> Exists(j))
    BY Zenon, <1>6 DEF Exists
  <2>6. Careful /\ NoneBack
    BY ZenonT(60), <1>6, <2>3, <2>4, <2>5 DEF Careful, NoneBack
  <2>7. ASSUME NEW j \in Ids PROVE PlanKnown(store'[j].rec)
    <3>1. CASE j # i
      BY Zenon, <1>4, <1>6, <3>1
    <3>2. CASE j = i
      BY ZenonT(60), <1>4, <2>1, <3>2 DEF PlanKnown
    <3>3. QED
      BY Zenon, <3>1, <3>2
  <2>8. QED
    BY ZenonT(60), <1>3, <2>6, <2>7
<1>7. ASSUME UNCHANGED store, bundles' \subseteq bundles, NEW j \in Ids, NEW r,
             Others(r) \subseteq bundles', Exists(j) => Settled(store[j].rec),
             \A m \in Nodes : Refers(r.plan[m], j, m)
      PROVE  Goal
  <2>1. ASSUME NEW b \in bundles, b \notin bundles' PROVE \E m \in Nodes : Refers(b.plan, j, m)
    <3>1. b.plan \in BundlesOf(r)
      BY Zenon, <1>7, <2>1 DEF Others
    <3>2. PICK m \in Nodes : b.plan = r.plan[m]
      BY Zenon, <3>1 DEF BundlesOf
    <3>3. QED
      BY Zenon, <3>2, <1>7
  <2>2. \A k \in PlanIds, i \in Ids, n \in Nodes : Refers(k, i, n)' => Refers(k, i, n)
    BY Zenon, <1>1, <1>7 DEF Refers
  <2>3. Careful /\ NoneBack
    BY ZenonT(60), <1>7, <2>1, <2>2 DEF Careful, NoneBack, Exists
  <2>4. QED
    BY ZenonT(60), <1>3, <1>4, <1>7, <2>3
<1>8. ASSUME UNCHANGED bundles, NEW i \in Ids, bundles = Others(store[i].rec), Exists(i),
             store'[i].rec = NullRecord, store'[i].rev = NoRev,
             \A j \in Ids : j # i => store'[j] = store[j]
      PROVE  Goal
  <2>1. \A n \in Nodes : NullRecord.plan[n] = NoPlan /\ NullRecord.phase[n] # "planned"
    BY Zenon DEF NullRecord, NewRecord
  <2>2. ASSUME NEW k \in PlanIds, NEW j \in Ids, NEW n \in Nodes, Refers(k, j, n)'
        PROVE  Refers(k, j, n)
    <3>1. store'[j].rec.plan[n] = k => store'[j] = store[j]
      BY ZenonT(60), <1>8, <2>1, <2>2, PlanAssumption
    <3>2. QED
      BY ZenonT(60), <2>2, <3>1, <1>1, <1>8 DEF Refers
  <2>3. \A j \in Ids : store'[j].rev # NoRev => store'[j] = store[j] /\ Exists(j)
    BY Zenon, <1>8 DEF Exists
  <2>4. \A j \in Ids : Exists(j) /\ store'[j].rev = NoRev =>
          \A b \in bundles' : b.plan \notin BundlesOf(store[j].rec)
    BY Zenon, <1>8 DEF Exists, Others
  <2>5. Careful /\ NoneBack
    BY ZenonT(60), <1>8, <2>2, <2>3, <2>4 DEF Careful, NoneBack
  <2>6. \A j \in Ids : PlanKnown(store'[j].rec)
    BY ZenonT(60), <1>4, <1>8, <2>1 DEF PlanKnown
  <2>7. QED
    BY ZenonT(60), <1>3, <2>5, <2>6
<1>9. ASSUME UNCHANGED store, bundles' \subseteq bundles,
             pc[p] = "clean", Settled(rec[p]), Others(rec[p]) \subseteq bundles'
      PROVE  Goal
  <2>1. sid[p] \in Ids
    BY Zenon, <1>9 DEF Shape, Control, SessionNamed, Active
  <2>2. Exists(sid[p]) => Settled(store[sid[p]].rec)
    BY Zenon, <1>9 DEF Evidence, PlanSession
  <2>3. \A m \in Nodes : Refers(rec[p].plan[m], sid[p], m)
    BY Zenon DEF Refers
  <2>4. QED
    BY ZenonT(60), <1>7, <1>9, <2>1, <2>2, <2>3
<1>10. ASSUME UNCHANGED store, bundles' \subseteq bundles, NEW i \in Ids,
              Settled(store[i].rec), Others(store[i].rec) \subseteq bundles'
       PROVE  Goal
  <2>1. \A m \in Nodes : Refers(store[i].rec.plan[m], i, m)
    BY Zenon DEF Refers
  <2>2. QED
    BY Zenon, <1>7, <1>10, <2>1
<1>11. QED
  <2>1. CASE Expires
    BY Zenon, <2>1, <1>6 DEF Expires
  <2>2. CASE Cleans(p)
    BY ZenonT(60), <2>2, <1>9, <1>10 DEF Cleans
  <2>3. CASE Deletes
    BY ZenonT(60), <2>3, <1>8 DEF Deletes
  <2>4. QED
    BY ZenonT(60), PruneTable, <1>5, <2>1, <2>2, <2>3

\* beginExecution writes a record without plans under an ID nobody used.
LEMMA CreateTable ==
  ASSUME Shape, NEW p \in Procs, CreateRecord(p)
  PROVE  /\ pc[p] = "create" /\ UNCHANGED <<bundles, cmd>> /\ OthersStay(p)
         /\ \A q \in Procs : q # p => rec'[q] = rec[q] /\ sid'[q] = sid[q]
         /\ \E i \in Ids \ used, sel \in SelectionsOf(cmd[p]) :
              LET new == NewRecord(cmd[p] = "save", sel) IN
              /\ \/ UNCHANGED store
                 \/ /\ store'[i].rec = new /\ store'[i].rev # NoRev
                    /\ \A j \in Ids : j # i => store'[j] = store[j]
              /\ \/ pc'[p] = "release" /\ UNCHANGED <<rec, sid, work>>
                 \/ /\ pc'[p] = "bind" /\ cmd[p] = "save" /\ UNCHANGED work
                    /\ rec'[p] = new /\ sid'[p] = i
                 \/ /\ pc'[p] = "run" /\ cmd[p] # "save" /\ work'[p] = Waiting(sel)
                    /\ rec'[p] = new /\ sid'[p] = i
<1>1. PICK i \in Ids \ used, sel \in SelectionsOf(cmd[p]) :
        \/ /\ WriteOK(p, i, NewRecord(cmd[p] = "save", sel))
           /\ sid' = [sid EXCEPT ![p] = i]
           /\ IF cmd[p] = "save"
              THEN Goto(p, "bind") /\ UNCHANGED work
              ELSE Goto(p, "run") /\ work' = [work EXCEPT ![p] = Waiting(sel)]
        \/ /\ WriteErr(p, i, NewRecord(cmd[p] = "save", sel))
           /\ Goto(p, "release") /\ UNCHANGED <<sid, work>>
  BY ZenonT(30) DEF CreateRecord
<1> DEFINE new == NewRecord(cmd[p] = "save", sel)
<1> HIDE DEF new
<1>2. /\ WriteOK(p, i, new) \/ WriteErr(p, i, new)
      /\ \/ /\ WriteOK(p, i, new) /\ sid' = [sid EXCEPT ![p] = i]
            /\ \/ cmd[p] = "save" /\ Goto(p, "bind") /\ UNCHANGED work
               \/ /\ cmd[p] # "save" /\ Goto(p, "run")
                  /\ work' = [work EXCEPT ![p] = Waiting(sel)]
         \/ UNCHANGED rec /\ Goto(p, "release") /\ UNCHANGED <<sid, work>>
  BY Zenon, <1>1 DEF new, WriteErr
<1>g. ASSUME NEW l, Goto(p, l)
      PROVE  pc'[p] = l /\ \A q \in Procs : q # p => pc'[q] = pc[q]
  BY Zenon, <1>g DEF Goto, Shape, TypeOK
<1>3. OthersStay(p)
  BY ZenonT(60), <1>2, <1>g DEF OthersStay, Shape, TypeOK
<1>4. /\ \A q \in Procs : q # p => rec'[q] = rec[q]
      /\ WriteOK(p, i, new) => rec'[p] = new
  BY Zenon, <1>2 DEF WriteOK, WriteErr, Shape, TypeOK
<1>5. \A q \in Procs : q # p => sid'[q] = sid[q]
  BY Zenon, <1>2 DEF Shape, TypeOK
<1>6. UNCHANGED store \/ Put(i, new)
  BY Zenon, <1>2 DEF WriteOK, WriteErr
<1>7. Put(i, new) => /\ store'[i].rec = new /\ store'[i].rev # NoRev
                     /\ \A j \in Ids : j # i => store'[j] = store[j]
  BY Zenon, PutFresh, SentinelAssumption DEF Shape
<1>8. \/ pc'[p] = "release" /\ UNCHANGED <<rec, sid, work>>
      \/ /\ pc'[p] = "bind" /\ cmd[p] = "save" /\ UNCHANGED work
         /\ rec'[p] = new /\ sid'[p] = i
      \/ /\ pc'[p] = "run" /\ cmd[p] # "save" /\ work'[p] = Waiting(sel)
         /\ rec'[p] = new /\ sid'[p] = i
  <2>1. ASSUME sid' = [sid EXCEPT ![p] = i] PROVE sid'[p] = i
    BY Zenon, <2>1 DEF Shape, TypeOK
  <2>2. ASSUME work' = [work EXCEPT ![p] = Waiting(sel)] PROVE work'[p] = Waiting(sel)
    BY Zenon, <2>2 DEF Shape, TypeOK
  <2>3. QED
    BY ZenonT(60), <1>2, <1>4, <1>g, <2>1, <2>2
<1>9. pc[p] = "create" /\ UNCHANGED <<bundles, cmd>>
  BY Zenon DEF CreateRecord
<1>10. QED
  BY ZenonT(60), <1>3, <1>4, <1>5, <1>6, <1>7, <1>8, <1>9 DEF new

\* A new record refers to no plan.
LEMMA CreatePlans ==
  ASSUME Shape, Safe, Lived, Evidence, SettledKept, NEW p \in Procs, CreateRecord(p)
  PROVE  Evidence' /\ EvidenceStep
<1>1. PICK i \in Ids \ used, sel \in SelectionsOf(cmd[p]) :
        LET new == NewRecord(cmd[p] = "save", sel) IN
        /\ \/ UNCHANGED store
           \/ /\ store'[i].rec = new /\ store'[i].rev # NoRev
              /\ \A j \in Ids : j # i => store'[j] = store[j]
        /\ \/ pc'[p] = "release" /\ UNCHANGED <<rec, sid, work>>
           \/ /\ pc'[p] = "bind" /\ cmd[p] = "save" /\ UNCHANGED work
              /\ rec'[p] = new /\ sid'[p] = i
           \/ /\ pc'[p] = "run" /\ cmd[p] # "save" /\ work'[p] = Waiting(sel)
              /\ rec'[p] = new /\ sid'[p] = i
  BY Zenon, CreateTable
<1> DEFINE new == NewRecord(cmd[p] = "save", sel)
<1>2. \A n \in Nodes : new.plan[n] = NoPlan /\ new.phase[n] # "planned"
  BY Zenon DEF NewRecord
<1> HIDE DEF new
<1>3. /\ pc[p] = "create" /\ UNCHANGED <<bundles, cmd>> /\ OthersStay(p)
      /\ \A q \in Procs : q # p => rec'[q] = rec[q] /\ sid'[q] = sid[q]
  BY Zenon, CreateTable
<1>4. \A j \in Ids : store'[j] = store[j] \/ (store'[j].rec = new /\ store'[j].rev # NoRev /\ j = i)
  BY ZenonT(60), <1>1 DEF new
<1>5. /\ pc'[p] \in {"release", "bind", "run"}
      /\ (rec'[p] = rec[p] /\ sid'[p] = sid[p]) \/ rec'[p] = new
      /\ pc'[p] = "run" => work'[p] = Waiting(sel)
  BY Zenon, <1>1 DEF new
<1>6. ~Exists(i)
  BY Zenon DEF Safe, UsedIds
<1>7. ASSUME NEW k \in PlanIds, NEW j \in Ids, NEW n \in Nodes, Refers(k, j, n)'
      PROVE  Refers(k, j, n)
  <2>1. k # NoPlan
    BY Zenon, PlanAssumption
  <2>2. CASE \E b \in bundles : b.plan = k /\ b.exec = j /\ b.node = n
    BY Zenon, <2>2 DEF Refers
  <2>3. CASE store'[j].rec.plan[n] = k
    <3>1. store'[j] = store[j]
      BY ZenonT(60), <1>2, <1>4, <2>1, <2>3
    <3>2. QED
      BY Zenon, <2>3, <3>1 DEF Refers
  <2>4. ASSUME NEW q \in Procs, sid'[q] = j, rec'[q].plan[n] = k PROVE Refers(k, j, n)
    <3>1. rec'[q] = rec[q] /\ sid'[q] = sid[q]
      BY ZenonT(60), <1>2, <1>3, <1>5, <2>1, <2>4
    <3>2. QED
      BY Zenon, <2>4, <3>1 DEF Refers
  <2>5. QED
    BY ZenonT(60), <1>7, <1>3, <2>2, <2>3, <2>4 DEF Refers
<1>8. Careful
  <2>1. \A j \in Ids : store'[j].rev # NoRev /\ ~Settled(store'[j].rec) =>
          \/ \A n \in Nodes : store'[j].rec.plan[n] = NoPlan
          \/ /\ Exists(j) /\ ~Settled(store[j].rec)
             /\ store'[j].rec.plan = store[j].rec.plan
    BY Zenon, <1>2, <1>4 DEF Exists
  <2>2. \A j \in Ids : Exists(j) => store'[j].rev # NoRev
    BY Zenon, <1>4 DEF Exists
  <2>3. QED
    BY ZenonT(60), <1>3, <1>7, <2>1, <2>2 DEF Careful
<1>9. NoneBack
  BY Zenon, <1>4 DEF NoneBack, Exists
<1>10. \A j \in Ids : PlanKnown(store'[j].rec)
  BY Zenon, <1>2, <1>4 DEF Evidence, PlanKnown
<1>11. PlanSession(p)'
  <2>1. PlanKnown(rec[p])'
    BY ZenonT(60), <1>2, <1>5 DEF Evidence, PlanSession, PlanKnown
  <2>2. pc'[p] = "run" => \A n \in Nodes : work'[p][n] \notin InitWork
    BY Zenon, <1>5 DEF Waiting, InitWork
  <2>3. pc'[p] \notin Opening /\ pc'[p] # "clean"
    BY Zenon, <1>5 DEF Opening
  <2>4. QED
    BY Zenon, <2>1, <2>2, <2>3 DEF PlanSession
<1>12. QED
  BY ZenonT(60), <1>3, <1>8, <1>9, <1>10, <1>11, EvidenceFrom

\* A command that names an execution reads its record, or gives up.
LEMMA OpenTable ==
  ASSUME Shape, NEW p \in Procs,
         OpenSavedExecution(p) \/ OpenRecovery(p) \/ OpenCancel(p)
  PROVE  /\ pc[p] = "locked" /\ sid[p] \in Ids
         /\ UNCHANGED <<store, bundles, sid, cmd>> /\ OthersStay(p)
         /\ \A q \in Procs : q # p => rec'[q] = rec[q]
         /\ \/ pc'[p] = "release" /\ UNCHANGED <<rec, work>>
            \/ /\ rec'[p] = store[sid[p]].rec
               /\ \/ /\ pc'[p] \in {"recover", "replan", "clean", "cancel"}
                     /\ cmd[p] \notin SavedKinds
                  \/ /\ pc'[p] = "bind" /\ cmd[p] = "continue" /\ rec'[p].saved
                  \/ /\ pc'[p] = "run" /\ cmd[p] = "apply_saved" /\ rec'[p].saved
                     /\ work'[p] = Waiting(PlannedNodes(rec'[p]))
<1> USE DEF object, ghost, env
<1>0. /\ pc[p] = "locked" /\ UNCHANGED <<store, bundles, sid, cmd>>
      /\ cmd[p] \in ResumeKinds \cup RecoverKinds \cup {"cancel"}
  BY ZenonT(30) DEF OpenSavedExecution, OpenRecovery, OpenCancel
<1>i. sid[p] \in Ids
  BY ZenonT(30), <1>0 DEF Shape, Control, SessionNamed, ResumeKinds, RecoverKinds, BeginKinds, RunKinds
<1> DEFINE r == store[sid[p]].rec
<1>g. ASSUME NEW l, Goto(p, l)
      PROVE  pc'[p] = l /\ \A q \in Procs : q # p => pc'[q] = pc[q]
  BY Zenon, <1>g DEF Goto, Shape, TypeOK
<1>o. /\ Open(p) => rec'[p] = r
      /\ Open(p) \/ UNCHANGED rec => \A q \in Procs : q # p => rec'[q] = rec[q]
  BY Zenon DEF Open, Shape, TypeOK
<1>w. ASSUME NEW w, work' = [work EXCEPT ![p] = w]
      PROVE  work'[p] = w /\ \A q \in Procs : q # p => work'[q] = work[q]
  BY Zenon, <1>w DEF Shape, TypeOK
<1> DEFINE Gives == pc'[p] = "release" /\ UNCHANGED <<rec, work>>
           Opens == /\ rec'[p] = r
                    /\ \/ /\ pc'[p] \in {"recover", "replan", "clean", "cancel"}
                          /\ cmd[p] \notin SavedKinds
                       \/ /\ pc'[p] = "bind" /\ cmd[p] = "continue" /\ rec'[p].saved
                       \/ /\ pc'[p] = "run" /\ cmd[p] = "apply_saved" /\ rec'[p].saved
                          /\ work'[p] = Waiting(PlannedNodes(rec'[p]))
           Goal == /\ OthersStay(p)
                   /\ \A q \in Procs : q # p => rec'[q] = rec[q]
                   /\ Gives \/ Opens
<1>s. SUFFICES Goal
  BY Zenon, <1>0, <1>i
<1>1. CASE OpenSavedExecution(p)
  <2>1. CASE Goto(p, "release") /\ UNCHANGED <<rec, work>>
    BY ZenonT(60), <2>1, <1>g, <1>o DEF OthersStay
  <2>2. CASE r.saved /\ Open(p) /\ cmd[p] = "continue" /\ Goto(p, "bind") /\ UNCHANGED work
    BY ZenonT(60), <2>2, <1>g, <1>o DEF OthersStay
  <2>3. CASE /\ r.saved /\ Open(p) /\ cmd[p] # "continue" /\ Goto(p, "run")
             /\ work' = [work EXCEPT ![p] = Waiting(PlannedNodes(r))]
    <3>1. cmd[p] = "apply_saved"
      BY ZenonT(60), <1>1, <2>3 DEF OpenSavedExecution, ResumeKinds
    <3>2. OthersStay(p) /\ work'[p] = Waiting(PlannedNodes(r)) /\ pc'[p] = "run"
      BY ZenonT(60), <2>3, <1>g, <1>w DEF OthersStay
    <3>3. QED
      BY ZenonT(60), <2>3, <3>1, <3>2, <1>o
  <2>4. QED
    BY ZenonT(60), <1>1, <2>1, <2>2, <2>3 DEF OpenSavedExecution
<1>2. CASE OpenRecovery(p)
  <2>1. cmd[p] \in RecoverKinds /\ cmd[p] \notin SavedKinds
    BY ZenonT(60), <1>2 DEF OpenRecovery, RecoverKinds, SavedKinds
  <2>2. CASE Goto(p, "release") /\ UNCHANGED <<rec, work>>
    BY Zenon, <2>2, <1>g, <1>o DEF OthersStay
  <2>3. CASE Open(p) /\ Goto(p, cmd[p]) /\ \E w : work' = [work EXCEPT ![p] = w]
    <3>1. pc'[p] \in {"recover", "replan"}
      BY ZenonT(60), <2>1, <2>3, <1>g DEF RecoverKinds
    <3>2. OthersStay(p)
      BY ZenonT(60), <2>3, <1>g, <1>w DEF OthersStay
    <3>3. pc'[p] \in {"recover", "replan", "clean", "cancel"}
      BY Zenon, <3>1
    <3>4. QED
      BY ZenonT(60), <2>1, <2>3, <3>2, <3>3, <1>o
  <2>4. QED
    BY ZenonT(60), <1>2, <2>2, <2>3 DEF OpenRecovery, ReadError
<1>3. CASE OpenCancel(p)
  <2>1. cmd[p] = "cancel" /\ cmd[p] \notin SavedKinds /\ UNCHANGED work
    BY Zenon, <1>3 DEF OpenCancel, SavedKinds
  <2>2. CASE Goto(p, "release") /\ UNCHANGED rec
    BY ZenonT(60), <2>1, <2>2, <1>g, <1>o DEF OthersStay
  <2>3. CASE Open(p) /\ Goto(p, AfterOpenCancel(r))
    <3>1. pc'[p] \in {"recover", "replan", "clean", "cancel"}
      BY Zenon, <2>3, <1>g DEF AfterOpenCancel
    <3>2. OthersStay(p)
      BY Zenon, <2>1, <2>3, <1>g DEF OthersStay
    <3>3. QED
      BY ZenonT(60), <2>1, <2>3, <3>1, <3>2, <1>o
  <2>4. QED
    BY ZenonT(60), <1>3, <2>2, <2>3 DEF OpenCancel, ReadError
<1>4. QED
  BY Zenon, <1>1, <1>2, <1>3

\* Opening a session keeps Evidence.
LEMMA OpenPlans ==
  ASSUME Shape, Safe, Lived, Evidence, SettledKept, NEW p \in Procs,
         OpenSavedExecution(p) \/ OpenRecovery(p) \/ OpenCancel(p)
  PROVE  Evidence' /\ EvidenceStep
<1>1. /\ sid[p] \in Ids /\ UNCHANGED <<store, bundles, sid, cmd>> /\ OthersStay(p)
      /\ \A q \in Procs : q # p => rec'[q] = rec[q]
      /\ rec'[p] = rec[p] \/ rec'[p] = store[sid[p]].rec
      /\ pc'[p] = "clean" => rec'[p] = store[sid[p]].rec
      /\ pc'[p] \notin Opening
      /\ pc'[p] = "run" => work'[p] = Waiting(PlannedNodes(rec'[p]))
  BY Zenon, OpenTable DEF Opening
<1>2. ASSUME NEW k \in PlanIds, NEW i \in Ids, NEW n \in Nodes, Refers(k, i, n)'
      PROVE  Refers(k, i, n)
  <2>1. ASSUME NEW q \in Procs, sid[q] = i, rec'[q].plan[n] = k PROVE Refers(k, i, n)
    BY Zenon, <2>1, <1>1 DEF Refers
  <2>2. QED
    BY ZenonT(60), <1>1, <1>2, <2>1 DEF Refers
<1>3. Careful /\ NoneBack
  BY Zenon, <1>1, <1>2 DEF Careful, NoneBack, Exists
<1>4. \A i \in Ids : PlanKnown(store'[i].rec)
  BY Zenon, <1>1 DEF Evidence
<1>5. PlanSession(p)'
  <2>1. PlanKnown(rec'[p])
    BY ZenonT(60), <1>1 DEF Evidence, PlanSession
  <2>2. pc'[p] = "run" => \A n \in Nodes : work'[p][n] \notin InitWork
    BY Zenon, <1>1 DEF Waiting, InitWork
  <2>3. pc'[p] = "clean" => (Settled(rec[p])' => Settled(store[sid[p]].rec)')
    BY Zenon, <1>1 DEF Settled, ExecutionNeedsRecovery
  <2>4. QED
    BY ZenonT(60), <1>1, <2>1, <2>2, <2>3 DEF PlanSession, PlanKnown
<1>6. QED
  BY ZenonT(60), <1>1, <1>3, <1>4, <1>5, EvidenceFrom

\* Locks, crashes and orphans keep Evidence.
LEMMA EnvironmentPlans ==
  ASSUME Shape, Safe, Evidence, SettledKept,
         \/ \E p \in Procs : Release(p) \/ \E k \in Kinds, i \in Ids \cup {NoId} : Acquire(p, k, i)
         \/ Environment
         \/ UNCHANGED vars
  PROVE  Evidence' /\ EvidenceStep
<1> USE DEF object, control, session, ghost, env
<1> DEFINE Goal == Evidence' /\ EvidenceStep
<1>n. \A n \in Nodes : NullRecord.plan[n] = NoPlan /\ NullRecord.phase[n] # "planned"
  BY Zenon DEF NullRecord, NewRecord
<1>f. ASSUME NEW p \in Procs, UNCHANGED <<store, bundles>>, OthersStay(p),
             pc'[p] \in {"idle", "locked"}, rec'[p] = NullRecord,
             \A q \in Procs : q # p => rec'[q] = rec[q] /\ sid'[q] = sid[q] /\ cmd'[q] = cmd[q]
      PROVE  Goal
  <2>1. ASSUME NEW k \in PlanIds, NEW i \in Ids, NEW n \in Nodes, Refers(k, i, n)'
        PROVE  Refers(k, i, n)
    <3>1. ASSUME NEW q \in Procs, sid'[q] = i, rec'[q].plan[n] = k PROVE Refers(k, i, n)
      <4>1. q # p
        BY ZenonT(60), <3>1, <1>f, <1>n, PlanAssumption
      <4>2. QED
        BY ZenonT(60), <3>1, <4>1, <1>f DEF Refers
    <3>2. QED
      BY ZenonT(60), <1>f, <2>1, <3>1 DEF Refers
  <2>2. Careful /\ NoneBack
    BY Zenon, <1>f, <2>1 DEF Careful, NoneBack, Exists
  <2>3. \A i \in Ids : PlanKnown(store'[i].rec)
    BY Zenon, <1>f DEF Evidence
  <2>4. PlanKnown(rec[p])'
    BY ZenonT(60), <1>f, <1>n DEF PlanKnown
  <2>5. pc'[p] # "run" /\ pc'[p] # "clean"
    BY Zenon, <1>f
  <2>6. PlanSession(p)'
    BY ZenonT(60), <1>f, <2>4, <2>5 DEF PlanSession
  <2>7. QED
    BY ZenonT(60), <1>f, <2>2, <2>3, <2>6, EvidenceFrom
<1>1. ASSUME NEW p \in Procs, Release(p) \/ Crash(p) PROVE Goal
  <2>1. Forget(p) /\ UNCHANGED <<store, bundles>>
    BY ZenonT(30), <1>1 DEF Release, Crash
  <2>2. /\ OthersStay(p) /\ pc'[p] = "idle" /\ rec'[p] = NullRecord
        /\ \A q \in Procs : q # p => rec'[q] = rec[q] /\ sid'[q] = sid[q] /\ cmd'[q] = cmd[q]
    BY ZenonT(30), <2>1 DEF Forget, OthersStay, Shape, TypeOK
  <2> HIDE DEF Goal
  <2>3. QED
    BY ZenonT(60), <1>f, <2>1, <2>2
<1>2. ASSUME NEW p \in Procs, NEW k \in Kinds, NEW i \in Ids \cup {NoId}, Acquire(p, k, i)
      PROVE  Goal
  <2>1. /\ UNCHANGED <<store, bundles, rec>> /\ pc[p] = "idle" /\ pc'[p] = "locked"
        /\ OthersStay(p) /\ \A q \in Procs : q # p => sid'[q] = sid[q] /\ cmd'[q] = cmd[q]
    BY ZenonT(30), <1>2 DEF Acquire, Goto, OthersStay, Shape, TypeOK
  <2>2. rec'[p] = NullRecord
    BY Zenon, <2>1 DEF Evidence, PlanSession, Opening
  <2> HIDE DEF Goal
  <2>3. QED
    BY ZenonT(60), <1>f, <2>1, <2>2
<1>3. CASE OrphanExits \/ Unlock \/ PlanExpires \/ UNCHANGED vars
  <2>1. UNCHANGED <<store, bundles, pc, cmd, sid, rec, work>>
    BY Zenon, <1>3 DEF OrphanExits, Unlock, PlanExpires, vars
  <2>2. \A k \in PlanIds, i \in Ids, n \in Nodes : Refers(k, i, n)' => Refers(k, i, n)
    BY Zenon, <2>1 DEF Refers
  <2>3. Careful
    BY ZenonT(60), <2>1, <2>2 DEF Careful, Exists
  <2>4. OneOwner' /\ Bundled' /\ EvidenceStep
    BY ZenonT(60), <2>3, CarefulKeeps
  <2>5. \A i \in Ids : PlanKnown(store[i].rec)'
    BY Zenon, <2>1 DEF Evidence, PlanKnown
  <2>6. \A q \in Procs : PlanSession(q)'
    BY Zenon, <2>1 DEF Evidence, PlanSession, PlanKnown, Settled, ExecutionNeedsRecovery, Exists
  <2>7. QED
    BY ZenonT(60), <2>4, <2>5, <2>6 DEF Evidence
<1>4. QED
  BY ZenonT(60), <1>1, <1>2, <1>3 DEF Environment

\* Every step keeps Evidence and loses no evidence.
LEMMA PlansStep ==
  ASSUME Shape, Safe, Lived, Evidence, [Next]_vars
  PROVE  Evidence' /\ EvidenceStep
<1>s. SettledKept
  BY Zenon, SoundStep DEF StepSound
<1>1. ASSUME NEW p \in Procs, NEW n \in Nodes, WorkerStep(p, n) PROVE Evidence' /\ EvidenceStep
  BY ZenonT(60), <1>s, <1>1, WorkerPlans, RetainPlans
<1>2. ASSUME NEW p \in Procs, CommandStep(p) PROVE Evidence' /\ EvidenceStep
  BY ZenonT(60), <1>s, <1>1, <1>2, PrunePlans, CreatePlans, OpenPlans, EndPlans, EnvironmentPlans
     DEF CommandStep, EndStep
<1>3. QED
  BY ZenonT(60), <1>s, <1>2, EnvironmentPlans DEF Next

\* The empty store refers to no plan.
LEMMA PlansInit == ASSUME Init PROVE Evidence
<1>1. \A n \in Nodes : NullRecord.plan[n] = NoPlan /\ NullRecord.phase[n] # "planned"
  BY Zenon DEF NullRecord, NewRecord
<1>2. /\ \A i \in Ids : store[i].rec = NullRecord /\ ~Exists(i)
      /\ \A p \in Procs : rec[p] = NullRecord /\ pc[p] = "idle"
      /\ bundles = {}
  BY Zenon DEF Init, Exists
<1>3. ASSUME NEW k \in PlanIds, NEW i \in Ids, NEW n \in Nodes PROVE ~Refers(k, i, n)
  BY Zenon, <1>1, <1>2, PlanAssumption DEF Refers
<1>4. OneOwner /\ Bundled
  BY Zenon, <1>2, <1>3 DEF OneOwner, Bundled
<1>5. PlanKnown(NullRecord)
  BY Zenon, <1>1 DEF PlanKnown
<1>6. \A p \in Procs : PlanSession(p)
  BY Zenon, <1>2, <1>5 DEF PlanSession
<1>7. QED
  BY ZenonT(60), <1>2, <1>4, <1>5, <1>6 DEF Evidence

\* The journal's inductive invariant with Lived and Evidence.
THEOREM EvidenceInvariant == Spec => [](Shape /\ Safe /\ Lived /\ Evidence)
<1>1. Init => Lived /\ Evidence
  BY Zenon, LivedInit, PlansInit
<1>2. Shape /\ Safe /\ Lived /\ Evidence /\ [Next]_vars => Lived' /\ Evidence'
  BY Zenon, SoundStep, PlansStep DEF StepSound
<1>3. QED
  BY <1>1, <1>2, SafeInvariant, PTL DEF Spec

\* An execution that is not finished has the bundle of every planned node,
\* whatever crashes, lost acknowledgements and broken locks did to it: the
\* bundle is stored before the phase and cleanup only touches settled records.
THEOREM PlansKept == Spec => []WaitingPlansKept
<1>1. Evidence => WaitingPlansKept
  BY Zenon DEF Evidence, Bundled, PlanKnown, WaitingPlansKept, PlannedNodes, Settled
<1>2. QED
  BY <1>1, EvidenceInvariant, PTL

\* cleanupExecution and pruneExecutions delete a bundle only when the record
\* that refers to it is settled, and a record only after its bundles; also
\* when cleanup works from a session whose record is out of date.
THEOREM EvidenceIsKept == Spec => EvidenceKept
<1>1. Shape /\ Safe /\ Lived /\ Evidence /\ [Next]_vars => EvidenceStep
  BY Zenon, PlansStep
<1>2. QED
  BY <1>1, EvidenceInvariant, PTL DEF Spec, EvidenceKept, EvidenceStep

==============================================================================

----------------------------- MODULE LocksProofs -----------------------------
(***************************************************************************)
(* The graph lock serializes the commands of any number of machines: Locks *)
(* implements Mutex until an operator forces out a holder that still works.*)
(*                                                                         *)
(* Mutual exclusion alone is not inductive.  What carries it is Guarded:   *)
(* whoever works under the lock object is alone, and the object is there   *)
(* and is the one it put.                                                  *)
(***************************************************************************)
EXTENDS Locks, TLAPS

\* The process works under the lock object.
Own(p) == pc[p] \in {"holding", "untagged"}

Guarded ==
  /\ pc \in [Procs -> States]
  /\ put \in [Procs -> Nat]
  /\ Len(tags) \in Nat /\ object \in Nat /\ forced \in BOOLEAN
  /\ ~forced =>
       /\ \A p, q \in Procs : Own(p) /\ Own(q) => p = q
       /\ \A p \in Procs : Own(p) => object # 0
       /\ \A p \in Procs : pc[p] = "holding" => put[p] = object

\* The commands start with no lock object, so Guarded holds at first.
LEMMA GuardedInit == Init => Guarded
<1> SUFFICES ASSUME Init PROVE Guarded
  OBVIOUS
<1>1. forced \in BOOLEAN
  BY Zenon DEF Init
<1> QED
  BY <1>1 DEF Init, Guarded, Own, States

\* The steps of the run lock and of cancellation leave the object and the
\* processes under it alone.
LEMMA GuardedRun ==
  ASSUME Guarded, NEW p \in Procs, Start(p) \/ RunStep(p) \/ Cancel(p)
  PROVE Guarded'
<1>1. CASE Start(p)
  BY <1>1 DEF Start, Goto, Guarded, Own, States
<1>2. CASE RunStep(p)
  BY SMTT(30), Z3T(30), <1>2 DEF RunStep, AcquireRun, AcquireFails, Recheck, GiveUp, ReleaseRun, Goto, Guarded, Own, States
<1>3. CASE Cancel(p)
  BY <1>3 DEF Cancel, Guarded, Own, States
<1> QED
  BY <1>1, <1>2, <1>3

\* A put finds no object, hence nobody under it and no operator about to
\* delete; a Close or a cleanup delete leaves nobody under the object.
LEMMA GuardedGraph ==
  ASSUME Guarded, NEW p \in Procs, GraphStep(p)
  PROVE Guarded'
<1>1. CASE AcquireGraph(p)
  BY <1>1 DEF AcquireGraph, Put, Goto, Guarded, Own, States
<1>2. CASE AcquireUntagged(p)
  BY <1>2 DEF AcquireUntagged, Put, Goto, Guarded, Own, States
<1>3. CASE AcquireRefused(p)
  BY <1>3 DEF AcquireRefused, Goto, Guarded, Own, States
<1>4. CASE AcquireLost(p)
  BY <1>4 DEF AcquireLost, Put, Goto, Guarded, Own, States
<1>5. CASE DeleteUntagged(p)
  BY <1>5 DEF DeleteUntagged, Goto, Guarded, Own, States
<1>6. CASE CloseGraph(p)
  BY <1>6 DEF CloseGraph, CloseMatches, Goto, Guarded, Own, States
<1> QED
  BY <1>1, <1>2, <1>3, <1>4, <1>5, <1>6 DEF GraphStep

\* A delete under a live holder is recorded; any other finds nobody at work.
LEMMA GuardedUnlock ==
  ASSUME Guarded, NEW p \in Procs, UnlockStep(p)
  PROVE Guarded'
<1>1. CASE Inspect(p)
  BY <1>1 DEF Inspect, Goto, Guarded, Own, States
<1>2. CASE UnlockAcquire(p)
  BY SMTT(30), Z3T(30), <1>2 DEF UnlockAcquire, Goto, Guarded, Own, States
<1>3. CASE UnlockDelete(p)
  <2>1. /\ pc' \in [Procs -> States] /\ put' = put /\ tags' = tags
        /\ object' \in {0, object}
        /\ \A q \in Procs : (Own(q)' <=> Own(q)) /\ (pc'[q] = "holding" <=> pc[q] = "holding")
    BY <1>3 DEF UnlockDelete, Goto, Guarded, Own, States
  <2>2. forced' \in BOOLEAN /\ (forced => forced')
    BY <1>3, Zenon DEF UnlockDelete, Guarded
  <2>3. CASE ~forced' /\ object' = object
    BY <2>1, <2>2, <2>3 DEF Guarded
  <2>4. CASE ~forced' /\ object' # object
    <3>1. \A q \in Procs : ~Own(q)
      BY <1>3, <2>4 DEF UnlockDelete, Live, Guarded, Own
    <3> QED
      BY <2>1, <2>2, <3>1 DEF Guarded, Own
  <2>5. CASE forced'
    BY <2>1, <2>2, <2>5 DEF Guarded
  <2> QED
    BY <2>2, <2>3, <2>4, <2>5
<1> QED
  BY <1>1, <1>2, <1>3 DEF UnlockStep

\* A crash leaves the object and takes one process from under it.
LEMMA GuardedCrash ==
  ASSUME Guarded, NEW p \in Procs, Crash(p)
  PROVE Guarded'
  BY DEF Crash, Guarded, Own, States

\* Every step of every process keeps Guarded.
LEMMA GuardedStep == Guarded /\ [Next]_vars => Guarded'
<1> SUFFICES ASSUME Guarded, [Next]_vars PROVE Guarded'
  OBVIOUS
<1>1. CASE UNCHANGED vars
  BY <1>1 DEF vars, Guarded, Own, States
<1>2. CASE Next
  <2>1. PICK p \in Procs : Start(p) \/ RunStep(p) \/ GraphStep(p) \/ UnlockStep(p)
                           \/ Cancel(p) \/ Crash(p)
    BY <1>2 DEF Next
  <2> QED
    BY <2>1, GuardedRun, GuardedGraph, GuardedUnlock, GuardedCrash
<1> QED
  BY <1>1, <1>2

\* A step either leaves the set of executing processes as it is, or adds one
\* to nobody, or takes one away.
LEMMA MutexStep == Guarded /\ [Next]_vars => [Graph!Next]_Inside
<1> SUFFICES ASSUME Guarded, Next, Inside' # Inside PROVE Graph!Next
  BY DEF vars, Inside, Holding
<1>1. PICK p \in Procs : Start(p) \/ RunStep(p) \/ GraphStep(p) \/ UnlockStep(p)
                         \/ Cancel(p) \/ Crash(p)
  BY DEF Next
<1>2. ~forced
  BY <1>1 DEF Inside, Start, RunStep, AcquireRun, AcquireFails, Recheck, GiveUp, ReleaseRun,
              GraphStep, AcquireGraph, AcquireUntagged, AcquireRefused, AcquireLost,
              DeleteUntagged, CloseGraph, UnlockStep, Inspect, UnlockAcquire, UnlockDelete,
              Cancel, Crash, Guarded
<1>3. CASE AcquireGraph(p)
  <2>1. Holding = {} /\ Holding' = {p} /\ ~forced'
    BY <1>2, <1>3 DEF AcquireGraph, Put, Goto, Guarded, Own, States, Holding
  <2> QED
    BY <1>2, <2>1 DEF Graph!Next, Graph!Enter, Inside
<1>4. CASE CloseGraph(p) \/ Crash(p)
  <2>1. Holding' = Holding \ {p} /\ ~forced'
    BY <1>2, <1>4 DEF CloseGraph, Goto, Crash, Guarded, States, Holding
  <2> QED
    BY <1>2, <2>1 DEF Graph!Next, Graph!Leave, Inside
<1>5. CASE UnlockDelete(p)
  <2>1. Holding' = Holding
    BY <1>5 DEF UnlockDelete, Goto, Guarded, States, Holding
  <2>2. PICK q \in Procs : q \in Holding /\ Inside' = {}
    BY <1>2, <2>1 DEF Inside, Holding
  <2>3. Holding = {q}
    BY <1>2, <2>2 DEF Holding, Guarded, Own
  <2> QED
    BY <1>2, <2>2, <2>3 DEF Graph!Next, Graph!Leave, Inside
<1>6. CASE ~(AcquireGraph(p) \/ CloseGraph(p) \/ Crash(p) \/ UnlockDelete(p))
  <2>1. \A q \in Procs : (pc[q] = "holding") <=> (pc'[q] = "holding")
    <3>1. CASE Start(p) \/ RunStep(p) \/ Cancel(p)
      BY <3>1 DEF Start, RunStep, AcquireRun, AcquireFails, Recheck, GiveUp, ReleaseRun,
                  Cancel, Goto, Guarded, States
    <3>2. CASE GraphStep(p)
      BY <3>2, <1>6 DEF GraphStep, AcquireUntagged, AcquireRefused, AcquireLost,
                        DeleteUntagged, Goto, Guarded, States
    <3>3. CASE UnlockStep(p)
      BY SMTT(30), Z3T(30), <3>3, <1>6 DEF UnlockStep, Inspect, UnlockAcquire, Goto, Guarded, States
    <3> QED
      BY <1>1, <1>6, <3>1, <3>2, <3>3
  <2>2. forced' = forced
    BY <1>1, <1>6 DEF Start, RunStep, AcquireRun, AcquireFails, Recheck, GiveUp, ReleaseRun,
              GraphStep, AcquireUntagged, AcquireRefused, AcquireLost,
              DeleteUntagged, UnlockStep, Inspect, UnlockAcquire, Cancel
  <2> QED
    BY <2>1, <2>2 DEF Holding, Inside
<1> QED
  BY <1>3, <1>4, <1>5, <1>6

\* The graph lock serializes plan, apply and destroy across any number of
\* machines, checkouts, operators, crashes and unreliable requests, until an
\* operator forces out a holder that is still at work.
THEOREM LockRefinesMutex == Spec => LockImplementsMutex
<1>1. Init => Graph!Init
  BY DEF Init, Graph!Init, Inside, Holding
<1>2. Guarded /\ [Next]_vars => Guarded' /\ [Graph!Next]_Inside
  BY GuardedStep, MutexStep
<1> QED
  BY <1>1, <1>2, GuardedInit, PTL DEF Spec, LockImplementsMutex, Graph!Spec

\* The file locks: who holds what agrees with where each process is.
FileLocks ==
  /\ pc \in [Procs -> States]
  /\ flock \in [Checkouts -> Procs \cup {NoProc}]
  /\ RunLockHeld

\* No process has a file lock at first.
LEMMA FileLocksInit == Init => FileLocks
  BY LocksAssumption DEF Init, FileLocks, RunLockHeld, States, Checkouts

\* Taking and dropping the file lock moves exactly one process.
LEMMA FileLocksStep == FileLocks /\ [Next]_vars => FileLocks'
<1> SUFFICES ASSUME FileLocks, [Next]_vars PROVE FileLocks'
  OBVIOUS
<1> USE LocksAssumption DEF FileLocks, RunLockHeld, States, Checkouts
<1>1. CASE UNCHANGED vars
  BY SMTT(30), Z3T(30), <1>1 DEF vars
<1>2. CASE Next
  <2>1. PICK p \in Procs : Start(p) \/ RunStep(p) \/ GraphStep(p) \/ UnlockStep(p)
                           \/ Cancel(p) \/ Crash(p)
    BY <1>2 DEF Next
  <2>2. CASE Start(p) \/ Cancel(p)
    BY <2>2 DEF Start, Cancel, Goto
  <2>3. CASE AcquireRun(p)
    BY <2>3 DEF AcquireRun, Free, Lock, Goto
  <2>4. CASE Recheck(p)
    BY <2>4 DEF Recheck, Drop, Goto
  <2>5. CASE AcquireFails(p) \/ GiveUp(p)
    BY <2>5 DEF AcquireFails, GiveUp, Goto
  <2>6. CASE ReleaseRun(p)
    BY SMTT(30), Z3T(30), <2>6 DEF ReleaseRun, Drop, Goto
  <2>7. CASE GraphStep(p)
    BY SMTT(30), Z3T(30), <2>7 DEF GraphStep, AcquireGraph, AcquireUntagged, AcquireRefused, AcquireLost,
                DeleteUntagged, CloseGraph, Goto
  <2>8. CASE Inspect(p) \/ UnlockDelete(p)
    BY SMTT(30), Z3T(30), <2>8 DEF Inspect, UnlockDelete, Goto
  <2>9. CASE UnlockAcquire(p)
    BY <2>9 DEF UnlockAcquire, Free, Lock, Goto
  <2>10. CASE Crash(p)
    BY <2>10 DEF Crash, Drop
  <2> QED
    BY <2>1, <2>2, <2>3, <2>4, <2>5, <2>6, <2>7, <2>8, <2>9, <2>10 DEF RunStep, UnlockStep
<1> QED
  BY <1>1, <1>2

\* A command has the file lock of its checkout from the put to the end of
\* Close, and at no other time, for any processes and checkouts.
THEOREM RunLockFollowsCommand == Spec => []RunLockHeld
<1>1. FileLocks => RunLockHeld
  BY DEF FileLocks
<1> QED
  BY <1>1, FileLocksInit, FileLocksStep, PTL DEF Spec

\* The Close of a displaced holder, and its death, leave the object of the
\* process that came after it in place when the payloads differ, for any
\* processes, operators and sequence of forced releases.
THEOREM SuccessorKeepsLock == Spec => CloseKeepsOthers
<1> DEFINE Placed == pc \in [Procs -> States]
<1> DEFINE Kept == \A p, q \in Procs :
       /\ pc[p] = "holding" /\ pc'[p] # "holding"
       /\ pc[q] = "holding" /\ object = put[q] /\ tags[put[p]] # tags[put[q]]
       => object' = object
<1>1. FileLocks => Placed
  BY DEF FileLocks
<1>2. Placed /\ [Next]_vars => Kept
  <2> SUFFICES ASSUME Placed, Next, NEW p \in Procs, NEW q \in Procs,
                      pc[p] = "holding", pc'[p] # "holding", pc[q] = "holding",
                      object = put[q], tags[put[p]] # tags[put[q]]
               PROVE object' = object
    BY DEF vars
  <2>1. PICK r \in Procs : Start(r) \/ RunStep(r) \/ GraphStep(r) \/ UnlockStep(r)
                           \/ Cancel(r) \/ Crash(r)
    BY DEF Next
  <2>2. CASE CloseGraph(r)
    <3>1. r = p
      BY <2>2 DEF CloseGraph, Goto
    <3> QED
      BY <2>2, <3>1 DEF CloseGraph, CloseMatches
  <2>3. CASE Crash(r)
    BY SMTT(30), Z3T(30), <2>3 DEF Crash
  <2>4. CASE Start(r) \/ RunStep(r) \/ UnlockStep(r) \/ Cancel(r)
    BY <2>4 DEF Start, RunStep, AcquireRun, AcquireFails, Recheck, GiveUp, ReleaseRun,
                UnlockStep, Inspect, UnlockAcquire, UnlockDelete, Cancel, Goto, States
  <2>5. CASE GraphStep(r) /\ ~CloseGraph(r)
    BY <2>5 DEF GraphStep, AcquireGraph, AcquireUntagged, AcquireRefused, AcquireLost,
                DeleteUntagged, Goto, States
  <2> QED
    BY <2>1, <2>2, <2>3, <2>4, <2>5
<1> QED
  BY <1>1, <1>2, FileLocksInit, FileLocksStep, PTL DEF Spec, CloseKeepsOthers
==============================================================================

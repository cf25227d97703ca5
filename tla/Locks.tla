-------------------------------- MODULE Locks --------------------------------
(***************************************************************************)
(* The two locks of a terragraph command: the run lock, an advisory file   *)
(* lock of one checkout (internal/runlock), and the graph lock, an S3      *)
(* object shared by all machines (internal/graphlock), with the            *)
(* force-unlock command that removes a leftover object.                    *)
(*                                                                         *)
(* An object's ETag depends on its content, who put it in which second, so *)
(* two objects can have the same.  A request to S3 can fail without        *)
(* effect, or take effect and still report an error; a process can die     *)
(* between any two steps, which frees its file lock and leaves the object. *)
(***************************************************************************)
EXTENDS Integers, Sequences, FiniteSets

CONSTANTS Procs,       \* terragraph processes
          Operators,   \* those of them that run force-unlock
          Checkout,    \* the checkout each process works in
          Who,         \* lockWho: the user and host of each process
          NoProc,
          MaxPuts,     \* bound on the lock objects ever created
          MaxCrashes

ASSUME LocksAssumption ==
  /\ NoProc \notin Procs
  /\ Operators \subseteq Procs
  /\ MaxPuts \in Nat /\ MaxCrashes \in Nat

VARIABLES
  flock,    \* who holds the file lock of each checkout
  tags,     \* the ETags of the lock objects put so far, first to last
  object,   \* which of them is there, 0 when none is
  pc, put,  \* where each process is; the object its s3Held is about
  done,     \* the contexts cancelled
  forced,   \* history: an operator removed the object of a live holder
  crashes

vars == <<flock, tags, object, pc, put, done, forced, crashes>>

Checkouts == {Checkout[p] : p \in Procs}

Init ==
  /\ flock = [c \in Checkouts |-> NoProc]
  /\ tags = <<>> /\ object = 0
  /\ pc = [p \in Procs |-> "idle"]
  /\ put = [p \in Procs |-> 0]
  /\ done = {} /\ forced = FALSE
  /\ crashes = 0

Goto(p, from, to) == pc[p] = from /\ pc' = [pc EXCEPT ![p] = to]

Free(p) == flock[Checkout[p]] = NoProc
Lock(p) == flock' = [flock EXCEPT ![Checkout[p]] = p]
Drop(p) == flock' = [c \in Checkouts |-> IF flock[c] = p THEN NoProc ELSE flock[c]]

-----------------------------------------------------------------------------
(* The run lock *)

\* A plan, apply or destroy begins to wait for the run lock.
Start(p) ==
  /\ p \notin Operators
  /\ Goto(p, "idle", "waiting")
  /\ done' = done \ {p}
  /\ UNCHANGED <<flock, object, tags, put, forced, crashes>>

\* TryAcquire succeeds; the context is looked at once more.
AcquireRun(p) ==
  /\ p \notin done
  /\ Free(p) /\ Lock(p)
  /\ Goto(p, "waiting", "locked")
  /\ UNCHANGED <<object, tags, put, done, forced, crashes>>

\* The lock kept by a command that returns because of its context.
RecheckKeeping(p) ==
  \/ /\ p \notin done
     /\ Goto(p, "locked", "putting")
     /\ UNCHANGED <<flock, object, tags, put, done, forced, crashes>>
  \/ /\ p \in done
     /\ Goto(p, "locked", "idle")
     /\ UNCHANGED <<flock, object, tags, put, done, forced, crashes>>

\* The second look at the context, with the lock in hand.
Recheck(p) ==
  \/ /\ p \notin done
     /\ Goto(p, "locked", "putting")
     /\ UNCHANGED <<flock, object, tags, put, done, forced, crashes>>
  \/ /\ p \in done
     /\ Goto(p, "locked", "idle")
     /\ Drop(p)
     /\ UNCHANGED <<object, tags, put, done, forced, crashes>>

\* Only when the lock is free at last.
GiveUpLate(p) ==
  /\ p \in done /\ Free(p)
  /\ Goto(p, "waiting", "idle")
  /\ UNCHANGED <<flock, object, tags, put, done, forced, crashes>>

\* A cancelled waiter returns without waiting for the holder.
GiveUp(p) ==
  /\ p \in done
  /\ Goto(p, "waiting", "idle")
  /\ UNCHANGED <<flock, object, tags, put, done, forced, crashes>>

\* The lock file cannot be opened.
AcquireFails(p) ==
  /\ Goto(p, "waiting", "idle")
  /\ UNCHANGED <<flock, object, tags, put, done, forced, crashes>>

\* The deferred Close of the run lock.
ReleaseRun(p) ==
  /\ Goto(p, "leaving", "idle")
  /\ Drop(p)
  /\ UNCHANGED <<object, tags, put, done, forced, crashes>>

-----------------------------------------------------------------------------
(* The graph lock *)

\* The second of the last put, or the one after it.
Seconds == IF tags = <<>> THEN {0} ELSE {tags[Len(tags)].second, tags[Len(tags)].second + 1}

\* PutObject without the condition.
PutUnconditional(p) ==
  /\ Len(tags) < MaxPuts
  /\ \E s \in Seconds : tags' = Append(tags, [who |-> Who[p], second |-> s])
  /\ object' = Len(tags) + 1

\* PutObject with If-None-Match: * takes effect.
Put(p) ==
  /\ object = 0 /\ Len(tags) < MaxPuts
  /\ \E s \in Seconds : tags' = Append(tags, [who |-> Who[p], second |-> s])
  /\ object' = Len(tags) + 1

\* The put is acknowledged with its ETag.
AcquireGraph(p) ==
  /\ Put(p)
  /\ Goto(p, "putting", "holding")
  /\ put' = [put EXCEPT ![p] = Len(tags) + 1]
  /\ UNCHANGED <<flock, done, forced, crashes>>

\* The put is acknowledged without an ETag: nothing could release it later.
AcquireUntagged(p) ==
  /\ Put(p)
  /\ Goto(p, "putting", "untagged")
  /\ UNCHANGED <<flock, put, done, forced, crashes>>

\* The object is there already, or the request fails or conflicts.
AcquireRefused(p) ==
  /\ Goto(p, "putting", "leaving")
  /\ UNCHANGED <<flock, object, tags, put, done, forced, crashes>>

\* The put takes effect and an error is reported: the object is left behind.
AcquireLost(p) ==
  /\ Put(p)
  /\ Goto(p, "putting", "leaving")
  /\ UNCHANGED <<flock, put, done, forced, crashes>>

\* The cleanup delete of an object without an ETag has no condition.
DeleteUntagged(p) ==
  /\ Goto(p, "untagged", "leaving")
  /\ object' \in {0, object}
  /\ UNCHANGED <<flock, tags, put, done, forced, crashes>>

\* Any object deleted.
CloseAnything(p) == TRUE

\* s3Held.Close: DeleteObject with If-Match, or a failed request.  lockGraph
\* reports the failure and does not try again.
CloseMatches(p) == object # 0 /\ tags[object] = tags[put[p]]

CloseGraph(p) ==
  /\ Goto(p, "holding", "leaving")
  /\ object' \in IF CloseMatches(p) THEN {0, object} ELSE {object}
  /\ put' = [put EXCEPT ![p] = 0]
  /\ UNCHANGED <<flock, tags, done, forced, crashes>>

-----------------------------------------------------------------------------
(* force-unlock *)

\* Some process still works under the lock object.
Live == \E p \in Procs : pc[p] = "untagged" \/ (pc[p] = "holding" /\ put[p] = object)

\* Without --yes: the holder is shown, for the operator to make sure that it
\* has stopped.
Inspect(p) ==
  /\ p \in Operators
  /\ Free(p) /\ object # 0
  /\ Goto(p, "idle", "confirmed")
  /\ UNCHANGED <<flock, object, tags, put, done, forced, crashes>>

\* With --yes: refused while the checkout is in use.
UnlockAcquire(p) ==
  \/ /\ Free(p) /\ Lock(p)
     /\ Goto(p, "confirmed", "unlocking")
     /\ UNCHANGED <<object, tags, put, done, forced, crashes>>
  \/ /\ ~Free(p)
     /\ Goto(p, "confirmed", "idle")
     /\ UNCHANGED <<flock, object, tags, put, done, forced, crashes>>

\* graphlock.Release deletes whatever object is there, or fails.
UnlockDelete(p) ==
  /\ Goto(p, "unlocking", "leaving")
  /\ object' \in {0, object}
  /\ forced' = (forced \/ (Live /\ object' # object))
  /\ UNCHANGED <<flock, tags, put, done, crashes>>

-----------------------------------------------------------------------------

Cancel(p) ==
  /\ pc[p] # "idle" /\ p \notin done
  /\ done' = done \cup {p}
  /\ UNCHANGED <<flock, object, tags, pc, put, forced, crashes>>

\* The process dies; the operating system drops its file lock.
Crash(p) ==
  /\ pc[p] # "idle" /\ crashes < MaxCrashes
  /\ crashes' = crashes + 1
  /\ pc' = [pc EXCEPT ![p] = "idle"]
  /\ put' = [put EXCEPT ![p] = 0]
  /\ Drop(p)
  /\ UNCHANGED <<object, tags, done, forced>>

RunStep(p) == AcquireRun(p) \/ AcquireFails(p) \/ Recheck(p) \/ GiveUp(p) \/ ReleaseRun(p)
GraphStep(p) == AcquireGraph(p) \/ AcquireUntagged(p) \/ AcquireRefused(p)
                \/ AcquireLost(p) \/ DeleteUntagged(p) \/ CloseGraph(p)
UnlockStep(p) == Inspect(p) \/ UnlockAcquire(p) \/ UnlockDelete(p)

Next == \E p \in Procs : Start(p) \/ RunStep(p) \/ GraphStep(p) \/ UnlockStep(p)
                         \/ Cancel(p) \/ Crash(p)
Spec == Init /\ [][Next]_vars

\* A waiter polls every 50 ms and looks at its context each time.  Nothing is
\* assumed of a process that holds the lock: it may hold it for ever.
FairSpec == Spec /\ \A p \in Procs : WF_vars(GiveUp(p))

-----------------------------------------------------------------------------
(* Properties *)

States == {"idle", "waiting", "locked", "putting", "holding", "untagged", "leaving",
           "confirmed", "unlocking"}

Holding == {p \in Procs : pc[p] = "holding"}

\* Those the abstract lock answers for: none, once a live holder was forced out.
Inside == IF forced THEN {} ELSE Holding

Graph == INSTANCE Mutex WITH inside <- Inside

\* graphlock ("serializes terragraph plan/apply/destroy across machines"):
\* the two locks implement the abstract lock.  A process begins to execute
\* the graph only when no other does, despite crashes, lost acknowledgements,
\* missing ETags and force-unlocks, until one takes the object of a holder
\* that is still at work.
LockImplementsMutex == Graph!Spec

\* lockRun before lockGraph, released in reverse by the deferred calls: from
\* the put to the end of Close, and during a forced release, a process has the
\* file lock of its checkout to itself, on every error path.
RunLockHeld ==
  \A p \in Procs :
    pc[p] \notin {"idle", "waiting", "confirmed"} <=> flock[Checkout[p]] = p

\* s3Held.Close ("another writer replaced the object. We no longer own it"):
\* after a force-unlock under a live holder, that holder's Close does not
\* remove the lock of the process that came after it.  Their payloads must
\* differ: it is by them that Close tells the objects apart.
CloseKeepsOthers ==
  [][\A p, q \in Procs :
       /\ pc[p] = "holding" /\ pc'[p] # "holding"
       /\ pc[q] = "holding" /\ object = put[q] /\ tags[put[p]] # tags[put[q]]
       => object' = object]_vars

\* AcquireContext ("a cancelled waiter need not wait for the current owner to
\* finish before returning").
CancelledWaiterReturns ==
  \A p \in Procs : p \in done /\ pc[p] = "waiting" ~> pc[p] # "waiting"
==============================================================================

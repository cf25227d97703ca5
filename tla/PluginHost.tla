----------------------------- MODULE PluginHost -----------------------------
(***************************************************************************)
(* The plugin host of one execution: the features that its nodes and their *)
(* lease renewals call, the sessions that carry the calls, the calls kept  *)
(* in the execution record, the closing of the host and the recovery of    *)
(* calls afterwards (internal/plugins/lifecycle.go, session.go,            *)
(* credentials.go; engine/plugins.go, plugin_recovery.go).                 *)
(*                                                                         *)
(* Threads: a worker per node, a renewal goroutine per lease and Main, the *)
(* goroutine that closes the host and later, in a process of its own,      *)
(* recovers calls.  A thread runs its calls one after another; a call is   *)
(* recorded as pending, queued for the session of its plugin, sent,        *)
(* answered, and recorded again.                                           *)
(***************************************************************************)
EXTENDS Integers, Sequences

CONSTANTS Nodes, Main, NoThread,
          FeatureOrder,       \* the features, sorted by alias and name
          Alias, Kind, Effect, Events,
          Optional,           \* the features whose mode is not enforce
          Inputs, Bindings,   \* the resolvers and credential features each node
                              \* binds, in order
          MaxRenewals, MaxFaults, MaxCrashes, MaxRecoveries

Range(s) == {s[i] : i \in DOMAIN s}
IsInjective(s) == \A i, j \in DOMAIN s : s[i] = s[j] => i = j

Features == Range(FeatureOrder)
Aliases == {Alias[f] : f \in Features}
Leases == UNION {{<<n, i>> : i \in DOMAIN Bindings[n]} : n \in Nodes}
Threads == Nodes \cup {Main} \cup Leases   \* a renewal is named after its lease

\* lookup: what a node binds has the kind it is bound as.
ASSUME HostAssumption ==
  /\ FeatureOrder \in Seq(Features) /\ IsInjective(FeatureOrder)
  /\ \A n \in Nodes : /\ Inputs[n] \in Seq({f \in Features : Kind[f] = "input_resolver"})
                      /\ Bindings[n] \in Seq({f \in Features : Kind[f] = "credential_provider"})
  /\ Main \notin Nodes \cup Leases /\ Nodes \cap Leases = {}

\* Observers of credential calls would be called from inside those calls.
ASSUME EventsAssumption ==
  \A f \in Features : Events[f] \cap {"credential.acquire", "credential.renew",
                                     "credential.release", "input.resolve"} = {}

VARIABLES
  stored,    \* the execution record: plugin calls and status
  stale,     \* the revision of the session is not the stored one
  sess,      \* the session of each plugin
  busy,      \* the thread in its call gate
  todo,      \* the calls each thread has yet to make, first to last
  stage,     \* where the first of them is
  reply,     \* what it came to
  attempt,   \* how often it was repeated
  failed,    \* a required call of the thread's current list failed
  pc,
  scope,     \* the credentialScope of each node
  told,      \* the nodes whose end was announced
  trouble,   \* the run, a completion event or the closing failed
  live,      \* leases that the provider has handed out and not taken back
  happened,  \* external calls that took effect
  sent,      \* calls ever sent
  faults, crashes, recoveries

session == <<sess, busy>>
calling == <<todo, stage, reply, attempt, failed>>
outside == <<live, happened, sent>>
bounds == <<faults, crashes, recoveries>>
program == <<pc, scope, told, trouble>>
vars == <<stored, stale, session, calling, program, outside, bounds>>

\* A call: the event it serves, the feature and the action.  The event and the
\* action make its idempotency key.
Call(phase, n, k, f, action) == [ev |-> <<phase, n, k>>, f |-> f, action |-> action]

External(f) == Effect[f] \in {"idempotent_external", "non_idempotent_external"}
IsCredential(f) == Kind[f] = "credential_provider"
Required(f) == f \notin Optional
Lease(c) == <<c.ev[2], c.ev[3][1]>>

\* The calls about one lease; each renewal has a key of its own, and so has the
\* release that a replay makes.
AcquireCall(n, i) == Call("credential.acquire", n, <<i, 0>>, Bindings[n][i], "acquire")
RenewCall(l, k) == Call("credential.renew", l[1], <<l[2], k>>, Bindings[l[1]][l[2]], "renew")
ReleaseCall(l, k) == Call("credential.release", l[1], <<l[2], k>>, Bindings[l[1]][l[2]], "release")

\* The features of these kinds that subscribe to the phase, in their order.
Subscribed(phase, kinds) ==
  LET wanted == {f \in Features : phase \in Events[f] /\ Kind[f] \in kinds}
      fs[i \in 0 .. Len(FeatureOrder)] ==
        IF i = 0 THEN <<>>
        ELSE IF FeatureOrder[i] \in wanted THEN Append(fs[i - 1], FeatureOrder[i])
        ELSE fs[i - 1]
  IN  fs[Len(FeatureOrder)]

\* The calls of one Emit, in the order of the features.
Emit(phase, n) ==
  LET fs == Subscribed(phase, {"observer", "gate", "validator"})
  IN  [i \in DOMAIN fs |-> Call(phase, n, <<0, 0>>, fs[i], Kind[fs[i]])]

\* The gates that see the plan, asked once more.
RecheckPlan(n) ==
  LET fs == Subscribed("node.plan.ready", {"gate"})
  IN  [i \in DOMAIN fs |-> Call("node.mutation.admit", n, <<0, 1>>, fs[i], "gate")]

Init ==
  /\ stored = [calls |-> <<>>, status |-> "preparing"]
  /\ stale = FALSE
  /\ sess = [a \in Aliases |-> "none"] /\ busy = [a \in Aliases |-> NoThread]
  /\ todo = [t \in Threads |-> <<>>] /\ stage = [t \in Threads |-> "record"]
  /\ reply = [t \in Threads |-> "none"] /\ failed = [t \in Threads |-> FALSE]
  /\ attempt = [t \in Threads |-> 0]
  /\ pc = [t \in Threads |-> IF t \in Nodes THEN "prepare"
                             ELSE IF t = Main THEN "start" ELSE "none"]
  /\ scope = [n \in Nodes |-> [acquired |-> 0, leases |-> <<>>, err |-> FALSE, closed |-> FALSE]]
  /\ told = {} /\ trouble = FALSE
  /\ live = {} /\ happened = {} /\ sent = {}
  /\ faults = 0 /\ crashes = 0 /\ recoveries = 0

-----------------------------------------------------------------------------
(* The record *)

\* publish: stored and acknowledged, or an error with or without effect.
\* After an error with effect every later write of this session is refused.
Published(next) == ~stale /\ stored' = next /\ UNCHANGED <<stale, faults>>
PublishError(next) ==
  \/ stale /\ UNCHANGED <<stored, stale, faults>>
  \/ /\ ~stale /\ faults < MaxFaults /\ faults' = faults + 1
     /\ \/ UNCHANGED <<stored, stale>>
        \/ stored' = next /\ stale' = TRUE

\* A transition of a node phase; the phases themselves are those of Execution.
Journaled == Published(stored)
JournalError == PublishError(stored)

\* recordPlugin replaces the entry of the call or appends one.
WithCall(c, status, lease, decision) ==
  LET entry == [status |-> status, lease |-> lease, decision |-> decision]
  IN  [stored EXCEPT !.calls = [d \in DOMAIN stored.calls \cup {c} |->
                                  IF d = c THEN entry ELSE stored.calls[d]]]

\* Cleanup.Lease of the entry written before the call.
KnownLease(c) == c.action \in {"renew", "release"}

Goto(t, from, to) == pc[t] = from /\ pc' = [pc EXCEPT ![t] = to]
Stage(t, s) == stage' = [stage EXCEPT ![t] = s]
Answer(t, r) == reply' = [reply EXCEPT ![t] = r]
Current(t) == todo[t][1]
At(t, s) == todo[t] # <<>> /\ stage[t] = s

-----------------------------------------------------------------------------
(* invoke *)

\* The pending entry comes first; without it the call is not made.
RecordPending(t) ==
  LET c == Current(t)
      next == WithCall(c, "pending", KnownLease(c), "none")
  IN  /\ At(t, "record")
      /\ \/ Published(next) /\ Stage(t, "queue") /\ UNCHANGED reply
         \/ PublishError(next) /\ Stage(t, "returned") /\ Answer(t, "error")
      /\ UNCHANGED <<session, todo, attempt, failed, program, outside, crashes, recoveries>>

\* Open starts the process, checks what it describes and opens its log.
Opened == {"up", "gone"}

\* Session.Close cancels what is in flight and ends the process; a closed
\* session is not opened again.
Closed(a) == [sess EXCEPT ![a] = "gone"]
CloseProcesses == sess' = [a \in Aliases |-> "gone"]

\* session opens the plugin once; a failed start is not repeated.
OpenSession(t) ==
  LET a == Alias[Current(t).f]
  IN  /\ At(t, "queue") /\ sess[a] = "none"
      /\ \E s \in Opened : sess' = [sess EXCEPT ![a] = s]
      /\ UNCHANGED <<stored, stale, busy, calling, program, outside, bounds>>

\* The session is gone, or the call is cancelled or times out in the queue.
Undelivered(t) ==
  /\ At(t, "queue")
  /\ Stage(t, "record_result") /\ Answer(t, "failed")
  /\ UNCHANGED <<stored, stale, session, todo, attempt, failed, program, outside, bounds>>

\* The gate of the session is free and the request goes out.
Send(t) ==
  LET c == Current(t)
      a == Alias[c.f]
  IN  /\ At(t, "queue") /\ sess[a] = "up" /\ busy[a] = NoThread
      /\ busy' = [busy EXCEPT ![a] = t]
      /\ sent' = sent \cup {c}
      /\ Stage(t, "sent")
      /\ UNCHANGED <<stored, stale, sess, todo, reply, attempt, failed, program, live, happened, bounds>>

\* What the plugin does when it carries the request out.
TakesEffect(c) ==
  /\ happened' = happened \cup (IF External(c.f) /\ ~IsCredential(c.f) THEN {c} ELSE {})
  /\ live' = CASE c.action = "acquire" -> live \cup {Lease(c)}
               [] c.action = "release" -> live \ {Lease(c)}
               [] OTHER -> live

\* A gate decides, everything else says that it is done.
Decisions(c) == IF c.action = "gate" THEN {"allow", "deny"} ELSE {"done"}

Answered(t) ==
  LET c == Current(t)
  IN  /\ At(t, "sent")
      /\ busy' = [busy EXCEPT ![Alias[c.f]] = NoThread]
      /\ Stage(t, "record_result")
      /\ TakesEffect(c)
      /\ \E d \in Decisions(c) : Answer(t, d)
      /\ UNCHANGED <<stored, stale, sess, todo, attempt, failed, program, sent, bounds>>

\* Only what has no effect outside is repeated after a retryable fault.
Repeatable(f) == Effect[f] \in {"pure", "read_only"}

\* A fault of the plugin: nothing was done.  An illegible one closes the session.
Fault(t) ==
  LET a == Alias[Current(t).f]
  IN  /\ At(t, "sent")
      /\ busy' = [busy EXCEPT ![a] = NoThread]
      /\ \/ /\ Stage(t, "record_result") /\ Answer(t, "failed") /\ UNCHANGED attempt
            /\ sess' \in {sess, Closed(a)}
         \/ /\ Repeatable(Current(t).f) /\ attempt[t] < 2
            /\ Stage(t, "queue") /\ attempt' = [attempt EXCEPT ![t] = @ + 1]
            /\ UNCHANGED <<reply, sess>>
      /\ UNCHANGED <<stored, stale, todo, failed, program, outside, bounds>>

\* A fatal fault, a broken transport, a timeout or a cancellation after the
\* request went out: the outcome is unknown and the session is closed.
Lost(t) ==
  LET c == Current(t)
  IN  /\ At(t, "sent")
      /\ busy' = [busy EXCEPT ![Alias[c.f]] = NoThread]
      /\ sess' = Closed(Alias[c.f])
      /\ Stage(t, "record_result") /\ Answer(t, "unknown")
      /\ TakesEffect(c) \/ UNCHANGED <<live, happened>>
      /\ UNCHANGED <<stored, stale, todo, attempt, failed, program, sent, bounds>>

Result(c, r) ==
  IF r = "unknown" /\ (External(c.f) \/ IsCredential(c.f)) THEN "unknown"
  ELSE IF r \in {"failed", "unknown"} THEN "failed"
  ELSE "completed"

\* The entry is completed; an error here makes the call fail although the
\* answer, with its lease, is returned.
RecordResult(t) ==
  LET c == Current(t)
      next == WithCall(c, Result(c, reply[t]),
                       KnownLease(c) \/ (c.action = "acquire" /\ reply[t] = "done"),
                       reply[t])
  IN  /\ At(t, "record_result")
      /\ Stage(t, "returned")
      /\ \/ Published(next) /\ UNCHANGED reply
         \/ PublishError(next)
            /\ Answer(t, IF reply[t] = "done" THEN "unrecorded" ELSE "error")
      /\ UNCHANGED <<session, todo, attempt, failed, program, outside, crashes, recoveries>>

\* A denial does not count.
RefusalErrors(t) == Required(Current(t).f) /\ reply[t] \notin {"done", "allow", "deny"}

\* What the caller sees: an enforced failure, denial or error; a replay fails
\* whatever the mode.
Refusal(t) == /\ Required(Current(t).f) \/ pc[t] = "recovering"
              /\ reply[t] \notin {"done", "allow"}

Advance(t, rest) ==
  /\ todo' = [todo EXCEPT ![t] = rest]
  /\ Stage(t, "record") /\ Answer(t, "none") /\ attempt' = [attempt EXCEPT ![t] = 0]

\* Emit makes all its calls, whatever comes of each; so does the release of
\* the leases.  Resolving inputs and rechecking a plan stop at the first refusal.
Returned(t) ==
  LET stop == Refusal(t) /\ pc[t] \in {"inputs", "recheck"}
  IN  /\ At(t, "returned") /\ (t = Main \/ ~IsCredential(Current(t).f))
      /\ failed' = [failed EXCEPT ![t] = @ \/ Refusal(t)]
      /\ Advance(t, IF stop THEN <<>> ELSE Tail(todo[t]))
      /\ UNCHANGED <<stored, stale, session, program, outside, bounds>>

Invoke(t) == RecordPending(t) \/ OpenSession(t) \/ Undelivered(t) \/ Send(t)
             \/ Answered(t) \/ Fault(t) \/ Lost(t) \/ RecordResult(t) \/ Returned(t)

-----------------------------------------------------------------------------
(* A node worker *)

Quiet(t) == todo[t] = <<>>
Begin(t, cs) ==
  /\ todo' = [todo EXCEPT ![t] = cs] /\ failed' = [failed EXCEPT ![t] = FALSE]
  /\ UNCHANGED <<stage, reply, attempt>>

\* From one place to the next with the calls to be made there.
Step(t, from, to, cs) == Quiet(t) /\ Goto(t, from, to) /\ Begin(t, cs)
Rest == <<stored, stale, session, told, outside, bounds>>
GiveUp(n) == trouble' = TRUE /\ pc' = [pc EXCEPT ![n] = "done"]

\* resolveInputs: a resolver is asked for each plugin input.
Prepare(n) ==
  /\ pc[Main] = "running" /\ Quiet(Main) /\ ~failed[Main]
  /\ Step(n, "prepare", "inputs",
          [i \in DOMAIN Inputs[n] |-> Call("input.resolve", n, <<i, 0>>, Inputs[n][i], "resolve")])
  /\ UNCHANGED <<scope, trouble, Rest>>

RecordInitializing(n) ==
  /\ pc[n] = "inputs" /\ Quiet(n) /\ ~failed[n]
  /\ \/ Journaled /\ Goto(n, "inputs", "acquiring") /\ UNCHANGED trouble
     \/ JournalError /\ GiveUp(n)
  /\ UNCHANGED <<session, calling, scope, told, outside, crashes, recoveries>>

\* Credentials, called by the hook of the first command, acquires what the
\* node binds, one binding after the other, under the lock of the scope.
AcquireNext(n) ==
  LET i == scope[n].acquired + 1
  IN  /\ pc[n] = "acquiring" /\ Quiet(n) /\ i \in DOMAIN Bindings[n] /\ ~scope[n].err
      /\ Begin(n, <<AcquireCall(n, i)>>)
      /\ UNCHANGED <<program, Rest>>

\* A lease that the answer names is kept, also when the answer is refused or
\* could not be recorded.  Its renewal starts before the environment that came
\* with it is checked.
Acquired(n) ==
  LET l == Lease(Current(n))
  IN  /\ At(n, "returned") /\ Current(n).action = "acquire"
      /\ \E good, renew \in BOOLEAN :
           /\ good => renew
           /\ renew => reply[n] = "done"
           /\ scope' = [scope EXCEPT ![n] =
                          [acquired |-> @.acquired + 1, err |-> ~good \/ @.err, closed |-> @.closed,
                           leases |-> IF reply[n] \in {"done", "unrecorded"}
                                      THEN Append(@.leases, l) ELSE @.leases]]
           /\ pc' = [pc EXCEPT ![l] = IF renew THEN "timer" ELSE @]
      /\ Advance(n, <<>>)
      /\ UNCHANGED <<failed, trouble, Rest>>

\* Credentials: the scope has no error and is not cancelled.
Usable(n) == ~scope[n].err

\* Every binding is supplied; later hooks find the scope ready.
Ready(n) ==
  /\ Usable(n) /\ scope[n].acquired = Len(Bindings[n])
  /\ Step(n, "acquiring", "init_before", Emit("node.init.before", n))
  /\ UNCHANGED <<scope, trouble, Rest>>

InitStart(n) ==
  /\ Usable(n) /\ ~failed[n]
  /\ Step(n, "init_before", "init", <<>>)
  /\ UNCHANGED <<scope, trouble, Rest>>

InitReturns(n) ==
  /\ Step(n, "init", "init_after", Emit("node.init.after", n))
  /\ UNCHANGED <<scope, trouble, Rest>>

\* The plan is made and shown to the gates.
PlanReady(n) ==
  /\ Step(n, "init_after", "plan_ready", Emit("node.plan.ready", n))
  /\ trouble' = (trouble \/ failed[n])
  /\ UNCHANGED <<scope, Rest>>

\* The operator approves; Admit refuses what was lost meanwhile.
Approve(n) ==
  /\ Usable(n) /\ ~failed[n]
  /\ Step(n, "plan_ready", "recheck", RecheckPlan(n))
  /\ UNCHANGED <<scope, trouble, Rest>>

Admit(n) ==
  /\ ~failed[n]
  /\ Step(n, "recheck", "admit", Emit("node.mutation.admit", n))
  /\ UNCHANGED <<scope, trouble, Rest>>

RecordApplying(n) ==
  /\ pc[n] = "admit" /\ Quiet(n) /\ ~failed[n]
  /\ \/ Journaled /\ Goto(n, "admit", "apply_start") /\ UNCHANGED trouble
     \/ JournalError /\ GiveUp(n)
  /\ UNCHANGED <<session, calling, scope, told, outside, crashes, recoveries>>

\* The hook of the apply itself.
ApplyStart(n) ==
  /\ Usable(n) /\ Step(n, "apply_start", "apply", <<>>)
  /\ UNCHANGED <<scope, trouble, Rest>>

\* The observers of the mutation hear of it once its outcome is recorded.
ApplyReturns(n) ==
  /\ pc[n] = "apply"
  /\ \/ /\ Journaled /\ Goto(n, "apply", "mutation_finished")
        /\ Begin(n, Emit("node.mutation.finished", n))
        /\ trouble' \in {trouble, TRUE}
     \/ JournalError /\ GiveUp(n) /\ UNCHANGED calling
  /\ UNCHANGED <<session, scope, told, outside, crashes, recoveries>>

\* A refusal of an observer is an error of the command, not of the node.
Finished(n) ==
  /\ Quiet(n) /\ Goto(n, "mutation_finished", "done")
  /\ trouble' = (trouble \/ failed[n])
  /\ UNCHANGED <<calling, scope, Rest>>

\* A failing init or plan, a refusal, a lost credential or a declined approval.
Refused(n) ==
  /\ Quiet(n) /\ GiveUp(n)
  /\ \/ pc[n] \in {"init", "init_after", "plan_ready"}
     \/ pc[n] \in {"inputs", "init_before", "recheck", "admit"} /\ failed[n]
     \/ pc[n] \in {"acquiring", "init_before", "apply_start"} /\ ~Usable(n)
  /\ UNCHANGED <<calling, scope, Rest>>

Work(n) == Prepare(n) \/ RecordInitializing(n) \/ AcquireNext(n) \/ Acquired(n) \/ Ready(n)
           \/ InitStart(n) \/ InitReturns(n) \/ PlanReady(n) \/ Approve(n) \/ Admit(n)
           \/ RecordApplying(n) \/ ApplyStart(n) \/ ApplyReturns(n) \/ Finished(n) \/ Refused(n)

-----------------------------------------------------------------------------
(* The renewal of a lease *)

\* A renewal is an event of its own, whose ID no earlier one has.
RenewalDue(l) ==
  /\ \E k \in 1 .. MaxRenewals :
       /\ RenewCall(l, k) \notin DOMAIN stored.calls
       /\ \A j \in 1 .. k - 1 : RenewCall(l, j) \in DOMAIN stored.calls
       /\ Step(l, "timer", "renewing", <<RenewCall(l, k)>>)
  /\ UNCHANGED <<scope, trouble, Rest>>

\* Back to the timer, or an error, an invalid renewal or rotated credentials.
Renewed(l) ==
  /\ At(l, "returned") /\ pc[l] = "renewing"
  /\ \E to \in {"timer", "losing"} :
       (to = "timer" => reply[l] = "done") /\ pc' = [pc EXCEPT ![l] = to]
  /\ Advance(l, <<>>)
  /\ UNCHANGED <<failed, scope, trouble, Rest>>

\* A lease without renewal expires.
Expires(l) ==
  /\ Goto(l, "timer", "losing")
  /\ UNCHANGED <<calling, scope, trouble, Rest>>

\* The scope fails and what runs under it is cancelled; its lock is held while
\* credentials are acquired.
LeaseLost(l) ==
  /\ pc[l[1]] # "acquiring" \/ scope[l[1]].err \/ scope[l[1]].acquired = Len(Bindings[l[1]])
  /\ Goto(l, "losing", "gone")
  /\ scope' = [scope EXCEPT ![l[1]].err = TRUE]
  /\ UNCHANGED <<calling, trouble, Rest>>

\* The renewals are waited for without being stopped.
StoppableNever(l) == FALSE

\* closeCredentials stops the renewals of a scope in order, each when the one
\* before it has ended.
Over(l) == pc[l] \in {"none", "gone"}
Stoppable(l) == /\ pc[Main] = "closing" /\ Quiet(Main) /\ ~scope[l[1]].closed
                /\ \A i \in 1 .. l[2] - 1 : Over(<<l[1], i>>)

Stopped(l) ==
  /\ Stoppable(l) /\ Goto(l, "timer", "gone")
  /\ UNCHANGED <<calling, scope, trouble, Rest>>

Timer(l) == RenewalDue(l) \/ Expires(l)
Renew(l) == Renewed(l) \/ LeaseLost(l) \/ Stopped(l)

-----------------------------------------------------------------------------
(* Main: the run, the closing of the host *)

Start ==
  /\ Step(Main, "start", "selected", Emit("selection.ready", Main))
  /\ UNCHANGED <<scope, trouble, Rest>>

Selected ==
  /\ ~failed[Main] /\ Step(Main, "selected", "running", Emit("run.prepare", Main))
  /\ UNCHANGED <<scope, trouble, Rest>>

\* The closing does not wait for the workers.
DoneAny == TRUE

\* All workers have returned, or the start was refused.
Done == (pc[Main] = "running" /\ \A n \in Nodes : pc[n] = "done") \/ failed[Main]

\* finishPlugins: the end of each node and of the run is announced, whatever
\* comes of it, then the host is closed.
FinishPlugins ==
  /\ Done /\ pc[Main] \in {"selected", "running"} /\ Quiet(Main)
  /\ Begin(Main, <<>>)
  /\ pc' = [pc EXCEPT ![Main] = "finishing"]
  /\ trouble' = (trouble \/ failed[Main])
  /\ UNCHANGED <<scope, Rest>>

FinishNode(n) ==
  /\ pc[Main] = "finishing" /\ Quiet(Main) /\ n \notin told
  /\ told' = told \cup {n}
  /\ Begin(Main, Emit("node.finished", n))
  /\ trouble' = (trouble \/ failed[Main])
  /\ UNCHANGED <<pc, scope, stored, stale, session, outside, bounds>>

FinishRun ==
  /\ told = Nodes
  /\ Step(Main, "finishing", "closing", Emit("run.finished", Main))
  /\ trouble' = (trouble \/ failed[Main])
  /\ UNCHANGED <<scope, Rest>>

Reverse(s) == [i \in 1 .. Len(s) |-> s[(Len(s) - i) + 1]]

\* The renewals have ended: the leases are released, the last one first.
CloseScope(n) ==
  LET ls == scope[n].leases
  IN  /\ pc[Main] = "closing" /\ Quiet(Main) /\ ~scope[n].closed
      /\ \A i \in DOMAIN ls : Over(ls[i])
      /\ todo' = [todo EXCEPT ![Main] = [i \in DOMAIN ls |-> ReleaseCall(Reverse(ls)[i], 0)]]
      /\ scope' = [scope EXCEPT ![n].closed = TRUE]
      /\ trouble' = (trouble \/ scope[n].err)
      /\ UNCHANGED <<pc, stage, reply, attempt, failed, Rest>>

CloseSession ==
  /\ \A n \in Nodes : scope[n].closed
  /\ trouble' = (trouble \/ failed[Main])
  /\ Step(Main, "closing", "closed", Emit("session.close", Main))
  /\ UNCHANGED <<scope, Rest>>

-----------------------------------------------------------------------------
(* NeedsRecovery and finish *)

ReleasedAny(calls) == {Lease(c) : c \in {d \in DOMAIN calls : d.ev[1] = "credential.release"}}

\* The leases with a release that was carried out or reviewed.
Released(calls) ==
  {Lease(c) : c \in {d \in DOMAIN calls : /\ d.ev[1] = "credential.release" /\ calls[d].lease
                                          /\ calls[d].status \in {"completed", "acknowledged"}}}

Unresolved(calls, c) ==
  LET e == calls[c]
  IN  /\ e.status # "acknowledged"
      /\ ~(IsCredential(c.f) /\ e.lease /\ Lease(c) \in Released(calls))
      /\ \/ e.lease /\ c.ev[1] = "credential.acquire"
         \/ IsCredential(c.f) /\ e.status \in {"pending", "unknown"}
         \/ /\ Required(c.f) /\ External(c.f)
            /\ \/ e.status \in {"pending", "unknown"}
               \/ e.status = "failed" /\ Kind[c.f] \in {"observer", "credential_provider"}

NeedsRecovery(calls) == \E c \in DOMAIN calls : Unresolved(calls, c)

WithStatus(bad) ==
  [stored EXCEPT !.status = IF NeedsRecovery(stored.calls) THEN "needs_recovery"
                            ELSE IF bad THEN "failed" ELSE "completed"]

\* finish: the host is closed and the status of the execution is written.
Finish ==
  LET next == WithStatus(trouble \/ failed[Main])
  IN  /\ pc[Main] = "closed" /\ Quiet(Main)
      /\ Goto(Main, "closed", "over")
      /\ Published(next) \/ PublishError(next)
      /\ CloseProcesses
      /\ UNCHANGED <<busy, calling, scope, told, trouble, outside, crashes, recoveries>>

-----------------------------------------------------------------------------
(* Recovery, in a later process *)

\* A call that has taken effect is not made again.
OutstandingLease(c) == stored.calls[c].lease /\ c.ev[1] = "credential.acquire"
Recoverable(c) ==
  /\ stored.calls[c].status # "acknowledged"
  /\ stored.calls[c].status = "completed" => OutstandingLease(c)

\* The operator reviewed the outcome.
Acknowledge(c) ==
  /\ pc[Main] = "over" /\ recoveries < MaxRecoveries /\ Recoverable(c)
  /\ LET next == WithCall(c, "acknowledged", stored.calls[c].lease, stored.calls[c].decision)
     IN  \/ /\ stored' = next /\ stale' = FALSE /\ UNCHANGED faults
            /\ pc' = [pc EXCEPT ![Main] = "recovering"]
         \/ /\ faults < MaxFaults /\ faults' = faults + 1 /\ stored' \in {stored, next}
            /\ UNCHANGED <<stale, pc>>
  /\ failed' = [failed EXCEPT ![Main] = FALSE]
  /\ recoveries' = recoveries + 1
  /\ UNCHANGED <<session, todo, stage, reply, attempt, scope, told, trouble, outside, crashes>>

\* Every observer and every release, whatever its effect.
ReplayableAny(c) == Kind[c.f] = "observer" \/ c.ev[1] = "credential.release" \/ OutstandingLease(c)

\* Replay repeats observers and releases that are idempotent.
Replayable(c) ==
  /\ Effect[c.f] = "idempotent_external"
  /\ Kind[c.f] = "observer" \/ c.ev[1] = "credential.release" \/ OutstandingLease(c)

\* A replayed acquisition is a release under the event of the acquisition.
ReplayCall(c) ==
  IF ~IsCredential(c.f) THEN c
  ELSE IF c.ev[1] = "credential.release" THEN c
  ELSE ReleaseCall(Lease(c), 1)

Replay(c) ==
  /\ pc[Main] = "over" /\ recoveries < MaxRecoveries /\ Recoverable(c) /\ Replayable(c)
  /\ recoveries' = recoveries + 1
  /\ stale' = FALSE
  /\ sess' = [a \in Aliases |-> "none"] /\ busy' = [a \in Aliases |-> NoThread]
  /\ Step(Main, "over", "recovering", <<ReplayCall(c)>>)
  /\ UNCHANGED <<stored, scope, told, trouble, outside, faults, crashes>>

\* After a successful recovery the execution is finished without an error.
FinishRecovery ==
  /\ pc[Main] = "recovering" /\ Quiet(Main)
  /\ Goto(Main, "recovering", "over")
  /\ \/ failed[Main] /\ UNCHANGED <<stored, stale, faults>>
     \/ ~failed[Main] /\ (Published(WithStatus(FALSE)) \/ PublishError(WithStatus(FALSE)))
  /\ CloseProcesses
  /\ UNCHANGED <<busy, calling, scope, told, trouble, outside, crashes, recoveries>>

-----------------------------------------------------------------------------
(* The process dies; calls in flight may still be carried out *)

Crash ==
  /\ pc[Main] # "over" /\ crashes < MaxCrashes /\ crashes' = crashes + 1
  /\ \E S \in SUBSET {t \in Threads : At(t, "sent")} :
       LET done == {Current(t) : t \in S}
       IN  /\ happened' = happened \cup {c \in done : External(c.f) /\ ~IsCredential(c.f)}
           /\ live' = (live \cup {Lease(c) : c \in {d \in done : d.action = "acquire"}})
                        \ {Lease(c) : c \in {d \in done : d.action = "release"}}
  /\ todo' = [t \in Threads |-> <<>>] /\ stage' = [t \in Threads |-> "record"]
  /\ reply' = [t \in Threads |-> "none"] /\ attempt' = [t \in Threads |-> 0]
  /\ failed' = [t \in Threads |-> FALSE]
  /\ pc' = [t \in Threads |-> IF t = Main THEN "over" ELSE IF t \in Nodes THEN "done" ELSE "gone"]
  /\ sess' = [a \in Aliases |-> "gone"] /\ busy' = [a \in Aliases |-> NoThread]
  /\ UNCHANGED <<stored, stale, scope, told, trouble, sent, faults, recoveries>>

-----------------------------------------------------------------------------
Run == Start \/ Selected \/ FinishPlugins \/ FinishRun \/ CloseSession
       \/ (\E n \in Nodes : FinishNode(n) \/ CloseScope(n))
       \/ Finish \/ FinishRecovery
Recovery == \E c \in DOMAIN stored.calls : Acknowledge(c) \/ Replay(c)
Idle == pc[Main] = "over" /\ UNCHANGED vars

Next == \/ \E t \in Threads : Invoke(t)
        \/ \E n \in Nodes : Work(n)
        \/ \E l \in Leases : Timer(l) \/ Renew(l)
        \/ Run \/ Recovery \/ Crash \/ Idle

Spec == Init /\ [][Next]_vars

\* Timeouts end every call and subprocess and goroutines run; when a lease is
\* due is up to its provider.
FairSpec == /\ Spec
            /\ \A t \in Threads : WF_vars(Invoke(t))
            /\ \A n \in Nodes : WF_vars(Work(n))
            /\ \A l \in Leases : WF_vars(Renew(l))
            /\ WF_vars(Run)

-----------------------------------------------------------------------------
(* Properties *)

\* Once the process is over, what it left outside is accounted for by the
\* execution record: a lease that the provider still holds and a required
\* external effect are recorded as completed or acknowledged, or the record
\* keeps the recovery barrier (NeedsRecovery; "unresolved required external
\* effects retain a recovery barrier").
Accounted(c) == c \in DOMAIN stored.calls /\ stored.calls[c].status \in {"completed", "acknowledged"}
EffectsAccounted ==
  pc[Main] = "over" =>
    \/ NeedsRecovery(stored.calls)
    \/ /\ \A c \in happened : Required(c.f) => Accounted(c)
       /\ \A l \in live : \E c \in DOMAIN stored.calls :
            Lease(c) = l /\ IsCredential(c.f) /\ stored.calls[c].status = "acknowledged"

\* A request that is not idempotent is sent at most once in the life of the
\* execution: neither the retries of invoke nor Replay repeat it.
NonIdempotentOnce ==
  [][\A t \in Threads :
       (At(t, "queue") /\ stage'[t] = "sent" /\ Effect[Current(t).f] = "non_idempotent_external")
         => Current(t) \notin sent]_vars

\* Leases are released last: once the release of a lease was sent, no
\* subprocess of its node runs and its renewal has ended (closeCredentials).
ReleaseLast ==
  \A c \in sent : c.action = "release" =>
    pc[c.ev[2]] \notin {"init", "apply"} /\ Over(Lease(c))

\* A mutation runs only with the recorded consent of every required plan gate
\* to its recheck after the approval, whatever other threads did to the record.
AdmissionRecorded ==
  \A n \in Nodes : pc[n] = "apply" =>
    \A i \in DOMAIN RecheckPlan(n) :
      LET c == RecheckPlan(n)[i]
      IN  Required(c.f) => c \in DOMAIN stored.calls /\ stored.calls[c].decision = "allow"

\* Closing and recovering come to an end: no worker, renewal or queued call
\* keeps the host from being closed (Close, CloseProcesses).
CloseReturns == []<>(pc[Main] = "over")
============================================================================

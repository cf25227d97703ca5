------------------------ MODULE PluginHostShapeProofs ------------------------
(***************************************************************************)
(* The plugin host, for every number of nodes, features, bindings, faults, *)
(* crashes and recoveries.                                                 *)
(*                                                                         *)
(* The properties rest on an invariant of four layers:                     *)
(*   Shape      the calls of a thread are its own, of the place where it is,*)
(*              and differ; nodes work only while Main runs, and leases end*)
(*              before the host is closed;                                 *)
(*   Recorded   what is recorded, sent or carried out was reached by the   *)
(*              thread that makes it, and what is yet to be called was not *)
(*              recorded;                                                  *)
(*   Consented  a gate that is asked has a recorded consent from the moment*)
(*              the node leaves the place where it is asked;               *)
(*   Booked     the entry of a call agrees with what the call did outside. *)
(* Shape is here for calls, nodes and leases; the threads' programs are cut*)
(* into moves, which the later layers take up again.                       *)
(***************************************************************************)
EXTENDS PluginHost, WellFoundedInduction, TLAPS

NodePhases == {"input.resolve", "node.init.before", "node.init.after", "node.plan.ready",
               "node.mutation.admit", "node.mutation.finished"}
MainPhases == {"selection.ready", "run.prepare", "node.finished", "run.finished", "session.close"}
LeasePhases == {"credential.acquire", "credential.renew", "credential.release"}

Stages == {"record", "queue", "sent", "record_result", "returned"}
Replies == {"none", "failed", "unknown", "error", "unrecorded", "done", "allow", "deny"}
NodePlaces == {"prepare", "inputs", "acquiring", "init_before", "init", "init_after", "plan_ready",
               "recheck", "admit", "apply_start", "apply", "mutation_finished", "done"}
MainPlaces == {"start", "selected", "running", "finishing", "closing", "closed", "over", "recovering"}
LeasePlaces == {"none", "timer", "renewing", "losing", "gone"}

CallSet == [ev : (NodePhases \cup MainPhases \cup LeasePhases) \X (Nodes \cup {Main}) \X (Nat \X Nat),
            f : Features,
            action : {"observer", "gate", "validator", "resolve", "acquire", "renew", "release"}]

\* A call about a lease, or one of a feature that provides none.
Leased(c) ==
  \E l \in Leases : \/ c \in {AcquireCall(l[1], l[2]), ReleaseCall(l, 0), ReleaseCall(l, 1)}
                    \/ \E k \in Nat : c = RenewCall(l, k)
Plain(c) ==
  /\ c.ev[1] \in NodePhases \cup MainPhases
  /\ c.ev[1] \in NodePhases => c.ev[2] \in Nodes
  /\ ~IsCredential(c.f) /\ c.action \notin {"acquire", "renew", "release"}
Known(c) == c \in CallSet /\ (Leased(c) \/ Plain(c))

\* The thread that makes a call, and where.
Owner(c) == CASE c.ev[1] = "credential.renew" -> Lease(c)
              [] c.ev[1] \in NodePhases \cup {"credential.acquire"} -> c.ev[2]
              [] OTHER -> Main
Place(c) == CASE c.ev[1] = "input.resolve" -> "inputs"
              [] c.ev[1] = "credential.acquire" -> "acquiring"
              [] c.ev[1] = "node.init.before" -> "init_before"
              [] c.ev[1] = "node.init.after" -> "init_after"
              [] c.ev[1] = "node.plan.ready" -> "plan_ready"
              [] c.ev[1] = "node.mutation.admit" -> IF c.ev[3][2] = 1 THEN "recheck" ELSE "admit"
              [] c.ev[1] = "node.mutation.finished" -> "mutation_finished"
              [] c.ev[1] = "credential.renew" -> "renewing"
              [] c.ev[1] = "selection.ready" -> "selected"
              [] c.ev[1] = "run.prepare" -> "running"
              [] c.ev[1] = "node.finished" -> "finishing"
              [] c.ev[1] \in {"run.finished", "credential.release"} -> "closing"
              [] OTHER -> "closed"

\* The order of the places of a thread.
Rank(p) == CASE p \in {"prepare", "start", "none"} -> 0
             [] p \in {"inputs", "selected"} -> 1
             [] p \in {"acquiring", "running"} -> 2
             [] p \in {"init_before", "finishing"} -> 3
             [] p \in {"init", "closing"} -> 4
             [] p \in {"init_after", "closed"} -> 5
             [] p = "plan_ready" -> 6
             [] p = "recheck" -> 7
             [] p = "admit" -> 8
             [] p = "apply_start" -> 9
             [] p = "apply" -> 10
             [] p = "mutation_finished" -> 11
             [] OTHER -> 12

Scope == [acquired : Nat, leases : Seq(Leases), err : BOOLEAN, closed : BOOLEAN]

Typed ==
  /\ todo \in [Threads -> Seq(CallSet)] /\ stage \in [Threads -> Stages]
  /\ reply \in [Threads -> Replies] /\ failed \in [Threads -> BOOLEAN]
  /\ attempt \in [Threads -> Nat]
  /\ pc \in [Threads -> NodePlaces \cup MainPlaces \cup LeasePlaces]
  /\ \A n \in Nodes : pc[n] \in NodePlaces
  /\ pc[Main] \in MainPlaces
  /\ \A l \in Leases : pc[l] \in LeasePlaces
  /\ scope \in [Nodes -> Scope]
  /\ DOMAIN stored = {"calls", "status"}

Recovering(t) == pc[t] = "recovering"

\* The calls of a thread are its own, of the place where it is, and differ.
ThreadShape(t) ==
  /\ \A i \in DOMAIN todo[t] : Known(todo[t][i])
  /\ ~Recovering(t) => \A i \in DOMAIN todo[t] : Owner(todo[t][i]) = t /\ Place(todo[t][i]) = pc[t]
  /\ Recovering(t) => \A i \in DOMAIN todo[t] :
       /\ i = 1 /\ Effect[todo[t][i].f] = "idempotent_external"
       /\ Kind[todo[t][i].f] = "observer" \/ todo[t][i].action = "release"
  /\ IsInjective(todo[t])
  /\ Quiet(t) => stage[t] = "record"

\* Nodes work only while Main runs, and leases are over when the host is closed.
MainShape ==
  /\ \A n \in Nodes :
       /\ pc[Main] \in {"start", "selected"} => pc[n] = "prepare"
       /\ pc[Main] = "running" /\ (~Quiet(Main) \/ failed[Main]) => pc[n] = "prepare"
       /\ Rank(pc[Main]) >= 3 => pc[n] \in {"prepare", "done"}
  /\ Rank(pc[Main]) >= 5 => \A l \in Leases : Over(l)

ScopeShape(n) ==
  /\ \A i \in DOMAIN scope[n].leases :
       scope[n].leases[i][1] = n /\ scope[n].leases[i][2] <= scope[n].acquired
  /\ IsInjective(scope[n].leases)
  /\ pc[n] = "acquiring" /\ ~Quiet(n) => /\ todo[n] = <<AcquireCall(n, scope[n].acquired + 1)>>
                                         /\ <<n, scope[n].acquired + 1>> \in Leases
  /\ pc[n] \in {"prepare", "inputs"} => scope[n].acquired = 0
  /\ scope[n].closed => Rank(pc[Main]) >= 4

LeaseShape(l) ==
  /\ Rank(pc[Main]) <= 5 /\ pc[l] # "none" => \E i \in DOMAIN scope[l[1]].leases : scope[l[1]].leases[i] = l
  /\ scope[l[1]].closed => Over(l)

Shape == /\ Typed /\ MainShape
         /\ \A t \in Threads : ThreadShape(t)
         /\ \A n \in Nodes : ScopeShape(n)
         /\ \A l \in Leases : LeaseShape(l)

------------------------------------------------------------------------------
(* The calls of an event.                                                   *)

\* A set of naturals that contains 0 and with each number the next contains all.
LEMMA Counting ==
  ASSUME NEW S \in SUBSET Nat, 0 \in S, \A m \in S : m + 1 \in S
  PROVE  S = Nat
<1> DEFINE R == OpToRel(<, Nat)
           T == Nat \ S
<1>1. IsWellFoundedOn(R, Nat)
  BY Zenon, NatLessThanWellFounded
<1>2. \A i, j \in Nat : i < j => <<i, j>> \in R
  BY DEF OpToRel
<1> HIDE DEF R
<1>3. SUFFICES ASSUME T # {} PROVE FALSE
  BY Zenon
<1>4. PICK j \in T : \A l \in T : ~ (<<l, j>> \in R)
  BY Zenon, <1>1, <1>3, WFMin
<1>5. j # 0 /\ j - 1 \in Nat /\ j - 1 < j
  BY <1>4
<1>6. j - 1 \in S
  BY Zenon, <1>2, <1>4, <1>5
<1>7. (j - 1) + 1 \in S
  BY Zenon, <1>6
<1> QED
  BY SMTT(30), <1>4, <1>7

Filter(s, W, F, m) ==
  F = [i \in 0 .. m |-> IF i = 0 THEN <<>>
                        ELSE IF s[i] \in W THEN Append(F[i - 1], s[i]) ELSE F[i - 1]]

\* The sequence of the members of W exists for every prefix.
LEMMA FilterExists ==
  ASSUME NEW s, NEW W, NEW m \in Nat
  PROVE  \E F : Filter(s, W, F, m)
<1> DEFINE S == {k \in Nat : \E F : Filter(s, W, F, k)}
<1>1. 0 \in S
  <2>1. Filter(s, W, [i \in 0 .. 0 |-> <<>>], 0)
    BY DEF Filter
  <2>2. QED
    BY <2>1
<1>2. ASSUME NEW k \in S PROVE k + 1 \in S
  <2>1. PICK F : Filter(s, W, F, k)
    BY <1>2
  <2> DEFINE G == [i \in 0 .. k + 1 |->
                     IF i <= k THEN F[i]
                     ELSE IF s[i] \in W THEN Append(F[k], s[i]) ELSE F[k]]
             H == [i \in 0 .. k + 1 |->
                     IF i = 0 THEN <<>>
                     ELSE IF s[i] \in W THEN Append(G[i - 1], s[i]) ELSE G[i - 1]]
  <2>2. \A i \in 0 .. k : F[i] = IF i = 0 THEN <<>>
                                 ELSE IF s[i] \in W THEN Append(F[i - 1], s[i]) ELSE F[i - 1]
    BY Zenon, <2>1 DEF Filter
  <2>3. \A i \in 0 .. k + 1 : G[i] = H[i]
    <3>1. \A i \in 0 .. k : i - 1 \in 0 .. k \/ i = 0
      BY SMTT(30)
    <3>2. QED
      BY <2>2, <3>1
  <2>4. G = H
    BY Zenon, <2>3
  <2>5. Filter(s, W, G, k + 1)
    BY Zenon, <2>4 DEF Filter
  <2>6. k + 1 \in Nat
    OBVIOUS
  <2> HIDE DEF G
  <2>7. QED
    BY <2>5, <2>6
<1>3. S = Nat
  BY Zenon, <1>1, <1>2, Counting
<1>4. QED
  BY <1>3

\* What a filtered sequence without repetitions consists of.
LEMMA FilterResult ==
  ASSUME NEW A, NEW s \in Seq(A), IsInjective(s), NEW W, NEW F, Filter(s, W, F, Len(s))
  PROVE  F[Len(s)] \in Seq(A \cap W) /\ IsInjective(F[Len(s)])
<1> DEFINE Good(k) == /\ F[k] \in Seq(A \cap W) /\ IsInjective(F[k])
                      /\ \A i \in DOMAIN F[k] : \E j \in 1 .. k : F[k][i] = s[j]
           S == {k \in Nat : k <= Len(s) => Good(k)}
<1>1. \A i \in 0 .. Len(s) : F[i] = IF i = 0 THEN <<>>
                             ELSE IF s[i] \in W THEN Append(F[i - 1], s[i]) ELSE F[i - 1]
  BY Zenon DEF Filter
<1>2. 0 \in S
  <2>1. F[0] = <<>>
    BY SMTT(30), <1>1
  <2>2. Good(0)
    BY SMTT(30), <2>1 DEF IsInjective
  <2>3. QED
    BY Zenon, <2>2
<1>3. ASSUME NEW k \in S PROVE k + 1 \in S
  <2>1. SUFFICES ASSUME k + 1 <= Len(s) PROVE Good(k + 1)
    BY SMTT(30), Z3T(30), <1>3
  <2>2. Good(k) /\ k + 1 \in DOMAIN s /\ s[k + 1] \in A
    BY SMTT(30), <2>1
  <2>3. CASE s[k + 1] \notin W
    BY SMTT(30), <1>1, <2>1, <2>2, <2>3
  <2>4. CASE s[k + 1] \in W
    <3>1. F[k + 1] = Append(F[k], s[k + 1])
      <4>1. k + 1 \in 0 .. Len(s) /\ k + 1 # 0 /\ (k + 1) - 1 = k
        BY SMTT(30), <2>1
      <4>2. QED
        BY Zenon, <1>1, <2>4, <4>1
    <3>2. \A i \in DOMAIN F[k] : F[k][i] # s[k + 1]
      <4>1. \A j \in 1 .. k : j \in DOMAIN s /\ j # k + 1
        BY SMTT(30), <2>1
      <4>2. \A j \in 1 .. k : s[j] # s[k + 1]
        BY Zenon, <2>2, <4>1 DEF IsInjective
      <4>3. QED
        BY Zenon, <2>2, <4>2
    <3>3. F[k + 1] \in Seq(A \cap W)
      BY SMTT(30), Z3T(30), <2>2, <2>4, <3>1
    <3>4. IsInjective(F[k + 1])
      BY SMTT(30), Z3T(30), <2>2, <3>1, <3>2 DEF IsInjective
    <3>5. \A i \in DOMAIN F[k + 1] : \E j \in 1 .. k + 1 : F[k + 1][i] = s[j]
      BY SMTT(30), Z3T(30), <2>2, <3>1
    <3>6. QED
      BY Zenon, <3>3, <3>4, <3>5
  <2>5. QED
    BY Zenon, <2>3, <2>4
<1>4. S = Nat
  BY Zenon, <1>2, <1>3, Counting
<1>5. QED
  BY <1>4

\* The features that subscribe to a phase, each once.
LEMMA SubscribedFeatures ==
  ASSUME NEW phase, NEW kinds
  PROVE  /\ Subscribed(phase, kinds) \in Seq({f \in Features : phase \in Events[f] /\ Kind[f] \in kinds})
         /\ IsInjective(Subscribed(phase, kinds))
<1> DEFINE W == {f \in Features : phase \in Events[f] /\ Kind[f] \in kinds}
           F == CHOOSE fs : fs = [i \in 0 .. Len(FeatureOrder) |->
                  IF i = 0 THEN <<>>
                  ELSE IF FeatureOrder[i] \in W THEN Append(fs[i - 1], FeatureOrder[i])
                  ELSE fs[i - 1]]
<1>1. Len(FeatureOrder) \in Nat /\ FeatureOrder \in Seq(Features) /\ IsInjective(FeatureOrder)
  BY HostAssumption
<1>2. Subscribed(phase, kinds) = F[Len(FeatureOrder)]
  BY Zenon DEF Subscribed
<1>3. \E G : Filter(FeatureOrder, W, G, Len(FeatureOrder))
  <2> HIDE DEF W
  <2>1. QED
    BY Zenon, <1>1, FilterExists
<1>4. Filter(FeatureOrder, W, F, Len(FeatureOrder))
  <2> HIDE DEF W
  <2>1. QED
    BY Zenon, <1>3 DEF Filter
<1> HIDE DEF F
<1>5. Features \cap W = W
  BY Zenon
<1> HIDE DEF W
<1>6. F[Len(FeatureOrder)] \in Seq(Features \cap W) /\ IsInjective(F[Len(FeatureOrder)])
  BY Zenon, <1>1, <1>4, FilterResult
<1>7. QED
  BY <1>2, <1>5, <1>6 DEF W

\* The calls cs are to be made by thread t at the place p.
Batch(t, p, cs) ==
  /\ cs \in Seq(CallSet) /\ IsInjective(cs)
  /\ \A i \in DOMAIN cs : Known(cs[i]) /\ Owner(cs[i]) = t /\ Place(cs[i]) = p

\* The calls of one event.
LEMMA EmitCalls ==
  ASSUME NEW phase \in NodePhases \cup MainPhases, NEW n \in Nodes \cup {Main},
         phase \in NodePhases => n \in Nodes
  PROVE  /\ Emit(phase, n) \in Seq(CallSet) /\ IsInjective(Emit(phase, n))
         /\ \A i \in DOMAIN Emit(phase, n) :
              Plain(Emit(phase, n)[i]) /\ Emit(phase, n)[i].ev = <<phase, n, <<0, 0>>>>
<1> DEFINE K == {"observer", "gate", "validator"}
           fs == Subscribed(phase, K)
           cs == [i \in DOMAIN fs |-> Call(phase, n, <<0, 0>>, fs[i], Kind[fs[i]])]
<1>1. fs \in Seq({f \in Features : phase \in Events[f] /\ Kind[f] \in K}) /\ IsInjective(fs)
  BY Zenon, SubscribedFeatures
<1>2. Emit(phase, n) = cs
  BY DEF Emit
<1> HIDE DEF fs
<1>3. DOMAIN fs = 1 .. Len(fs) /\ Len(fs) \in Nat
      /\ \A i \in DOMAIN fs : fs[i] \in Features /\ Kind[fs[i]] \in K
  BY SMTT(30), Z3T(30), <1>1
<1>4. ASSUME NEW i \in DOMAIN fs
      PROVE  cs[i] \in CallSet /\ Plain(cs[i]) /\ cs[i].ev = <<phase, n, <<0, 0>>>> /\ cs[i].f = fs[i]
  <2>1. cs[i] = [ev |-> <<phase, n, <<0, 0>>>>, f |-> fs[i], action |-> Kind[fs[i]]]
    BY Zenon DEF Call
  <2>2. QED
    BY SMTT(30), <1>3, <2>1 DEF CallSet, Plain, IsCredential
<1>5. cs \in Seq(CallSet) /\ DOMAIN cs = DOMAIN fs
  BY <1>3, <1>4
<1> HIDE DEF cs
<1>6. IsInjective(cs)
  BY Zenon, <1>1, <1>4, <1>5 DEF IsInjective
<1>7. QED
  BY Zenon, <1>2, <1>4, <1>5, <1>6

\* The events of each phase are calls of the thread at that place.
LEMMA EmitBatch ==
  /\ \A n \in Nodes : /\ Batch(n, "init_before", Emit("node.init.before", n))
                      /\ Batch(n, "init_after", Emit("node.init.after", n))
                      /\ Batch(n, "plan_ready", Emit("node.plan.ready", n))
                      /\ Batch(n, "admit", Emit("node.mutation.admit", n))
                      /\ Batch(n, "mutation_finished", Emit("node.mutation.finished", n))
                      /\ Batch(Main, "finishing", Emit("node.finished", n))
  /\ Batch(Main, "selected", Emit("selection.ready", Main))
  /\ Batch(Main, "running", Emit("run.prepare", Main))
  /\ Batch(Main, "closing", Emit("run.finished", Main))
  /\ Batch(Main, "closed", Emit("session.close", Main))
<1>1. ASSUME NEW phase \in NodePhases \cup MainPhases, NEW n \in Nodes \cup {Main},
             phase \in NodePhases => n \in Nodes, NEW t, NEW p,
             \A c : c.ev = <<phase, n, <<0, 0>>>> => Owner(c) = t /\ Place(c) = p
      PROVE  Batch(t, p, Emit(phase, n))
  <2>1. \A i \in DOMAIN Emit(phase, n) : Emit(phase, n)[i] \in CallSet
    BY SMTT(30), <1>1, EmitCalls
  <2>2. QED
    BY Zenon, <1>1, <2>1, EmitCalls DEF Batch, Known
<1>2. \A c, n : c.ev = <<"node.init.before", n, <<0, 0>>>> => Owner(c) = n /\ Place(c) = "init_before"
  BY DEF Owner, Place, NodePhases
<1>3. \A c, n : c.ev = <<"node.init.after", n, <<0, 0>>>> => Owner(c) = n /\ Place(c) = "init_after"
  BY DEF Owner, Place, NodePhases
<1>4. \A c, n : c.ev = <<"node.plan.ready", n, <<0, 0>>>> => Owner(c) = n /\ Place(c) = "plan_ready"
  BY DEF Owner, Place, NodePhases
<1>5. \A c, n : c.ev = <<"node.mutation.admit", n, <<0, 0>>>> => Owner(c) = n /\ Place(c) = "admit"
  BY DEF Owner, Place, NodePhases
<1>6. \A c, n : c.ev = <<"node.mutation.finished", n, <<0, 0>>>> =>
                  Owner(c) = n /\ Place(c) = "mutation_finished"
  BY DEF Owner, Place, NodePhases
<1>7. \A c, n : c.ev = <<"node.finished", n, <<0, 0>>>> => Owner(c) = Main /\ Place(c) = "finishing"
  BY DEF Owner, Place, NodePhases
<1>8. \A c, n : c.ev = <<"selection.ready", n, <<0, 0>>>> => Owner(c) = Main /\ Place(c) = "selected"
  BY DEF Owner, Place, NodePhases
<1>9. \A c, n : c.ev = <<"run.prepare", n, <<0, 0>>>> => Owner(c) = Main /\ Place(c) = "running"
  BY DEF Owner, Place, NodePhases
<1>10. \A c, n : c.ev = <<"run.finished", n, <<0, 0>>>> => Owner(c) = Main /\ Place(c) = "closing"
  BY DEF Owner, Place, NodePhases
<1>11. \A c, n : c.ev = <<"session.close", n, <<0, 0>>>> => Owner(c) = Main /\ Place(c) = "closed"
  BY DEF Owner, Place, NodePhases
<1>12. /\ {"node.init.before", "node.init.after", "node.plan.ready", "node.mutation.admit",
           "node.mutation.finished"} \subseteq NodePhases
       /\ {"node.finished", "selection.ready", "run.prepare", "run.finished", "session.close"}
            \subseteq MainPhases \ NodePhases
  BY Zenon DEF NodePhases, MainPhases
<1>13. ASSUME NEW n \in Nodes
       PROVE  /\ Batch(n, "init_before", Emit("node.init.before", n))
              /\ Batch(n, "init_after", Emit("node.init.after", n))
              /\ Batch(n, "plan_ready", Emit("node.plan.ready", n))
              /\ Batch(n, "admit", Emit("node.mutation.admit", n))
              /\ Batch(n, "mutation_finished", Emit("node.mutation.finished", n))
              /\ Batch(Main, "finishing", Emit("node.finished", n))
  <2>1. Batch(n, "init_before", Emit("node.init.before", n))
    BY Zenon, <1>1, <1>2, <1>12
  <2>2. Batch(n, "init_after", Emit("node.init.after", n))
    BY Zenon, <1>1, <1>3, <1>12
  <2>3. Batch(n, "plan_ready", Emit("node.plan.ready", n))
    BY Zenon, <1>1, <1>4, <1>12
  <2>4. Batch(n, "admit", Emit("node.mutation.admit", n))
    BY Zenon, <1>1, <1>5, <1>12
  <2>5. Batch(n, "mutation_finished", Emit("node.mutation.finished", n))
    BY Zenon, <1>1, <1>6, <1>12
  <2>6. Batch(Main, "finishing", Emit("node.finished", n))
    BY Zenon, <1>1, <1>7, <1>12
  <2>7. QED
    BY Zenon, <2>1, <2>2, <2>3, <2>4, <2>5, <2>6
<1>14. Batch(Main, "selected", Emit("selection.ready", Main))
  BY Zenon, <1>1, <1>8, <1>12
<1>15. Batch(Main, "running", Emit("run.prepare", Main))
  BY Zenon, <1>1, <1>9, <1>12
<1>16. Batch(Main, "closing", Emit("run.finished", Main))
  BY Zenon, <1>1, <1>10, <1>12
<1>17. Batch(Main, "closed", Emit("session.close", Main))
  BY Zenon, <1>1, <1>11, <1>12
<1>18. QED
  BY Zenon, <1>13, <1>14, <1>15, <1>16, <1>17

\* The calls of a recheck and of the resolution of the inputs.
LEMMA RecheckBatch ==
  ASSUME NEW n \in Nodes
  PROVE  /\ Batch(n, "recheck", RecheckPlan(n))
         /\ \A i \in DOMAIN RecheckPlan(n) : /\ RecheckPlan(n)[i].action = "gate"
                                             /\ RecheckPlan(n)[i].ev = <<"node.mutation.admit", n, <<0, 1>>>>
<1> DEFINE fs == Subscribed("node.plan.ready", {"gate"})
           cs == [i \in DOMAIN fs |-> Call("node.mutation.admit", n, <<0, 1>>, fs[i], "gate")]
<1>1. fs \in Seq({f \in Features : "node.plan.ready" \in Events[f] /\ Kind[f] \in {"gate"}})
      /\ IsInjective(fs)
  BY Zenon, SubscribedFeatures
<1>2. RecheckPlan(n) = cs
  BY DEF RecheckPlan
<1> HIDE DEF fs
<1>3. DOMAIN fs = 1 .. Len(fs) /\ Len(fs) \in Nat
      /\ \A i \in DOMAIN fs : fs[i] \in Features /\ Kind[fs[i]] = "gate"
  BY <1>1
<1>4. ASSUME NEW i \in DOMAIN fs
      PROVE  /\ cs[i] \in CallSet /\ Known(cs[i]) /\ cs[i].f = fs[i] /\ cs[i].action = "gate"
             /\ cs[i].ev = <<"node.mutation.admit", n, <<0, 1>>>>
             /\ Owner(cs[i]) = n /\ Place(cs[i]) = "recheck"
  <2>1. cs[i] = [ev |-> <<"node.mutation.admit", n, <<0, 1>>>>, f |-> fs[i], action |-> "gate"]
    BY Zenon DEF Call
  <2>2. cs[i] \in CallSet
    BY SMTT(30), Z3T(30), <1>3, <2>1 DEF CallSet, NodePhases
  <2>3. Plain(cs[i])
    BY SMTT(30), Z3T(30), <1>3, <2>1 DEF Plain, NodePhases, IsCredential
  <2>4. Owner(cs[i]) = n /\ Place(cs[i]) = "recheck"
    BY SMTT(30), <2>1 DEF Owner, Place, NodePhases
  <2>5. QED
    BY SMTT(30), <2>1, <2>2, <2>3, <2>4 DEF Known
<1>5. cs \in Seq(CallSet) /\ DOMAIN cs = DOMAIN fs
  BY <1>3, <1>4
<1> HIDE DEF cs
<1>6. IsInjective(cs)
  BY ZenonT(90), SMTT(60), <1>1, <1>4, <1>5 DEF IsInjective
<1>7. QED
  BY Zenon, <1>2, <1>4, <1>5, <1>6 DEF Batch

\* The resolver calls of a node.
LEMMA InputBatch ==
  ASSUME NEW n \in Nodes
  PROVE  Batch(n, "inputs",
               [i \in DOMAIN Inputs[n] |-> Call("input.resolve", n, <<i, 0>>, Inputs[n][i], "resolve")])
<1> DEFINE fs == Inputs[n]
           cs == [i \in DOMAIN fs |-> Call("input.resolve", n, <<i, 0>>, fs[i], "resolve")]
<1>1. fs \in Seq({f \in Features : Kind[f] = "input_resolver"})
  BY Zenon, HostAssumption
<1> HIDE DEF fs
<1>3. DOMAIN fs = 1 .. Len(fs) /\ Len(fs) \in Nat
      /\ \A i \in DOMAIN fs : i \in Nat /\ fs[i] \in Features /\ Kind[fs[i]] = "input_resolver"
  BY <1>1
<1>4. ASSUME NEW i \in DOMAIN fs
      PROVE  /\ cs[i] \in CallSet /\ Known(cs[i]) /\ cs[i].ev[3][1] = i
             /\ Owner(cs[i]) = n /\ Place(cs[i]) = "inputs"
  <2>1. cs[i] = [ev |-> <<"input.resolve", n, <<i, 0>>>>, f |-> fs[i], action |-> "resolve"]
    BY DEF Call
  <2>2. cs[i] \in CallSet
    BY <1>3, <2>1 DEF CallSet, NodePhases
  <2>3. Plain(cs[i])
    BY <1>3, <2>1 DEF Plain, NodePhases, IsCredential
  <2>4. Owner(cs[i]) = n /\ Place(cs[i]) = "inputs"
    BY <2>1 DEF Owner, Place, NodePhases
  <2>5. QED
    BY <2>1, <2>2, <2>3, <2>4 DEF Known
<1>5. cs \in Seq(CallSet) /\ DOMAIN cs = DOMAIN fs
  BY <1>3, <1>4
<1>6. Batch(n, "inputs", cs)
  <2> HIDE DEF cs
  <2>1. ASSUME NEW i \in DOMAIN cs, NEW j \in DOMAIN cs, cs[i] = cs[j] PROVE i = j
    <3>1. cs[i].ev[3][1] = i /\ cs[j].ev[3][1] = j
      BY Zenon, <1>4, <1>5
    <3>2. QED
      BY <2>1, <3>1
  <2>2. IsInjective(cs)
    BY Zenon, <2>1 DEF IsInjective
  <2>3. QED
    BY Zenon, <1>4, <1>5, <2>2 DEF Batch
<1>7. QED
  BY <1>6 DEF fs

\* A lease is a binding of a node to a credential provider.
LEMMA LeaseForm ==
  ASSUME NEW l \in Leases
  PROVE  /\ l = <<l[1], l[2]>> /\ l[1] \in Nodes /\ l[2] \in Nat \ {0} /\ l[2] \in DOMAIN Bindings[l[1]]
         /\ Bindings[l[1]][l[2]] \in Features /\ IsCredential(Bindings[l[1]][l[2]])
<1>1. PICK n \in Nodes : l \in {<<n, i>> : i \in DOMAIN Bindings[n]}
  BY Zenon DEF Leases
<1>2. PICK i \in DOMAIN Bindings[n] : l = <<n, i>>
  BY <1>1
<1>3. Bindings[n] \in Seq({f \in Features : Kind[f] = "credential_provider"})
  BY Zenon, HostAssumption
<1>4. i \in Nat \ {0} /\ Bindings[n][i] \in Features /\ Kind[Bindings[n][i]] = "credential_provider"
  BY SMTT(30), <1>2, <1>3
<1>5. QED
  BY Zenon, <1>2, <1>4 DEF IsCredential

\* A binding of a node is a lease.
LEMMA LeaseOf ==
  ASSUME NEW n \in Nodes, NEW i \in DOMAIN Bindings[n]
  PROVE  <<n, i>> \in Leases
BY DEF Leases

\* A release is Main's, at the end of the run.
LEMMA ReleasePlace ==
  ASSUME NEW c, c.ev[1] = "credential.release"
  PROVE  Owner(c) = Main /\ Place(c) = "closing"
BY Zenon DEF Owner, Place, NodePhases

\* What a release is about.
LEMMA ReleaseEvent ==
  ASSUME NEW l, NEW k
  PROVE  ReleaseCall(l, k).ev[1] = "credential.release" /\ ReleaseCall(l, k).ev[2] = l[1]
BY DEF ReleaseCall, Call

\* The calls about a lease.
LEMMA LeaseCalls ==
  ASSUME NEW l \in Leases, NEW k \in Nat
  PROVE  /\ LET c == AcquireCall(l[1], l[2])
            IN  /\ Known(c) /\ Owner(c) = l[1] /\ Place(c) = "acquiring" /\ Lease(c) = l
                /\ IsCredential(c.f) /\ c.action = "acquire" /\ c.ev = <<"credential.acquire", l[1], <<l[2], 0>>>>
         /\ LET c == RenewCall(l, k)
            IN  /\ Known(c) /\ Owner(c) = l /\ Place(c) = "renewing" /\ Lease(c) = l
                /\ IsCredential(c.f) /\ c.action = "renew" /\ c.ev = <<"credential.renew", l[1], <<l[2], k>>>>
         /\ LET c == ReleaseCall(l, k)
            IN  /\ k \in {0, 1} => Known(c)
                /\ c \in CallSet /\ Owner(c) = Main /\ Place(c) = "closing" /\ Lease(c) = l
                /\ IsCredential(c.f) /\ c.action = "release" /\ c.ev = <<"credential.release", l[1], <<l[2], k>>>>
<1> DEFINE b == Bindings[l[1]][l[2]]
           ac == AcquireCall(l[1], l[2])
           rc == RenewCall(l, k)
           xc == ReleaseCall(l, k)
<1>1. l = <<l[1], l[2]>> /\ l[1] \in Nodes /\ l[2] \in Nat /\ b \in Features /\ IsCredential(b)
  BY Zenon, LeaseForm
<1>2. /\ ac = [ev |-> <<"credential.acquire", l[1], <<l[2], 0>>>>, f |-> b, action |-> "acquire"]
      /\ rc = [ev |-> <<"credential.renew", l[1], <<l[2], k>>>>, f |-> b, action |-> "renew"]
      /\ xc = [ev |-> <<"credential.release", l[1], <<l[2], k>>>>, f |-> b, action |-> "release"]
  BY Zenon DEF AcquireCall, RenewCall, ReleaseCall, Call
<1> HIDE DEF b
<1>3. ac \in CallSet /\ rc \in CallSet /\ xc \in CallSet
  <2> HIDE DEF ac, rc, xc
  <2>1. QED
    BY Zenon, <1>1, <1>2 DEF CallSet, LeasePhases
<1>4. Leased(ac) /\ Leased(rc) /\ (k \in {0, 1} => Leased(xc))
  BY Zenon DEF Leased
<1> HIDE DEF ac, rc, xc
<1>5. /\ Lease(ac) = l /\ Lease(rc) = l /\ Lease(xc) = l
  BY Zenon, <1>1, <1>2 DEF Lease
<1>6. /\ Owner(ac) = l[1] /\ Owner(rc) = l /\ Owner(xc) = Main
      /\ Place(ac) = "acquiring" /\ Place(rc) = "renewing" /\ Place(xc) = "closing"
  BY Zenon, <1>1, <1>2, <1>5 DEF Owner, Place, NodePhases
<1>7. Known(ac) /\ Known(rc) /\ (k \in {0, 1} => Known(xc))
  BY Zenon, <1>3, <1>4 DEF Known
<1>8. /\ ac.ev = <<"credential.acquire", l[1], <<l[2], 0>>>> /\ ac.action = "acquire" /\ ac.f = b
      /\ rc.ev = <<"credential.renew", l[1], <<l[2], k>>>> /\ rc.action = "renew" /\ rc.f = b
      /\ xc.ev = <<"credential.release", l[1], <<l[2], k>>>> /\ xc.action = "release" /\ xc.f = b
  BY Zenon, <1>2
<1>9. QED
  BY Zenon, <1>1, <1>3, <1>5, <1>6, <1>7, <1>8 DEF ac, rc, xc

\* Nodes, leases and Main are different threads.
LEMMA Threading ==
  /\ Main \in Threads /\ Main \notin Nodes /\ Main \notin Leases
  /\ \A n \in Nodes : n \in Threads /\ n # Main /\ n \notin Leases
  /\ \A l \in Leases : l \in Threads /\ l # Main /\ l \notin Nodes /\ l[1] \in Nodes
BY Zenon, HostAssumption, LeaseForm DEF Threads

\* A call about a lease is one of a credential provider.
LEMMA LeasedCall ==
  ASSUME NEW c, Leased(c)
  PROVE  /\ IsCredential(c.f) /\ Lease(c) \in Leases /\ c.ev[2] \in Nodes
         /\ \/ c.action = "acquire" /\ c = AcquireCall(c.ev[2], c.ev[3][1])
               /\ c.ev[1] = "credential.acquire" /\ Owner(c) = c.ev[2] /\ Place(c) = "acquiring"
            \/ c.action = "renew" /\ (\E k \in Nat : c = RenewCall(Lease(c), k))
               /\ c.ev[1] = "credential.renew" /\ Owner(c) = Lease(c) /\ Place(c) = "renewing"
            \/ c.action = "release" /\ c \in {ReleaseCall(Lease(c), 0), ReleaseCall(Lease(c), 1)}
               /\ c.ev[1] = "credential.release" /\ Owner(c) = Main /\ Place(c) = "closing"
<1>1. PICK l \in Leases : \/ c \in {AcquireCall(l[1], l[2]), ReleaseCall(l, 0), ReleaseCall(l, 1)}
                          \/ \E k \in Nat : c = RenewCall(l, k)
  BY Zenon DEF Leased
<1>2. l[1] \in Nodes /\ 0 \in Nat /\ 1 \in Nat
  BY Zenon, LeaseForm
<1>3. CASE c = AcquireCall(l[1], l[2])
  <2>1. /\ Owner(c) = l[1] /\ Place(c) = "acquiring" /\ Lease(c) = l /\ IsCredential(c.f)
        /\ c.action = "acquire" /\ c.ev = <<"credential.acquire", l[1], <<l[2], 0>>>>
    BY Zenon, <1>2, <1>3, LeaseCalls
  <2>2. c.ev[1] = "credential.acquire" /\ c.ev[2] = l[1] /\ c.ev[3][1] = l[2]
    BY SMTT(30), <2>1
  <2>3. QED
    BY Zenon, <1>2, <1>3, <2>1, <2>2
<1>4. ASSUME NEW k \in {0, 1}, c = ReleaseCall(l, k)
      PROVE  /\ IsCredential(c.f) /\ Lease(c) \in Leases /\ c.ev[2] \in Nodes
             /\ c.action = "release" /\ c \in {ReleaseCall(Lease(c), 0), ReleaseCall(Lease(c), 1)}
             /\ c.ev[1] = "credential.release" /\ Owner(c) = Main /\ Place(c) = "closing"
  <2>1. k \in Nat
    BY SMTT(30)
  <2>2. /\ Owner(c) = Main /\ Place(c) = "closing" /\ Lease(c) = l /\ IsCredential(c.f)
        /\ c.action = "release" /\ c.ev = <<"credential.release", l[1], <<l[2], k>>>>
    BY Zenon, <1>4, <2>1, LeaseCalls
  <2>3. c.ev[1] = "credential.release" /\ c.ev[2] = l[1]
    BY SMTT(30), <2>2
  <2>4. QED
    BY Zenon, <1>2, <1>4, <2>2, <2>3
<1>5. ASSUME NEW k \in Nat, c = RenewCall(l, k)
      PROVE  /\ IsCredential(c.f) /\ Lease(c) \in Leases /\ c.ev[2] \in Nodes
             /\ c.action = "renew" /\ c = RenewCall(Lease(c), k)
             /\ c.ev[1] = "credential.renew" /\ Owner(c) = Lease(c) /\ Place(c) = "renewing"
  <2>2. /\ Owner(c) = l /\ Place(c) = "renewing" /\ Lease(c) = l /\ IsCredential(c.f)
        /\ c.action = "renew" /\ c.ev = <<"credential.renew", l[1], <<l[2], k>>>>
    BY Zenon, <1>5, LeaseCalls
  <2>3. c.ev[1] = "credential.renew" /\ c.ev[2] = l[1]
    BY SMTT(30), <2>2
  <2>4. QED
    BY Zenon, <1>2, <1>5, <2>2, <2>3
<1>6. QED
  BY Zenon, <1>1, <1>3, <1>4, <1>5

\* Who makes a call, and where.
LEMMA KnownCall ==
  ASSUME NEW c, Known(c)
  PROVE  /\ c \in CallSet /\ (Leased(c) <=> IsCredential(c.f)) /\ c.ev[2] \in Nodes \cup {Main}
         /\ IsCredential(c.f) <=> c.action \in {"acquire", "renew", "release"}
         /\ IsCredential(c.f) <=> c.ev[1] \in LeasePhases
         /\ \/ Owner(c) \in Nodes /\ Owner(c) = c.ev[2]
               /\ Place(c) \in {"inputs", "acquiring", "init_before", "init_after", "plan_ready",
                                "recheck", "admit", "mutation_finished"}
            \/ Owner(c) = Main /\ Place(c) \in {"selected", "running", "finishing", "closing", "closed"}
            \/ Owner(c) \in Leases /\ Owner(c) = Lease(c) /\ Place(c) = "renewing"
<1>0. c \in CallSet /\ c.ev[2] \in Nodes \cup {Main}
  BY Zenon DEF Known, CallSet
<1>1. CASE Leased(c)
  <2>1. c.ev[1] \in LeasePhases /\ c.action \in {"acquire", "renew", "release"}
    BY Zenon, <1>1, LeasedCall DEF LeasePhases
  <2>2. QED
    BY Zenon, <1>0, <1>1, <2>1, LeasedCall
<1>2. CASE ~Leased(c)
  <2>1. /\ c.ev[1] \in NodePhases \cup MainPhases /\ (c.ev[1] \in NodePhases => c.ev[2] \in Nodes)
        /\ ~IsCredential(c.f) /\ c.action \notin {"acquire", "renew", "release"}
    BY Zenon, <1>2 DEF Known, Plain
  <2>2. c.ev[1] \notin LeasePhases
    BY Zenon, <2>1 DEF NodePhases, MainPhases, LeasePhases
  <2>3. CASE c.ev[1] \in NodePhases
    <3>1. Owner(c) = c.ev[2]
      BY Zenon, <2>3 DEF Owner, NodePhases
    <3>2. Place(c) \in {"inputs", "acquiring", "init_before", "init_after", "plan_ready",
                        "recheck", "admit", "mutation_finished"}
      BY Zenon, <2>3 DEF Place, NodePhases
    <3>3. QED
      BY Zenon, <1>0, <1>2, <2>1, <2>2, <2>3, <3>1, <3>2
  <2>4. CASE c.ev[1] \in MainPhases
    <3>1. Owner(c) = Main
      BY Zenon, <2>4 DEF Owner, NodePhases, MainPhases
    <3>2. Place(c) \in {"selected", "running", "finishing", "closing", "closed"}
      BY Zenon, <2>4 DEF Place, NodePhases, MainPhases
    <3>3. QED
      BY Zenon, <1>0, <1>2, <2>1, <2>2, <3>1, <3>2
  <2>5. QED
    BY Zenon, <2>1, <2>3, <2>4
<1>3. QED
  BY Zenon, <1>1, <1>2

------------------------------------------------------------------------------
(* Shape: where the threads are.                                            *)

\* The order of the places.
LEMMA Ranks ==
  /\ Rank("prepare") = 0 /\ Rank("start") = 0 /\ Rank("none") = 0
  /\ Rank("inputs") = 1 /\ Rank("selected") = 1 /\ Rank("acquiring") = 2 /\ Rank("running") = 2
  /\ Rank("init_before") = 3 /\ Rank("finishing") = 3 /\ Rank("init") = 4 /\ Rank("closing") = 4
  /\ Rank("init_after") = 5 /\ Rank("closed") = 5 /\ Rank("plan_ready") = 6 /\ Rank("recheck") = 7
  /\ Rank("admit") = 8 /\ Rank("apply_start") = 9 /\ Rank("apply") = 10
  /\ Rank("mutation_finished") = 11 /\ Rank("done") = 12 /\ Rank("over") = 12
  /\ Rank("recovering") = 12 /\ Rank("timer") = 12 /\ Rank("renewing") = 12
  /\ Rank("losing") = 12 /\ Rank("gone") = 12
BY DEF Rank

\* Ranks are numbers.
LEMMA RankType == \A p : Rank(p) \in 0 .. 12
BY DEF Rank

\* The call of a thread that makes one.
LEMMA BusyThread ==
  ASSUME Shape, NEW t \in Threads, ~Quiet(t)
  PROVE  /\ 1 \in DOMAIN todo[t] /\ Known(Current(t)) /\ Current(t) \in CallSet
         /\ ~Recovering(t) => Owner(Current(t)) = t /\ Place(Current(t)) = pc[t]
         /\ Recovering(t) => /\ t = Main /\ Effect[Current(t).f] = "idempotent_external"
                             /\ Kind[Current(t).f] = "observer" \/ Current(t).action = "release"
<1>1. todo[t] \in Seq(CallSet) /\ todo[t] # <<>>
  BY Zenon DEF Shape, Typed, Quiet
<1>2. 1 \in DOMAIN todo[t] /\ todo[t][1] \in CallSet
  BY SMTT(30), <1>1
<1>3. Recovering(t) => t = Main
  <2>1. t \in Nodes => pc[t] \in NodePlaces
    BY Zenon DEF Shape, Typed
  <2>2. t \in Leases => pc[t] \in LeasePlaces
    BY Zenon DEF Shape, Typed
  <2>3. QED
    BY Zenon, <2>1, <2>2 DEF Threads, NodePlaces, LeasePlaces, Recovering
<1>4. ThreadShape(t)
  BY Zenon DEF Shape
<1>5. QED
  BY Zenon, <1>2, <1>3, <1>4 DEF ThreadShape, Current

\* Between its calls a thread has none.
LEMMA QuietPlace ==
  ASSUME Shape, NEW t \in Threads,
         pc[t] \in {"prepare", "init", "apply_start", "apply", "done", "start", "over",
                    "none", "timer", "losing", "gone"}
  PROVE  Quiet(t)
<1> SUFFICES ASSUME ~Quiet(t) PROVE FALSE
  BY Zenon
<1>1. ~Recovering(t)
  BY Zenon DEF Recovering
<1>2. Known(Current(t)) /\ Place(Current(t)) = pc[t]
  BY Zenon, <1>1, BusyThread
<1>3. QED
  BY Zenon, <1>2, KnownCall

\* While a node works, Main waits for it.
LEMMA Working ==
  ASSUME Shape, NEW n \in Nodes, pc[n] \notin {"prepare", "done"}
  PROVE  pc[Main] = "running" /\ Quiet(Main) /\ ~failed[Main]
<1>1. /\ pc[Main] \in {"start", "selected"} => pc[n] = "prepare"
      /\ pc[Main] = "running" /\ (~Quiet(Main) \/ failed[Main]) => pc[n] = "prepare"
      /\ Rank(pc[Main]) >= 3 => pc[n] \in {"prepare", "done"}
      /\ pc[Main] \in MainPlaces
  BY Zenon DEF Shape, MainShape, Typed
<1>2. pc[Main] \notin {"start", "selected"} /\ ~ (Rank(pc[Main]) >= 3)
  BY Zenon, <1>1
<1>3. pc[Main] = "running"
  BY SMTT(30), <1>1, <1>2, Ranks DEF MainPlaces
<1>4. QED
  BY Zenon, <1>1, <1>3

\* The host starts in Shape.
LEMMA InitShape == Init => Shape
<1> SUFFICES ASSUME Init PROVE Shape
  OBVIOUS
<1>0. Main \in Threads
  BY Zenon DEF Threads
<1>1. Typed
  <2>1. \A n \in Nodes : n \in Threads /\ pc[n] = "prepare"
    BY ZenonT(30) DEF Init, Threads
  <2>2. pc[Main] = "start"
    BY Zenon, <1>0, Threading DEF Init
  <2>3. \A l \in Leases : l \in Threads /\ pc[l] = "none"
    BY Zenon, Threading DEF Init
  <2>4. /\ todo \in [Threads -> Seq(CallSet)] /\ stage \in [Threads -> Stages]
        /\ reply \in [Threads -> Replies] /\ failed \in [Threads -> BOOLEAN]
        /\ attempt \in [Threads -> Nat]
    BY SMTT(30) DEF Init, Stages, Replies
  <2>5. pc \in [Threads -> NodePlaces \cup MainPlaces \cup LeasePlaces]
    BY Zenon DEF Init, NodePlaces, MainPlaces, LeasePlaces
  <2>6. scope \in [Nodes -> Scope]
    BY SMTT(30) DEF Init, Scope
  <2>7. DOMAIN stored = {"calls", "status"}
    BY Zenon DEF Init
  <2>8. QED
    BY Zenon, <2>1, <2>2, <2>3, <2>4, <2>5, <2>6, <2>7 DEF Typed, NodePlaces, MainPlaces, LeasePlaces
<1>2. pc[Main] = "start" /\ (\A n \in Nodes : pc[n] = "prepare") /\ (\A l \in Leases : pc[l] = "none")
  BY ZenonT(30), <1>0, Threading DEF Init
<1>3. MainShape
  BY SMTT(60), Z3T(60), <1>2, Ranks DEF MainShape
<1>4. \A t \in Threads : ThreadShape(t)
  BY SMTT(30) DEF Init, ThreadShape, Quiet, IsInjective
<1>5. ASSUME NEW n \in Nodes PROVE ScopeShape(n)
  <2>1. scope[n].leases = <<>> /\ DOMAIN scope[n].leases = {} /\ scope[n].acquired = 0 /\ ~scope[n].closed
    BY SMTT(30) DEF Init
  <2>2. QED
    BY Zenon, <1>2, <2>1 DEF ScopeShape, IsInjective
<1>6. \A l \in Leases : LeaseShape(l)
  BY ZenonT(30), <1>2, Threading DEF Init, LeaseShape
<1>7. QED
  BY Zenon, <1>1, <1>3, <1>4, <1>5, <1>6 DEF Shape

\* A step of the call that a thread makes.
CallStep(t) ==
  /\ ~Quiet(t) /\ DOMAIN stored' = {"calls", "status"}
  /\ todo' = todo /\ pc' = pc /\ scope' = scope /\ failed' = failed /\ told' = told
  /\ stage' \in [Threads -> Stages] /\ reply' \in [Threads -> Replies]
  /\ attempt' \in [Threads -> Nat]
  /\ \A u \in Threads \ {t} : stage'[u] = stage[u] /\ reply'[u] = reply[u]

\* A write of the record takes effect or not.
LEMMA Publishing ==
  ASSUME NEW next, Published(next) \/ PublishError(next)
  PROVE  stored' \in {stored, next}
BY DEF Published, PublishError

\* An entry adds its call to the record.
LEMMA WithCallDomain ==
  ASSUME NEW c, NEW s, NEW l, NEW d, DOMAIN stored = {"calls", "status"}
  PROVE  /\ DOMAIN WithCall(c, s, l, d) = {"calls", "status"}
         /\ DOMAIN WithCall(c, s, l, d).calls = DOMAIN stored.calls \cup {c}
         /\ WithCall(c, s, l, d).calls[c] = [status |-> s, lease |-> l, decision |-> d]
         /\ \A e \in DOMAIN stored.calls \ {c} : WithCall(c, s, l, d).calls[e] = stored.calls[e]
BY Zenon DEF WithCall

\* invoke makes one step of its call or returns from it.
LEMMA InvokeStep ==
  ASSUME Shape, NEW t \in Threads, Invoke(t)
  PROVE  CallStep(t) \/ Returned(t)
<1> SUFFICES ASSUME ~Returned(t) PROVE CallStep(t)
  BY Zenon
<1>1. /\ stage \in [Threads -> Stages] /\ reply \in [Threads -> Replies]
      /\ attempt \in [Threads -> Nat] /\ DOMAIN stored = {"calls", "status"}
  BY Zenon DEF Shape, Typed
<1>2. CASE RecordPending(t)
  <2> DEFINE c == Current(t)
             next == WithCall(c, "pending", KnownLease(c), "none")
  <2>1. stored' \in {stored, next}
    BY Zenon, <1>2, Publishing DEF RecordPending
  <2>2. DOMAIN stored' = {"calls", "status"}
    <3>1. DOMAIN next = {"calls", "status"}
      BY ZenonT(60), <1>1 DEF WithCall
    <3> HIDE DEF next
    <3>2. QED
      BY Zenon, <1>1, <2>1, <3>1
  <2>3. /\ ~Quiet(t) /\ todo' = todo /\ pc' = pc /\ scope' = scope /\ failed' = failed /\ told' = told
        /\ attempt' = attempt
        /\ stage' \in {[stage EXCEPT ![t] = "queue"], [stage EXCEPT ![t] = "returned"]}
        /\ reply' \in {reply, [reply EXCEPT ![t] = "error"]}
    BY Zenon, <1>2 DEF RecordPending, At, Quiet, Stage, Answer, program
  <2>4. QED
    BY ZenonT(60), <1>1, <2>2, <2>3 DEF CallStep, Stages, Replies
<1>3. CASE OpenSession(t)
  BY Zenon, <1>1, <1>3 DEF OpenSession, At, Quiet, program, calling, CallStep
<1>4. CASE Undelivered(t)
  BY Zenon, <1>1, <1>4 DEF Undelivered, At, Quiet, program, CallStep, Stage, Answer, Stages, Replies
<1>5. CASE Send(t)
  BY ZenonT(60), <1>1, <1>5 DEF Send, At, Quiet, program, CallStep, Stage, Stages, Replies
<1>6. CASE Answered(t)
  <2>1. Decisions(Current(t)) \subseteq Replies
    BY DEF Decisions, Replies
  <2>2. PICK d \in Replies : Answer(t, d)
    BY Zenon, <1>6, <2>1 DEF Answered
  <2>3. QED
    BY Zenon, <1>1, <1>6, <2>2 DEF Answered, At, Quiet, program, CallStep, Stage, Answer, Stages
<1>7. CASE Fault(t)
  <2>1. /\ ~Quiet(t) /\ stored' = stored /\ todo' = todo /\ pc' = pc /\ scope' = scope
        /\ failed' = failed /\ told' = told
        /\ stage' \in {[stage EXCEPT ![t] = "record_result"], [stage EXCEPT ![t] = "queue"]}
        /\ reply' \in {reply, [reply EXCEPT ![t] = "failed"]}
        /\ attempt' \in {attempt, [attempt EXCEPT ![t] = @ + 1]}
    BY Zenon, <1>7 DEF Fault, At, Quiet, program, Stage, Answer
  <2>2. attempt' \in [Threads -> Nat]
    BY SMTT(30), <1>1, <2>1
  <2>3. QED
    BY Zenon, <1>1, <2>1, <2>2 DEF CallStep, Stages, Replies
<1>8. CASE Lost(t)
  BY Zenon, <1>1, <1>8 DEF Lost, At, Quiet, program, CallStep, Stage, Answer, Stages, Replies
<1>9. CASE RecordResult(t)
  <2> DEFINE c == Current(t)
             next == WithCall(c, Result(c, reply[t]),
                              KnownLease(c) \/ (c.action = "acquire" /\ reply[t] = "done"), reply[t])
  <2>1. stored' \in {stored, next}
    BY Zenon, <1>9, Publishing DEF RecordResult
  <2>2. DOMAIN stored' = {"calls", "status"}
    <3>1. DOMAIN next = {"calls", "status"}
      BY ZenonT(60), <1>1 DEF WithCall
    <3> HIDE DEF next
    <3>2. QED
      BY <1>1, <2>1, <3>1
  <2>3. /\ ~Quiet(t) /\ todo' = todo /\ pc' = pc /\ scope' = scope /\ failed' = failed /\ told' = told
        /\ attempt' = attempt
        /\ stage' = [stage EXCEPT ![t] = "returned"]
        /\ reply' \in {reply, [reply EXCEPT ![t] = "unrecorded"], [reply EXCEPT ![t] = "error"]}
    BY Zenon, <1>9 DEF RecordResult, At, Quiet, Stage, Answer, program
  <2>4. QED
    BY Zenon, <1>1, <2>2, <2>3 DEF CallStep, Stages, Replies
<1>10. QED
  BY Zenon, <1>2, <1>3, <1>4, <1>5, <1>6, <1>7, <1>8, <1>9 DEF Invoke

\* The steps of a call keep Shape.
LEMMA CallShape ==
  ASSUME Shape, NEW t \in Threads, CallStep(t)
  PROVE  Shape'
<1>1. /\ todo' = todo /\ pc' = pc /\ scope' = scope /\ failed' = failed /\ told' = told /\ ~Quiet(t)
      /\ \A u \in Threads \ {t} : stage'[u] = stage[u]
  BY DEF CallStep
<1>2. Typed'
  BY Zenon DEF CallStep, Shape, Typed
<1>3. MainShape'
  BY ZenonT(60), <1>1 DEF Shape, MainShape, Quiet, Over
<1>4. ASSUME NEW u \in Threads PROVE ThreadShape(u)'
  <2>1. ThreadShape(u)
    BY Zenon DEF Shape
  <2>2. Quiet(u)' => stage'[u] = "record"
    BY ZenonT(60), <1>1, <2>1 DEF ThreadShape, Quiet
  <2>3. QED
    BY Zenon, <1>1, <2>1, <2>2 DEF ThreadShape, Quiet, Recovering
<1>5. ASSUME NEW n \in Nodes PROVE ScopeShape(n)'
  <2>1. ScopeShape(n)
    BY ZenonT(60) DEF Shape
  <2>2. QED
    BY Zenon, <1>1, <2>1 DEF ScopeShape, Quiet
<1>6. ASSUME NEW l \in Leases PROVE LeaseShape(l)'
  <2>1. LeaseShape(l)
    BY Zenon DEF Shape
  <2>2. QED
    BY Zenon, <1>1, <2>1 DEF LeaseShape, Over
<1>7. QED
  BY Zenon, <1>2, <1>3, <1>4, <1>5, <1>6 DEF Shape

\* A call has returned: the thread goes on with the rest of its calls.
Ends(t, rest) ==
  /\ ~Quiet(t) /\ stage[t] = "returned"
  /\ todo' = [todo EXCEPT ![t] = rest] /\ stage' = [stage EXCEPT ![t] = "record"]
  /\ reply' = [reply EXCEPT ![t] = "none"] /\ attempt' = [attempt EXCEPT ![t] = 0]
  /\ stored' = stored /\ told' = told
  /\ live' = live /\ happened' = happened /\ sent' = sent

\* The calls that remain when one has returned.
LEMMA RestCalls ==
  ASSUME Shape, NEW t \in Threads, ~Quiet(t), NEW rest \in {<<>>, Tail(todo[t])}
  PROVE  /\ rest \in Seq(CallSet) /\ IsInjective(rest)
         /\ \A i \in DOMAIN rest : i + 1 \in DOMAIN todo[t] /\ rest[i] = todo[t][i + 1] /\ i \in Nat \ {0}
         /\ rest = Tail(todo[t]) => \A j \in DOMAIN todo[t] : j # 1 => \E i \in DOMAIN rest : rest[i] = todo[t][j]
<1>1. todo[t] \in Seq(CallSet) /\ todo[t] # <<>> /\ IsInjective(todo[t])
  BY ZenonT(90), SMTT(60) DEF Shape, Typed, Quiet, ThreadShape
<1>2. CASE rest # Tail(todo[t])
  <2>1. rest = <<>>
    BY <1>2
  <2>2. rest \in Seq(CallSet) /\ IsInjective(rest) /\ DOMAIN rest = {}
    BY <2>1 DEF IsInjective
  <2>3. QED
    BY <1>2, <2>2
<1>3. CASE rest = Tail(todo[t])
  <2>1. /\ rest \in Seq(CallSet) /\ DOMAIN rest = 1 .. Len(todo[t]) - 1 /\ Len(todo[t]) \in Nat
        /\ DOMAIN todo[t] = 1 .. Len(todo[t])
        /\ \A i \in DOMAIN rest : rest[i] = todo[t][i + 1]
    BY <1>1, <1>3
  <2>2. \A i \in DOMAIN rest : i + 1 \in DOMAIN todo[t] /\ i \in Nat \ {0}
    BY SMTT(30), <2>1
  <2>3. ASSUME NEW i \in DOMAIN rest, NEW j \in DOMAIN rest, rest[i] = rest[j] PROVE i = j
    <3>1. i + 1 = j + 1
      BY Zenon, <1>1, <2>1, <2>2, <2>3 DEF IsInjective
    <3>2. QED
      BY SMTT(30), <2>2, <3>1
  <2>4. ASSUME NEW j \in DOMAIN todo[t], j # 1 PROVE \E i \in DOMAIN rest : rest[i] = todo[t][j]
    <3>1. j - 1 \in DOMAIN rest /\ (j - 1) + 1 = j
      BY SMTT(30), Z3T(30), <2>1, <2>4
    <3>2. QED
      BY Zenon, <2>1, <3>1
  <2>5. QED
    BY <2>1, <2>2, <2>3, <2>4 DEF IsInjective
<1>4. QED
  BY Zenon, <1>2, <1>3

\* What the return of a call does.
LEMMA ReturnedEnds ==
  ASSUME Shape, NEW t \in Threads, Returned(t)
  PROVE  /\ Ends(t, IF Refusal(t) /\ pc[t] \in {"inputs", "recheck"} THEN <<>> ELSE Tail(todo[t]))
         /\ failed' = [failed EXCEPT ![t] = @ \/ Refusal(t)]
         /\ pc' = pc /\ scope' = scope /\ (t = Main \/ ~IsCredential(Current(t).f))
BY Zenon DEF Returned, Ends, At, Quiet, Advance, Stage, Answer, program, outside

\* The return of a call keeps Shape.
LEMMA ReturnedShape ==
  ASSUME Shape, NEW t \in Threads, Returned(t)
  PROVE  Shape'
<1> DEFINE stop == Refusal(t) /\ pc[t] \in {"inputs", "recheck"}
           rest == IF stop THEN <<>> ELSE Tail(todo[t])
<1>1. Ends(t, rest) /\ pc' = pc /\ scope' = scope
  BY Zenon, ReturnedEnds
<1>2. ~Quiet(t) /\ rest \in {<<>>, Tail(todo[t])}
  BY Zenon, <1>1 DEF Ends
<1> HIDE DEF rest, stop
<1>3. /\ rest \in Seq(CallSet) /\ IsInjective(rest)
      /\ \A i \in DOMAIN rest : i + 1 \in DOMAIN todo[t] /\ rest[i] = todo[t][i + 1] /\ i \in Nat \ {0}
  BY ZenonT(90), SMTT(60), <1>2, RestCalls
<1>4. /\ todo' = [todo EXCEPT ![t] = rest] /\ stage' = [stage EXCEPT ![t] = "record"] /\ stored' = stored
      /\ told' = told /\ reply' = [reply EXCEPT ![t] = "none"] /\ attempt' = [attempt EXCEPT ![t] = 0]
  BY <1>1 DEF Ends
<1>5. /\ todo \in [Threads -> Seq(CallSet)] /\ stage \in [Threads -> Stages]
      /\ reply \in [Threads -> Replies] /\ failed \in [Threads -> BOOLEAN] /\ attempt \in [Threads -> Nat]
  BY DEF Shape, Typed
<1>6. failed' \in [Threads -> BOOLEAN]
  <2>1. failed' = [failed EXCEPT ![t] = failed[t] \/ Refusal(t)]
    BY Zenon, ReturnedEnds
  <2>2. (failed[t] \/ Refusal(t)) \in BOOLEAN
    OBVIOUS
  <2>3. QED
    BY Zenon, <1>5, <2>1, <2>2
<1>7. Typed'
  <2>1. /\ todo' \in [Threads -> Seq(CallSet)] /\ stage' \in [Threads -> Stages]
        /\ reply' \in [Threads -> Replies] /\ attempt' \in [Threads -> Nat]
    BY Zenon, <1>3, <1>4, <1>5 DEF Stages, Replies
  <2>2. QED
    BY Zenon, <1>1, <1>4, <1>6, <2>1 DEF Shape, Typed
<1>8. t # Main => todo'[Main] = todo[Main] /\ failed'[Main] = failed[Main]
  BY SMTT(30), Z3T(30), <1>4, <1>5, ReturnedEnds, Threading
<1>9. pc[Main] = "running" /\ t = Main => \A n \in Nodes : pc[n] = "prepare"
  BY ZenonT(60), <1>2 DEF Shape, MainShape
<1>10. MainShape'
  BY Zenon, <1>1, <1>8, <1>9 DEF Shape, MainShape, Quiet, Over
<1>11. ASSUME NEW u \in Threads PROVE ThreadShape(u)'
  <2>1. ThreadShape(u)
    BY ZenonT(60) DEF Shape
  <2>2. CASE u # t
    <3>1. todo'[u] = todo[u] /\ stage'[u] = stage[u]
      BY ZenonT(60), <1>4, <1>5, <2>2
    <3>2. QED
      BY Zenon, <1>1, <2>1, <3>1 DEF ThreadShape, Quiet, Recovering
  <2>3. CASE u = t
    <3>1. todo'[u] = rest /\ stage'[u] = "record"
      BY ZenonT(60), <1>4, <1>5, <2>3
    <3>2. Recovering(u) => DOMAIN rest = {}
      BY SMTT(30), Z3T(30), <1>3, <2>1, <2>3 DEF ThreadShape
    <3>3. QED
      BY SMTT(30), Z3T(30), <1>1, <1>3, <2>1, <2>3, <3>1, <3>2 DEF ThreadShape, Recovering, Quiet
  <2>4. QED
    BY Zenon, <2>2, <2>3
<1>12. ASSUME NEW n \in Nodes PROVE ScopeShape(n)'
  <2>1. ScopeShape(n)
    BY Zenon DEF Shape
  <2>2. n # t => todo'[n] = todo[n]
    BY Zenon, <1>4, <1>5, Threading
  <2>3. n = t => pc[n] # "acquiring" \/ todo'[n] = <<>>
    <3> SUFFICES ASSUME n = t, pc[n] = "acquiring" PROVE FALSE
      BY Zenon
    <3>1. todo[n] = <<AcquireCall(n, scope[n].acquired + 1)>> /\ <<n, scope[n].acquired + 1>> \in Leases
      BY ZenonT(60), <1>2, <2>1 DEF ScopeShape
    <3>2. IsCredential(Current(t).f)
      <4> DEFINE l == <<n, scope[n].acquired + 1>>
      <4>1. l \in Leases /\ Current(t) = AcquireCall(l[1], l[2])
        BY SMTT(30), Z3T(30), <3>1 DEF Current
      <4>2. QED
        BY Zenon, <4>1, LeaseCalls
    <3>3. QED
      BY Zenon, <3>2, ReturnedEnds, Threading
  <2>4. QED
    BY Zenon, <1>1, <2>1, <2>2, <2>3 DEF ScopeShape, Quiet
<1>13. ASSUME NEW l \in Leases PROVE LeaseShape(l)'
  <2>1. LeaseShape(l)
    BY ZenonT(60) DEF Shape
  <2>2. QED
    BY Zenon, <1>1, <2>1 DEF LeaseShape, Over
<1>14. QED
  BY Zenon, <1>7, <1>10, <1>11, <1>12, <1>13 DEF Shape

\* What a worker that acquires asks for.
LEMMA AcquiringCall ==
  ASSUME Shape, NEW n \in Nodes, ~Quiet(n), Current(n).action = "acquire"
  PROVE  /\ pc[n] = "acquiring" /\ Current(n) = AcquireCall(n, scope[n].acquired + 1)
         /\ Lease(Current(n)) = <<n, scope[n].acquired + 1>> /\ <<n, scope[n].acquired + 1>> \in Leases
         /\ pc[<<n, scope[n].acquired + 1>>] = "none" /\ pc[Main] = "running"
         /\ scope[n].acquired \in Nat
<1> DEFINE c == Current(n)
           l == <<n, scope[n].acquired + 1>>
<1>1. ~Recovering(n) /\ n \in Threads
  BY Zenon, Threading DEF Shape, Typed, NodePlaces, Recovering
<1>2. Known(c) /\ Place(c) = pc[n] /\ c.action = "acquire"
  BY Zenon, <1>1, BusyThread
<1>3. Leased(c)
  BY ZenonT(60), <1>2, KnownCall
<1>4. pc[n] = "acquiring"
  BY Zenon, <1>2, <1>3, LeasedCall
<1>5. todo[n] = <<AcquireCall(n, scope[n].acquired + 1)>> /\ l \in Leases
  BY ZenonT(60), <1>4 DEF Shape, ScopeShape
<1>6. c = AcquireCall(l[1], l[2])
  BY SMTT(30), Z3T(30), <1>5 DEF Current
<1>7. Lease(c) = l
  BY ZenonT(90), SMTT(60), <1>5, <1>6, LeaseCalls
<1>8. pc[Main] = "running"
  BY <1>4, Working
<1>9. scope[n].acquired \in Nat
  BY DEF Shape, Typed, Scope
<1>10. pc[l] = "none"
  <2> SUFFICES ASSUME pc[l] # "none" PROVE FALSE
    BY Zenon
  <2>1. Rank(pc[Main]) <= 5
    BY SMTT(30), <1>8, Ranks
  <2>2. LeaseShape(l) /\ l[1] = n /\ l[2] = scope[n].acquired + 1
    BY Zenon, <1>5 DEF Shape
  <2>3. PICK i \in DOMAIN scope[n].leases : scope[n].leases[i] = l
    BY ZenonT(60), <2>1, <2>2 DEF LeaseShape
  <2>4. l[2] <= scope[n].acquired
    BY Zenon, <2>3 DEF Shape, ScopeShape
  <2>5. QED
    BY SMTT(30), Z3T(30), <1>9, <2>2, <2>4
<1>11. QED
  BY Zenon, <1>4, <1>5, <1>6, <1>7, <1>8, <1>9, <1>10

\* What the end of an acquisition does.
LEMMA AcquiredStep ==
  ASSUME Shape, NEW n \in Nodes, Acquired(n)
  PROVE  LET l == <<n, scope[n].acquired + 1>>
         IN  /\ Ends(n, <<>>) /\ failed' = failed /\ Current(n).action = "acquire"
             /\ Lease(Current(n)) = l
             /\ \E err, renew \in BOOLEAN :
                  /\ renew => reply[n] = "done"
                  /\ scope' = [scope EXCEPT ![n] =
                                 [acquired |-> @.acquired + 1, err |-> err, closed |-> @.closed,
                                  leases |-> IF reply[n] \in {"done", "unrecorded"}
                                             THEN Append(@.leases, l) ELSE @.leases]]
                  /\ pc' = [pc EXCEPT ![l] = IF renew THEN "timer" ELSE @]
<1>1. ~Quiet(n) /\ Current(n).action = "acquire"
  BY Zenon DEF Acquired, At, Quiet
<1>2. Lease(Current(n)) = <<n, scope[n].acquired + 1>>
  BY ZenonT(60), <1>1, AcquiringCall
<1>3. Ends(n, <<>>) /\ failed' = failed
  BY DEF Acquired, At, Advance, Stage, Answer, Ends, Quiet, Rest, outside
<1>4. PICK good \in BOOLEAN, renew \in BOOLEAN :
        /\ renew => reply[n] = "done"
        /\ scope' = [scope EXCEPT ![n] =
                       [acquired |-> @.acquired + 1, err |-> ~good \/ @.err, closed |-> @.closed,
                        leases |-> IF reply[n] \in {"done", "unrecorded"}
                                   THEN Append(@.leases, Lease(Current(n))) ELSE @.leases]]
        /\ pc' = [pc EXCEPT ![Lease(Current(n))] = IF renew THEN "timer" ELSE @]
  BY Zenon DEF Acquired
<1>5. (~good \/ scope[n].err) \in BOOLEAN
  BY Zenon
<1>6. QED
  BY ZenonT(60), <1>1, <1>2, <1>3, <1>4, <1>5

\* A sequence with one more element.
LEMMA Appended ==
  ASSUME NEW S, NEW s \in Seq(S), NEW e \in S
  PROVE  /\ Append(s, e) \in Seq(S)
         /\ \A i \in DOMAIN s : i \in DOMAIN Append(s, e) /\ Append(s, e)[i] = s[i]
         /\ \A i \in DOMAIN Append(s, e) : (i \in DOMAIN s /\ Append(s, e)[i] = s[i])
                                          \/ (i = Len(s) + 1 /\ Append(s, e)[i] = e)
         /\ Len(s) + 1 \in DOMAIN Append(s, e) /\ Append(s, e)[Len(s) + 1] = e
BY SMTT(30)

\* A new element at the end leaves the elements of a sequence distinct.
LEMMA AppendedInjective ==
  ASSUME NEW S, NEW s \in Seq(S), NEW e \in S, IsInjective(s), \A i \in DOMAIN s : s[i] # e
  PROVE  IsInjective(Append(s, e))
<1>1. ASSUME NEW i \in DOMAIN Append(s, e), NEW j \in DOMAIN Append(s, e),
             Append(s, e)[i] = Append(s, e)[j]
      PROVE  i = j
  <2>1. (i \in DOMAIN s /\ Append(s, e)[i] = s[i]) \/ (i = Len(s) + 1 /\ Append(s, e)[i] = e)
    BY ZenonT(60), Appended
  <2>2. (j \in DOMAIN s /\ Append(s, e)[j] = s[j]) \/ (j = Len(s) + 1 /\ Append(s, e)[j] = e)
    BY ZenonT(60), Appended
  <2>3. QED
    BY ZenonT(60), <1>1, <2>1, <2>2 DEF IsInjective
<1>2. QED
  BY Zenon, <1>1 DEF IsInjective

\* The end of an acquisition keeps Shape.
LEMMA AcquiredShape ==
  ASSUME Shape, NEW n \in Nodes, Acquired(n)
  PROVE  Shape'
<1> DEFINE a == scope[n].acquired
           l == <<n, a + 1>>
           ls == scope[n].leases
<1>1. /\ pc[n] = "acquiring" /\ l \in Leases /\ pc[l] = "none" /\ pc[Main] = "running" /\ a \in Nat
      /\ Ends(n, <<>>) /\ failed' = failed
  <2>1. ~Quiet(n) /\ Current(n).action = "acquire"
    BY DEF Acquired, At, Quiet
  <2>2. QED
    BY Zenon, <2>1, AcquiringCall, AcquiredStep
<1>2. PICK err \in BOOLEAN, renew \in BOOLEAN :
        /\ renew => reply[n] = "done"
        /\ scope' = [scope EXCEPT ![n] =
                       [acquired |-> @.acquired + 1, err |-> err, closed |-> @.closed,
                        leases |-> IF reply[n] \in {"done", "unrecorded"}
                                   THEN Append(@.leases, l) ELSE @.leases]]
        /\ pc' = [pc EXCEPT ![l] = IF renew THEN "timer" ELSE @]
  BY Zenon, AcquiredStep
<1>3. /\ todo \in [Threads -> Seq(CallSet)] /\ stage \in [Threads -> Stages]
      /\ reply \in [Threads -> Replies] /\ attempt \in [Threads -> Nat]
      /\ pc \in [Threads -> NodePlaces \cup MainPlaces \cup LeasePlaces]
      /\ scope \in [Nodes -> Scope] /\ scope[n] \in Scope /\ ls \in Seq(Leases)
  BY Zenon DEF Shape, Typed, Scope
<1>4. /\ n \in Threads /\ l \in Threads /\ Main \in Threads /\ l # Main /\ l \notin Nodes /\ l # n /\ n # Main
  BY Zenon, <1>1, Threading
<1>5. /\ todo' = [todo EXCEPT ![n] = <<>>] /\ stage' = [stage EXCEPT ![n] = "record"] /\ stored' = stored
      /\ told' = told /\ reply' = [reply EXCEPT ![n] = "none"] /\ attempt' = [attempt EXCEPT ![n] = 0]
  BY Zenon, <1>1 DEF Ends
<1>6. pc'[l] \in {"none", "timer"} /\ (\A u \in Threads \ {l} : pc'[u] = pc[u])
      /\ (pc'[l] = "timer" => reply[n] = "done")
  BY ZenonT(60), <1>1, <1>2, <1>3, <1>4
<1>7. /\ scope' \in [Nodes -> Scope] /\ scope'[n].acquired = a + 1 /\ scope'[n].closed = scope[n].closed
      /\ scope'[n].leases = IF reply[n] \in {"done", "unrecorded"} THEN Append(ls, l) ELSE ls
      /\ \A m \in Nodes \ {n} : scope'[m] = scope[m]
  <2> DEFINE new == [acquired |-> a + 1, err |-> err, closed |-> scope[n].closed,
                     leases |-> IF reply[n] \in {"done", "unrecorded"} THEN Append(ls, l) ELSE ls]
  <2>1. scope' = [scope EXCEPT ![n] = new]
    BY ZenonT(60), <1>2
  <2>2. new.leases \in Seq(Leases)
    BY SMTT(30), Z3T(30), <1>1, <1>3
  <2>3. new \in Scope
    BY SMTT(30), Z3T(30), <1>1, <1>3, <2>2 DEF Scope
  <2>4. scope'[n] = new
    BY Zenon, <1>3, <2>1
  <2>5. scope' \in [Nodes -> Scope] /\ \A m \in Nodes \ {n} : scope'[m] = scope[m]
    <3> HIDE DEF new
    <3>1. QED
      BY Zenon, <1>3, <2>1, <2>3
  <2>6. QED
    BY SMTT(30), Z3T(30), <2>4, <2>5
<1>8. Typed'
  <2>0. todo' \in [Threads -> Seq(CallSet)]
    <3>1. <<>> \in Seq(CallSet)
      BY SMTT(30)
    <3>2. QED
      BY Zenon, <1>3, <1>5, <3>1
  <2>1. /\ stage' \in [Threads -> Stages]
        /\ reply' \in [Threads -> Replies] /\ attempt' \in [Threads -> Nat]
    BY Zenon, <1>3, <1>5 DEF Stages, Replies
  <2>2. pc' \in [Threads -> NodePlaces \cup MainPlaces \cup LeasePlaces] /\ pc'[l] \in LeasePlaces
    BY Zenon, <1>2, <1>3, <1>6 DEF LeasePlaces
  <2>3. /\ \A m \in Nodes : pc'[m] \in NodePlaces
        /\ \A m \in Leases : pc'[m] \in LeasePlaces
        /\ pc'[Main] \in MainPlaces
    BY ZenonT(60), <1>4, <1>6, <2>2, Threading DEF Shape, Typed
  <2>4. QED
    BY ZenonT(60), <1>1, <1>5, <1>7, <2>0, <2>1, <2>2, <2>3 DEF Shape, Typed
<1>9. MainShape'
  <2>1. /\ \A m \in Nodes : pc'[m] = pc[m]
        /\ pc'[Main] = "running" /\ pc[Main] = "running" /\ failed' = failed /\ todo'[Main] = todo[Main]
    BY ZenonT(60), <1>1, <1>3, <1>4, <1>5, <1>6, Threading
  <2>2. Rank("running") = 2
    BY Zenon, Ranks
  <2>3. QED
    BY SMTT(30), <2>1, <2>2 DEF Shape, MainShape, Quiet
<1>10. ASSUME NEW u \in Threads PROVE ThreadShape(u)'
  <2>1. ThreadShape(u)
    BY Zenon DEF Shape
  <2>2. CASE u = n
    <3>1. todo'[u] = <<>> /\ stage'[u] = "record"
      BY Zenon, <1>3, <1>5, <2>2
    <3>2. QED
      BY SMTT(30), <3>1 DEF ThreadShape, Quiet, IsInjective
  <2>3. CASE u = l
    <3>1. todo'[u] = <<>> /\ stage'[u] = stage[u] /\ Quiet(u)
      <4>1. Quiet(u)
        BY ZenonT(60), <1>1, <2>3, QuietPlace
      <4>2. QED
        BY Zenon, <1>3, <1>4, <1>5, <2>3, <4>1 DEF Quiet
    <3>2. QED
      BY SMTT(30), Z3T(30), <2>1, <3>1 DEF ThreadShape, Quiet, IsInjective
  <2>4. CASE u \notin {n, l}
    <3>1. todo'[u] = todo[u] /\ stage'[u] = stage[u] /\ pc'[u] = pc[u]
      BY ZenonT(60), <1>3, <1>5, <1>6, <2>4
    <3>2. QED
      BY ZenonT(30), <2>1, <3>1 DEF ThreadShape, Quiet, Recovering
  <2>5. QED
    BY Zenon, <2>2, <2>3, <2>4
<1>11. pc'[Main] = pc[Main] /\ Rank(pc[Main]) = 2
  BY Zenon, <1>1, <1>4, <1>6, Ranks
<1>12. ASSUME NEW m \in Nodes PROVE ScopeShape(m)'
  <2>1. ScopeShape(m) /\ m \in Threads /\ m # l
    BY Zenon, <1>4, Threading DEF Shape
  <2>2. CASE m # n
    <3>1. todo'[m] = todo[m] /\ pc'[m] = pc[m] /\ scope'[m] = scope[m]
      BY Zenon, <1>3, <1>5, <1>6, <1>7, <2>1, <2>2
    <3>2. QED
      BY ZenonT(60), <1>11, <2>1, <3>1 DEF ScopeShape, Quiet
  <2>3. CASE m = n
    <3>1. ls' = ls \/ ls' = Append(ls, l)
      BY ZenonT(60), <1>7
    <3>2. \A i \in DOMAIN ls' : ls'[i] = l \/ (i \in DOMAIN ls /\ ls'[i] = ls[i])
      <4> HIDE DEF ls, l
      <4>1. QED
        BY SMTT(60), Z3T(60), <1>1, <1>3, <3>1, Appended
    <3>3. \A i \in DOMAIN ls : ls[i][1] = n /\ ls[i][2] <= a /\ ls[i] # l /\ ls[i][2] \in Nat
      <4>1. ASSUME NEW i \in DOMAIN ls PROVE ls[i][1] = n /\ ls[i][2] <= a /\ ls[i] # l /\ ls[i][2] \in Nat
        <5>1. ls[i][1] = n /\ ls[i][2] <= a /\ ls[i] \in Leases
          BY SMTT(30), Z3T(30), <1>3, <2>1, <2>3 DEF ScopeShape
        <5>2. ls[i][2] \in Nat
          BY Zenon, <5>1, LeaseForm
        <5>3. QED
          BY SMTT(30), Z3T(30), <1>1, <5>1, <5>2
      <4>2. QED
        BY ZenonT(60), <4>1
    <3>4. ASSUME NEW i \in DOMAIN ls' PROVE ls'[i][1] = n /\ ls'[i][2] <= a + 1
      <4> HIDE DEF ls
      <4>1. CASE ls'[i] = l
        BY SMTT(30), Z3T(30), <1>1, <4>1
      <4>2. CASE i \in DOMAIN ls /\ ls'[i] = ls[i]
        <5>1. ls[i][1] = n /\ ls[i][2] <= a /\ ls[i][2] \in Nat
          BY Zenon, <3>3, <4>2
        <5>2. QED
          BY SMTT(30), Z3T(30), <1>1, <4>2, <5>1
      <4>3. QED
        BY ZenonT(60), <3>2, <4>1, <4>2
    <3>5. IsInjective(ls')
      <4>1. IsInjective(ls)
        BY Zenon, <2>1, <2>3 DEF ScopeShape
      <4>2. ls \in Seq(Leases) /\ l \in Leases /\ \A i \in DOMAIN ls : ls[i] # l
        BY Zenon, <1>1, <1>3, <3>3
      <4> HIDE DEF ls, l
      <4>3. IsInjective(Append(ls, l))
        BY Zenon, <4>1, <4>2, AppendedInjective
      <4>4. QED
        BY Zenon, <3>1, <4>1, <4>3
    <3>6. todo'[n] = <<>> /\ pc'[n] = "acquiring" /\ ~scope[n].closed
      <4>1. todo'[n] = <<>> /\ pc'[n] = "acquiring"
        BY Zenon, <1>1, <1>3, <1>4, <1>5, <1>6
      <4>2. scope[n].closed => Rank(pc[Main]) >= 4
        BY ZenonT(60), <2>1, <2>3 DEF ScopeShape
      <4>3. ~(Rank(pc[Main]) >= 4)
        BY SMTT(30), <1>11
      <4>4. QED
        BY Zenon, <4>1, <4>2, <4>3
    <3>7. QED
      BY Zenon, <1>7, <2>3, <3>4, <3>5, <3>6 DEF ScopeShape, Quiet
  <2>4. QED
    BY Zenon, <2>2, <2>3
<1>13. ASSUME NEW m \in Leases PROVE LeaseShape(m)'
  <2>1. LeaseShape(m) /\ m[1] \in Nodes /\ m \in Threads
    BY Zenon, Threading DEF Shape
  <2>2. scope'[m[1]].closed = scope[m[1]].closed
    BY ZenonT(60), <1>7, <2>1
  <2>3. ~scope[m[1]].closed
    <3>1. ScopeShape(m[1])
      BY Zenon, <2>1 DEF Shape
    <3>2. QED
      BY SMTT(30), Z3T(30), <1>11, <3>1 DEF ScopeShape
  <2>4. ASSUME NEW i \in DOMAIN scope[m[1]].leases
        PROVE  i \in DOMAIN scope'[m[1]].leases /\ scope'[m[1]].leases[i] = scope[m[1]].leases[i]
    <3>1. m[1] = n => scope'[m[1]].leases \in {ls, Append(ls, l)}
      BY ZenonT(60), <1>7
    <3>2. m[1] # n => scope'[m[1]] = scope[m[1]]
      BY Zenon, <1>7, <2>1
    <3>3. m[1] = n => i \in DOMAIN ls
      BY Zenon, <2>4
    <3> HIDE DEF ls, l
    <3>4. \A j \in DOMAIN ls : j \in DOMAIN Append(ls, l) /\ Append(ls, l)[j] = ls[j]
      BY SMTT(30), Z3T(30), <1>1, <1>3, Appended
    <3>5. m[1] = n => scope[m[1]].leases = ls
      BY Zenon DEF ls
    <3>6. QED
      BY Zenon, <2>4, <3>1, <3>2, <3>3, <3>4, <3>5
  <2>5. CASE m # l
    <3>1. pc'[m] = pc[m]
      BY Zenon, <1>6, <2>1, <2>5
    <3>2. QED
      BY Zenon, <1>11, <2>1, <2>2, <2>3, <2>4, <3>1 DEF LeaseShape
  <2>6. CASE m = l
    <3>1. m[1] = n
      BY Zenon, <2>6
    <3>2. pc'[m] # "none" => scope'[n].leases = Append(ls, l)
      BY Zenon, <1>6, <1>7, <2>6
    <3>3. pc'[m] # "none" => \E i \in DOMAIN scope'[n].leases : scope'[n].leases[i] = l
      <4>1. Len(ls) + 1 \in DOMAIN Append(ls, l) /\ Append(ls, l)[Len(ls) + 1] = l
        BY SMTT(60), Z3T(60), <1>3, <1>1
      <4>2. QED
        BY ZenonT(60), <3>2, <4>1
    <3>4. QED
      BY ZenonT(60), <2>2, <2>3, <2>6, <3>1, <3>3 DEF LeaseShape
  <2>7. QED
    BY Zenon, <2>5, <2>6
<1>14. QED
  BY Zenon, <1>8, <1>9, <1>10, <1>12, <1>13 DEF Shape

\* A thread goes from one place to the next with the calls of that place.
Move(t, from, to, cs) ==
  /\ Quiet(t) /\ pc[t] = from /\ pc' = [pc EXCEPT ![t] = to] /\ todo' = [todo EXCEPT ![t] = cs]
  /\ Batch(t, to, cs)
  /\ stage' = stage /\ reply' = reply /\ attempt' = attempt
  /\ failed' \in [Threads -> BOOLEAN] /\ (\A u \in Threads \ {t} : failed'[u] = failed[u])
  /\ DOMAIN stored' = {"calls", "status"} /\ stored'.calls = stored.calls
  /\ live' = live /\ happened' = happened /\ sent' = sent /\ told' = told

NodeMove(n, from, to, cs) ==
  /\ Move(n, from, to, cs) /\ scope' = scope
  /\ to \in NodePlaces \ {"prepare"} /\ Rank(from) < Rank(to)
  /\ pc[Main] = "running" /\ Quiet(Main) /\ ~failed[Main]
  /\ to = "inputs" => from = "prepare"
  /\ to = "acquiring" => cs = <<>>
  /\ to = "recheck" => cs = RecheckPlan(n)
  /\ to = "admit" => from = "recheck" /\ ~failed[n]
  /\ to = "apply_start" => from = "admit"
  /\ to = "apply" => from = "apply_start"

\* No calls are calls of any thread.
LEMMA NoCalls == \A t, p : Batch(t, p, <<>>)
BY DEF Batch, IsInjective

\* What steps and journal writes leave alone.
LEMMA StepMove ==
  ASSUME Shape, NEW t \in Threads, NEW from, NEW to, NEW cs, Step(t, from, to, cs), Batch(t, to, cs),
         stored' = stored, live' = live, happened' = happened, sent' = sent, told' = told
  PROVE  Move(t, from, to, cs)
<1>1. /\ failed \in [Threads -> BOOLEAN] /\ DOMAIN stored = {"calls", "status"}
  BY Zenon DEF Shape, Typed
<1>2. /\ Quiet(t) /\ pc[t] = from /\ pc' = [pc EXCEPT ![t] = to] /\ todo' = [todo EXCEPT ![t] = cs]
      /\ stage' = stage /\ reply' = reply /\ attempt' = attempt /\ failed' = [failed EXCEPT ![t] = FALSE]
  BY Zenon DEF Step, Goto, Begin
<1>3. QED
  BY <1>1, <1>2 DEF Move

\* A step to a place without calls.
LEMMA SilentMove ==
  ASSUME Shape, NEW t \in Threads, NEW to, Quiet(t), pc' = [pc EXCEPT ![t] = to],
         todo' = todo, stage' = stage, reply' = reply, attempt' = attempt, failed' = failed,
         stored' = stored, live' = live, happened' = happened, sent' = sent, told' = told
  PROVE  Move(t, pc[t], to, <<>>)
<1>1. /\ failed \in [Threads -> BOOLEAN] /\ DOMAIN stored = {"calls", "status"}
      /\ todo \in [Threads -> Seq(CallSet)] /\ todo[t] = <<>>
  BY Zenon DEF Shape, Typed, Quiet
<1>2. todo' = [todo EXCEPT ![t] = <<>>]
  BY Zenon, <1>1
<1>3. QED
  BY ZenonT(60), <1>1, <1>2, NoCalls DEF Move

\* The journal of the nodes leaves the plugin calls alone.
LEMMA Journaling == Journaled \/ JournalError => stored' = stored
BY Zenon DEF Journaled, JournalError, Published, PublishError

\* The steps of a node.
LEMMA WorkMoves ==
  ASSUME Shape, NEW n \in Nodes, Work(n)
  PROVE  \/ AcquireNext(n) \/ Acquired(n)
         \/ \E from, to, cs : NodeMove(n, from, to, cs)
<1> DEFINE Goal == \E from, to, cs : NodeMove(n, from, to, cs)
<1>0. n \in Threads
  BY Zenon, Threading
<1>1. pc[n] \notin {"prepare", "done"} => pc[Main] = "running" /\ Quiet(Main) /\ ~failed[Main]
  BY Zenon, Working
<1> USE <1>0
<1>2. CASE Prepare(n)
  <2> DEFINE cs == [i \in DOMAIN Inputs[n] |-> Call("input.resolve", n, <<i, 0>>, Inputs[n][i], "resolve")]
  <2>1. Batch(n, "inputs", cs)
    BY Zenon, InputBatch
  <2>2. /\ Step(n, "prepare", "inputs", cs) /\ pc[Main] = "running" /\ Quiet(Main) /\ ~failed[Main]
        /\ scope' = scope /\ stored' = stored /\ live' = live /\ happened' = happened /\ sent' = sent
        /\ told' = told
    BY ZenonT(60), <1>2 DEF Prepare, Rest, outside
  <2> HIDE DEF cs
  <2>3. NodeMove(n, "prepare", "inputs", cs)
    BY SMTT(30), Z3T(30), <2>1, <2>2, StepMove, Ranks DEF NodeMove, NodePlaces
  <2>4. QED
    BY Zenon, <2>3
<1>3. ASSUME NEW from, NEW to, NEW cs, Step(n, from, to, cs), Batch(n, to, cs),
             UNCHANGED <<scope, Rest>>, from \notin {"prepare", "done"},
             to \in NodePlaces \ {"prepare", "inputs", "acquiring"}, Rank(from) < Rank(to),
             to = "recheck" => cs = RecheckPlan(n), to = "admit" => from = "recheck" /\ ~failed[n],
             to # "apply_start", to = "apply" => from = "apply_start"
      PROVE  Goal
  <2>1. /\ scope' = scope /\ stored' = stored /\ live' = live /\ happened' = happened
        /\ sent' = sent /\ told' = told
    BY Zenon, <1>3 DEF Rest, outside
  <2>2. pc[n] = from
    BY Zenon, <1>3 DEF Step, Goto
  <2>3. Move(n, from, to, cs)
    BY Zenon, <1>3, <2>1, StepMove
  <2>4. NodeMove(n, from, to, cs)
    BY ZenonT(60), <1>1, <1>3, <2>1, <2>2, <2>3 DEF NodeMove
  <2>5. QED
    BY Zenon, <2>4
<1>4. ASSUME NEW to, Quiet(n), pc' = [pc EXCEPT ![n] = to], UNCHANGED <<calling, scope, told, outside>>,
             stored' = stored, pc[n] \notin {"prepare", "done"},
             to \in NodePlaces \ {"prepare", "inputs"}, Rank(pc[n]) < Rank(to),
             to \notin {"recheck", "admit", "apply"}, to = "apply_start" => pc[n] = "admit"
      PROVE  Goal
  <2>1. /\ scope' = scope /\ live' = live /\ happened' = happened
        /\ sent' = sent /\ told' = told /\ todo' = todo /\ stage' = stage /\ reply' = reply
        /\ attempt' = attempt /\ failed' = failed
    BY Zenon, <1>4 DEF calling, outside
  <2>2. Move(n, pc[n], to, <<>>)
    BY ZenonT(60), <1>4, <2>1, SilentMove
  <2>3. NodeMove(n, pc[n], to, <<>>)
    BY Zenon, <1>1, <1>4, <2>1, <2>2 DEF NodeMove
  <2>4. QED
    BY Zenon, <2>3
<1>5. ASSUME Quiet(n), GiveUp(n), UNCHANGED <<calling, scope, told, outside>>, stored' = stored,
             pc[n] \in NodePlaces \ {"prepare", "done"}
      PROVE  Goal
  <2>1. Rank(pc[n]) < Rank("done")
    BY SMTT(30), Z3T(30), <1>5, Ranks DEF NodePlaces
  <2>2. "done" \in NodePlaces \ {"prepare", "inputs"}
    BY Zenon DEF NodePlaces
  <2>3. pc' = [pc EXCEPT ![n] = "done"]
    BY Zenon, <1>5 DEF GiveUp
  <2>4. QED
    BY ZenonT(60), <1>4, <1>5, <2>1, <2>2, <2>3
<1>6. CASE RecordInitializing(n)
  <2>1. /\ Quiet(n) /\ UNCHANGED <<calling, scope, told, outside>> /\ pc[n] = "inputs" /\ stored' = stored
        /\ GiveUp(n) \/ pc' = [pc EXCEPT ![n] = "acquiring"]
    BY Zenon, <1>6, Journaling DEF RecordInitializing, Goto
  <2>2. Rank("inputs") < Rank("acquiring") /\ "acquiring" \in NodePlaces \ {"prepare", "inputs"}
    BY SMTT(30), Z3T(30), Ranks DEF NodePlaces
  <2>3. pc[n] \in NodePlaces \ {"prepare", "done"}
    BY Zenon, <2>1 DEF NodePlaces
  <2>4. CASE GiveUp(n)
    BY Zenon, <1>5, <2>1, <2>3, <2>4
  <2>5. CASE pc' = [pc EXCEPT ![n] = "acquiring"]
    BY ZenonT(60), <1>4, <2>1, <2>2, <2>5
  <2>6. QED
    BY Zenon, <2>1, <2>4, <2>5
<1>7. CASE Ready(n)
  <2>1. Step(n, "acquiring", "init_before", Emit("node.init.before", n)) /\ UNCHANGED <<scope, Rest>>
    BY Zenon, <1>7 DEF Ready
  <2>2. QED
    BY SMTT(30), Z3T(30), <1>3, <2>1, EmitBatch, Ranks DEF NodePlaces
<1>8. CASE InitStart(n)
  <2>1. Step(n, "init_before", "init", <<>>) /\ UNCHANGED <<scope, Rest>>
    BY ZenonT(60), <1>8 DEF InitStart
  <2>2. QED
    BY SMTT(30), Z3T(30), <1>3, <2>1, NoCalls, Ranks DEF NodePlaces
<1>9. CASE InitReturns(n)
  <2>1. Step(n, "init", "init_after", Emit("node.init.after", n)) /\ UNCHANGED <<scope, Rest>>
    BY ZenonT(60), <1>9 DEF InitReturns
  <2>2. QED
    BY SMTT(30), Z3T(30), <1>3, <2>1, EmitBatch, Ranks DEF NodePlaces
<1>10. CASE PlanReady(n)
  <2>1. Step(n, "init_after", "plan_ready", Emit("node.plan.ready", n)) /\ UNCHANGED <<scope, Rest>>
    BY Zenon, <1>10 DEF PlanReady
  <2>2. QED
    BY SMTT(30), Z3T(30), <1>3, <2>1, EmitBatch, Ranks DEF NodePlaces
<1>11. CASE Approve(n)
  <2>1. Step(n, "plan_ready", "recheck", RecheckPlan(n)) /\ UNCHANGED <<scope, Rest>>
    BY Zenon, <1>11 DEF Approve
  <2>2. Batch(n, "recheck", RecheckPlan(n))
    BY ZenonT(60), RecheckBatch
  <2>3. QED
    BY SMTT(30), Z3T(30), <1>3, <2>1, <2>2, Ranks DEF NodePlaces
<1>12. CASE Admit(n)
  <2>1. /\ Step(n, "recheck", "admit", Emit("node.mutation.admit", n)) /\ UNCHANGED <<scope, Rest>>
        /\ ~failed[n]
    BY Zenon, <1>12 DEF Admit
  <2>2. QED
    BY SMTT(30), Z3T(30), <1>3, <2>1, EmitBatch, Ranks DEF NodePlaces
<1>13. CASE RecordApplying(n)
  <2>1. /\ Quiet(n) /\ UNCHANGED <<calling, scope, told, outside>> /\ pc[n] = "admit" /\ stored' = stored
        /\ GiveUp(n) \/ pc' = [pc EXCEPT ![n] = "apply_start"]
    BY Zenon, <1>13, Journaling DEF RecordApplying, Goto
  <2>2. Rank("admit") < Rank("apply_start") /\ "apply_start" \in NodePlaces \ {"prepare", "inputs"}
    BY SMTT(30), Ranks DEF NodePlaces
  <2>3. pc[n] \in NodePlaces \ {"prepare", "done"}
    BY Zenon, <2>1 DEF NodePlaces
  <2>4. CASE GiveUp(n)
    BY Zenon, <1>5, <2>1, <2>3, <2>4
  <2>5. CASE pc' = [pc EXCEPT ![n] = "apply_start"]
    BY ZenonT(60), <1>4, <2>1, <2>2, <2>5
  <2>6. QED
    BY Zenon, <2>1, <2>4, <2>5
<1>14. CASE ApplyStart(n)
  <2>1. Step(n, "apply_start", "apply", <<>>) /\ UNCHANGED <<scope, Rest>>
    BY Zenon, <1>14 DEF ApplyStart
  <2>2. QED
    BY SMTT(30), Z3T(30), <1>3, <2>1, NoCalls, Ranks DEF NodePlaces
<1>15. CASE ApplyReturns(n)
  <2>1. /\ pc[n] = "apply" /\ stored' = stored /\ UNCHANGED <<session, scope, told, outside, crashes, recoveries>>
    BY Zenon, <1>15, Journaling DEF ApplyReturns
  <2>2. Quiet(n)
    BY Zenon, <2>1, QuietPlace
  <2>3. pc[n] \in NodePlaces \ {"prepare", "done"}
    BY Zenon, <2>1 DEF NodePlaces
  <2>4. CASE GiveUp(n) /\ UNCHANGED calling
    BY Zenon, <1>5, <2>1, <2>2, <2>3, <2>4
  <2>5. CASE Goto(n, "apply", "mutation_finished") /\ Begin(n, Emit("node.mutation.finished", n))
    <3>1. Step(n, "apply", "mutation_finished", Emit("node.mutation.finished", n))
      BY Zenon, <2>2, <2>5 DEF Step
    <3>2. Batch(n, "mutation_finished", Emit("node.mutation.finished", n))
      BY Zenon, EmitBatch
    <3>3. /\ live' = live /\ happened' = happened /\ sent' = sent /\ told' = told /\ scope' = scope
      BY Zenon, <2>1 DEF outside
    <3>4. Move(n, "apply", "mutation_finished", Emit("node.mutation.finished", n))
      BY ZenonT(60), <2>1, <3>1, <3>2, <3>3, StepMove
    <3>5. NodeMove(n, "apply", "mutation_finished", Emit("node.mutation.finished", n))
      BY SMTT(30), Z3T(30), <1>1, <2>1, <3>3, <3>4, Ranks DEF NodeMove, NodePlaces
    <3>6. QED
      BY Zenon, <3>5
  <2>6. QED
    BY Zenon, <1>15, <2>4, <2>5 DEF ApplyReturns
<1>16. CASE Finished(n)
  <2>1. /\ Quiet(n) /\ pc[n] = "mutation_finished" /\ pc' = [pc EXCEPT ![n] = "done"]
        /\ UNCHANGED <<calling, scope, told, outside>> /\ stored' = stored
    BY ZenonT(60), <1>16 DEF Finished, Goto, Rest
  <2>2. Rank(pc[n]) < Rank("done") /\ "done" \in NodePlaces \ {"prepare", "inputs"}
    BY SMTT(30), Z3T(30), <2>1, Ranks DEF NodePlaces
  <2>3. QED
    BY Zenon, <1>4, <2>1, <2>2
<1>17. CASE Refused(n)
  <2>1. /\ Quiet(n) /\ GiveUp(n) /\ UNCHANGED <<calling, scope, told, outside>> /\ stored' = stored
    <3>1. Quiet(n) /\ GiveUp(n) /\ UNCHANGED <<calling, scope, Rest>>
      BY ZenonT(60), <1>17 DEF Refused
    <3>2. QED
      BY Zenon, <3>1 DEF Rest
  <2>2. pc[n] \in {"inputs", "init", "init_after", "plan_ready", "init_before", "recheck", "admit",
                   "acquiring", "apply_start"}
    BY Zenon, <1>17 DEF Refused
  <2>3. pc[n] \in NodePlaces \ {"prepare", "done"}
    BY Zenon, <2>2 DEF NodePlaces
  <2>4. QED
    BY Zenon, <1>5, <2>1, <2>3
<1>18. QED
  BY ZenonT(60), <1>2, <1>6, <1>7, <1>8, <1>9, <1>10, <1>11, <1>12, <1>13, <1>14, <1>15, <1>16, <1>17 DEF Work

\* What a move does to the threads.
Moved(t, to, cs) ==
  /\ pc'[t] = to /\ todo'[t] = cs /\ stage'[t] = "record"
  /\ \A u \in Threads \ {t} : /\ pc'[u] = pc[u] /\ todo'[u] = todo[u] /\ failed'[u] = failed[u]
                              /\ stage'[u] = stage[u]
  /\ todo' \in [Threads -> Seq(CallSet)] /\ stage' \in [Threads -> Stages]
  /\ reply' \in [Threads -> Replies] /\ failed' \in [Threads -> BOOLEAN]
  /\ attempt' \in [Threads -> Nat] /\ DOMAIN stored' = {"calls", "status"}
  /\ to # "recovering" => \A u \in Threads : ThreadShape(u)'

\* What a step of one thread to its next place does to all threads.
LEMMA MoveThreads ==
  ASSUME Shape, NEW t \in Threads, NEW from, NEW to, NEW cs, Move(t, from, to, cs)
  PROVE  Moved(t, to, cs)
<1>1. /\ todo \in [Threads -> Seq(CallSet)] /\ stage \in [Threads -> Stages]
      /\ reply \in [Threads -> Replies] /\ failed \in [Threads -> BOOLEAN]
      /\ attempt \in [Threads -> Nat]
      /\ pc \in [Threads -> NodePlaces \cup MainPlaces \cup LeasePlaces]
  BY Zenon DEF Shape, Typed
<1>2. /\ Quiet(t) /\ pc' = [pc EXCEPT ![t] = to] /\ todo' = [todo EXCEPT ![t] = cs]
      /\ Batch(t, to, cs)
      /\ stage' = stage /\ reply' = reply /\ attempt' = attempt
      /\ failed' \in [Threads -> BOOLEAN] /\ (\A u \in Threads \ {t} : failed'[u] = failed[u])
      /\ DOMAIN stored' = {"calls", "status"}
  BY Zenon DEF Move
<1>3. cs \in Seq(CallSet) /\ IsInjective(cs)
      /\ \A i \in DOMAIN cs : Known(cs[i]) /\ Owner(cs[i]) = t /\ Place(cs[i]) = to
  BY Zenon, <1>2 DEF Batch
<1>4. pc'[t] = to /\ todo'[t] = cs
      /\ \A u \in Threads \ {t} : pc'[u] = pc[u] /\ todo'[u] = todo[u] /\ stage'[u] = stage[u]
  BY Zenon, <1>1, <1>2
<1>5. stage'[t] = "record"
  BY ZenonT(60), <1>2 DEF Shape, ThreadShape
<1>6. todo' \in [Threads -> Seq(CallSet)]
  BY Zenon, <1>1, <1>2, <1>3
<1>7. ASSUME to # "recovering", NEW u \in Threads PROVE ThreadShape(u)'
  <2>1. ThreadShape(u)
    BY Zenon DEF Shape
  <2>2. CASE u # t
    <3>1. pc'[u] = pc[u] /\ todo'[u] = todo[u] /\ stage'[u] = stage[u]
      BY Zenon, <1>4, <2>2
    <3>2. QED
      BY Zenon, <2>1, <3>1 DEF ThreadShape, Quiet, Recovering
  <2>3. CASE u = t
    <3>1. ~Recovering(u)'
      BY Zenon, <1>4, <1>7, <2>3 DEF Recovering
    <3>2. QED
      BY ZenonT(60), <1>3, <1>4, <1>5, <2>3, <3>1 DEF ThreadShape, Quiet
  <2>4. QED
    BY Zenon, <2>2, <2>3
<1>8. QED
  BY ZenonT(60), <1>1, <1>2, <1>4, <1>5, <1>6, <1>7 DEF Moved

\* A node going on keeps Shape.
LEMMA NodeMoveShape ==
  ASSUME Shape, NEW n \in Nodes, NEW from, NEW to, NEW cs, NodeMove(n, from, to, cs)
  PROVE  Shape'
<1>0. n \in Threads /\ n # Main /\ Main \in Threads
  BY Zenon, Threading
<1>1. /\ Move(n, from, to, cs) /\ scope' = scope /\ to \in NodePlaces \ {"prepare"}
      /\ pc[Main] = "running" /\ Quiet(Main) /\ ~failed[Main] /\ pc[n] = from
      /\ (to = "inputs" => from = "prepare") /\ (to = "acquiring" => cs = <<>>)
  BY Zenon DEF NodeMove, Move
<1>m. Moved(n, to, cs)
  BY Zenon, <1>0, <1>1, MoveThreads
<1>2. /\ pc'[n] = to /\ todo'[n] = cs
      /\ \A u \in Threads \ {n} : pc'[u] = pc[u] /\ todo'[u] = todo[u] /\ failed'[u] = failed[u]
  BY Zenon, <1>m DEF Moved
<1>3. pc'[Main] = "running" /\ todo'[Main] = <<>> /\ ~failed'[Main] /\ Rank("running") = 2
  BY Zenon, <1>0, <1>1, <1>2, Ranks DEF Quiet
<1>4. Typed'
  <2>1. \A m \in Nodes : pc'[m] \in NodePlaces
    BY ZenonT(60), <1>1, <1>2, Threading DEF Shape, Typed
  <2>2. \A l \in Leases : pc'[l] = pc[l] /\ pc[l] \in LeasePlaces
    BY Zenon, <1>2, Threading DEF Shape, Typed
  <2>3. pc' \in [Threads -> NodePlaces \cup MainPlaces \cup LeasePlaces]
    <3>1. pc' = [pc EXCEPT ![n] = to]
      BY ZenonT(60), <1>1 DEF Move
    <3>2. QED
      BY Zenon, <1>1, <3>1 DEF Shape, Typed
  <2>4. QED
    BY Zenon, <1>m, <1>1, <1>3, <2>1, <2>2, <2>3 DEF Moved, Shape, Typed, MainPlaces
<1>5. MainShape'
  BY SMTT(30), <1>3 DEF MainShape, Quiet
<1>6. \A u \in Threads : ThreadShape(u)'
  <2>1. to # "recovering"
    BY Zenon, <1>1 DEF NodePlaces
  <2>2. QED
    BY ZenonT(60), <1>m, <2>1 DEF Moved
<1>7. ASSUME NEW m \in Nodes PROVE ScopeShape(m)'
  <2>1. ScopeShape(m) /\ m \in Threads
    BY ZenonT(60), Threading DEF Shape
  <2>2. m # n => pc'[m] = pc[m] /\ todo'[m] = todo[m]
    BY Zenon, <1>2, <2>1
  <2>3. QED
    BY Zenon, <1>1, <1>2, <1>3, <2>1, <2>2 DEF ScopeShape, Quiet
<1>8. ASSUME NEW l \in Leases PROVE LeaseShape(l)'
  <2>1. LeaseShape(l) /\ pc'[l] = pc[l]
    BY ZenonT(60), <1>2, Threading DEF Shape
  <2>2. QED
    BY ZenonT(60), <1>1, <1>3, <2>1 DEF LeaseShape, Over
<1>9. QED
  BY Zenon, <1>4, <1>5, <1>6, <1>7, <1>8 DEF Shape

\* The step of AcquireNext: the thread stays where it is.
LEMMA AcquireNextStep ==
  ASSUME Shape, NEW n \in Nodes, AcquireNext(n)
  PROVE  LET l == <<n, scope[n].acquired + 1>>
         IN  /\ Quiet(n) /\ pc[n] = "acquiring" /\ pc' = pc /\ scope' = scope /\ told' = told
             /\ l \in Leases /\ AcquireCall(n, scope[n].acquired + 1) = AcquireCall(l[1], l[2])
             /\ todo' = [todo EXCEPT ![n] = <<AcquireCall(n, scope[n].acquired + 1)>>]
             /\ Batch(n, "acquiring", <<AcquireCall(n, scope[n].acquired + 1)>>)
             /\ stage' = stage /\ reply' = reply /\ attempt' = attempt
             /\ failed' = [failed EXCEPT ![n] = FALSE] /\ stored' = stored
             /\ live' = live /\ happened' = happened /\ sent' = sent
<1> DEFINE l == <<n, scope[n].acquired + 1>>
           c == AcquireCall(n, scope[n].acquired + 1)
<1>1. /\ Quiet(n) /\ pc[n] = "acquiring" /\ pc' = pc /\ scope' = scope /\ told' = told
      /\ todo' = [todo EXCEPT ![n] = <<c>>] /\ stage' = stage /\ reply' = reply /\ attempt' = attempt
      /\ failed' = [failed EXCEPT ![n] = FALSE] /\ stored' = stored
      /\ live' = live /\ happened' = happened /\ sent' = sent
      /\ scope[n].acquired + 1 \in DOMAIN Bindings[n]
  BY Zenon DEF AcquireNext, Begin, program, Rest, outside
<1>2. l \in Leases
  BY Zenon, <1>1, LeaseOf
<1>3. c = AcquireCall(l[1], l[2])
  BY ZenonT(60)
<1>4. Known(c) /\ Owner(c) = l[1] /\ Place(c) = "acquiring"
  <2> HIDE DEF c, l
  <2>1. QED
    BY Zenon, <1>2, <1>3, LeaseCalls
<1>5. Owner(c) = n /\ c \in CallSet
  BY ZenonT(60), <1>4 DEF Known
<1>6. Batch(n, "acquiring", <<c>>)
  <2> HIDE DEF c
  <2>1. QED
    BY SMTT(30), Z3T(30), <1>4, <1>5 DEF Batch, IsInjective
<1>7. QED
  BY Zenon, <1>1, <1>2, <1>3, <1>6

\* The start of an acquisition keeps Shape.
LEMMA AcquireNextShape ==
  ASSUME Shape, NEW n \in Nodes, AcquireNext(n)
  PROVE  Shape'
<1> DEFINE c == AcquireCall(n, scope[n].acquired + 1)
<1>0. n \in Threads /\ n # Main /\ Main \in Threads
  BY Zenon, Threading
<1>1. /\ Quiet(n) /\ pc[n] = "acquiring" /\ pc' = pc /\ scope' = scope
      /\ <<n, scope[n].acquired + 1>> \in Leases
      /\ todo' = [todo EXCEPT ![n] = <<c>>] /\ Batch(n, "acquiring", <<c>>)
      /\ stage' = stage /\ reply' = reply /\ attempt' = attempt
      /\ failed' = [failed EXCEPT ![n] = FALSE] /\ stored' = stored
  BY Zenon, AcquireNextStep
<1> HIDE DEF c
<1>2. /\ todo \in [Threads -> Seq(CallSet)] /\ failed \in [Threads -> BOOLEAN]
  BY Zenon DEF Shape, Typed
<1>3. <<c>> \in Seq(CallSet) /\ IsInjective(<<c>>)
      /\ \A i \in DOMAIN <<c>> : Known(<<c>>[i]) /\ Owner(<<c>>[i]) = n /\ Place(<<c>>[i]) = "acquiring"
  BY Zenon, <1>1 DEF Batch
<1>4. todo'[n] = <<c>> /\ \A u \in Threads \ {n} : todo'[u] = todo[u] /\ failed'[u] = failed[u]
  BY ZenonT(60), <1>0, <1>1, <1>2
<1>5. Typed'
  <2>1. todo' \in [Threads -> Seq(CallSet)]
    BY Zenon, <1>1, <1>2, <1>3
  <2>2. failed' \in [Threads -> BOOLEAN]
    BY Zenon, <1>1, <1>2
  <2>3. QED
    BY Zenon, <1>1, <2>1, <2>2 DEF Shape, Typed
<1>6. MainShape'
  <2>1. todo'[Main] = todo[Main] /\ failed'[Main] = failed[Main]
    BY Zenon, <1>0, <1>4
  <2>2. QED
    BY Zenon, <1>1, <2>1 DEF Shape, MainShape, Quiet, Over
<1>7. ASSUME NEW u \in Threads PROVE ThreadShape(u)'
  <2>1. ThreadShape(u)
    BY Zenon DEF Shape
  <2>2. CASE u # n
    <3>1. todo'[u] = todo[u]
      BY Zenon, <1>4, <2>2
    <3>2. QED
      BY ZenonT(60), <1>1, <2>1, <3>1 DEF ThreadShape, Quiet, Recovering
  <2>3. CASE u = n
    <3>1. stage'[u] = "record"
      BY Zenon, <1>1, <2>1, <2>3 DEF ThreadShape
    <3>2. QED
      BY ZenonT(60), <1>1, <1>3, <1>4, <2>3, <3>1 DEF ThreadShape, Recovering, Quiet
  <2>4. QED
    BY Zenon, <2>2, <2>3
<1>8. ASSUME NEW m \in Nodes PROVE ScopeShape(m)'
  <2>1. ScopeShape(m) /\ m \in Threads
    BY Zenon, Threading DEF Shape
  <2>2. m # n => todo'[m] = todo[m]
    BY Zenon, <1>4, <2>1
  <2>3. QED
    BY ZenonT(60), <1>1, <1>4, <2>1, <2>2 DEF ScopeShape, Quiet, c
<1>9. ASSUME NEW l \in Leases PROVE LeaseShape(l)'
  BY Zenon, <1>1 DEF Shape, LeaseShape, Over
<1>10. QED
  BY SMTT(30), Z3T(30), <1>5, <1>6, <1>7, <1>8, <1>9 DEF Shape

\* The renewal of a lease goes on or ends.
LeaseMove(l, from, to, cs) ==
  /\ Move(l, from, to, cs) /\ from \in {"timer", "losing"} /\ to \in {"renewing", "losing", "gone"}
  /\ DOMAIN scope' = Nodes /\ scope' \in [Nodes -> Scope]
  /\ \A n \in Nodes : /\ scope'[n].leases = scope[n].leases /\ scope'[n].acquired = scope[n].acquired
                      /\ scope'[n].closed = scope[n].closed
  /\ IF to = "renewing"
     THEN from = "timer" /\ \E k \in Nat : cs = <<RenewCall(l, k)>> /\ RenewCall(l, k) \notin DOMAIN stored.calls
     ELSE cs = <<>>

\* A step that leaves the scopes alone.
LEMMA ScopeKept ==
  ASSUME Shape, scope' = scope
  PROVE  /\ DOMAIN scope' = Nodes /\ scope' \in [Nodes -> Scope]
         /\ \A n \in Nodes : /\ scope'[n].leases = scope[n].leases /\ scope'[n].acquired = scope[n].acquired
                             /\ scope'[n].closed = scope[n].closed
BY Zenon DEF Shape, Typed

\* The steps of a lease.
LEMMA LeaseMoves ==
  ASSUME Shape, NEW l \in Leases, Timer(l) \/ LeaseLost(l) \/ Stopped(l)
  PROVE  \E from, to, cs : LeaseMove(l, from, to, cs)
<1>0. l \in Threads /\ l[1] \in Nodes
  BY Zenon, Threading
<1>1. CASE RenewalDue(l)
  <2>3. PICK k \in Nat : RenewCall(l, k) \notin DOMAIN stored.calls /\ Step(l, "timer", "renewing", <<RenewCall(l, k)>>)
    BY SMTT(30), Z3T(30), <1>1 DEF RenewalDue
  <2> DEFINE cs == <<RenewCall(l, k)>>
  <2>1. /\ Step(l, "timer", "renewing", cs) /\ scope' = scope /\ stored' = stored
        /\ live' = live /\ happened' = happened /\ sent' = sent /\ told' = told
    BY Zenon, <1>1, <2>3 DEF RenewalDue, Rest, outside
  <2>2. pc[l] = "timer"
    BY Zenon, <2>1 DEF Step, Goto
  <2>4. Batch(l, "renewing", cs)
    <3> DEFINE c == RenewCall(l, k)
    <3>1. Known(c) /\ Owner(c) = l /\ Place(c) = "renewing"
      BY Zenon, <2>3, LeaseCalls
    <3>2. c \in CallSet
      BY Zenon, <3>1 DEF Known
    <3> HIDE DEF c
    <3>3. Batch(l, "renewing", <<c>>)
      BY SMTT(30), Z3T(30), <3>1, <3>2 DEF Batch, IsInjective
    <3>4. QED
      BY ZenonT(60), <3>3 DEF c
  <2>5. Move(l, "timer", "renewing", cs)
    <3> HIDE DEF cs
    <3>1. QED
      BY Zenon, <1>0, <2>1, <2>4, StepMove
  <2>6. LeaseMove(l, "timer", "renewing", cs)
    BY ZenonT(60), <2>1, <2>2, <2>3, <2>5, ScopeKept DEF LeaseMove
  <2>7. QED
    BY Zenon, <2>6
<1>2. ASSUME NEW to \in {"losing", "gone"}, pc[l] \in {"timer", "losing"}, pc' = [pc EXCEPT ![l] = to],
             UNCHANGED <<calling, Rest>>, DOMAIN scope' = Nodes, scope' \in [Nodes -> Scope],
             \A n \in Nodes : /\ scope'[n].leases = scope[n].leases
                              /\ scope'[n].acquired = scope[n].acquired
                              /\ scope'[n].closed = scope[n].closed
      PROVE  \E from, t, cs : LeaseMove(l, from, t, cs)
  <2>1. Quiet(l)
    BY ZenonT(60), <1>0, <1>2, QuietPlace
  <2>2. /\ todo' = todo /\ stage' = stage /\ reply' = reply /\ attempt' = attempt /\ failed' = failed
        /\ stored' = stored /\ live' = live /\ happened' = happened /\ sent' = sent /\ told' = told
    BY Zenon, <1>2 DEF calling, Rest, outside
  <2>3. Move(l, pc[l], to, <<>>)
    BY Zenon, <1>0, <1>2, <2>1, <2>2, SilentMove
  <2>4. LeaseMove(l, pc[l], to, <<>>)
    BY ZenonT(60), <1>2, <2>3 DEF LeaseMove
  <2>5. QED
    BY Zenon, <2>4
<1>3. CASE Expires(l)
  <2>1. /\ pc[l] = "timer" /\ pc' = [pc EXCEPT ![l] = "losing"] /\ UNCHANGED <<calling, Rest>> /\ scope' = scope
    BY ZenonT(60), <1>3 DEF Expires, Goto
  <2>2. QED
    BY Zenon, <1>2, <2>1, ScopeKept
<1>4. CASE Stopped(l)
  <2>1. /\ pc[l] = "timer" /\ pc' = [pc EXCEPT ![l] = "gone"] /\ UNCHANGED <<calling, Rest>> /\ scope' = scope
    BY Zenon, <1>4 DEF Stopped, Goto
  <2>2. QED
    BY Zenon, <1>2, <2>1, ScopeKept
<1>5. CASE LeaseLost(l)
  <2>1. /\ pc[l] = "losing" /\ pc' = [pc EXCEPT ![l] = "gone"] /\ UNCHANGED <<calling, Rest>>
        /\ scope' = [scope EXCEPT ![l[1]].err = TRUE]
    BY Zenon, <1>5 DEF LeaseLost, Goto
  <2>2. scope \in [Nodes -> Scope]
    BY Zenon DEF Shape, Typed
  <2>3. /\ DOMAIN scope' = Nodes /\ scope' \in [Nodes -> Scope]
        /\ \A n \in Nodes : /\ scope'[n].leases = scope[n].leases
                            /\ scope'[n].acquired = scope[n].acquired
                            /\ scope'[n].closed = scope[n].closed
    BY ZenonT(60), <1>0, <2>1, <2>2 DEF Scope
  <2>4. QED
    BY Zenon, <1>2, <2>1, <2>3
<1>6. QED
  BY ZenonT(60), <1>1, <1>3, <1>4, <1>5 DEF Timer

\* The steps of a lease thread leave the scopes and the other threads alone.
LEMMA LeaseStepShape ==
  ASSUME Shape, NEW l \in Leases, Typed', \A u \in Threads : ThreadShape(u)',
         \A u \in Threads \ {l} : pc'[u] = pc[u] /\ todo'[u] = todo[u] /\ failed'[u] = failed[u],
         pc[l] \in {"timer", "renewing", "losing"}, pc'[l] # "none",
         \A n \in Nodes : /\ scope'[n].leases = scope[n].leases /\ scope'[n].acquired = scope[n].acquired
                          /\ scope'[n].closed = scope[n].closed
  PROVE  Shape'
<1>1. /\ pc'[Main] = pc[Main] /\ todo'[Main] = todo[Main] /\ failed'[Main] = failed[Main]
      /\ \A n \in Nodes : pc'[n] = pc[n] /\ todo'[n] = todo[n]
      /\ l[1] \in Nodes
  BY ZenonT(60), Threading
<1>2. ~Over(l)
  BY Zenon DEF Over
<1>3. ~(Rank(pc[Main]) >= 5) /\ ~scope[l[1]].closed
  BY Zenon, <1>2 DEF Shape, MainShape, LeaseShape
<1>4. MainShape'
  BY ZenonT(60), <1>1, <1>3 DEF Shape, MainShape, Quiet
<1>5. ASSUME NEW n \in Nodes PROVE ScopeShape(n)'
  <2>1. ScopeShape(n)
    BY Zenon DEF Shape
  <2>2. QED
    BY ZenonT(60), <1>1, <2>1 DEF ScopeShape, Quiet
<1>6. ASSUME NEW m \in Leases PROVE LeaseShape(m)'
  <2>1. LeaseShape(m) /\ m[1] \in Nodes /\ m \in Threads
    BY Zenon, Threading DEF Shape
  <2>2. pc'[m] # "none" => pc[m] # "none"
    BY ZenonT(60), <2>1
  <2>3. scope'[m[1]].closed => Over(m)'
    <3>1. ASSUME scope'[m[1]].closed PROVE Over(m)'
      <4>1. m # l
        BY ZenonT(60), <1>1, <1>3, <3>1
      <4>2. Over(m) /\ pc'[m] = pc[m]
        BY Zenon, <2>1, <3>1, <4>1 DEF LeaseShape
      <4>3. QED
        BY ZenonT(60), <4>2 DEF Over
    <3>2. QED
      BY Zenon, <3>1
  <2>4. scope'[m[1]].leases = scope[m[1]].leases
    BY Zenon, <2>1
  <2>5. QED
    BY ZenonT(60), <1>1, <2>1, <2>2, <2>3, <2>4 DEF LeaseShape
<1>7. QED
  BY Zenon, <1>4, <1>5, <1>6 DEF Shape

\* A lease going on keeps Shape.
LEMMA LeaseMoveShape ==
  ASSUME Shape, NEW l \in Leases, NEW from, NEW to, NEW cs, LeaseMove(l, from, to, cs)
  PROVE  Shape'
<1>0. l \in Threads
  BY Zenon, Threading
<1>1. /\ Move(l, from, to, cs) /\ from \in {"timer", "losing"} /\ to \in {"renewing", "losing", "gone"}
      /\ scope' \in [Nodes -> Scope] /\ pc[l] = from
      /\ \A n \in Nodes : /\ scope'[n].leases = scope[n].leases /\ scope'[n].acquired = scope[n].acquired
                          /\ scope'[n].closed = scope[n].closed
  BY Zenon DEF LeaseMove, Move
<1>m. Moved(l, to, cs)
  BY Zenon, <1>0, <1>1, MoveThreads
<1>2. /\ pc'[l] = to
      /\ \A u \in Threads \ {l} : pc'[u] = pc[u] /\ todo'[u] = todo[u] /\ failed'[u] = failed[u]
      /\ \A u \in Threads : ThreadShape(u)'
  <2>1. to # "recovering"
    BY Zenon, <1>1
  <2>2. QED
    BY Zenon, <1>m, <2>1 DEF Moved
<1>3. Typed'
  <2>1. \A m \in Leases : pc'[m] \in LeasePlaces
    BY Zenon, <1>1, <1>2, Threading DEF Shape, Typed, LeasePlaces
  <2>2. pc'[Main] \in MainPlaces /\ \A n \in Nodes : pc'[n] \in NodePlaces
    BY Zenon, <1>2, Threading DEF Shape, Typed
  <2>3. pc' \in [Threads -> NodePlaces \cup MainPlaces \cup LeasePlaces]
    <3>1. pc' = [pc EXCEPT ![l] = to] /\ to \in LeasePlaces
      BY Zenon, <1>1 DEF Move, LeasePlaces
    <3>2. QED
      BY Zenon, <3>1 DEF Shape, Typed
  <2>4. QED
    BY ZenonT(60), <1>m, <1>1, <2>1, <2>2, <2>3 DEF Moved, Typed
<1>4. QED
  BY ZenonT(60), <1>1, <1>2, <1>3, LeaseStepShape

\* What the end of a renewal does.
LEMMA RenewedStep ==
  ASSUME Shape, NEW l \in Leases, Renewed(l)
  PROVE  /\ Ends(l, <<>>) /\ pc[l] = "renewing" /\ failed' = failed /\ scope' = scope
         /\ \E to \in {"timer", "losing"} : /\ to = "timer" => reply[l] = "done"
                                            /\ pc' = [pc EXCEPT ![l] = to]
BY Zenon DEF Renewed, At, Quiet, Advance, Stage, Answer, Ends, Rest, outside

\* The end of a renewal keeps Shape.
LEMMA RenewedShape ==
  ASSUME Shape, NEW l \in Leases, Renewed(l)
  PROVE  Shape'
<1>0. l \in Threads
  BY Zenon, Threading
<1>1. Ends(l, <<>>) /\ pc[l] = "renewing" /\ failed' = failed /\ scope' = scope
  BY Zenon, RenewedStep
<1>2. PICK to \in {"timer", "losing"} : pc' = [pc EXCEPT ![l] = to]
  BY Zenon, RenewedStep
<1>3. /\ todo' = [todo EXCEPT ![l] = <<>>] /\ stage' = [stage EXCEPT ![l] = "record"] /\ stored' = stored
      /\ reply' = [reply EXCEPT ![l] = "none"] /\ attempt' = [attempt EXCEPT ![l] = 0]
  BY Zenon, <1>1 DEF Ends
<1>4. /\ todo \in [Threads -> Seq(CallSet)] /\ stage \in [Threads -> Stages]
      /\ reply \in [Threads -> Replies] /\ failed \in [Threads -> BOOLEAN] /\ attempt \in [Threads -> Nat]
      /\ pc \in [Threads -> NodePlaces \cup MainPlaces \cup LeasePlaces]
  BY Zenon DEF Shape, Typed
<1>5. /\ pc'[l] = to /\ todo'[l] = <<>> /\ stage'[l] = "record"
      /\ \A u \in Threads \ {l} : pc'[u] = pc[u] /\ todo'[u] = todo[u] /\ stage'[u] = stage[u]
  BY Zenon, <1>0, <1>2, <1>3, <1>4
<1>6. Typed'
  <2>0. <<>> \in Seq(CallSet)
    BY SMTT(30)
  <2>1. todo' \in [Threads -> Seq(CallSet)]
    BY Zenon, <1>3, <1>4, <2>0
  <2>2. stage' \in [Threads -> Stages] /\ reply' \in [Threads -> Replies] /\ attempt' \in [Threads -> Nat]
    BY ZenonT(60), <1>3, <1>4 DEF Stages, Replies
  <2>3. \A m \in Leases : pc'[m] \in LeasePlaces
    BY Zenon, <1>2, <1>5, Threading DEF Shape, Typed, LeasePlaces
  <2>4. pc'[Main] \in MainPlaces /\ \A n \in Nodes : pc'[n] \in NodePlaces
    BY ZenonT(60), <1>5, Threading DEF Shape, Typed
  <2>5. pc' \in [Threads -> NodePlaces \cup MainPlaces \cup LeasePlaces]
    BY Zenon, <1>2, <1>4 DEF LeasePlaces
  <2>6. QED
    BY ZenonT(60), <1>1, <1>3, <2>1, <2>2, <2>3, <2>4, <2>5 DEF Shape, Typed
<1>7. ASSUME NEW u \in Threads PROVE ThreadShape(u)'
  <2>1. ThreadShape(u)
    BY Zenon DEF Shape
  <2>2. CASE u # l
    <3>1. pc'[u] = pc[u] /\ todo'[u] = todo[u] /\ stage'[u] = stage[u]
      BY Zenon, <1>5, <2>2
    <3>2. QED
      BY Zenon, <2>1, <3>1 DEF ThreadShape, Quiet, Recovering
  <2>3. CASE u = l
    <3>1. todo'[u] = <<>> /\ stage'[u] = "record"
      BY ZenonT(60), <1>5, <2>3
    <3>2. DOMAIN todo'[u] = {}
      BY SMTT(30), <3>1
    <3>3. QED
      BY Zenon, <3>1, <3>2 DEF ThreadShape, IsInjective
  <2>4. QED
    BY Zenon, <2>2, <2>3
<1>8. QED
  BY ZenonT(60), <1>1, <1>5, <1>6, <1>7, LeaseStepShape

==============================================================================

-------------------------- MODULE PluginHostProofs ---------------------------
(***************************************************************************)
(* The steps of Main keep Shape too; and Recorded: what a thread has yet   *)
(* to call was never recorded, hence never sent.  Places are ranked in the *)
(* order a thread passes them, so that a call that belongs to a later      *)
(* place than its thread has reached cannot be in the record.              *)
(***************************************************************************)
EXTENDS PluginHostShapeProofs

------------------------------------------------------------------------------
(* The steps of Main.                                                      *)

\* Main goes on.
MainMove(from, to, cs) ==
  /\ Move(Main, from, to, cs) /\ scope' = scope
  /\ from \in MainPlaces /\ to \in MainPlaces \ {"start", "recovering"}
  /\ Rank(from) < Rank(to) \/ (from = "recovering" /\ to = "over" /\ cs = <<>>)
  /\ \A i \in DOMAIN cs : cs[i].ev[1] \notin {"credential.release", "node.finished"}
  /\ to = "running" => from = "selected"
  /\ to = "finishing" => /\ from \in {"selected", "running"} /\ cs = <<>>
                         /\ failed[Main] \/ (from = "running" /\ \A n \in Nodes : pc[n] = "done")
  /\ to \in {"closing", "closed", "over"} => Rank(from) >= 3
  /\ to = "closed" => \A n \in Nodes : scope[n].closed
  /\ to = "over" => from \in {"closed", "recovering"} /\ cs = <<>>

\* The steps of Main.
LEMMA RunMoves ==
  ASSUME Shape, Run
  PROVE  \/ \E from, to, cs : MainMove(from, to, cs)
         \/ \E n \in Nodes : FinishNode(n) \/ CloseScope(n)
<1> DEFINE Goal == \E from, to, cs : MainMove(from, to, cs)
<1>0. Main \in Threads
  BY Zenon, Threading
<1>1. ASSUME NEW from, NEW to, NEW cs, Step(Main, from, to, cs), UNCHANGED <<scope, Rest>>,
             Batch(Main, to, cs)
      PROVE  Move(Main, from, to, cs) /\ scope' = scope
  <2>1. scope' = scope /\ stored' = stored /\ live' = live /\ happened' = happened /\ sent' = sent
        /\ told' = told
    BY Zenon, <1>1 DEF Rest, outside
  <2>2. QED
    BY Zenon, <1>0, <1>1, <2>1, StepMove
<1>a. ASSUME NEW phase \in {"selection.ready", "run.prepare", "run.finished", "session.close"}
      PROVE  \A i \in DOMAIN Emit(phase, Main) :
               Emit(phase, Main)[i].ev[1] \notin {"credential.release", "node.finished"}
  <2>1. phase \in NodePhases \cup MainPhases /\ phase \notin NodePhases
    BY Zenon DEF NodePhases, MainPhases
  <2>2. \A i \in DOMAIN Emit(phase, Main) : Emit(phase, Main)[i].ev = <<phase, Main, <<0, 0>>>>
    BY Zenon, <2>1, EmitCalls
  <2>3. QED
    BY SMTT(30), <2>2
<1>b. DOMAIN <<>> = {}
  BY SMTT(30)
<1>2. CASE Start
  <2>1. Step(Main, "start", "selected", Emit("selection.ready", Main)) /\ UNCHANGED <<scope, Rest>>
    BY Zenon, <1>2 DEF Start
  <2>2. Move(Main, "start", "selected", Emit("selection.ready", Main)) /\ scope' = scope
    BY Zenon, <1>1, <2>1, EmitBatch
  <2>3. MainMove("start", "selected", Emit("selection.ready", Main))
    BY SMTT(30), Z3T(30), <1>a, <2>2, Ranks DEF MainMove, MainPlaces
  <2>4. QED
    BY Zenon, <2>3
<1>3. CASE Selected
  <2>1. Step(Main, "selected", "running", Emit("run.prepare", Main)) /\ UNCHANGED <<scope, Rest>>
    BY Zenon, <1>3 DEF Selected
  <2>2. Move(Main, "selected", "running", Emit("run.prepare", Main)) /\ scope' = scope
    BY Zenon, <1>1, <2>1, EmitBatch
  <2>3. MainMove("selected", "running", Emit("run.prepare", Main))
    BY SMTT(30), Z3T(30), <1>a, <2>2, Ranks DEF MainMove, MainPlaces
  <2>4. QED
    BY Zenon, <2>3
<1>4. CASE FinishPlugins
  <2>1. /\ Quiet(Main) /\ pc[Main] \in {"selected", "running"} /\ Begin(Main, <<>>)
        /\ pc' = [pc EXCEPT ![Main] = "finishing"] /\ UNCHANGED <<scope, Rest>>
        /\ failed[Main] \/ (pc[Main] = "running" /\ \A n \in Nodes : pc[n] = "done")
    BY Zenon, <1>4 DEF FinishPlugins, Done
  <2>2. Step(Main, pc[Main], "finishing", <<>>)
    BY Zenon, <2>1 DEF Step, Goto
  <2>3. Move(Main, pc[Main], "finishing", <<>>) /\ scope' = scope
    BY Zenon, <1>1, <2>1, <2>2, NoCalls
  <2>4. Rank(pc[Main]) < Rank("finishing") /\ pc[Main] \in MainPlaces /\ "finishing" \in MainPlaces
    BY SMTT(30), Z3T(30), <2>1, Ranks DEF MainPlaces
  <2>5. MainMove(pc[Main], "finishing", <<>>)
    BY Zenon, <2>1, <2>3, <2>4, <1>b DEF MainMove
  <2>6. QED
    BY Zenon, <2>5
<1>5. CASE FinishRun
  <2>1. Step(Main, "finishing", "closing", Emit("run.finished", Main)) /\ UNCHANGED <<scope, Rest>>
    BY Zenon, <1>5 DEF FinishRun
  <2>2. Move(Main, "finishing", "closing", Emit("run.finished", Main)) /\ scope' = scope
    BY Zenon, <1>1, <2>1, EmitBatch
  <2>3. MainMove("finishing", "closing", Emit("run.finished", Main))
    BY SMTT(30), Z3T(30), <1>a, <2>2, Ranks DEF MainMove, MainPlaces
  <2>4. QED
    BY Zenon, <2>3
<1>6. CASE CloseSession
  <2>1. /\ Step(Main, "closing", "closed", Emit("session.close", Main)) /\ UNCHANGED <<scope, Rest>>
        /\ \A n \in Nodes : scope[n].closed
    BY Zenon, <1>6 DEF CloseSession
  <2>2. Move(Main, "closing", "closed", Emit("session.close", Main)) /\ scope' = scope
    BY Zenon, <1>1, <2>1, EmitBatch
  <2>3. MainMove("closing", "closed", Emit("session.close", Main))
    <3>1. /\ Rank("closing") = 4 /\ Rank("closed") = 5 /\ 4 < 5 /\ 4 >= 3
      BY SMTT(30), Ranks
    <3>2. QED
      BY Zenon, <1>a, <2>1, <2>2, <3>1 DEF MainMove, MainPlaces
  <2>4. QED
    BY Zenon, <2>3
<1>7. ASSUME Quiet(Main), pc[Main] \in {"closed", "recovering"}, pc' = [pc EXCEPT ![Main] = "over"],
             \/ stored' = stored
             \/ \E bad : stored' = WithStatus(bad),
             UNCHANGED <<calling, scope, told, outside>>
      PROVE  Goal
  <2>1. /\ failed \in [Threads -> BOOLEAN] /\ DOMAIN stored = {"calls", "status"}
        /\ todo \in [Threads -> Seq(CallSet)] /\ todo[Main] = <<>>
    BY Zenon, <1>7 DEF Shape, Typed, Quiet
  <2>2. DOMAIN stored' = {"calls", "status"} /\ stored'.calls = stored.calls
    BY Zenon, <1>7, <2>1 DEF WithStatus
  <2>3. todo' = [todo EXCEPT ![Main] = <<>>]
    BY Zenon, <1>0, <1>7, <2>1 DEF calling
  <2>4. /\ stage' = stage /\ reply' = reply /\ attempt' = attempt /\ failed' = failed
        /\ live' = live /\ happened' = happened /\ sent' = sent /\ told' = told /\ scope' = scope
    BY Zenon, <1>7 DEF calling, outside
  <2>5. Move(Main, pc[Main], "over", <<>>)
    BY Zenon, <1>7, <2>1, <2>2, <2>3, <2>4, NoCalls DEF Move
  <2>6. MainMove(pc[Main], "over", <<>>)
    <3>1. Rank(pc[Main]) >= 3
      BY SMTT(30), Z3T(30), <1>7, Ranks
    <3>2. Rank(pc[Main]) < Rank("over") \/ pc[Main] = "recovering"
      BY SMTT(30), <1>7, Ranks
    <3>3. pc[Main] \in MainPlaces /\ "over" \in MainPlaces \ {"start", "recovering"}
      BY Zenon, <1>7 DEF MainPlaces
    <3>4. QED
      BY ZenonT(60), <1>7, <2>4, <2>5, <3>1, <3>2, <3>3, <1>b DEF MainMove
  <2>7. QED
    BY Zenon, <2>6
<1>8. CASE Finish
  <2>1. /\ Quiet(Main) /\ pc[Main] = "closed" /\ pc' = [pc EXCEPT ![Main] = "over"]
        /\ UNCHANGED <<calling, scope, told, outside>>
    BY Zenon, <1>8 DEF Finish, Goto
  <2>2. stored' = stored \/ \E bad : stored' = WithStatus(bad)
    <3> DEFINE next == WithStatus(trouble \/ failed[Main])
    <3>1. Published(next) \/ PublishError(next)
      BY Zenon, <1>8 DEF Finish
    <3>2. stored' \in {stored, next}
      <4> HIDE DEF next
      <4>1. QED
        BY Zenon, <3>1, Publishing
    <3>3. QED
      BY Zenon, <3>2
  <2>3. QED
    BY Zenon, <1>7, <2>1, <2>2
<1>9. CASE FinishRecovery
  <2>1. /\ Quiet(Main) /\ pc[Main] = "recovering" /\ pc' = [pc EXCEPT ![Main] = "over"]
        /\ UNCHANGED <<calling, scope, told, outside>>
    BY Zenon, <1>9 DEF FinishRecovery, Goto
  <2>2. stored' = stored \/ \E bad : stored' = WithStatus(bad)
    <3> DEFINE next == WithStatus(FALSE)
    <3>1. stored' = stored \/ Published(next) \/ PublishError(next)
      BY Zenon, <1>9 DEF FinishRecovery
    <3>2. stored' \in {stored, next}
      <4> HIDE DEF next
      <4>1. QED
        BY Zenon, <3>1, Publishing
    <3>3. QED
      BY Zenon, <3>2
  <2>3. QED
    BY Zenon, <1>7, <2>1, <2>2
<1>10. QED
  BY Zenon, <1>2, <1>3, <1>4, <1>5, <1>6, <1>8, <1>9 DEF Run

\* A step of Main to its next place keeps Shape.
LEMMA MainMoveShape ==
  ASSUME Shape, NEW from, NEW to, NEW cs, MainMove(from, to, cs)
  PROVE  Shape'
<1>0. Main \in Threads
  BY Zenon, Threading
<1>1. Move(Main, from, to, cs) /\ scope' = scope /\ pc[Main] = from /\ to \in MainPlaces /\ to # "recovering"
  BY Zenon DEF MainMove, Move
<1>m. Moved(Main, to, cs)
  BY Zenon, <1>0, <1>1, MoveThreads
<1>2. /\ pc'[Main] = to /\ todo'[Main] = cs
      /\ \A u \in Threads \ {Main} : pc'[u] = pc[u] /\ todo'[u] = todo[u]
      /\ \A u \in Threads : ThreadShape(u)'
  BY Zenon, <1>m, <1>1 DEF Moved
<1>3. /\ \A n \in Nodes : pc'[n] = pc[n] /\ todo'[n] = todo[n]
      /\ \A l \in Leases : pc'[l] = pc[l]
  BY Zenon, <1>2, Threading
<1>4. Rank(from) <= Rank(to) /\ Rank(from) \in Int /\ Rank(to) \in Int
  BY SMTT(30), Z3T(30), Ranks, RankType DEF MainMove
<1>5. Typed'
  <2>1. pc' \in [Threads -> NodePlaces \cup MainPlaces \cup LeasePlaces]
    <3>1. pc' = [pc EXCEPT ![Main] = to]
      BY Zenon, <1>1 DEF Move
    <3>2. QED
      BY Zenon, <1>1, <3>1 DEF Shape, Typed
  <2>2. QED
    BY ZenonT(60), <1>m, <1>1, <1>2, <1>3, <2>1 DEF Moved, Shape, Typed
<1>6. MainShape'
  <2>1. to \in {"start", "selected", "running"} => \A n \in Nodes : pc[n] = "prepare"
    <3>1. to \in {"selected", "running"} => from \in {"start", "selected"}
      BY SMTT(30), Z3T(30), <1>4, Ranks DEF MainMove, MainPlaces
    <3>2. QED
      BY Zenon, <1>1, <3>1 DEF Shape, MainShape, MainMove
  <2>2. Rank(to) >= 3 => \A n \in Nodes : pc[n] \in {"prepare", "done"}
    <3>1. CASE to = "finishing"
      <4>1. from \in {"selected", "running"}
            /\ (failed[Main] \/ (from = "running" /\ \A n \in Nodes : pc[n] = "done"))
        BY Zenon, <3>1 DEF MainMove
      <4>2. QED
        BY Zenon, <1>1, <4>1 DEF Shape, MainShape
    <3>2. CASE to # "finishing"
      <4>1. Rank(to) >= 3 => to \in {"closing", "closed", "over"}
        BY SMTT(30), Z3T(30), <1>1, <3>2, Ranks DEF MainPlaces
      <4>2. Rank(to) >= 3 => Rank(from) >= 3
        BY Zenon, <4>1 DEF MainMove
      <4>3. QED
        BY Zenon, <1>1, <4>2 DEF Shape, MainShape
    <3>3. QED
      BY ZenonT(30), <3>1, <3>2
  <2>3. Rank(to) >= 5 => \A l \in Leases : Over(l)
    <3>1. CASE to = "closed"
      <4>1. \A l \in Leases : l[1] \in Nodes
        BY Zenon, Threading
      <4>2. \A n \in Nodes : scope[n].closed
        BY Zenon, <3>1 DEF MainMove
      <4>3. QED
        BY Zenon, <4>1, <4>2 DEF Shape, LeaseShape
    <3>2. CASE to # "closed"
      <4>1. Rank(to) >= 5 => to = "over"
        BY SMTT(30), Z3T(30), <1>1, <3>2, Ranks DEF MainPlaces
      <4>2. Rank(to) >= 5 => from \in {"closed", "recovering"}
        BY Zenon, <4>1 DEF MainMove
      <4>3. Rank(to) >= 5 => Rank(from) >= 5
        BY SMTT(30), Z3T(30), <4>2, Ranks
      <4>4. QED
        BY Zenon, <1>1, <4>3 DEF Shape, MainShape
    <3>3. QED
      BY Zenon, <3>1, <3>2
  <2>4. QED
    BY ZenonT(60), <1>2, <1>3, <2>1, <2>2, <2>3 DEF MainShape, Over
<1>7. ASSUME NEW n \in Nodes PROVE ScopeShape(n)'
  <2>1. ScopeShape(n)
    BY Zenon DEF Shape
  <2>2. scope[n].closed => Rank(to) >= 4
    <3>1. scope[n].closed => Rank(from) >= 4
      BY Zenon, <1>1, <2>1 DEF ScopeShape
    <3>2. QED
      BY SMTT(30), Z3T(30), <1>4, <3>1
  <2>3. QED
    BY Zenon, <1>1, <1>2, <1>3, <2>1, <2>2 DEF ScopeShape, Quiet
<1>8. ASSUME NEW l \in Leases PROVE LeaseShape(l)'
  <2>1. LeaseShape(l)
    BY Zenon DEF Shape
  <2>2. Rank(to) <= 5 => Rank(from) <= 5
    BY SMTT(30), <1>4
  <2>3. QED
    BY Zenon, <1>1, <1>2, <1>3, <2>1, <2>2 DEF LeaseShape, Over
<1>9. QED
  BY Zenon, <1>2, <1>5, <1>6, <1>7, <1>8 DEF Shape

\* Main makes further calls where it is.
MainStay(cs) ==
  /\ Quiet(Main) /\ pc' = pc /\ todo' = [todo EXCEPT ![Main] = cs] /\ Batch(Main, pc[Main], cs)
  /\ stage' = stage /\ reply' = reply /\ attempt' = attempt /\ failed' \in [Threads -> BOOLEAN]
  /\ \A u \in Threads \ {Main} : failed'[u] = failed[u]
  /\ stored' = stored /\ live' = live /\ happened' = happened /\ sent' = sent

\* What a step of Main that stays where it is leaves alone.
LEMMA StayThreads ==
  ASSUME Shape, NEW cs, MainStay(cs), pc[Main] \notin {"running", "recovering"}
  PROVE  /\ todo'[Main] = cs /\ (\A u \in Threads \ {Main} : todo'[u] = todo[u])
         /\ MainShape' /\ (\A u \in Threads : ThreadShape(u)')
         /\ scope' \in [Nodes -> Scope] => Typed'
<1>0. Main \in Threads
  BY Zenon, Threading
<1>1. /\ Quiet(Main) /\ pc' = pc /\ todo' = [todo EXCEPT ![Main] = cs] /\ stage' = stage
      /\ reply' = reply /\ attempt' = attempt /\ failed' \in [Threads -> BOOLEAN] /\ stored' = stored
      /\ cs \in Seq(CallSet) /\ IsInjective(cs)
      /\ \A i \in DOMAIN cs : Known(cs[i]) /\ Owner(cs[i]) = Main /\ Place(cs[i]) = pc[Main]
  BY Zenon DEF MainStay, Batch
<1>2. todo \in [Threads -> Seq(CallSet)]
  BY Zenon DEF Shape, Typed
<1>3. todo'[Main] = cs /\ (\A u \in Threads \ {Main} : todo'[u] = todo[u])
      /\ todo' \in [Threads -> Seq(CallSet)]
  BY Zenon, <1>0, <1>1, <1>2
<1>4. MainShape'
  BY Zenon, <1>1 DEF Shape, MainShape, Over
<1>5. ASSUME NEW u \in Threads PROVE ThreadShape(u)'
  <2>1. ThreadShape(u)
    BY Zenon DEF Shape
  <2>2. CASE u # Main
    <3>1. todo'[u] = todo[u]
      BY Zenon, <1>3, <2>2
    <3>2. QED
      BY ZenonT(60), <1>1, <2>1, <3>1 DEF ThreadShape, Quiet, Recovering
  <2>3. CASE u = Main
    <3>1. ~Recovering(u)' /\ stage'[u] = "record"
      BY Zenon, <1>1, <2>1, <2>3 DEF Recovering, ThreadShape
    <3>2. QED
      BY Zenon, <1>1, <1>3, <2>3, <3>1 DEF ThreadShape, Quiet
  <2>4. QED
    BY Zenon, <2>2, <2>3
<1>6. scope' \in [Nodes -> Scope] => Typed'
  BY Zenon, <1>1, <1>3 DEF Shape, Typed
<1>7. QED
  BY Zenon, <1>3, <1>4, <1>5, <1>6

\* What finishNode does.
LEMMA FinishNodeStep ==
  ASSUME Shape, NEW n \in Nodes, FinishNode(n)
  PROVE  /\ MainStay(Emit("node.finished", n)) /\ scope' = scope /\ pc[Main] = "finishing"
         /\ told' = told \cup {n} /\ n \notin told
<1>1. /\ Quiet(Main) /\ pc' = pc /\ todo' = [todo EXCEPT ![Main] = Emit("node.finished", n)]
      /\ stage' = stage /\ reply' = reply /\ attempt' = attempt /\ failed' = [failed EXCEPT ![Main] = FALSE]
      /\ stored' = stored /\ live' = live /\ happened' = happened /\ sent' = sent
      /\ scope' = scope /\ pc[Main] = "finishing" /\ told' = told \cup {n} /\ n \notin told
  BY Zenon DEF FinishNode, Begin, outside
<1>2. Batch(Main, "finishing", Emit("node.finished", n))
  BY Zenon, EmitBatch
<1>3. failed' \in [Threads -> BOOLEAN] /\ \A u \in Threads \ {Main} : failed'[u] = failed[u]
  BY Zenon, <1>1 DEF Shape, Typed
<1>4. QED
  BY Zenon, <1>1, <1>2, <1>3 DEF MainStay

\* The node.finished events keep Shape.
LEMMA FinishNodeShape ==
  ASSUME Shape, NEW n \in Nodes, FinishNode(n)
  PROVE  Shape'
<1> DEFINE cs == Emit("node.finished", n)
<1>1. MainStay(cs) /\ scope' = scope /\ pc[Main] = "finishing"
  BY Zenon, FinishNodeStep
<1> HIDE DEF cs
<1>2. pc' = pc /\ scope \in [Nodes -> Scope]
  BY Zenon, <1>1 DEF MainStay, Shape, Typed
<1>3. /\ (\A u \in Threads \ {Main} : todo'[u] = todo[u])
      /\ MainShape' /\ (\A u \in Threads : ThreadShape(u)') /\ Typed'
  BY Zenon, <1>1, <1>2, StayThreads
<1>4. ASSUME NEW m \in Nodes PROVE ScopeShape(m)'
  <2>1. ScopeShape(m) /\ todo'[m] = todo[m]
    BY Zenon, <1>3, Threading DEF Shape
  <2>2. QED
    BY Zenon, <1>1, <1>2, <2>1 DEF ScopeShape, Quiet
<1>5. ASSUME NEW l \in Leases PROVE LeaseShape(l)'
  BY Zenon, <1>1, <1>2 DEF Shape, LeaseShape, Over
<1>6. QED
  BY Zenon, <1>3, <1>4, <1>5 DEF Shape

\* The releases of the leases of one node.
LEMMA ReleaseBatch ==
  ASSUME NEW ls \in Seq(Leases), IsInjective(ls)
  PROVE  /\ Batch(Main, "closing", [i \in DOMAIN ls |-> ReleaseCall(Reverse(ls)[i], 0)])
         /\ \A i \in DOMAIN ls : \E j \in DOMAIN ls : Reverse(ls)[i] = ls[j]
<1> DEFINE cs == [i \in DOMAIN ls |-> ReleaseCall(Reverse(ls)[i], 0)]
           rs == Reverse(ls)
<1>1. DOMAIN ls = 1 .. Len(ls) /\ Len(ls) \in Nat /\ DOMAIN rs = DOMAIN ls
      /\ \A i \in DOMAIN ls : (Len(ls) - i) + 1 \in DOMAIN ls /\ rs[i] = ls[(Len(ls) - i) + 1]
  BY SMTT(30) DEF Reverse
<1>2. \A i \in DOMAIN ls : rs[i] \in Leases
  BY SMTT(30), <1>1
<1>3. ASSUME NEW i \in DOMAIN ls, NEW j \in DOMAIN ls, rs[i] = rs[j] PROVE i = j
  <2>1. (Len(ls) - i) + 1 = (Len(ls) - j) + 1
    BY Zenon, <1>1, <1>3 DEF IsInjective
  <2>2. QED
    BY SMTT(30), Z3T(30), <1>1, <2>1
<1> HIDE DEF rs
<1>4. ASSUME NEW i \in DOMAIN ls
      PROVE  /\ cs[i] \in CallSet /\ Known(cs[i]) /\ Owner(cs[i]) = Main /\ Place(cs[i]) = "closing"
             /\ Lease(cs[i]) = rs[i]
  <2>1. cs[i] = ReleaseCall(rs[i], 0) /\ 0 \in Nat /\ 0 \in {0, 1}
    BY Zenon DEF rs
  <2> HIDE DEF cs
  <2>2. ASSUME NEW l \in Leases
        PROVE  /\ ReleaseCall(l, 0) \in CallSet /\ Known(ReleaseCall(l, 0)) /\ Owner(ReleaseCall(l, 0)) = Main
               /\ Place(ReleaseCall(l, 0)) = "closing" /\ Lease(ReleaseCall(l, 0)) = l
    BY ZenonT(60), <2>1, LeaseCalls
  <2>3. QED
    BY Zenon, <1>2, <2>1, <2>2
<1>5. cs \in Seq(CallSet) /\ DOMAIN cs = DOMAIN ls
  <2>1. DOMAIN cs = DOMAIN ls /\ cs \in [DOMAIN ls -> CallSet]
    BY Zenon, <1>4
  <2> HIDE DEF cs
  <2>2. QED
    BY SMTT(30), Z3T(30), <1>1, <2>1
<1>6. Batch(Main, "closing", cs)
  <2> HIDE DEF cs
  <2>1. IsInjective(cs)
    BY Zenon, <1>3, <1>4, <1>5 DEF IsInjective
  <2>2. QED
    BY Zenon, <1>4, <1>5, <2>1 DEF Batch
<1>7. QED
  BY Zenon, <1>1, <1>6 DEF rs

\* What closeCredentials does for one node.
LEMMA CloseScopeStep ==
  ASSUME Shape, NEW n \in Nodes, CloseScope(n)
  PROVE  LET ls == scope[n].leases
             cs == [i \in DOMAIN ls |-> ReleaseCall(Reverse(ls)[i], 0)]
         IN  /\ MainStay(cs) /\ pc[Main] = "closing" /\ told' = told /\ failed' = failed
             /\ ~scope[n].closed /\ (\A i \in DOMAIN ls : Over(ls[i]))
             /\ scope' \in [Nodes -> Scope] /\ scope'[n].closed
             /\ \A m \in Nodes : /\ scope'[m].leases = scope[m].leases /\ scope'[m].acquired = scope[m].acquired
                                 /\ m # n => scope'[m].closed = scope[m].closed
             /\ ls \in Seq(Leases) /\ IsInjective(ls)
             /\ \A i \in DOMAIN ls : ls[i][1] = n
<1> DEFINE ls == scope[n].leases
           cs == [i \in DOMAIN ls |-> ReleaseCall(Reverse(ls)[i], 0)]
<1>1. /\ Quiet(Main) /\ pc' = pc /\ todo' = [todo EXCEPT ![Main] = cs] /\ stage' = stage /\ reply' = reply
      /\ attempt' = attempt /\ failed' = failed /\ stored' = stored /\ live' = live
      /\ happened' = happened /\ sent' = sent /\ told' = told /\ pc[Main] = "closing"
      /\ scope' = [scope EXCEPT ![n].closed = TRUE] /\ ~scope[n].closed
      /\ (\A i \in DOMAIN ls : Over(ls[i]))
  BY Zenon DEF CloseScope, Rest, outside
<1>2. scope \in [Nodes -> Scope] /\ failed \in [Threads -> BOOLEAN]
  BY Zenon DEF Shape, Typed
<1>3. ls \in Seq(Leases) /\ IsInjective(ls) /\ (\A i \in DOMAIN ls : ls[i][1] = n)
  BY Zenon, <1>2 DEF Shape, ScopeShape, Scope
<1>4. Batch(Main, "closing", cs)
  <2> HIDE DEF ls
  <2>1. QED
    BY Zenon, <1>3, ReleaseBatch
<1>5. /\ scope' \in [Nodes -> Scope] /\ scope'[n].closed
      /\ \A m \in Nodes : /\ scope'[m].leases = scope[m].leases /\ scope'[m].acquired = scope[m].acquired
                          /\ m # n => scope'[m].closed = scope[m].closed
  BY ZenonT(60), <1>1, <1>2 DEF Scope
<1>6. MainStay(cs)
  <2> HIDE DEF cs
  <2>1. QED
    BY ZenonT(60), <1>1, <1>2, <1>4 DEF MainStay
<1> HIDE DEF cs
<1>7. QED
  BY Zenon, <1>1, <1>3, <1>5, <1>6 DEF cs

\* Closing the leases of a node keeps Shape.
LEMMA CloseScopeShape ==
  ASSUME Shape, NEW n \in Nodes, CloseScope(n)
  PROVE  Shape'
<1> DEFINE ls == scope[n].leases
           cs == [i \in DOMAIN ls |-> ReleaseCall(Reverse(ls)[i], 0)]
<1>1. /\ MainStay(cs) /\ pc[Main] = "closing" /\ (\A i \in DOMAIN ls : Over(ls[i]))
      /\ scope' \in [Nodes -> Scope] /\ scope'[n].closed
      /\ \A m \in Nodes : /\ scope'[m].leases = scope[m].leases /\ scope'[m].acquired = scope[m].acquired
                          /\ m # n => scope'[m].closed = scope[m].closed
  BY Zenon, CloseScopeStep
<1> HIDE DEF cs
<1>2. pc' = pc /\ Rank("closing") = 4
  BY Zenon, <1>1, Ranks DEF MainStay
<1>3. /\ (\A u \in Threads \ {Main} : todo'[u] = todo[u])
      /\ MainShape' /\ (\A u \in Threads : ThreadShape(u)') /\ Typed'
  BY Zenon, <1>1, StayThreads
<1>4. ASSUME NEW m \in Nodes PROVE ScopeShape(m)'
  <2>1. ScopeShape(m) /\ todo'[m] = todo[m]
    BY Zenon, <1>3, Threading DEF Shape
  <2>2. /\ scope'[m].leases = scope[m].leases /\ scope'[m].acquired = scope[m].acquired
        /\ Rank(pc'[Main]) >= 4
    <3>1. Rank(pc'[Main]) = 4
      BY Zenon, <1>1, <1>2
    <3>2. Rank(pc'[Main]) >= 4
      BY SMTT(30), <3>1
    <3>3. QED
      BY Zenon, <1>1, <3>2
  <2>3. QED
    BY Zenon, <1>2, <2>1, <2>2 DEF ScopeShape, Quiet
<1>5. ASSUME NEW l \in Leases PROVE LeaseShape(l)'
  <2>1. LeaseShape(l) /\ l[1] \in Nodes /\ Rank(pc[Main]) <= 5
    <3>1. LeaseShape(l) /\ l[1] \in Nodes /\ Rank(pc[Main]) = 4
      BY Zenon, <1>1, <1>2, Threading DEF Shape
    <3>2. Rank(pc[Main]) <= 5
      BY SMTT(30), <3>1
    <3>3. QED
      BY Zenon, <3>1, <3>2
  <2>2. scope'[l[1]].leases = scope[l[1]].leases
    BY Zenon, <1>1, <2>1
  <2>3. l[1] = n => Over(l)
    <3>1. pc[l] # "none" => \E i \in DOMAIN scope[l[1]].leases : scope[l[1]].leases[i] = l
      BY Zenon, <2>1 DEF LeaseShape
    <3>2. QED
      BY ZenonT(90), SMTT(60), <1>1, <3>1 DEF Over
  <2>4. l[1] # n => scope'[l[1]].closed = scope[l[1]].closed
    BY Zenon, <1>1, <2>1
  <2>5. QED
    BY ZenonT(60), <1>2, <2>1, <2>2, <2>3, <2>4 DEF LeaseShape, Over
<1>6. QED
  BY Zenon, <1>3, <1>4, <1>5 DEF Shape

\* What Acknowledge does.
LEMMA AcknowledgeStep ==
  ASSUME NEW c, Acknowledge(c)
  PROVE  /\ pc[Main] = "over" /\ pc' \in {pc, [pc EXCEPT ![Main] = "recovering"]}
         /\ stored' \in {stored, WithCall(c, "acknowledged", stored.calls[c].lease, stored.calls[c].decision)}
         /\ failed' = [failed EXCEPT ![Main] = FALSE]
         /\ todo' = todo /\ stage' = stage /\ reply' = reply /\ attempt' = attempt /\ scope' = scope
         /\ told' = told /\ live' = live /\ happened' = happened /\ sent' = sent
BY Zenon DEF Acknowledge, outside

\* Acknowledge keeps Shape.
LEMMA AcknowledgeShape ==
  ASSUME Shape, NEW c, Acknowledge(c)
  PROVE  Shape'
<1>0. Main \in Threads
  BY Zenon, Threading
<1>1. /\ pc[Main] = "over" /\ pc' \in {pc, [pc EXCEPT ![Main] = "recovering"]}
      /\ stored' \in {stored, WithCall(c, "acknowledged", stored.calls[c].lease, stored.calls[c].decision)}
      /\ failed' = [failed EXCEPT ![Main] = FALSE]
      /\ todo' = todo /\ stage' = stage /\ reply' = reply /\ attempt' = attempt /\ scope' = scope
  BY Zenon, AcknowledgeStep
<1>2. todo[Main] = <<>>
  BY ZenonT(60), <1>0, <1>1, QuietPlace DEF Quiet
<1>3. pc'[Main] \in {"over", "recovering"} /\ \A u \in Threads \ {Main} : pc'[u] = pc[u]
  BY Zenon, <1>0, <1>1 DEF Shape, Typed
<1>4. Rank(pc[Main]) = 12 /\ Rank(pc'[Main]) = 12
  BY Zenon, <1>1, <1>3, Ranks
<1>5. \A n \in Nodes : pc'[n] = pc[n]
  BY Zenon, <1>3, Threading
<1>6. \A l \in Leases : pc'[l] = pc[l]
  BY Zenon, <1>3, Threading
<1>7. Typed'
  <2>1. DOMAIN stored' = {"calls", "status"}
    BY Zenon, <1>1 DEF Shape, Typed, WithCall
  <2>2. failed' \in [Threads -> BOOLEAN]
    BY Zenon, <1>1 DEF Shape, Typed
  <2>3. pc' \in [Threads -> NodePlaces \cup MainPlaces \cup LeasePlaces]
    BY Zenon, <1>1 DEF Shape, Typed, MainPlaces
  <2>4. QED
    BY ZenonT(60), <1>1, <1>3, <1>5, <1>6, <2>1, <2>2, <2>3 DEF Shape, Typed, MainPlaces
<1>8. MainShape'
  BY ZenonT(60), <1>3, <1>4, <1>5, <1>6 DEF Shape, MainShape, Over
<1>9. ASSUME NEW u \in Threads PROVE ThreadShape(u)'
  <2>1. ThreadShape(u)
    BY Zenon DEF Shape
  <2>2. u # Main => pc'[u] = pc[u]
    BY Zenon, <1>3
  <2>3. CASE u # Main
    BY ZenonT(60), <1>1, <2>1, <2>2, <2>3 DEF ThreadShape, Quiet, Recovering
  <2>4. CASE u = Main
    <3>1. todo'[u] = <<>> /\ stage'[u] = "record"
      BY ZenonT(60), <1>1, <1>2, <2>1, <2>4 DEF ThreadShape, Quiet
    <3>2. DOMAIN todo'[u] = {}
      BY SMTT(30), Z3T(30), <3>1
    <3>3. QED
      BY Zenon, <3>1, <3>2 DEF ThreadShape, IsInjective
  <2>5. QED
    BY Zenon, <2>3, <2>4
<1>10. ASSUME NEW n \in Nodes PROVE ScopeShape(n)'
  <2>1. ScopeShape(n)
    BY Zenon DEF Shape
  <2>2. QED
    BY ZenonT(60), <1>1, <1>4, <1>5, <2>1 DEF ScopeShape, Quiet
<1>11. ASSUME NEW l \in Leases PROVE LeaseShape(l)'
  <2>1. LeaseShape(l)
    BY Zenon DEF Shape
  <2>2. QED
    BY ZenonT(60), <1>1, <1>4, <1>6, <2>1 DEF LeaseShape, Over
<1>12. QED
  BY ZenonT(60), <1>7, <1>8, <1>9, <1>10, <1>11 DEF Shape

\* What Replay repeats is an idempotent observer or release.
LEMMA ReplayedCall ==
  ASSUME NEW c, Known(c), Replayable(c)
  PROVE  LET d == ReplayCall(c)
         IN  /\ Known(d) /\ Effect[d.f] = "idempotent_external"
             /\ Kind[d.f] = "observer" \/ d.action = "release"
             /\ d = c \/ (Leased(c) /\ d = ReleaseCall(Lease(c), 1))
             /\ d.action # "release" => d = c
<1> DEFINE d == ReplayCall(c)
<1>1. CASE ~IsCredential(c.f)
  <2>1. d = c
    BY Zenon, <1>1 DEF ReplayCall
  <2>2. c.ev[1] \notin LeasePhases
    BY Zenon, <1>1, KnownCall
  <2>3. Kind[c.f] = "observer" /\ Effect[c.f] = "idempotent_external"
    BY Zenon, <2>2 DEF Replayable, OutstandingLease, LeasePhases
  <2>4. QED
    BY Zenon, <2>1, <2>3
<1>2. CASE IsCredential(c.f) /\ c.ev[1] = "credential.release"
  <2>1. d = c /\ Effect[c.f] = "idempotent_external"
    BY Zenon, <1>2 DEF ReplayCall, Replayable
  <2>2. c.action = "release"
    <3>1. Leased(c)
      BY Zenon, <1>2, KnownCall
    <3>2. QED
      BY Zenon, <1>2, <3>1, LeasedCall
  <2>3. QED
    BY Zenon, <2>1, <2>2
<1>3. CASE IsCredential(c.f) /\ c.ev[1] # "credential.release"
  <2>1. d = ReleaseCall(Lease(c), 1) /\ Effect[c.f] = "idempotent_external"
    BY Zenon, <1>3 DEF ReplayCall, Replayable
  <2>2. Leased(c)
    BY Zenon, <1>3, KnownCall
  <2>3. Lease(c) \in Leases /\ 1 \in Nat /\ 1 \in {0, 1}
    BY Zenon, <2>2, LeasedCall
  <2>4. Known(d) /\ d.action = "release"
    <3> HIDE DEF d
    <3>1. QED
      BY ZenonT(60), <2>1, <2>3, LeaseCalls
  <2>5. d.f = c.f
    <3>1. c.f = Bindings[c.ev[2]][c.ev[3][1]]
      <4>1. \/ c = AcquireCall(c.ev[2], c.ev[3][1])
            \/ \E k \in Nat : c = RenewCall(Lease(c), k)
        BY Zenon, <1>3, <2>2, LeasedCall
      <4>2. QED
        BY SMTT(30), Z3T(30), <4>1 DEF AcquireCall, RenewCall, Call, Lease
    <3>2. QED
      BY SMTT(30), Z3T(30), <2>1, <3>1 DEF ReleaseCall, Call, Lease
  <2> HIDE DEF d
  <2>6. QED
    BY Zenon, <2>1, <2>2, <2>4, <2>5 DEF d
<1>4. QED
  BY Zenon, <1>1, <1>2, <1>3

\* What the start of a replay does.
LEMMA ReplayStep ==
  ASSUME NEW c, Replay(c)
  PROVE  /\ pc[Main] = "over" /\ Quiet(Main) /\ pc' = [pc EXCEPT ![Main] = "recovering"]
         /\ todo' = [todo EXCEPT ![Main] = <<ReplayCall(c)>>] /\ failed' = [failed EXCEPT ![Main] = FALSE]
         /\ stage' = stage /\ reply' = reply /\ attempt' = attempt /\ scope' = scope /\ stored' = stored
         /\ told' = told /\ live' = live /\ happened' = happened /\ sent' = sent
         /\ Recoverable(c) /\ Replayable(c)
BY Zenon DEF Replay, Step, Goto, Begin, outside

\* The start of a replay keeps Shape.
LEMMA ReplayShape ==
  ASSUME Shape, NEW c, Replay(c), Known(c)
  PROVE  Shape'
<1> DEFINE d == ReplayCall(c)
<1>0. Main \in Threads
  BY Zenon, Threading
<1>1. /\ pc[Main] = "over" /\ Quiet(Main) /\ pc' = [pc EXCEPT ![Main] = "recovering"]
      /\ todo' = [todo EXCEPT ![Main] = <<d>>] /\ failed' = [failed EXCEPT ![Main] = FALSE]
      /\ stage' = stage /\ reply' = reply /\ attempt' = attempt /\ scope' = scope /\ stored' = stored
  BY Zenon, ReplayStep
<1>2. /\ Known(d) /\ Effect[d.f] = "idempotent_external"
      /\ Kind[d.f] = "observer" \/ d.action = "release"
  BY Zenon, ReplayStep, ReplayedCall
<1> HIDE DEF d
<1>3. d \in CallSet /\ <<d>> \in Seq(CallSet)
  BY SMTT(30), Z3T(30), <1>2 DEF Known
<1>4. /\ pc'[Main] = "recovering" /\ todo'[Main] = <<d>>
      /\ \A u \in Threads \ {Main} : pc'[u] = pc[u] /\ todo'[u] = todo[u]
  BY ZenonT(60), <1>0, <1>1 DEF Shape, Typed
<1>5. Rank(pc[Main]) = 12 /\ Rank(pc'[Main]) = 12
  BY Zenon, <1>1, <1>4, Ranks
<1>6. /\ \A n \in Nodes : pc'[n] = pc[n] /\ todo'[n] = todo[n]
      /\ \A l \in Leases : pc'[l] = pc[l]
  BY Zenon, <1>4, Threading
<1>7. Typed'
  <2>1. todo' \in [Threads -> Seq(CallSet)]
    BY Zenon, <1>1, <1>3 DEF Shape, Typed
  <2>2. failed' \in [Threads -> BOOLEAN]
    BY Zenon, <1>1 DEF Shape, Typed
  <2>3. pc' \in [Threads -> NodePlaces \cup MainPlaces \cup LeasePlaces]
    BY Zenon, <1>1 DEF Shape, Typed, MainPlaces
  <2>4. QED
    BY ZenonT(60), <1>1, <1>4, <1>6, <2>1, <2>2, <2>3 DEF Shape, Typed, MainPlaces
<1>8. MainShape'
  BY ZenonT(60), <1>4, <1>5, <1>6 DEF Shape, MainShape, Over
<1>9. ASSUME NEW u \in Threads PROVE ThreadShape(u)'
  <2>1. ThreadShape(u)
    BY Zenon DEF Shape
  <2>2. CASE u # Main
    <3>1. pc'[u] = pc[u] /\ todo'[u] = todo[u]
      BY ZenonT(60), <1>4, <2>2
    <3>2. QED
      BY ZenonT(60), <1>1, <2>1, <3>1 DEF ThreadShape, Quiet, Recovering
  <2>3. CASE u = Main
    <3>1. stage'[u] = "record" /\ Recovering(u)'
      BY ZenonT(60), <1>1, <1>4, <2>1, <2>3 DEF ThreadShape, Recovering
    <3>2. DOMAIN <<d>> = {1} /\ <<d>>[1] = d
      BY SMTT(30)
    <3>3. IsInjective(<<d>>)
      BY Zenon, <3>2 DEF IsInjective
    <3>4. QED
      BY SMTT(30), Z3T(30), <1>2, <1>4, <2>3, <3>1, <3>2, <3>3 DEF ThreadShape
  <2>4. QED
    BY Zenon, <2>2, <2>3
<1>10. ASSUME NEW n \in Nodes PROVE ScopeShape(n)'
  <2>1. ScopeShape(n)
    BY Zenon DEF Shape
  <2>2. QED
    BY ZenonT(60), <1>1, <1>5, <1>6, <2>1 DEF ScopeShape, Quiet
<1>11. ASSUME NEW l \in Leases PROVE LeaseShape(l)'
  <2>1. LeaseShape(l)
    BY Zenon DEF Shape
  <2>2. QED
    BY ZenonT(60), <1>1, <1>5, <1>6, <2>1 DEF LeaseShape, Over
<1>12. QED
  BY ZenonT(60), <1>7, <1>8, <1>9, <1>10, <1>11 DEF Shape

\* A crash keeps Shape: no thread has calls left.
LEMMA CrashShape ==
  ASSUME Shape, Crash
  PROVE  Shape'
<1>1. /\ todo' = [t \in Threads |-> <<>>] /\ stage' = [t \in Threads |-> "record"]
      /\ reply' = [t \in Threads |-> "none"] /\ attempt' = [t \in Threads |-> 0]
      /\ failed' = [t \in Threads |-> FALSE] /\ scope' = scope /\ stored' = stored
      /\ pc' = [t \in Threads |-> IF t = Main THEN "over" ELSE IF t \in Nodes THEN "done" ELSE "gone"]
  BY Zenon DEF Crash
<1>2. /\ pc'[Main] = "over" /\ (\A n \in Nodes : pc'[n] = "done") /\ (\A l \in Leases : pc'[l] = "gone")
      /\ Rank("over") = 12
  BY Zenon, <1>1, Threading, Ranks
<1>3. Typed'
  <2>1. <<>> \in Seq(CallSet)
    BY SMTT(30), Z3T(30)
  <2>2. todo' \in [Threads -> Seq(CallSet)]
    BY Zenon, <1>1, <2>1
  <2>3. pc' \in [Threads -> NodePlaces \cup MainPlaces \cup LeasePlaces]
    BY Zenon, <1>1 DEF NodePlaces, MainPlaces, LeasePlaces
  <2>4. /\ stage' \in [Threads -> Stages] /\ reply' \in [Threads -> Replies]
        /\ attempt' \in [Threads -> Nat] /\ failed' \in [Threads -> BOOLEAN]
    BY Zenon, <1>1 DEF Stages, Replies
  <2>5. QED
    BY ZenonT(60), <1>1, <1>2, <2>2, <2>3, <2>4 DEF Shape, Typed, NodePlaces, MainPlaces, LeasePlaces
<1>4. MainShape'
  BY Zenon, <1>2 DEF MainShape, Over
<1>5. ASSUME NEW u \in Threads PROVE ThreadShape(u)'
  <2>1. todo'[u] = <<>> /\ stage'[u] = "record"
    BY Zenon, <1>1
  <2>2. DOMAIN todo'[u] = {}
    BY SMTT(30), Z3T(30), <2>1
  <2>3. QED
    BY Zenon, <2>1, <2>2 DEF ThreadShape, IsInjective
<1>6. ASSUME NEW n \in Nodes PROVE ScopeShape(n)'
  <2>1. ScopeShape(n)
    BY Zenon DEF Shape
  <2>2. Rank(pc'[Main]) >= 4
    BY SMTT(30), Z3T(30), <1>2
  <2>3. QED
    BY ZenonT(60), <1>1, <1>2, <2>1, <2>2 DEF ScopeShape
<1>7. ASSUME NEW l \in Leases PROVE LeaseShape(l)'
  BY SMTT(30), Z3T(30), <1>1, <1>2 DEF LeaseShape, Over
<1>8. QED
  BY ZenonT(60), <1>3, <1>4, <1>5, <1>6, <1>7 DEF Shape

------------------------------------------------------------------------------
(* What was recorded and sent.                                              *)

\* The thread has come to the call.
Reached(c) ==
  /\ Rank(pc[Owner(c)]) >= Rank(Place(c))
  /\ c.ev[1] = "credential.acquire" /\ pc[c.ev[2]] = "acquiring" =>
       \/ c.ev[3][1] <= scope[c.ev[2]].acquired
       \/ c.ev[3][1] = scope[c.ev[2]].acquired + 1 /\ ~Quiet(c.ev[2])
  /\ c.ev[1] = "credential.release" /\ pc[Main] = "closing" => scope[c.ev[2]].closed
  /\ c.ev[1] = "node.finished" /\ pc[Main] = "finishing" => c.ev[2] \in told

Due(t) == \A c \in Range(todo[t]) : Reached(c)

\* What a thread has yet to call was not recorded.
Fresh(t) ==
  /\ stage[t] \in {"queue", "sent", "record_result"} => Current(t) \in DOMAIN stored.calls
  /\ ~Recovering(t) => \A i \in DOMAIN todo[t] :
       i # 1 \/ stage[t] = "record" => todo[t][i] \notin DOMAIN stored.calls
  /\ ~Recovering(t) /\ stage[t] = "queue" /\ ~Repeatable(Current(t).f) => Current(t) \notin sent
  /\ Recovering(t) /\ ~Quiet(t) /\ Current(t).action # "release" => Current(t) \in DOMAIN stored.calls

Recorded ==
  /\ \A c \in DOMAIN stored.calls : Known(c) /\ Reached(c)
  /\ happened \subseteq DOMAIN stored.calls /\ sent \subseteq DOMAIN stored.calls
  /\ \A t \in Threads : Due(t) /\ Fresh(t)

------------------------------------------------------------------------------
(* Recorded: what each step of a call writes and sends.                     *)

\* The steps of invoke up to the return of the call c.
Pending(t, c) ==
  /\ stage[t] = "record" /\ live' = live /\ happened' = happened /\ sent' = sent
  /\ LET next == WithCall(c, "pending", KnownLease(c), "none")
     IN  \/ stored' = next /\ stage'[t] = "queue"
         \/ stored' \in {stored, next} /\ stage'[t] = "returned" /\ reply'[t] = "error"

Queued(t, c) ==
  /\ stage[t] = "queue" /\ live' = live /\ happened' = happened /\ stored' = stored
  /\ \/ stage'[t] = "queue" /\ sent' = sent
     \/ stage'[t] = "sent" /\ sent' = sent \cup {c}
     \/ stage'[t] = "record_result" /\ reply'[t] = "failed" /\ sent' = sent

InFlight(t, c) ==
  /\ stage[t] = "sent" /\ sent' = sent /\ stored' = stored
  /\ \/ /\ stage'[t] = "record_result" /\ TakesEffect(c) /\ reply'[t] \in Decisions(c) \cup {"unknown"}
     \/ /\ stage'[t] = "record_result" /\ live' = live /\ happened' = happened
        /\ reply'[t] \in {"failed", "unknown"}
     \/ /\ stage'[t] = "queue" /\ live' = live /\ happened' = happened /\ Repeatable(c.f)

Settled(t, c) ==
  /\ stage[t] = "record_result" /\ stage'[t] = "returned"
  /\ live' = live /\ happened' = happened /\ sent' = sent
  /\ LET next == WithCall(c, Result(c, reply[t]),
                          KnownLease(c) \/ (c.action = "acquire" /\ reply[t] = "done"), reply[t])
     IN  \/ stored' = next /\ reply'[t] = reply[t]
         \/ stored' \in {stored, next} /\ reply'[t] = IF reply[t] = "done" THEN "unrecorded" ELSE "error"

\* The steps of invoke before its return.
LEMMA InvokeTable ==
  ASSUME Shape, NEW t \in Threads, Invoke(t), ~Returned(t)
  PROVE  LET c == Current(t)
         IN  CallStep(t) /\ (Pending(t, c) \/ Queued(t, c) \/ InFlight(t, c) \/ Settled(t, c))
<1> DEFINE c == Current(t)
<1>0. CallStep(t)
  BY Zenon, InvokeStep
<1>1. stage \in [Threads -> Stages] /\ reply \in [Threads -> Replies]
  BY Zenon DEF Shape, Typed
<1>2. CASE RecordPending(t)
  <2> DEFINE next == WithCall(c, "pending", KnownLease(c), "none")
  <2>1. /\ stage[t] = "record" /\ live' = live /\ happened' = happened /\ sent' = sent
        /\ \/ Published(next) /\ stage' = [stage EXCEPT ![t] = "queue"]
           \/ /\ PublishError(next) /\ stage' = [stage EXCEPT ![t] = "returned"]
              /\ reply' = [reply EXCEPT ![t] = "error"]
    BY Zenon, <1>2 DEF RecordPending, At, outside, Stage, Answer
  <2> HIDE DEF next
  <2>2. \/ stored' = next /\ stage'[t] = "queue"
        \/ stored' \in {stored, next} /\ stage'[t] = "returned" /\ reply'[t] = "error"
    BY Zenon, <1>1, <2>1 DEF Published, PublishError
  <2>3. Pending(t, c)
    BY Zenon, <2>1, <2>2 DEF Pending, next
  <2>4. QED
    BY Zenon, <1>0, <2>3
<1>3. CASE OpenSession(t)
  <2>1. Queued(t, c)
    BY ZenonT(60), <1>3 DEF OpenSession, At, calling, outside, Queued
  <2>2. QED
    BY Zenon, <1>0, <2>1
<1>4. CASE Undelivered(t)
  <2>1. Queued(t, c)
    BY ZenonT(60), <1>1, <1>4 DEF Undelivered, At, outside, Queued, Stage, Answer
  <2>2. QED
    BY SMTT(30), Z3T(30), <1>0, <2>1
<1>5. CASE Send(t)
  <2>1. Queued(t, c)
    BY ZenonT(60), <1>1, <1>5 DEF Send, At, outside, Queued, Stage
  <2>2. QED
    BY <1>0, <2>1
<1>6. CASE Answered(t)
  <2>1. /\ stage[t] = "sent" /\ sent' = sent /\ stored' = stored /\ TakesEffect(c)
        /\ stage' = [stage EXCEPT ![t] = "record_result"]
        /\ \E d \in Decisions(c) : reply' = [reply EXCEPT ![t] = d]
    BY Zenon, <1>6 DEF Answered, At, Stage, Answer
  <2>2. stage'[t] = "record_result" /\ reply'[t] \in Decisions(c)
    BY Zenon, <1>1, <2>1
  <2>3. InFlight(t, c)
    BY ZenonT(60), <2>1, <2>2 DEF InFlight
  <2>4. QED
    BY Zenon, <1>0, <2>3
<1>7. CASE Fault(t)
  <2>1. /\ stage[t] = "sent" /\ sent' = sent /\ stored' = stored /\ live' = live /\ happened' = happened
        /\ \/ /\ stage' = [stage EXCEPT ![t] = "record_result"] /\ reply' = [reply EXCEPT ![t] = "failed"]
           \/ stage' = [stage EXCEPT ![t] = "queue"] /\ Repeatable(c.f)
    BY ZenonT(60), <1>7 DEF Fault, At, outside, Stage, Answer
  <2>2. QED
    BY ZenonT(60), <1>0, <1>1, <2>1 DEF InFlight
<1>8. CASE Lost(t)
  <2>1. /\ stage[t] = "sent" /\ sent' = sent /\ stored' = stored
        /\ TakesEffect(c) \/ (live' = live /\ happened' = happened)
        /\ stage' = [stage EXCEPT ![t] = "record_result"] /\ reply' = [reply EXCEPT ![t] = "unknown"]
    BY Zenon, <1>8 DEF Lost, At, Stage, Answer
  <2>2. stage'[t] = "record_result" /\ reply'[t] = "unknown"
    BY Zenon, <1>1, <2>1
  <2>3. InFlight(t, c)
    BY Zenon, <2>1, <2>2 DEF InFlight
  <2>4. QED
    BY SMTT(30), Z3T(30), <1>0, <2>3
<1>9. CASE RecordResult(t)
  <2> DEFINE next == WithCall(c, Result(c, reply[t]),
                              KnownLease(c) \/ (c.action = "acquire" /\ reply[t] = "done"), reply[t])
             r == IF reply[t] = "done" THEN "unrecorded" ELSE "error"
  <2>1. /\ stage[t] = "record_result" /\ stage' = [stage EXCEPT ![t] = "returned"]
        /\ live' = live /\ happened' = happened /\ sent' = sent
        /\ \/ Published(next) /\ reply' = reply
           \/ PublishError(next) /\ reply' = [reply EXCEPT ![t] = r]
    BY Zenon, <1>9 DEF RecordResult, At, outside, Stage, Answer
  <2> HIDE DEF next, r
  <2>2. /\ stage'[t] = "returned"
        /\ \/ stored' = next /\ reply'[t] = reply[t]
           \/ stored' \in {stored, next} /\ reply'[t] = r
    BY Zenon, <1>1, <2>1 DEF Published, PublishError
  <2>3. Settled(t, c)
    BY Zenon, <2>1, <2>2 DEF Settled, next, r
  <2>4. QED
    BY ZenonT(60), <1>0, <2>3
<1>10. QED
  BY ZenonT(60), <1>2, <1>3, <1>4, <1>5, <1>6, <1>7, <1>8, <1>9 DEF Invoke

\* The record grows by the call that is made.
LEMMA CallDomain ==
  ASSUME Shape, NEW t \in Threads, NEW c,
         Pending(t, c) \/ Queued(t, c) \/ InFlight(t, c) \/ Settled(t, c)
  PROVE  /\ stored' = stored \/ DOMAIN stored'.calls = DOMAIN stored.calls \cup {c}
         /\ \A d \in DOMAIN stored.calls \ {c} : stored'.calls[d] = stored.calls[d]
         /\ stage'[t] \in {"queue", "sent", "record_result", "returned"}
         /\ stage'[t] = "queue" /\ stage[t] = "record" => c \in DOMAIN stored'.calls
<1>1. DOMAIN stored = {"calls", "status"}
  BY Zenon DEF Shape, Typed
<1>2. CASE Pending(t, c)
  <2> DEFINE next == WithCall(c, "pending", KnownLease(c), "none")
  <2>1. /\ DOMAIN next.calls = DOMAIN stored.calls \cup {c}
        /\ \A d \in DOMAIN stored.calls \ {c} : next.calls[d] = stored.calls[d]
    BY Zenon, <1>1 DEF WithCall
  <2>2. \/ stored' = next /\ stage'[t] = "queue"
        \/ stored' \in {stored, next} /\ stage'[t] = "returned" /\ reply'[t] = "error"
    BY ZenonT(60), <1>2 DEF Pending
  <2> HIDE DEF next
  <2>3. QED
    BY Zenon, <2>1, <2>2
<1>3. CASE Queued(t, c)
  BY Zenon, <1>3 DEF Queued
<1>4. CASE InFlight(t, c)
  BY Zenon, <1>4 DEF InFlight
<1>5. CASE Settled(t, c)
  <2> DEFINE next == WithCall(c, Result(c, reply[t]),
                              KnownLease(c) \/ (c.action = "acquire" /\ reply[t] = "done"), reply[t])
  <2>1. /\ DOMAIN next.calls = DOMAIN stored.calls \cup {c}
        /\ \A d \in DOMAIN stored.calls \ {c} : next.calls[d] = stored.calls[d]
    BY Zenon, <1>1 DEF WithCall
  <2>2. stored' \in {stored, next} /\ stage'[t] = "returned" /\ stage[t] = "record_result"
    BY Zenon, <1>5 DEF Settled
  <2> HIDE DEF next
  <2>3. QED
    BY ZenonT(60), <2>1, <2>2
<1>6. QED
  BY ZenonT(60), <1>2, <1>3, <1>4, <1>5

\* Once the host is closed Main is alone.
LEMMA Alone ==
  ASSUME Shape, Rank(pc[Main]) >= 5, NEW u \in Threads \ {Main}
  PROVE  Quiet(u)
<1>1. CASE u \in Nodes
  <2>1. Rank(pc[Main]) >= 3
    BY SMTT(30), Z3T(30), RankType
  <2>2. pc[u] \in {"prepare", "done"}
    BY Zenon, <1>1, <2>1 DEF Shape, MainShape
  <2>3. QED
    BY Zenon, <2>2, QuietPlace
<1>2. CASE u \in Leases
  <2>1. pc[u] \in {"none", "gone"}
    BY Zenon, <1>2 DEF Shape, MainShape, Over
  <2>2. QED
    BY Zenon, <2>1, QuietPlace
<1>3. QED
  BY Zenon, <1>1, <1>2 DEF Threads

\* The call of one thread is not among those of another.
LEMMA OthersDiffer ==
  ASSUME Shape, NEW t \in Threads, NEW u \in Threads, t # u, ~Quiet(t), NEW i \in DOMAIN todo[u]
  PROVE  todo[u][i] # Current(t)
<1>1. ~Quiet(u)
  BY SMTT(30), Z3T(30) DEF Quiet
<1>2. ~Recovering(t) /\ ~Recovering(u)
  <2>1. Rank("recovering") = 12
    BY Zenon, Ranks
  <2>2. Recovering(t) => t = Main /\ Rank(pc[Main]) >= 5
    BY SMTT(30), Z3T(30), <2>1, BusyThread DEF Recovering
  <2>3. Recovering(u) => u = Main /\ Rank(pc[Main]) >= 5
    BY SMTT(30), Z3T(30), <1>1, <2>1, BusyThread DEF Recovering
  <2>4. QED
    BY ZenonT(60), <1>1, <2>2, <2>3, Alone
<1>3. Owner(Current(t)) = t
  BY ZenonT(60), <1>2, BusyThread
<1>4. Owner(todo[u][i]) = u
  BY ZenonT(90), SMTT(60), <1>2 DEF Shape, ThreadShape
<1>5. QED
  BY Zenon, <1>3, <1>4

\* The steps of a call keep Recorded: what is sent was recorded.
LEMMA CallRecorded ==
  ASSUME Shape, Recorded, NEW t \in Threads, CallStep(t), NEW c, c = Current(t),
         Pending(t, c) \/ Queued(t, c) \/ InFlight(t, c) \/ Settled(t, c)
  PROVE  Recorded'
<1>1. /\ todo' = todo /\ pc' = pc /\ scope' = scope /\ told' = told /\ ~Quiet(t)
      /\ \A u \in Threads \ {t} : stage'[u] = stage[u] /\ reply'[u] = reply[u]
  BY Zenon DEF CallStep
<1>2. ASSUME NEW d, Reached(d) PROVE Reached(d)'
  BY ZenonT(60), <1>1, <1>2 DEF Reached, Quiet
<1>3. /\ Known(c) /\ 1 \in DOMAIN todo[t] /\ todo[t][1] = c
  BY ZenonT(60), <1>1, BusyThread DEF Current
<1>4. Reached(c)
  <2>1. c \in Range(todo[t])
    BY ZenonT(60), <1>3 DEF Range
  <2>2. QED
    BY Zenon, <2>1 DEF Recorded, Due
<1>5. /\ DOMAIN stored.calls \subseteq DOMAIN stored'.calls
      /\ DOMAIN stored'.calls \subseteq DOMAIN stored.calls \cup {c}
      /\ stage'[t] \in {"queue", "sent", "record_result", "returned"}
      /\ stage'[t] = "queue" /\ stage[t] = "record" => c \in DOMAIN stored'.calls
  BY Zenon, CallDomain
<1>6. ASSUME NEW d \in DOMAIN stored'.calls PROVE Known(d)' /\ Reached(d)'
  <2>1. Known(d) /\ Reached(d)
    BY ZenonT(60), <1>3, <1>4, <1>5 DEF Recorded
  <2>2. QED
    BY ZenonT(60), <1>2, <2>1
<1>7. stage[t] \in {"queue", "sent", "record_result"} => c \in DOMAIN stored.calls
  BY Zenon DEF Recorded, Fresh
<1>8. happened' \subseteq DOMAIN stored'.calls
  <2>1. happened' \subseteq happened \cup {c} /\ (happened' # happened => stage[t] = "sent")
    <3>1. TakesEffect(c) => happened' \subseteq happened \cup {c}
      BY Zenon DEF TakesEffect
    <3>2. QED
      BY Zenon, <3>1 DEF Pending, Queued, InFlight, Settled
  <2>2. QED
    BY ZenonT(60), <1>5, <1>7, <2>1 DEF Recorded
<1>9. sent' \subseteq sent \cup {c} /\ (sent' # sent => stage[t] = "queue")
  BY Zenon DEF Pending, Queued, InFlight, Settled
<1>10. sent' \subseteq DOMAIN stored'.calls
  BY ZenonT(60), <1>5, <1>7, <1>9 DEF Recorded
<1>11. stage'[t] \in {"queue", "sent", "record_result"} => c \in DOMAIN stored'.calls
  <2>1. stage[t] = "record" /\ stage'[t] # "returned" => stage'[t] = "queue"
    BY ZenonT(60) DEF Pending, Queued, InFlight, Settled
  <2>2. stage[t] # "record" => stage[t] \in {"queue", "sent", "record_result"}
    BY Zenon DEF Pending, Queued, InFlight, Settled
  <2>3. QED
    BY ZenonT(60), <1>5, <1>7, <2>1, <2>2
<1>a. ASSUME NEW u \in Threads PROVE Due(u)'
  <2>1. ASSUME NEW d \in Range(todo'[u]) PROVE Reached(d)'
    <3>1. Reached(d)
      BY Zenon, <1>1, <2>1 DEF Recorded, Due
    <3>2. QED
      BY Zenon, <1>2, <3>1
  <2>2. QED
    BY Zenon, <2>1 DEF Due
<1>12. ASSUME NEW u \in Threads PROVE Fresh(u)'
  <2>1. Fresh(u) /\ Recovering(u)' = Recovering(u)
    BY Zenon, <1>1 DEF Recorded, Recovering
  <2>3. CASE u # t
    <3>1. stage'[u] = stage[u]
      BY ZenonT(60), <1>1, <2>3
    <3>2. \A i \in DOMAIN todo[u] : todo[u][i] # c
      BY ZenonT(60), <1>1, <2>3, OthersDiffer
    <3>3. stage[u] # "record" => 1 \in DOMAIN todo[u] /\ Current(u) # c
      <4>1. stage[u] # "record" => ~Quiet(u)
        BY Zenon DEF Shape, ThreadShape
      <4>2. QED
        BY ZenonT(60), <3>2, <4>1, BusyThread DEF Current
    <3>4. Current(u)' = Current(u) /\ Quiet(u)' = Quiet(u)
      BY Zenon, <1>1 DEF Current, Quiet
    <3>5. ~Quiet(u) => Current(u) # c
      BY ZenonT(60), <3>2, BusyThread DEF Current
    <3>6. QED
      BY ZenonT(60), <1>1, <1>5, <1>9, <2>1, <3>1, <3>2, <3>3, <3>4, <3>5 DEF Fresh
  <2>4. CASE u = t
    <3>1. stage'[t] # "record" /\ Current(t)' = c
      BY ZenonT(60), <1>1, <1>5 DEF Current
    <3>2. \A i \in DOMAIN todo[t] : i # 1 => todo[t][i] # c
      BY SMTT(30), Z3T(30), <1>3 DEF Shape, ThreadShape, IsInjective
    <3>3. ~Recovering(t) => \A i \in DOMAIN todo[t] : i # 1 => todo[t][i] \notin DOMAIN stored'.calls
      BY ZenonT(60), <1>5, <2>1, <2>4, <3>2 DEF Fresh
    <3>4. ~Recovering(t) /\ stage'[t] = "queue" /\ ~Repeatable(c.f) => c \notin sent'
      <4>1. CASE Pending(t, c)
        <5>1. ~Recovering(t) => c \notin DOMAIN stored.calls
          BY ZenonT(60), <1>3, <2>1, <2>4, <4>1 DEF Fresh, Pending
        <5>2. sent' = sent /\ sent \subseteq DOMAIN stored.calls
          BY ZenonT(60), <4>1 DEF Pending, Recorded
        <5>3. QED
          BY ZenonT(60), <5>1, <5>2
      <4>2. CASE Queued(t, c)
        BY ZenonT(60), <2>1, <2>4, <4>2 DEF Fresh, Queued
      <4>3. CASE InFlight(t, c)
        BY Zenon, <4>3 DEF InFlight
      <4>4. CASE Settled(t, c)
        BY ZenonT(60), <4>4 DEF Settled
      <4>5. QED
        BY ZenonT(60), <4>1, <4>2, <4>3, <4>4
    <3>5. Recovering(t) /\ c.action # "release" => c \in DOMAIN stored'.calls
      BY ZenonT(60), <1>1, <1>5, <2>1, <2>4 DEF Fresh
    <3>6. QED
      BY ZenonT(60), <1>1, <1>11, <2>1, <2>4, <3>1, <3>3, <3>4, <3>5 DEF Fresh
  <2>5. QED
    BY ZenonT(60), <2>3, <2>4
<1>14. QED
  BY ZenonT(60), <1>a, <1>6, <1>8, <1>10, <1>12 DEF Recorded

\* Threads only go on, so that what was reached stays reached.
LEMMA ReachedKept ==
  ASSUME NEW c, Known(c), Reached(c), \A u \in Threads : Rank(pc[u]) <= Rank(pc'[u]),
         \A n \in Nodes : scope[n].acquired \in Nat /\ scope'[n].acquired \in Nat,
         \A n \in Nodes : pc'[n] = "acquiring" =>
           \/ Rank(pc[n]) < 2
           \/ /\ pc[n] = "acquiring" /\ scope[n].acquired <= scope'[n].acquired
              /\ (scope[n].acquired < scope'[n].acquired \/ (Quiet(n)' => Quiet(n))),
         pc'[Main] = "closing" =>
           Rank(pc[Main]) < 4 \/ (pc[Main] = "closing" /\ \A n \in Nodes : scope[n].closed => scope'[n].closed),
         pc'[Main] = "finishing" =>
           Rank(pc[Main]) < 3 \/ (pc[Main] = "finishing" /\ told \subseteq told')
  PROVE  Reached(c)'
<1>1. /\ c \in CallSet /\ Owner(c) \in Threads
      /\ c.ev[1] = "credential.acquire" => Owner(c) = c.ev[2] /\ c.ev[2] \in Nodes /\ c.ev[3][1] \in Nat
      /\ c.ev[1] = "credential.release" => c.ev[2] \in Nodes
  <2>1. c \in CallSet /\ Owner(c) \in Threads /\ c.ev[3][1] \in Nat
    BY SMTT(30), Z3T(30), KnownCall DEF Threads, CallSet
  <2>2. c.ev[1] \in LeasePhases => Leased(c)
    BY ZenonT(60), KnownCall
  <2>3. c.ev[1] \in {"credential.acquire", "credential.release"} => c.ev[2] \in Nodes
    BY Zenon, <2>2, LeasedCall DEF LeasePhases
  <2>4. c.ev[1] = "credential.acquire" => Owner(c) = c.ev[2]
    BY ZenonT(60) DEF Owner
  <2>5. QED
    BY ZenonT(60), <2>1, <2>3, <2>4
<1>2. Rank(pc[Owner(c)]) \in Nat /\ Rank(pc'[Owner(c)]) \in Nat /\ Rank(Place(c)) \in Nat
  BY SMTT(60), Z3T(60), RankType
<1>3. Rank(pc'[Owner(c)]) >= Rank(Place(c))
  BY SMTT(30), Z3T(30), <1>1, <1>2 DEF Reached
<1>4. c.ev[1] = "credential.acquire" /\ pc'[c.ev[2]] = "acquiring" =>
       \/ c.ev[3][1] <= scope'[c.ev[2]].acquired
       \/ c.ev[3][1] = scope'[c.ev[2]].acquired + 1 /\ ~Quiet(c.ev[2])'
  <2>1. SUFFICES ASSUME c.ev[1] = "credential.acquire", pc'[c.ev[2]] = "acquiring"
                 PROVE  \/ c.ev[3][1] <= scope'[c.ev[2]].acquired
                        \/ c.ev[3][1] = scope'[c.ev[2]].acquired + 1 /\ ~Quiet(c.ev[2])'
    BY Zenon
  <2> DEFINE n == c.ev[2]
             k == c.ev[3][1]
  <2>2. n \in Nodes /\ k \in Nat /\ Rank(Place(c)) = 2 /\ Rank(pc[n]) >= 2
    BY ZenonT(60), <1>1, <1>2, <2>1, Ranks DEF Reached, Place
  <2>3. /\ pc[n] = "acquiring" /\ scope[n].acquired <= scope'[n].acquired
        /\ (scope[n].acquired < scope'[n].acquired \/ (Quiet(n)' => Quiet(n)))
    BY SMTT(60), Z3T(60), <1>1, <1>2, <2>1, <2>2
  <2>4. k <= scope[n].acquired \/ (k = scope[n].acquired + 1 /\ ~Quiet(n))
    BY Zenon, <2>1, <2>3 DEF Reached
  <2>5. scope[n].acquired \in Nat /\ scope'[n].acquired \in Nat
    BY Zenon, <2>2
  <2> HIDE DEF n, k
  <2>6. k <= scope'[n].acquired \/ (k = scope'[n].acquired + 1 /\ ~Quiet(n)')
    <3>1. CASE k <= scope'[n].acquired
      BY ZenonT(60), <3>1
    <3>2. CASE ~(k <= scope'[n].acquired)
      <4>1. k = scope[n].acquired + 1 /\ ~Quiet(n) /\ scope[n].acquired = scope'[n].acquired
        BY SMTT(60), Z3T(60), <2>2, <2>3, <2>4, <2>5, <3>2
      <4>2. QED
        BY SMTT(60), Z3T(60), <2>3, <2>5, <4>1
    <3>3. QED
      BY Zenon, <3>1, <3>2
  <2>7. QED
    BY ZenonT(60), <2>6 DEF n, k
<1>5. c.ev[1] = "credential.release" /\ pc'[Main] = "closing" => scope'[c.ev[2]].closed
  <2>1. c.ev[1] = "credential.release" => Place(c) = "closing" /\ Owner(c) = Main
    BY ZenonT(60) DEF Place, Owner, NodePhases
  <2>2. QED
    BY SMTT(30), Z3T(30), <1>1, <1>2, <2>1, Ranks DEF Reached
<1>6. c.ev[1] = "node.finished" /\ pc'[Main] = "finishing" => c.ev[2] \in told'
  <2>1. c.ev[1] = "node.finished" => Place(c) = "finishing" /\ Owner(c) = Main
    BY Zenon DEF Place, Owner, NodePhases
  <2>2. QED
    BY SMTT(30), Z3T(30), <1>2, <2>1, Ranks DEF Reached
<1>7. QED
  BY ZenonT(60), <1>3, <1>4, <1>5, <1>6 DEF Reached

\* A step of one thread that records nothing.
LEMMA StepRecorded ==
  ASSUME Recorded, NEW t \in Threads, DOMAIN stored'.calls = DOMAIN stored.calls,
         happened' = happened, sent' = sent,
         \A u \in Threads \ {t} : /\ todo'[u] = todo[u] /\ stage'[u] = stage[u] /\ reply'[u] = reply[u]
                                  /\ Recovering(u)' <=> Recovering(u),
         \A c : Known(c) /\ Reached(c) => Reached(c)',
         \A u \in Threads : \A i \in DOMAIN todo[u] : Known(todo[u][i]),
         Due(t)', Fresh(t)'
  PROVE  Recorded'
<1>1. \A d \in DOMAIN stored'.calls : Known(d)' /\ Reached(d)'
  <2>1. ASSUME NEW d \in DOMAIN stored'.calls PROVE Known(d)' /\ Reached(d)'
    <3>1. Known(d) /\ Reached(d)
      BY ZenonT(60) DEF Recorded
    <3>2. QED
      BY Zenon, <3>1
  <2>2. QED
    BY Zenon, <2>1
<1>2. happened' \subseteq DOMAIN stored'.calls /\ sent' \subseteq DOMAIN stored'.calls
  BY Zenon DEF Recorded
<1>3. ASSUME NEW u \in Threads PROVE Due(u)' /\ Fresh(u)'
  <2>1. CASE u = t
    BY Zenon, <2>1
  <2>2. CASE u # t
    <3>1. todo'[u] = todo[u] /\ stage'[u] = stage[u] /\ (Recovering(u)' <=> Recovering(u))
      BY ZenonT(60), <2>2
    <3>2. ASSUME NEW d \in Range(todo'[u]) PROVE Reached(d)'
      <4>1. Reached(d)
        BY Zenon, <3>1, <3>2 DEF Recorded, Due
      <4>2. Known(d)
        BY ZenonT(60), <3>1, <3>2 DEF Range
      <4>3. QED
        BY Zenon, <4>1, <4>2
    <3>3. Due(u)'
      BY Zenon, <3>2 DEF Due
    <3>4. Fresh(u)
      BY ZenonT(60) DEF Recorded
    <3>5. Current(u)' = Current(u) /\ Quiet(u)' = Quiet(u)
      BY Zenon, <3>1 DEF Current, Quiet
    <3>6. Fresh(u)'
      BY ZenonT(60), <3>1, <3>4, <3>5 DEF Fresh
    <3>7. QED
      BY ZenonT(60), <3>3, <3>6
  <2>3. QED
    BY ZenonT(60), <2>1, <2>2
<1>5. QED
  BY ZenonT(60), <1>1, <1>2, <1>3 DEF Recorded

\* Calls that are begun: none of them is recorded.
LEMMA BegunFresh ==
  ASSUME NEW t, stage'[t] = "record", ~Recovering(t)',
         \A d \in Range(todo'[t]) : Reached(d)' /\ d \notin DOMAIN stored'.calls
  PROVE  Due(t)' /\ Fresh(t)'
<1>1. Due(t)'
  BY Zenon DEF Due
<1>2. \A i \in DOMAIN todo'[t] : todo'[t][i] \notin DOMAIN stored'.calls
  BY Zenon DEF Range
<1>3. QED
  BY ZenonT(60), <1>1, <1>2 DEF Fresh

\* Before the run nothing is recorded.
LEMMA InitRecorded == Init => Recorded
<1>1. SUFFICES ASSUME Init PROVE Recorded
  BY Zenon
<1>2. DOMAIN stored.calls = {} /\ happened = {} /\ sent = {}
  BY SMTT(30), Z3T(30), <1>1 DEF Init
<1>3. \A t \in Threads : todo[t] = <<>> /\ stage[t] = "record"
  BY Zenon, <1>1 DEF Init
<1>4. \A t \in Threads : Due(t)
  BY SMTT(30), Z3T(30), <1>3 DEF Due, Range
<1>5. \A t \in Threads : Fresh(t)
  <2>1. \A t \in Threads : ~Recovering(t)
    BY Zenon, <1>1 DEF Init, Recovering
  <2>2. QED
    BY SMTT(30), Z3T(30), <1>3, <2>1 DEF Fresh
<1>7. QED
  BY ZenonT(60), <1>2, <1>4, <1>5 DEF Recorded

\* The return of a call keeps Recorded.
LEMMA ReturnedRecorded ==
  ASSUME Shape, Recorded, NEW t \in Threads, Returned(t)
  PROVE  Recorded'
<1> DEFINE c == Current(t)
           rest == IF Refusal(t) /\ pc[t] \in {"inputs", "recheck"} THEN <<>> ELSE Tail(todo[t])
<1>1. Ends(t, rest) /\ pc' = pc /\ scope' = scope /\ (t = Main \/ ~IsCredential(c.f))
  BY ZenonT(60), ReturnedEnds
<1> HIDE DEF rest
<1>2. rest \in {<<>>, Tail(todo[t])} /\ ~Quiet(t) /\ todo'[t] = rest /\ stage'[t] = "record"
      /\ told' = told /\ stored' = stored /\ happened' = happened /\ sent' = sent
      /\ \A u \in Threads \ {t} : todo'[u] = todo[u] /\ stage'[u] = stage[u] /\ reply'[u] = reply[u]
  <2>1. rest \in {<<>>, Tail(todo[t])}
    BY Zenon DEF rest
  <2>2. QED
    BY Zenon, <1>1, <2>1 DEF Ends, Shape, Typed
<1>3. t = Main \/ (pc[t] # "acquiring" /\ t \notin Leases)
  <2>1. SUFFICES ASSUME t # Main PROVE pc[t] # "acquiring" /\ t \notin Leases
    BY Zenon
  <2>2. ~IsCredential(c.f) /\ Known(c) /\ Owner(c) = t /\ Place(c) = pc[t]
    BY ZenonT(60), <1>1, <1>2, <2>1, BusyThread
  <2>3. c.ev[1] \notin LeasePhases
    BY ZenonT(60), <2>2, KnownCall
  <2>4. Place(c) \notin {"acquiring", "renewing"}
    BY Zenon, <2>3 DEF Place, LeasePhases
  <2>5. QED
    BY ZenonT(60), <2>2, <2>4, KnownCall, Threading
<1>4. ASSUME NEW d, Known(d), Reached(d) PROVE Reached(d)'
  <2>1. \A n \in Nodes : scope[n].acquired \in Nat /\ scope'[n].acquired \in Nat
    BY Zenon, <1>1 DEF Shape, Typed, Scope
  <2>2. \A u \in Threads : Rank(pc[u]) <= Rank(pc'[u])
    BY SMTT(30), Z3T(30), <1>1, RankType
  <2>3. \A n \in Nodes : pc'[n] = "acquiring" =>
           /\ pc[n] = "acquiring" /\ scope[n].acquired <= scope'[n].acquired
           /\ (Quiet(n)' => Quiet(n))
    BY SMTT(30), Z3T(30), <1>1, <1>2, <1>3, <2>1, Threading DEF Quiet
  <2>4. pc'[Main] = pc[Main] /\ told \subseteq told' /\ \A n \in Nodes : scope[n].closed => scope'[n].closed
    BY ZenonT(60), <1>1, <1>2
  <2>5. QED
    BY ZenonT(60), <1>4, <2>1, <2>2, <2>3, <2>4, ReachedKept
<1>5. \A u \in Threads : \A i \in DOMAIN todo[u] : Known(todo[u][i])
  BY Zenon DEF Shape, ThreadShape
<1>6. \A i \in DOMAIN rest : i + 1 \in DOMAIN todo[t] /\ rest[i] = todo[t][i + 1] /\ i \in Nat \ {0}
  BY ZenonT(60), <1>2, RestCalls
<1>7. Due(t)'
  <2>1. ASSUME NEW d \in Range(todo'[t]) PROVE Reached(d)'
    <3>1. PICK i \in DOMAIN rest : d = rest[i]
      BY Zenon, <1>2, <2>1 DEF Range
    <3>2. d \in Range(todo[t]) /\ Known(d)
      BY ZenonT(60), <1>5, <1>6, <3>1 DEF Range
    <3>3. QED
      BY ZenonT(60), <1>4, <3>2 DEF Recorded, Due
  <2>2. QED
    BY Zenon, <2>1 DEF Due
<1>8. Fresh(t)'
  <2>1. Fresh(t) /\ (Recovering(t)' <=> Recovering(t))
    BY Zenon, <1>1 DEF Recorded, Recovering
  <2>2. ~Recovering(t) => \A i \in DOMAIN rest : rest[i] \notin DOMAIN stored.calls
    <3>1. \A i \in DOMAIN rest : i + 1 # 1
      BY SMTT(30), Z3T(30), <1>6
    <3>2. QED
      BY ZenonT(60), <1>6, <2>1, <3>1 DEF Fresh
  <2>3. Recovering(t) => Quiet(t)'
    <3>1. Recovering(t) => \A i \in DOMAIN todo[t] : i = 1
      BY ZenonT(60) DEF Shape, ThreadShape
    <3>2. Recovering(t) => DOMAIN rest = {}
      <4>1. ASSUME Recovering(t), NEW i \in DOMAIN rest PROVE FALSE
        <5>1. i + 1 = 1 /\ i \in Nat \ {0}
          BY ZenonT(60), <1>6, <3>1, <4>1
        <5>2. QED
          BY SMTT(30), Z3T(30), <5>1
      <4>2. QED
        BY Zenon, <4>1
    <3>3. rest \in Seq(CallSet)
      BY ZenonT(60), <1>2, RestCalls
    <3>4. QED
      BY SMTT(60), Z3T(60), <1>2, <3>2, <3>3 DEF Quiet
  <2>4. QED
    BY ZenonT(60), <1>2, <2>1, <2>2, <2>3 DEF Fresh
<1>9. DOMAIN stored'.calls = DOMAIN stored.calls /\ (\A u \in Threads : Recovering(u)' <=> Recovering(u))
  BY Zenon, <1>1, <1>2 DEF Recovering
<1>10. \A l \in Leases : l # t /\ pc'[l] = pc[l]
  BY Zenon, <1>1, <1>3, Threading
<1>11. QED
  BY ZenonT(60), <1>2, <1>4, <1>5, <1>7, <1>8, <1>9, <1>10, StepRecorded

\* The end of a renewal keeps Recorded.
LEMMA RenewedRecorded ==
  ASSUME Shape, Recorded, NEW l \in Leases, Renewed(l)
  PROVE  Recorded'
<1>1. Ends(l, <<>>) /\ pc[l] = "renewing" /\ scope' = scope
  BY Zenon, RenewedStep
<1>2. PICK to \in {"timer", "losing"} : /\ to = "timer" => reply[l] = "done"
                                        /\ pc' = [pc EXCEPT ![l] = to]
  BY Zenon, RenewedStep
<1>3. /\ l \in Threads /\ todo'[l] = <<>> /\ stage'[l] = "record" /\ stage[l] = "returned"
      /\ told' = told /\ stored' = stored /\ happened' = happened /\ sent' = sent
      /\ pc'[l] = to /\ (\A u \in Threads \ {l} : pc'[u] = pc[u])
      /\ \A u \in Threads \ {l} : todo'[u] = todo[u] /\ stage'[u] = stage[u] /\ reply'[u] = reply[u]
  BY ZenonT(60), <1>1, <1>2, Threading DEF Ends, Shape, Typed
<1>4. ASSUME NEW d, Known(d), Reached(d) PROVE Reached(d)'
  <2>1. \A n \in Nodes : scope[n].acquired \in Nat /\ scope'[n].acquired \in Nat
    BY ZenonT(60), <1>1 DEF Shape, Typed, Scope
  <2>2. \A u \in Threads : Rank(pc[u]) <= Rank(pc'[u])
    BY SMTT(60), Z3T(60), <1>1, <1>3, RankType, Ranks
  <2>3. \A n \in Nodes : pc'[n] = "acquiring" =>
           /\ pc[n] = "acquiring" /\ scope[n].acquired <= scope'[n].acquired
           /\ (Quiet(n)' => Quiet(n))
    BY SMTT(30), Z3T(30), <1>1, <1>3, <2>1, Threading DEF Quiet
  <2>4. pc'[Main] = pc[Main] /\ told \subseteq told' /\ \A n \in Nodes : scope[n].closed => scope'[n].closed
    BY ZenonT(60), <1>1, <1>3, Threading
  <2>5. QED
    BY ZenonT(60), <1>4, <2>1, <2>2, <2>3, <2>4, ReachedKept
<1>5. \A u \in Threads : \A i \in DOMAIN todo[u] : Known(todo[u][i])
  BY Zenon DEF Shape, ThreadShape
<1>6. ~Recovering(l)' /\ \A u \in Threads \ {l} : (Recovering(u)' <=> Recovering(u))
  BY Zenon, <1>2, <1>3 DEF Recovering
<1>7. Due(l)' /\ Fresh(l)'
  <2>1. \A d \in Range(todo'[l]) : Reached(d)' /\ d \notin DOMAIN stored'.calls
    BY SMTT(30), Z3T(30), <1>3 DEF Range
  <2>2. QED
    BY ZenonT(60), <1>3, <1>6, <2>1, BegunFresh
<1>10. DOMAIN stored'.calls = DOMAIN stored.calls
  BY Zenon, <1>3
<1>11. QED
  BY ZenonT(60), <1>3, <1>4, <1>5, <1>6, <1>7, <1>10, StepRecorded

\* The end of an acquisition keeps Recorded.
LEMMA AcquiredRecorded ==
  ASSUME Shape, Recorded, NEW n \in Nodes, Acquired(n)
  PROVE  Recorded'
<1> DEFINE L == <<n, scope[n].acquired + 1>>
<1>1. Ends(n, <<>>) /\ Current(n).action = "acquire"
  BY Zenon, AcquiredStep
<1>2. PICK err, renew \in BOOLEAN :
        /\ scope' = [scope EXCEPT ![n] =
                       [acquired |-> @.acquired + 1, err |-> err, closed |-> @.closed,
                        leases |-> IF reply[n] \in {"done", "unrecorded"}
                                   THEN Append(@.leases, L) ELSE @.leases]]
        /\ pc' = [pc EXCEPT ![L] = IF renew THEN "timer" ELSE @]
  BY Zenon, AcquiredStep
<1>3. ~Quiet(n)
  BY Zenon, <1>1 DEF Ends
<1>a. pc[n] = "acquiring" /\ L \in Leases /\ pc[L] = "none" /\ scope[n].acquired \in Nat
  BY ZenonT(60), <1>1, <1>3, AcquiringCall
<1> HIDE DEF L
<1>b. PICK l \in Leases : l = L
  BY Zenon, <1>a
<1>4. pc[n] = "acquiring" /\ pc[l] = "none" /\ scope[n].acquired \in Nat
  BY Zenon, <1>a, <1>b
<1>5. /\ n \in Threads /\ todo'[n] = <<>> /\ stage'[n] = "record"
      /\ told' = told /\ stored' = stored /\ happened' = happened /\ sent' = sent
      /\ \A u \in Threads \ {n} : todo'[u] = todo[u] /\ stage'[u] = stage[u] /\ reply'[u] = reply[u]
  BY ZenonT(60), <1>1, Threading DEF Ends, Shape, Typed
<1>6. pc'[l] \in {"none", "timer"} /\ (\A u \in Threads \ {l} : pc'[u] = pc[u])
  BY ZenonT(60), <1>2, <1>4, <1>b, Threading DEF Shape, Typed
<1>7. /\ scope'[n].acquired = scope[n].acquired + 1 /\ scope'[n].closed = scope[n].closed
      /\ \A m \in Nodes \ {n} : scope'[m] = scope[m]
  BY Zenon, <1>2 DEF Shape, Typed
<1>8. ASSUME NEW d, Known(d), Reached(d) PROVE Reached(d)'
  <2>0. \A m \in Nodes : scope[m].acquired \in Nat
    BY Zenon DEF Shape, Typed, Scope
  <2>1. \A m \in Nodes : scope[m].acquired \in Nat /\ scope'[m].acquired \in Nat
    BY SMTT(30), Z3T(30), <1>7, <2>0
  <2>2. \A u \in Threads : Rank(pc[u]) <= Rank(pc'[u])
    BY SMTT(30), Z3T(30), <1>4, <1>6, RankType, Ranks
  <2>3. \A m \in Nodes : pc'[m] = "acquiring" =>
           /\ pc[m] = "acquiring" /\ scope[m].acquired <= scope'[m].acquired
           /\ (scope[m].acquired < scope'[m].acquired \/ (Quiet(m)' => Quiet(m)))
    <3>1. ASSUME NEW m \in Nodes, pc'[m] = "acquiring"
          PROVE  /\ pc[m] = "acquiring" /\ scope[m].acquired <= scope'[m].acquired
                 /\ (scope[m].acquired < scope'[m].acquired \/ (Quiet(m)' => Quiet(m)))
      <4>1. CASE m = n
        BY SMTT(60), Z3T(60), <1>4, <1>7, <4>1
      <4>2. CASE m # n
        BY SMTT(60), Z3T(60), <1>4, <1>5, <1>6, <1>7, <2>0, <3>1, <4>2, Threading DEF Quiet
      <4>3. QED
        BY ZenonT(60), <4>1, <4>2
    <3>2. QED
      BY Zenon, <3>1
  <2>4. pc'[Main] = pc[Main] /\ told \subseteq told' /\ \A m \in Nodes : scope[m].closed => scope'[m].closed
    BY ZenonT(60), <1>4, <1>5, <1>6, <1>7, Threading
  <2>5. QED
    BY ZenonT(60), <1>8, <2>1, <2>2, <2>3, <2>4, ReachedKept
<1>9. \A u \in Threads : \A i \in DOMAIN todo[u] : Known(todo[u][i])
  BY Zenon DEF Shape, ThreadShape
<1>10. ~Recovering(n)' /\ \A u \in Threads \ {n} : (Recovering(u)' <=> Recovering(u))
  BY Zenon, <1>4, <1>6, Threading DEF Recovering
<1>11. Due(n)' /\ Fresh(n)'
  <2>1. \A d \in Range(todo'[n]) : Reached(d)' /\ d \notin DOMAIN stored'.calls
    BY SMTT(30), Z3T(30), <1>5 DEF Range
  <2>2. QED
    BY ZenonT(60), <1>5, <1>10, <2>1, BegunFresh
<1>14. DOMAIN stored'.calls = DOMAIN stored.calls
  BY Zenon, <1>5
<1>15. QED
  BY ZenonT(60), <1>5, <1>8, <1>9, <1>10, <1>11, <1>14, StepRecorded

\* What a thread reaches only now was not recorded before.
LEMMA Unreached ==
  ASSUME Recorded, NEW t, NEW to, NEW cs, Batch(t, to, cs), Rank(pc[t]) < Rank(to), NEW i \in DOMAIN cs
  PROVE  cs[i] \notin DOMAIN stored.calls
<1>1. Owner(cs[i]) = t /\ Place(cs[i]) = to
  BY ZenonT(60) DEF Batch
<1>2. cs[i] \in DOMAIN stored.calls => Rank(pc[t]) >= Rank(to)
  BY Zenon, <1>1 DEF Recorded, Reached
<1>3. Rank(pc[t]) \in Nat /\ Rank(to) \in Nat
  BY SMTT(30), Z3T(30), RankType
<1>4. QED
  BY SMTT(30), Z3T(30), <1>2, <1>3

\* A thread that goes on to calls that were not recorded keeps Recorded.
LEMMA MoveRecorded ==
  ASSUME Shape, Recorded, NEW t \in Threads, NEW from, NEW to, NEW cs, Move(t, from, to, cs),
         to # "recovering", Rank(from) <= Rank(to),
         \A n \in Nodes : scope'[n].acquired = scope[n].acquired /\ scope'[n].closed = scope[n].closed,
         to = "acquiring" => Rank(from) < 2,
         to = "closing" => Rank(from) < 4,
         to = "finishing" => Rank(from) < 3,
         \A i \in DOMAIN cs : /\ cs[i] \notin DOMAIN stored.calls
                              /\ cs[i].ev[1] \notin {"credential.acquire", "credential.release", "node.finished"}
  PROVE  Recorded'
<1>1. /\ pc'[t] = to /\ todo'[t] = cs /\ stage'[t] = "record"
      /\ \A u \in Threads \ {t} : pc'[u] = pc[u] /\ todo'[u] = todo[u] /\ stage'[u] = stage[u]
  <2>1. Moved(t, to, cs)
    BY Zenon, MoveThreads
  <2>2. QED
    BY Zenon, <2>1 DEF Moved
<1>2. /\ pc[t] = from /\ stored'.calls = stored.calls /\ happened' = happened /\ sent' = sent
      /\ told' = told /\ reply' = reply /\ Quiet(t) /\ Batch(t, to, cs)
  BY Zenon DEF Move
<1>3. ASSUME NEW d, Known(d), Reached(d) PROVE Reached(d)'
  <2>1. \A n \in Nodes : scope[n].acquired \in Nat /\ scope'[n].acquired \in Nat
    BY ZenonT(60) DEF Shape, Typed, Scope
  <2>2. \A u \in Threads : Rank(pc[u]) <= Rank(pc'[u])
    BY SMTT(60), Z3T(60), <1>1, <1>2, RankType
  <2>3. \A n \in Nodes : pc'[n] = "acquiring" =>
           \/ Rank(pc[n]) < 2
           \/ /\ pc[n] = "acquiring" /\ scope[n].acquired <= scope'[n].acquired
              /\ (Quiet(n)' => Quiet(n))
    BY SMTT(30), Z3T(30), <1>1, <1>2, <2>1, Threading DEF Quiet
  <2>4. pc'[Main] = "closing" =>
           Rank(pc[Main]) < 4 \/ (pc[Main] = "closing" /\ \A n \in Nodes : scope[n].closed => scope'[n].closed)
    BY ZenonT(60), <1>1, <1>2, Threading
  <2>5. pc'[Main] = "finishing" =>
           Rank(pc[Main]) < 3 \/ (pc[Main] = "finishing" /\ told \subseteq told')
    BY ZenonT(60), <1>1, <1>2, Threading
  <2>6. QED
    BY ZenonT(60), <1>3, <2>1, <2>2, <2>3, <2>4, <2>5, ReachedKept
<1>4. \A u \in Threads : \A i \in DOMAIN todo[u] : Known(todo[u][i])
  BY ZenonT(60) DEF Shape, ThreadShape
<1>5. ~Recovering(t)' /\ \A u \in Threads \ {t} : (Recovering(u)' <=> Recovering(u))
  BY Zenon, <1>1 DEF Recovering
<1>6. Due(t)' /\ Fresh(t)'
  <2>1. ASSUME NEW d \in Range(todo'[t]) PROVE Reached(d)' /\ d \notin DOMAIN stored'.calls
    <3>1. PICK i \in DOMAIN cs : d = cs[i]
      BY Zenon, <1>1, <2>1 DEF Range
    <3>2. Owner(d) = t /\ Place(d) = to
      BY Zenon, <1>2, <3>1 DEF Batch
    <3>3. d.ev[1] \notin {"credential.acquire", "credential.release", "node.finished"}
      BY ZenonT(60), <3>1
    <3>4. Reached(d)'
      BY SMTT(60), Z3T(60), <1>1, <3>2, <3>3, RankType DEF Reached
    <3>5. QED
      BY ZenonT(60), <1>2, <3>1, <3>4
  <2>2. QED
    BY ZenonT(60), <1>1, <1>5, <2>1, BegunFresh
<1>8. QED
  BY ZenonT(60), <1>1, <1>2, <1>3, <1>4, <1>5, <1>6, StepRecorded

\* A node that goes on keeps Recorded.
LEMMA NodeMoveRecorded ==
  ASSUME Shape, Recorded, NEW n \in Nodes, NEW from, NEW to, NEW cs, NodeMove(n, from, to, cs)
  PROVE  Recorded'
<1>1. /\ Move(n, from, to, cs) /\ scope' = scope /\ to \in NodePlaces \ {"prepare"} /\ Rank(from) < Rank(to)
      /\ to = "acquiring" => cs = <<>>
  BY Zenon DEF NodeMove
<1>2. n \in Threads /\ n \notin Leases /\ n # Main
  BY Zenon, Threading
<1>3. pc[n] = from /\ Batch(n, to, cs)
  BY ZenonT(60), <1>1 DEF Move
<1>4. Rank(from) \in Nat /\ Rank(to) \in Nat /\ Rank("acquiring") = 2
  BY SMTT(30), Z3T(30), RankType, Ranks
<1>5. ASSUME NEW i \in DOMAIN cs
      PROVE  /\ cs[i] \notin DOMAIN stored.calls
             /\ cs[i].ev[1] \notin {"credential.acquire", "credential.release", "node.finished"}
  <2>1. cs[i] \notin DOMAIN stored.calls
    BY ZenonT(60), <1>1, <1>3, Unreached
  <2>2. Owner(cs[i]) = n /\ Place(cs[i]) = to /\ to # "acquiring"
    BY SMTT(30), Z3T(30), <1>1, <1>3 DEF Batch
  <2>3. cs[i].ev[1] # "credential.acquire"
    BY Zenon, <2>2 DEF Place
  <2>4. cs[i].ev[1] \notin {"credential.release", "node.finished"}
    BY Zenon, <1>2, <2>2 DEF Owner, NodePhases
  <2>5. QED
    BY Zenon, <2>1, <2>3, <2>4
<1>6. to \notin {"recovering", "closing", "finishing"}
  BY Zenon, <1>1 DEF NodePlaces
<1>7. QED
  BY SMTT(60), Z3T(60), <1>1, <1>2, <1>4, <1>5, <1>6, MoveRecorded

\* Main going on keeps Recorded.
LEMMA MainMoveRecorded ==
  ASSUME Shape, Recorded, NEW from, NEW to, NEW cs, MainMove(from, to, cs)
  PROVE  Recorded'
<1>1. /\ Move(Main, from, to, cs) /\ scope' = scope /\ to \in MainPlaces \ {"start", "recovering"}
      /\ Rank(from) < Rank(to) \/ (from = "recovering" /\ to = "over" /\ cs = <<>>)
      /\ \A i \in DOMAIN cs : cs[i].ev[1] \notin {"credential.release", "node.finished"}
  BY Zenon DEF MainMove
<1>2. Main \in Threads /\ Main \notin Leases /\ Main \notin Nodes
  BY Zenon, Threading
<1>3. pc[Main] = from /\ Batch(Main, to, cs)
  BY Zenon, <1>1 DEF Move
<1>4. /\ Rank(from) \in Nat /\ Rank(to) \in Nat /\ Rank("closing") = 4 /\ Rank("finishing") = 3
      /\ Rank("recovering") = 12 /\ Rank("over") = 12
  BY SMTT(30), Z3T(30), RankType, Ranks
<1>5. ASSUME NEW i \in DOMAIN cs
      PROVE  /\ cs[i] \notin DOMAIN stored.calls
             /\ cs[i].ev[1] \notin {"credential.acquire", "credential.release", "node.finished"}
  <2>1. Rank(from) < Rank(to)
    BY SMTT(30), Z3T(30), <1>1, <1>5
  <2>2. cs[i] \notin DOMAIN stored.calls
    BY ZenonT(60), <1>3, <2>1, Unreached
  <2>3. Owner(cs[i]) = Main /\ Known(cs[i])
    BY Zenon, <1>3 DEF Batch
  <2>4. cs[i].ev[1] # "credential.acquire"
    <3>1. cs[i].ev[1] = "credential.acquire" => Leased(cs[i])
      BY Zenon, <2>3, KnownCall DEF LeasePhases
    <3>2. QED
      BY ZenonT(60), <1>2, <2>3, <3>1, LeasedCall
  <2>5. QED
    BY ZenonT(60), <1>1, <2>2, <2>4
<1>6. to \notin {"recovering", "acquiring"}
  BY Zenon, <1>1 DEF MainPlaces
<1>7. Rank(from) <= Rank(to) /\ (to = "closing" => Rank(from) < 4) /\ (to = "finishing" => Rank(from) < 3)
  BY SMTT(30), Z3T(30), <1>1, <1>4
<1>8. QED
  BY ZenonT(60), <1>1, <1>2, <1>5, <1>6, <1>7, MoveRecorded

\* A renewal, the loss and the end of a lease keep Recorded.
LEMMA LeaseMoveRecorded ==
  ASSUME Shape, Recorded, NEW l \in Leases, NEW from, NEW to, NEW cs, LeaseMove(l, from, to, cs)
  PROVE  Recorded'
<1>1. /\ Move(l, from, to, cs) /\ from \in {"timer", "losing"} /\ to \in {"renewing", "losing", "gone"}
      /\ \A n \in Nodes : scope'[n].acquired = scope[n].acquired /\ scope'[n].closed = scope[n].closed
      /\ to # "renewing" => cs = <<>>
      /\ to = "renewing" => \E k \in Nat : cs = <<RenewCall(l, k)>> /\ RenewCall(l, k) \notin DOMAIN stored.calls
  BY Zenon DEF LeaseMove
<1>2. l \in Threads
  BY Zenon, Threading
<1>8. ASSUME NEW i \in DOMAIN cs
      PROVE  /\ cs[i] \notin DOMAIN stored.calls
             /\ cs[i].ev[1] \notin {"credential.acquire", "credential.release", "node.finished"}
  <2>1. PICK k \in Nat : cs = <<RenewCall(l, k)>> /\ RenewCall(l, k) \notin DOMAIN stored.calls
    BY SMTT(30), Z3T(30), <1>1, <1>8
  <2>2. cs[i] = RenewCall(l, k)
    BY SMTT(60), Z3T(60), <1>8, <2>1
  <2>3. cs[i].ev[1] = "credential.renew"
    BY SMTT(60), Z3T(60), <2>2, LeaseCalls
  <2>4. QED
    BY ZenonT(60), <2>1, <2>2, <2>3
<1>9. /\ Rank(from) <= Rank(to)
      /\ to \notin {"recovering", "acquiring", "closing", "finishing"}
  BY SMTT(30), Z3T(30), <1>1, Ranks
<1>10. QED
  BY ZenonT(60), <1>1, <1>2, <1>8, <1>9, MoveRecorded

\* The next acquisition was not recorded before.
LEMMA AcquireNextRecorded ==
  ASSUME Shape, Recorded, NEW n \in Nodes, AcquireNext(n)
  PROVE  Recorded'
<1>1. PICK c : c = AcquireCall(n, scope[n].acquired + 1)
  BY Zenon
<1>2. /\ Quiet(n) /\ pc[n] = "acquiring" /\ pc' = pc /\ scope' = scope /\ told' = told
      /\ todo' = [todo EXCEPT ![n] = <<c>>] /\ stage' = stage /\ reply' = reply /\ stored' = stored
      /\ happened' = happened /\ sent' = sent
  BY ZenonT(60), <1>1, AcquireNextStep
<1>3. /\ n \in Threads /\ todo'[n] = <<c>> /\ stage'[n] = "record"
      /\ \A u \in Threads \ {n} : todo'[u] = todo[u]
  BY SMTT(30), Z3T(30), <1>2, Threading DEF Shape, Typed, ThreadShape
<1>4. c.ev = <<"credential.acquire", n, <<scope[n].acquired + 1, 0>>>> /\ scope[n].acquired \in Nat
  BY Zenon, <1>1 DEF AcquireCall, Call, Shape, Typed, Scope
<1>5. ASSUME NEW d, Known(d), Reached(d) PROVE Reached(d)'
  <2>1. \A m \in Nodes : scope[m].acquired \in Nat /\ scope'[m].acquired \in Nat
    BY Zenon, <1>2 DEF Shape, Typed, Scope
  <2>2. \A u \in Threads : Rank(pc[u]) <= Rank(pc'[u])
    BY SMTT(60), Z3T(60), <1>2, RankType
  <2>3. \A m \in Nodes : pc'[m] = "acquiring" =>
           /\ pc[m] = "acquiring" /\ scope[m].acquired <= scope'[m].acquired
           /\ (Quiet(m)' => Quiet(m))
    BY SMTT(60), Z3T(60), <1>2, <1>3, <2>1, Threading DEF Quiet
  <2>4. pc'[Main] = pc[Main] /\ told \subseteq told' /\ \A m \in Nodes : scope[m].closed => scope'[m].closed
    BY ZenonT(60), <1>2
  <2>5. QED
    BY ZenonT(60), <1>5, <2>1, <2>2, <2>3, <2>4, ReachedKept
<1>6. \A u \in Threads : \A i \in DOMAIN todo[u] : Known(todo[u][i])
  BY Zenon DEF Shape, ThreadShape
<1>7. ~Recovering(n)' /\ \A u \in Threads \ {n} : (Recovering(u)' <=> Recovering(u))
  BY Zenon, <1>2 DEF Recovering
<1>8. c \notin DOMAIN stored.calls
  <2>1. ~Reached(c)
    BY SMTT(60), Z3T(60), <1>2, <1>4 DEF Reached
  <2>2. QED
    BY ZenonT(60), <2>1 DEF Recorded
<1>9. Reached(c)'
  <2>1. Owner(c) = n /\ Place(c) = "acquiring"
    BY SMTT(60), Z3T(60), <1>4 DEF Owner, Place, NodePhases
  <2>2. ~Quiet(n)'
    BY SMTT(30), Z3T(30), <1>3 DEF Quiet
  <2>3. Rank(pc'[n]) >= Rank(Place(c))
    BY SMTT(30), Z3T(30), <1>2, <2>1, Ranks
  <2>4. QED
    BY SMTT(60), Z3T(60), <1>2, <1>4, <2>1, <2>2, <2>3 DEF Reached
<1>10. Due(n)' /\ Fresh(n)'
  <2>1. \A d \in Range(todo'[n]) : Reached(d)' /\ d \notin DOMAIN stored'.calls
    <3>1. Range(<<c>>) = {c}
      BY SMTT(30), Z3T(30) DEF Range
    <3>2. QED
      BY ZenonT(60), <1>2, <1>3, <1>8, <1>9, <3>1
  <2>2. QED
    BY ZenonT(60), <1>3, <1>7, <2>1, BegunFresh
<1>11. \A l \in Leases : l # n /\ pc'[l] = pc[l]
  BY Zenon, <1>2, Threading
<1>12. QED
  BY ZenonT(60), <1>2, <1>3, <1>5, <1>6, <1>7, <1>10, <1>11, StepRecorded

\* Main staying where it is keeps Recorded.
LEMMA StayRecorded ==
  ASSUME Shape, Recorded, NEW cs, MainStay(cs), pc[Main] \in {"finishing", "closing"},
         \A n \in Nodes : /\ scope'[n].acquired = scope[n].acquired
                          /\ scope[n].closed => scope'[n].closed,
         told \subseteq told',
         \A d \in Range(cs) : Reached(d)' /\ d \notin DOMAIN stored.calls
  PROVE  Recorded'
<1>1. /\ pc' = pc /\ stage' = stage /\ reply' = reply /\ stored' = stored /\ happened' = happened /\ sent' = sent
      /\ Quiet(Main)
  BY Zenon DEF MainStay
<1>2. /\ Main \in Threads /\ todo'[Main] = cs /\ stage'[Main] = "record"
      /\ \A u \in Threads \ {Main} : todo'[u] = todo[u]
  <2>1. pc[Main] \notin {"running", "recovering"}
    BY Zenon
  <2>2. todo'[Main] = cs /\ \A u \in Threads \ {Main} : todo'[u] = todo[u]
    BY Zenon, <2>1, StayThreads
  <2>3. QED
    BY ZenonT(60), <1>1, <2>2, Threading DEF Shape, ThreadShape
<1>3. ASSUME NEW d, Known(d), Reached(d) PROVE Reached(d)'
  <2>1. \A m \in Nodes : scope[m].acquired \in Nat /\ scope'[m].acquired \in Nat
    BY ZenonT(60) DEF Shape, Typed, Scope
  <2>2. \A u \in Threads : Rank(pc[u]) <= Rank(pc'[u])
    BY SMTT(60), Z3T(60), <1>1, RankType
  <2>3. \A m \in Nodes : pc'[m] = "acquiring" =>
           /\ pc[m] = "acquiring" /\ scope[m].acquired <= scope'[m].acquired
           /\ (Quiet(m)' => Quiet(m))
    BY SMTT(60), Z3T(60), <1>1, <1>2, <2>1, Threading DEF Quiet
  <2>4. pc'[Main] = pc[Main]
    BY Zenon, <1>1
  <2>5. QED
    BY ZenonT(60), <1>3, <2>1, <2>2, <2>3, <2>4, ReachedKept
<1>4. \A u \in Threads : \A i \in DOMAIN todo[u] : Known(todo[u][i])
  BY Zenon DEF Shape, ThreadShape
<1>5. ~Recovering(Main)' /\ \A u \in Threads : (Recovering(u)' <=> Recovering(u))
  BY Zenon, <1>1 DEF Recovering
<1>6. Due(Main)' /\ Fresh(Main)'
  <2>1. \A d \in Range(todo'[Main]) : Reached(d)' /\ d \notin DOMAIN stored'.calls
    BY Zenon, <1>1, <1>2
  <2>2. QED
    BY ZenonT(60), <1>2, <1>5, <2>1, BegunFresh
<1>7. \A l \in Leases : l # Main /\ pc'[l] = pc[l]
  BY Zenon, <1>1, Threading
<1>8. QED
  BY ZenonT(60), <1>1, <1>2, <1>3, <1>4, <1>5, <1>6, <1>7, StepRecorded

\* The node.finished events of a node are new.
LEMMA FinishNodeRecorded ==
  ASSUME Shape, Recorded, NEW n \in Nodes, FinishNode(n)
  PROVE  Recorded'
<1>1. /\ MainStay(Emit("node.finished", n)) /\ scope' = scope /\ pc[Main] = "finishing"
      /\ told' = told \cup {n} /\ n \notin told
  BY ZenonT(60), FinishNodeStep
<1>2. pc' = pc
  BY Zenon, <1>1 DEF MainStay
<1>3. ASSUME NEW d \in Range(Emit("node.finished", n))
      PROVE  Reached(d)' /\ d \notin DOMAIN stored.calls
  <2>1. d.ev = <<"node.finished", n, <<0, 0>>>>
    <3>1. "node.finished" \in MainPhases /\ "node.finished" \notin NodePhases
      BY ZenonT(60) DEF MainPhases, NodePhases
    <3>2. \A i \in DOMAIN Emit("node.finished", n) : Emit("node.finished", n)[i].ev = <<"node.finished", n, <<0, 0>>>>
      BY Zenon, <3>1, EmitCalls
    <3>3. QED
      BY Zenon, <1>3, <3>2 DEF Range
  <2>2. Owner(d) = Main /\ Place(d) = "finishing"
    BY SMTT(60), Z3T(60), <2>1 DEF Owner, Place, NodePhases
  <2>3. ~Reached(d)
    BY SMTT(30), Z3T(30), <1>1, <2>1 DEF Reached
  <2>4. Reached(d)'
    <3>1. d.ev[1] = "node.finished" /\ d.ev[2] = n
      BY SMTT(30), <2>1
    <3>2. n \in told'
      BY Zenon, <1>1
    <3>3. pc'[Main] = "finishing"
      BY ZenonT(60), <1>1, <1>2
    <3>4. Rank("finishing") >= Rank("finishing")
      BY SMTT(30), Z3T(30), RankType
    <3>5. Owner(d)' = Main /\ Place(d)' = "finishing"
      BY Zenon, <2>2
    <3>6. Rank(pc'[Owner(d)']) >= Rank(Place(d)')
      BY ZenonT(60), <3>3, <3>4, <3>5
    <3>7. "node.finished" # "credential.acquire" /\ "node.finished" # "credential.release"
      BY Zenon
    <3>8. QED
      BY ZenonT(60), <3>1, <3>2, <3>6, <3>7 DEF Reached
  <2>5. QED
    BY Zenon, <2>3, <2>4 DEF Recorded
<1>4. QED
  BY Zenon, <1>1, <1>3, StayRecorded

\* The releases of a node are new.
LEMMA CloseScopeRecorded ==
  ASSUME Shape, Recorded, NEW n \in Nodes, CloseScope(n)
  PROVE  Recorded'
<1> DEFINE ls == scope[n].leases
           cs == [i \in DOMAIN ls |-> ReleaseCall(Reverse(ls)[i], 0)]
<1>1. /\ MainStay(cs) /\ pc[Main] = "closing" /\ told' = told
      /\ ~scope[n].closed /\ scope'[n].closed
      /\ \A m \in Nodes : /\ scope'[m].acquired = scope[m].acquired
                          /\ m # n => scope'[m].closed = scope[m].closed
      /\ ls \in Seq(Leases) /\ IsInjective(ls)
      /\ \A i \in DOMAIN ls : ls[i][1] = n
  BY Zenon, CloseScopeStep
<1>2. pc' = pc
  <2> HIDE DEF cs
  <2>1. QED
    BY Zenon, <1>1 DEF MainStay
<1>3. ASSUME NEW d \in Range(cs)
      PROVE  Reached(d)' /\ d \notin DOMAIN stored.calls
  <2>1. PICK i \in DOMAIN ls : d = ReleaseCall(Reverse(ls)[i], 0)
    BY Zenon, <1>3 DEF Range
  <2>2. PICK j \in DOMAIN ls : Reverse(ls)[i] = ls[j]
    <3> HIDE DEF ls
    <3>1. QED
      BY Zenon, <1>1, <2>1, ReleaseBatch
  <2>3. d.ev[1] = "credential.release" /\ d.ev[2] = n
    <3> HIDE DEF ls
    <3>1. d = ReleaseCall(ls[j], 0) /\ ls[j][1] = n
      BY Zenon, <1>1, <2>1, <2>2
    <3>2. ReleaseCall(ls[j], 0).ev[1] = "credential.release" /\ ReleaseCall(ls[j], 0).ev[2] = ls[j][1]
      BY Zenon, ReleaseEvent
    <3>3. QED
      BY Zenon, <3>1, <3>2
  <2>4. Owner(d) = Main /\ Place(d) = "closing"
    BY Zenon, <2>3, ReleasePlace
  <2> HIDE DEF ls
  <2>5. ~Reached(d)
    BY ZenonT(60), <1>1, <2>3 DEF Reached
  <2>6. Reached(d)'
    BY SMTT(30), Z3T(30), <1>1, <1>2, <2>3, <2>4, RankType DEF Reached
  <2>7. QED
    BY Zenon, <2>5, <2>6 DEF Recorded
<1> HIDE DEF cs
<1>4. \A m \in Nodes : scope[m].closed => scope'[m].closed
  BY Zenon, <1>1
<1>5. QED
  BY ZenonT(60), <1>1, <1>3, <1>4, StayRecorded

\* Recovery changes no rank.
LEMMA RecoveryReached ==
  ASSUME Shape, pc[Main] = "over", pc' \in {pc, [pc EXCEPT ![Main] = "recovering"]},
         scope' = scope, \A u \in Threads \ {Main} : todo'[u] = todo[u],
         NEW d, Known(d), Reached(d)
  PROVE  Reached(d)'
<1>1. pc'[Main] \in {"over", "recovering"} /\ \A u \in Threads \ {Main} : pc'[u] = pc[u]
  BY ZenonT(60), Threading DEF Shape, Typed
<1>2. \A m \in Nodes : scope[m].acquired \in Nat /\ scope'[m].acquired \in Nat
  BY Zenon DEF Shape, Typed, Scope
<1>3. \A u \in Threads : Rank(pc[u]) <= Rank(pc'[u])
  BY SMTT(30), Z3T(30), <1>1, RankType, Ranks
<1>4. \A m \in Nodes : pc'[m] = "acquiring" =>
         /\ pc[m] = "acquiring" /\ scope[m].acquired <= scope'[m].acquired
         /\ (Quiet(m)' => Quiet(m))
  BY SMTT(30), Z3T(30), <1>1, <1>2, Threading DEF Quiet
<1>5. QED
  BY ZenonT(60), <1>1, <1>2, <1>3, <1>4, ReachedKept

\* Acknowledge keeps Recorded.
LEMMA AcknowledgeRecorded ==
  ASSUME Shape, Recorded, NEW c \in DOMAIN stored.calls, Acknowledge(c)
  PROVE  Recorded'
<1>1. /\ pc[Main] = "over" /\ pc' \in {pc, [pc EXCEPT ![Main] = "recovering"]}
      /\ stored' \in {stored, WithCall(c, "acknowledged", stored.calls[c].lease, stored.calls[c].decision)}
      /\ todo' = todo /\ stage' = stage /\ reply' = reply /\ scope' = scope
      /\ happened' = happened /\ sent' = sent
  BY Zenon, AcknowledgeStep
<1>2. DOMAIN stored'.calls = DOMAIN stored.calls
  <2>1. DOMAIN stored = {"calls", "status"}
    BY Zenon DEF Shape, Typed
  <2>2. stored' = stored \/ DOMAIN stored'.calls = DOMAIN stored.calls \cup {c}
    BY SMTT(30), Z3T(30), <1>1, <2>1 DEF WithCall
  <2>3. QED
    BY Zenon, <2>2
<1>3. Main \in Threads /\ Quiet(Main)
  BY ZenonT(60), <1>1, Threading, QuietPlace
<1>4. todo'[Main] = <<>> /\ stage'[Main] = "record"
  BY ZenonT(60), <1>1, <1>3 DEF Quiet, Shape, ThreadShape
<1>5. Due(Main)' /\ Fresh(Main)'
  <2>1. Due(Main)'
    BY SMTT(30), <1>4 DEF Due, Range
  <2>2. Quiet(Main)'
    BY Zenon, <1>4 DEF Quiet
  <2>3. QED
    BY SMTT(60), Z3T(60), <1>4, <2>1, <2>2 DEF Fresh
<1>6. ASSUME NEW d, Known(d), Reached(d) PROVE Reached(d)'
  BY ZenonT(60), <1>1, <1>6, RecoveryReached
<1>7. \A u \in Threads : \A i \in DOMAIN todo[u] : Known(todo[u][i])
  BY ZenonT(60) DEF Shape, ThreadShape
<1>8. \A u \in Threads \ {Main} : pc'[u] = pc[u]
  BY Zenon, <1>1 DEF Shape, Typed
<1>9. \A u \in Threads \ {Main} : (Recovering(u)' <=> Recovering(u))
  BY Zenon, <1>8 DEF Recovering
<1>10. \A l \in Leases : l # Main /\ pc'[l] = pc[l]
  BY Zenon, <1>8, Threading
<1>11. QED
  BY ZenonT(60), <1>1, <1>2, <1>3, <1>5, <1>6, <1>7, <1>9, <1>10, StepRecorded

\* A replay takes up a recorded call, or releases a recorded lease.
LEMMA ReplayRecorded ==
  ASSUME Shape, Recorded, NEW c \in DOMAIN stored.calls, Replay(c)
  PROVE  Recorded'
<1>0. Known(c) /\ Reached(c)
  BY Zenon DEF Recorded
<1>1. /\ pc[Main] = "over" /\ Quiet(Main) /\ pc' = [pc EXCEPT ![Main] = "recovering"]
      /\ todo' = [todo EXCEPT ![Main] = <<ReplayCall(c)>>]
      /\ stage' = stage /\ reply' = reply /\ scope' = scope /\ stored' = stored
      /\ happened' = happened /\ sent' = sent /\ Replayable(c)
  BY Zenon, ReplayStep
<1>2. PICK d : d = ReplayCall(c)
  BY Zenon
<1>3. /\ d = c \/ (Leased(c) /\ d = ReleaseCall(Lease(c), 1))
      /\ d.action # "release" => d = c
  BY ZenonT(60), <1>0, <1>1, <1>2, ReplayedCall
<1>4. /\ Main \in Threads /\ todo'[Main] = <<d>> /\ stage'[Main] = "record" /\ pc'[Main] = "recovering"
      /\ \A u \in Threads \ {Main} : todo'[u] = todo[u] /\ pc'[u] = pc[u]
  BY SMTT(30), Z3T(30), <1>1, <1>2, Threading DEF Shape, Typed, ThreadShape
<1>5. ASSUME NEW e, Known(e), Reached(e) PROVE Reached(e)'
  BY ZenonT(60), <1>1, <1>4, <1>5, RecoveryReached
<1>6. Reached(d)'
  <2>1. CASE d = c
    BY Zenon, <1>0, <1>5, <2>1
  <2>2. CASE Leased(c) /\ d = ReleaseCall(Lease(c), 1)
    <3>1. Lease(c) \in Leases
      BY Zenon, <2>2, LeasedCall
    <3>2. Owner(d) = Main /\ Place(d) = "closing" /\ d.ev[1] = "credential.release"
      BY ZenonT(60), <2>2, ReleaseEvent, ReleasePlace
    <3>3. Rank(pc'[Main]) >= Rank(Place(d))
      BY SMTT(30), Z3T(30), <1>4, <3>2, Ranks
    <3>4. QED
      BY Zenon, <1>4, <3>2, <3>3 DEF Reached
  <2>3. QED
    BY Zenon, <1>3, <2>1, <2>2
<1>7. Due(Main)'
  <2>1. Range(todo'[Main]) = {d}
    BY SMTT(30), <1>4 DEF Range
  <2>2. QED
    BY Zenon, <1>6, <2>1 DEF Due
<1>8. Fresh(Main)'
  <2>1. Current(Main)' = d /\ Recovering(Main)'
    BY SMTT(30), Z3T(30), <1>4 DEF Current, Recovering
  <2>2. QED
    BY ZenonT(60), <1>1, <1>3, <1>4, <2>1 DEF Fresh
<1>9. \A u \in Threads : \A i \in DOMAIN todo[u] : Known(todo[u][i])
  BY Zenon DEF Shape, ThreadShape
<1>10. \A u \in Threads \ {Main} : (Recovering(u)' <=> Recovering(u))
  BY Zenon, <1>4 DEF Recovering
<1>11. \A l \in Leases : l # Main /\ pc'[l] = pc[l]
  BY Zenon, <1>4, Threading
<1>12. QED
  BY ZenonT(60), <1>1, <1>4, <1>5, <1>7, <1>8, <1>9, <1>10, <1>11, StepRecorded

\* A crash keeps Recorded.
LEMMA CrashRecorded ==
  ASSUME Shape, Recorded, Crash
  PROVE  Recorded'
<1>1. /\ stored' = stored /\ sent' = sent
      /\ pc' = [t \in Threads |-> IF t = Main THEN "over" ELSE IF t \in Nodes THEN "done" ELSE "gone"]
      /\ todo' = [t \in Threads |-> <<>>] /\ stage' = [t \in Threads |-> "record"]
  BY Zenon DEF Crash
<1>2. happened' \subseteq DOMAIN stored'.calls
  <2>1. ASSUME NEW t \in Threads, At(t, "sent") PROVE Current(t) \in DOMAIN stored.calls
    BY ZenonT(60), <2>1 DEF At, Recorded, Fresh
  <2>2. happened' \subseteq happened \cup {Current(t) : t \in {u \in Threads : At(u, "sent")}}
    BY Zenon DEF Crash
  <2>3. QED
    BY Zenon, <1>1, <2>1, <2>2 DEF Recorded
<1>3. \A t \in Threads : pc'[t] \in {"over", "done", "gone"} /\ todo'[t] = <<>> /\ stage'[t] = "record"
  BY ZenonT(60), <1>1
<1>4. ASSUME NEW d \in DOMAIN stored'.calls PROVE Known(d)' /\ Reached(d)'
  <2>1. Known(d)
    BY Zenon, <1>1 DEF Recorded
  <2>2. Owner(d) \in Threads /\ d.ev[1] = "credential.acquire" => d.ev[2] \in Threads
    BY Zenon, <2>1, KnownCall DEF Threads
  <2>3. Owner(d) \in Threads /\ Main \in Threads
    BY Zenon, <2>1, KnownCall DEF Threads
  <2>4. Rank(pc'[Owner(d)]) = 12 /\ Rank(Place(d)) \in 0 .. 12
    BY ZenonT(60), <1>3, <2>3, Ranks, RankType
  <2>5. QED
    BY SMTT(30), Z3T(30), <1>3, <2>1, <2>2, <2>3, <2>4 DEF Reached
<1>5. ASSUME NEW t \in Threads PROVE Due(t)' /\ Fresh(t)'
  <2>1. Due(t)'
    BY SMTT(30), <1>3 DEF Due, Range
  <2>2. Quiet(t)'
    BY ZenonT(60), <1>3 DEF Quiet
  <2>3. QED
    BY SMTT(60), Z3T(60), <1>3, <2>1, <2>2 DEF Fresh
<1>7. sent' \subseteq DOMAIN stored'.calls
  BY Zenon, <1>1 DEF Recorded
<1>8. QED
  BY ZenonT(60), <1>2, <1>4, <1>5, <1>7 DEF Recorded

------------------------------------------------------------------------------
(* All steps                                                                *)

Calls(t, c) == /\ CallStep(t) /\ c = Current(t)
               /\ Pending(t, c) \/ Queued(t, c) \/ InFlight(t, c) \/ Settled(t, c)

\* The kinds of steps that the lemmas are about.
LEMMA Steps ==
  ASSUME Shape, Recorded, [Next]_vars
  PROVE  \/ \E t \in Threads : Returned(t) \/ \E c : Calls(t, c)
         \/ \E n \in Nodes : \/ AcquireNext(n) \/ Acquired(n) \/ FinishNode(n) \/ CloseScope(n)
                             \/ \E from, to, cs : NodeMove(n, from, to, cs)
         \/ \E l \in Leases : Renewed(l) \/ \E from, to, cs : LeaseMove(l, from, to, cs)
         \/ \E from, to, cs : MainMove(from, to, cs)
         \/ \E c \in DOMAIN stored.calls : Acknowledge(c) \/ Replay(c)
         \/ Crash
         \/ vars' = vars
<1>1. ASSUME NEW t \in Threads, Invoke(t), ~Returned(t) PROVE \E c : Calls(t, c)
  BY Zenon, <1>1, InvokeTable DEF Calls
<1>2. ASSUME NEW n \in Nodes, Work(n)
      PROVE  AcquireNext(n) \/ Acquired(n) \/ \E from, to, cs : NodeMove(n, from, to, cs)
  BY Zenon, <1>2, WorkMoves
<1>3. ASSUME NEW l \in Leases, Timer(l) \/ Renew(l)
      PROVE  Renewed(l) \/ \E from, to, cs : LeaseMove(l, from, to, cs)
  BY Zenon, <1>3, LeaseMoves DEF Renew
<1>4. Run => \/ \E from, to, cs : MainMove(from, to, cs)
             \/ \E n \in Nodes : FinishNode(n) \/ CloseScope(n)
  BY Zenon, RunMoves
<1>5. CASE vars' = vars
  BY Zenon, <1>5
<1>6. CASE Next
  <2>1. CASE \E t \in Threads : Invoke(t)
    BY Zenon, <1>1, <2>1
  <2>2. CASE \E n \in Nodes : Work(n)
    BY Zenon, <1>2, <2>2
  <2>3. CASE \E l \in Leases : Timer(l) \/ Renew(l)
    BY Zenon, <1>3, <2>3
  <2>4. CASE Run
    BY Zenon, <1>4, <2>4
  <2>5. CASE Recovery
    BY Zenon, <2>5 DEF Recovery
  <2>6. CASE Crash \/ Idle
    BY Zenon, <2>6 DEF Idle
  <2>7. QED
    BY ZenonT(60), <1>6, <2>1, <2>2, <2>3, <2>4, <2>5, <2>6 DEF Next
<1>7. QED
  BY Zenon, <1>5, <1>6

\* A stuttering step keeps Shape.
LEMMA StutterShape ==
  ASSUME Shape, vars' = vars
  PROVE  Shape'
<1>1. /\ todo' = todo /\ stage' = stage /\ reply' = reply /\ failed' = failed /\ attempt' = attempt
      /\ pc' = pc /\ scope' = scope /\ stored' = stored
  BY Zenon DEF vars, calling, program
<1>2. Typed'
  BY Zenon, <1>1 DEF Shape, Typed
<1>3. MainShape'
  BY ZenonT(60), <1>1 DEF Shape, MainShape, Quiet, Over
<1>4. \A t \in Threads : ThreadShape(t)'
  BY SMTT(30), Z3T(30), <1>1 DEF Shape, ThreadShape, Quiet, Recovering
<1>5. \A n \in Nodes : ScopeShape(n)'
  BY Zenon, <1>1 DEF Shape, ScopeShape, Quiet
<1>6. \A l \in Leases : LeaseShape(l)'
  BY Zenon, <1>1 DEF Shape, LeaseShape, Over
<1>7. QED
  BY ZenonT(60), <1>2, <1>3, <1>4, <1>5, <1>6 DEF Shape

\* A stuttering step keeps Recorded.
LEMMA StutterRecorded ==
  ASSUME Recorded, vars' = vars
  PROVE  Recorded'
<1>1. /\ todo' = todo /\ stage' = stage /\ reply' = reply /\ pc' = pc /\ scope' = scope /\ told' = told
      /\ stored' = stored /\ happened' = happened /\ sent' = sent
  BY Zenon DEF vars, calling, program, outside
<1>2. \A c \in DOMAIN stored.calls : Known(c) /\ Reached(c)'
  BY Zenon, <1>1 DEF Recorded, Reached, Quiet
<1>3. \A t \in Threads : Due(t)'
  BY Zenon, <1>1 DEF Recorded, Due, Reached, Quiet
<1>4. \A t \in Threads : Fresh(t)'
  BY Zenon, <1>1 DEF Recorded, Fresh, Recovering, Current, Quiet
<1>6. happened' \subseteq DOMAIN stored'.calls /\ sent' \subseteq DOMAIN stored'.calls
  BY Zenon, <1>1 DEF Recorded
<1>7. \A c \in DOMAIN stored'.calls : Known(c)' /\ Reached(c)'
  BY Zenon, <1>1, <1>2
<1>8. QED
  BY ZenonT(60), <1>3, <1>4, <1>6, <1>7 DEF Recorded

\* Every step of the host keeps Shape and Recorded.
LEMMA RecordedStep ==
  ASSUME Shape, Recorded, [Next]_vars
  PROVE  Shape' /\ Recorded'
<1>1. ASSUME NEW t \in Threads, NEW c, Calls(t, c) PROVE Shape' /\ Recorded'
  <2>1. /\ CallStep(t) /\ c = Current(t)
        /\ Pending(t, c) \/ Queued(t, c) \/ InFlight(t, c) \/ Settled(t, c)
    BY Zenon, <1>1 DEF Calls
  <2>2. QED
    BY ZenonT(60), <2>1, CallShape, CallRecorded
<1>2. ASSUME NEW t \in Threads, Returned(t) PROVE Shape' /\ Recorded'
  BY Zenon, <1>2, ReturnedShape, ReturnedRecorded
<1>3. ASSUME NEW n \in Nodes, AcquireNext(n) PROVE Shape' /\ Recorded'
  BY Zenon, <1>3, AcquireNextShape, AcquireNextRecorded
<1>4. ASSUME NEW n \in Nodes, Acquired(n) PROVE Shape' /\ Recorded'
  BY ZenonT(60), <1>4, AcquiredShape, AcquiredRecorded
<1>5. ASSUME NEW n \in Nodes, FinishNode(n) PROVE Shape' /\ Recorded'
  BY Zenon, <1>5, FinishNodeShape, FinishNodeRecorded
<1>6. ASSUME NEW n \in Nodes, CloseScope(n) PROVE Shape' /\ Recorded'
  BY Zenon, <1>6, CloseScopeShape, CloseScopeRecorded
<1>7. ASSUME NEW n \in Nodes, NEW from, NEW to, NEW cs, NodeMove(n, from, to, cs) PROVE Shape' /\ Recorded'
  BY ZenonT(60), <1>7, NodeMoveShape, NodeMoveRecorded
<1>8. ASSUME NEW l \in Leases, Renewed(l) PROVE Shape' /\ Recorded'
  BY Zenon, <1>8, RenewedShape, RenewedRecorded
<1>9. ASSUME NEW l \in Leases, NEW from, NEW to, NEW cs, LeaseMove(l, from, to, cs) PROVE Shape' /\ Recorded'
  BY ZenonT(60), <1>9, LeaseMoveShape, LeaseMoveRecorded
<1>10. ASSUME NEW from, NEW to, NEW cs, MainMove(from, to, cs) PROVE Shape' /\ Recorded'
  BY ZenonT(60), <1>10, MainMoveShape, MainMoveRecorded
<1>11. ASSUME NEW c \in DOMAIN stored.calls, Acknowledge(c) PROVE Shape' /\ Recorded'
  BY ZenonT(60), <1>11, AcknowledgeShape, AcknowledgeRecorded
<1>12. ASSUME NEW c \in DOMAIN stored.calls, Replay(c) PROVE Shape' /\ Recorded'
  <2>1. Known(c)
    BY Zenon DEF Recorded
  <2>2. QED
    BY ZenonT(60), <1>12, <2>1, ReplayShape, ReplayRecorded
<1>13. CASE Crash
  BY Zenon, <1>13, CrashShape, CrashRecorded
<1>14. CASE vars' = vars
  BY ZenonT(60), <1>14, StutterShape, StutterRecorded
<1>15. QED
  BY ZenonT(60), <1>1, <1>2, <1>3, <1>4, <1>5, <1>6, <1>7, <1>8, <1>9, <1>10, <1>11, <1>12, <1>13, <1>14, Steps

\* The shape of the program and of the record is kept by every step of the host:
\* a call is recorded before it is sent, and only when its thread has come to it.
THEOREM RecordedInvariant == Spec => [](Shape /\ Recorded)
<1>1. Init => Shape /\ Recorded
  BY ZenonT(60), InitShape, InitRecorded
<1>2. Shape /\ Recorded /\ [Next]_vars => (Shape /\ Recorded)'
  BY Zenon, RecordedStep
<1>3. QED
  BY <1>1, <1>2, PTL DEF Spec

\* A request that is not idempotent is sent at most once in the life of the
\* execution, by the retries of invoke as by Replay, for every set of features.
THEOREM SentOnce == Spec => NonIdempotentOnce
<1> DEFINE Step1 == \A t \in Threads :
             (At(t, "queue") /\ stage'[t] = "sent" /\ Effect[Current(t).f] = "non_idempotent_external")
                => Current(t) \notin sent
<1>1. Shape /\ Recorded => Step1
  <2>1. SUFFICES ASSUME Shape, Recorded, NEW t \in Threads, At(t, "queue"), stage'[t] = "sent",
                        Effect[Current(t).f] = "non_idempotent_external"
                 PROVE  Current(t) \notin sent
    BY Zenon
  <2>2. ~Quiet(t) /\ stage[t] = "queue"
    BY Zenon, <2>1 DEF At, Quiet
  <2>3. ~Recovering(t)
    <3>1. Recovering(t) => Effect[Current(t).f] = "idempotent_external"
      BY Zenon, <2>1, <2>2, BusyThread
    <3>2. QED
      BY Zenon, <2>1, <3>1
  <2>4. ~Repeatable(Current(t).f)
    BY ZenonT(60), <2>1 DEF Repeatable
  <2>5. QED
    BY ZenonT(60), <2>1, <2>2, <2>3, <2>4 DEF Recorded, Fresh
<1>2. Shape /\ Recorded /\ [Next]_vars => [Step1]_vars
  BY Zenon, <1>1
<1> HIDE DEF Step1
<1>3. Spec => [][Step1]_vars
  BY <1>2, RecordedInvariant, PTL DEF Spec
<1>4. QED
  BY Zenon, <1>3 DEF Step1, NonIdempotentOnce

\* Once the release of a lease was sent no subprocess of its node runs and its
\* renewal has ended (closeCredentials), however many nodes and leases there are.
THEOREM LeasesReleasedLast == Spec => []ReleaseLast
<1>1. Shape /\ Recorded => ReleaseLast
  <2>1. SUFFICES ASSUME Shape, Recorded, NEW c \in sent, c.action = "release"
                 PROVE  pc[c.ev[2]] \notin {"init", "apply"} /\ Over(Lease(c))
    BY Zenon DEF ReleaseLast
  <2>2. Known(c) /\ Reached(c)
    BY Zenon, <2>1 DEF Recorded
  <2>3. Leased(c)
    BY Zenon, <2>1, <2>2, KnownCall
  <2>4. /\ Lease(c) \in Leases /\ c.ev[2] \in Nodes /\ c.ev[1] = "credential.release"
        /\ Owner(c) = Main /\ Place(c) = "closing"
    BY ZenonT(60), <2>1, <2>3, LeasedCall
  <2>5. Rank(pc[Main]) >= 4 /\ Rank(pc[Main]) \in Nat
    BY SMTT(60), Z3T(60), <2>2, <2>4, Ranks, RankType DEF Reached
  <2>6. pc[c.ev[2]] \in {"prepare", "done"}
    BY SMTT(30), Z3T(30), <2>1, <2>4, <2>5 DEF Shape, MainShape
  <2>7. Over(Lease(c))
    <3>1. CASE pc[Main] = "closing"
      <4>1. scope[c.ev[2]].closed
        BY ZenonT(60), <2>2, <2>4, <3>1 DEF Reached
      <4>2. Lease(c)[1] = c.ev[2]
        BY Zenon DEF Lease
      <4>3. QED
        BY ZenonT(60), <2>1, <2>4, <4>1, <4>2 DEF Shape, LeaseShape
    <3>2. CASE pc[Main] # "closing"
      <4>1. pc[Main] \in MainPlaces
        BY ZenonT(60), <2>1 DEF Shape, Typed
      <4>2. Rank(pc[Main]) >= 5
        BY SMTT(30), Z3T(30), <2>5, <3>2, <4>1, Ranks DEF MainPlaces
      <4>3. QED
        BY ZenonT(60), <2>1, <2>4, <4>2 DEF Shape, MainShape
    <3>3. QED
      BY Zenon, <3>1, <3>2
  <2>8. QED
    BY Zenon, <2>6, <2>7
<1>2. QED
  BY <1>1, RecordedInvariant, PTL

==============================================================================

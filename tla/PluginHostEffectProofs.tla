----------------------- MODULE PluginHostEffectProofs ------------------------
(***************************************************************************)
(* The consent of the gates, and what the calls leave outside.             *)
(***************************************************************************)
EXTENDS PluginHostProofs

------------------------------------------------------------------------------
(* The consent of the gates.                                                *)

Allowed(c) == c \in DOMAIN stored.calls /\ stored.calls[c].decision = "allow"

\* An answer is one the call can have, and a consent that is returned is recorded.
ReplyShape(t) ==
  ~Quiet(t) =>
    /\ stage[t] = "record_result" => reply[t] \in {"failed", "unknown"} \cup Decisions(Current(t))
    /\ stage[t] = "returned" =>
         reply[t] \in {"failed", "unknown", "error", "unrecorded"} \cup Decisions(Current(t))
    /\ stage[t] = "returned" /\ reply[t] = "allow" => Allowed(Current(t))

\* A required gate that is asked once more has allowed or is yet to be asked.
Consenting(n, c) ==
  Required(c.f) =>
    /\ pc[n] = "recheck" /\ ~failed[n] => Allowed(c) \/ c \in Range(todo[n])
    /\ pc[n] \in {"admit", "apply_start", "apply"} => Allowed(c)

Consented ==
  /\ \A t \in Threads : ReplyShape(t)
  /\ \A n \in Nodes : \A c \in Range(RecheckPlan(n)) : Consenting(n, c)

------------------------------------------------------------------------------
(* What is left outside.                                                    *)

Statuses == {"pending", "unknown", "failed", "completed", "acknowledged"}

\* The entry of a call agrees with what the call did.
EntrySound(c) ==
  /\ stored.calls[c].status \in Statuses
  /\ c.action = "acquire" /\ stored.calls[c].status = "completed" => stored.calls[c].lease
  /\ c \in happened /\ stored.calls[c].status = "failed" => Kind[c.f] = "observer"
  /\ c.action = "release" /\ stored.calls[c].status = "completed" => Lease(c) \notin live

\* The call of the thread has not been carried out by this thread.
Undone(t) == stage[t] \in {"queue", "sent"} \/ (stage[t] = "record_result" /\ reply[t] = "failed")

CallSound(t) ==
  ~Quiet(t) =>
    /\ stage[t] \in {"queue", "sent", "record_result"} => stored.calls[Current(t)].status = "pending"
    /\ Undone(t) /\ ~Recovering(t) => Current(t) \notin happened
    /\ Undone(t) /\ Current(t).action = "acquire" => Lease(Current(t)) \notin live
    /\ stage[t] = "record_result" /\ reply[t] = "done" /\ Current(t).action = "release" =>
         Lease(Current(t)) \notin live

Booked ==
  /\ \A c \in DOMAIN stored.calls : EntrySound(c)
  /\ \A c \in happened : External(c.f) /\ ~IsCredential(c.f)
  /\ \A l \in live : /\ l \in Leases /\ AcquireCall(l[1], l[2]) \in DOMAIN stored.calls
                     /\ stored.calls[AcquireCall(l[1], l[2])].status # "failed"
  /\ \A t \in Threads : CallSound(t)

------------------------------------------------------------------------------
(* The consent of the gates                                                 *)

\* A recheck of the plan is a call of its node, made at the recheck.
LEMMA RecheckCall ==
  ASSUME NEW n \in Nodes, NEW c \in Range(RecheckPlan(n))
  PROVE  Known(c) /\ Owner(c) = n /\ Place(c) = "recheck" /\ c.action = "gate"
<1>1. PICK i \in DOMAIN RecheckPlan(n) : c = RecheckPlan(n)[i]
  BY Zenon DEF Range
<1>2. Batch(n, "recheck", RecheckPlan(n)) /\ c.action = "gate"
  BY Zenon, <1>1, RecheckBatch
<1>3. QED
  BY Zenon, <1>1, <1>2 DEF Batch

\* Steps that leave the entries and what a deciding node does alone.
LEMMA ConsentKept ==
  ASSUME Consented, stored'.calls = stored.calls,
         \A n \in Nodes : \/ pc'[n] \notin {"recheck", "admit", "apply_start", "apply"}
                          \/ pc'[n] = pc[n] /\ todo'[n] = todo[n] /\ failed'[n] = failed[n],
         \A t \in Threads : \/ todo'[t] = <<>> \/ stage'[t] = "record"
                            \/ todo'[t] = todo[t] /\ stage'[t] = stage[t] /\ reply'[t] = reply[t]
  PROVE  Consented'
<1>1. ASSUME NEW t \in Threads PROVE ReplyShape(t)'
  <2>1. CASE todo'[t] = <<>> \/ stage'[t] = "record"
    BY Zenon, <2>1 DEF ReplyShape, Quiet
  <2>2. CASE todo'[t] = todo[t] /\ stage'[t] = stage[t] /\ reply'[t] = reply[t]
    <3>1. Current(t)' = Current(t) /\ Quiet(t)' = Quiet(t)
      BY Zenon, <2>2 DEF Current, Quiet
    <3>2. ReplyShape(t)
      BY Zenon DEF Consented
    <3>3. QED
      BY ZenonT(60), <2>2, <3>1, <3>2 DEF ReplyShape, Allowed
  <2>3. QED
    BY Zenon, <2>1, <2>2
<1>2. ASSUME NEW n \in Nodes, NEW c \in Range(RecheckPlan(n)) PROVE Consenting(n, c)'
  <2>1. Consenting(n, c)
    BY Zenon DEF Consented
  <2>2. CASE pc'[n] \notin {"recheck", "admit", "apply_start", "apply"}
    BY Zenon, <2>2 DEF Consenting
  <2>3. CASE pc'[n] = pc[n] /\ todo'[n] = todo[n] /\ failed'[n] = failed[n]
    BY ZenonT(60), <2>1, <2>3 DEF Consenting, Allowed
  <2>4. QED
    BY ZenonT(60), <2>2, <2>3
<1>3. QED
  BY Zenon, <1>1, <1>2 DEF Consented

\* Before the run no gate was asked.
LEMMA InitConsented == Init => Consented
<1>1. SUFFICES ASSUME Init PROVE Consented
  BY Zenon
<1>2. \A t \in Threads : Quiet(t)
  BY Zenon, <1>1 DEF Init, Quiet
<1>3. \A n \in Nodes : pc[n] = "prepare"
  BY ZenonT(60), <1>1, Threading DEF Init
<1>4. QED
  BY Zenon, <1>2, <1>3 DEF Consented, ReplyShape, Consenting

\* The steps of a call record the gates' answers.
LEMMA CallConsented ==
  ASSUME Shape, Consented, NEW t \in Threads, NEW c, Calls(t, c)
  PROVE  Consented'
<1>1. /\ CallStep(t) /\ c = Current(t)
      /\ Pending(t, c) \/ Queued(t, c) \/ InFlight(t, c) \/ Settled(t, c)
  BY Zenon DEF Calls
<1>2. /\ todo' = todo /\ pc' = pc /\ failed' = failed /\ ~Quiet(t)
      /\ \A u \in Threads \ {t} : stage'[u] = stage[u] /\ reply'[u] = reply[u]
  BY Zenon, <1>1 DEF CallStep
<1>3. /\ stored' = stored \/ DOMAIN stored'.calls = DOMAIN stored.calls \cup {c}
      /\ \A d \in DOMAIN stored.calls \ {c} : stored'.calls[d] = stored.calls[d]
  BY Zenon, <1>1, CallDomain
<1>4. \A d : d # c /\ Allowed(d) => Allowed(d)'
  BY Zenon, <1>3 DEF Allowed
<1>5. ASSUME NEW u \in Threads PROVE ReplyShape(u)'
  <2>1. ReplyShape(u) /\ Current(u)' = Current(u) /\ Quiet(u)' = Quiet(u)
    BY Zenon, <1>2 DEF Consented, Current, Quiet
  <2>2. CASE u # t
    <3>1. ~Quiet(u) => Current(u) # c
      BY ZenonT(60), <1>1, <1>2, <2>2, OthersDiffer, BusyThread DEF Current
    <3>2. stage'[u] = stage[u] /\ reply'[u] = reply[u]
      BY ZenonT(60), <1>2, <2>2
    <3>3. QED
      BY ZenonT(60), <1>4, <2>1, <3>1, <3>2 DEF ReplyShape
  <2>3. CASE u = t
    <3>1. CASE Pending(t, c)
      BY Zenon, <2>3, <3>1 DEF ReplyShape, Pending
    <3>2. CASE Queued(t, c)
      BY ZenonT(60), <2>3, <3>2 DEF ReplyShape, Queued
    <3>3. CASE InFlight(t, c)
      BY ZenonT(60), <1>1, <2>1, <2>3, <3>3 DEF ReplyShape, InFlight
    <3>4. CASE Settled(t, c)
      <4>1. reply[t] \in {"failed", "unknown"} \cup Decisions(c)
        BY ZenonT(60), <1>1, <1>2, <2>1, <2>3, <3>4 DEF ReplyShape, Settled
      <4>2. reply'[t] \in {"failed", "unknown", "error", "unrecorded"} \cup Decisions(c)
        BY Zenon, <3>4, <4>1 DEF Settled
      <4>3. reply'[t] = "allow" => Allowed(c)'
        <5>1. SUFFICES ASSUME reply'[t] = "allow" PROVE Allowed(c)'
          BY Zenon
        <5>2. reply[t] = "allow"
              /\ stored' = WithCall(c, Result(c, reply[t]),
                                    KnownLease(c) \/ (c.action = "acquire" /\ reply[t] = "done"), reply[t])
          BY Zenon, <3>4, <5>1 DEF Settled
        <5>3. DOMAIN stored = {"calls", "status"}
          BY Zenon DEF Shape, Typed
        <5>4. QED
          BY Zenon, <5>2, <5>3 DEF WithCall, Allowed
      <4>4. stage'[t] = "returned" /\ Current(t)' = c
        BY ZenonT(60), <1>1, <2>1, <2>3, <3>4 DEF Settled
      <4>5. QED
        BY ZenonT(60), <2>3, <4>2, <4>3, <4>4 DEF ReplyShape
    <3>5. QED
      BY ZenonT(60), <1>1, <3>1, <3>2, <3>3, <3>4
  <2>4. QED
    BY ZenonT(60), <2>2, <2>3
<1>6. ASSUME NEW n \in Nodes, NEW d \in Range(RecheckPlan(n)) PROVE Consenting(n, d)'
  <2>1. Consenting(n, d)
    BY Zenon DEF Consented
  <2>2. CASE pc[n] \notin {"recheck", "admit", "apply_start", "apply"}
    BY Zenon, <1>2, <2>2 DEF Consenting
  <2>3. CASE pc[n] \in {"recheck", "admit", "apply_start", "apply"}
    <3>1. d = c => t = n /\ pc[n] = "recheck" /\ d \in Range(todo[n])
      <4>1. pc[Main] = "running"
        BY ZenonT(60), <2>3, Working
      <4>2. ~Recovering(t)
        BY ZenonT(60), <1>2, <4>1, BusyThread DEF Recovering
      <4>3. Owner(c) = t /\ Place(c) = pc[t] /\ c \in Range(todo[t])
        BY ZenonT(60), <1>1, <1>2, <4>2, BusyThread DEF Current, Range
      <4>4. QED
        BY Zenon, <4>3, RecheckCall
    <3>2. QED
      BY ZenonT(60), <1>2, <1>4, <2>1, <3>1 DEF Consenting
  <2>4. QED
    BY Zenon, <2>2, <2>3
<1>7. QED
  BY Zenon, <1>5, <1>6 DEF Consented

\* A return takes the consent from the record or fails the node (Refusal).
LEMMA ReturnedConsented ==
  ASSUME Shape, Consented, NEW t \in Threads, Returned(t)
  PROVE  Consented'
<1> DEFINE rest == IF Refusal(t) /\ pc[t] \in {"inputs", "recheck"} THEN <<>> ELSE Tail(todo[t])
<1>1. /\ Ends(t, rest) /\ pc' = pc /\ failed' = [failed EXCEPT ![t] = @ \/ Refusal(t)]
  BY ZenonT(60), ReturnedEnds
<1>2. /\ ~Quiet(t) /\ todo'[t] = rest /\ stage'[t] = "record" /\ stage[t] = "returned" /\ stored' = stored
      /\ \A u \in Threads \ {t} : todo'[u] = todo[u] /\ stage'[u] = stage[u] /\ reply'[u] = reply[u]
      /\ failed'[t] = (failed[t] \/ Refusal(t)) /\ (\A u \in Threads \ {t} : failed'[u] = failed[u])
  <2> HIDE DEF rest
  <2>1. QED
    BY Zenon, <1>1 DEF Ends, Shape, Typed
<1>3. ASSUME NEW u \in Threads PROVE ReplyShape(u)'
  <2>1. CASE u = t
    BY ZenonT(60), <1>2, <2>1 DEF ReplyShape
  <2>2. CASE u # t
    <3>1. ReplyShape(u) /\ Current(u)' = Current(u) /\ Quiet(u)' = Quiet(u)
      BY ZenonT(60), <1>2, <2>2 DEF Consented, Current, Quiet
    <3>2. QED
      BY ZenonT(60), <1>2, <2>2, <3>1 DEF ReplyShape, Allowed
  <2>3. QED
    BY ZenonT(60), <2>1, <2>2
<1>4. ASSUME NEW n \in Nodes, NEW d \in Range(RecheckPlan(n)) PROVE Consenting(n, d)'
  <2>1. Consenting(n, d) /\ n \in Threads
    BY Zenon, Threading DEF Consented
  <2>2. CASE n # t
    BY ZenonT(60), <1>1, <1>2, <2>1, <2>2 DEF Consenting, Allowed
  <2>3. CASE n = t /\ pc[n] # "recheck"
    BY ZenonT(60), <1>1, <1>2, <2>1, <2>3 DEF Consenting, Allowed
  <2>4. CASE n = t /\ pc[n] = "recheck"
    <3>1. SUFFICES ASSUME Required(d.f), ~failed'[n] PROVE Allowed(d)' \/ d \in Range(todo'[n])
      BY ZenonT(60), <1>1, <2>4 DEF Consenting
    <3>2. ~failed[n] /\ ~Refusal(n)
      BY ZenonT(60), <1>2, <2>4, <3>1
    <3>3. rest = Tail(todo[n])
      BY Zenon, <2>4, <3>2
    <3>4. Allowed(d) \/ d \in Range(todo[n])
      BY ZenonT(60), <2>1, <2>4, <3>1, <3>2 DEF Consenting
    <3>5. CASE Allowed(d)
      BY ZenonT(60), <1>2, <3>5 DEF Allowed
    <3>6. CASE d = Current(n)
      <4>1. reply[n] \in {"done", "allow"}
        BY ZenonT(60), <3>1, <3>2, <3>6 DEF Refusal
      <4>2. reply[n] \in {"failed", "unknown", "error", "unrecorded"} \cup Decisions(d)
        BY ZenonT(60), <1>2, <2>1, <2>4, <3>6 DEF Consented, ReplyShape
      <4>3. reply[n] = "allow"
        BY ZenonT(60), <4>1, <4>2, RecheckCall DEF Decisions
      <4>4. Allowed(d)
        BY ZenonT(60), <1>2, <2>1, <2>4, <3>6, <4>3 DEF Consented, ReplyShape
      <4>5. QED
        BY ZenonT(60), <1>2, <4>4 DEF Allowed
    <3>7. CASE d # Current(n) /\ d \in Range(todo[n])
      <4>1. PICK j \in DOMAIN todo[n] : todo[n][j] = d
        BY ZenonT(60), <3>7 DEF Range
      <4>2. j # 1
        BY ZenonT(60), <3>7, <4>1 DEF Current
      <4> HIDE DEF rest
      <4>3. PICK i \in DOMAIN rest : rest[i] = todo[n][j]
        BY SMTT(60), Z3T(60), <1>2, <2>1, <2>4, <3>3, <4>2, RestCalls
      <4>4. QED
        BY ZenonT(60), <1>2, <2>4, <4>1, <4>3 DEF Range
    <3>8. QED
      BY ZenonT(60), <3>4, <3>5, <3>6, <3>7
  <2>5. QED
    BY ZenonT(60), <2>2, <2>3, <2>4
<1>5. QED
  BY Zenon, <1>3, <1>4 DEF Consented

\* A node reaches its mutation only through the recheck.
LEMMA NodeMoveConsented ==
  ASSUME Shape, Consented, NEW n \in Nodes, NEW from, NEW to, NEW cs, NodeMove(n, from, to, cs)
  PROVE  Consented'
<1>1. /\ Move(n, from, to, cs)
      /\ to = "recheck" => cs = RecheckPlan(n)
      /\ to = "admit" => from = "recheck" /\ ~failed[n]
      /\ to = "apply_start" => from = "admit"
      /\ to = "apply" => from = "apply_start"
  BY Zenon DEF NodeMove
<1>2. n \in Threads
  BY Zenon, Threading
<1>3. /\ pc'[n] = to /\ todo'[n] = cs /\ stage'[n] = "record"
      /\ \A u \in Threads \ {n} : /\ pc'[u] = pc[u] /\ todo'[u] = todo[u] /\ failed'[u] = failed[u]
                                  /\ stage'[u] = stage[u]
  <2>1. Moved(n, to, cs)
    BY ZenonT(60), <1>1, <1>2, MoveThreads
  <2>2. QED
    BY Zenon, <2>1 DEF Moved
<1>4. stored'.calls = stored.calls /\ reply' = reply /\ Quiet(n) /\ pc[n] = from
  BY Zenon, <1>1 DEF Move
<1>5. ASSUME NEW u \in Threads PROVE ReplyShape(u)'
  <2>1. CASE u = n
    BY ZenonT(60), <1>3, <2>1 DEF ReplyShape
  <2>2. CASE u # n
    <3>1. ReplyShape(u) /\ Current(u)' = Current(u) /\ Quiet(u)' = Quiet(u)
      BY ZenonT(60), <1>3, <2>2 DEF Consented, Current, Quiet
    <3>2. QED
      BY ZenonT(60), <1>3, <1>4, <2>2, <3>1 DEF ReplyShape, Allowed
  <2>3. QED
    BY ZenonT(60), <2>1, <2>2
<1>6. ASSUME NEW m \in Nodes, NEW d \in Range(RecheckPlan(m)) PROVE Consenting(m, d)'
  <2>1. Consenting(m, d) /\ m \in Threads
    BY Zenon, Threading DEF Consented
  <2>2. CASE m # n
    BY ZenonT(60), <1>3, <1>4, <2>1, <2>2 DEF Consenting, Allowed
  <2>3. CASE m = n
    <3>1. from = "recheck" /\ ~failed[n] /\ Required(d.f) => Allowed(d)
      <4>1. Range(todo[n]) = {}
        BY SMTT(30), Z3T(30), <1>4 DEF Quiet, Range
      <4>2. QED
        BY ZenonT(60), <1>4, <2>1, <2>3, <4>1 DEF Consenting
    <3>2. from \in {"admit", "apply_start"} /\ Required(d.f) => Allowed(d)
      BY ZenonT(60), <1>4, <2>1, <2>3 DEF Consenting
    <3>3. to = "recheck" => d \in Range(todo'[n])
      BY ZenonT(60), <1>1, <1>3, <2>3
    <3>4. Allowed(d) => Allowed(d)'
      BY ZenonT(60), <1>4 DEF Allowed
    <3>5. QED
      BY ZenonT(60), <1>1, <1>3, <2>3, <3>1, <3>2, <3>3, <3>4 DEF Consenting
  <2>4. QED
    BY ZenonT(60), <2>2, <2>3
<1>7. QED
  BY ZenonT(60), <1>5, <1>6 DEF Consented

\* The steps that have nothing to do with the gates.
LEMMA OtherConsented ==
  ASSUME Shape, Consented,
         \/ \E n \in Nodes : AcquireNext(n) \/ Acquired(n) \/ FinishNode(n) \/ CloseScope(n)
         \/ \E l \in Leases : Renewed(l) \/ \E from, to, cs : LeaseMove(l, from, to, cs)
         \/ \E from, to, cs : MainMove(from, to, cs)
         \/ \E c \in DOMAIN stored.calls : Replay(c)
         \/ Crash
         \/ vars' = vars
  PROVE  Consented'
<1>1. ASSUME NEW n \in Nodes, AcquireNext(n) PROVE Consented'
  <2>1. PICK c : c = AcquireCall(n, scope[n].acquired + 1)
    BY Zenon
  <2>2. /\ Quiet(n) /\ pc[n] = "acquiring" /\ pc' = pc /\ stored' = stored
        /\ todo' = [todo EXCEPT ![n] = <<c>>] /\ stage' = stage /\ reply' = reply
        /\ failed' = [failed EXCEPT ![n] = FALSE]
    BY ZenonT(60), <1>1, <2>1, AcquireNextStep
  <2>3. n \in Threads /\ stage'[n] = "record" /\ pc'[n] = "acquiring"
        /\ \A u \in Threads \ {n} : todo'[u] = todo[u] /\ failed'[u] = failed[u]
    BY SMTT(30), Z3T(30), <2>2, Threading DEF Shape, Typed, ThreadShape
  <2>4. QED
    BY ZenonT(60), <2>2, <2>3, ConsentKept, Threading
<1>2. ASSUME NEW n \in Nodes, Acquired(n) PROVE Consented'
  <2>1. Ends(n, <<>>) /\ failed' = failed /\ Current(n).action = "acquire"
    BY ZenonT(60), <1>2, AcquiredStep
  <2>2. ~Quiet(n)
    BY Zenon, <2>1 DEF Ends
  <2>3. pc[n] = "acquiring" /\ <<n, scope[n].acquired + 1>> \in Leases
    BY ZenonT(60), <2>1, <2>2, AcquiringCall
  <2>4. \A m \in Nodes : pc'[m] = pc[m]
    <3>1. PICK renew \in BOOLEAN :
            pc' = [pc EXCEPT ![<<n, scope[n].acquired + 1>>] = IF renew THEN "timer" ELSE @]
      BY ZenonT(60), <1>2, AcquiredStep
    <3>2. \A m \in Nodes : m # <<n, scope[n].acquired + 1>> /\ m \in Threads
      BY ZenonT(60), <2>3, Threading
    <3>3. DOMAIN pc = Threads
      BY ZenonT(60) DEF Shape, Typed
    <3>4. QED
      BY ZenonT(60), <3>1, <3>2, <3>3
  <2>5. /\ n \in Threads /\ todo'[n] = <<>> /\ stored' = stored
        /\ \A u \in Threads \ {n} : todo'[u] = todo[u] /\ stage'[u] = stage[u] /\ reply'[u] = reply[u]
    BY ZenonT(60), <2>1, Threading DEF Ends, Shape, Typed
  <2>6. QED
    BY ZenonT(60), <2>1, <2>3, <2>4, <2>5, ConsentKept, Threading
<1>3. ASSUME NEW cs, MainStay(cs), pc[Main] \in {"finishing", "closing"} PROVE Consented'
  <2>1. /\ pc' = pc /\ stage' = stage /\ reply' = reply /\ stored' = stored /\ Quiet(Main)
        /\ \A u \in Threads \ {Main} : failed'[u] = failed[u]
    BY ZenonT(60), <1>3 DEF MainStay
  <2>2. Main \in Threads /\ stage'[Main] = "record" /\ \A u \in Threads \ {Main} : todo'[u] = todo[u]
    <3>1. pc[Main] \notin {"running", "recovering"}
      BY ZenonT(60), <1>3
    <3>2. \A u \in Threads \ {Main} : todo'[u] = todo[u]
      BY ZenonT(60), <1>3, <3>1, StayThreads
    <3>3. QED
      BY ZenonT(60), <2>1, <3>2, Threading DEF Shape, ThreadShape
  <2>3. \A n \in Nodes : pc'[n] = pc[n] /\ todo'[n] = todo[n] /\ failed'[n] = failed[n]
    BY ZenonT(60), <2>1, <2>2, Threading
  <2>4. \A t \in Threads : \/ stage'[t] = "record"
                           \/ todo'[t] = todo[t] /\ stage'[t] = stage[t] /\ reply'[t] = reply[t]
    BY ZenonT(60), <2>1, <2>2
  <2>5. QED
    BY ZenonT(60), <2>1, <2>3, <2>4, ConsentKept
<1>4. ASSUME NEW n \in Nodes, FinishNode(n) \/ CloseScope(n) PROVE Consented'
  <2>1. CASE FinishNode(n)
    BY ZenonT(60), <1>3, <2>1, FinishNodeStep
  <2>2. CASE CloseScope(n)
    BY ZenonT(60), <1>3, <2>2, CloseScopeStep
  <2>3. QED
    BY ZenonT(60), <1>4, <2>1, <2>2
<1>5. ASSUME NEW l \in Leases, Renewed(l) PROVE Consented'
  <2>1. Ends(l, <<>>) /\ failed' = failed
    BY ZenonT(60), <1>5, RenewedStep
  <2>2. PICK to : pc' = [pc EXCEPT ![l] = to]
    BY ZenonT(60), <1>5, RenewedStep
  <2>3. /\ l \in Threads /\ todo'[l] = <<>> /\ stored' = stored
        /\ \A u \in Threads \ {l} : /\ todo'[u] = todo[u] /\ stage'[u] = stage[u] /\ reply'[u] = reply[u]
                                    /\ pc'[u] = pc[u]
    BY ZenonT(60), <2>1, <2>2, Threading DEF Ends, Shape, Typed
  <2>4. \A n \in Nodes : pc'[n] = pc[n] /\ todo'[n] = todo[n] /\ failed'[n] = failed[n]
    BY ZenonT(60), <2>1, <2>3, Threading
  <2>5. QED
    BY Zenon, <2>3, <2>4, ConsentKept
<1>6. ASSUME NEW t \in Threads \ Nodes, NEW from, NEW to, NEW cs, Move(t, from, to, cs) PROVE Consented'
  <2>1. /\ stage'[t] = "record"
        /\ \A u \in Threads \ {t} : /\ pc'[u] = pc[u] /\ todo'[u] = todo[u] /\ failed'[u] = failed[u]
                                    /\ stage'[u] = stage[u]
    <3>1. Moved(t, to, cs)
      BY ZenonT(60), <1>6, MoveThreads
    <3>2. QED
      BY ZenonT(60), <3>1 DEF Moved
  <2>2. stored'.calls = stored.calls /\ reply' = reply
    BY Zenon, <1>6 DEF Move
  <2>3. \A n \in Nodes : pc'[n] = pc[n] /\ todo'[n] = todo[n] /\ failed'[n] = failed[n]
    BY ZenonT(60), <1>6, <2>1, Threading
  <2>4. \A u \in Threads : \/ stage'[u] = "record"
                           \/ todo'[u] = todo[u] /\ stage'[u] = stage[u] /\ reply'[u] = reply[u]
    BY ZenonT(60), <2>1, <2>2
  <2>5. QED
    BY ZenonT(60), <2>2, <2>3, <2>4, ConsentKept
<1>7. ASSUME NEW l \in Leases, NEW from, NEW to, NEW cs, LeaseMove(l, from, to, cs) PROVE Consented'
  <2>1. l \in Threads \ Nodes /\ Move(l, from, to, cs)
    BY ZenonT(60), <1>7, Threading DEF LeaseMove
  <2>2. QED
    BY ZenonT(60), <1>6, <2>1
<1>8. ASSUME NEW from, NEW to, NEW cs, MainMove(from, to, cs) PROVE Consented'
  <2>1. Main \in Threads \ Nodes /\ Move(Main, from, to, cs)
    BY ZenonT(60), <1>8, Threading DEF MainMove
  <2>2. QED
    BY ZenonT(60), <1>6, <2>1
<1>9. ASSUME NEW c, Replay(c) PROVE Consented'
  <2>1. PICK d : d = ReplayCall(c)
    BY Zenon
  <2>2. /\ Quiet(Main) /\ pc' = [pc EXCEPT ![Main] = "recovering"] /\ stored' = stored
        /\ todo' = [todo EXCEPT ![Main] = <<d>>] /\ failed' = [failed EXCEPT ![Main] = FALSE]
        /\ stage' = stage /\ reply' = reply
    BY ZenonT(60), <1>9, <2>1, ReplayStep
  <2>3. Main \in Threads /\ stage'[Main] = "record"
        /\ \A u \in Threads \ {Main} : todo'[u] = todo[u] /\ failed'[u] = failed[u] /\ pc'[u] = pc[u]
    BY SMTT(30), Z3T(30), <2>2, Threading DEF Shape, Typed, ThreadShape
  <2>4. \A n \in Nodes : pc'[n] = pc[n] /\ todo'[n] = todo[n] /\ failed'[n] = failed[n]
    BY ZenonT(60), <2>3, Threading
  <2>5. \A u \in Threads : \/ stage'[u] = "record"
                           \/ todo'[u] = todo[u] /\ stage'[u] = stage[u] /\ reply'[u] = reply[u]
    BY ZenonT(60), <2>2, <2>3
  <2>6. QED
    BY ZenonT(60), <2>2, <2>4, <2>5, ConsentKept
<1>10. CASE Crash
  <2>1. /\ stored' = stored
        /\ pc' = [t \in Threads |-> IF t = Main THEN "over" ELSE IF t \in Nodes THEN "done" ELSE "gone"]
        /\ todo' = [t \in Threads |-> <<>>]
    BY Zenon, <1>10 DEF Crash
  <2>2. \A n \in Nodes : pc'[n] = "done"
    BY ZenonT(60), <2>1, Threading
  <2>3. \A u \in Threads : todo'[u] = <<>>
    BY Zenon, <2>1
  <2>4. QED
    BY ZenonT(60), <2>1, <2>2, <2>3, ConsentKept
<1>11. CASE vars' = vars
  <2>1. todo' = todo /\ stage' = stage /\ reply' = reply /\ pc' = pc /\ failed' = failed /\ stored' = stored
    BY ZenonT(60), <1>11 DEF vars, calling, program
  <2>2. QED
    BY ZenonT(60), <2>1, ConsentKept
<1>12. QED
  BY ZenonT(60), <1>1, <1>2, <1>4, <1>5, <1>7, <1>8, <1>9, <1>10, <1>11

\* Acknowledge runs when the nodes are over.
LEMMA AcknowledgeConsented ==
  ASSUME Shape, Consented, NEW c, Acknowledge(c)
  PROVE  Consented'
<1>1. pc[Main] = "over" /\ pc' \in {pc, [pc EXCEPT ![Main] = "recovering"]} /\ todo' = todo
  BY ZenonT(60), AcknowledgeStep
<1>2. Rank(pc[Main]) = 12
  BY ZenonT(60), <1>1, Ranks
<1>3. \A t \in Threads : Quiet(t)'
  <2>1. \A t \in Threads \ {Main} : Quiet(t)
    BY SMTT(30), Z3T(30), <1>2, Alone
  <2>2. Main \in Threads => Quiet(Main)
    BY ZenonT(60), <1>1, QuietPlace
  <2>3. QED
    BY ZenonT(60), <1>1, <2>1, <2>2 DEF Quiet
<1>4. \A n \in Nodes : pc'[n] \in {"prepare", "done"}
  <2>1. \A n \in Nodes : pc[n] \in {"prepare", "done"}
    <3>1. Rank(pc[Main]) >= 3
      BY SMTT(30), Z3T(30), <1>2
    <3>2. QED
      BY ZenonT(60), <3>1 DEF Shape, MainShape
  <2>2. \A n \in Nodes : pc'[n] = pc[n]
    BY ZenonT(60), <1>1, Threading DEF Shape, Typed
  <2>3. QED
    BY ZenonT(60), <2>1, <2>2
<1>5. QED
  BY ZenonT(60), <1>3, <1>4 DEF Consented, ReplyShape, Consenting

\* Every step of the host keeps Consented.
LEMMA ConsentedStep ==
  ASSUME Shape, Recorded, Consented, [Next]_vars
  PROVE  Consented'
<1>1. ASSUME NEW t \in Threads, NEW c, Calls(t, c) PROVE Consented'
  BY ZenonT(60), <1>1, CallConsented
<1>2. ASSUME NEW t \in Threads, Returned(t) PROVE Consented'
  BY ZenonT(60), <1>2, ReturnedConsented
<1>3. ASSUME NEW n \in Nodes, NEW from, NEW to, NEW cs, NodeMove(n, from, to, cs) PROVE Consented'
  BY ZenonT(60), <1>3, NodeMoveConsented
<1>4. ASSUME NEW c, Acknowledge(c) PROVE Consented'
  BY ZenonT(60), <1>4, AcknowledgeConsented
<1>5. QED
  BY ZenonT(60), <1>1, <1>2, <1>3, <1>4, Steps, OtherConsented

\* A mutation runs only with the recorded consent of every required plan gate to
\* its recheck after the approval, for every list of gates and every interleaving.
THEOREM MutationsAdmitted == Spec => []AdmissionRecorded
<1>1. Init => Shape /\ Recorded /\ Consented
  BY ZenonT(60), InitShape, InitRecorded, InitConsented
<1>2. Shape /\ Recorded /\ Consented /\ [Next]_vars => (Shape /\ Recorded /\ Consented)'
  BY ZenonT(60), RecordedStep, ConsentedStep
<1>3. Consented => AdmissionRecorded
  <2>1. SUFFICES ASSUME Consented, NEW n \in Nodes, pc[n] = "apply", NEW i \in DOMAIN RecheckPlan(n),
                        Required(RecheckPlan(n)[i].f)
                 PROVE  Allowed(RecheckPlan(n)[i])
    BY Zenon DEF AdmissionRecorded, Allowed
  <2>2. RecheckPlan(n)[i] \in Range(RecheckPlan(n))
    BY Zenon DEF Range
  <2>3. QED
    BY ZenonT(60), <2>1, <2>2 DEF Consented, Consenting
<1>4. QED
  BY <1>1, <1>2, <1>3, PTL DEF Spec

------------------------------------------------------------------------------
(* What is left outside                                                     *)

\* An acquisition is under way only while Main runs, so that no release is
\* recorded or under way.
LEMMA Acquiring ==
  ASSUME Shape, NEW t \in Threads, ~Quiet(t), Current(t).action = "acquire"
  PROVE  /\ ~Recovering(t) /\ t \in Nodes /\ pc[Main] = "running" /\ Quiet(Main)
         /\ Lease(Current(t)) \in Leases
         /\ Current(t) = AcquireCall(Lease(Current(t))[1], Lease(Current(t))[2])
<1> DEFINE c == Current(t)
<1>1. Known(c)
  BY Zenon, BusyThread
<1>2. Leased(c)
  BY ZenonT(60), <1>1, KnownCall
<1>3. /\ IsCredential(c.f) /\ Lease(c) \in Leases /\ c.ev[2] \in Nodes
      /\ c = AcquireCall(c.ev[2], c.ev[3][1]) /\ Owner(c) = c.ev[2] /\ Place(c) = "acquiring"
  BY ZenonT(60), <1>2, LeasedCall
<1>4. ~Recovering(t)
  BY ZenonT(60), <1>3, BusyThread DEF IsCredential
<1>5. t \in Nodes /\ pc[t] = "acquiring"
  BY ZenonT(60), <1>3, <1>4, BusyThread
<1>6. pc[Main] = "running" /\ Quiet(Main)
  BY ZenonT(60), <1>5, Working
<1>7. Lease(c)[1] = c.ev[2] /\ Lease(c)[2] = c.ev[3][1]
  BY Zenon DEF Lease
<1>8. QED
  BY ZenonT(60), <1>3, <1>4, <1>5, <1>6, <1>7

\* While a lease is acquired nothing is released.
LEMMA NoRelease ==
  ASSUME Shape, Recorded, NEW t \in Threads, ~Quiet(t), Current(t).action = "acquire"
  PROVE  /\ \A d \in DOMAIN stored.calls : d.action # "release"
         /\ \A u \in Threads : ~Quiet(u) => Current(u).action # "release"
<1>1. pc[Main] = "running" /\ Quiet(Main)
  BY ZenonT(60), Acquiring
<1>2. ASSUME NEW d, Known(d), d.action = "release" PROVE Owner(d) = Main /\ Place(d) = "closing"
  <2>1. Leased(d)
    BY ZenonT(60), <1>2, KnownCall
  <2>2. QED
    BY ZenonT(60), <1>2, <2>1, LeasedCall
<1>3. ASSUME NEW d \in DOMAIN stored.calls PROVE d.action # "release"
  <2>1. Known(d) /\ Rank(pc[Owner(d)]) >= Rank(Place(d))
    BY Zenon DEF Recorded, Reached
  <2>2. QED
    BY SMTT(60), Z3T(60), <1>1, <1>2, <2>1, Ranks
<1>4. ASSUME NEW u \in Threads, ~Quiet(u) PROVE Current(u).action # "release"
  <2>1. Known(Current(u)) /\ (Recovering(u) => u = Main) /\ (~Recovering(u) => Owner(Current(u)) = u)
    BY ZenonT(60), <1>4, BusyThread
  <2>2. QED
    BY ZenonT(60), <1>1, <1>2, <1>4, <2>1
<1>5. QED
  BY ZenonT(60), <1>3, <1>4

\* Steps that record nothing and do nothing outside.
LEMMA BookedKept ==
  ASSUME Booked, stored'.calls = stored.calls, live' = live, happened' = happened,
         \A t \in Threads : \/ todo'[t] = <<>> \/ stage'[t] = "record"
                            \/ /\ todo'[t] = todo[t] /\ stage'[t] = stage[t] /\ reply'[t] = reply[t]
                               /\ pc'[t] = pc[t]
  PROVE  Booked'
<1>1. \A c \in DOMAIN stored'.calls : EntrySound(c)'
  <2>1. SUFFICES ASSUME NEW c \in DOMAIN stored.calls PROVE EntrySound(c)'
    BY Zenon
  <2>2. EntrySound(c)
    BY Zenon DEF Booked
  <2>3. QED
    BY ZenonT(60), SMTT(60), <2>2 DEF EntrySound
<1>2. \A l \in live' : /\ l \in Leases /\ AcquireCall(l[1], l[2]) \in DOMAIN stored'.calls
                       /\ stored'.calls[AcquireCall(l[1], l[2])].status # "failed"
  BY Zenon DEF Booked
<1>3. ASSUME NEW t \in Threads PROVE CallSound(t)'
  <2>1. CASE todo'[t] = <<>> \/ stage'[t] = "record"
    BY Zenon, <2>1 DEF CallSound, Quiet, Undone
  <2>2. CASE todo'[t] = todo[t] /\ stage'[t] = stage[t] /\ reply'[t] = reply[t] /\ pc'[t] = pc[t]
    <3>1. /\ Current(t)' = Current(t) /\ Quiet(t)' = Quiet(t) /\ Undone(t)' = Undone(t)
          /\ Recovering(t)' = Recovering(t)
      BY ZenonT(60), <2>2 DEF Current, Quiet, Undone, Recovering
    <3>2. CallSound(t)
      BY Zenon DEF Booked
    <3>3. QED
      BY ZenonT(60), <2>2, <3>1, <3>2 DEF CallSound
  <2>3. QED
    BY ZenonT(60), <2>1, <2>2
<1>4. \A c \in happened' : External(c.f) /\ ~IsCredential(c.f)
  BY Zenon DEF Booked
<1>5. QED
  BY ZenonT(60), <1>1, <1>2, <1>3, <1>4 DEF Booked

\* Before the run nothing is outside.
LEMMA InitBooked == Init => Booked
<1>1. SUFFICES ASSUME Init PROVE Booked
  OBVIOUS
<1>2. DOMAIN stored.calls = {} /\ happened = {} /\ live = {}
  BY SMTT(30), Z3T(30), <1>1 DEF Init
<1>3. \A t \in Threads : Quiet(t)
  BY SMTT(30), Z3T(30), <1>1 DEF Init, Quiet
<1>4. QED
  BY ZenonT(60), <1>2, <1>3 DEF Booked, CallSound

\* What one step of a call does to the record and outside.
LEMMA CallEffects ==
  ASSUME Shape, Recorded, Booked, NEW t \in Threads, NEW c, Calls(t, c)
  PROVE  /\ ~Quiet(t) /\ c = Current(t) /\ Known(c) /\ todo' = todo /\ pc' = pc
         /\ \A u \in Threads \ {t} : stage'[u] = stage[u] /\ reply'[u] = reply[u]
         /\ DOMAIN stored.calls \subseteq DOMAIN stored'.calls
         /\ DOMAIN stored'.calls \subseteq DOMAIN stored.calls \cup {c}
         /\ \A d \in DOMAIN stored.calls \ {c} : stored'.calls[d] = stored.calls[d]
         /\ happened' \subseteq happened \cup {c}
         /\ happened' \subseteq happened \/ (External(c.f) /\ ~IsCredential(c.f))
         /\ live' \subseteq live \cup {Lease(c)}
         /\ live' \subseteq live \/ (c.action = "acquire" /\ stage[t] = "sent")
         /\ happened' # happened \/ live' # live => stage[t] = "sent" /\ stored' = stored
<1>1. /\ CallStep(t) /\ c = Current(t)
      /\ Pending(t, c) \/ Queued(t, c) \/ InFlight(t, c) \/ Settled(t, c)
  BY Zenon DEF Calls
<1>2. /\ todo' = todo /\ pc' = pc /\ ~Quiet(t)
      /\ \A u \in Threads \ {t} : stage'[u] = stage[u] /\ reply'[u] = reply[u]
  BY ZenonT(60), <1>1 DEF CallStep
<1>3. /\ stored' = stored \/ DOMAIN stored'.calls = DOMAIN stored.calls \cup {c}
      /\ \A d \in DOMAIN stored.calls \ {c} : stored'.calls[d] = stored.calls[d]
  BY ZenonT(60), <1>1, CallDomain
<1>4. Known(c)
  BY ZenonT(60), <1>1, <1>2, BusyThread
<1>5. \/ happened' = happened /\ live' = live
      \/ TakesEffect(c) /\ stage[t] = "sent" /\ stored' = stored
  BY ZenonT(60), <1>1 DEF Pending, Queued, InFlight, Settled
<1>6. TakesEffect(c) => /\ happened' \subseteq happened \cup {c}
                        /\ happened' \subseteq happened \/ (External(c.f) /\ ~IsCredential(c.f))
                        /\ live' \subseteq live \cup {Lease(c)}
                        /\ live' \subseteq live \/ c.action = "acquire"
  BY Zenon DEF TakesEffect
<1>7. QED
  BY ZenonT(60), <1>1, <1>2, <1>3, <1>4, <1>5, <1>6

\* The entry that a call leaves.
LEMMA CallEntry ==
  ASSUME Shape, Recorded, Consented, Booked, NEW t \in Threads, NEW c, Calls(t, c), c \in DOMAIN stored'.calls
  PROVE  \/ stored' = stored
         \/ stored'.calls[c].status = "pending" /\ stage[t] = "record"
         \/ /\ stage[t] = "record_result" /\ reply[t] \in {"failed", "unknown"} \cup Decisions(c)
            /\ stored'.calls[c].status = Result(c, reply[t])
            /\ c.action = "acquire" /\ reply[t] = "done" => stored'.calls[c].lease
<1>1. /\ CallStep(t) /\ c = Current(t)
      /\ Pending(t, c) \/ Queued(t, c) \/ InFlight(t, c) \/ Settled(t, c)
  BY Zenon DEF Calls
<1>2. DOMAIN stored = {"calls", "status"}
  BY Zenon DEF Shape, Typed
<1>3. CASE Pending(t, c)
  BY SMTT(30), Z3T(30), <1>2, <1>3 DEF Pending, WithCall
<1>4. CASE Queued(t, c) \/ InFlight(t, c)
  BY ZenonT(60), <1>4 DEF Queued, InFlight
<1>5. CASE Settled(t, c)
  <2>1. stage[t] = "record_result" /\ reply[t] \in {"failed", "unknown"} \cup Decisions(c)
    BY ZenonT(60), <1>1, <1>5 DEF CallStep, Settled, Consented, ReplyShape
  <2>2. PICK lease \in BOOLEAN : lease = (KnownLease(c) \/ (c.action = "acquire" /\ reply[t] = "done"))
    BY ZenonT(60)
  <2>3. stored' = stored \/ stored' = WithCall(c, Result(c, reply[t]), lease, reply[t])
    BY Zenon, <1>5, <2>2 DEF Settled
  <2>4. WithCall(c, Result(c, reply[t]), lease, reply[t]).calls[c]
          = [status |-> Result(c, reply[t]), lease |-> lease, decision |-> reply[t]]
    BY SMTT(30), Z3T(30), <1>2, WithCallDomain
  <2>5. c.action = "acquire" /\ reply[t] = "done" => lease = TRUE
    BY ZenonT(60), <2>2
  <2>6. QED
    BY SMTT(30), Z3T(30), <2>1, <2>3, <2>4, <2>5
<1>6. QED
  BY ZenonT(60), <1>1, <1>3, <1>4, <1>5

\* The steps of a call keep the entries sound.
LEMMA EntryBooked ==
  ASSUME Shape, Recorded, Consented, Booked, NEW t \in Threads, NEW c, Calls(t, c),
         NEW d \in DOMAIN stored'.calls
  PROVE  EntrySound(d)'
<1>1. /\ ~Quiet(t) /\ c = Current(t) /\ Known(c)
      /\ DOMAIN stored'.calls \subseteq DOMAIN stored.calls \cup {c}
      /\ \A e \in DOMAIN stored.calls \ {c} : stored'.calls[e] = stored.calls[e]
      /\ happened' \subseteq happened \cup {c}
      /\ live' \subseteq live \/ (c.action = "acquire" /\ stage[t] = "sent")
      /\ happened' # happened \/ live' # live => stage[t] = "sent" /\ stored' = stored
  BY ZenonT(60), CallEffects
<1>2. CallSound(t) /\ Fresh(t)
  BY Zenon DEF Booked, Recorded
<1>3. CASE d # c
  <2>1. d \in DOMAIN stored.calls /\ stored'.calls[d] = stored.calls[d]
    BY ZenonT(60), <1>1, <1>3
  <2>2. EntrySound(d) /\ (d \in happened' => d \in happened)
    BY ZenonT(60), <1>1, <1>3, <2>1 DEF Booked
  <2>3. d.action = "release" => live' \subseteq live
    BY ZenonT(60), <1>1, <2>1, NoRelease
  <2>4. QED
    BY ZenonT(60), <2>1, <2>2, <2>3 DEF EntrySound
<1>4. CASE d = c
  <2>1. CASE stored' = stored /\ stage[t] = "sent"
    <3>1. stored'.calls[c].status = "pending"
      BY ZenonT(60), <1>1, <1>2, <2>1 DEF CallSound
    <3>2. QED
      BY ZenonT(60), <1>4, <3>1 DEF EntrySound, Statuses
  <2>2. CASE stored' = stored /\ stage[t] # "sent"
    <3>1. happened' = happened /\ live' = live /\ EntrySound(c)
      BY ZenonT(60), <1>1, <1>4, <2>2 DEF Booked
    <3>2. QED
      BY ZenonT(60), <1>4, <2>2, <3>1 DEF EntrySound
  <2>3. CASE stored'.calls[c].status = "pending" /\ stage[t] = "record"
    BY ZenonT(60), <1>4, <2>3 DEF EntrySound, Statuses
  <2>4. CASE /\ stage[t] = "record_result" /\ reply[t] \in {"failed", "unknown"} \cup Decisions(c)
             /\ stored'.calls[c].status = Result(c, reply[t])
             /\ c.action = "acquire" /\ reply[t] = "done" => stored'.calls[c].lease
    <3>1. happened' = happened /\ live' = live
      BY ZenonT(60), <1>1, <2>4
    <3>2. /\ Result(c, reply[t]) \in {"unknown", "failed", "completed"}
          /\ Result(c, reply[t]) = "completed" => reply[t] \in Decisions(c)
          /\ Result(c, reply[t]) = "failed" =>
               reply[t] = "failed" \/ (reply[t] = "unknown" /\ ~External(c.f))
      BY ZenonT(60), <2>4 DEF Result, Decisions
    <3>3. c.action \in {"acquire", "release"} => Decisions(c) = {"done"}
      BY Zenon DEF Decisions
    <3>4. c \in happened /\ Result(c, reply[t]) = "failed" => Kind[c.f] = "observer"
      <4>1. SUFFICES ASSUME c \in happened, Result(c, reply[t]) = "failed" PROVE Kind[c.f] = "observer"
        BY Zenon
      <4>2. External(c.f) /\ ~IsCredential(c.f)
        BY ZenonT(60), <4>1 DEF Booked
      <4>3. Undone(t)
        BY ZenonT(60), <2>4, <3>2, <4>1, <4>2 DEF Undone
      <4>4. Recovering(t)
        BY ZenonT(60), <1>1, <1>2, <4>1, <4>3 DEF CallSound
      <4>5. Kind[c.f] = "observer" \/ c.action = "release"
        BY ZenonT(60), <1>1, <4>4, BusyThread
      <4>6. c.action # "release"
        BY ZenonT(60), <1>1, <4>2, KnownCall
      <4>7. QED
        BY ZenonT(60), <4>5, <4>6
    <3>5. c.action = "release" /\ Result(c, reply[t]) = "completed" => Lease(c) \notin live
      BY ZenonT(60), <1>1, <1>2, <2>4, <3>2, <3>3 DEF CallSound
    <3>6. c.action = "acquire" /\ Result(c, reply[t]) = "completed" => stored'.calls[c].lease
      BY ZenonT(60), <2>4, <3>2, <3>3
    <3>7. QED
      BY ZenonT(60), <1>4, <2>4, <3>1, <3>2, <3>4, <3>5, <3>6 DEF EntrySound, Statuses
  <2>5. QED
    BY ZenonT(60), <1>4, <2>1, <2>2, <2>3, <2>4, CallEntry
<1>5. QED
  BY Zenon, <1>3, <1>4

\* The steps of a call leave a live lease with the entry of its acquisition.
LEMMA LiveBooked ==
  ASSUME Shape, Recorded, Consented, Booked, NEW t \in Threads, NEW c, Calls(t, c), NEW l \in live'
  PROVE  /\ l \in Leases /\ AcquireCall(l[1], l[2]) \in DOMAIN stored'.calls
         /\ stored'.calls[AcquireCall(l[1], l[2])].status # "failed"
<1>1. /\ ~Quiet(t) /\ c = Current(t) /\ Known(c)
      /\ DOMAIN stored.calls \subseteq DOMAIN stored'.calls
      /\ \A e \in DOMAIN stored.calls \ {c} : stored'.calls[e] = stored.calls[e]
      /\ live' \subseteq live \cup {Lease(c)}
      /\ live' \subseteq live \/ (c.action = "acquire" /\ stage[t] = "sent")
      /\ happened' # happened \/ live' # live => stage[t] = "sent" /\ stored' = stored
  BY ZenonT(60), CallEffects
<1>2. CallSound(t) /\ Fresh(t)
  BY Zenon DEF Booked, Recorded
<1>3. CASE l \notin live
  <2>1. l = Lease(c) /\ c.action = "acquire" /\ stage[t] = "sent" /\ stored' = stored
    BY ZenonT(60), <1>1, <1>3
  <2>2. l \in Leases /\ c = AcquireCall(l[1], l[2])
    BY ZenonT(60), <1>1, <2>1, Acquiring
  <2>3. c \in DOMAIN stored.calls /\ stored.calls[c].status = "pending"
    BY ZenonT(60), <1>1, <1>2, <2>1 DEF Fresh, CallSound
  <2>4. QED
    BY ZenonT(60), <2>1, <2>2, <2>3
<1>4. CASE l \in live
  <2>1. PICK a : a = AcquireCall(l[1], l[2])
    BY Zenon
  <2>2. l \in Leases /\ a \in DOMAIN stored.calls /\ stored.calls[a].status # "failed"
    BY ZenonT(60), <1>4, <2>1 DEF Booked
  <2>3. a.action = "acquire" /\ Lease(a) = l /\ IsCredential(a.f)
    BY ZenonT(60), <2>1, <2>2, LeaseCalls
  <2>4. stored'.calls[a].status # "failed"
    <3>1. CASE a # c
      BY ZenonT(60), <1>1, <2>2, <3>1
    <3>2. CASE a = c /\ stored' = stored
      BY ZenonT(60), <2>2, <3>2
    <3>3. CASE a = c /\ stored'.calls[c].status = "pending"
      BY ZenonT(60), <3>3
    <3>4. CASE a = c /\ stage[t] = "record_result" /\ stored'.calls[c].status = Result(c, reply[t])
      <4>1. reply[t] = "failed" => Undone(t)
        BY ZenonT(60), <3>4 DEF Undone
      <4>2. reply[t] # "failed"
        BY ZenonT(60), <1>1, <1>2, <1>4, <2>3, <3>4, <4>1 DEF CallSound
      <4>3. QED
        BY ZenonT(60), <2>3, <3>4, <4>2 DEF Result
    <3>5. QED
      BY ZenonT(60), <1>1, <2>2, <3>1, <3>2, <3>3, <3>4, CallEntry
  <2>5. QED
    BY ZenonT(60), <1>1, <2>1, <2>2, <2>4
<1>5. QED
  BY ZenonT(60), <1>3, <1>4

\* The steps of a call keep what the threads know of theirs.
LEMMA SoundBooked ==
  ASSUME Shape, Recorded, Consented, Booked, NEW t \in Threads, NEW c, Calls(t, c), NEW u \in Threads
  PROVE  CallSound(u)'
<1>1. /\ ~Quiet(t) /\ c = Current(t) /\ Known(c) /\ todo' = todo /\ pc' = pc
      /\ \A v \in Threads \ {t} : stage'[v] = stage[v] /\ reply'[v] = reply[v]
      /\ \A e \in DOMAIN stored.calls \ {c} : stored'.calls[e] = stored.calls[e]
      /\ happened' \subseteq happened \cup {c} /\ live' \subseteq live \cup {Lease(c)}
      /\ live' \subseteq live \/ (c.action = "acquire" /\ stage[t] = "sent")
  BY ZenonT(60), CallEffects
<1>2. CallSound(u) /\ Fresh(u)
  BY Zenon DEF Booked, Recorded
<1>3. /\ Current(u)' = Current(u) /\ Quiet(u)' = Quiet(u) /\ Recovering(u)' = Recovering(u)
  BY ZenonT(60), <1>1 DEF Current, Quiet, Recovering
<1>4. SUFFICES ASSUME ~Quiet(u)
      PROVE  /\ stage'[u] \in {"queue", "sent", "record_result"} => stored'.calls[Current(u)].status = "pending"
             /\ Undone(u)' /\ ~Recovering(u) => Current(u) \notin happened'
             /\ Undone(u)' /\ Current(u).action = "acquire" => Lease(Current(u)) \notin live'
             /\ stage'[u] = "record_result" /\ reply'[u] = "done" /\ Current(u).action = "release" =>
                  Lease(Current(u)) \notin live'
  BY Zenon, <1>3 DEF CallSound
<1>5. CASE u # t
  <2>1. Current(u) # c
    BY ZenonT(90), SMTT(60), <1>1, <1>4, <1>5, OthersDiffer, BusyThread DEF Current
  <2>2. stage'[u] = stage[u] /\ reply'[u] = reply[u]
    BY ZenonT(60), <1>1, <1>5
  <2>3. Undone(u)' = Undone(u)
    BY ZenonT(60), <2>2 DEF Undone
  <2>4. Current(u).action = "acquire" /\ Lease(Current(u)) \in live' => Lease(Current(u)) \in live
    <3>1. c.action = "acquire" => c = AcquireCall(Lease(c)[1], Lease(c)[2])
      BY ZenonT(60), <1>1, Acquiring
    <3>2. Current(u).action = "acquire" =>
            Current(u) = AcquireCall(Lease(Current(u))[1], Lease(Current(u))[2])
      BY ZenonT(60), <1>4, Acquiring
    <3>3. QED
      BY ZenonT(60), <1>1, <2>1, <3>1, <3>2
  <2>5. Current(u).action = "release" => live' \subseteq live
    BY ZenonT(60), <1>1, <1>4, NoRelease
  <2>6. stage[u] \in {"queue", "sent", "record_result"} => stored'.calls[Current(u)].status = "pending"
    BY ZenonT(60), <1>1, <1>2, <1>4, <2>1 DEF Fresh, CallSound
  <2>7. QED
    BY ZenonT(60), <1>1, <1>2, <1>4, <2>1, <2>2, <2>3, <2>4, <2>5, <2>6 DEF CallSound
<1>6. CASE u = t
  <2>1. Pending(t, c) \/ Queued(t, c) \/ InFlight(t, c) \/ Settled(t, c)
    BY Zenon DEF Calls
  <2>2. CASE Pending(t, c)
    <3>1. DOMAIN stored = {"calls", "status"}
      BY Zenon DEF Shape, Typed
    <3>2. /\ live' = live /\ happened' = happened /\ stage[t] = "record"
          /\ stage'[t] = "queue" => stored'.calls[c].status = "pending"
          /\ stage'[t] \in {"queue", "returned"}
      BY SMTT(30), Z3T(30), <2>2, <3>1 DEF Pending, WithCall
    <3>3. ~Recovering(t) => c \notin DOMAIN stored.calls
      BY ZenonT(60), <1>1, <1>2, <1>6, <3>2, BusyThread DEF Fresh, Current
    <3>4. happened \subseteq DOMAIN stored.calls
      BY Zenon DEF Recorded
    <3>5. c.action = "acquire" => Lease(c) \notin live
      <4>1. c.action = "acquire" => ~Recovering(t) /\ c = AcquireCall(Lease(c)[1], Lease(c)[2])
        BY ZenonT(60), <1>1, Acquiring
      <4>2. QED
        BY ZenonT(60), <3>3, <4>1 DEF Booked
    <3>6. QED
      BY ZenonT(60), <1>1, <1>6, <3>2, <3>3, <3>4, <3>5
  <2>3. CASE Queued(t, c)
    <3>1. /\ live' = live /\ happened' = happened /\ stored' = stored /\ stage[t] = "queue"
          /\ stage'[t] = "record_result" => reply'[t] = "failed"
      BY ZenonT(60), <2>3 DEF Queued
    <3>2. Undone(t)
      BY Zenon, <3>1 DEF Undone
    <3>3. QED
      BY ZenonT(60), <1>1, <1>2, <1>6, <3>1, <3>2 DEF CallSound
  <2>4. CASE InFlight(t, c)
    <3>1. stored' = stored /\ stage[t] = "sent"
      BY Zenon, <2>4 DEF InFlight
    <3>2. stored.calls[c].status = "pending" /\ Undone(t)
      BY ZenonT(60), <1>1, <1>2, <1>6, <3>1 DEF CallSound, Undone
    <3>3. CASE live' = live /\ happened' = happened /\ reply'[t] \in {"failed", "unknown"}
      BY ZenonT(60), <1>1, <1>2, <1>6, <3>1, <3>2, <3>3 DEF CallSound
    <3>4. CASE live' = live /\ happened' = happened /\ stage'[t] = "queue"
      BY ZenonT(60), <1>1, <1>2, <1>6, <3>1, <3>2, <3>4 DEF CallSound
    <3>5. CASE stage'[t] = "record_result" /\ TakesEffect(c) /\ reply'[t] \in Decisions(c) \cup {"unknown"}
      <4>1. ~Undone(t)'
        BY ZenonT(60), <3>5 DEF Undone, Decisions
      <4>2. c.action = "release" => Lease(c) \notin live'
        BY ZenonT(60), <3>5 DEF TakesEffect
      <4>3. QED
        BY ZenonT(60), <1>1, <1>6, <3>1, <3>2, <4>1, <4>2
    <3>6. QED
      BY ZenonT(60), <2>4, <3>3, <3>4, <3>5 DEF InFlight
  <2>5. CASE Settled(t, c)
    BY ZenonT(60), <1>6, <2>5 DEF Settled, Undone
  <2>6. QED
    BY ZenonT(60), <2>1, <2>2, <2>3, <2>4, <2>5
<1>7. QED
  BY ZenonT(60), <1>5, <1>6

\* The steps of a call keep Booked.
LEMMA CallBooked ==
  ASSUME Shape, Recorded, Consented, Booked, NEW t \in Threads, NEW c, Calls(t, c)
  PROVE  Booked'
<1>1. \A d \in DOMAIN stored'.calls : EntrySound(d)'
  BY Zenon, EntryBooked
<1>2. \A l \in live' : /\ l \in Leases /\ AcquireCall(l[1], l[2]) \in DOMAIN stored'.calls
                       /\ stored'.calls[AcquireCall(l[1], l[2])].status # "failed"
  BY Zenon, LiveBooked
<1>3. \A u \in Threads : CallSound(u)'
  BY ZenonT(60), SoundBooked
<1>4. \A d \in happened' : External(d.f) /\ ~IsCredential(d.f)
  <2>1. /\ happened' \subseteq happened \cup {c}
        /\ happened' \subseteq happened \/ (External(c.f) /\ ~IsCredential(c.f))
    BY Zenon, CallEffects
  <2>2. QED
    BY Zenon, <2>1 DEF Booked
<1>5. QED
  BY ZenonT(60), <1>1, <1>2, <1>3, <1>4 DEF Booked

\* The steps that do nothing outside.
LEMMA OtherBooked ==
  ASSUME Shape, Booked,
         \/ \E t \in Threads : Returned(t)
         \/ \E n \in Nodes : \/ AcquireNext(n) \/ Acquired(n) \/ FinishNode(n) \/ CloseScope(n)
                             \/ \E from, to, cs : NodeMove(n, from, to, cs)
         \/ \E l \in Leases : Renewed(l) \/ \E from, to, cs : LeaseMove(l, from, to, cs)
         \/ \E from, to, cs : MainMove(from, to, cs)
         \/ \E c \in DOMAIN stored.calls : Replay(c)
         \/ vars' = vars
  PROVE  Booked'
<1>1. ASSUME NEW t \in Threads, NEW rest, Ends(t, rest),
             \A u \in Threads \ {t} : pc'[u] = pc[u] \/ Quiet(u)
      PROVE  Booked'
  <2>1. /\ stage'[t] = "record" /\ stored' = stored /\ live' = live /\ happened' = happened
        /\ \A u \in Threads \ {t} : todo'[u] = todo[u] /\ stage'[u] = stage[u] /\ reply'[u] = reply[u]
    BY ZenonT(60), <1>1 DEF Ends, Shape, Typed
  <2>2. \A u \in Threads : \/ todo'[u] = <<>> \/ stage'[u] = "record"
                           \/ /\ todo'[u] = todo[u] /\ stage'[u] = stage[u] /\ reply'[u] = reply[u]
                              /\ pc'[u] = pc[u]
    BY ZenonT(60), <1>1, <2>1 DEF Quiet
  <2>3. QED
    BY ZenonT(60), <2>1, <2>2, BookedKept
<1>2. ASSUME NEW t \in Threads, NEW from, NEW to, NEW cs, Move(t, from, to, cs) PROVE Booked'
  <2>1. /\ stage'[t] = "record"
        /\ \A u \in Threads \ {t} : pc'[u] = pc[u] /\ todo'[u] = todo[u] /\ stage'[u] = stage[u]
    <3>1. Moved(t, to, cs)
      BY ZenonT(60), <1>2, MoveThreads
    <3>2. QED
      BY Zenon, <3>1 DEF Moved
  <2>2. stored'.calls = stored.calls /\ reply' = reply /\ live' = live /\ happened' = happened
    BY Zenon, <1>2 DEF Move
  <2>3. \A u \in Threads : \/ stage'[u] = "record"
                           \/ /\ todo'[u] = todo[u] /\ stage'[u] = stage[u] /\ reply'[u] = reply[u]
                              /\ pc'[u] = pc[u]
    BY ZenonT(60), <2>1, <2>2
  <2>4. QED
    BY ZenonT(60), <2>2, <2>3, BookedKept
<1>3. ASSUME NEW t \in Threads, Quiet(t), \A u \in Threads \ {t} : todo'[u] = todo[u] /\ pc'[u] = pc[u],
             stage' = stage, reply' = reply, stored' = stored, live' = live, happened' = happened
      PROVE  Booked'
  <2>1. stage'[t] = "record"
    BY ZenonT(60), <1>3 DEF Shape, ThreadShape
  <2>2. \A u \in Threads : \/ stage'[u] = "record"
                           \/ /\ todo'[u] = todo[u] /\ stage'[u] = stage[u] /\ reply'[u] = reply[u]
                              /\ pc'[u] = pc[u]
    BY ZenonT(60), <1>3, <2>1
  <2>3. stored'.calls = stored.calls
    BY Zenon, <1>3
  <2>4. QED
    BY ZenonT(60), <1>3, <2>2, <2>3, BookedKept
<1>4. ASSUME NEW t \in Threads, Returned(t) PROVE Booked'
  BY ZenonT(60), <1>1, <1>4, ReturnedEnds
<1>5. ASSUME NEW n \in Nodes, AcquireNext(n) PROVE Booked'
  <2>1. PICK c : c = AcquireCall(n, scope[n].acquired + 1)
    BY Zenon
  <2>2. /\ Quiet(n) /\ pc' = pc /\ stored' = stored /\ live' = live /\ happened' = happened
        /\ todo' = [todo EXCEPT ![n] = <<c>>] /\ stage' = stage /\ reply' = reply
    BY ZenonT(60), <1>5, <2>1, AcquireNextStep
  <2>3. n \in Threads /\ \A u \in Threads \ {n} : todo'[u] = todo[u]
    BY ZenonT(60), <2>2, Threading DEF Shape, Typed
  <2>4. QED
    BY ZenonT(60), <1>3, <2>2, <2>3
<1>6. ASSUME NEW n \in Nodes, Acquired(n) PROVE Booked'
  <2>1. Ends(n, <<>>) /\ Current(n).action = "acquire"
    BY ZenonT(60), <1>6, AcquiredStep
  <2>2. ~Quiet(n)
    BY Zenon, <2>1 DEF Ends
  <2>3. PICK l \in Leases : l = <<n, scope[n].acquired + 1>> /\ pc[l] = "none"
    BY ZenonT(60), <2>1, <2>2, AcquiringCall
  <2>4. PICK renew \in BOOLEAN : pc' = [pc EXCEPT ![l] = IF renew THEN "timer" ELSE @]
    BY ZenonT(60), <1>6, <2>3, AcquiredStep
  <2>5. n \in Threads /\ Quiet(l)
    BY ZenonT(60), <2>3, Threading, QuietPlace
  <2>6. \A u \in Threads \ {n} : pc'[u] = pc[u] \/ Quiet(u)
    BY ZenonT(60), <2>4, <2>5 DEF Shape, Typed
  <2>7. QED
    BY ZenonT(60), <1>1, <2>1, <2>5, <2>6
<1>7. ASSUME NEW cs, MainStay(cs), pc[Main] \in {"finishing", "closing"} PROVE Booked'
  <2>1. /\ Quiet(Main) /\ pc' = pc /\ stored' = stored /\ live' = live /\ happened' = happened
        /\ stage' = stage /\ reply' = reply
    BY ZenonT(60), <1>7 DEF MainStay
  <2>2. Main \in Threads /\ \A u \in Threads \ {Main} : todo'[u] = todo[u]
    <3>1. pc[Main] \notin {"running", "recovering"}
      BY Zenon, <1>7
    <3>2. QED
      BY ZenonT(60), <1>7, <3>1, StayThreads, Threading
  <2>3. QED
    BY ZenonT(60), <1>3, <2>1, <2>2
<1>8. ASSUME NEW n \in Nodes, FinishNode(n) PROVE Booked'
  BY ZenonT(60), <1>7, <1>8, FinishNodeStep
<1>9. ASSUME NEW n \in Nodes, CloseScope(n) PROVE Booked'
  BY ZenonT(60), <1>7, <1>9, CloseScopeStep
<1>10. ASSUME NEW l \in Leases, Renewed(l) PROVE Booked'
  <2>1. Ends(l, <<>>) /\ l \in Threads
    BY ZenonT(60), <1>10, RenewedStep, Threading
  <2>2. PICK to : pc' = [pc EXCEPT ![l] = to]
    BY ZenonT(60), <1>10, RenewedStep
  <2>3. \A u \in Threads \ {l} : pc'[u] = pc[u]
    BY ZenonT(60), <2>2 DEF Shape, Typed
  <2>4. QED
    BY ZenonT(60), <1>1, <2>1, <2>3
<1>11. ASSUME NEW n \in Nodes, NEW from, NEW to, NEW cs, NodeMove(n, from, to, cs) PROVE Booked'
  BY ZenonT(60), <1>2, <1>11, Threading DEF NodeMove
<1>12. ASSUME NEW l \in Leases, NEW from, NEW to, NEW cs, LeaseMove(l, from, to, cs) PROVE Booked'
  BY ZenonT(60), <1>2, <1>12, Threading DEF LeaseMove
<1>13. ASSUME NEW from, NEW to, NEW cs, MainMove(from, to, cs) PROVE Booked'
  BY ZenonT(60), <1>2, <1>13, Threading DEF MainMove
<1>14. ASSUME NEW c, Replay(c) PROVE Booked'
  <2>1. PICK d : d = ReplayCall(c)
    BY Zenon
  <2>2. /\ Quiet(Main) /\ pc' = [pc EXCEPT ![Main] = "recovering"] /\ stored' = stored
        /\ todo' = [todo EXCEPT ![Main] = <<d>>] /\ stage' = stage /\ reply' = reply
        /\ live' = live /\ happened' = happened
    BY ZenonT(60), <1>14, <2>1, ReplayStep
  <2>3. Main \in Threads /\ \A u \in Threads \ {Main} : todo'[u] = todo[u] /\ pc'[u] = pc[u]
    BY ZenonT(60), <2>2, Threading DEF Shape, Typed
  <2>4. QED
    BY ZenonT(60), <1>3, <2>2, <2>3
<1>15. CASE vars' = vars
  <2>1. /\ todo' = todo /\ stage' = stage /\ reply' = reply /\ pc' = pc /\ stored' = stored
        /\ live' = live /\ happened' = happened
    BY Zenon, <1>15 DEF vars, calling, program, outside
  <2>2. QED
    BY ZenonT(60), <2>1, BookedKept
<1>16. QED
  BY ZenonT(60), <1>4, <1>5, <1>6, <1>8, <1>9, <1>10, <1>11, <1>12, <1>13, <1>14, <1>15

\* An acknowledged entry claims nothing of the outside.
LEMMA AcknowledgeBooked ==
  ASSUME Shape, Recorded, Booked, NEW c \in DOMAIN stored.calls, Acknowledge(c)
  PROVE  Booked'
<1>1. /\ pc[Main] = "over" /\ todo' = todo /\ live' = live /\ happened' = happened
      /\ stored' \in {stored, WithCall(c, "acknowledged", stored.calls[c].lease, stored.calls[c].decision)}
  BY Zenon, AcknowledgeStep
<1>2. \A t \in Threads : Quiet(t)'
  <2>1. Rank(pc[Main]) = 12
    BY ZenonT(60), <1>1, Ranks
  <2>2. \A t \in Threads \ {Main} : Quiet(t)
    BY SMTT(30), Z3T(30), <2>1, Alone
  <2>3. Main \in Threads => Quiet(Main)
    BY ZenonT(60), <1>1, QuietPlace
  <2>4. QED
    BY ZenonT(60), <1>1, <2>2, <2>3 DEF Quiet
<1>3. \/ stored' = stored
      \/ /\ DOMAIN stored'.calls = DOMAIN stored.calls /\ stored'.calls[c].status = "acknowledged"
         /\ \A d \in DOMAIN stored.calls \ {c} : stored'.calls[d] = stored.calls[d]
  <2>1. DOMAIN stored = {"calls", "status"}
    BY Zenon DEF Shape, Typed
  <2>2. QED
    BY SMTT(30), Z3T(30), <1>1, <2>1 DEF WithCall
<1>4. DOMAIN stored'.calls = DOMAIN stored.calls
      /\ \A d \in DOMAIN stored.calls :
           stored'.calls[d] = stored.calls[d] \/ stored'.calls[d].status = "acknowledged"
  BY Zenon, <1>3
<1>5. \A d \in DOMAIN stored'.calls : EntrySound(d)'
  BY ZenonT(60), <1>1, <1>4 DEF Booked, EntrySound, Statuses
<1>6. \A l \in live' : /\ l \in Leases /\ AcquireCall(l[1], l[2]) \in DOMAIN stored'.calls
                       /\ stored'.calls[AcquireCall(l[1], l[2])].status # "failed"
  <2>1. ASSUME NEW l \in live'
        PROVE  /\ l \in Leases /\ AcquireCall(l[1], l[2]) \in DOMAIN stored'.calls
               /\ stored'.calls[AcquireCall(l[1], l[2])].status # "failed"
    <3>1. PICK a : a = AcquireCall(l[1], l[2])
      BY Zenon
    <3>2. l \in Leases /\ a \in DOMAIN stored.calls /\ stored.calls[a].status # "failed"
      BY ZenonT(60), <1>1, <3>1 DEF Booked
    <3>3. QED
      BY ZenonT(60), <1>4, <3>1, <3>2
  <2>2. QED
    BY Zenon, <2>1
<1>7. \A t \in Threads : CallSound(t)'
  BY Zenon, <1>2 DEF CallSound
<1>8. \A d \in happened' : External(d.f) /\ ~IsCredential(d.f)
  BY Zenon, <1>1 DEF Booked
<1>9. QED
  BY ZenonT(60), <1>5, <1>6, <1>7, <1>8 DEF Booked

\* A crash while calls are under way leaves them pending.
LEMMA CrashBooked ==
  ASSUME Shape, Recorded, Booked, Crash
  PROVE  Booked'
<1> DEFINE Flying == {t \in Threads : At(t, "sent")}
<1>1. stored' = stored /\ \A t \in Threads : todo'[t] = <<>>
  BY Zenon DEF Crash
<1>2. /\ \A d \in happened' : d \in happened \/ (External(d.f) /\ ~IsCredential(d.f) /\ \E t \in Flying : d = Current(t))
      /\ \A l \in live' : l \in live \/ \E t \in Flying : Current(t).action = "acquire" /\ l = Lease(Current(t))
  BY Zenon DEF Crash
<1>3. ASSUME NEW t \in Flying
      PROVE  /\ t \in Threads /\ ~Quiet(t) /\ Current(t) \in DOMAIN stored.calls
             /\ stored.calls[Current(t)].status = "pending"
  <2>1. t \in Threads /\ ~Quiet(t) /\ stage[t] = "sent"
    BY Zenon DEF At, Quiet
  <2>2. QED
    BY ZenonT(60), <2>1 DEF Recorded, Fresh, Booked, CallSound
<1> HIDE DEF Flying
<1>4. ASSUME NEW d \in DOMAIN stored'.calls PROVE EntrySound(d)'
  <2>1. d \in DOMAIN stored.calls /\ EntrySound(d)
    BY Zenon, <1>1 DEF Booked
  <2>2. d \in happened' /\ stored.calls[d].status = "failed" => d \in happened
    BY ZenonT(60), <1>2, <1>3
  <2>3. d.action = "release" /\ Lease(d) \in live' => Lease(d) \in live
    <3>1. ASSUME NEW t \in Flying, Current(t).action = "acquire" PROVE d.action # "release"
      BY ZenonT(60), <1>3, <2>1, <3>1, NoRelease
    <3>2. QED
      BY ZenonT(60), <1>2, <3>1
  <2>4. QED
    BY ZenonT(60), <1>1, <2>1, <2>2, <2>3 DEF EntrySound
<1>5. ASSUME NEW l \in live'
      PROVE  /\ l \in Leases /\ AcquireCall(l[1], l[2]) \in DOMAIN stored'.calls
             /\ stored'.calls[AcquireCall(l[1], l[2])].status # "failed"
  <2>1. CASE l \in live
    BY ZenonT(60), <1>1, <2>1 DEF Booked
  <2>2. CASE \E t \in Flying : Current(t).action = "acquire" /\ l = Lease(Current(t))
    <3>1. PICK t \in Flying : Current(t).action = "acquire" /\ l = Lease(Current(t))
      BY ZenonT(60), <2>2
    <3>2. l \in Leases /\ Current(t) = AcquireCall(l[1], l[2])
      BY ZenonT(60), <1>3, <3>1, Acquiring
    <3>3. QED
      BY ZenonT(60), <1>1, <1>3, <3>2
  <2>3. QED
    BY ZenonT(60), <1>2, <2>1, <2>2
<1>6. \A t \in Threads : CallSound(t)'
  BY ZenonT(60), <1>1 DEF CallSound, Quiet
<1>7. \A d \in happened' : External(d.f) /\ ~IsCredential(d.f)
  BY Zenon, <1>2 DEF Booked
<1>8. QED
  BY ZenonT(60), <1>4, <1>5, <1>6, <1>7 DEF Booked

\* Every step of the host keeps Booked.
LEMMA BookedStep ==
  ASSUME Shape, Recorded, Consented, Booked, [Next]_vars
  PROVE  Booked'
<1>1. ASSUME NEW t \in Threads, NEW c, Calls(t, c) PROVE Booked'
  BY ZenonT(60), <1>1, CallBooked
<1>2. ASSUME NEW c \in DOMAIN stored.calls, Acknowledge(c) PROVE Booked'
  BY ZenonT(60), <1>2, AcknowledgeBooked
<1>3. CASE Crash
  BY ZenonT(60), <1>3, CrashBooked
<1>4. QED
  BY ZenonT(60), <1>1, <1>2, <1>3, Steps, OtherBooked

\* The inductive invariant of the plugin host: what the threads do, what the
\* record says of it, which gates consented and what was left outside.
THEOREM HostInvariant == Spec => [](Shape /\ Recorded /\ Consented /\ Booked)
<1>1. Init => Shape /\ Recorded /\ Consented /\ Booked
  BY ZenonT(60), InitShape, InitRecorded, InitConsented, InitBooked
<1>2. Shape /\ Recorded /\ Consented /\ Booked /\ [Next]_vars
        => (Shape /\ Recorded /\ Consented /\ Booked)'
  BY ZenonT(60), RecordedStep, ConsentedStep, BookedStep
<1>3. QED
  BY <1>1, <1>2, PTL DEF Spec

\* Once the process is over, every lease that the provider still holds and every
\* required external effect is accounted for by the record, or the record keeps
\* the recovery barrier, whatever failed, crashed or was replayed before.
THEOREM EffectsAreAccounted == Spec => []EffectsAccounted
<1>1. Shape /\ Recorded /\ Booked => EffectsAccounted
  <2>1. SUFFICES ASSUME Shape, Recorded, Booked, ~NeedsRecovery(stored.calls)
                 PROVE  /\ \A c \in happened : Required(c.f) => Accounted(c)
                        /\ \A l \in live : \E c \in DOMAIN stored.calls :
                             Lease(c) = l /\ IsCredential(c.f) /\ stored.calls[c].status = "acknowledged"
    BY Zenon DEF EffectsAccounted
  <2>2. \A c \in DOMAIN stored.calls : ~Unresolved(stored.calls, c)
    BY ZenonT(60), <2>1 DEF NeedsRecovery
  <2>3. ASSUME NEW c \in happened, Required(c.f) PROVE Accounted(c)
    <3>1. c \in DOMAIN stored.calls /\ External(c.f) /\ ~IsCredential(c.f)
      BY Zenon, <2>1 DEF Recorded, Booked
    <3>2. EntrySound(c) /\ ~Unresolved(stored.calls, c)
      BY ZenonT(60), <2>1, <2>2, <3>1 DEF Booked
    <3>3. stored.calls[c].status \notin {"pending", "unknown", "failed"}
      BY ZenonT(60), <2>3, <3>1, <3>2 DEF EntrySound, Unresolved
    <3>4. QED
      BY ZenonT(60), <3>1, <3>2, <3>3 DEF EntrySound, Statuses, Accounted
  <2>4. ASSUME NEW l \in live
        PROVE  \E c \in DOMAIN stored.calls :
                 Lease(c) = l /\ IsCredential(c.f) /\ stored.calls[c].status = "acknowledged"
    <3>1. PICK a : a = AcquireCall(l[1], l[2])
      BY Zenon
    <3>2. l \in Leases /\ a \in DOMAIN stored.calls /\ stored.calls[a].status # "failed"
      BY ZenonT(60), <2>1, <3>1 DEF Booked
    <3>3. a.action = "acquire" /\ Lease(a) = l /\ IsCredential(a.f) /\ a.ev[1] = "credential.acquire"
      <4>1. 0 \in Nat
        BY Zenon
      <4>2. /\ a.action = "acquire" /\ Lease(a) = l /\ IsCredential(a.f)
            /\ a.ev = <<"credential.acquire", l[1], <<l[2], 0>>>>
        BY ZenonT(60), <3>1, <3>2, <4>1, LeaseCalls
      <4>3. QED
        BY SMTT(30), Z3T(30), <4>2
    <3>4. EntrySound(a) /\ ~Unresolved(stored.calls, a)
      BY ZenonT(60), <2>1, <2>2, <3>2 DEF Booked
    <3>5. CASE stored.calls[a].status = "acknowledged"
      BY ZenonT(60), <3>2, <3>3, <3>5
    <3>6. CASE stored.calls[a].status # "acknowledged"
      <4>1. stored.calls[a].status \in {"pending", "unknown", "completed"}
        BY ZenonT(60), <3>2, <3>4, <3>6 DEF EntrySound, Statuses
      <4>2. l \in Released(stored.calls)
        BY ZenonT(60), <3>3, <3>4, <3>6, <4>1 DEF EntrySound, Unresolved
      <4>3. PICK d \in DOMAIN stored.calls :
              /\ d.ev[1] = "credential.release" /\ Lease(d) = l
              /\ stored.calls[d].status \in {"completed", "acknowledged"}
        BY ZenonT(60), <4>2 DEF Released
      <4>4. Known(d) /\ EntrySound(d)
        BY ZenonT(60), <2>1 DEF Recorded, Booked
      <4>5. Leased(d) /\ IsCredential(d.f)
        BY ZenonT(60), <4>3, <4>4, KnownCall DEF LeasePhases
      <4>6. d.action = "release"
        BY ZenonT(60), <4>3, <4>5, LeasedCall
      <4>7. stored.calls[d].status # "completed"
        BY ZenonT(60), <2>4, <4>3, <4>4, <4>6 DEF EntrySound
      <4>8. QED
        BY ZenonT(60), <4>3, <4>5, <4>7
    <3>7. QED
      BY ZenonT(60), <3>5, <3>6
  <2>5. QED
    BY ZenonT(60), <2>3, <2>4
<1>2. QED
  BY <1>1, HostInvariant, PTL

==============================================================================

--------------------------- MODULE SchedulerProofs ---------------------------
(***************************************************************************)
(* The scheduler runs nodes in order, and reports what became of them, for *)
(* every graph, selection, command and --parallelism.                      *)
(*                                                                         *)
(* Order is not inductive: what carries it is where every goroutine is     *)
(* (SInv).  Those of the levels before li have all returned, those after   *)
(* it have not begun, and in level li exactly the first `launched' ones    *)
(* have; the maps frozen at the head of the level then say exactly what    *)
(* became of the earlier levels.                                           *)
(*                                                                         *)
(* The report is exact only once it is sorted, at the return.  What        *)
(* carries it (ReportInv) is that until then it holds one entry for each   *)
(* goroutine that has ended, and that a review keeps the first failure of  *)
(* the levels behind it.  markNotRun supplies the other nodes, and sorting *)
(* distinct entries by level and name is Flatten of the levels.            *)
(***************************************************************************)
EXTENDS Scheduler, FiniteSetTheorems, WellFoundedInduction, TLAPS

Waiting   == {"started", "preparing", "acting"}
Concluded == {"concluded", "recorded", "returned"}

\* The nodes of the levels before the one runLevels works on.
Earlier == {n \in Nodes : \E k \in DOMAIN levels : k < li /\ n \in Members(levels[k])}

Shape ==
  /\ mode \in Modes
  /\ main \in {"head", "launch", "done"}
  /\ li \in Nat \ {0} /\ launched \in Nat
  /\ main = "launch" => li \in DOMAIN levels /\ launched <= Len(levels[li])
  /\ gor \in [Nodes -> {"none"} \cup Waiting \cup Concluded]
  /\ status \in [Nodes -> {NoStatus, Success, Failed, NotRun}]

\* Where the goroutine of the i-th node of level k may be.
Place(k, i) ==
  LET g == gor[levels[k][i]]
  IN /\ k < li => g = "returned"
     /\ k > li => g = "none"
     /\ k = li /\ main = "head" => g = "none"
     /\ k = li /\ main = "launch" => (g # "none" <=> i <= launched)
     /\ k = li /\ main = "done" => g \in {"none", "returned"}

Placed ==
  /\ \A n \in Nodes : gor[n] # "none" => n \in Selected
  /\ \A k \in DOMAIN levels : \A i \in DOMAIN levels[k] : Place(k, i)

\* What the goroutines hold and what they have recorded.
Outcomes ==
  /\ \A n \in Nodes : status[n] = NoStatus <=> gor[n] \in {"none"} \cup Waiting
  /\ failed = {n \in Nodes : gor[n] \in {"recorded", "returned"} /\ status[n] # Success}
  /\ applied = {n \in Nodes : /\ mode = "apply" /\ gor[n] \in {"recorded", "returned"}
                              /\ status[n] = Success}

\* What the goroutines of the level see, and why the level was entered.
Frozen ==
  /\ main = "launch" =>
       /\ blocked = {n \in Earlier : status[n] # Success}
       /\ snapshot = {n \in Earlier : mode = "apply" /\ status[n] = Success}
  /\ ~KeepGoing => \A n \in Earlier : status[n] = Success

\* In a review only nodes whose dependencies all have a plan are admitted.
Admitted ==
  KeepGoing =>
    \A n \in Selected : gor[n] = "preparing" \/ Ran(n) =>
      \A m \in Waits(n) : gor[m] = "returned" /\ status[m] = Success

SInv == Shape /\ Placed /\ Outcomes /\ Frozen /\ Admitted

-----------------------------------------------------------------------------
(* The levels of a command *)

\* A sequence with one more element.
LEMMA Appended ==
  ASSUME NEW S, NEW s \in Seq(S), NEW e \in S
  PROVE  /\ Append(s, e) \in Seq(S) /\ DOMAIN s = 1 .. Len(s) /\ DOMAIN Append(s, e) = 1 .. Len(s) + 1
         /\ \A i \in 1 .. Len(s) : Append(s, e)[i] = s[i]
         /\ Append(s, e)[Len(s) + 1] = e
BY SMTT(30)

\* The level of SelectedLevels behind level k of the command.
At(k) == IF mode = "destroy" THEN Len(Levels) + 1 - k ELSE k

\* executionLevels: the levels of SelectedLevels in either direction.
LEMMA LevelsShape ==
  /\ Len(Levels) \in Nat /\ DOMAIN Levels = 1 .. Len(Levels)
  /\ DOMAIN levels = DOMAIN Levels /\ Len(levels) = Len(Levels)
  /\ \A k \in DOMAIN levels : At(k) \in DOMAIN levels /\ levels[k] = Levels[At(k)]
  /\ \A k \in DOMAIN levels : At(At(k)) = k
  /\ \A k \in DOMAIN levels : levels[k] \in Seq(Nodes)
<1>1. Len(Levels) \in Nat /\ DOMAIN Levels = 1 .. Len(Levels)
  BY LevelsAssumption
<1>2. \A k \in DOMAIN Levels : At(k) \in DOMAIN Levels /\ At(At(k)) = k
  BY <1>1 DEF At
<1>3. DOMAIN levels = DOMAIN Levels /\ Len(levels) = Len(Levels)
  BY <1>1 DEF levels
<1>4. \A k \in DOMAIN Levels : levels[k] = Levels[At(k)]
  BY DEF levels, At
<1>5. \A k \in DOMAIN Levels : Levels[k] \in Seq(Nodes)
  BY SMTT(30), LevelsAssumption
<1> QED
  BY Zenon, <1>1, <1>2, <1>3, <1>4, <1>5

\* A selected node is in one place of the levels of the command.
LEMMA LevelsDistinct ==
  ASSUME NEW k \in DOMAIN levels, NEW l \in DOMAIN levels,
         NEW i \in DOMAIN levels[k], NEW j \in DOMAIN levels[l]
  PROVE  /\ levels[k][i] \in Nodes
         /\ levels[k][i] = levels[l][j] => k = l /\ i = j
<1>1. levels[k][i] \in Nodes
  BY SMTT(30), Z3T(30), LevelsShape
<1>2. ASSUME levels[k][i] = levels[l][j] PROVE At(k) = At(l) /\ i = j
  BY SMTT(30), Z3T(30), <1>2, LevelsShape, LevelsAssumption
<1>3. At(k) = At(l) => k = l
  <2>1. At(At(k)) = k /\ At(At(l)) = l
    BY LevelsShape
  <2> QED
    BY <2>1
<1> QED
  BY Zenon, <1>1, <1>2, <1>3

\* The selected nodes are those of the levels of the command.
LEMMA LevelsCover ==
  /\ \A n \in Selected : \E k \in DOMAIN levels : \E i \in DOMAIN levels[k] : levels[k][i] = n
  /\ \A k \in DOMAIN levels : \A i \in DOMAIN levels[k] : levels[k][i] \in Selected
<1>1. ASSUME NEW n \in Selected
      PROVE  \E k \in DOMAIN levels : \E i \in DOMAIN levels[k] : levels[k][i] = n
  <2>1. PICK k \in DOMAIN Levels : n \in Members(Levels[k])
    BY DEF Selected
  <2>2. PICK i \in DOMAIN Levels[k] : Levels[k][i] = n
    BY Zenon, <2>1 DEF Members
  <2>3. At(k) \in DOMAIN levels /\ levels[At(k)] = Levels[At(At(k))] /\ At(At(k)) = k
    BY Zenon, LevelsShape
  <2> QED
    BY Zenon, <2>2, <2>3
<1>2. ASSUME NEW k \in DOMAIN levels, NEW i \in DOMAIN levels[k]
      PROVE  levels[k][i] \in Selected
  <2>1. At(k) \in DOMAIN Levels /\ levels[k] = Levels[At(k)]
    BY LevelsShape
  <2> QED
    BY SMTT(30), <2>1 DEF Selected, Members
<1> QED
  BY <1>1, <1>2

\* What a node must wait for is in an earlier level of the command.
LEMMA LevelsOrdered ==
  ASSUME NEW k \in DOMAIN levels, NEW l \in DOMAIN levels,
         NEW i \in DOMAIN levels[k], NEW j \in DOMAIN levels[l],
         levels[k][i] \in Waits(levels[l][j])
  PROVE  k < l
<1>1. /\ At(k) \in DOMAIN Levels /\ levels[k] = Levels[At(k)]
      /\ At(l) \in DOMAIN Levels /\ levels[l] = Levels[At(l)]
      /\ k \in 1 .. Len(Levels) /\ l \in 1 .. Len(Levels) /\ Len(Levels) \in Nat
  BY Zenon, LevelsShape
<1>2. CASE mode = "destroy"
  <2>1. levels[l][j] \in In[levels[k][i]]
    BY <1>2 DEF Waits
  <2>2. At(l) < At(k)
    BY Zenon, <1>1, <2>1, LevelsAssumption
  <2> QED
    BY SMTT(30), <1>1, <1>2, <2>2 DEF At
<1>3. CASE mode # "destroy"
  <2>1. levels[k][i] \in In[levels[l][j]]
    BY <1>3 DEF Waits
  <2>2. At(k) < At(l)
    BY Zenon, <1>1, <2>1, LevelsAssumption
  <2> QED
    BY Zenon, <1>1, <1>3, <2>2 DEF At
<1> QED
  BY Zenon, <1>2, <1>3

-----------------------------------------------------------------------------
(* The invariant *)

\* runLevels starts at the first level, before any goroutine.
LEMMA InvInit == Init => SInv
<1> SUFFICES ASSUME Init PROVE SInv
  OBVIOUS
<1>1. Shape
  BY DEF Init, Shape
<1>2. Placed
  <2>1. \A k \in DOMAIN levels : \A i \in DOMAIN levels[k] : levels[k][i] \in Nodes /\ k >= 1
    BY SMTT(30), LevelsDistinct, LevelsShape
  <2> QED
    BY SMTT(30), <2>1 DEF Init, Placed, Place
<1>3. Earlier = {}
  BY SMTT(30), LevelsShape DEF Init, Earlier
<1>4. Outcomes
  BY DEF Init, Outcomes
<1>5. Frozen
  BY <1>3 DEF Init, Frozen
<1>6. Admitted
  <2>1. Selected \subseteq Nodes
    BY SMTT(30), LevelsCover, LevelsDistinct
  <2> QED
    BY Zenon, <2>1 DEF Init, Admitted, Ran, Success, Failed, NoStatus
<1> QED
  BY Zenon, <1>1, <1>2, <1>4, <1>5, <1>6 DEF SInv

\* The levels and what comes before li do not change while mode and li stay.
LEMMA SameLevels ==
  /\ mode' = mode => levels' = levels
  /\ mode' = mode /\ li' = li => Earlier' = Earlier
<1>1. mode' = mode => levels' = levels
  BY DEF levels
<1> QED
  BY Zenon, <1>1 DEF Earlier

\* A goroutine that has not returned belongs to the level being run.
LEMMA InFlightHere ==
  ASSUME Shape, Placed, NEW n \in Nodes, gor[n] \notin {"none", "returned"}
  PROVE  /\ main = "launch" /\ n \in Selected /\ n \notin Earlier
         /\ \E i \in DOMAIN levels[li] : levels[li][i] = n
<1>1. n \in Selected
  BY DEF Placed
<1>2. PICK k \in DOMAIN levels : \E i \in DOMAIN levels[k] : levels[k][i] = n
  BY Zenon, <1>1, LevelsCover
<1>3. PICK i \in DOMAIN levels[k] : levels[k][i] = n
  BY Zenon, <1>2
<1>4. Place(k, i) /\ k \in Nat /\ li \in Nat
  BY SMTT(30), LevelsShape DEF Placed, Shape
<1>5. k = li /\ main = "launch"
  BY SMTT(30), <1>3, <1>4 DEF Place, Shape
<1>6. n \notin Earlier
  <2> SUFFICES ASSUME n \in Earlier PROVE FALSE
    OBVIOUS
  <2>1. PICK l \in DOMAIN levels : l < li /\ n \in Members(levels[l])
    BY Zenon DEF Earlier
  <2>2. PICK j \in DOMAIN levels[l] : levels[l][j] = n
    BY Zenon, <2>1 DEF Members
  <2>3. l = k
    BY Zenon, <1>3, <2>2, LevelsDistinct
  <2> QED
    BY SMTT(30), <1>4, <1>5, <2>1, <2>3
<1> QED
  BY Zenon, <1>1, <1>3, <1>5, <1>6

\* The goroutines of the earlier levels have returned.
LEMMA EarlierReturned ==
  ASSUME Placed, NEW n \in Earlier
  PROVE  gor[n] = "returned"
<1>1. PICK k \in DOMAIN levels : k < li /\ n \in Members(levels[k])
  BY DEF Earlier
<1>2. PICK i \in DOMAIN levels[k] : levels[k][i] = n
  BY Zenon, <1>1 DEF Members
<1> QED
  BY Zenon, <1>1, <1>2 DEF Placed, Place

\* What a node that has been launched waits for is in an earlier level.
LEMMA WaitsEarlier ==
  ASSUME Shape, Placed, NEW n \in Selected, gor[n] # "none", NEW m \in Waits(n)
  PROVE  m \in Earlier
<1>1. m \in Selected
  BY DEF Waits
<1>2. PICK k \in DOMAIN levels : \E i \in DOMAIN levels[k] : levels[k][i] = m
  BY Zenon, <1>1, LevelsCover
<1>3. PICK i \in DOMAIN levels[k] : levels[k][i] = m
  BY Zenon, <1>2
<1>4. PICK l \in DOMAIN levels : \E j \in DOMAIN levels[l] : levels[l][j] = n
  BY Zenon, LevelsCover
<1>5. PICK j \in DOMAIN levels[l] : levels[l][j] = n
  BY Zenon, <1>4
<1>6. k < l
  BY Zenon, <1>3, <1>5, LevelsOrdered
<1>7. Place(l, j) /\ k \in Nat /\ l \in Nat /\ li \in Nat
  BY SMTT(30), Z3T(30), LevelsShape DEF Placed, Shape
<1>8. l <= li
  BY <1>5, <1>7 DEF Place
<1>9. m \in Nodes /\ m \in Members(levels[k])
  BY Zenon, <1>3, LevelsDistinct DEF Members
<1> QED
  BY SMTT(30), <1>6, <1>7, <1>8, <1>9 DEF Earlier

\* A goroutine's step: nothing but its own place, its status and what it
\* records changes, and it stays in the level.
LEMMA WorkerFrame ==
  ASSUME Shape, Outcomes, NEW n \in Nodes, Worker(n)
  PROVE  /\ mode' = mode /\ main' = main /\ li' = li /\ launched' = launched
         /\ snapshot' = snapshot /\ blocked' = blocked
         /\ gor[n] \in Waiting \cup {"concluded", "recorded"}
         /\ gor'[n] \in (Waiting \ {"started"}) \cup Concluded
         /\ gor' = [gor EXCEPT ![n] = gor'[n]]
         /\ status' = [status EXCEPT ![n] = status'[n]]
         /\ status'[n] \in {NoStatus, Success, Failed, NotRun}
         /\ status'[n] = NoStatus <=> gor'[n] \in Waiting
<1>1. CASE Check(n)
  BY Zenon, <1>1 DEF Check, Skip, Goroutine, Others, frozen, Shape, Outcomes, Waiting, Concluded,
              NoStatus, NotRun, Success, Failed
<1>2. CASE Prepare(n)
  BY ZenonT(60), <1>2 DEF Prepare, Skip, Goroutine, Others, frozen, Shape, Outcomes, Waiting, Concluded,
              NoStatus, NotRun, Success, Failed
<1>3. CASE Act(n)
  BY Zenon, <1>3 DEF Act, Goroutine, Others, frozen, Shape, Outcomes, Waiting, Concluded,
              NoStatus, NotRun, Success, Failed
<1>4. CASE Record(n)
  BY Zenon, <1>4 DEF Record, Goroutine, frozen, Shape, Outcomes, Waiting, Concluded
<1>5. CASE Leave(n)
  BY Zenon, <1>5 DEF Leave, Goroutine, Others, frozen, Shape, Outcomes, Waiting, Concluded
<1> QED
  BY Zenon, <1>1, <1>2, <1>3, <1>4, <1>5 DEF Worker

\* What a goroutine records is what it holds.
LEMMA WorkerRecords ==
  ASSUME Shape, Outcomes, NEW n \in Nodes, Worker(n)
  PROVE  /\ failed' = {m \in Nodes : gor'[m] \in {"recorded", "returned"} /\ status'[m] # Success}
         /\ applied' = {m \in Nodes : /\ mode = "apply" /\ gor'[m] \in {"recorded", "returned"}
                                      /\ status'[m] = Success}
<1>1. CASE Record(n)
  <2>1. /\ gor' = [gor EXCEPT ![n] = "recorded"] /\ status' = status /\ gor[n] = "concluded"
        /\ failed' = IF status[n] # Success THEN failed \cup {n} ELSE failed
        /\ applied' = IF status[n] = Success /\ mode = "apply" THEN applied \cup {n} ELSE applied
    BY Zenon, <1>1 DEF Record, Goroutine, Errored
  <2>2. \A m \in Nodes : gor'[m] = IF m = n THEN "recorded" ELSE gor[m]
    BY Zenon, <2>1 DEF Shape
  <2> QED
    BY ZenonT(90), SMTT(60), <2>1, <2>2 DEF Outcomes
<1>2. CASE Check(n) \/ Prepare(n) \/ Act(n) \/ Leave(n)
  <2>1. failed' = failed /\ applied' = applied
    BY Zenon, <1>2 DEF Check, Prepare, Act, Leave, Skip, Others, results
  <2>2. /\ \A m \in Nodes \ {n} : gor'[m] = gor[m] /\ status'[m] = status[m]
        /\ gor'[n] \in {"recorded", "returned"} <=> gor[n] \in {"recorded", "returned"}
        /\ gor'[n] \in {"recorded", "returned"} => status'[n] = status[n]
    BY Zenon, <1>2 DEF Check, Prepare, Act, Leave, Skip, Goroutine, Shape
  <2> QED
    BY Zenon, <2>1, <2>2 DEF Outcomes
<1> QED
  BY Zenon, <1>1, <1>2 DEF Worker

\* A goroutine is admitted to its action in a review only past the check of
\* the failures seen at the head of the level.
LEMMA WorkerAdmits ==
  ASSUME SInv, KeepGoing, NEW n \in Nodes, Worker(n), (gor[n] = "preparing" \/ Ran(n))',
         NEW m \in Waits(n)
  PROVE  gor[m] = "returned" /\ status[m] = Success
<1>1. gor[n] \notin {"none", "returned"} /\ n \in Selected /\ main = "launch"
  BY Zenon, WorkerFrame, InFlightHere DEF SInv, Waiting
<1>2. CASE gor[n] = "started"
  <2>1. In[n] \cap blocked = {}
    BY Zenon, <1>1, <1>2 DEF Worker, Check, Prepare, Act, Record, Leave, Skip, Goroutine, MustSkip, BlockedBy,
                 Ran, SInv, Shape, Outcomes, Waiting, Success, Failed, NoStatus, NotRun
  <2>2. m \in In[n] /\ m \in Earlier
    BY Zenon, <1>1, WaitsEarlier DEF SInv, Waits, KeepGoing
  <2>3. status[m] = Success
    BY Zenon, <1>1, <2>1, <2>2 DEF SInv, Frozen
  <2> QED
    BY Zenon, <2>2, <2>3, EarlierReturned DEF SInv
<1>3. CASE gor[n] # "started"
  <2>1. gor[n] = "preparing" \/ Ran(n)
    BY Zenon, <1>1, <1>3 DEF Worker, Check, Prepare, Act, Record, Leave, Skip, Goroutine, Others,
                 Ran, SInv, Shape, Outcomes, Waiting, Success, Failed, NoStatus, NotRun
  <2> QED
    BY Zenon, <1>1, <2>1 DEF SInv, Admitted
<1> QED
  BY Zenon, <1>2, <1>3

\* Goroutines preserve the invariant.
LEMMA WorkerInv ==
  ASSUME SInv, NEW n \in Nodes, Worker(n)
  PROVE  SInv'
<1> USE DEF SInv
<1>1. /\ levels' = levels /\ Earlier' = Earlier
      /\ n \notin Earlier /\ n \in Selected /\ main = "launch"
  BY Zenon, WorkerFrame, SameLevels, InFlightHere DEF Waiting
<1>2. /\ \A m \in Nodes : gor'[m] = IF m = n THEN gor'[n] ELSE gor[m]
      /\ \A m \in Nodes : status'[m] = IF m = n THEN status'[n] ELSE status[m]
  BY Zenon, WorkerFrame DEF Shape
<1>3. Shape'
  BY ZenonT(90), SMTT(60), <1>1, WorkerFrame DEF Shape, Waiting, Concluded
<1>4. Placed'
  <2>1. \A k \in DOMAIN levels : \A i \in DOMAIN levels[k] : levels[k][i] \in Nodes
    BY Zenon, LevelsDistinct
  <2>2. \A m \in Nodes : /\ gor'[m] = "none" <=> gor[m] = "none"
                         /\ gor[m] = "returned" => gor'[m] = "returned"
    BY Zenon, <1>2, WorkerFrame DEF Waiting, Concluded
  <2>3. ASSUME NEW k \in DOMAIN levels, NEW i \in DOMAIN levels[k] PROVE Place(k, i)'
    BY SMTT(30), <1>1, <2>1, <2>2, WorkerFrame DEF Placed, Place
  <2> QED
    BY Zenon, <1>1, <2>2, <2>3 DEF Placed
<1>5. Outcomes'
  <2>1. \A m \in Nodes : status'[m] = NoStatus <=> gor'[m] \in {"none"} \cup Waiting
    BY ZenonT(60), <1>2, WorkerFrame DEF Outcomes, Waiting, Concluded
  <2> QED
    BY Zenon, <2>1, WorkerFrame, WorkerRecords DEF Outcomes
<1>6. Frozen'
  <2>1. \A m \in Earlier : m \in Nodes /\ status'[m] = status[m]
    BY Zenon, <1>1, <1>2 DEF Earlier
  <2> QED
    BY ZenonT(60), <1>1, <2>1, WorkerFrame DEF Frozen, KeepGoing
<1>7. Admitted'
  <2> SUFFICES ASSUME KeepGoing', NEW o \in Selected, (gor[o] = "preparing" \/ Ran(o))',
                      NEW m \in Waits(o)'
               PROVE  gor'[m] = "returned" /\ status'[m] = Success
    BY Zenon DEF Admitted
  <2>1. KeepGoing /\ m \in Waits(o) /\ o \in Nodes /\ m \in Nodes
    BY SMTT(30), WorkerFrame, LevelsCover, LevelsDistinct DEF KeepGoing, Waits
  <2>2. gor[m] = "returned" /\ status[m] = Success
    <3>1. CASE o = n
      BY Zenon, <2>1, <3>1, WorkerAdmits
    <3>2. CASE o # n
      <4>1. gor[o] = "preparing" \/ Ran(o)
        BY Zenon, <1>2, <2>1, <3>2 DEF Ran
      <4> QED
        BY Zenon, <2>1, <4>1 DEF Admitted
    <3> QED
      BY Zenon, <3>1, <3>2
  <2>3. m # n
    BY Zenon, <2>2, WorkerFrame DEF Waiting
  <2> QED
    BY Zenon, <1>2, <2>1, <2>2, <2>3
<1> QED
  BY Zenon, <1>3, <1>4, <1>5, <1>6, <1>7

\* runLevels returns only when no goroutine of the level is at work.
LEMMA ReturnInv ==
  ASSUME SInv, NEW e, NEW from, Return(e, from),
         main = "head" \/ InFlight = {}
  PROVE  SInv'
<1> USE DEF SInv
<1>1. /\ mode' = mode /\ main' = "done" /\ li' = li /\ launched' = launched
      /\ gor' = gor /\ status' = status /\ failed' = failed /\ applied' = applied
      /\ levels' = levels /\ Earlier' = Earlier
  BY Zenon, SameLevels DEF Return
<1>2. Shape'
  BY Zenon, <1>1 DEF Shape
<1>3. Placed'
  <2>1. ASSUME NEW k \in DOMAIN levels, NEW i \in DOMAIN levels[k] PROVE Place(k, i)'
    <3>1. levels[k][i] \in Nodes /\ Place(k, i)
      BY Zenon, LevelsDistinct DEF Placed
    <3>2. InFlight = {} => gor[levels[k][i]] \in {"none", "returned"}
      BY Zenon, <3>1 DEF InFlight
    <3> QED
      BY Zenon, <1>1, <3>1, <3>2 DEF Place, Shape
  <2> QED
    BY Zenon, <1>1, <2>1 DEF Placed
<1>4. Outcomes' /\ Frozen' /\ Admitted'
  BY Zenon, <1>1 DEF Outcomes, Frozen, Admitted, Ran, Waits, KeepGoing
<1> QED
  BY Zenon, <1>2, <1>3, <1>4

\* The head of the level freezes what became of the earlier ones.
LEMMA EnterInv == SInv /\ EnterLevel => SInv'
<1> SUFFICES ASSUME SInv, EnterLevel PROVE SInv'
  BY Zenon
<1> USE DEF SInv
<1>1. /\ mode' = mode /\ main = "head" /\ main' = "launch" /\ li' = li /\ launched' = 0
      /\ gor' = gor /\ status' = status /\ failed' = failed /\ applied' = applied
      /\ snapshot' = applied /\ blocked' = failed
      /\ levels' = levels /\ Earlier' = Earlier /\ li <= Len(levels)
  BY Zenon, SameLevels DEF EnterLevel, Snapshot, results
<1>2. Shape'
  <2>1. li \in DOMAIN levels /\ Len(levels[li]) \in Nat
    BY SMTT(30), <1>1, LevelsShape DEF Shape
  <2> QED
    BY SMTT(30), <1>1, <2>1 DEF Shape
<1>3. Placed'
  <2>1. ASSUME NEW k \in DOMAIN levels, NEW i \in DOMAIN levels[k] PROVE Place(k, i)'
    <3>1. Place(k, i) /\ i \in Nat \ {0}
      BY SMTT(30), LevelsShape DEF Placed
    <3> QED
      BY SMTT(30), <1>1, <3>1 DEF Place
  <2> QED
    BY Zenon, <1>1, <2>1 DEF Placed
<1>4. \A n \in Nodes : gor[n] \in {"recorded", "returned"} <=> n \in Earlier
  <2>1. ASSUME NEW n \in Nodes, gor[n] # "none" PROVE n \in Earlier
    <3>1. n \in Selected
      BY Zenon, <2>1 DEF Placed
    <3>2. PICK k \in DOMAIN levels : \E i \in DOMAIN levels[k] : levels[k][i] = n
      BY Zenon, <3>1, LevelsCover
    <3>3. PICK i \in DOMAIN levels[k] : levels[k][i] = n
      BY Zenon, <3>2
    <3>4. Place(k, i) /\ k \in Nat /\ li \in Nat
      BY SMTT(30), LevelsShape DEF Placed, Shape
    <3> QED
      BY SMTT(30), <1>1, <2>1, <3>3, <3>4 DEF Place, Earlier, Members
  <2>2. ASSUME NEW n \in Earlier PROVE gor[n] = "returned"
    BY Zenon, EarlierReturned
  <2> QED
    BY Zenon, <2>1, <2>2
<1>5. Frozen'
  <2>1. Earlier \subseteq Nodes
    BY Zenon DEF Earlier
  <2> QED
    BY Zenon, <1>1, <1>4, <2>1 DEF Frozen, Outcomes, KeepGoing
<1>6. Outcomes' /\ Admitted'
  BY Zenon, <1>1 DEF Outcomes, Admitted, Ran, Waits, KeepGoing
<1> QED
  BY Zenon, <1>2, <1>3, <1>5, <1>6

\* The next goroutine of the level starts.
LEMMA LaunchInv == SInv /\ Launch => SInv'
<1> SUFFICES ASSUME SInv, Launch PROVE SInv'
  OBVIOUS
<1> USE DEF SInv
<1> DEFINE n == levels[li][launched + 1]
<1>1. /\ mode' = mode /\ main = "launch" /\ main' = "launch" /\ li' = li /\ launched' = launched + 1
      /\ gor' = [gor EXCEPT ![n] = "started"] /\ status' = status
      /\ failed' = failed /\ applied' = applied /\ snapshot' = snapshot /\ blocked' = blocked
      /\ levels' = levels /\ Earlier' = Earlier
      /\ li \in DOMAIN levels /\ launched < Len(levels[li]) /\ launched \in Nat
  BY Zenon, SameLevels DEF Launch, results, frozen, Shape
<1>2. /\ launched + 1 \in DOMAIN levels[li] /\ Len(levels[li]) \in Nat
      /\ n \in Nodes /\ n \in Selected /\ gor[n] = "none"
  <2>1. launched + 1 \in DOMAIN levels[li] /\ Len(levels[li]) \in Nat
    BY SMTT(30), <1>1, LevelsShape
  <2>2. n \in Nodes /\ n \in Selected
    BY Zenon, <1>1, <2>1, LevelsDistinct, LevelsCover
  <2>3. Place(li, launched + 1)
    BY Zenon, <1>1, <2>1 DEF Placed
  <2> QED
    BY SMTT(30), Z3T(30), <1>1, <2>1, <2>2, <2>3 DEF Place
<1>3. \A m \in Nodes : gor'[m] = IF m = n THEN "started" ELSE gor[m]
  BY Zenon, <1>1 DEF Shape
<1>4. Shape'
  BY SMTT(30), <1>1, <1>2 DEF Shape, Waiting
<1>5. Placed'
  <2>1. ASSUME NEW k \in DOMAIN levels, NEW i \in DOMAIN levels[k] PROVE Place(k, i)'
    <3>1. /\ Place(k, i) /\ i \in Nat /\ k \in Nat /\ levels[k][i] \in Nodes
          /\ levels[k][i] = n <=> k = li /\ i = launched + 1
      BY SMTT(30), Z3T(30), <1>1, <1>2, LevelsShape, LevelsDistinct DEF Placed
    <3> HIDE DEF n
    <3> QED
      BY SMTT(30), Z3T(30), <1>1, <1>2, <1>3, <3>1 DEF Place
  <2> QED
    BY Zenon, <1>1, <1>2, <1>3, <2>1 DEF Placed
<1>6. Outcomes'
  BY <1>1, <1>2, <1>3 DEF Outcomes, Waiting
<1>7. Frozen'
  BY Zenon, <1>1 DEF Frozen, KeepGoing
<1>8. Admitted'
  <2> HIDE DEF n
  <2> SUFFICES ASSUME KeepGoing', NEW o \in Selected, (gor[o] = "preparing" \/ Ran(o))',
                      NEW m \in Waits(o)'
               PROVE  gor'[m] = "returned" /\ status'[m] = Success
    BY ZenonT(60) DEF Admitted
  <2>1. KeepGoing /\ m \in Waits(o) /\ o \in Nodes /\ m \in Nodes
    BY SMTT(30), <1>1, LevelsCover, LevelsDistinct DEF KeepGoing, Waits
  <2>2. gor[o] = "preparing" \/ Ran(o)
    BY SMTT(30), <1>1, <1>3, <2>1 DEF Ran
  <2>3. gor[m] = "returned" /\ status[m] = Success
    BY Zenon, <2>1, <2>2 DEF Admitted
  <2> QED
    BY Zenon, <1>1, <1>2, <1>3, <2>1, <2>3
<1> QED
  BY Zenon, <1>4, <1>5, <1>6, <1>7, <1>8

\* When wg.Wait has returned, every goroutine of the level has.
LEMMA LevelReturned ==
  ASSUME SInv, LevelDone, NEW i \in DOMAIN levels[li]
  PROVE  gor[levels[li][i]] = "returned"
<1>1. /\ main = "launch" /\ li \in DOMAIN levels /\ launched = Len(levels[li])
      /\ i <= launched /\ levels[li][i] \in Nodes
  BY SMTT(30), Z3T(30), LevelsShape, LevelsDistinct DEF SInv, Shape, LevelDone
<1>2. Place(li, i)
  BY <1>1 DEF SInv, Placed
<1> QED
  BY Zenon, <1>1, <1>2 DEF Place, LevelDone, InFlight

\* A non-empty set of positions of a level has a first one.
LEMMA SmallestError ==
  ASSUME NEW S \in SUBSET Nat, S # {}
  PROVE  \E j \in S : \A l \in S : j <= l
<1> DEFINE R == OpToRel(<, Nat)
<1>1. IsWellFoundedOn(R, Nat)
  BY Zenon, NatLessThanWellFounded
<1>2. \A i, j \in Nat : i < j => <<i, j>> \in R
  BY DEF OpToRel
<1> HIDE DEF R
<1>3. PICK j \in S : \A l \in S : ~ (<<l, j>> \in R)
  BY Zenon, <1>1, WFMin
<1>4. \A l \in S : ~ (l < j)
  BY Zenon, <1>2, <1>3
<1> QED
  BY SMTT(30), <1>4

\* Outside a review the next level starts only if this one had no error.
LEMMA LevelSucceeded ==
  ASSUME SInv, LevelDone, MayContinue, ~KeepGoing, NEW i \in DOMAIN levels[li]
  PROVE  status[levels[li][i]] = Success
<1>1. li \in DOMAIN levels /\ \A j \in DOMAIN levels[li] : levels[li][j] \in Nodes /\ j \in Nat
  BY SMTT(30), LevelsShape, LevelsDistinct DEF SInv, Shape, LevelDone
<1>2. Errors = {}
  <2> SUFFICES ASSUME Errors # {} PROVE FALSE
    BY Zenon
  <2>1. Errors \subseteq Nat
    BY Zenon, <1>1 DEF Errors
  <2>2. \E j \in Errors : \A l \in Errors : j <= l
    BY Zenon, <2>1, SmallestError
  <2>3. FirstOf(Errors) \in Errors
    BY Zenon, <2>2 DEF FirstOf
  <2>4. levels[li][FirstOf(Errors)] \in Nodes
    BY Zenon, <1>1, <2>3 DEF Errors
  <2> QED
    BY Zenon, <2>4, ErrorsAssumption DEF MayContinue, LevelError
<1>3. levels[li][i] \notin failed
  BY Zenon, <1>2 DEF Errors
<1> QED
  BY Zenon, <1>1, <1>3, LevelReturned DEF SInv, Outcomes

\* The next level starts with this one returned.
LEMMA NextLevelInv == SInv /\ NextLevel => SInv'
<1> SUFFICES ASSUME SInv, NextLevel PROVE SInv'
  OBVIOUS
<1> USE DEF SInv
<1>1. /\ mode' = mode /\ main = "launch" /\ main' = "head" /\ li' = li + 1 /\ launched' = launched
      /\ gor' = gor /\ status' = status /\ failed' = failed /\ applied' = applied
      /\ levels' = levels /\ li \in Nat \ {0} /\ LevelDone /\ MayContinue
  BY Zenon, SameLevels DEF NextLevel, LevelDone, results, Shape
<1>2. Shape'
  BY SMTT(30), <1>1 DEF Shape
<1>3. Placed'
  <2>1. ASSUME NEW k \in DOMAIN levels, NEW i \in DOMAIN levels[k] PROVE Place(k, i)'
    <3>1. Place(k, i) /\ k \in Nat
      BY SMTT(30), LevelsShape DEF Placed
    <3>2. k = li => gor[levels[k][i]] = "returned"
      BY Zenon, <1>1, LevelReturned
    <3> QED
      BY SMTT(30), <1>1, <3>1, <3>2 DEF Place
  <2> QED
    BY Zenon, <1>1, <2>1 DEF Placed
<1>4. Frozen'
  <2>1. ASSUME ~KeepGoing, NEW n \in Earlier' PROVE status[n] = Success
    <3>1. PICK k \in DOMAIN levels : k < li + 1 /\ n \in Members(levels[k])
      BY Zenon, <1>1, <2>1 DEF Earlier
    <3>2. PICK i \in DOMAIN levels[k] : levels[k][i] = n
      BY Zenon, <3>1 DEF Members
    <3>3. CASE k = li
      BY Zenon, <1>1, <2>1, <3>2, <3>3, LevelSucceeded
    <3>4. CASE k # li
      <4>1. n \in Earlier
        BY SMTT(30), Z3T(30), <1>1, <3>1, <3>4, LevelsShape, <2>1 DEF Earlier
      <4> QED
        BY Zenon, <2>1, <4>1 DEF Frozen
    <3> QED
      BY Zenon, <3>3, <3>4
  <2> QED
    BY Zenon, <1>1, <2>1 DEF Frozen, KeepGoing
<1>5. Outcomes' /\ Admitted'
  BY Zenon, <1>1 DEF Outcomes, Admitted, Ran, Waits, KeepGoing
<1> QED
  BY <1>2, <1>3, <1>4, <1>5

\* Every step of the scheduler preserves the invariant.
LEMMA NextInv == SInv /\ [Next]_vars => SInv'
<1> SUFFICES ASSUME SInv, [Next]_vars PROVE SInv'
  BY Zenon
<1>1. CASE EnterLevel
  BY Zenon, <1>1, EnterInv
<1>2. CASE StopCancelled
  BY Zenon, <1>2, ReturnInv DEF StopCancelled
<1>3. CASE Launch
  BY <1>3, LaunchInv
<1>4. CASE StopCompletion
  BY Zenon, <1>4, ReturnInv DEF StopCompletion, LevelDone
<1>5. CASE StopLevelHook
  BY Zenon, <1>5, ReturnInv DEF StopLevelHook, LevelDone
<1>6. CASE StopFailed
  BY Zenon, <1>6, ReturnInv DEF StopFailed, LevelDone
<1>7. CASE NextLevel
  BY <1>7, NextLevelInv
<1>8. CASE Complete
  BY Zenon, <1>8, ReturnInv DEF Complete
<1>9. ASSUME NEW n \in Nodes, Worker(n) PROVE SInv'
  BY ZenonT(60), <1>9, WorkerInv
<1>10. CASE Cancel \/ UNCHANGED vars
  <2>1. /\ mode' = mode /\ main' = main /\ li' = li /\ launched' = launched
        /\ gor' = gor /\ status' = status /\ failed' = failed /\ applied' = applied
        /\ snapshot' = snapshot /\ blocked' = blocked /\ levels' = levels /\ Earlier' = Earlier
    BY Zenon, <1>10, SameLevels DEF Cancel, vars, results, frozen
  <2> QED
    BY ZenonT(90), SMTT(60), <2>1 DEF SInv, Shape, Placed, Place, Outcomes, Frozen, Admitted, Ran, Waits, KeepGoing
<1> QED
  BY Zenon, <1>1, <1>2, <1>3, <1>4, <1>5, <1>6, <1>7, <1>8, <1>9, <1>10 DEF Next, Main

\* The invariant of runLevels: where each goroutine is, what it has recorded
\* and what its level was shown, for every graph, command and parallelism.
THEOREM SchedulerInvariant == Spec => []SInv
<1>1. Init => SInv
  BY Zenon, InvInit
<1>2. SInv /\ [Next]_vars => SInv'
  BY Zenon, NextInv
<1> QED
  BY <1>1, <1>2, PTL DEF Spec

-----------------------------------------------------------------------------
(* What follows from it *)

\* runLevels, Destroy: a node's action begins only after everything it must
\* wait for has succeeded, and outside a review after all earlier levels.
THEOREM RunsInOrder == Spec => []OrderRespected
<1>1. SInv => OrderRespected
  <2> SUFFICES ASSUME SInv PROVE OrderRespected
    OBVIOUS
  <2> USE DEF SInv
  <2>1. ASSUME NEW n \in Nodes, Ran(n) PROVE gor[n] # "none"
    BY Zenon, <2>1 DEF Ran, Outcomes, Waiting, Success, Failed, NoStatus
  <2>2. ASSUME NEW n \in Selected, Ran(n), NEW m \in Waits(n)
        PROVE  gor[m] = "returned" /\ status[m] = Success
    <3>1. n \in Nodes
      BY SMTT(30), LevelsCover, LevelsDistinct
    <3>2. m \in Earlier
      BY Zenon, <2>1, <2>2, <3>1, WaitsEarlier
    <3>3. CASE KeepGoing
      BY Zenon, <2>2, <3>3 DEF Admitted
    <3>4. CASE ~KeepGoing
      BY ZenonT(60), <3>2, <3>4, EarlierReturned DEF Frozen
    <3> QED
      BY Zenon, <3>3, <3>4
  <2>3. ASSUME ~KeepGoing, NEW k \in DOMAIN levels, NEW l \in DOMAIN levels, k < l,
               NEW n \in Members(levels[l]), NEW m \in Members(levels[k]), Ran(n)
        PROVE  gor[m] = "returned" /\ status[m] = Success
    <3>1. PICK j \in DOMAIN levels[l] : levels[l][j] = n
      BY Zenon DEF Members
    <3>2. PICK i \in DOMAIN levels[k] : levels[k][i] = m
      BY Zenon DEF Members
    <3>3. n \in Nodes /\ m \in Nodes
      BY ZenonT(60), <3>1, <3>2, LevelsDistinct
    <3>4. Place(l, j) /\ l \in Nat /\ k \in Nat /\ li \in Nat
      BY SMTT(30), Z3T(30), LevelsShape DEF Placed, Shape
    <3>5. k < li
      BY SMTT(30), Z3T(30), <2>1, <2>3, <3>1, <3>3, <3>4 DEF Place
    <3>6. m \in Earlier
      BY Zenon, <3>3, <3>5 DEF Earlier
    <3> QED
      BY Zenon, <2>3, <3>6, EarlierReturned DEF Frozen
  <2> QED
    BY Zenon, <2>2, <2>3 DEF OrderRespected
<1> QED
  BY <1>1, SchedulerInvariant, PTL

\* The snapshot taken at the head of a level: the action of an apply finds the
\* outputs of every selected predecessor in it and of no sibling.
THEOREM SnapshotsComplete == Spec => []InputsVisible
<1>1. SInv => InputsVisible
  <2> SUFFICES ASSUME SInv, NEW n \in Selected, mode = "apply", gor[n] = "acting"
               PROVE  /\ In[n] \cap Selected \subseteq snapshot
                      /\ snapshot \cap Members(levels[li]) = {}
    BY Zenon DEF InputsVisible
  <2> USE DEF SInv
  <2>1. n \in Nodes
    BY SMTT(30), LevelsCover, LevelsDistinct
  <2>2. main = "launch"
    BY Zenon, <2>1, InFlightHere
  <2>3. \A m \in Earlier : status[m] = Success
    BY Zenon DEF Frozen, KeepGoing
  <2>4. snapshot = Earlier
    BY Zenon, <2>2, <2>3 DEF Frozen, Earlier
  <2>5. \A m \in In[n] \cap Selected : m \in Earlier
    BY Zenon, WaitsEarlier DEF Waits
  <2>6. ASSUME NEW m \in Earlier, m \in Members(levels[li]) PROVE FALSE
    <3>1. PICK k \in DOMAIN levels : k < li /\ m \in Members(levels[k])
      BY Zenon DEF Earlier
    <3>2. li \in DOMAIN levels /\ li \in Nat /\ k \in Nat
      BY SMTT(30), <2>2, LevelsShape DEF Shape
    <3>3. k = li
      BY Zenon, <2>6, <3>1, <3>2, LevelsDistinct DEF Members
    <3> QED
      BY SMTT(30), <3>1, <3>2, <3>3
  <2> QED
    BY Zenon, <2>4, <2>5, <2>6
<1> QED
  BY <1>1, SchedulerInvariant, PTL

\* Cancellation: a node that has not begun, and is past no check, when the
\* context is done stays that way.
Idle(n) == cancelled /\ ~Ran(n) /\ gor[n] # "preparing"

\* No step admits an idle node: the check of its goroutine sees the context.
LEMMA IdleStays ==
  ASSUME SInv, [Next]_vars, NEW n \in Selected, Idle(n)
  PROVE  Idle(n)'
<1>1. n \in Nodes
  BY SMTT(30), LevelsCover, LevelsDistinct
<1>2. gor[n] # "acting" /\ gor[n] # "preparing" /\ status[n] \notin {Success, Failed} /\ cancelled
  BY Zenon DEF Idle, Ran
<1>3. CASE Main \/ Cancel \/ UNCHANGED vars
  <2>1. /\ cancelled' /\ status' = status
        /\ \/ gor' = gor
           \/ \E m \in Nodes : gor' = [gor EXCEPT ![m] = "started"]
    <3>1. CASE Launch
      <4>1. launched + 1 \in DOMAIN levels[li] /\ li \in DOMAIN levels
        BY SMTT(30), <3>1, LevelsShape DEF Launch, SInv, Shape
      <4>2. levels[li][launched + 1] \in Nodes
        BY Zenon, <4>1, LevelsDistinct
      <4> QED
        BY Zenon, <1>2, <3>1, <4>2 DEF Launch
    <3>2. CASE ~Launch
      BY Zenon, <1>2, <1>3, <3>2 DEF Main, Cancel, vars, EnterLevel, StopCancelled, StopCompletion,
                      StopLevelHook, StopFailed, NextLevel, Complete, Return
    <3> QED
      BY Zenon, <3>1, <3>2
  <2>2. gor'[n] \in {gor[n], "started"}
    BY Zenon, <1>1, <2>1 DEF SInv, Shape
  <2> QED
    BY Zenon, <1>2, <2>1, <2>2 DEF Idle, Ran
<1>4. ASSUME NEW m \in Nodes, Worker(m) PROVE Idle(n)'
  <2>1. cancelled' = cancelled
    BY Zenon, <1>4 DEF Worker, Check, Prepare, Act, Record, Leave, Skip, Others
  <2>2. CASE m = n
    BY ZenonT(60), <1>1, <1>2, <1>4, <2>1, <2>2 DEF Worker, Check, Prepare, Act, Record, Leave, Skip, Goroutine, Others,
       MustSkip, Idle, Ran, SInv, Shape, Success, Failed, NotRun
  <2>3. CASE m # n
    <3>1. gor'[n] = gor[n] /\ status'[n] = status[n]
      BY Zenon, <1>1, <1>4, <2>3, WorkerFrame DEF SInv, Shape
    <3> QED
      BY Zenon, <1>2, <2>1, <3>1 DEF Idle, Ran
  <2> QED
    BY Zenon, <2>2, <2>3
<1> QED
  BY Zenon, <1>3, <1>4 DEF Next

\* Cancellation: a node not yet launched when the context is cancelled never
\* begins its action.
THEOREM CancellationHolds == Spec => CancelledStaysIdle
<1> SUFFICES ASSUME NEW n \in Selected
             PROVE  Spec => [](cancelled /\ gor[n] = "none" => [](~Ran(n)))
  BY DEF CancelledStaysIdle
<1>1. SInv /\ cancelled /\ gor[n] = "none" => Idle(n)
  <2>1. n \in Nodes
    BY SMTT(30), LevelsCover, LevelsDistinct
  <2> QED
    BY Zenon, <2>1 DEF SInv, Outcomes, Idle, Ran, Success, Failed, NoStatus
<1>2. SInv /\ Idle(n) /\ [Next]_vars => Idle(n)'
  BY Zenon, IdleStays
<1>3. Idle(n) => ~Ran(n)
  BY Zenon DEF Idle
<1> QED
  BY <1>1, <1>2, <1>3, SchedulerInvariant, PTL DEF Spec

\* A review that returns a node's error, or none, has been through all levels.
ReviewEnds ==
  main = "done" /\ KeepGoing /\ err \in Nodes \cup {NoError} => li > Len(levels)

\* A review returns early only with an error that is no node's.
LEMMA ReviewEndsNext == SInv /\ ReviewEnds /\ [Next]_vars => ReviewEnds'
<1> SUFFICES ASSUME SInv, ReviewEnds, [Next]_vars PROVE ReviewEnds'
  OBVIOUS
<1>1. mode' = mode /\ levels' = levels
  <2>1. mode' = mode
    BY Zenon DEF Next, Main, Worker, EnterLevel, StopCancelled, Launch, StopCompletion, StopLevelHook, StopFailed,
           NextLevel, Complete, Return, Check, Prepare, Act, Record, Leave, Skip, Others, Cancel, vars
  <2> QED
    BY Zenon, <2>1, SameLevels
<1>2. CASE EnterLevel \/ Launch \/ NextLevel
  BY Zenon, <1>2 DEF EnterLevel, Launch, NextLevel, LevelDone, ReviewEnds
<1>3. CASE StopCancelled \/ StopCompletion \/ StopLevelHook
  BY Zenon, <1>3, ErrorsAssumption DEF StopCancelled, StopCompletion, StopLevelHook, Return, ReviewEnds, NoError
<1>4. CASE StopFailed
  BY Zenon, <1>1, <1>4 DEF StopFailed, MayContinue, KeepGoing, ReviewEnds
<1>5. CASE Complete
  BY Zenon, <1>1, <1>5 DEF Complete, Return, ReviewEnds
<1>6. CASE Cancel \/ UNCHANGED vars
  BY Zenon, <1>1, <1>6 DEF Cancel, vars, ReviewEnds, KeepGoing
<1>7. ASSUME NEW n \in Nodes, Worker(n) PROVE ReviewEnds'
  <2>1. main' = main /\ main = "launch"
    BY Zenon, <1>7, WorkerFrame, InFlightHere DEF SInv, Waiting
  <2> QED
    BY Zenon, <2>1 DEF ReviewEnds
<1> QED
  BY Zenon, <1>2, <1>3, <1>4, <1>5, <1>6, <1>7 DEF Next, Main

\* Plan with inspection: a review that is not cut short considers every
\* selected node, whatever failed before it.
THEOREM ReviewIsComplete == Spec => []ReviewReachesAll
<1>1. Init => ReviewEnds
  BY DEF Init, ReviewEnds
<1>2. SInv /\ ReviewEnds /\ [Next]_vars => ReviewEnds'
  BY Zenon, ReviewEndsNext
<1>3. SInv /\ ReviewEnds => ReviewReachesAll
  <2> SUFFICES ASSUME SInv, li > Len(levels), NEW n \in Selected
               PROVE  gor[n] = "returned" /\ status[n] # NoStatus
    BY Zenon DEF ReviewEnds, ReviewReachesAll
  <2>1. PICK k \in DOMAIN levels : \E i \in DOMAIN levels[k] : levels[k][i] = n
    BY Zenon, LevelsCover
  <2>2. PICK i \in DOMAIN levels[k] : levels[k][i] = n
    BY ZenonT(60), <2>1
  <2>3. Place(k, i) /\ k < li /\ n \in Nodes
    BY SMTT(30), <2>2, LevelsShape, LevelsDistinct DEF SInv, Placed, Shape
  <2> QED
    BY Zenon, <2>2, <2>3 DEF Place, SInv, Outcomes, Waiting
<1> QED
  BY <1>1, <1>2, <1>3, SchedulerInvariant, PTL DEF Spec

-----------------------------------------------------------------------------
(* The order of the report *)

\* A set of naturals that contains 0 and with each number the next contains all.
LEMMA Counting ==
  ASSUME NEW S \in SUBSET Nat, 0 \in S, \A m \in S : m + 1 \in S
  PROVE  S = Nat
<1> DEFINE R == OpToRel(<, Nat)
           T == Nat \ S
<1>1. IsWellFoundedOn(R, Nat)
  BY Zenon, NatLessThanWellFounded
<1>2. \A i, j \in Nat : i < j => <<i, j>> \in R
  BY DEF OpToRel
<1> HIDE DEF R
<1>3. SUFFICES ASSUME T # {} PROVE FALSE
  BY Zenon
<1>4. PICK j \in T : \A l \in T : ~ (<<l, j>> \in R)
  BY Zenon, <1>1, <1>3, WFMin
<1>5. j # 0 /\ j - 1 \in Nat /\ j - 1 < j
  BY SMTT(30), <1>4
<1>6. j - 1 \in S
  BY Zenon, <1>2, <1>4, <1>5
<1>7. (j - 1) + 1 \in S
  BY Zenon, <1>6
<1> QED
  BY SMTT(30), <1>4, <1>7

\* F[i] is the concatenation of the first i sequences of s, up to the m-th.
Flattening(s, F, m) ==
  F = [i \in 1 .. m |-> IF i = 1 THEN s[i] ELSE F[i - 1] \o s[i]]

\* The prefixes of a flattened sequence exist.
LEMMA FlatteningExists ==
  ASSUME NEW s, NEW m \in Nat
  PROVE  \E F : Flattening(s, F, m)
<1> DEFINE S == {k \in Nat : \E F : Flattening(s, F, k)}
<1>1. 0 \in S
  <2>1. Flattening(s, [i \in 1 .. 0 |-> <<>>], 0)
    BY SMTT(30) DEF Flattening
  <2>2. QED
    BY Zenon, <2>1
<1>2. ASSUME NEW k \in S PROVE k + 1 \in S
  <2>1. PICK F : Flattening(s, F, k)
    BY Zenon, <1>2
  <2> DEFINE G == [i \in 1 .. k + 1 |->
                     IF i <= k THEN F[i] ELSE IF i = 1 THEN s[i] ELSE F[k] \o s[i]]
             H == [i \in 1 .. k + 1 |-> IF i = 1 THEN s[i] ELSE G[i - 1] \o s[i]]
  <2>2. \A i \in 1 .. k : F[i] = IF i = 1 THEN s[i] ELSE F[i - 1] \o s[i]
    BY Zenon, <2>1 DEF Flattening
  <2>3. \A i \in 1 .. k + 1 : G[i] = H[i]
    <3>1. \A i \in 1 .. k + 1 : i - 1 \in 1 .. k \/ i = 1
      OBVIOUS
    <3>2. QED
      BY SMTT(30), <2>2, <3>1
  <2>4. G = H
    BY Zenon, <2>3
  <2>5. Flattening(s, G, k + 1)
    BY Zenon, <2>4 DEF Flattening
  <2>6. k + 1 \in Nat
    BY SMTT(30)
  <2> HIDE DEF G
  <2>7. QED
    BY Zenon, <2>5, <2>6
<1>3. S = Nat
  BY Zenon, <1>1, <1>2, Counting
<1>4. QED
  BY Zenon, <1>3

\* f lists the elements of the first m sequences of s, in order: its j-th is
\* element ix[j] of sequence lv[j].
Lists(f, s, m, lv, ix) ==
  /\ lv \in [1 .. Len(f) -> 1 .. m] /\ ix \in [1 .. Len(f) -> Nat]
  /\ \A j \in 1 .. Len(f) : ix[j] \in DOMAIN s[lv[j]] /\ f[j] = s[lv[j]][ix[j]]
  /\ \A k \in 1 .. m : \A i \in DOMAIN s[k] : \E j \in 1 .. Len(f) : lv[j] = k /\ ix[j] = i
  /\ \A j, l \in 1 .. Len(f) : j < l => lv[j] < lv[l] \/ (lv[j] = lv[l] /\ ix[j] < ix[l])

\* One more sequence.
LEMMA ListsMore ==
  ASSUME NEW T, NEW s \in Seq(Seq(T)), NEW m \in Nat, m + 1 <= Len(s),
         NEW f \in Seq(T), NEW lv, NEW ix, Lists(f, s, m, lv, ix)
  PROVE  /\ f \o s[m + 1] \in Seq(T)
         /\ \E lw, iy : Lists(f \o s[m + 1], s, m + 1, lw, iy)
<1> DEFINE g == f \o s[m + 1]
           n == Len(f)
           lw == [j \in 1 .. Len(g) |-> IF j <= n THEN lv[j] ELSE m + 1]
           iy == [j \in 1 .. Len(g) |-> IF j <= n THEN ix[j] ELSE j - n]
<1>1. /\ s[m + 1] \in Seq(T) /\ Len(s[m + 1]) \in Nat /\ DOMAIN s[m + 1] = 1 .. Len(s[m + 1])
      /\ m + 1 \in DOMAIN s /\ n \in Nat
  BY SMTT(30), Z3T(30)
<1>2. /\ g \in Seq(T) /\ Len(g) = n + Len(s[m + 1])
      /\ \A j \in 1 .. Len(g) : g[j] = IF j <= n THEN f[j] ELSE s[m + 1][j - n]
  BY SMTT(30), Z3T(30), <1>1
<1> HIDE DEF g, n
<1>3. lw \in [1 .. Len(g) -> 1 .. m + 1] /\ iy \in [1 .. Len(g) -> Nat]
  BY SMTT(60), Z3T(60), <1>1, <1>2 DEF Lists, n
<1>4. ASSUME NEW j \in 1 .. Len(g)
      PROVE  iy[j] \in DOMAIN s[lw[j]] /\ g[j] = s[lw[j]][iy[j]]
  <2>1. CASE j <= n
    <3>1. j \in 1 .. n /\ lw[j] = lv[j] /\ iy[j] = ix[j] /\ g[j] = f[j]
      BY SMTT(30), <1>1, <1>2, <2>1
    <3>2. ix[j] \in DOMAIN s[lv[j]] /\ f[j] = s[lv[j]][ix[j]]
      BY Zenon, <3>1 DEF Lists, n
    <3> QED
      BY Zenon, <3>1, <3>2
  <2>2. CASE ~(j <= n)
    BY SMTT(30), Z3T(30), <1>1, <1>2, <2>2
  <2> QED
    BY Zenon, <2>1, <2>2
<1>5. ASSUME NEW k \in 1 .. m + 1, NEW i \in DOMAIN s[k]
      PROVE  \E j \in 1 .. Len(g) : lw[j] = k /\ iy[j] = i
  <2>1. CASE k <= m
    <3>1. PICK j \in 1 .. n : lv[j] = k /\ ix[j] = i
      BY SMTT(30), Z3T(30), <2>1 DEF Lists, n
    <3>2. j \in 1 .. Len(g) /\ j <= n
      BY SMTT(30), Z3T(30), <1>1, <1>2
    <3> QED
      BY Zenon, <3>1, <3>2
  <2>2. CASE k = m + 1
    <3>1. n + i \in 1 .. Len(g) /\ ~(n + i <= n) /\ (n + i) - n = i
      BY SMTT(60), Z3T(60), <1>1, <1>2, <2>2
    <3> QED
      BY Zenon, <2>2, <3>1
  <2>3. k <= m \/ k = m + 1
    OBVIOUS
  <2> QED
    BY Zenon, <2>1, <2>2, <2>3
<1>6. ASSUME NEW j \in 1 .. Len(g), NEW l \in 1 .. Len(g), j < l
      PROVE  lw[j] < lw[l] \/ (lw[j] = lw[l] /\ iy[j] < iy[l])
  <2>1. CASE l <= n
    BY SMTT(30), Z3T(30), <1>1, <1>6, <2>1 DEF Lists, n
  <2>2. CASE ~(l <= n) /\ j <= n
    <3>0. j \in 1 .. n
      BY SMTT(30), <1>1, <1>2, <2>2
    <3>1. lv[j] \in 1 .. m
      BY ZenonT(60), <3>0 DEF Lists, n
    <3> QED
      BY SMTT(30), Z3T(30), <1>1, <2>2, <3>1
  <2>3. CASE ~(l <= n) /\ ~(j <= n)
    BY SMTT(30), Z3T(30), <1>1, <1>2, <1>6, <2>3
  <2> QED
    BY Zenon, <2>1, <2>2, <2>3
<1> HIDE DEF lw, iy
<1>7. Lists(g, s, m + 1, lw, iy)
  BY Zenon, <1>3, <1>4, <1>5, <1>6 DEF Lists
<1>8. g \in Seq(T) /\ \E lx, iz : Lists(g, s, m + 1, lx, iz)
  BY ZenonT(60), <1>2, <1>7
<1> QED
  BY Zenon, <1>8 DEF g

\* The first sequence alone.
LEMMA ListsOne ==
  ASSUME NEW T, NEW s \in Seq(Seq(T)), 1 <= Len(s)
  PROVE  s[1] \in Seq(T) /\ \E lv, ix : Lists(s[1], s, 1, lv, ix)
<1> DEFINE lv == [j \in 1 .. Len(s[1]) |-> 1]
           ix == [j \in 1 .. Len(s[1]) |-> j]
<1>1. s[1] \in Seq(T) /\ Len(s[1]) \in Nat /\ DOMAIN s[1] = 1 .. Len(s[1])
  OBVIOUS
<1>2. Lists(s[1], s, 1, lv, ix)
  <2> DEFINE t == s[1]
  <2>1. \A j \in 1 .. Len(t) : lv[j] = 1 /\ ix[j] = j
    BY Zenon
  <2>2. lv \in [1 .. Len(t) -> 1 .. 1] /\ ix \in [1 .. Len(t) -> Nat]
    BY SMTT(30), <1>1
  <2> HIDE DEF lv, ix
  <2>3. \A k \in 1 .. 1 : k = 1
    BY SMTT(30)
  <2> QED
    BY Zenon, <1>1, <2>1, <2>2, <2>3 DEF Lists
<1> HIDE DEF lv, ix
<1> QED
  BY Zenon, <1>1, <1>2

\* Flatten lists the elements of the sequences in order.
LEMMA FlattenLists ==
  ASSUME NEW T, NEW s \in Seq(Seq(T))
  PROVE  /\ Flatten(s) \in Seq(T)
         /\ \E lv, ix : Lists(Flatten(s), s, Len(s), lv, ix)
<1>1. Len(s) \in Nat
  BY SMTT(30)
<1>2. CASE Len(s) = 0
  <2>1. Flatten(s) = <<>> /\ s = <<>>
    BY SMTT(30), <1>2 DEF Flatten
  <2>2. Lists(<<>>, s, 0, <<>>, <<>>)
    BY SMTT(30), <1>2 DEF Lists
  <2> QED
    BY SMTT(30), Z3T(30), <1>2, <2>1, <2>2
<1>3. CASE Len(s) # 0
  <2> DEFINE F == CHOOSE F : F = [i \in 1 .. Len(s) |-> IF i = 1 THEN s[i] ELSE F[i - 1] \o s[i]]
  <2>1. Flatten(s) = F[Len(s)]
    BY Zenon, <1>3 DEF Flatten
  <2>2. \E G : Flattening(s, G, Len(s))
    BY Zenon, <1>1, FlatteningExists
  <2>3. Flattening(s, F, Len(s))
    BY Zenon, <2>2 DEF Flattening
  <2> HIDE DEF F
  <2> DEFINE Good(k) == F[k] \in Seq(T) /\ \E lv, ix : Lists(F[k], s, k, lv, ix)
             S == {k \in Nat : k + 1 <= Len(s) => Good(k + 1)}
  <2>4. \A i \in 1 .. Len(s) : F[i] = IF i = 1 THEN s[i] ELSE F[i - 1] \o s[i]
    BY Zenon, <2>3 DEF Flattening
  <2>5. 0 \in S
    <3>1. F[1] = s[1] /\ 1 <= Len(s)
      BY SMTT(30), <1>1, <1>3, <2>4
    <3>2. Good(1)
      BY Zenon, <3>1, ListsOne
    <3> QED
      BY SMTT(30), <3>2
  <2>6. ASSUME NEW k \in S PROVE k + 1 \in S
    <3> SUFFICES ASSUME (k + 1) + 1 <= Len(s) PROVE Good((k + 1) + 1)
      BY SMTT(30)
    <3>1. k + 1 \in Nat /\ k + 1 <= Len(s)
      BY SMTT(30), <1>1
    <3>2. F[k + 1] \in Seq(T) /\ \E lv, ix : Lists(F[k + 1], s, k + 1, lv, ix)
      BY Zenon, <3>1
    <3>3. F[(k + 1) + 1] = F[k + 1] \o s[(k + 1) + 1]
      <4>1. (k + 1) + 1 \in 1 .. Len(s) /\ (k + 1) + 1 # 1 /\ ((k + 1) + 1) - 1 = k + 1
        BY SMTT(30), Z3T(30), <1>1, <3>1
      <4> QED
        BY Zenon, <2>4, <4>1
    <3> QED
      BY SMTT(30), Z3T(30), <3>1, <3>2, <3>3, ListsMore
  <2>7. S = Nat
    <3> HIDE DEF S
    <3>1. S \in SUBSET Nat
      BY Zenon DEF S
    <3> QED
      BY Zenon, <2>5, <2>6, <3>1, Counting
  <2>8. Len(s) - 1 \in Nat /\ (Len(s) - 1) + 1 = Len(s)
    BY SMTT(30), <1>1, <1>3
  <2>9. Good(Len(s))
    <3>0. (Len(s) - 1) + 1 <= Len(s)
      BY SMTT(30), <1>1
    <3>1. Len(s) - 1 \in S
      <4> HIDE DEF S
      <4> QED
        BY Zenon, <2>7, <2>8
    <3>2. Good((Len(s) - 1) + 1)
      BY Zenon, <3>0, <3>1
    <3> QED
      BY Zenon, <2>8, <3>2
  <2> QED
    BY Zenon, <2>1, <2>9
<1> QED
  BY Zenon, <1>2, <1>3

\* The order of M entries as a numbering of them from 1 to N.
Places(all, M, N, at) ==
  /\ DOMAIN all = 1 .. M /\ at \in [1 .. M -> 1 .. N]
  /\ \A i, j \in 1 .. M : at[i] = at[j] => i = j
  /\ \A p \in 1 .. N : \E i \in 1 .. M : at[i] = p
  /\ \A i, j \in 1 .. M : Before(all[i], all[j]) <=> at[i] < at[j]

\* Each entry sorted to its number.
SortedTo(all, M, N, at) ==
  /\ M = N /\ DOMAIN Sorted(all) = 1 .. M
  /\ \A i \in 1 .. M : Sorted(all)[at[i]] = all[i]

\* Sorting puts each entry at its number.
LEMMA SortedPlaces ==
  ASSUME NEW all, NEW M \in Nat, NEW N \in Nat, NEW at, Places(all, M, N, at)
  PROVE  SortedTo(all, M, N, at)
<1> DEFINE Ahead(i) == {j \in DOMAIN all : \/ Before(all[j], all[i])
                                           \/ j < i /\ ~Before(all[i], all[j])}
<1>0. /\ DOMAIN all = 1 .. M /\ at \in [1 .. M -> 1 .. N]
      /\ \A i, j \in 1 .. M : at[i] = at[j] => i = j
      /\ \A p \in 1 .. N : \E i \in 1 .. M : at[i] = p
      /\ \A i, j \in 1 .. M : Before(all[i], all[j]) <=> at[i] < at[j]
  BY Zenon DEF Places
<1> USE <1>0
<1>1. M = N
  <2>1. at \in Bijection(1 .. M, 1 .. N)
    BY Zenon DEF Bijection, Injection, Surjection, IsInjective
  <2>2. ExistsBijection(1 .. M, 1 .. N)
    BY Zenon, <2>1 DEF ExistsBijection
  <2>3. IsFiniteSet(1 .. M) /\ Cardinality(1 .. M) = M /\ Cardinality(1 .. N) = N
    BY SMTT(30), FS_Interval
  <2> QED
    BY Zenon, <2>2, <2>3, FS_Bijection
<1>2. ASSUME NEW i \in 1 .. M PROVE Cardinality(Ahead(i)) = at[i] - 1
  <2> DEFINE A == {j \in 1 .. M : at[j] < at[i]}
             B == 1 .. at[i] - 1
             b == [j \in A |-> at[j]]
  <2>1. Ahead(i) = A
    BY SMTT(30), Z3T(30)
  <2>2. b \in Bijection(A, B)
    <3>1. b \in [A -> B] /\ \A j \in A : b[j] = at[j]
      BY SMTT(30)
    <3>2. \A p \in B : \E j \in A : b[j] = p
      BY SMTT(30), Z3T(30)
    <3> HIDE DEF b, B
    <3> QED
      BY ZenonT(90), SMTT(60), <3>1, <3>2 DEF Bijection, Injection, Surjection, IsInjective
  <2>3. ExistsBijection(A, B)
    <3> HIDE DEF A, B, b
    <3> QED
      BY Zenon, <2>2 DEF ExistsBijection
  <2>4. IsFiniteSet(A)
    <3>1. IsFiniteSet(1 .. M)
      BY SMTT(30), Z3T(30), FS_Interval
    <3> QED
      BY Zenon, <3>1, FS_Subset
  <2>5. Cardinality(B) = at[i] - 1
    <3>1. at[i] - 1 \in Nat
      OBVIOUS
    <3> QED
      BY SMTT(30), Z3T(30), <3>1, FS_Interval
  <2> HIDE DEF A, B, Ahead
  <2> QED
    BY ZenonT(60), <2>1, <2>3, <2>4, <2>5, FS_Bijection
<1>3. Sorted(all) = [p \in DOMAIN all |-> all[CHOOSE i \in DOMAIN all : Cardinality(Ahead(i)) = p - 1]]
  BY Zenon DEF Sorted
<1> HIDE DEF Ahead
<1>4. ASSUME NEW i \in 1 .. M PROVE Sorted(all)[at[i]] = all[i]
  <2> DEFINE c == CHOOSE j \in DOMAIN all : Cardinality(Ahead(j)) = at[i] - 1
  <2>1. at[i] \in DOMAIN all
    BY Zenon, <1>1
  <2>2. c \in 1 .. M /\ Cardinality(Ahead(c)) = at[i] - 1
    BY Zenon, <1>2
  <2>3. Sorted(all)[at[i]] = all[c]
    BY ZenonT(60), <1>3, <2>1
  <2> HIDE DEF c
  <2>4. at[c] - 1 = at[i] - 1
    BY Zenon, <1>2, <2>2
  <2>5. at[c] = at[i]
    BY SMTT(30), <2>2, <2>4
  <2> QED
    BY Zenon, <2>2, <2>3, <2>5
<1> QED
  BY Zenon, <1>1, <1>3, <1>4 DEF SortedTo

\* The index of a node in its level.
LEMMA PositionOf ==
  ASSUME NEW k \in DOMAIN levels, NEW i \in DOMAIN levels[k]
  PROVE  Position(levels[k][i], levels[k]) = i
<1>1. \A j \in DOMAIN levels[k] : levels[k][j] = levels[k][i] => j = i
  BY Zenon, LevelsDistinct
<1> DEFINE c == CHOOSE j \in DOMAIN levels[k] : levels[k][j] = levels[k][i]
<1>2. c \in DOMAIN levels[k] /\ levels[k][c] = levels[k][i]
  BY Zenon
<1>3. Position(levels[k][i], levels[k]) = c
  BY Zenon DEF Position
<1> HIDE DEF c
<1> QED
  BY Zenon, <1>1, <1>2, <1>3

\* The levels in order, each in the order of its names.
LEMMA LevelsListed ==
  /\ Flatten(levels) \in Seq(Nodes)
  /\ \E lv, ix : Lists(Flatten(levels), levels, Len(levels), lv, ix)
<1>1. levels \in Seq(Seq(Nodes))
  <2>1. /\ Len(levels) \in Nat /\ DOMAIN levels = 1 .. Len(levels)
        /\ \A k \in 1 .. Len(levels) : levels[k] \in Seq(Nodes)
    BY Zenon, LevelsShape
  <2>2. levels = [k \in DOMAIN levels |-> levels[k]]
    <3>1. CASE mode = "destroy"
      BY Zenon, <3>1 DEF levels
    <3>2. CASE mode # "destroy"
      <4>1. levels = Levels
        BY Zenon, <3>2 DEF levels
      <4>2. Levels = [k \in DOMAIN Levels |-> Levels[k]]
        BY SMTT(30), LevelsAssumption
      <4> QED
        BY Zenon, <4>1, <4>2
    <3> QED
      BY Zenon, <3>1, <3>2
  <2> QED
    BY SMTT(30), <2>1, <2>2
<1> QED
  BY Zenon, <1>1, FlattenLists

\* An entry says in which level its node is.
Entry(r) == r.level \in DOMAIN levels /\ r.node \in Members(levels[r.level])

\* The p-th of the N nodes of the report is the ix[p]-th of level lv[p].
Indexed(flat, N, lv, ix) ==
  /\ \A p \in 1 .. N : /\ lv[p] \in DOMAIN levels /\ ix[p] \in DOMAIN levels[lv[p]]
                       /\ lv[p] \in Nat /\ ix[p] \in Nat
                       /\ flat[p] = levels[lv[p]][ix[p]]
  /\ \A k \in DOMAIN levels : \A i \in DOMAIN levels[k] :
       \E p \in 1 .. N : lv[p] = k /\ ix[p] = i
  /\ \A p, q \in 1 .. N : p < q => lv[p] < lv[q] \/ (lv[p] = lv[q] /\ ix[p] < ix[q])

\* Where each node of the levels is in the order of the report.
LEMMA LevelsIndexed ==
  ASSUME NEW flat, flat = Flatten(levels)
  PROVE  /\ Len(flat) \in Nat /\ DOMAIN flat = 1 .. Len(flat)
         /\ \E lv, ix : Indexed(flat, Len(flat), lv, ix)
<1> DEFINE N == Len(flat)
<1>9. N \in Nat /\ DOMAIN flat = 1 .. N
  BY SMTT(30), LevelsListed
<1>0. PICK lv, ix : Lists(flat, levels, Len(levels), lv, ix)
  BY Zenon, LevelsListed
<1> HIDE DEF N
<1>1. DOMAIN levels = 1 .. Len(levels) /\ Len(levels) \in Nat
  BY Zenon, LevelsShape
<1>2. /\ lv \in [1 .. N -> 1 .. Len(levels)] /\ ix \in [1 .. N -> Nat]
      /\ \A p \in 1 .. N : ix[p] \in DOMAIN levels[lv[p]] /\ flat[p] = levels[lv[p]][ix[p]]
      /\ \A k \in 1 .. Len(levels) : \A i \in DOMAIN levels[k] :
           \E p \in 1 .. N : lv[p] = k /\ ix[p] = i
      /\ \A p, q \in 1 .. N : p < q => lv[p] < lv[q] \/ (lv[p] = lv[q] /\ ix[p] < ix[q])
  BY Zenon, <1>0 DEF Lists, N
<1>3. \A p \in 1 .. N : lv[p] \in 1 .. Len(levels) /\ lv[p] \in Nat /\ ix[p] \in Nat
  BY SMTT(30), Z3T(30), <1>1, <1>2
<1>4. \A p \in 1 .. N : /\ lv[p] \in DOMAIN levels /\ ix[p] \in DOMAIN levels[lv[p]]
                         /\ lv[p] \in Nat /\ ix[p] \in Nat
                         /\ flat[p] = levels[lv[p]][ix[p]]
  BY Zenon, <1>1, <1>2, <1>3
<1>5. \A k \in DOMAIN levels : \A i \in DOMAIN levels[k] :
        \E p \in 1 .. N : lv[p] = k /\ ix[p] = i
  BY SMTT(30), <1>1, <1>2
<1>6. Indexed(flat, N, lv, ix)
  BY Zenon, <1>2, <1>4, <1>5 DEF Indexed
<1> QED
  BY Zenon, <1>6, <1>9 DEF N

\* What sort.Slice makes of M entries.
SortedFrom(rs, all, M) ==
  /\ DOMAIN rs = 1 .. M
  /\ [p \in DOMAIN rs |-> rs[p].node] = Flatten(levels)
  /\ \A p \in 1 .. M : \E i \in 1 .. M : rs[p] = all[i]
  /\ \A i \in 1 .. M : \E p \in 1 .. M : rs[p] = all[i]

\* Entries that list every selected node once are sorted into the order of
\* the levels.
LEMMA ReportSorted ==
  ASSUME NEW all, NEW M \in Nat, DOMAIN all = 1 .. M,
         \A i \in 1 .. M : Entry(all[i]),
         \A i, j \in 1 .. M : all[i].node = all[j].node => i = j,
         \A n \in Selected : \E i \in 1 .. M : all[i].node = n
  PROVE  SortedFrom(Sorted(all), all, M)
<1>0. PICK flat : flat = Flatten(levels)
  BY Zenon
<1> DEFINE N == Len(flat)
<1>1. flat \in Seq(Nodes) /\ N \in Nat /\ DOMAIN flat = 1 .. N
  BY SMTT(30), <1>0, LevelsListed
<1>2. PICK lv, ix : Indexed(flat, N, lv, ix)
  BY Zenon, <1>0, LevelsIndexed DEF N
<1> HIDE DEF N
<1>3. /\ \A p \in 1 .. N : /\ lv[p] \in DOMAIN levels /\ ix[p] \in DOMAIN levels[lv[p]]
                           /\ lv[p] \in Nat /\ ix[p] \in Nat
                           /\ flat[p] = levels[lv[p]][ix[p]]
      /\ \A k \in DOMAIN levels : \A i \in DOMAIN levels[k] :
           \E p \in 1 .. N : lv[p] = k /\ ix[p] = i
      /\ \A p, q \in 1 .. N : p < q => lv[p] < lv[q] \/ (lv[p] = lv[q] /\ ix[p] < ix[q])
  BY ZenonT(60), <1>2 DEF Indexed
<1>4. \A i \in 1 .. M : \E p \in 1 .. N : flat[p] = all[i].node /\ lv[p] = all[i].level
  <2> SUFFICES ASSUME NEW i \in 1 .. M
               PROVE  \E p \in 1 .. N : flat[p] = all[i].node /\ lv[p] = all[i].level
    BY Zenon
  <2>1. PICK j \in DOMAIN levels[all[i].level] : levels[all[i].level][j] = all[i].node
    BY SMTT(30) DEF Entry, Members
  <2>2. all[i].level \in DOMAIN levels
    BY Zenon DEF Entry
  <2> QED
    BY SMTT(30), Z3T(30), <1>3, <2>1, <2>2
<1> DEFINE at == [i \in 1 .. M |-> CHOOSE p \in 1 .. N : flat[p] = all[i].node /\ lv[p] = all[i].level]
<1>5. \A i \in 1 .. M : at[i] \in 1 .. N /\ flat[at[i]] = all[i].node /\ lv[at[i]] = all[i].level
  <2> SUFFICES ASSUME NEW i \in 1 .. M
               PROVE  at[i] \in 1 .. N /\ flat[at[i]] = all[i].node /\ lv[at[i]] = all[i].level
    BY Zenon
  <2>1. at[i] = CHOOSE p \in 1 .. N : flat[p] = all[i].node /\ lv[p] = all[i].level
    OBVIOUS
  <2> HIDE DEF at
  <2> QED
    BY ZenonT(60), <1>4, <2>1
<1>6. at \in [1 .. M -> 1 .. N]
  <2>1. at = [i \in 1 .. M |-> at[i]]
    BY SMTT(30)
  <2> HIDE DEF at
  <2> QED
    BY Zenon, <1>5, <2>1
<1> HIDE DEF at
<1>7. \A i, j \in 1 .. M : at[i] = at[j] => i = j
  BY SMTT(30), Z3T(30), <1>5
<1>8. ASSUME NEW p \in 1 .. N, NEW q \in 1 .. N, flat[p] = flat[q] PROVE p = q
  <2>1. lv[p] = lv[q] /\ ix[p] = ix[q]
    BY SMTT(30), Z3T(30), <1>3, <1>8, LevelsDistinct
  <2> QED
    BY SMTT(30), Z3T(30), <1>3, <2>1
<1>9. ASSUME NEW p \in 1 .. N PROVE \E i \in 1 .. M : at[i] = p
  <2>1. flat[p] \in Selected
    BY SMTT(30), Z3T(30), <1>3, LevelsCover
  <2>2. PICK i \in 1 .. M : all[i].node = flat[p]
    BY Zenon, <2>1
  <2> QED
    BY SMTT(30), Z3T(30), <1>5, <1>8, <2>2
<1>10. ASSUME NEW i \in 1 .. M, NEW j \in 1 .. M
       PROVE  Before(all[i], all[j]) <=> at[i] < at[j]
  <2> DEFINE p == at[i]
             q == at[j]
  <2>1. p \in 1 .. N /\ q \in 1 .. N
    BY Zenon, <1>5
  <2>2. /\ all[i].level = lv[p] /\ all[i].node = levels[lv[p]][ix[p]]
        /\ all[j].level = lv[q] /\ all[j].node = levels[lv[q]][ix[q]]
    BY Zenon, <1>3, <1>5
  <2> HIDE DEF p, q
  <2>3. /\ Position(all[i].node, levels[all[i].level]) = ix[p]
        /\ Position(all[j].node, levels[all[j].level]) = ix[q]
    <3>1. \A k \in DOMAIN levels : \A x \in DOMAIN levels[k] : Position(levels[k][x], levels[k]) = x
      BY Zenon, PositionOf
    <3>2. /\ lv[p] \in DOMAIN levels /\ ix[p] \in DOMAIN levels[lv[p]]
          /\ lv[q] \in DOMAIN levels /\ ix[q] \in DOMAIN levels[lv[q]]
      BY Zenon, <1>3, <2>1
    <3>3. /\ Position(levels[lv[p]][ix[p]], levels[lv[p]]) = ix[p]
          /\ Position(levels[lv[q]][ix[q]], levels[lv[q]]) = ix[q]
      BY Zenon, <3>1, <3>2
    <3> QED
      BY Zenon, <2>2, <3>3
  <2>4. Before(all[i], all[j]) <=> lv[p] < lv[q] \/ (lv[p] = lv[q] /\ ix[p] < ix[q])
    BY Zenon, <2>2, <2>3 DEF Before
  <2>5. lv[p] \in Nat /\ ix[p] \in Nat /\ lv[q] \in Nat /\ ix[q] \in Nat
    BY Zenon, <1>3, <2>1
  <2>6. p < q \/ p = q \/ q < p
    BY SMTT(30), Z3T(30), <1>1, <2>1
  <2>7. /\ p < q => lv[p] < lv[q] \/ (lv[p] = lv[q] /\ ix[p] < ix[q])
        /\ q < p => lv[q] < lv[p] \/ (lv[q] = lv[p] /\ ix[q] < ix[p])
        /\ ~(p < q) => p = q \/ q < p
    BY ZenonT(60), <1>3, <2>1, <2>6
  <2>8. Before(all[i], all[j]) <=> p < q
    BY SMTT(30), Z3T(30), <2>4, <2>5, <2>7
  <2> QED
    BY Zenon, <2>8 DEF p, q
<1>11. /\ M = N /\ DOMAIN Sorted(all) = 1 .. M
       /\ \A i \in 1 .. M : Sorted(all)[at[i]] = all[i]
  <2>1. \A p \in 1 .. N : \E i \in 1 .. M : at[i] = p
    BY Zenon, <1>9
  <2>2. \A i, j \in 1 .. M : Before(all[i], all[j]) <=> at[i] < at[j]
    BY Zenon, <1>10
  <2>3. Places(all, M, N, at)
    BY ZenonT(60), <1>6, <1>7, <2>1, <2>2 DEF Places
  <2> QED
    <3>1. N \in Nat
      BY Zenon, <1>1
    <3>2. \A a : Places(all, M, N, a) => SortedTo(all, M, N, a)
      BY Zenon, <3>1, SortedPlaces
    <3>3. SortedTo(all, M, N, at)
      BY Zenon, <2>3, <3>2
    <3> QED
      BY Zenon, <3>3 DEF SortedTo
<1>12. \A p \in 1 .. M : Sorted(all)[p].node = flat[p]
  <2> SUFFICES ASSUME NEW p \in 1 .. M PROVE Sorted(all)[p].node = flat[p]
    BY Zenon
  <2>1. PICK i \in 1 .. M : at[i] = p
    BY ZenonT(60), <1>9, <1>11
  <2> QED
    BY SMTT(30), Z3T(30), <1>5, <1>11, <2>1
<1>13. [p \in DOMAIN Sorted(all) |-> Sorted(all)[p].node] = flat
  BY SMTT(30), Z3T(30), <1>1, <1>11, <1>12
<1>14. \A p \in 1 .. M : \E i \in 1 .. M : Sorted(all)[p] = all[i]
  <2> SUFFICES ASSUME NEW p \in 1 .. M PROVE \E i \in 1 .. M : Sorted(all)[p] = all[i]
    BY Zenon
  <2>1. PICK i \in 1 .. M : at[i] = p
    BY Zenon, <1>9, <1>11
  <2> QED
    BY Zenon, <1>11, <2>1
<1>15. \A i \in 1 .. M : \E p \in 1 .. M : Sorted(all)[p] = all[i]
  BY Zenon, <1>5, <1>11
<1> QED
  BY ZenonT(60), <1>11, <1>13, <1>14, <1>15, <1>0 DEF SortedFrom

-----------------------------------------------------------------------------
(* What the report holds *)

\* What an entry of the report is made of.
EntrySet == [node : Nodes, level : Nat, status : {NoStatus, Success, Failed, NotRun}]

\* One "not run" entry for each node of the levels from `from' on.
NeverReached(new, from) ==
  /\ new \in Seq(EntrySet)
  /\ \A j \in 1 .. Len(new) :
       Entry(new[j]) /\ new[j].status = NotRun /\ new[j].level >= from
  /\ \A k \in DOMAIN levels : \A i \in DOMAIN levels[k] :
       k >= from => \E j \in 1 .. Len(new) : new[j].node = levels[k][i]
  /\ \A j, l \in 1 .. Len(new) : new[j].node = new[l].node => j = l

\* markNotRun adds the entries of the levels never reached.
LEMMA NotRunEntries ==
  ASSUME NEW from \in Nat \ {0}, from <= Len(levels) + 1, NEW new, new = MarkNotRun(from)
  PROVE  NeverReached(new, from)
<1> DEFINE T == EntrySet
           R(k, i) == [node |-> levels[k][i], level |-> k, status |-> NotRun]
           d == Len(levels) - from + 1
           t0 == [k \in 1 .. d |->
                    [i \in DOMAIN levels[from + k - 1] |->
                       [node |-> levels[from + k - 1][i], level |-> from + k - 1, status |-> NotRun]]]
<1>1. PICK t : t = t0
  BY ZenonT(60)
<1>2. d \in Nat /\ Len(levels) \in Nat /\ DOMAIN levels = 1 .. Len(levels)
  BY SMTT(30), LevelsShape
<1>3. new = Flatten(t)
  BY ZenonT(60), <1>1 DEF MarkNotRun
<1>5. ASSUME NEW k \in 1 .. d
      PROVE  /\ from + k - 1 \in DOMAIN levels /\ DOMAIN t[k] = DOMAIN levels[from + k - 1]
             /\ \A i \in DOMAIN t[k] : t[k][i] = R(from + k - 1, i)
             /\ t[k] \in Seq(T)
  <2>1. from + k - 1 \in DOMAIN levels /\ from + k - 1 \in Nat
    BY SMTT(30), Z3T(30), <1>2
  <2>2. levels[from + k - 1] \in Seq(Nodes)
    BY Zenon, <2>1, LevelsShape
  <2>3. t[k] = [i \in DOMAIN levels[from + k - 1] |-> R(from + k - 1, i)]
    BY ZenonT(60), <1>1, <1>5
  <2>4. \A i \in DOMAIN levels[from + k - 1] : R(from + k - 1, i) \in T
    BY SMTT(30), Z3T(30), <2>1, <2>2 DEF EntrySet
  <2>5. DOMAIN levels[from + k - 1] = 1 .. Len(levels[from + k - 1]) /\ Len(levels[from + k - 1]) \in Nat
    BY SMTT(30), Z3T(30), <2>2
  <2> HIDE DEF R, T
  <2> QED
    BY SMTT(30), Z3T(30), <2>1, <2>3, <2>4, <2>5
<1>6. t \in Seq(Seq(T)) /\ Len(t) = d
  <2>1. t = [k \in 1 .. d |-> t[k]]
    BY Zenon, <1>1
  <2> HIDE DEF d, T
  <2> QED
    BY SMTT(30), Z3T(30), <1>2, <1>5, <2>1
<1>7. new \in Seq(T) /\ \E lv, ix : Lists(new, t, d, lv, ix)
  <2> HIDE DEF d, T
  <2> QED
    BY Zenon, <1>3, <1>6, FlattenLists
<1>8. PICK lv, ix : Lists(new, t, d, lv, ix)
  BY Zenon, <1>7
<1> DEFINE N == Len(new)
           lw(j) == from + lv[j] - 1
<1>9. N \in Nat /\ DOMAIN new = 1 .. N
  BY SMTT(30), Z3T(30), <1>7
<1> HIDE DEF d, T, t0
<1>10. /\ \A j \in 1 .. N : /\ lv[j] \in 1 .. d /\ ix[j] \in Nat
                            /\ ix[j] \in DOMAIN t[lv[j]] /\ new[j] = t[lv[j]][ix[j]]
       /\ \A k \in 1 .. d : \A i \in DOMAIN t[k] : \E j \in 1 .. N : lv[j] = k /\ ix[j] = i
       /\ \A j, l \in 1 .. N : j < l => lv[j] < lv[l] \/ (lv[j] = lv[l] /\ ix[j] < ix[l])
  BY ZenonT(60), <1>8 DEF Lists
<1> HIDE DEF N
<1>11. ASSUME NEW j \in 1 .. N
       PROVE  /\ lw(j) \in DOMAIN levels /\ ix[j] \in DOMAIN levels[lw(j)]
              /\ new[j].node = levels[lw(j)][ix[j]] /\ new[j].level = lw(j)
              /\ new[j].status = NotRun /\ lw(j) >= from
  <2>1. lv[j] \in 1 .. d /\ ix[j] \in DOMAIN t[lv[j]] /\ new[j] = t[lv[j]][ix[j]]
    BY Zenon, <1>10
  <2>2. lw(j) \in DOMAIN levels /\ ix[j] \in DOMAIN levels[lw(j)] /\ new[j] = R(lw(j), ix[j])
    <3> HIDE DEF R
    <3> QED
      BY ZenonT(60), <1>5, <2>1
  <2>3. lw(j) >= from
    BY SMTT(30), Z3T(30), <1>2, <2>1
  <2> HIDE DEF lw
  <2>4. /\ new[j].node = levels[lw(j)][ix[j]] /\ new[j].level = lw(j)
        /\ new[j].status = NotRun
    BY SMTT(30), <2>2
  <2> HIDE DEF R
  <2> QED
    BY Zenon, <2>2, <2>3, <2>4
<1> HIDE DEF lw
<1>12. ASSUME NEW j \in 1 .. N
       PROVE  Entry(new[j]) /\ new[j].status = NotRun /\ new[j].level >= from
  <2>1. /\ lw(j) \in DOMAIN levels /\ ix[j] \in DOMAIN levels[lw(j)]
        /\ new[j].node = levels[lw(j)][ix[j]] /\ new[j].level = lw(j)
        /\ new[j].status = NotRun /\ lw(j) >= from
    BY ZenonT(60), <1>11
  <2> QED
    BY Zenon, <2>1 DEF Entry, Members
<1>13. ASSUME NEW k \in DOMAIN levels, NEW i \in DOMAIN levels[k], k >= from
       PROVE  \E j \in 1 .. N : new[j].node = levels[k][i]
  <2> DEFINE h == k - from + 1
  <2>1. h \in 1 .. d /\ from + h - 1 = k
    BY SMTT(30), Z3T(30), <1>2, <1>13 DEF d
  <2> HIDE DEF h
  <2>2. i \in DOMAIN t[h] /\ t[h][i].node = levels[k][i]
    <3>1. DOMAIN t[h] = DOMAIN levels[k] /\ \A o \in DOMAIN t[h] : t[h][o] = R(k, o)
      <4> HIDE DEF R
      <4> QED
        BY Zenon, <1>5, <2>1
    <3>2. i \in DOMAIN t[h] /\ t[h][i] = R(k, i)
      <4> HIDE DEF R
      <4> QED
        BY Zenon, <3>1
    <3>3. R(k, i).node = levels[k][i]
      BY ZenonT(60)
    <3> HIDE DEF R
    <3> QED
      BY Zenon, <3>2, <3>3
  <2>3. PICK j \in 1 .. N : lv[j] = h /\ ix[j] = i
    BY ZenonT(90), SMTT(60), <1>10, <2>1, <2>2
  <2> QED
    BY SMTT(30), Z3T(30), <1>10, <2>2, <2>3
<1>14. ASSUME NEW j \in 1 .. N, NEW l \in 1 .. N, new[j].node = new[l].node
       PROVE  j = l
  <2>1. levels[lw(j)][ix[j]] = levels[lw(l)][ix[l]]
    BY ZenonT(60), <1>11, <1>14
  <2>2. lw(j) = lw(l) /\ ix[j] = ix[l]
    <3>1. /\ lw(j) \in DOMAIN levels /\ ix[j] \in DOMAIN levels[lw(j)]
          /\ lw(l) \in DOMAIN levels /\ ix[l] \in DOMAIN levels[lw(l)]
      BY ZenonT(60), <1>11
    <3> QED
      BY SMTT(30), <2>1, <3>1, LevelsDistinct
  <2>3. lv[j] \in Int /\ lv[l] \in Int /\ ix[j] \in Nat /\ ix[l] \in Nat /\ j \in Int /\ l \in Int
    BY SMTT(30), Z3T(30), <1>2, <1>9, <1>10
  <2>4. lv[j] = lv[l]
    BY SMTT(30), Z3T(30), <2>2, <2>3 DEF lw
  <2>5. ~(j < l) /\ ~(l < j)
    BY SMTT(30), Z3T(30), <1>10, <2>2, <2>3, <2>4
  <2> QED
    BY SMTT(30), <2>3, <2>5
<1> QED
  BY Zenon, <1>7, <1>12, <1>13, <1>14 DEF N, T, NeverReached

\* The goroutine has recorded what became of its node.
Ended(n) == gor[n] \in {"recorded", "returned"}

\* Until runLevels returns, the report has one entry for each node whose
\* goroutine has ended, and so have the events.
Reported ==
  main # "done" =>
    /\ runs \in Seq(EntrySet)
    /\ li <= Len(levels) + 1
    /\ \A i \in DOMAIN runs :
         Entry(runs[i]) /\ Ended(runs[i].node) /\ runs[i].status = status[runs[i].node]
    /\ \A i, j \in DOMAIN runs : runs[i].node = runs[j].node => i = j
    /\ \A n \in Nodes : Ended(n) => \E i \in DOMAIN runs : runs[i].node = n
    /\ terminal = {n \in Nodes : Ended(n)}
    /\ finished = {<<n, status[n]>> : n \in terminal}

\* Every node before the i-th of level k succeeded.
SucceedsTo(k, i) ==
  \A l \in DOMAIN levels : \A j \in DOMAIN levels[l] :
    l < k \/ (l = k /\ j < i) => status[levels[l][j]] = Success

\* The first node, in the order of the report, that did not succeed.
FirstFailure(n) ==
  \E k \in DOMAIN levels : \E i \in DOMAIN levels[k] :
    n = levels[k][i] /\ status[n] # Success /\ SucceedsTo(k, i)

\* The error kept from the earlier levels, in a review.
ErrorKept ==
  main # "done" =>
    /\ firstError = NoError => \A n \in Earlier : status[n] = Success
    /\ firstError # NoError => firstError \in Earlier /\ FirstFailure(firstError)

ReportInv == Reported /\ ErrorKept /\ ReportExact /\ ErrorTruthful

\* A goroutine has ended or not begun at the end of every level before `from'.
Stopped(from) ==
  /\ from \in Nat \ {0} /\ from <= Len(levels) + 1
  /\ \A k \in DOMAIN levels : \A i \in DOMAIN levels[k] :
       gor[levels[k][i]] = IF k < from THEN "returned" ELSE "none"

\* The report at a return: what the goroutines recorded and an entry for
\* every other node.
WholeReport(all) ==
  /\ Len(all) \in Nat /\ DOMAIN all = 1 .. Len(all)
  /\ \A i \in 1 .. Len(all) : Entry(all[i])
  /\ \A i, j \in 1 .. Len(all) : all[i].node = all[j].node => i = j
  /\ \A n \in Selected : \E i \in 1 .. Len(all) : all[i].node = n
  /\ \A i \in 1 .. Len(all) :
       /\ all[i].node \in Nodes
       /\ all[i].node \in terminal =>
            all[i].status = status[all[i].node] /\ Ended(all[i].node)
       /\ all[i].node \notin terminal =>
            all[i].status = NotRun /\ gor[all[i].node] = "none"
  /\ \A n \in terminal : \E i \in 1 .. Len(all) : all[i].node = n

\* What the goroutines recorded and what markNotRun adds are the whole report.
LEMMA AllEntries ==
  ASSUME SInv, Reported, main # "done", NEW from, Stopped(from),
         NEW all, all = runs \o MarkNotRun(from)
  PROVE  WholeReport(all)
<1>1. PICK new : new = MarkNotRun(from)
  BY Zenon
<1>2. PICK old : old = runs
  BY Zenon
<1> DEFINE R == Len(old)
           N == Len(new)
<1>3. from \in Nat \ {0} /\ from <= Len(levels) + 1
  BY Zenon DEF Stopped
<1>4. /\ new \in Seq(EntrySet) /\ N \in Nat
      /\ \A j \in 1 .. N : Entry(new[j]) /\ new[j].status = NotRun /\ new[j].level >= from
      /\ \A k \in DOMAIN levels : \A i \in DOMAIN levels[k] :
           k >= from => \E j \in 1 .. N : new[j].node = levels[k][i]
      /\ \A j, l \in 1 .. N : new[j].node = new[l].node => j = l
  <2>1. NeverReached(new, from)
    BY ZenonT(60), <1>1, <1>3, NotRunEntries
  <2>2. N \in Nat
    BY SMTT(30), <2>1 DEF NeverReached
  <2> QED
    BY Zenon, <2>1, <2>2 DEF NeverReached
<1>5. /\ old \in Seq(EntrySet) /\ R \in Nat
      /\ \A i \in 1 .. R : Entry(old[i]) /\ Ended(old[i].node) /\ old[i].status = status[old[i].node]
      /\ \A i, j \in 1 .. R : old[i].node = old[j].node => i = j
      /\ \A n \in Nodes : Ended(n) => \E i \in 1 .. R : old[i].node = n
      /\ \A i \in 1 .. R : old[i].node \in Nodes
      /\ terminal = {n \in Nodes : Ended(n)}
  <2>1. old \in Seq(EntrySet)
    BY Zenon, <1>2 DEF Reported
  <2>2. R \in Nat /\ DOMAIN old = 1 .. R /\ \A i \in 1 .. R : old[i].node \in Nodes
    <3>1. R \in Nat /\ DOMAIN old = 1 .. R /\ \A i \in 1 .. R : old[i] \in EntrySet
      BY SMTT(30), Z3T(30), <2>1
    <3>2. \A x \in EntrySet : x.node \in Nodes
      BY Zenon DEF EntrySet
    <3> HIDE DEF R
    <3> QED
      BY Zenon, <3>1, <3>2
  <2> HIDE DEF R
  <2> QED
    BY ZenonT(60), <1>2, <2>1, <2>2 DEF Reported
<1>6. ASSUME NEW j \in 1 .. N PROVE new[j].node \in Nodes /\ gor[new[j].node] = "none"
  <2>0. Entry(new[j])
    BY Zenon, <1>4
  <2>1. PICK i \in DOMAIN levels[new[j].level] : new[j].node = levels[new[j].level][i]
    BY ZenonT(60), <2>0 DEF Entry, Members
  <2>2. new[j].level \in DOMAIN levels /\ new[j].level \in Nat /\ ~(new[j].level < from)
    BY SMTT(30), Z3T(30), <1>3, <1>4, LevelsShape DEF Entry
  <2>3. gor[levels[new[j].level][i]] = "none"
    BY Zenon, <2>2 DEF Stopped
  <2>4. levels[new[j].level][i] \in Nodes
    BY ZenonT(60), <2>2, LevelsDistinct
  <2> QED
    BY Zenon, <2>1, <2>3, <2>4
<1>7. /\ Len(all) = R + N /\ DOMAIN all = 1 .. Len(all) /\ Len(all) \in Nat
      /\ \A i \in 1 .. Len(all) : all[i] = IF i <= R THEN old[i] ELSE new[i - R]
  <2>1. all = old \o new
    BY ZenonT(60), <1>1, <1>2
  <2> QED
    BY SMTT(30), Z3T(30), <1>4, <1>5, <2>1
<1> HIDE DEF R, N
<1>8. \A i \in 1 .. Len(all) : i <= R => i \in 1 .. R /\ all[i] = old[i]
  BY SMTT(30), Z3T(30), <1>4, <1>5, <1>7
<1>9. \A i \in 1 .. Len(all) : ~(i <= R) => i - R \in 1 .. N /\ all[i] = new[i - R]
  BY SMTT(30), Z3T(30), <1>4, <1>5, <1>7
<1>10. \A i \in 1 .. Len(all) : Entry(all[i])
  BY ZenonT(90), SMTT(60), <1>4, <1>5, <1>8, <1>9
<1>11. ASSUME NEW i \in 1 .. Len(all)
       PROVE  /\ all[i].node \in Nodes
              /\ i <= R => all[i].status = status[all[i].node] /\ Ended(all[i].node)
              /\ ~(i <= R) => all[i].status = NotRun /\ gor[all[i].node] = "none"
              /\ all[i].node \in terminal <=> i <= R
  <2>1. CASE i <= R
    BY ZenonT(60), <1>5, <1>8, <2>1
  <2>2. CASE ~(i <= R)
    <3>0. PICK j \in 1 .. N : all[i] = new[j]
      BY Zenon, <1>9, <2>2
    <3>1. all[i].node \in Nodes /\ gor[all[i].node] = "none" /\ all[i].status = NotRun
      <4>1. new[j].node \in Nodes /\ gor[new[j].node] = "none"
        BY Zenon, <1>6
      <4>2. new[j].status = NotRun
        BY Zenon, <1>4
      <4> QED
        BY Zenon, <3>0, <4>1, <4>2
    <3> QED
      BY Zenon, <1>5, <2>2, <3>1 DEF Ended
  <2> QED
    BY Zenon, <2>1, <2>2
<1>12. ASSUME NEW i \in 1 .. Len(all), NEW j \in 1 .. Len(all), all[i].node = all[j].node
       PROVE  i = j
  <2>1. i <= R <=> j <= R
    BY Zenon, <1>11, <1>12
  <2>2. CASE i <= R
    BY ZenonT(60), <1>5, <1>8, <1>12, <2>1, <2>2
  <2>3. CASE ~(i <= R)
    <3>0. /\ i - R \in 1 .. N /\ all[i] = new[i - R]
          /\ j - R \in 1 .. N /\ all[j] = new[j - R]
      BY Zenon, <1>9, <2>1, <2>3
    <3>1. i - R = j - R
      BY ZenonT(60), <1>4, <1>12, <3>0
    <3>2. R \in Nat /\ Len(all) \in Nat
      BY Zenon, <1>5, <1>7
    <3> QED
      BY SMTT(30), Z3T(30), <3>1, <3>2
  <2> QED
    BY Zenon, <2>2, <2>3
<1>13. ASSUME NEW j \in 1 .. R PROVE \E i \in 1 .. Len(all) : all[i].node = old[j].node
  <2>1. j \in 1 .. Len(all) /\ j <= R
    BY SMTT(30), Z3T(30), <1>4, <1>5, <1>7
  <2> QED
    BY ZenonT(60), <1>8, <2>1
<1>14. ASSUME NEW j \in 1 .. N PROVE \E i \in 1 .. Len(all) : all[i].node = new[j].node
  <2>1. R + j \in 1 .. Len(all) /\ ~(R + j <= R) /\ (R + j) - R = j
    BY SMTT(30), Z3T(30), <1>4, <1>5, <1>7
  <2> QED
    BY ZenonT(60), <1>9, <2>1
<1>15. ASSUME NEW n \in Selected PROVE \E i \in 1 .. Len(all) : all[i].node = n
  <2>1. PICK k \in DOMAIN levels : \E i \in DOMAIN levels[k] : levels[k][i] = n
    BY Zenon, LevelsCover
  <2>2. PICK i \in DOMAIN levels[k] : levels[k][i] = n
    BY ZenonT(60), <2>1
  <2>3. k \in Nat
    BY SMTT(30), Z3T(30), LevelsShape
  <2>4. CASE k < from
    <3>1. n \in Nodes /\ Ended(n)
      BY Zenon, <2>2, <2>4, LevelsDistinct DEF Stopped, Ended
    <3>2. PICK j \in 1 .. R : old[j].node = n
      BY ZenonT(60), <1>5, <3>1
    <3> QED
      BY Zenon, <1>13, <3>2
  <2>5. CASE ~(k < from)
    <3>1. k >= from
      BY SMTT(30), Z3T(30), <1>3, <2>3, <2>5
    <3>2. \E j \in 1 .. N : new[j].node = levels[k][i]
      BY Zenon, <1>4, <3>1
    <3>3. PICK j \in 1 .. N : new[j].node = n
      BY Zenon, <2>2, <3>2
    <3> QED
      BY Zenon, <1>14, <3>3
  <2> QED
    BY Zenon, <2>4, <2>5
<1>16. ASSUME NEW n \in terminal PROVE \E i \in 1 .. Len(all) : all[i].node = n
  <2>1. PICK j \in 1 .. R : old[j].node = n
    BY Zenon, <1>5
  <2> QED
    BY ZenonT(60), <1>13, <2>1
<1> QED
  BY ZenonT(60), <1>7, <1>10, <1>11, <1>12, <1>15, <1>16 DEF WholeReport

-----------------------------------------------------------------------------
(* The return paths *)

\* Every return path leaves an exact report.
LEMMA ReturnReports ==
  ASSUME SInv, Reported, main # "done", NEW e, NEW from, Stopped(from), Return(e, from)
  PROVE  ReportExact'
<1>1. PICK all : /\ all = runs \o MarkNotRun(from) /\ runs' = Sorted(all)
                 /\ Emitted({<<all[i].node, all[i].status>> : i \in DOMAIN all})
  BY Zenon DEF Return
<1>2. WholeReport(all)
  BY Zenon, <1>1, AllEntries
<1>3. PICK M \in Nat : M = Len(all)
  BY Zenon, <1>2 DEF WholeReport
<1>4. /\ DOMAIN all = 1 .. M
      /\ \A i \in 1 .. M : Entry(all[i])
      /\ \A i, j \in 1 .. M : all[i].node = all[j].node => i = j
      /\ \A n \in Selected : \E i \in 1 .. M : all[i].node = n
      /\ \A i \in 1 .. M :
           /\ all[i].node \in Nodes
           /\ all[i].node \in terminal =>
                all[i].status = status[all[i].node] /\ Ended(all[i].node)
           /\ all[i].node \notin terminal =>
                all[i].status = NotRun /\ gor[all[i].node] = "none"
      /\ \A n \in terminal : \E i \in 1 .. M : all[i].node = n
  BY Zenon, <1>2, <1>3 DEF WholeReport
<1>5. SortedFrom(Sorted(all), all, M)
  BY Zenon, <1>4, ReportSorted
<1>6. PICK rs : rs = Sorted(all)
  BY Zenon
<1>7. /\ DOMAIN rs = 1 .. M
      /\ [p \in DOMAIN rs |-> rs[p].node] = Flatten(levels)
      /\ \A p \in 1 .. M : \E i \in 1 .. M : rs[p] = all[i]
      /\ \A i \in 1 .. M : \E p \in 1 .. M : rs[p] = all[i]
  BY Zenon, <1>5, <1>6 DEF SortedFrom
<1>8. runs' = rs /\ levels' = levels /\ gor' = gor /\ status' = status
  BY Zenon, <1>1, <1>6, SameLevels DEF Return
<1>9. ASSUME NEW i \in 1 .. M
      PROVE  all[i].status = IF Ran(all[i].node) THEN status[all[i].node] ELSE NotRun
  <2>1. /\ all[i].node \in Nodes
        /\ status[all[i].node] \in {NoStatus, Success, Failed, NotRun}
        /\ status[all[i].node] = NoStatus <=> gor[all[i].node] \in {"none"} \cup Waiting
    BY Zenon, <1>4 DEF SInv, Shape, Outcomes
  <2>2. CASE all[i].node \in terminal
    <3>1. all[i].status = status[all[i].node] /\ Ended(all[i].node)
      BY Zenon, <1>4, <2>2
    <3>2. status[all[i].node] # NoStatus /\ gor[all[i].node] # "acting"
      BY Zenon, <2>1, <3>1 DEF Ended, Waiting
    <3> QED
      BY Zenon, <2>1, <3>1, <3>2 DEF Ran
  <2>3. CASE all[i].node \notin terminal
    <3>1. all[i].status = NotRun /\ gor[all[i].node] = "none"
      BY Zenon, <1>4, <2>3
    <3>2. ~Ran(all[i].node)
      BY Zenon, <2>1, <3>1 DEF Ran, NoStatus, Success, Failed
    <3> QED
      BY Zenon, <3>1, <3>2
  <2> QED
    BY Zenon, <2>2, <2>3
<1>10. finished' = {<<all[i].node, all[i].status>> : i \in 1 .. M}
  <2>1. finished = {<<n, status[n]>> : n \in terminal}
    BY Zenon DEF Reported
  <2>2. finished' = finished \cup {x \in {<<all[i].node, all[i].status>> : i \in 1 .. M} :
                                     x[1] \notin terminal}
    BY Zenon, <1>1, <1>4 DEF Emitted
  <2>3. ASSUME NEW n \in terminal PROVE \E i \in 1 .. M : <<n, status[n]>> = <<all[i].node, all[i].status>>
    <3>1. PICK i \in 1 .. M : all[i].node = n
      BY Zenon, <1>4
    <3>2. all[i].status = status[n]
      BY Zenon, <1>4, <3>1
    <3> QED
      BY Zenon, <3>1, <3>2
  <2>4. ASSUME NEW i \in 1 .. M PROVE <<all[i].node, all[i].status>> \in finished'
    <3>1. CASE all[i].node \in terminal
      <4>1. all[i].status = status[all[i].node]
        BY Zenon, <1>4, <3>1
      <4>2. <<all[i].node, all[i].status>> \in finished
        BY Zenon, <2>1, <3>1, <4>1
      <4> QED
        BY Zenon, <2>2, <4>2
    <3>2. CASE all[i].node \notin terminal
      <4>1. <<all[i].node, all[i].status>>[1] = all[i].node
        BY Zenon
      <4> QED
        BY Zenon, <2>2, <3>2, <4>1
    <3> QED
      BY Zenon, <3>1, <3>2
  <2>5. ASSUME NEW x \in finished' PROVE x \in {<<all[i].node, all[i].status>> : i \in 1 .. M}
    <3>1. CASE x \in finished
      <4>1. PICK n \in terminal : x = <<n, status[n]>>
        BY Zenon, <2>1, <3>1
      <4> QED
        BY Zenon, <2>3, <4>1
    <3>2. CASE x \notin finished
      BY Zenon, <2>2, <3>2
    <3> QED
      BY Zenon, <3>1, <3>2
  <2> QED
    BY Zenon, <2>4, <2>5
<1>11. finished' = {<<rs[p].node, rs[p].status>> : p \in 1 .. M}
  <2>1. ASSUME NEW i \in 1 .. M
        PROVE  \E p \in 1 .. M : <<rs[p].node, rs[p].status>> = <<all[i].node, all[i].status>>
    BY Zenon, <1>7
  <2>2. ASSUME NEW p \in 1 .. M
        PROVE  \E i \in 1 .. M : <<rs[p].node, rs[p].status>> = <<all[i].node, all[i].status>>
    BY Zenon, <1>7
  <2>3. ASSUME NEW x \in {<<all[i].node, all[i].status>> : i \in 1 .. M}
        PROVE  x \in {<<rs[p].node, rs[p].status>> : p \in 1 .. M}
    <3>1. PICK i \in 1 .. M : x = <<all[i].node, all[i].status>>
      BY Zenon
    <3> QED
      BY Zenon, <2>1, <3>1
  <2>4. ASSUME NEW x \in {<<rs[p].node, rs[p].status>> : p \in 1 .. M}
        PROVE  x \in {<<all[i].node, all[i].status>> : i \in 1 .. M}
    <3>1. PICK p \in 1 .. M : x = <<rs[p].node, rs[p].status>>
      BY Zenon
    <3> QED
      BY Zenon, <2>2, <3>1
  <2> QED
    BY Zenon, <1>10, <2>3, <2>4
<1>12. ASSUME NEW p \in 1 .. M
       PROVE  /\ rs[p].node \in Members(levels[rs[p].level])
              /\ rs[p].status = IF Ran(rs[p].node) THEN status[rs[p].node] ELSE NotRun
  <2>1. PICK i \in 1 .. M : rs[p] = all[i]
    BY Zenon, <1>7
  <2>2. all[i].node \in Members(levels[all[i].level])
    BY Zenon, <1>4 DEF Entry
  <2> QED
    BY Zenon, <1>9, <2>1, <2>2
<1>13. \A n : Ran(n)' <=> Ran(n)
  BY Zenon, <1>8 DEF Ran
<1> QED
  BY ZenonT(60), <1>7, <1>8, <1>11, <1>12, <1>13 DEF ReportExact

\* The error of a return path that blames no node, or the first to fail.
LEMMA ReturnTruthful ==
  ASSUME SInv, NEW e, NEW from, Return(e, from), ReportExact',
         e = NoError => \A n \in Selected : status[n] = Success,
         e \in Nodes => FirstFailure(e)
  PROVE  ErrorTruthful'
<1>1. PICK rs : rs = runs'
  BY Zenon
<1>2. PICK flat : flat = Flatten(levels)
  BY Zenon
<1>3. PICK N \in Nat : N = Len(flat) /\ DOMAIN flat = 1 .. N
  BY Zenon, <1>2, LevelsIndexed
<1>4. PICK lv, ix : Indexed(flat, N, lv, ix)
  BY ZenonT(60), <1>2, <1>3, LevelsIndexed
<1>5. levels' = levels /\ status' = status /\ gor' = gor /\ main' = "done" /\ err' = e
  BY Zenon, SameLevels DEF Return
<1>6. [p \in DOMAIN rs |-> rs[p].node] = flat
  BY ZenonT(60), <1>1, <1>2, <1>5 DEF ReportExact
<1>7. DOMAIN rs = 1 .. N /\ \A p \in 1 .. N : rs[p].node = flat[p]
  BY Zenon, <1>3, <1>6
<1>8. ASSUME NEW p \in 1 .. N
      PROVE  rs[p].status = IF Ran(flat[p]) THEN status[flat[p]] ELSE NotRun
  <2>1. Ran(flat[p])' <=> Ran(flat[p])
    BY Zenon, <1>5 DEF Ran
  <2>2. rs[p].status = IF Ran(rs[p].node)' THEN status'[rs[p].node] ELSE NotRun
    BY Zenon, <1>1, <1>5, <1>7 DEF ReportExact
  <2> QED
    BY Zenon, <1>5, <1>7, <2>1, <2>2
<1>9. ASSUME NEW p \in 1 .. N PROVE rs[p].status = Success <=> status[flat[p]] = Success
  BY Zenon, <1>8 DEF Ran, NotRun, Success
<1> DEFINE U == {p \in 1 .. N : rs[p].status # Success}
<1>10. Unsuccessful' = U
  BY Zenon, <1>1, <1>7 DEF Unsuccessful
<1>11. ASSUME e = NoError PROVE U = {}
  <2>1. \A p \in 1 .. N : flat[p] \in Selected
    BY SMTT(30), Z3T(30), <1>4, LevelsCover DEF Indexed
  <2> QED
    BY ZenonT(60), <1>9, <1>11, <2>1
<1>12. ASSUME e \in Nodes PROVE U # {} /\ rs[FirstOf(U)].node = e
  <2>1. PICK k \in DOMAIN levels : \E i \in DOMAIN levels[k] :
          e = levels[k][i] /\ status[e] # Success /\ SucceedsTo(k, i)
    BY Zenon, <1>12 DEF FirstFailure
  <2>2. PICK i \in DOMAIN levels[k] : e = levels[k][i] /\ status[e] # Success /\ SucceedsTo(k, i)
    BY Zenon, <2>1
  <2>3. PICK p \in 1 .. N : lv[p] = k /\ ix[p] = i
    BY ZenonT(60), <1>4 DEF Indexed
  <2>4. flat[p] = e /\ p \in U
    <3>1. flat[p] = e
      BY Zenon, <1>4, <2>2, <2>3 DEF Indexed
    <3> QED
      BY Zenon, <1>9, <2>2, <3>1
  <2>5. ASSUME NEW q \in U PROVE p <= q
    <3> SUFFICES ASSUME q < p PROVE FALSE
      BY SMTT(30), Z3T(30), <1>3
    <3>1. \E l \in DOMAIN levels : \E j \in DOMAIN levels[l] :
            flat[q] = levels[l][j] /\ (l < k \/ (l = k /\ j < i))
      <4>1. /\ lv[q] \in DOMAIN levels /\ ix[q] \in DOMAIN levels[lv[q]]
            /\ flat[q] = levels[lv[q]][ix[q]]
            /\ lv[q] < k \/ (lv[q] = k /\ ix[q] < i)
        BY Zenon, <1>4, <2>3 DEF Indexed
      <4> QED
        BY ZenonT(60), <4>1
    <3>2. status[flat[q]] = Success
      BY ZenonT(90), SMTT(60), <2>2, <3>1 DEF SucceedsTo
    <3> QED
      BY ZenonT(60), <1>9, <3>2
  <2>6. FirstOf(U) \in U /\ \A q \in U : FirstOf(U) <= q
    <3>1. \E x \in U : \A q \in U : x <= q
      BY Zenon, <2>4, <2>5
    <3> HIDE DEF U
    <3> QED
      BY Zenon, <3>1 DEF FirstOf
  <2>7. FirstOf(U) = p
    <3>1. PICK f : f = FirstOf(U)
      BY Zenon
    <3>2. f \in 1 .. N /\ f <= p /\ p <= f
      BY Zenon, <2>4, <2>5, <2>6, <3>1
    <3> QED
      BY SMTT(30), Z3T(30), <1>3, <3>1, <3>2
  <2> QED
    BY Zenon, <1>7, <2>4, <2>7
<1> HIDE DEF U
<1> QED
  BY ZenonT(60), <1>1, <1>5, <1>10, <1>11, <1>12 DEF ErrorTruthful, FirstOf

\* At the head of a level the goroutines of the levels before it have
\* returned and no other has begun.
LEMMA StoppedHead ==
  ASSUME SInv, Reported, main = "head"
  PROVE  Stopped(li)
<1>1. li \in Nat \ {0} /\ li <= Len(levels) + 1
  BY Zenon DEF SInv, Shape, Reported
<1>2. ASSUME NEW k \in DOMAIN levels, NEW i \in DOMAIN levels[k]
      PROVE  gor[levels[k][i]] = IF k < li THEN "returned" ELSE "none"
  <2>1. Place(k, i) /\ k \in Nat
    BY SMTT(30), Z3T(30), LevelsShape DEF SInv, Placed
  <2> QED
    BY SMTT(30), Z3T(30), <1>1, <2>1 DEF Place
<1> QED
  BY Zenon, <1>1, <1>2 DEF Stopped

\* So they are when wg.Wait has returned, the level itself included.
LEMMA StoppedLevel ==
  ASSUME SInv, LevelDone
  PROVE  Stopped(li + 1)
<1>1. li \in DOMAIN levels /\ li \in Nat \ {0} /\ li <= Len(levels)
  BY SMTT(30), Z3T(30), LevelsShape DEF SInv, Shape, LevelDone
<1>2. ASSUME NEW k \in DOMAIN levels, NEW i \in DOMAIN levels[k]
      PROVE  gor[levels[k][i]] = IF k < li + 1 THEN "returned" ELSE "none"
  <2>1. Place(k, i) /\ k \in Nat
    BY LevelsShape DEF SInv, Placed
  <2>2. k = li => gor[levels[k][i]] = "returned"
    BY Zenon, LevelReturned
  <2> QED
    BY SMTT(30), Z3T(30), <1>1, <2>1, <2>2 DEF Place
<1>3. Len(levels) \in Nat
  BY Zenon, LevelsShape
<1> QED
  BY SMTT(30), Z3T(30), <1>1, <1>2, <1>3 DEF Stopped

\* The error of a level is that of its first node that did not succeed.
LEMMA LevelErrorFirst ==
  ASSUME SInv, LevelDone
  PROVE  /\ LevelError = NoError => \A i \in DOMAIN levels[li] : status[levels[li][i]] = Success
         /\ LevelError # NoError =>
              \E i \in DOMAIN levels[li] :
                /\ LevelError = levels[li][i] /\ status[levels[li][i]] # Success
                /\ \A j \in DOMAIN levels[li] : j < i => status[levels[li][j]] = Success
<1>1. li \in DOMAIN levels /\ \A j \in DOMAIN levels[li] : levels[li][j] \in Nodes /\ j \in Nat
  BY SMTT(30), Z3T(30), LevelsShape, LevelsDistinct DEF SInv, Shape, LevelDone
<1>2. ASSUME NEW j \in DOMAIN levels[li] PROVE j \in Errors <=> status[levels[li][j]] # Success
  <2>1. levels[li][j] \in Nodes /\ gor[levels[li][j]] = "returned"
    BY Zenon, <1>1, LevelReturned
  <2> QED
    BY Zenon, <2>1 DEF Errors, SInv, Outcomes
<1>3. CASE Errors = {}
  <2>1. LevelError = NoError
    BY Zenon, <1>3 DEF LevelError
  <2> QED
    BY Zenon, <1>2, <1>3, <2>1
<1>4. CASE Errors # {}
  <2>1. Errors \subseteq Nat
    BY Zenon, <1>1 DEF Errors
  <2>2. \E j \in Errors : \A l \in Errors : j <= l
    BY Zenon, <1>4, <2>1, SmallestError
  <2>3. PICK f : f = FirstOf(Errors)
    BY Zenon
  <2>4. f \in Errors /\ \A l \in Errors : f <= l
    BY Zenon, <2>2, <2>3 DEF FirstOf
  <2>5. f \in DOMAIN levels[li] /\ LevelError = levels[li][f]
    BY Zenon, <1>4, <2>3, <2>4 DEF Errors, LevelError
  <2>6. LevelError # NoError
    BY Zenon, <1>1, <2>5, ErrorsAssumption
  <2>7. ASSUME NEW j \in DOMAIN levels[li], j < f PROVE status[levels[li][j]] = Success
    <3>1. j \notin Errors
      BY SMTT(30), Z3T(30), <1>1, <2>4, <2>5, <2>7
    <3> QED
      BY ZenonT(60), <1>2, <3>1
  <2> QED
    BY ZenonT(60), <1>2, <2>4, <2>5, <2>6, <2>7
<1> QED
  BY ZenonT(60), <1>3, <1>4

\* If everything before the level succeeded, that is the first failure.
LEMMA LevelFailure ==
  ASSUME SInv, LevelDone, LevelError # NoError, \A n \in Earlier : status[n] = Success
  PROVE  FirstFailure(LevelError) /\ LevelError \in Members(levels[li])
<1>1. li \in DOMAIN levels
  BY Zenon DEF SInv, Shape, LevelDone
<1>2. PICK i \in DOMAIN levels[li] :
        /\ LevelError = levels[li][i] /\ status[levels[li][i]] # Success
        /\ \A j \in DOMAIN levels[li] : j < i => status[levels[li][j]] = Success
  BY Zenon, LevelErrorFirst
<1>3. SucceedsTo(li, i)
  <2> SUFFICES ASSUME NEW l \in DOMAIN levels, NEW j \in DOMAIN levels[l],
                      l < li \/ (l = li /\ j < i)
               PROVE  status[levels[l][j]] = Success
    BY Zenon DEF SucceedsTo
  <2>1. CASE l < li
    <3>1. levels[l][j] \in Earlier
      BY ZenonT(90), SMTT(60), <2>1, LevelsDistinct DEF Earlier, Members
    <3> QED
      BY ZenonT(60), <3>1
  <2>2. CASE l = li /\ j < i
    BY Zenon, <1>2, <2>2
  <2> QED
    BY Zenon, <2>1, <2>2
<1> QED
  BY Zenon, <1>1, <1>2, <1>3 DEF FirstFailure, Members

\* A first failure in an earlier level stays what it is while the earlier
\* levels' outcomes do.
LEMMA FailureStays ==
  ASSUME SInv, NEW n \in Earlier, FirstFailure(n), levels' = levels,
         \A m \in Earlier : status'[m] = status[m]
  PROVE  FirstFailure(n)'
<1>1. PICK k \in DOMAIN levels : \E i \in DOMAIN levels[k] :
        n = levels[k][i] /\ status[n] # Success /\ SucceedsTo(k, i)
  BY Zenon DEF FirstFailure
<1>2. PICK i \in DOMAIN levels[k] : n = levels[k][i] /\ status[n] # Success /\ SucceedsTo(k, i)
  BY ZenonT(60), <1>1
<1>3. k < li /\ k \in Nat /\ li \in Nat
  <2>1. PICK l \in DOMAIN levels : l < li /\ n \in Members(levels[l])
    BY Zenon DEF Earlier
  <2>2. PICK j \in DOMAIN levels[l] : levels[l][j] = n
    BY ZenonT(60), <2>1 DEF Members
  <2>3. l = k
    BY SMTT(30), Z3T(30), <1>2, <2>2, LevelsDistinct
  <2> QED
    BY SMTT(30), Z3T(30), <2>1, <2>3, LevelsShape DEF SInv, Shape
<1>4. ASSUME NEW l \in DOMAIN levels, NEW j \in DOMAIN levels[l], l < k \/ (l = k /\ j < i)
      PROVE  status'[levels[l][j]] = Success
  <2>1. l < li
    BY SMTT(30), Z3T(30), <1>3, <1>4, LevelsShape
  <2>2. levels[l][j] \in Earlier
    BY SMTT(30), Z3T(30), <2>1, LevelsDistinct DEF Earlier, Members
  <2>3. status[levels[l][j]] = Success
    BY Zenon, <1>2, <1>4 DEF SucceedsTo
  <2> QED
    BY ZenonT(60), <2>2, <2>3
<1>5. SucceedsTo(k, i)'
  BY Zenon, <1>4 DEF SucceedsTo
<1>6. status'[n] # Success
  BY Zenon, <1>2
<1> QED
  BY Zenon, <1>2, <1>5, <1>6 DEF FirstFailure

\* The error kept so far stays true while the earlier levels' outcomes do.
LEMMA ErrorStays ==
  ASSUME SInv, ErrorKept, main # "done", levels' = levels, Earlier' = Earlier,
         firstError' = firstError, \A m \in Earlier : status'[m] = status[m]
  PROVE  ErrorKept'
<1>1. ASSUME firstError = NoError PROVE \A m \in Earlier : status'[m] = Success
  BY Zenon, <1>1 DEF ErrorKept
<1>2. ASSUME firstError # NoError PROVE firstError \in Earlier /\ FirstFailure(firstError)'
  <2>1. PICK n : n = firstError
    BY Zenon
  <2>2. n \in Earlier /\ FirstFailure(n)
    BY ZenonT(60), <1>2, <2>1 DEF ErrorKept
  <2>3. FirstFailure(n)'
    BY Zenon, <2>2, FailureStays
  <2> QED
    BY Zenon, <2>1, <2>2, <2>3 DEF FirstFailure
<1> QED
  BY Zenon, <1>1, <1>2 DEF ErrorKept

-----------------------------------------------------------------------------
(* Every step *)

\* A step that records nothing leaves the report as it should be.
LEMMA ReportStays ==
  ASSUME Reported, main # "done", levels' = levels, li' <= Len(levels) + 1,
         runs' = runs, terminal' = terminal, finished' = finished,
         \A m \in Nodes : Ended(m)' <=> Ended(m),
         \A m \in Nodes : Ended(m) => status'[m] = status[m]
  PROVE  Reported'
<1>1. /\ runs \in Seq(EntrySet)
      /\ \A i \in DOMAIN runs :
           Entry(runs[i]) /\ Ended(runs[i].node) /\ runs[i].status = status[runs[i].node]
      /\ \A i, j \in DOMAIN runs : runs[i].node = runs[j].node => i = j
      /\ \A n \in Nodes : Ended(n) => \E i \in DOMAIN runs : runs[i].node = n
      /\ terminal = {n \in Nodes : Ended(n)}
      /\ finished = {<<n, status[n]>> : n \in terminal}
  BY Zenon DEF Reported
<1>2. ASSUME NEW i \in DOMAIN runs PROVE runs[i].node \in Nodes
  <2>1. runs[i] \in EntrySet
    BY SMTT(30), Z3T(30), <1>1
  <2> QED
    BY ZenonT(60), <2>1 DEF EntrySet
<1>3. ASSUME NEW i \in DOMAIN runs
      PROVE  Entry(runs[i])' /\ Ended(runs[i].node)' /\ runs[i].status = status'[runs[i].node]
  <2>1. Entry(runs[i])'
    BY Zenon, <1>1 DEF Entry
  <2>2. Ended(runs[i].node)
    BY Zenon, <1>1
  <2>3. Ended(runs[i].node)' /\ status'[runs[i].node] = status[runs[i].node]
    BY Zenon, <1>2, <2>2
  <2> QED
    BY Zenon, <1>1, <2>1, <2>3
<1>4. terminal' = {n \in Nodes : Ended(n)'}
  BY ZenonT(60), <1>1
<1>5. finished' = {<<n, status'[n]>> : n \in terminal'}
  <2>1. \A n \in terminal : status'[n] = status[n]
    BY Zenon, <1>1
  <2> QED
    BY SMTT(30), <1>1, <2>1
<1>6. \A n \in Nodes : Ended(n)' => \E i \in DOMAIN runs : runs[i].node = n
  BY ZenonT(60), <1>1
<1>7. EntrySet' = EntrySet
  BY Zenon DEF EntrySet
<1> QED
  BY ZenonT(60), <1>1, <1>3, <1>4, <1>5, <1>6, <1>7 DEF Reported

\* A goroutine that records adds its node to the report, and one event.
LEMMA RecordReports ==
  ASSUME SInv, Reported, NEW n \in Nodes, Record(n), main # "done"
  PROVE  Reported'
<1>1. /\ gor[n] = "concluded" /\ gor' = [gor EXCEPT ![n] = "recorded"]
      /\ levels' = levels /\ li' = li /\ status' = status
      /\ runs' = Append(runs, [node |-> n, level |-> li, status |-> status[n]])
      /\ Emitted({<<n, status[n]>>})
  BY Zenon, SameLevels DEF Record, Goroutine, Terminal
<1>2. PICK old : old = runs
  BY Zenon
<1>3. PICK r : r = [node |-> n, level |-> li, status |-> status[n]]
  BY Zenon
<1>4. /\ old \in Seq(EntrySet) /\ li <= Len(levels) + 1
      /\ \A i \in DOMAIN old :
           Entry(old[i]) /\ Ended(old[i].node) /\ old[i].status = status[old[i].node]
      /\ \A i, j \in DOMAIN old : old[i].node = old[j].node => i = j
      /\ \A m \in Nodes : Ended(m) => \E i \in DOMAIN old : old[i].node = m
      /\ terminal = {m \in Nodes : Ended(m)}
      /\ finished = {<<m, status[m]>> : m \in terminal}
  BY ZenonT(60), <1>2 DEF Reported
<1>5. r \in EntrySet /\ r.node = n /\ r.level = li /\ r.status = status[n]
  BY Zenon, <1>3 DEF EntrySet, SInv, Shape
<1>6. Entry(r)
  <2>1. li \in DOMAIN levels /\ n \in Members(levels[li])
    BY Zenon, <1>1, InFlightHere DEF SInv, Shape, Members
  <2> QED
    BY Zenon, <1>5, <2>1 DEF Entry
<1>7. ~Ended(n)
  BY Zenon, <1>1 DEF Ended
<1>8. ASSUME NEW m \in Nodes PROVE Ended(m)' <=> Ended(m) \/ m = n
  <2>1. gor'[m] = IF m = n THEN "recorded" ELSE gor[m]
    BY Zenon, <1>1 DEF SInv, Shape
  <2> QED
    BY ZenonT(60), <2>1 DEF Ended
<1>9. PICK new : new = Append(old, r)
  BY Zenon
<1>10. PICK L \in Nat : L = Len(old)
  <2>1. old \in Seq(EntrySet)
    BY Zenon, <1>4
  <2>2. Len(old) \in Nat
    BY SMTT(30), <2>1
  <2> QED
    BY Zenon, <2>2
<1>11. /\ new \in Seq(EntrySet) /\ DOMAIN new = 1 .. L + 1 /\ DOMAIN old = 1 .. L
       /\ \A i \in 1 .. L : new[i] = old[i]
       /\ new[L + 1] = r
  <2>1. old \in Seq(EntrySet) /\ r \in EntrySet
    BY ZenonT(60), <1>4, <1>5
  <2>2. /\ Append(old, r) \in Seq(EntrySet) /\ DOMAIN old = 1 .. Len(old)
        /\ DOMAIN Append(old, r) = 1 .. Len(old) + 1
        /\ \A i \in 1 .. Len(old) : Append(old, r)[i] = old[i]
        /\ Append(old, r)[Len(old) + 1] = r
    BY SMTT(60), Z3T(60), <2>1, Appended
  <2> QED
    BY Zenon, <1>9, <1>10, <2>2
<1>12. \A i \in DOMAIN old : old[i].node \in Nodes /\ old[i].node # n
  <2>1. \A i \in DOMAIN old : old[i] \in EntrySet
    BY SMTT(30), Z3T(30), <1>4
  <2>2. \A x \in EntrySet : x.node \in Nodes
    BY Zenon DEF EntrySet
  <2> QED
    BY SMTT(30), Z3T(30), <1>4, <1>7, <2>1, <2>2
<1>13. ASSUME NEW i \in DOMAIN new
       PROVE  Entry(new[i])' /\ Ended(new[i].node)' /\ new[i].status = status'[new[i].node]
  <2>1. CASE i = L + 1
    <3>1. Entry(r)'
      BY Zenon, <1>1, <1>6 DEF Entry
    <3>2. Ended(n)'
      BY Zenon, <1>8
    <3> QED
      BY ZenonT(60), <1>1, <1>5, <1>11, <2>1, <3>1, <3>2
  <2>2. CASE i # L + 1
    <3>1. i \in DOMAIN old /\ new[i] = old[i]
      BY SMTT(30), Z3T(30), <1>10, <1>11, <2>2
    <3>2. Entry(old[i])'
      BY Zenon, <1>1, <1>4, <3>1 DEF Entry
    <3>3. Ended(old[i].node)'
      BY Zenon, <1>4, <1>8, <1>12, <3>1
    <3> QED
      BY ZenonT(60), <1>1, <1>4, <3>1, <3>2, <3>3
  <2> QED
    BY Zenon, <2>1, <2>2
<1>14. ASSUME NEW i \in DOMAIN new, NEW j \in DOMAIN new, new[i].node = new[j].node PROVE i = j
  <2>1. ASSUME NEW x \in DOMAIN new
        PROVE  (x = L + 1 /\ new[x].node = n)
               \/ (x \in DOMAIN old /\ new[x] = old[x] /\ new[x].node # n)
    <3>1. CASE x = L + 1
      BY Zenon, <1>5, <1>11, <3>1
    <3>2. CASE x # L + 1
      <4>1. DOMAIN new = 1 .. L + 1 /\ DOMAIN old = 1 .. L
        BY Zenon, <1>11
      <4>2. x \in DOMAIN old
        BY SMTT(30), Z3T(30), <1>10, <3>2, <4>1
      <4>3. new[x] = old[x]
        BY Zenon, <1>11, <4>1, <4>2
      <4> QED
        BY Zenon, <1>12, <4>2, <4>3
    <3> QED
      BY Zenon, <3>1, <3>2
  <2> QED
    BY Zenon, <1>4, <1>14, <2>1
<1>15. ASSUME NEW m \in Nodes, Ended(m)' PROVE \E i \in DOMAIN new : new[i].node = m
  <2>1. CASE m = n
    <3>1. L + 1 \in DOMAIN new
      BY SMTT(30), Z3T(30), <1>10, <1>11
    <3> QED
      BY ZenonT(60), <1>5, <1>11, <2>1, <3>1
  <2>2. CASE m # n
    <3>1. PICK i \in DOMAIN old : old[i].node = m
      BY ZenonT(60), <1>4, <1>8, <1>15, <2>2
    <3>2. i \in DOMAIN new /\ new[i] = old[i]
      BY SMTT(30), Z3T(30), <1>10, <1>11
    <3> QED
      BY Zenon, <3>1, <3>2
  <2> QED
    BY Zenon, <2>1, <2>2
<1>16. terminal' = terminal \cup {n} /\ finished' = finished \cup {<<n, status[n]>>}
  <2>1. <<n, status[n]>>[1] = n /\ n \notin terminal
    BY Zenon, <1>4, <1>7
  <2>2. /\ finished' = finished \cup {x \in {<<n, status[n]>>} : x[1] \notin terminal}
        /\ terminal' = terminal \cup {x[1] : x \in {<<n, status[n]>>}}
    BY ZenonT(60), <1>1 DEF Emitted
  <2> QED
    BY Zenon, <2>1, <2>2
<1>17. terminal' = {m \in Nodes : Ended(m)'}
  BY SMTT(30), Z3T(30), <1>4, <1>8, <1>16
<1>18. finished' = {<<m, status'[m]>> : m \in terminal'}
  <2>1. ASSUME NEW x \in finished' PROVE x \in {<<m, status[m]>> : m \in terminal'}
    <3>1. CASE x \in finished
      <4>1. PICK m \in terminal : x = <<m, status[m]>>
        BY Zenon, <1>4, <3>1
      <4> QED
        BY Zenon, <1>16, <4>1
    <3>2. CASE x \notin finished
      BY Zenon, <1>16, <3>2
    <3> QED
      BY Zenon, <3>1, <3>2
  <2>2. ASSUME NEW m \in terminal' PROVE <<m, status[m]>> \in finished'
    <3>1. CASE m = n
      BY Zenon, <1>16, <3>1
    <3>2. CASE m \in terminal
      BY ZenonT(90), SMTT(60), <1>4, <1>16, <3>2
    <3> QED
      BY Zenon, <1>16, <3>1, <3>2
  <2> QED
    BY Zenon, <1>1, <2>1, <2>2
<1>19. runs' = new /\ EntrySet' = EntrySet
  BY <1>1, <1>2, <1>3, <1>9 DEF EntrySet
<1>20. /\ runs' \in Seq(EntrySet') /\ li' <= Len(levels') + 1
       /\ \A i \in DOMAIN runs' :
            Entry(runs[i])' /\ Ended(runs[i].node)' /\ runs'[i].status = status'[runs'[i].node]
       /\ \A i, j \in DOMAIN runs' : runs'[i].node = runs'[j].node => i = j
       /\ \A m \in Nodes : Ended(m)' => \E i \in DOMAIN runs' : runs'[i].node = m
  <2>1. ASSUME NEW i \in DOMAIN new
        PROVE  Entry(runs[i])' /\ Ended(runs[i].node)' /\ runs'[i].status = status'[runs'[i].node]
    BY Zenon, <1>13, <1>19 DEF Entry, Ended
  <2>2. runs' \in Seq(EntrySet')
    BY Zenon, <1>11, <1>19
  <2>3. li' <= Len(levels') + 1
    BY Zenon, <1>1, <1>4
  <2>4. \A i, j \in DOMAIN runs' : runs'[i].node = runs'[j].node => i = j
    BY Zenon, <1>14, <1>19
  <2>5. \A m \in Nodes : Ended(m)' => \E i \in DOMAIN runs' : runs'[i].node = m
    BY Zenon, <1>15, <1>19
  <2> QED
    BY ZenonT(60), <1>19, <2>1, <2>2, <2>3, <2>4, <2>5
<1> QED
  BY Zenon, <1>17, <1>18, <1>20 DEF Reported

\* A goroutine's step keeps the report and the error exact.
LEMMA WorkerReports ==
  ASSUME SInv, ReportInv, NEW n \in Nodes, Worker(n)
  PROVE  ReportInv'
<1>1. /\ main' = main /\ main = "launch" /\ mode' = mode /\ li' = li
      /\ gor[n] \notin {"none", "returned"} /\ n \notin Earlier
      /\ gor' = [gor EXCEPT ![n] = gor'[n]] /\ status' = [status EXCEPT ![n] = status'[n]]
  BY Zenon, WorkerFrame, InFlightHere DEF SInv, Waiting
<1>2. levels' = levels /\ Earlier' = Earlier
  BY Zenon, <1>1, SameLevels
<1>3. \A m \in Nodes \ {n} : gor'[m] = gor[m] /\ status'[m] = status[m]
  BY Zenon, <1>1 DEF SInv, Shape
<1>4. ErrorKept'
  <2>1. firstError' = firstError
    BY Zenon DEF Worker, Check, Prepare, Act, Record, Leave, Skip, Others
  <2>2. \A m \in Earlier : status'[m] = status[m]
    BY Zenon, <1>1, <1>3 DEF Earlier
  <2> QED
    BY Zenon, <1>1, <1>2, <2>1, <2>2, ErrorStays DEF ReportInv
<1>5. Reported'
  <2>1. CASE Record(n)
    BY Zenon, <1>1, <2>1, RecordReports DEF ReportInv
  <2>2. CASE Check(n) \/ Prepare(n) \/ Act(n) \/ Leave(n)
    <3>1. runs' = runs /\ terminal' = terminal /\ finished' = finished
      BY Zenon, <2>2 DEF Check, Prepare, Act, Leave, Skip, Others, results
    <3>2. /\ gor'[n] \in {"recorded", "returned"} <=> gor[n] \in {"recorded", "returned"}
          /\ gor'[n] \in {"recorded", "returned"} => status'[n] = status[n]
      BY Zenon, <2>2 DEF Check, Prepare, Act, Leave, Skip, Goroutine, SInv, Shape
    <3>3. \A m \in Nodes : Ended(m)' <=> Ended(m)
      BY Zenon, <1>3, <3>2 DEF Ended
    <3>4. \A m \in Nodes : Ended(m) => status'[m] = status[m]
      BY Zenon, <1>3, <3>2 DEF Ended
    <3>5. Reported /\ main # "done" /\ li' <= Len(levels) + 1
      BY Zenon, <1>1 DEF ReportInv, Reported
    <3> QED
      BY Zenon, <1>2, <3>1, <3>3, <3>4, <3>5, ReportStays
  <2> QED
    BY Zenon, <2>1, <2>2 DEF Worker
<1> QED
  BY Zenon, <1>1, <1>4, <1>5 DEF ReportInv, ReportExact, ErrorTruthful

\* Every return path is as it should be if its error is.
LEMMA ReturnKeeps ==
  ASSUME SInv, ReportInv, main # "done", NEW e, NEW from, Stopped(from), Return(e, from),
         e = NoError => \A n \in Selected : status[n] = Success,
         e \in Nodes => FirstFailure(e)
  PROVE  ReportInv'
<1>1. ReportExact'
  BY Zenon, ReturnReports DEF ReportInv
<1>2. ErrorTruthful'
  BY Zenon, <1>1, ReturnTruthful
<1>3. main' = "done"
  BY Zenon DEF Return
<1>4. Reported' /\ ErrorKept'
  BY Zenon, <1>3 DEF Reported, ErrorKept
<1> QED
  BY Zenon, <1>1, <1>2, <1>4 DEF ReportInv

\* The errors that blame no node.
LEMMA NobodysErrors ==
  \A e \in {"cancelled", "completion", "level.finished"} : e # NoError /\ e \notin Nodes
<1>1. \A e \in {"cancelled", "completion", "level.finished"} : e # NoError
  BY Zenon DEF NoError
<1> QED
  BY Zenon, <1>1, ErrorsAssumption

\* Past the last level every selected node is an earlier one.
LEMMA AllEarlier ==
  ASSUME SInv, li > Len(levels), NEW n \in Selected
  PROVE  n \in Earlier
<1>1. PICK k \in DOMAIN levels : \E i \in DOMAIN levels[k] : levels[k][i] = n
  BY SMTT(30), Z3T(30), LevelsCover
<1>2. PICK i \in DOMAIN levels[k] : levels[k][i] = n
  BY Zenon, <1>1
<1>3. k < li
  BY SMTT(30), Z3T(30), LevelsShape DEF SInv, Shape
<1> QED
  BY SMTT(30), Z3T(30), <1>2, <1>3, LevelsDistinct DEF Earlier, Members

\* The ways runLevels returns.
LEMMA StopReports ==
  ASSUME SInv, ReportInv,
         StopCancelled \/ StopCompletion \/ StopLevelHook \/ StopFailed \/ Complete
  PROVE  ReportInv'
<1>1. CASE StopCancelled
  <2>1. main = "head" /\ Return("cancelled", li)
    BY Zenon, <1>1 DEF StopCancelled
  <2>2. Stopped(li)
    BY Zenon, <2>1, StoppedHead DEF ReportInv
  <2> QED
    BY Zenon, <2>1, <2>2, NobodysErrors, ReturnKeeps
<1>2. CASE StopCompletion
  <2>1. LevelDone /\ main = "launch" /\ Return("completion", li + 1)
    BY Zenon, <1>2 DEF StopCompletion, LevelDone
  <2>2. Stopped(li + 1)
    BY Zenon, <2>1, StoppedLevel
  <2> QED
    BY Zenon, <2>1, <2>2, NobodysErrors, ReturnKeeps
<1>3. CASE StopLevelHook
  <2>1. LevelDone /\ main = "launch" /\ Return("level.finished", li + 1)
    BY Zenon, <1>3 DEF StopLevelHook, LevelDone
  <2>2. Stopped(li + 1)
    BY Zenon, <2>1, StoppedLevel
  <2> QED
    BY Zenon, <2>1, <2>2, NobodysErrors, ReturnKeeps
<1>4. CASE StopFailed
  <2>1. /\ LevelDone /\ main = "launch" /\ Return(LevelError, li + 1)
        /\ ~KeepGoing /\ LevelError # NoError
    BY Zenon, <1>4 DEF StopFailed, LevelDone, MayContinue
  <2>2. Stopped(li + 1)
    BY Zenon, <2>1, StoppedLevel
  <2>3. FirstFailure(LevelError)
    <3>1. \A n \in Earlier : status[n] = Success
      BY Zenon, <2>1 DEF SInv, Frozen
    <3> QED
      BY Zenon, <2>1, <3>1, LevelFailure
  <2>4. PICK e : e = LevelError
    BY Zenon
  <2>5. PICK from : from = li + 1
    BY Zenon
  <2>6. Return(e, from) /\ Stopped(from) /\ FirstFailure(e) /\ e # NoError
    BY Zenon, <2>1, <2>2, <2>3, <2>4, <2>5
  <2> QED
    BY Zenon, <2>1, <2>6, ReturnKeeps
<1>5. CASE Complete
  <2>1. main = "head" /\ li > Len(levels) /\ Return(firstError, li)
    BY Zenon, <1>5 DEF Complete
  <2>2. Stopped(li)
    BY Zenon, <2>1, StoppedHead DEF ReportInv
  <2>3. /\ firstError = NoError => \A n \in Earlier : status[n] = Success
        /\ firstError # NoError => FirstFailure(firstError)
    BY Zenon, <2>1 DEF ReportInv, ErrorKept
  <2>4. firstError = NoError => \A n \in Selected : status[n] = Success
    BY Zenon, <2>1, <2>3, AllEarlier
  <2>5. firstError \in Nodes => FirstFailure(firstError)
    BY Zenon, <2>3, ErrorsAssumption
  <2>6. PICK e : e = firstError
    BY Zenon
  <2>7. PICK from : from = li
    BY Zenon
  <2>8. /\ Return(e, from) /\ Stopped(from)
        /\ e = NoError => \A n \in Selected : status[n] = Success
        /\ e \in Nodes => FirstFailure(e)
    BY Zenon, <2>1, <2>2, <2>4, <2>5, <2>6, <2>7
  <2> QED
    BY Zenon, <2>1, <2>8, ReturnKeeps
<1> QED
  BY Zenon, <1>1, <1>2, <1>3, <1>4, <1>5

\* The next level keeps the error of the first one that had any.
LEMMA NextLevelReports == SInv /\ ReportInv /\ NextLevel => ReportInv'
<1> SUFFICES ASSUME SInv, ReportInv, NextLevel PROVE ReportInv'
  BY Zenon
<1>1. /\ LevelDone /\ main = "launch" /\ main' = "head" /\ li' = li + 1 /\ firstError' = KeptError
      /\ gor' = gor /\ status' = status /\ mode' = mode
      /\ runs' = runs /\ terminal' = terminal /\ finished' = finished
  BY Zenon DEF NextLevel, LevelDone, results
<1>2. levels' = levels
  BY Zenon, <1>1, SameLevels
<1>3. li \in DOMAIN levels /\ li \in Nat /\ li <= Len(levels) /\ Len(levels) \in Nat
  BY SMTT(30), Z3T(30), <1>1, LevelsShape DEF SInv, Shape
<1>4. Reported'
  <2>1. \A m \in Nodes : Ended(m)' <=> Ended(m)
    BY Zenon, <1>1 DEF Ended
  <2>2. li' <= Len(levels) + 1
    BY SMTT(30), Z3T(30), <1>1, <1>3
  <2> QED
    BY Zenon, <1>1, <1>2, <2>1, <2>2, ReportStays DEF ReportInv
<1>5. \A n : n \in Earlier' <=> n \in Earlier \/ n \in Members(levels[li])
  <2>1. ASSUME NEW n \in Earlier' PROVE n \in Earlier \/ n \in Members(levels[li])
    <3>1. PICK k \in DOMAIN levels : k < li + 1 /\ n \in Members(levels[k]) /\ n \in Nodes
      BY Zenon, <1>1, <1>2 DEF Earlier
    <3>2. CASE k = li
      BY Zenon, <3>1, <3>2
    <3>3. CASE k # li
      <4>1. k < li
        BY SMTT(60), Z3T(60), <1>3, <3>1, <3>3, LevelsShape
      <4> QED
        BY Zenon, <3>1, <4>1 DEF Earlier
    <3> QED
      BY Zenon, <3>2, <3>3
  <2>2. ASSUME NEW n \in Earlier PROVE n \in Earlier'
    BY SMTT(30), Z3T(30), <1>1, <1>2, <1>3, LevelsShape DEF Earlier
  <2>3. ASSUME NEW n \in Members(levels[li]) PROVE n \in Earlier'
    <3>1. n \in Nodes /\ li < li + 1
      BY SMTT(30), Z3T(30), <1>3, LevelsDistinct DEF Members
    <3> QED
      BY Zenon, <1>1, <1>2, <1>3, <3>1 DEF Earlier
  <2> QED
    BY Zenon, <2>1, <2>2, <2>3
<1>6. ASSUME KeptError = NoError, NEW n \in Earlier' PROVE status[n] = Success
  <2>1. firstError = NoError /\ LevelError = NoError
    BY Zenon, <1>6 DEF KeptError
  <2>2. CASE n \in Earlier
    BY Zenon, <1>1, <2>1, <2>2 DEF ReportInv, ErrorKept
  <2>3. CASE n \in Members(levels[li])
    BY Zenon, <1>1, <2>1, <2>3, LevelErrorFirst DEF Members
  <2> QED
    BY Zenon, <1>5, <1>6, <2>2, <2>3
<1>7. ASSUME KeptError # NoError PROVE KeptError \in Earlier' /\ FirstFailure(KeptError)
  <2>1. CASE firstError = NoError
    <3>1. KeptError = LevelError /\ LevelError # NoError
      BY Zenon, <1>7, <2>1 DEF KeptError
    <3>2. \A n \in Earlier : status[n] = Success
      BY Zenon, <1>1, <2>1 DEF ReportInv, ErrorKept
    <3>3. FirstFailure(LevelError) /\ LevelError \in Members(levels[li])
      BY Zenon, <1>1, <3>1, <3>2, LevelFailure
    <3> QED
      BY Zenon, <1>5, <3>1, <3>3
  <2>2. CASE firstError # NoError
    <3>1. KeptError = firstError
      BY Zenon, <2>2 DEF KeptError
    <3>2. firstError \in Earlier /\ FirstFailure(firstError)
      BY Zenon, <1>1, <2>2 DEF ReportInv, ErrorKept
    <3> QED
      BY Zenon, <1>5, <3>1, <3>2
  <2> QED
    BY Zenon, <2>1, <2>2
<1>8. ErrorKept'
  <2>1. PICK e : e = KeptError
    BY Zenon
  <2>2. firstError' = e /\ (e # NoError => e \in Earlier' /\ FirstFailure(e))
    BY ZenonT(60), <1>1, <1>7, <2>1
  <2>3. FirstFailure(e) => FirstFailure(e)'
    BY SMTT(30), Z3T(30), <1>1, <1>2 DEF FirstFailure, SucceedsTo
  <2>4. firstError' # NoError => firstError' \in Earlier' /\ FirstFailure(firstError)'
    BY Zenon, <2>2, <2>3 DEF FirstFailure
  <2>5. firstError' = NoError => \A n \in Earlier' : status'[n] = Success
    BY Zenon, <1>1, <1>6
  <2> QED
    BY Zenon, <2>4, <2>5 DEF ErrorKept
<1> QED
  BY Zenon, <1>1, <1>4, <1>8 DEF ReportInv, ReportExact, ErrorTruthful

\* Nothing is reported before the first level.
LEMMA ReportInit == Init => ReportInv
<1> SUFFICES ASSUME Init PROVE ReportInv
  OBVIOUS
<1>1. \A n \in Nodes : ~Ended(n)
  BY Zenon DEF Init, Ended
<1>i. li = 1 /\ firstError = NoError /\ main = "head"
  BY Zenon DEF Init
<1>l. Len(levels) \in Nat /\ DOMAIN levels = 1 .. Len(levels)
  BY Zenon, LevelsShape
<1>2. Len(levels) \in Nat /\ li <= Len(levels) + 1
  BY SMTT(30), Z3T(30), <1>i, <1>l
<1>3. runs \in Seq(EntrySet) /\ DOMAIN runs = {}
  BY SMTT(30) DEF Init
<1>4. terminal = {n \in Nodes : Ended(n)} /\ finished = {<<n, status[n]>> : n \in terminal}
  BY Zenon, <1>1 DEF Init
<1>5. Reported
  BY Zenon, <1>1, <1>2, <1>3, <1>4 DEF Reported
<1>6. Earlier = {} /\ firstError = NoError /\ main = "head"
  <2>1. \A k \in DOMAIN levels : ~(k < li)
    BY SMTT(30), Z3T(30), <1>i, <1>l
  <2>2. Earlier = {}
    BY Zenon, <2>1 DEF Earlier
  <2> QED
    BY Zenon, <2>2, <1>i
<1> QED
  BY Zenon, <1>5, <1>6 DEF ReportInv, ErrorKept, ReportExact, ErrorTruthful

\* Every step keeps the report and the error as they should be.
LEMMA ReportNext == SInv /\ ReportInv /\ [Next]_vars => ReportInv'
<1> SUFFICES ASSUME SInv, ReportInv, [Next]_vars PROVE ReportInv'
  OBVIOUS
<1>1. CASE StopCancelled \/ StopCompletion \/ StopLevelHook \/ StopFailed \/ Complete
  BY Zenon, <1>1, StopReports
<1>2. CASE NextLevel
  BY Zenon, <1>2, NextLevelReports
<1>3. ASSUME NEW n \in Nodes, Worker(n) PROVE ReportInv'
  BY Zenon, <1>3, WorkerReports
<1>4. CASE EnterLevel \/ Launch \/ (Cancel /\ main # "done") \/ (UNCHANGED vars /\ main # "done")
  <2>1. /\ main # "done" /\ main' # "done" /\ mode' = mode /\ li' = li
        /\ status' = status /\ firstError' = firstError
        /\ runs' = runs /\ terminal' = terminal /\ finished' = finished
    BY Zenon, <1>4 DEF EnterLevel, Launch, Cancel, vars, results
  <2>2. levels' = levels /\ Earlier' = Earlier
    BY Zenon, <2>1, SameLevels
  <2>3. \A m \in Nodes : Ended(m)' <=> Ended(m)
    <3>1. CASE Launch
      <4>1. li \in DOMAIN levels /\ launched + 1 \in DOMAIN levels[li] /\ launched \in Nat
        <5>1. main = "launch" /\ launched < Len(levels[li])
          BY Zenon, <3>1 DEF Launch
        <5>2. li \in DOMAIN levels /\ launched \in Nat
          BY Zenon, <5>1 DEF SInv, Shape
        <5>3. DOMAIN levels[li] = 1 .. Len(levels[li]) /\ Len(levels[li]) \in Nat
          BY SMTT(30), Z3T(30), <5>2, LevelsShape
        <5> QED
          BY SMTT(30), Z3T(30), <5>1, <5>2, <5>3
      <4>2. PICK n : n = levels[li][launched + 1]
        BY Zenon
      <4>3. n \in Nodes /\ gor[n] = "none"
        <5>1. n \in Nodes
          BY Zenon, <4>1, <4>2, LevelsDistinct
        <5>2. Place(li, launched + 1)
          BY Zenon, <4>1 DEF SInv, Placed
        <5>3. main = "launch" /\ ~(launched + 1 <= launched)
          BY SMTT(30), Z3T(30), <3>1, <4>1 DEF Launch
        <5> QED
          BY ZenonT(60), <4>2, <5>1, <5>2, <5>3 DEF Place
      <4>4. gor' = [gor EXCEPT ![n] = "started"]
        BY Zenon, <3>1, <4>2 DEF Launch
      <4> QED
        BY Zenon, <4>3, <4>4 DEF Ended, SInv, Shape
    <3>2. CASE ~Launch
      <4>1. gor' = gor
        BY Zenon, <1>4, <3>2 DEF EnterLevel, Cancel, vars
      <4> QED
        BY Zenon, <4>1 DEF Ended
    <3> QED
      BY Zenon, <3>1, <3>2
  <2>4. Reported'
    <3>1. Reported /\ li' <= Len(levels) + 1
      BY Zenon, <2>1 DEF ReportInv, Reported
    <3> QED
      BY Zenon, <2>1, <2>2, <2>3, <3>1, ReportStays
  <2>5. ErrorKept'
    BY Zenon, <2>1, <2>2, ErrorStays DEF ReportInv
  <2> QED
    BY Zenon, <2>1, <2>4, <2>5 DEF ReportInv, ReportExact, ErrorTruthful
<1>5. CASE UNCHANGED vars /\ main = "done"
  <2>1. main' = "done" /\ runs' = runs /\ status' = status /\ gor' = gor /\ finished' = finished
        /\ err' = err /\ levels' = levels
    BY Zenon, <1>5, SameLevels DEF vars, results
  <2>2. ReportExact'
    BY ZenonT(60), <1>5, <2>1 DEF ReportInv, ReportExact, Ran
  <2>3. ErrorTruthful'
    BY Zenon, <1>5, <2>1 DEF ReportInv, ErrorTruthful, Unsuccessful
  <2>4. Reported' /\ ErrorKept'
    BY Zenon, <2>1 DEF Reported, ErrorKept
  <2> QED
    BY Zenon, <2>2, <2>3, <2>4 DEF ReportInv
<1>6. Cancel => main # "done"
  BY Zenon DEF Cancel
<1> QED
  BY Zenon, <1>1, <1>2, <1>3, <1>4, <1>5, <1>6 DEF Next, Main

\* RunResult: on every return path, in every run, the report lists each
\* selected node once, in level and name order, says "not run" of exactly the
\* nodes whose action never began, and agrees with the node.finished events.
THEOREM ReportIsExact == Spec => []ReportExact
<1>1. Init => ReportInv
  BY SMTT(30), Z3T(30), ReportInit
<1>2. SInv /\ ReportInv /\ [Next]_vars => ReportInv'
  BY Zenon, ReportNext
<1>3. ReportInv => ReportExact
  BY Zenon DEF ReportInv
<1> QED
  BY <1>1, <1>2, <1>3, SchedulerInvariant, PTL DEF Spec

\* runLevels returns no error only if every node succeeded, and a node's error
\* only if it is the first unsuccessful one of the report.
THEOREM ErrorIsTruthful == Spec => []ErrorTruthful
<1>1. Init => ReportInv
  BY ReportInit
<1>2. SInv /\ ReportInv /\ [Next]_vars => ReportInv'
  BY ReportNext
<1>3. ReportInv => ErrorTruthful
  BY DEF ReportInv
<1> QED
  BY <1>1, <1>2, <1>3, SchedulerInvariant, PTL DEF Spec
=============================================================================

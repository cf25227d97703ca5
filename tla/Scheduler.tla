------------------------------ MODULE Scheduler ------------------------------
(***************************************************************************)
(* The level scheduler behind plan, apply and destroy                      *)
(* (internal/engine/run.go: runLevels): the calling goroutine walks the    *)
(* execution levels, starts one goroutine per node of the level under a    *)
(* semaphore, waits for all of them and decides whether the next level     *)
(* may start.  Nodes fail, plugin hooks refuse or fail, and the context    *)
(* is cancelled, at any moment.                                            *)
(*                                                                         *)
(* The node action (terraform init, plan, apply ...) is a start and a      *)
(* return here; module Execution has its steps.                            *)
(***************************************************************************)
EXTENDS Integers, Sequences, FiniteSets

CONSTANTS Nodes,        \* every node of the graph
          In,           \* g.In: the predecessors of each node
          Levels,       \* graph.SelectedLevels: the selected nodes, forward
          Parallelism,  \* Options.parallelism()
          Modes         \* the commands to run

ASSUME ModesAssumption ==
  /\ Modes \subseteq {"plan", "apply", "destroy", "review"}
  /\ Parallelism \in Nat \ {0}
  /\ In \in [Nodes -> SUBSET Nodes]

Members(level) == {level[i] : i \in DOMAIN level}
Selected == UNION {Members(Levels[k]) : k \in DOMAIN Levels}

\* What graph.SelectedLevels guarantees: a node is in one level, once, and
\* its selected predecessors are in earlier levels.
ASSUME LevelsAssumption ==
  /\ Levels \in Seq(Seq(Nodes))
  /\ \A k, l \in DOMAIN Levels :
       \A i \in DOMAIN Levels[k], j \in DOMAIN Levels[l] :
         /\ Levels[k][i] = Levels[l][j] => k = l /\ i = j
         /\ Levels[k][i] \in In[Levels[l][j]] => k < l

VARIABLES
  mode,       \* the command this run serves
  cancelled,  \* e.context() is done
  main,       \* where the calling goroutine is
  li,         \* the level it works on
  launched,   \* how many nodes of that level it has started
  gor,        \* where each node's goroutine is
  status,     \* the status each goroutine holds for its node
  snapshot,   \* the nodes whose outputs this level's goroutines may read
  blocked,    \* the failures this level's goroutines may see
  applied, failed, runs, firstError,   \* runLevels' locals
  completion, \* plugins.CompletionError() is not nil
  terminal,   \* Lifecycle.terminal: nodes whose node.finished was emitted
  finished,   \* the node.finished events the observers received
  err         \* what runLevels returned

frozen  == <<snapshot, blocked>>
results == <<applied, failed, runs, completion, terminal, finished>>
vars == <<mode, cancelled, main, li, launched, gor, status, frozen, results, firstError, err>>

NoError   == "nil"
NotRun    == "not run"
Failed    == "failed"
Success   == "ok"     \* planned, applied, unchanged or destroyed
NoStatus  == ""
KeepGoing == mode = "review"

\* A node's error is written as its node; the other errors are none of them.
ASSUME ErrorsAssumption ==
  Nodes \cap {NoError, "cancelled", "completion", "level.finished"} = {}

\* executionLevels, forgetting that destroy runs in reverse.
LevelsForward == Levels

\* executionLevels.
levels ==
  IF mode = "destroy" THEN [k \in DOMAIN Levels |-> Levels[Len(Levels) + 1 - k]]
                      ELSE Levels

Init ==
  /\ mode \in Modes
  /\ cancelled = FALSE
  /\ main = "head"
  /\ li = 1
  /\ launched = 0
  /\ gor = [n \in Nodes |-> "none"]
  /\ status = [n \in Nodes |-> NoStatus]
  /\ snapshot = {} /\ blocked = {} /\ applied = {} /\ failed = {}
  /\ runs = <<>>
  /\ firstError = NoError
  /\ completion = FALSE
  /\ terminal = {} /\ finished = {}
  /\ err = NoError

\* Emit of node.finished: the first one for a node reaches the observers.
Emitted(entries) ==
  /\ finished' = finished \cup {e \in entries : e[1] \notin terminal}
  /\ terminal' = terminal \cup {e[1] : e \in entries}

\* The elements of the sequences, one sequence after another.
Flatten(ss) ==
  LET upTo[k \in 1 .. Len(ss)] == IF k = 1 THEN ss[k] ELSE upTo[k - 1] \o ss[k]
  IN  IF Len(ss) = 0 THEN <<>> ELSE upTo[Len(ss)]

\* markNotRun: an entry for every node of the levels never reached.
MarkNotRun(from) ==
  Flatten([k \in 1 .. Len(levels) - from + 1 |->
    [i \in DOMAIN levels[from + k - 1] |->
       [node |-> levels[from + k - 1][i], level |-> from + k - 1, status |-> NotRun]]])

Position(n, level) == CHOOSE i \in DOMAIN level : level[i] = n

\* The deferred sort: by level, then by name, the order inside a level.
Before(r, s) ==
  \/ r.level < s.level
  \/ /\ r.level = s.level
     /\ Position(r.node, levels[r.level]) < Position(s.node, levels[s.level])

\* sort.Slice: the p-th entry is the one that p - 1 entries go before, ties
\* in either order.
Sorted(all) ==
  LET Ahead(i) == {j \in DOMAIN all : \/ Before(all[j], all[i])
                                      \/ j < i /\ ~Before(all[i], all[j])}
  IN [p \in DOMAIN all |-> all[CHOOSE i \in DOMAIN all : Cardinality(Ahead(i)) = p - 1]]

\* runLevels returns e, the levels from `from' on never reached; the deferred
\* function emits the events still owed and sorts the report.
Return(e, from) ==
  /\ main' = "done"
  /\ err' = e
  /\ \E all \in {runs \o MarkNotRun(from)} :
       /\ runs' = Sorted(all)
       /\ Emitted({<<all[i].node, all[i].status>> : i \in DOMAIN all})
  /\ completion' \in {completion, TRUE}
  /\ UNCHANGED <<mode, cancelled, li, launched, gor, status, frozen, applied, failed, firstError>>

-----------------------------------------------------------------------------
(* The calling goroutine *)

\* A snapshot taken once, before the first level.
SnapshotOnce == snapshot

\* The outputs applied so far.
Snapshot == applied

\* The head of the loop: stop if cancelled, else freeze what the level sees.
EnterLevel ==
  /\ main = "head" /\ li <= Len(levels) /\ ~cancelled
  /\ main' = "launch"
  /\ launched' = 0
  /\ snapshot' = Snapshot
  /\ blocked' = failed
  /\ UNCHANGED <<mode, cancelled, li, gor, status, results, firstError, err>>

\* The level at which the cancellation was seen left out of the report.
StopCancelledLate ==
  /\ main = "head" /\ li <= Len(levels) /\ cancelled
  /\ Return("cancelled", li + 1)

StopCancelled ==
  /\ main = "head" /\ li <= Len(levels) /\ cancelled
  /\ Return("cancelled", li)

\* The semaphore: a goroutine occupies a slot from its start to its return.
InFlight == {n \in Nodes : gor[n] \notin {"none", "returned"}}

SlotFree == Cardinality(InFlight) < Parallelism

Launch ==
  /\ main = "launch" /\ launched < Len(levels[li])
  /\ SlotFree
  /\ launched' = launched + 1
  /\ gor' = [gor EXCEPT ![levels[li][launched + 1]] = "started"]
  /\ UNCHANGED <<mode, cancelled, main, li, status, frozen, results, firstError, err>>

\* errs, in the order of the level.
Errors == {i \in DOMAIN levels[li] : levels[li][i] \in failed}
FirstOf(S) == CHOOSE i \in S : \A j \in S : i <= j

\* The last error of the level instead of its first.
LevelErrorLast ==
  IF Errors = {} THEN NoError
  ELSE levels[li][CHOOSE i \in Errors : \A j \in Errors : j <= i]

LevelError == IF Errors = {} THEN NoError ELSE levels[li][FirstOf(Errors)]

\* An error that stops a review.
ContinueClean == LevelError = NoError

MayContinue == KeepGoing \/ LevelError = NoError

KeptError == IF firstError = NoError THEN LevelError ELSE firstError

\* wg.Wait has returned: every goroutine of the level has.
LevelDone ==
  /\ main = "launch" /\ launched = Len(levels[li])
  /\ InFlight = {}

StopCompletion ==
  /\ LevelDone /\ completion
  /\ Return("completion", li + 1)

\* The level.finished hook refuses, or its context is done.
StopLevelHook ==
  /\ LevelDone /\ ~completion
  /\ Return("level.finished", li + 1)

StopFailed ==
  /\ LevelDone /\ ~completion
  /\ ~MayContinue
  /\ Return(LevelError, li + 1)

NextLevel ==
  /\ LevelDone /\ ~completion
  /\ MayContinue
  /\ firstError' = KeptError
  /\ main' = "head"
  /\ li' = li + 1
  /\ UNCHANGED <<mode, cancelled, launched, gor, status, frozen, results, err>>

Complete ==
  /\ main = "head" /\ li > Len(levels)
  /\ Return(firstError, li)

-----------------------------------------------------------------------------
(* A node's goroutine *)

Goroutine(n, from, to) ==
  /\ gor[n] = from
  /\ gor' = [gor EXCEPT ![n] = to]

Skip(n, from) ==
  /\ Goroutine(n, from, "concluded")
  /\ status' = [status EXCEPT ![n] = NotRun]

Others == <<mode, cancelled, main, li, launched, frozen, results, firstError, err>>

\* The context and, for a review, the dependencies that have no plan.
BlockedBy(n) == KeepGoing /\ In[n] \cap blocked # {}

\* The context not looked at again once the level has begun.
MustSkipBlocked(n) == BlockedBy(n)

MustSkip(n) == cancelled \/ BlockedBy(n)

Check(n) ==
  \/ /\ ~MustSkip(n)
     /\ Goroutine(n, "started", "preparing")
     /\ UNCHANGED <<status, Others>>
  \/ /\ MustSkip(n)
     /\ Skip(n, "started")
     /\ UNCHANGED Others

\* The node.prepare hook admits the node, or refuses it.
Prepare(n) ==
  \/ Goroutine(n, "preparing", "acting") /\ UNCHANGED <<status, Others>>
  \/ Skip(n, "preparing") /\ UNCHANGED Others

\* The node's action returns.
Act(n) ==
  /\ Goroutine(n, "acting", "concluded")
  /\ status' \in {[status EXCEPT ![n] = s] : s \in {Success, Failed}}
  /\ UNCHANGED Others

Terminal(n) == status[n]

\* The goroutine's err is not nil.
Errored(n) == status[n] # Success

\* node.finished is emitted and the outcome recorded under mu; only an apply
\* hands outputs on.
Record(n) ==
  /\ Goroutine(n, "concluded", "recorded")
  /\ Emitted({<<n, Terminal(n)>>})
  /\ completion' \in {completion, TRUE}
  /\ runs' = Append(runs, [node |-> n, level |-> li, status |-> status[n]])
  /\ failed' = IF Errored(n) THEN failed \cup {n} ELSE failed
  /\ applied' = IF ~Errored(n) /\ mode = "apply" THEN applied \cup {n} ELSE applied
  /\ UNCHANGED <<mode, cancelled, main, li, launched, status, frozen, firstError, err>>

\* The slot of a skipped node never given back.
LeaveSkippedHeld(n) ==
  /\ status[n] # NotRun
  /\ Goroutine(n, "recorded", "returned")
  /\ UNCHANGED <<status, Others>>

\* The deferred functions: the semaphore slot, then wg.Done.
Leave(n) ==
  /\ Goroutine(n, "recorded", "returned")
  /\ UNCHANGED <<status, Others>>

-----------------------------------------------------------------------------

\* The user interrupts the command.
Cancel ==
  /\ ~cancelled
  /\ main # "done"
  /\ cancelled' = TRUE
  /\ UNCHANGED <<mode, main, li, launched, gor, status, frozen, results, firstError, err>>

Main == EnterLevel \/ StopCancelled \/ Launch \/ StopCompletion \/ StopLevelHook
        \/ StopFailed \/ NextLevel \/ Complete
Worker(n) == Check(n) \/ Prepare(n) \/ Act(n) \/ Record(n) \/ Leave(n)

Next == Main \/ Cancel \/ \E n \in Nodes : Worker(n)

\* The runtime schedules every goroutine that can run, and a node's action
\* returns (its subprocess ends or is killed).
Fairness == WF_vars(Main) /\ \A n \in Nodes : WF_vars(Worker(n))
Spec == Init /\ [][Next]_vars
FairSpec == Spec /\ Fairness

-----------------------------------------------------------------------------
(* Properties *)

\* The node's action has begun.
Ran(n) == gor[n] = "acting" \/ status[n] \in {Success, Failed}

\* The selected nodes that n must wait for: what it depends on, or what
\* depends on it when the command tears down.
Waits(n) == IF mode = "destroy" THEN {m \in Selected : n \in In[m]}
                                ELSE In[n] \cap Selected

\* runLevels, Destroy ("downstream first"): a node's action begins only after
\* every selected node it must wait for has ended successfully, in all four
\* commands, whatever the hooks, failures and cancellations in between.
\* Outside a review ("the next level never starts") that goes for everything
\* in an earlier level, also what the node does not depend on.
OrderRespected ==
  /\ \A n \in Selected : Ran(n) =>
       \A m \in Waits(n) : gor[m] = "returned" /\ status[m] = Success
  /\ ~KeepGoing =>
       \A k, l \in DOMAIN levels : k < l =>
         \A n \in Members(levels[l]), m \in Members(levels[k]) :
           Ran(n) => gor[m] = "returned" /\ status[m] = Success

\* The snapshot taken at the head of a level: an apply finds the outputs of
\* every selected predecessor in it, and nothing a sibling of its own level
\* produced, so what a node reads does not depend on --parallelism.
InputsVisible ==
  \A n \in Selected : mode = "apply" /\ gor[n] = "acting" =>
    /\ In[n] \cap Selected \subseteq snapshot
    /\ snapshot \cap Members(levels[li]) = {}

\* RunResult ("regardless of concurrent completion order"): on every return
\* path the report lists each selected node once, in level and name order,
\* and says "not run" of exactly the nodes whose action never began.  The
\* node.finished events, emitted by the goroutines and by the deferred
\* function, agree with it: one per node, with its status.
ReportExact ==
  main = "done" =>
    /\ [i \in DOMAIN runs |-> runs[i].node] = Flatten(levels)
    /\ \A i \in DOMAIN runs :
         /\ runs[i].node \in Members(levels[runs[i].level])
         /\ runs[i].status = (IF Ran(runs[i].node) THEN status[runs[i].node] ELSE NotRun)
    /\ finished = {<<runs[i].node, runs[i].status>> : i \in DOMAIN runs}

Unsuccessful == {i \in DOMAIN runs : runs[i].status # Success}

\* The error runLevels returns: none only if every node succeeded, and when
\* it is a node's error, that of the first unsuccessful node of the report,
\* not of whichever goroutine failed first.
ErrorTruthful ==
  main = "done" =>
    /\ err = NoError => Unsuccessful = {}
    /\ err \in Nodes => Unsuccessful # {} /\ runs[FirstOf(Unsuccessful)].node = err

\* Cancellation: a node not yet launched when the context is cancelled never
\* begins its action (one already past its check may).
CancelledStaysIdle ==
  \A n \in Selected : [](cancelled /\ gor[n] = "none" => [](~Ran(n)))

\* Every run returns: no order of failures, refusals and cancellations leaves
\* the caller waiting on the semaphore or the wait group.
Returns == <>(main = "done")

\* Plan with inspection ("continuing unrelated branches"): a review that is
\* not cut short considers every selected node, whatever failed before it.
ReviewReachesAll ==
  main = "done" /\ KeepGoing /\ err \in Nodes \cup {NoError} =>
    \A n \in Selected : gor[n] = "returned" /\ status[n] # NoStatus
=============================================================================

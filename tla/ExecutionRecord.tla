--------------------------- MODULE ExecutionRecord ---------------------------
(***************************************************************************)
(* The execution record (internal/engine/execution_journal.go) and the     *)
(* pure functions of it: which records block new work, what finish and     *)
(* finishSaved write, which nodes form the next saved frontier.            *)
(*                                                                         *)
(* Data kept: the phase and plan ID of every node, the status, the two     *)
(* timestamps whose presence the code tests (FinishedAt, RecoveryAt), the  *)
(* Preparation mark.  Timestamps, codes, messages, reviews, digests and    *)
(* plugin calls are left out.                                              *)
(***************************************************************************)
EXTENDS Naturals, FiniteSets

CONSTANTS Nodes,     \* node names of the graph
          Up,          \* Up[n]: the nodes n depends on directly (Graph.In)
          Level,       \* Level[n]: n's dependency level (Graph.Levels)
          PlanIds,     \* identifiers of retained plan bundles
          NoPlan       \* the empty PlanID

ASSUME GraphAssumption ==
  /\ Up \in [Nodes -> SUBSET Nodes]
  /\ Level \in [Nodes -> Nat]
  /\ \A n \in Nodes : \A m \in Up[n] : Level[m] < Level[n]

ASSUME PlanAssumption == NoPlan \notin PlanIds

\* "absent" marks a node outside the run's selection: it has no entry in
\* ExecutionRecord.Nodes.
Phases == {"absent", "pending", "reading", "initializing", "preparing",
           "planned", "applying", "applied", "operating", "completed",
           "failed", "indeterminate"}

Statuses == {"preparing", "waiting_for_apply", "ready_for_next_plan",
             "completed", "failed", "needs_recovery", "cancelled", "expired",
             "recovered_replan_required"}

Record == [saved     : BOOLEAN,      \* Operation = "saved_apply"
           status    : Statuses,
           finished  : BOOLEAN,      \* FinishedAt # nil
           recovered : BOOLEAN,      \* RecoveryAt # nil
           prep      : BOOLEAN,      \* Preparation # ""
           phase     : [Nodes -> Phases],
           plan      : [Nodes -> PlanIds \cup {NoPlan}]]

Selected(r) == {n \in Nodes : r.phase[n] # "absent"}

\* The phases that leave a potential mutation, or its outputs, unresolved.
Unresolved == {"initializing", "applying", "operating", "indeterminate", "applied"}

ExecutionNeedsRecovery(r) ==
  /\ ~r.recovered
  /\ r.prep \/ \E n \in Nodes : r.phase[n] \in Unresolved

\* A record that is over and blocks nothing: cleanup may delete its evidence.
Settled(r) == r.finished /\ ~ExecutionNeedsRecovery(r)

NewRecord(saved, sel) ==
  [saved |-> saved, status |-> "preparing", finished |-> FALSE,
   recovered |-> FALSE, prep |-> FALSE,
   phase |-> [n \in Nodes |-> IF n \in sel THEN "pending" ELSE "absent"],
   plan |-> [n \in Nodes |-> NoPlan]]

WithPhase(r, n, ph) == [r EXCEPT !.phase[n] = ph]

\* The transition retainPlan makes once the bundle is stored.
WithPlan(r, n, k) == [r EXCEPT !.phase[n] = "planned", !.plan[n] = k]

\* What finish writes: an unresolved phase overrides the outcome.
Finished(r, ok) ==
  IF ExecutionNeedsRecovery(r)
  THEN [r EXCEPT !.status = "needs_recovery"]
  ELSE [r EXCEPT !.status = IF ok THEN "completed" ELSE "failed",
                 !.finished = TRUE]

AllCompleted(r) == \A n \in Selected(r) : r.phase[n] = "completed"

\* Mutant: a node interrupted while it was planned stays "preparing".
FinishedSavedPreparing(r, ok) ==
  LET Some(x) == \E n \in Nodes : r.phase[n] = x IN
  CASE ExecutionNeedsRecovery(r) -> [r EXCEPT !.status = "needs_recovery"]
    [] ~ExecutionNeedsRecovery(r) /\ Some("planned") ->
         [r EXCEPT !.status = "waiting_for_apply"]
    [] OTHER -> [r EXCEPT !.status = "ready_for_next_plan"]

\* What finishSaved writes: interrupted planning goes back to pending, then
\* the phases alone decide where the execution stands.
FinishedSaved(r, ok) ==
  LET phase   == [n \in Nodes |-> IF r.phase[n] = "preparing"
                                  THEN "pending" ELSE r.phase[n]]
      Some(x) == \E n \in Nodes : phase[n] = x
      over    == /\ ~ExecutionNeedsRecovery(r)
                 /\ ~Some("planned") /\ ~Some("pending")
      status  == CASE ExecutionNeedsRecovery(r) -> "needs_recovery"
                   [] over -> IF ok THEN "completed" ELSE "failed"
                   [] ~ExecutionNeedsRecovery(r) /\ Some("planned") ->
                        "waiting_for_apply"
                   [] OTHER -> "ready_for_next_plan"
  IN [r EXCEPT !.phase = phase, !.status = status, !.finished = over]

\* Mutant: the frontier is every pending node.
FrontierPending(r) == {n \in Nodes : r.phase[n] = "pending"}

\* The nodes SavePlans may plan: pending, every selected upstream completed.
Frontier(r) ==
  {n \in Nodes : /\ r.phase[n] = "pending"
                 /\ \A u \in Up[n] : r.phase[u] \in {"absent", "completed"}}

PlannedNodes(r) == {n \in Nodes : r.phase[n] = "planned"}

\* What ApplySavedPlans writes when every planned node was applied.
AppliedSaved(r) ==
  IF AllCompleted(r)
  THEN [r EXCEPT !.status = "completed", !.finished = TRUE]
  ELSE [r EXCEPT !.status = "ready_for_next_plan"]

\* Mutant: recovery writes the status but not RecoveryAt.
RecoveredStatusOnly(r) ==
  [r EXCEPT !.status = "recovered_replan_required", !.finished = TRUE]

Recovered(r) == [r EXCEPT !.status = "recovered_replan_required",
                          !.recovered = TRUE, !.finished = TRUE]

Terminal(r, status) == [r EXCEPT !.status = status, !.finished = TRUE]

\* The bundles a record refers to.
BundlesOf(r) == {r.plan[n] : n \in Nodes} \ {NoPlan}
==============================================================================

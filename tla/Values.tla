------------------------------- MODULE Values --------------------------------
(***************************************************************************)
(* internal/engine: where the values a leaf is run with come from          *)
(* (inputs.go), the snapshots that stand in for an unreadable upstream     *)
(* (snapshot.go) and the contracts checked on concrete values              *)
(* (contracts_values.go).                                                  *)
(*                                                                         *)
(* Of a value only what these functions look at is kept: the revision of   *)
(* the state it comes from, its fact ("value", "null", or "none" where     *)
(* nothing is known of it) and whether the runtime marked it sensitive. A  *)
(* known value is taken to convert to the types asked of it.               *)
(***************************************************************************)
EXTENDS Expansion

Value(rev, fact, sens) == [rev |-> rev, fact |-> fact, sens |-> sens]
Flag(b) == IF b THEN "yes" ELSE "no"
Literal(v) == Value(0, IF v = "null" THEN "null" ELSE "value", "no")

\* Terraform keeps no null output in state: a read returns the others.
Outputs(state) == [p \in {q \in DOMAIN state : state[q].fact # "null"} |-> state[p]]

-----------------------------------------------------------------------------
(* Contracts on values *)

nodeContracts(g, n) == Get(g.contracts, contractKey(g.nodes[n]), NoPorts)

hasContracts(g, n) == nodeContracts(g, n) # NoPorts

\* EffectiveValue: "none" when the variable would refuse what it is given.
EffectiveValue(variable, fact) ==
  LET chosen == IF fact = "none" THEN variable.default ELSE fact
  IN IF chosen = "null" /\ variable.nullable = "no"
     THEN IF variable.default = "value" THEN "value" ELSE "none"
     ELSE chosen

\* The results of the conditions a port's claims put on a value.
checkPort(p, fact, sens) ==
  (IF p.type # "" THEN {IF fact = "none" THEN "deferred" ELSE "confirmed"} ELSE {})
  \cup
  (IF p.nullable = "no"
   THEN {CASE fact = "none" -> "deferred" [] fact = "null" -> "violation" [] OTHER -> "confirmed"}
   ELSE {})
  \cup
  (IF p.sensitive # ""
   THEN {CASE sens = "" -> "deferred" [] sens \notin {"", p.sensitive} -> "violation"
           [] OTHER -> "confirmed"}
   ELSE {})

\* Under warn every result is only reported.
contractPolicy(g, results, requireKnown) ==
  g.contractMode = <<"enforce">> =>
    /\ "violation" \notin results
    /\ requireKnown => "deferred" \notin results

\* complete: a promised output that is not there is unknown, not skipped.
outputContractChecks(g, n, outputs, complete) ==
  LET ports == nodeContracts(g, n).producer
      given(p) == Get(outputs, p, Value(0, "none", ""))
      sens(p) == IF Get(g.nodes[n].schema.outputs, p, FALSE) THEN "yes" ELSE given(p).sens
  IN UNION {checkPort(ports[p], given(p).fact, sens(p)) :
              p \in {q \in DOMAIN ports : complete \/ q \in DOMAIN outputs}}

validateOutputContracts(g, n, outputs) ==
  contractPolicy(g, outputContractChecks(g, n, outputs, TRUE), TRUE)

\* What the plan passes to each promised input: given, or the default.
inputContractChecks(g, n, inputs) ==
  LET ports == nodeContracts(g, n).consumer
      variables == g.nodes[n].schema.variables
      check(p) ==
        IF p \in DOMAIN variables
        THEN checkPort(ports[p],
                       EffectiveValue(variables[p], Get(inputs, p, Value(0, "none", "")).fact),
                       Flag(variables[p].sensitive))
        ELSE checkPort(ports[p], "none", "no")
  IN UNION {check(p) : p \in DOMAIN ports}

\* plan is <<planned outputs>>, or <<>> when its JSON cannot be read. Outputs
\* only apply can tell are left for later; a known contradiction stops here.
inspectContractPlan(g, n, inputs, plan) ==
  \/ ~hasContracts(g, n)
  \/ plan = <<>> /\ contractPolicy(g, {"deferred"}, TRUE)
  \/ /\ plan # <<>>
     /\ contractPolicy(g, inputContractChecks(g, n, inputs), TRUE)
     /\ contractPolicy(g, outputContractChecks(g, n, plan[1], TRUE), FALSE)

\* A null comes back only from the plan just carried out.
completePlanOutputs(g, n, outputs, plan) ==
  IF plan = <<>> \/ ~hasContracts(g, n)
  THEN outputs
  ELSE LET nulls == {p \in DOMAIN plan[1] : /\ plan[1][p].fact = "null"
                                            /\ HasOutput(g.nodes[n].schema, p)}
       IN outputs @@ [p \in nulls |-> plan[1][p]]

-----------------------------------------------------------------------------
(* Snapshots: [schema, outputs, withheld] *)

snapshotOutputAllowed(g, n, out) ==
  /\ HasOutput(g.nodes[n].schema, out) /\ ~g.nodes[n].schema.outputs[out]
  /\ out \in DOMAIN nodeContracts(g, n).producer =>
       nodeContracts(g, n).producer[out].sensitive # "yes"

\* Mutant: the declaration alone decides.
DeclaredPublic(g, n, out, output) == snapshotOutputAllowed(g, n, out)

publishable(g, n, out, output) == snapshotOutputAllowed(g, n, out) /\ output.sens = "no"

\* The file writeSnapshot leaves: <<>> when no edge consumes the leaf.
snapshotOf(g, n, outputs) ==
  LET consumed == {g.edges[i].from.name : i \in {j \in DataEdges(g) : g.edges[j].from.node = n}}
      published == {p \in consumed \cap DOMAIN outputs : publishable(g, n, p, outputs[p])}
  IN IF consumed = {}
     THEN <<>>
     ELSE <<[schema |-> 3, outputs |-> [p \in published |-> outputs[p]],
             withheld |-> consumed \ published]>>

\* A file of the first schema never checked sensitivity at run time.
readSnapshot(g, n, file) ==
  LET allowed == {p \in DOMAIN file.outputs : /\ file.schema # 1
                                              /\ snapshotOutputAllowed(g, n, p)}
      withheld == file.withheld \cup (DOMAIN file.outputs \ allowed)
  IN [file EXCEPT !.outputs = [p \in DOMAIN @ \ withheld |-> @[p]], !.withheld = withheld]

-----------------------------------------------------------------------------
(* resolveInputs *)

\* Where edge i's value is looked up, in the code's order: this run, a read
\* already made for this leaf, a live read, and only then the snapshot.
\* failing holds the edges whose live read fails.
source(g, i, acc, run, failing, cancelled) ==
  LET up == g.edges[i].from.node
      out == g.edges[i].from.name
      found(s, outputs, shared) == Parsed([source |-> s, outputs |-> outputs, shared |-> shared])
      live == Outputs(Get(run.live, up, <<>>))
      file == readSnapshot(g, up, run.snaps[up])
  IN CASE up \in DOMAIN run.applied -> found("same_run", run.applied[up], acc.shared)
       [] up \notin DOMAIN run.applied /\ up \in DOMAIN acc.shared ->
            found("live", acc.shared[up], acc.shared)
       [] up \notin DOMAIN run.applied \cup DOMAIN acc.shared /\ i \notin failing ->
            found("live", live, (up :> live) @@ acc.shared)
       [] OTHER ->
            IF \/ cancelled \/ ~g.snapshots \/ up \notin DOMAIN run.snaps
            THEN Refused
            ELSE IF ~snapshotOutputAllowed(g, up, out) \/ out \in file.withheld
            THEN Refused
            ELSE found("snapshot", file.outputs, acc.shared)

checkVarType(g, n, v, fact) ==
  LET variables == g.nodes[n].schema.variables
  IN v \in DOMAIN variables => EffectiveValue(variables[v], fact) # "none"

\* Mutant: what a snapshot holds was checked when it was written.
SnapshotTrusted(g, up, outputs, src) ==
  src = "snapshot" \/ contractPolicy(g, outputContractChecks(g, up, outputs, TRUE), TRUE)

\* A snapshot leaves out ports on purpose: their absence breaks no promise.
upstreamContracts(g, up, outputs, src) ==
  contractPolicy(g, outputContractChecks(g, up, outputs, src # "snapshot"), TRUE)

resolveEdge(g, n, i, acc, run, failing, cancelled) ==
  LET from == g.edges[i].from
      to == g.edges[i].to
  IN Then(source(g, i, acc, run, failing, cancelled), LAMBDA src :
       Accept(/\ from.name \in DOMAIN src.outputs
              /\ upstreamContracts(g, from.node, src.outputs, src.source)
              /\ checkVarType(g, n, to.name, src.outputs[from.name].fact),
              [shared |-> src.shared,
               vars |-> (to.name :> src.outputs[from.name]) @@ acc.vars,
               basis |-> acc.basis \cup {[edge |-> i, source |-> src.source,
                                          value |-> src.outputs[from.name]]}]))

\* The edges in order, then the literals, then the plugin's inputs; run is
\* what the leaf can see: [live, snaps, applied].
resolveInputsWithBasis(g, n, run, failing, cancelled) ==
  LET node == g.nodes[n]
      edges == SetToSortSeq({i \in DataEdges(g) : g.edges[i].to.node = n}, <)
      literals == [v \in DOMAIN node.vars |-> Literal(node.vars[v])]
      plugged == [v \in DOMAIN node.inputs |-> Value(0, "value", "yes")]
  IN Then(Through(LAMBDA acc, i : resolveEdge(g, n, i, acc, run, failing, cancelled),
                  Parsed([shared |-> <<>>, vars |-> <<>>, basis |-> {}]), edges), LAMBDA wired :
       Accept(/\ (DOMAIN wired.vars) \cap DOMAIN literals = {}
              /\ \A v \in DOMAIN literals : checkVarType(g, n, v, literals[v].fact)
              /\ \A v \in DOMAIN plugged :
                   /\ HasVariable(node.schema, v) /\ node.schema.variables[v].sensitive
                   /\ v \notin DOMAIN wired.vars \cup DOMAIN literals,
              [vars |-> wired.vars @@ literals @@ plugged, basis |-> wired.basis]))

-----------------------------------------------------------------------------
(* The approve level a change needs (approve.go) *)

Permits(level, action) ==
  CASE action \in {"no-op", "read"}     -> TRUE
    [] action \in {"create", "update"}  -> level \in {"safe", "all"}
    [] OTHER                            -> level = "all"

approveFor(g, n, runDefault) ==
  IF g.nodes[n].approve # "" THEN g.nodes[n].approve
  ELSE IF runDefault # "" THEN runDefault
  ELSE "safe"

notPermitted(changes, level) == {a \in changes : ~Permits(level, a)}
=============================================================================

------------------------------- MODULE Project -------------------------------
(***************************************************************************)
(* One project from its files to the values its modules run with: a        *)
(* command loads the blueprint, expands and validates the graph, and       *)
(* applies a selection of leaves; between commands the author edits the    *)
(* files. Scheduling, locking and the journal are the subjects of modules  *)
(* Scheduler, Locks and Execution: here leaves run one at a time in        *)
(* dependency order and what is followed is the data.                      *)
(***************************************************************************)
EXTENDS Values

CONSTANTS InitTrees,   \* the projects considered
          Edits(_),    \* the projects an author may turn a project into
          LegacyFiles(_), \* snapshot files an earlier version may have left
          Selections(_), \* the sets of leaves runs of a project are asked for
          RunDefault,  \* the --approve level of a run
          MaxRevision  \* bound on the applies of one leaf

VARIABLES tree,    \* the files on disk
          loaded,  \* <<>>, or what the current command loaded
          live,    \* the outputs in each leaf's Terraform state, nulls included
          snaps,   \* snapshot files by leaf
          run      \* <<>>, or the run under way

vars == <<tree, loaded, live, snaps, run>>

-----------------------------------------------------------------------------
(* Engine.Validate: the graph's problems and those of the files around it *)

ManagedDir(t, kind) == t.root \o <<<<".terragraph">>, <<kind>>>>
dataDir(t, n) == Append(ManagedDir(t, "tfdata"), n)
planPath(t, n) == Append(ManagedDir(t, "plans"), Append(n, "tfplan"))
snapshotPath(t, n) == Append(ManagedDir(t, "outputs"), Append(n, "json"))

tfVarsFileName(n) == <<"", "terragraph">> \o n \o <<"tfvars", "json">>

tfVarsPath(t, bp, g, n) ==
  IF bp.tfvars = <<<<"module">>>>
  THEN Append(g.nodes[n].dir, tfVarsFileName(n))
  ELSE Append(ManagedDir(t, "vars"), n \o <<"tfvars", "json">>)

pathCollisions(t, bp, g) ==
  LET paths(n) == <<dataDir(t, n), planPath(t, n), tfVarsPath(t, bp, g, n)>>
                    \o (IF g.snapshots THEN <<snapshotPath(t, n)>> ELSE <<>>)
      verdicts(p) == {Same(paths(p[1])[i], paths(p[2])[i]) : i \in DOMAIN paths(p[1])}
      pairs == {p \in (DOMAIN g.nodes) \X (DOMAIN g.nodes) : p[1] # p[2]}
  IN {Problem("path_conflict", p, TRUE) : p \in {q \in pairs : "same" \in verdicts(q)}}
     \cup
     {Problem("path_unverified", p, FALSE) :
        p \in {q \in pairs : "unknown" \in verdicts(q) /\ "same" \notin verdicts(q)}}

\* left holds the <<directory, file>> pairs an earlier run left behind.
tfVarsOrphans(t, bp, g) ==
  {Problem("tfvars_orphan", f, FALSE) :
     f \in {e \in t.left : /\ bp.tfvars = <<<<"module">>>>
                           /\ Len(e[2]) > 4 /\ IsPrefix(<<"", "terragraph">>, e[2])
                           /\ IsSuffix(<<"tfvars", "json">>, e[2])
                           /\ \E n \in DOMAIN g.nodes : g.nodes[n].dir = e[1]
                           /\ \A n \in DOMAIN g.nodes :
                                g.nodes[n].dir = e[1] => e[2] # tfVarsFileName(n)}}

\* A relative path is claimed under both directories it could be meant from.
stateOrphans(t, g) ==
  LET explicit == {g.nodes[n].backend["path"] : n \in {m \in DOMAIN g.nodes :
                                                        "path" \in DOMAIN g.nodes[m].backend}}
      claimed == {p.path : p \in {q \in explicit : q.abs}}
                   \cup {Join(t.root, p.path) : p \in {q \in explicit : ~q.abs}}
                   \cup {Join(g.nodes[n].dir, g.nodes[n].backend["path"].path) :
                           n \in {m \in DOMAIN g.nodes : /\ "path" \in DOMAIN g.nodes[m].backend
                                                         /\ ~g.nodes[m].backend["path"].abs}}
  IN {Problem("state_orphan", f, FALSE) :
        f \in {e \in t.left : /\ e[1] = ManagedDir(t, "state") /\ Last(e[2]) = "tfstate"
                              /\ Append(e[1], e[2]) \notin claimed}}

runtimeFor(bp, g, n) ==
  CASE g.nodes[n].runtime # <<>> -> g.nodes[n].runtime[1].binary
    [] g.nodes[n].runtime = <<>> /\ DefaultRuntime(bp) # <<>> -> DefaultRuntime(bp)[1].binary
    [] OTHER -> "terraform"

runtimeConflicts(bp, g) ==
  {Problem("runtime_conflict", <<g.nodes[n].dir>>, FALSE) :
     n \in {m \in DOMAIN g.nodes :
              \E o \in DOMAIN g.nodes : /\ g.nodes[o].dir = g.nodes[m].dir
                                        /\ runtimeFor(bp, g, o) # runtimeFor(bp, g, m)}}

engineValidate(t, bp, g) ==
  Validate(g) \cup pathCollisions(t, bp, g) \cup tfVarsOrphans(t, bp, g)
    \cup stateOrphans(t, g) \cup runtimeConflicts(bp, g)

\* What load and checkValidate leave a command with; bp and g are options.
load(t) ==
  LET checked(bp, g) ==
        [bp |-> bp, g |-> g,
         ok |-> g # Refused /\ \A p \in engineValidate(t, bp[1], g[1]) : ~IsError(p)]
      built(bp) == checked(bp, Then(bp, LAMBDA b : Build(t, b, t.root, "")))
  IN built(LoadPath(Get(t.files, t.root, <<>>), t.root))

-----------------------------------------------------------------------------
Init ==
  /\ tree \in InitTrees
  /\ loaded = <<>>
  /\ live = <<>>
  /\ snaps \in LegacyFiles(tree)
  /\ run = <<>>

Load ==
  /\ loaded = <<>>
  /\ loaded' = <<load(tree)>>
  /\ UNCHANGED <<tree, live, snaps, run>>

Edit ==
  /\ run = <<>> /\ loaded # <<>>
  /\ tree' \in Edits(tree)
  /\ loaded' = <<>>
  /\ UNCHANGED <<live, snaps, run>>

G == loaded[1].g[1]

Begin ==
  /\ run = <<>> /\ loaded # <<>>
  /\ loaded[1].ok
  /\ \E todo \in Selections(tree) :
       run' = <<[todo |-> todo, applied |-> <<>>, cur |-> <<>>]>>
  /\ UNCHANGED <<tree, loaded, live, snaps>>

Current == run # <<>> /\ run[1].cur # <<>>
cur == run[1].cur[1]

\* A leaf's upstreams among the selected have all finished: its level is up.
\* A refusal ends the run.
Resolve(n) ==
  /\ run # <<>> /\ run[1].cur = <<>>
  /\ n \in run[1].todo
  /\ \A m \in run[1].todo : n \notin Downstream(Arcs(G), m)
  /\ \E failing \in SUBSET {i \in DataEdges(G) : G.edges[i].to.node = n}, cancelled \in BOOLEAN :
       run' = Then(resolveInputsWithBasis(G, n, [live |-> live, snaps |-> snaps,
                                                 applied |-> run[1].applied], failing, cancelled),
                   LAMBDA inputs :
                     <<[run[1] EXCEPT !.cur =
                          <<[node |-> n, phase |-> "resolved", vars |-> inputs.vars,
                             basis |-> inputs.basis, after |-> <<>>, plan |-> <<>>]>>]>>)
  /\ UNCHANGED <<tree, loaded, live, snaps>>

Rev(n) == IF n \in DOMAIN live THEN Max({live[n][p].rev : p \in DOMAIN live[n]} \cup {0}) ELSE 0

\* What a plan may lead to: the next revision of every output, or, when it
\* reports no change, the state as it is.
Afters(n) ==
  LET schema == G.nodes[n].schema
      now == Get(live, n, <<>>)
  IN {[changed |-> TRUE,
       outputs |-> [p \in DOMAIN schema.outputs |->
                      Value(Rev(n) + 1, facts[p], Flag(schema.outputs[p]))]] :
        facts \in {f \in [DOMAIN schema.outputs -> {"value", "null"}] : Rev(n) < MaxRevision}}
     \cup (IF DOMAIN now = DOMAIN schema.outputs
           THEN {[changed |-> FALSE, outputs |-> now]} ELSE {})

\* The plan and what is checked of it before anything is changed: contracts,
\* then the approve level. An unchanged leaf goes straight to its outputs.
Plan ==
  /\ Current /\ cur.phase = "resolved"
  /\ \E after \in Afters(cur.node), readable \in BOOLEAN, action \in {"create", "delete"} :
       \E known \in SUBSET DOMAIN after.outputs :
         LET plan == IF readable
                     THEN <<[p \in DOMAIN after.outputs |->
                               IF p \in known THEN after.outputs[p]
                               ELSE [after.outputs[p] EXCEPT !.fact = "none"]]>>
                     ELSE <<>>
             passed == /\ inspectContractPlan(G, cur.node, cur.vars, plan)
                       /\ after.changed =>
                            notPermitted({action}, approveFor(G, cur.node, RunDefault)) = {}
         IN run' = IF passed
                   THEN <<[run[1] EXCEPT !.cur[1].phase = IF after.changed THEN "planned" ELSE "applied",
                                         !.cur[1].after = after.outputs,
                                         !.cur[1].plan = plan]>>
                   ELSE <<>>
  /\ UNCHANGED <<tree, loaded, live, snaps>>

\* A failed apply may have changed the state too.
ApplyPlan ==
  /\ Current /\ cur.phase = "planned"
  /\ live' = (cur.node :> cur.after) @@ live
  /\ run' \in {<<[run[1] EXCEPT !.cur[1].phase = "applied"]>>, <<>>}
  /\ UNCHANGED <<tree, loaded, snaps>>

Completed == completePlanOutputs(G, cur.node, Outputs(Get(live, cur.node, <<>>)), cur.plan)

Finished == <<[run[1] EXCEPT !.todo = @ \ {cur.node}, !.cur = <<>>,
                             !.applied = (cur.node :> Completed) @@ @]>>

\* The outputs are read back and checked; a snapshot is removed before it is
\* written again.
Publish ==
  /\ Current /\ cur.phase = "applied"
  /\ LET ok == validateOutputContracts(G, cur.node, Completed)
         file == snapshotOf(G, cur.node, Completed)
     IN /\ snaps' = IF ok /\ G.snapshots
                    THEN [n \in DOMAIN snaps \ {cur.node} |-> snaps[n]] ELSE snaps
        /\ run' = CASE ~ok                          -> <<>>
                    [] ok /\ (~G.snapshots \/ file = <<>>) -> Finished
                    [] OTHER -> <<[run[1] EXCEPT !.cur[1].phase = "writing"]>>
  /\ UNCHANGED <<tree, loaded, live>>

WriteSnapshot ==
  /\ Current /\ cur.phase = "writing"
  /\ snaps' = (cur.node :> snapshotOf(G, cur.node, Completed)[1]) @@ snaps
  /\ run' = Finished
  /\ UNCHANGED <<tree, loaded, live>>

\* The run ends: every leaf is done, a read or a write failed, the operator
\* declined, or the process died.
Stop ==
  /\ run # <<>>
  /\ run' = <<>>
  /\ UNCHANGED <<tree, loaded, live, snaps>>

Next ==
  \/ Load \/ Edit \/ Begin \/ Plan \/ ApplyPlan \/ Publish \/ WriteSnapshot \/ Stop
  \/ \E n \in (IF run = <<>> THEN {} ELSE DOMAIN G.nodes) : Resolve(n)

Spec == Init /\ [][Next]_vars

-----------------------------------------------------------------------------
(* Properties of what is loaded, each against a reading of the files that  *)
(* does not follow the code's passes                                       *)

\* The files as one collection of blocks, in no particular order.
WellFormed(files, base) ==
  LET bs == FlattenSeq([i \in DOMAIN files |->
                          IF files[i].kind = "hcl" THEN files[i].blocks ELSE <<>>])
      of(types) == {i \in DOMAIN bs : bs[i].type \in types}
      names(type) == {bs[i].name : i \in of({type})}
      known(ref) == ref.node \in names(ref.entity)
      runtimes(decls) == {b.runtime : b \in decls} \ {<<>>}
      inner(i) == {b \in Range(bs[i].blocks) : b.type \in {"node", "use"}}
      owner(i) == IF bs[i].source.form = "local" THEN <<"local", Join(base, bs[i].source.path)>>
                                                 ELSE <<"remote", bs[i].source.path>>
      ports(i) == {<<owner(i), p>> : p \in Names(bs[i].ports)}
      alone(b) == IF b.type = "group" THEN parseGroupBlock(b, base)
                  ELSE parseBlock(EmptyBlueprint, b, base)
  IN /\ \E i \in DOMAIN files : files[i].kind = "hcl"
     /\ \A i \in DOMAIN files : files[i].kind # "broken"
     /\ \A i \in DOMAIN bs : alone(bs[i]) # Refused
     /\ \A i, j \in DOMAIN bs :
          i # j /\ bs[i].type = bs[j].type =>
            /\ bs[i].type \notin Singletons
            /\ bs[i].type \in {"node", "use", "group", "runtime", "plugin"} => bs[i].name # bs[j].name
            /\ bs[i].type \in {"producer", "consumer"} => ports(i) \cap ports(j) = {}
            /\ bs[i].type = "runtime" => ~(bs[i].default /\ bs[j].default)
     /\ \A i \in of({"edge"}) : \A e \in Range(parseEdgeBlock(bs[i])[1]) : known(e.from) /\ known(e.to)
     /\ \A ref \in runtimes({bs[i] : i \in of({"node", "use"})})
                    \cup UNION {runtimes(inner(i)) : i \in of({"group"})} :
          ref[1][2] \in names("runtime")
     /\ \A i \in of({"execution"}) : bs[i].bucket # "" =>
          \E j \in of({"lock"}) : LET lock == bs[j].backends[1]
                                  IN ~(bs[i].bucket = lock.bucket /\ IsPrefix(bs[i].prefix, lock.key))

\* LoadPath accepts a directory exactly when its blocks are well formed
\* taken together: neither the split into files nor the order of the blocks
\* decides, though parsing goes file by file and block by block.
ParseExact ==
  loaded # <<>> /\ run = <<>> =>
    (loaded[1].bp # Refused <=> WellFormed(Get(tree.files, tree.root, <<>>), tree.root))

\* Every scope the files describe: the root and, below it, each use of a
\* group, with the declarations that lead to it.
RECURSIVE Instances(_, _, _, _, _, _)
Instances(t, bp, dir, ns, chain, export) ==
  LET inner(u, d, l) ==
        Instances(t, [l.bp EXCEPT !.nodes = l.def.nodes, !.edges = l.def.edges, !.uses = l.def.uses],
                  d, Append(ns, u.name), Append(chain, [bp |-> bp, decl |-> u]), l.def.export)
      at(u) == Join(dir, u.source.path)
  IN {[ns |-> ns, bp |-> bp, dir |-> dir, chain |-> chain, export |-> export]}
       \cup UNION {inner(u, at(u), loadGroupDef(t, at(u), u.group)[1]) : u \in Range(bp.uses)}

Scopes == Instances(tree, loaded[1].bp[1], tree.root, <<>>, <<>>, NoExport)

Leaves(scope, ref) ==
  LET n == Append(scope.ns, ref.node)
  IN IF ref.entity = "use" THEN {m \in DOMAIN G.nodes : IsStrictPrefix(n, m)} ELSE {n}

\* A run changes neither the files nor what was loaded from them.
Loaded == loaded # <<>> /\ run = <<>> /\ loaded[1].ok

\* An edge between two names orders everything behind the first before
\* everything behind the second, however deep the groups: rewriteEdge only
\* joins the sinks of one to the roots of the other.
OrderingKept ==
  Loaded => \A scope \in Scopes : \A e \in Range(scope.bp.edges) :
              ~IsDataEdge(e) => \A x \in Leaves(scope, e.from), y \in Leaves(scope, e.to) :
                                  y \in Downstream(Arcs(G), x)

\* The nearest declaration of a chain, innermost last, that says something.
Nearest(chain, Says(_)) ==
  LET said == {i \in DOMAIN chain : Says(chain[i].decl)}
  IN IF said = {} THEN <<>> ELSE <<chain[Max(said)]>>

\* What build passes down through its scopes is what the files say when each
\* leaf's chain of declarations is read from the inside out: the runtime
\* (named where it is declared), the approve level, each environment and
\* backend entry, the key rule ({} stops it); the schema is the one the
\* leaf's own runtime reads; and vendoring sees the same leaves.
SettingsResolved ==
  Loaded =>
    /\ sourceNodes(tree, loaded[1].bp[1], tree.root, <<>>, <<>>) = Parsed(DOMAIN G.nodes)
    /\ \A scope \in Scopes : \A n \in Range(scope.bp.nodes) :
         LET leaf == G.nodes[Append(scope.ns, n.name)]
             chain == Append(scope.chain, [bp |-> scope.bp, decl |-> n])
             runtime == Nearest(chain, LAMBDA d : d.runtime # "")
             approve == Nearest(chain, LAMBDA d : d.approve # "")
             stop == Max({0} \cup {i \in DOMAIN chain : chain[i].decl.address = <<<<>>>>})
             rules == {i \in DOMAIN chain : i > stop /\ chain[i].decl.address # <<>>}
             binary == IF runtime # <<>>
                       THEN Named(runtime[1].bp.runtimes, runtime[1].decl.runtime).binary
                       ELSE runtimeFor(loaded[1].bp[1], G, leaf.name)
             entry(f, k) == Nearest(chain, LAMBDA d : k \in DOMAIN d[f])[1].decl[f][k]
             keys(f) == UNION {DOMAIN chain[i].decl[f] : i \in DOMAIN chain}
         IN /\ runtimeFor(loaded[1].bp[1], G, leaf.name) = binary
            /\ leaf.schema = tree.modules[leaf.dir][FileModeForBinary(binary)]
            /\ leaf.approve = IF approve = <<>> THEN "" ELSE approve[1].decl.approve
            /\ leaf.env = [k \in keys("env") |-> entry("env", k)]
            /\ \A k \in keys("backend") : leaf.backend[k] = entry("backend", k)
            /\ leaf.address = <<>> <=> stop = 0 /\ rules = {}
            /\ leaf.address # <<>> =>
                 leaf.address[1] = [k \in UNION {DOMAIN chain[i].decl.address[1] : i \in rules} |->
                                      chain[Max({i \in rules : k \in DOMAIN chain[i].decl.address[1]})]
                                        .decl.address[1][k]]

\* The leaf ports a port of a scope stands for, through exports.
RECURSIVE PortsOf(_, _, _)
PortsOf(scopes, scope, ref) ==
  LET inner == CHOOSE s \in scopes : s.ns = Append(scope.ns, ref.node)
      refs == IF ref.kind = "output"
              THEN {Named(inner.export.outputs, ref.name).from}
              ELSE Range(Named(inner.export.inputs, ref.name).to)
  IN IF ref.entity = "node"
     THEN {<<Append(scope.ns, ref.node), ref.name>>}
     ELSE UNION {PortsOf(scopes, inner, r) : r \in refs}

\* The data edges are the declared ones taken through every export; a leaf's
\* literals are its own and those its enclosing uses set, whichever instance
\* of the group it belongs to; and no input has two suppliers.
SuppliedBy(scopes) ==
  LET port(ref) == <<ref.node, ref.name>>
      wires == UNION {UNION {PortsOf(scopes, s, e.from) \X PortsOf(scopes, s, e.to) :
                               e \in {d \in Range(s.bp.edges) : IsDataEdge(d)}} : s \in scopes}
      input(u, k) == [entity |-> "use", node |-> u.name, kind |-> "input", name |-> k]
      own == UNION {UNION {{<<<<Append(s.ns, n.name), k>>, n.vars[k]>> : k \in DOMAIN n.vars} :
                             n \in Range(s.bp.nodes)} : s \in scopes}
      given == UNION {UNION {UNION {{<<p, u.vars[k]>> : p \in PortsOf(scopes, s, input(u, k))} :
                                      k \in DOMAIN u.vars} : u \in Range(s.bp.uses)} : s \in scopes}
      plugged == UNION {{<<n, k>> : k \in DOMAIN G.nodes[n].inputs} : n \in DOMAIN G.nodes}
      suppliers(p) == {w \in wires : w[2] = p} \cup {l \in own \cup given : l[1] = p}
  IN /\ wires = {<<port(G.edges[i].from), port(G.edges[i].to)>> : i \in DataEdges(G)}
     /\ own \cup given = UNION {{<<<<n, k>>, G.nodes[n].vars[k]>> : k \in DOMAIN G.nodes[n].vars} :
                                n \in DOMAIN G.nodes}
     /\ \A p \in {w[2] : w \in wires} \cup {l[1] : l \in own \cup given} \cup plugged :
          Cardinality(suppliers(p)) + (IF p \in plugged THEN 1 ELSE 0) = 1

\* An accepted graph carries each value exactly where the files send it.
SuppliersExact == Loaded => SuppliedBy(Scopes)

\* No two leaves of an accepted graph share a state address that is known
\* before Terraform runs, none is the graph lock's object, and no file kept
\* for one is kept for another; a key or a path terragraph generates is the
\* leaf's own even before validation.
StateSeparate ==
  LET nodes == G.nodes
      pairs == {p \in (DOMAIN nodes) \X (DOMAIN nodes) : p[1] # p[2]}
      local(n) == localStatePath(nodes[n])
      s3(n) == s3Address(nodes[n])
      declared(k) == \E s \in Scopes : \/ \E l \in Range(s.chain) : k \in DOMAIN l.decl.backend
                                       \/ \E d \in Range(s.bp.nodes) : k \in DOMAIN d.backend
      generated(n, k) == k \in DOMAIN nodes[n].backend /\ ~declared(k)
  IN /\ loaded # <<>> /\ run = <<>> /\ loaded[1].g # Refused =>
          \A p \in pairs, k \in {"key", "path"} :
             generated(p[1], k) /\ generated(p[2], k) =>
               nodes[p[1]].backend[k] # nodes[p[2]].backend[k]
     /\ Loaded =>
          /\ \A p \in pairs :
               /\ local(p[1]) # <<>> /\ local(p[2]) # <<>> => Same(local(p[1])[1], local(p[2])[1]) # "same"
               /\ S3Known(s3(p[1])) => s3(p[1]) # s3(p[2])
               /\ Same(dataDir(tree, p[1]), dataDir(tree, p[2])) # "same"
          /\ G.lock # <<>> => \A n \in DOMAIN nodes : S3Known(s3(n)) => s3(n) # LockAddress(G.lock[1])

-----------------------------------------------------------------------------
(* Properties of a run *)

\* A snapshot never holds, and a leaf never receives from one, a value that
\* was sensitive when it was produced or is declared sensitive now, whatever
\* was edited in between and whichever version wrote the file.
PublicOnly ==
  /\ \A n \in DOMAIN snaps : snaps[n].schema = 3 =>
       \A p \in DOMAIN snaps[n].outputs : snaps[n].outputs[p].sens = "no"
  /\ Current => \A b \in cur.basis :
       b.source = "snapshot" =>
         LET from == G.edges[b.edge].from
         IN b.value.sens = "no" /\ snapshotOutputAllowed(G, from.node, from.name)

\* When both ends of an edge are promised and the promises are enforced, the
\* static checks suffice: what an edge delivers never contradicts the
\* consumer's promise, even if it was stored before the promise was made.
ContractsAgree ==
  Current /\ G.contractMode = <<"enforce">> =>
    \A b \in cur.basis :
      LET e == G.edges[b.edge]
          claims == Promised(G, e)
          variable == G.nodes[cur.node].schema.variables[e.to.name]
      IN claims # <<>> =>
           "violation" \notin checkPort(claims[2], EffectiveValue(variable, b.value.fact),
                                       Flag(variable.sensitive))

\* inputs.go: "A successful upstream read is shared across edges so one node
\* never mixes state revisions."
OneRevision ==
  Current => \A b, c \in cur.basis :
    G.edges[b.edge].from.node = G.edges[c.edge].from.node => b.value.rev = c.value.rev
=============================================================================

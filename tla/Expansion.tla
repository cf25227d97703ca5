------------------------------ MODULE Expansion ------------------------------
(***************************************************************************)
(* internal/graph: Build, which expands the groups a blueprint uses into   *)
(* one flat graph of leaves, resolving every inherited setting, export and *)
(* edge on the way.                                                        *)
(*                                                                         *)
(* A tree is what Build reads from disk: files by directory, the schema    *)
(* module.Inspect would return by directory and file mode, and the         *)
(* entries below vendor directories. A scope is what build is called with: *)
(* the directory, the instance prefix and the ambient settings. A resolve  *)
(* context carries the stack of groups being resolved, the schema cache    *)
(* and `heap`, the vars maps by owner: cached group definitions are shared *)
(* by every instance, so who owns a map matters. Operators that may fail   *)
(* return Refused or Parsed(value).                                        *)
(***************************************************************************)
EXTENDS Validation

qualifyName(ns, name) == Append(ns, name)

FileModeForBinary(binary) ==
  CASE binary = "terraform" -> "terraform"
    [] binary = "tofu"      -> "tofu"
    [] OTHER                -> "unknown"

\* {} stops inherited generation; otherwise the entries merge.
mergeBackendAddress(base, override) ==
  IF override = <<>> THEN base
  ELSE IF override[1] = <<>> THEN override
  ELSE <<mergeEnv(IF base = <<>> THEN <<>> ELSE base[1], override[1])>>

-----------------------------------------------------------------------------
(* Module directories *)

\* package is <<>> for a legacy flat copy and <<subdir>> for a package whose
\* metadata names the directory to run; a subdir that is not inside the
\* package, or metadata that does not read, is <<Refused>>.
vendoredModuleDir(dir, entry) ==
  CASE entry.package = <<>>        -> Parsed(dir)
    [] entry.package = <<Refused>> -> Refused
    [] OTHER                       -> Parsed(dir \o entry.package[1])

legacyGroupSourceDir(tree, scopeDir, vendorDir, name) ==
  LET previous == scopeDir \o <<<<"vendor">>, <<name>>>>
  IN IF previous \in DOMAIN tree.vendored THEN previous ELSE scopeDir \o <<<<vendorDir>>, <<name>>>>

remoteModuleDir(tree, rootVendor, scopeDir, vendorDir, name, localName) ==
  LET managed == Append(rootVendor, name)
      dir == IF managed \in DOMAIN tree.vendored \/ Len(name) = 1
             THEN managed
             ELSE legacyGroupSourceDir(tree, scopeDir, vendorDir, localName)
  IN IF dir \in DOMAIN tree.vendored /\ tree.vendored[dir].kind = "dir"
     THEN vendoredModuleDir(dir, tree.vendored[dir])
     ELSE Refused

\* fillBackendAddress: a key per leaf where nothing sets one explicitly;
\* attributes is <<>> when the module's backend block could not be read.
fillBackendAddress(name, backend, address, schema) ==
  LET rule == address[1]
      file == Get(rule, "s3_key_name", StateFile)
  IN IF \/ address \in {<<>>, <<<<>>>>}
        \/ schema.backend # "s3"
        \/ "key" \in DOMAIN backend \cup DOMAIN schema.config
        \/ schema.attributes # <<>> /\ "key" \in schema.attributes[1]
     THEN Parsed(backend)
     ELSE IF schema.attributes = <<>>
     THEN Refused
     ELSE Parsed(mergeEnv(backend, "key" :> Get(rule, "s3_key_prefix", <<>>) \o <<name, file>>))

fillLocalBackendPath(backend, schema, rootDir, name) ==
  IF schema.backend # "local" \/ "path" \in DOMAIN backend
  THEN backend
  ELSE mergeEnv(backend, "path" :> [abs |-> TRUE,
                                    path |-> rootDir \o <<<<".terragraph">>, <<"state">>,
                                                          Append(name, "tfstate")>>])

-----------------------------------------------------------------------------
(* Settings and leaves *)

inheritApprove(sc, d) == IF d.approve = "" THEN sc.approve ELSE d.approve

\* Mutant: the outermost runtime wins.
OuterRuntime(bp, sc, d) ==
  IF sc.runtime # <<>> \/ d.runtime = "" THEN sc.runtime
  ELSE <<CHOOSE rt \in RuntimeByName(bp, d.runtime) : TRUE>>

\* A name is looked up among the runtimes of the files that mention it.
inheritRuntime(bp, sc, d) ==
  IF d.runtime = "" THEN sc.runtime
  ELSE <<CHOOSE rt \in RuntimeByName(bp, d.runtime) : TRUE>>

\* What a node or a use makes of the settings around it; the nearest
\* declaration wins, entry by entry for maps.
inherit(bp, sc, d) ==
  [dir |-> Join(sc.dir, d.source.path),
   ns |-> qualifyName(sc.ns, d.name),
   runtime |-> inheritRuntime(bp, sc, d),
   env |-> mergeEnv(sc.env, d.env),
   backend |-> mergeEnv(sc.backend, d.backend),
   address |-> mergeBackendAddress(sc.address, d.address),
   approve |-> inheritApprove(sc, d)]

inspect(tree, rc, dir, mode) ==
  LET key == <<dir, mode>>
      read == dir \in DOMAIN tree.modules /\ mode \in DOMAIN tree.modules[dir]
  IN CASE key \in DOMAIN rc.schemas -> Parsed([schema |-> rc.schemas[key], rc |-> rc])
       [] key \notin DOMAIN rc.schemas /\ read ->
            Parsed([schema |-> tree.modules[dir][mode],
                    rc |-> [rc EXCEPT !.schemas = @ @@ (key :> tree.modules[dir][mode])]])
       [] OTHER -> Refused

\* Mutant: the definition's map is used as it is.
SharedDefinition(ns, n) == <<n.name>>

\* The owner of a leaf's vars map: the leaf's own copy, not the definition's.
cloneNode(ns, n) == qualifyName(ns, n.name)

\* s is what n inherits in its scope.
buildNode(tree, root, bp, sc, acc, n, s) ==
  LET binary == IF s.runtime = <<>> THEN root.fallback ELSE s.runtime[1].binary
      owner == cloneNode(sc.ns, n)
      node(dir, schema, backend) ==
        [name |-> s.ns, source |-> n.source, dir |-> dir, schema |-> schema,
         runtime |-> s.runtime, env |-> s.env, approve |-> s.approve,
         address |-> s.address, owner |-> owner, vars |-> n.vars,
         inputs |-> n.inputs, credentials |-> n.credentials,
         backend |-> fillLocalBackendPath(backend, schema, root.dir, s.ns)]
  IN Then(IF IsRemote(n.source)
          THEN remoteModuleDir(tree, root.vendor, sc.dir, VendorDirectory(bp), s.ns, n.name)
          ELSE Parsed(s.dir), LAMBDA dir :
     Then(inspect(tree, acc.rc, dir, FileModeForBinary(binary)), LAMBDA seen :
     Then(fillBackendAddress(s.ns, s.backend, s.address, seen.schema), LAMBDA backend :
       Parsed([acc EXCEPT !.g.nodes = (s.ns :> node(dir, seen.schema, backend)) @@ @,
                          !.rc = [seen.rc EXCEPT !.heap = @ @@ (owner :> n.vars)]]))))

\* The vars a leaf is left with once the maps are settled.
withVars(g, heap) ==
  [g EXCEPT !.nodes = [n \in DOMAIN g.nodes |->
                         [g.nodes[n] EXCEPT !.vars = heap[g.nodes[n].owner]]]]

-----------------------------------------------------------------------------
(* Groups. A use's info is its export resolved to leaf ports, and the      *)
(* leaves nothing inside the group precedes (roots) or follows (sinks).    *)

push(stack, key) == IF key \in Range(stack) THEN Refused ELSE Parsed(Append(stack, key))

parseGroupDir(tree, dir) ==
  IF dir \notin DOMAIN tree.files
  THEN Refused
  ELSE Then(parseDir(tree.files[dir], dir), LAMBDA bp : Accept(bp.plugins = <<>>, bp))

loadGroupDef(tree, dir, group) ==
  Then(parseGroupDir(tree, dir), LAMBDA bp :
    Accept(group \in Names(bp.groups), [def |-> Named(bp.groups, group), bp |-> bp]))

\* The same promise made twice is one promise; two different ones are refused.
sameClaims(a, b) == a = b

mergeContracts(base, add) ==
  LET ports(c, key, role) == IF key \in DOMAIN c THEN c[key][role] ELSE <<>>
      merged(key, role) == ports(base, key, role) @@ ports(add, key, role)
  IN IF \E key \in DOMAIN base \cap DOMAIN add, role \in {"producer", "consumer"} :
          \E p \in DOMAIN base[key][role] \cap DOMAIN add[key][role] :
             ~sameClaims(base[key][role][p], add[key][role][p])
     THEN Refused
     ELSE Parsed([key \in DOMAIN base \cup DOMAIN add |->
                    [role \in {"producer", "consumer"} |-> merged(key, role)]])

Bare(n) == [entity |-> "node", node |-> n, kind |-> "", name |-> ""]

\* A port of this scope, as the leaf ports it stands for.
resolveExportEndpoint(ref, uses, ns) ==
  LET export == uses[ref.node].export
      ports == IF ref.kind = "output" THEN export.outputs ELSE export.inputs
  IN CASE ref.entity # "use" -> Parsed(<<[ref EXCEPT !.node = qualifyName(ns, ref.node)]>>)
       [] ref.entity = "use" /\ ref.name \in Names(ports) ->
            Parsed(IF ref.kind = "output" THEN <<Named(ports, ref.name).from>>
                                          ELSE Named(ports, ref.name).to)
       [] OTHER -> Refused

resolveExport(export, uses, ns) ==
  LET input(in) ==
        Then(ParseAll(LAMBDA ref : resolveExportEndpoint(ref, uses, ns), in.to), LAMBDA to :
          Parsed([name |-> in.name, to |-> FlattenSeq(to)]))
      output(out) ==
        Then(resolveExportEndpoint(out.from, uses, ns), LAMBDA from :
          Parsed([name |-> out.name, from |-> from[1]]))
  IN Then(ParseAll(input, export.inputs), LAMBDA ins :
     Then(ParseAll(output, export.outputs), LAMBDA outs :
       Parsed([inputs |-> ins, outputs |-> outs])))

\* Every exported port exists on the leaf it maps to.
synthesizeSchema(export, g) ==
  /\ \A i \in DOMAIN export.inputs : \A ref \in Range(export.inputs[i].to) :
        HasVariable(g.nodes[ref.node].schema, ref.name)
  /\ \A i \in DOMAIN export.outputs :
        HasOutput(g.nodes[export.outputs[i].from.node].schema, export.outputs[i].from.name)

\* Mutant: the two sides taken for each other.
SwappedEndpoint(ref, uses, ns, wantRoots) ==
  IF ref.entity = "use" /\ ~IsPort(ref)
  THEN Parsed(SetToSeq({Bare(n) : n \in IF wantRoots THEN uses[ref.node].sinks
                                                     ELSE uses[ref.node].roots}))
  ELSE resolveExportEndpoint(ref, uses, ns)

\* A bare reference to a use is its roots on the to side, its sinks on the
\* from side.
rewriteEndpoint(ref, uses, ns, wantRoots) ==
  IF ref.entity = "use" /\ ~IsPort(ref)
  THEN Parsed(SetToSeq({Bare(n) : n \in IF wantRoots THEN uses[ref.node].roots
                                                     ELSE uses[ref.node].sinks}))
  ELSE resolveExportEndpoint(ref, uses, ns)

rewriteEdge(e, uses, ns) ==
  Then(rewriteEndpoint(e.from, uses, ns, FALSE), LAMBDA f :
  Then(rewriteEndpoint(e.to, uses, ns, TRUE), LAMBDA t :
    Accept(~(IsDataEdge(e) /\ Len(f) > 1 /\ Len(t) > 1),
           [k \in 1..(Len(f) * Len(t)) |->
              [from |-> f[((k - 1) \div Len(t)) + 1], to |-> t[((k - 1) % Len(t)) + 1]]])))

\* Each value lands on every leaf its export names, on a slot nothing else
\* has set; slots are <<export input, position among its targets>>.
applyUseVars(vars, export, nodes, heap) ==
  LET to(key) == Named(export.inputs, key).to
      slots == UNION {{<<key, i>> : i \in DOMAIN to(key)} : key \in DOMAIN vars}
      port(s) == to(s[1])[s[2]]
      cell(s) == <<nodes[port(s).node].owner, port(s).name>>
      set(owner) == {s \in slots : cell(s)[1] = owner}
      new(owner) == [v \in {cell(s)[2] : s \in set(owner)} |->
                       vars[(CHOOSE s \in set(owner) : cell(s)[2] = v)[1]]]
  IN IF ~(DOMAIN vars \subseteq Names(export.inputs))
     THEN Refused
     ELSE IF \E s \in slots : \/ cell(s)[2] \in DOMAIN heap[cell(s)[1]]
                              \/ \E t \in slots : t # s /\ cell(t) = cell(s)
     THEN Refused
     ELSE Parsed([owner \in DOMAIN heap |-> new(owner) @@ heap[owner]])

Roots(g) == {n \in DOMAIN g.nodes : \A a \in Arcs(g) : a[2] # n}
Sinks(g) == {n \in DOMAIN g.nodes : \A a \in Arcs(g) : a[1] # n}

RECURSIVE build(_, _, _, _, _)

resolveUse(tree, root, u, sc, rc) ==
  Then(push(rc.stack, <<sc.dir, u.group>>), LAMBDA stack :
  Then(loadGroupDef(tree, sc.dir, u.group), LAMBDA l :
  Then(build(tree, root, [l.bp EXCEPT !.nodes = l.def.nodes, !.edges = l.def.edges,
                                      !.uses = l.def.uses, !.contracts = <<>>],
             sc, [rc EXCEPT !.stack = stack]), LAMBDA inner :
  Then(mergeContracts(inner.g.contracts, l.def.contracts), LAMBDA own :
  Then(mergeContracts(own, l.bp.contracts), LAMBDA contracts :
  Then(Parsed([inner.g EXCEPT !.contracts = contracts]), LAMBDA g :
  Then(IF Accepted(withVars(g, inner.rc.heap))
       THEN resolveExport(l.def.export, inner.uses, sc.ns) ELSE Refused, LAMBDA export :
  Then(IF synthesizeSchema(export, g)
       THEN applyUseVars(u.vars, export, g.nodes, inner.rc.heap) ELSE Refused, LAMBDA heap :
    Parsed([info |-> [export |-> export, roots |-> Roots(g), sinks |-> Sinks(g)],
            g |-> g,
            rc |-> [inner.rc EXCEPT !.heap = heap, !.stack = rc.stack]])))))))))

\* A group's leaves, edges and contracts join the scope that uses it.
spliceUse(tree, root, bp, sc, acc, u) ==
  Then(resolveUse(tree, root, u, inherit(bp, sc, u), acc.rc), LAMBDA used :
  Then(mergeContracts(acc.g.contracts, used.g.contracts), LAMBDA contracts :
    Parsed([g |-> [acc.g EXCEPT !.nodes = used.g.nodes @@ @,
                                !.edges = @ \o used.g.edges,
                                !.contracts = contracts],
            uses |-> (u.name :> used.info) @@ acc.uses,
            rc |-> used.rc])))

build(tree, root, bp, sc, rc) ==
  LET start == [g |-> [nodes |-> <<>>, edges |-> <<>>, contracts |-> bp.contracts,
                       contractMode |-> <<>>, lock |-> <<>>, snapshots |-> FALSE],
                uses |-> <<>>, rc |-> rc]
      nodes == Through(LAMBDA acc, n : buildNode(tree, root, bp, sc, acc, n, inherit(bp, sc, n)),
                       Parsed(start), bp.nodes)
  IN Then(Through(LAMBDA acc, u : spliceUse(tree, root, bp, sc, acc, u), nodes, bp.uses), LAMBDA acc :
     Then(ParseAll(LAMBDA e : rewriteEdge(e, acc.uses, sc.ns), bp.edges), LAMBDA edges :
       Parsed([acc EXCEPT !.g.edges = @ \o FlattenSeq(edges)])))

RootScope(dir) ==
  [dir |-> dir, ns |-> <<>>, runtime |-> <<>>, env |-> <<>>, backend |-> <<>>,
   address |-> <<>>, approve |-> ""]

EmptyContext == [stack |-> <<>>, schemas |-> <<>>, heap |-> <<>>]

\* buildRoot and what Engine.load adds; cliBinary is "" unless --runtime is given.
Build(tree, bp, dir, cliBinary) ==
  LET fallback == IF DefaultRuntime(bp) # <<>> THEN DefaultRuntime(bp)[1].binary
                  ELSE IF cliBinary # "" THEN cliBinary
                  ELSE "terraform"
      root == [dir |-> dir, vendor |-> dir \o <<<<VendorDirectory(bp)>>>>, fallback |-> fallback]
  IN Then(build(tree, root, bp, RootScope(dir), EmptyContext), LAMBDA built :
       Parsed([withVars(built.g, built.rc.heap)
                 EXCEPT !.lock = bp.lock, !.contractMode = bp.contractMode,
                        !.snapshots = bp.snapshots # <<>>]))

-----------------------------------------------------------------------------
\* SourceNodes: the leaves `terragraph vendor` fetches, before any module
\* exists to inspect.
RECURSIVE sourceNodes(_, _, _, _, _)
sourceNodes(tree, bp, dir, ns, stack) ==
  LET own == {qualifyName(ns, n) : n \in Names(bp.nodes)}
      inner(u) ==
        LET groupDir == Join(dir, u.source.path)
        IN Then(push(stack, <<groupDir, u.group>>), LAMBDA pushed :
           Then(loadGroupDef(tree, groupDir, u.group), LAMBDA l :
             sourceNodes(tree, [l.bp EXCEPT !.nodes = l.def.nodes, !.uses = l.def.uses],
                         groupDir, qualifyName(ns, u.name), pushed)))
  IN Then(ParseAll(inner, bp.uses), LAMBDA leaves : Parsed(own \cup UNION Range(leaves)))
=============================================================================

------------------------------ MODULE Blueprint ------------------------------
(***************************************************************************)
(* internal/blueprint: from the HCL blocks of a project's files to one     *)
(* Blueprint.                                                              *)
(*                                                                         *)
(* A block is a record of what its HCL says, a reference is the tuple of   *)
(* its traversal steps (<<"node", "a", "output", "x">>; Index stands for a *)
(* step that is not an attribute), a path is the sequence of its           *)
(* components, each split at its dots, and `typed` says that every         *)
(* attribute of the block is a literal of the type its schema asks for,    *)
(* which is the first thing each parse function establishes. Error texts   *)
(* are left out: a parse result is Refused or Parsed(value).               *)
(***************************************************************************)
EXTENDS Naturals, FiniteSets, SequencesExt

CONSTANTS BadNames,    \* names the node/group/use/runtime pattern rejects
          BadAliases,  \* names the plugin alias pattern rejects
          BadKeyNames, \* s3_key_name values that are empty, dotted or hold a separator
          ManagedEnv,  \* spellings of TF_DATA_DIR
          ControlEnv   \* environment names a credential may not set

Refused == <<>>
Parsed(v) == <<v>>
Accept(ok, v) == IF ok THEN Parsed(v) ELSE Refused
\* v, err := ...; if err != nil { return err }
Then(r, Rest(_)) == IF r = Refused THEN Refused ELSE Rest(r[1])
Index == "[0]"

ParseAll(Op(_), s) ==
  LET r == [i \in DOMAIN s |-> Op(s[i])]
  IN IF \E i \in DOMAIN r : r[i] = Refused
     THEN Refused
     ELSE Parsed([i \in DOMAIN r |-> r[i][1]])

\* A pass over a list that ends at the first error.
Through(Step(_, _), start, s) ==
  FoldLeft(LAMBDA acc, x : IF acc = Refused THEN Refused ELSE Step(acc[1], x), start, s)

Names(s) == {s[i].name : i \in DOMAIN s}
Distinct(s) == \A i, j \in DOMAIN s : s[i].name = s[j].name => i = j
Named(s, n) == s[CHOOSE i \in DOMAIN s : s[i].name = n]

\* filepath.Join: "." is dropped and ".." removes the component before it.
Join(dir, path) ==
  FoldLeft(LAMBDA d, c : CASE c = <<".">>  -> d
                           [] c = <<"..">> -> IF d = <<>> THEN d ELSE Front(d)
                           [] OTHER        -> Append(d, c), dir, path)

validateName(n) == n \notin BadNames
traverseAttrName(step) == step # Index

-----------------------------------------------------------------------------
(* References and edges *)

IsPort(ref) == ref.kind # ""
IsDataEdge(e) == IsPort(e.from) /\ IsPort(e.to)
IsRemote(source) == source.remote

parseRuntimeRef(attr) ==
  CASE attr = <<>> -> Parsed("")
    [] attr # <<>> /\ Len(attr[1]) = 2 /\ attr[1][1] = "runtime"
         /\ traverseAttrName(attr[1][2]) -> Parsed(attr[1][2])
    [] OTHER -> Refused

parseNodeOrPortRef(t) ==
  IF /\ Len(t) \in {2, 4}
     /\ t[1] \in {"node", "use"}
     /\ \A i \in 2..Len(t) : traverseAttrName(t[i])
     /\ Len(t) = 4 => t[3] \in {"output", "input"}
  THEN Parsed([entity |-> t[1], node |-> t[2],
               kind |-> IF Len(t) = 4 THEN t[3] ELSE "",
               name |-> IF Len(t) = 4 THEN t[4] ELSE ""])
  ELSE Refused

parseRelativeOutputRef(t) ==
  IF Len(t) = 2 /\ t[1] = "output" /\ traverseAttrName(t[2])
  THEN Parsed(t[2])
  ELSE Refused

parsePortRefList(ts) ==
  Then(ParseAll(parseNodeOrPortRef, ts), LAMBDA refs :
    Accept(ts # <<>> /\ \A i \in DOMAIN ts : IsPort(refs[i]), refs))

\* Each nested input block is one data edge between the edge's own endpoints.
parseEdgeInputs(inputs, from, to) ==
  LET edge(in) ==
        Then(parseRelativeOutputRef(in.from), LAMBDA out :
          Parsed([from |-> [from EXCEPT !.kind = "output", !.name = out],
                  to |-> [to EXCEPT !.kind = "input", !.name = in.name]]))
  IN IF IsPort(from) \/ IsPort(to) \/ ~Distinct(inputs)
     THEN Refused
     ELSE ParseAll(edge, inputs)

parseEdgeBlock(b) ==
  Then(parseNodeOrPortRef(b.from), LAMBDA from :
    Then(parseNodeOrPortRef(b.to), LAMBDA to :
      CASE ~b.typed -> Refused
        [] b.typed /\ b.inputs # <<>> -> parseEdgeInputs(b.inputs, from, to)
        [] OTHER -> Accept(<<from.kind, to.kind>> \in {<<"", "">>, <<"output", "input">>},
                           <<[from |-> from, to |-> to]>>)))

-----------------------------------------------------------------------------
(* Nodes and uses *)

parseEnvAttr(env) == DOMAIN env \cap ManagedEnv = {}

parseApproveAttr(a) == a \in {"", "none", "safe", "all"}

\* An absent rule is <<>>; a present one, even {}, is <<map>>.
ParseBackendAddress(attr) ==
  \A m \in Range(attr) :
     /\ DOMAIN m \subseteq {"s3_key_prefix", "s3_key_name"}
     /\ "s3_key_name" \in DOMAIN m => m["s3_key_name"] \notin BadKeyNames

CredentialEnvironmentAllowed(key) == key \notin ControlEnv

\* environment is an option: <<>> when the attribute is absent.
parsePluginBinding(b) ==
  /\ b.typed
  /\ Len(b.from) = 3
  /\ b.from[1] = "plugin"
  /\ traverseAttrName(b.from[2]) /\ traverseAttrName(b.from[3])
  /\ b.type = "input" => b.environment = <<>>
  /\ b.type = "credential" =>
       /\ b.environment # <<>>
       /\ b.environment[1] # {}
       /\ \A k \in b.environment[1] : CredentialEnvironmentAllowed(k)

parsePluginBindings(bs) ==
  LET of(type) == SelectSeq(bs, LAMBDA b : b.type = type)
      bindings(type) ==
        [l \in Names(of(type)) |-> <<Named(of(type), l).from[2],
                                     Named(of(type), l).from[3]>>]
  IN IF /\ \A i \in DOMAIN bs : parsePluginBinding(bs[i])
        /\ Distinct(of("input")) /\ Distinct(of("credential"))
     THEN Parsed([inputs |-> bindings("input"),
                  credentials |-> bindings("credential")])
     ELSE Refused

\* The settings a node and a use share, each of which a use hands to its leaves.
settingsOK(b) ==
  /\ b.typed
  /\ validateName(b.name)
  /\ parseRuntimeRef(b.runtime) # Refused
  /\ parseEnvAttr(b.env)
  /\ parseApproveAttr(b.approve)
  /\ ParseBackendAddress(b.address)

settings(b) ==
  [name |-> b.name, source |-> b.source, runtime |-> parseRuntimeRef(b.runtime)[1],
   env |-> b.env, approve |-> b.approve, backend |-> b.backend,
   address |-> b.address, vars |-> b.vars]

parseNodeBlock(b) ==
  Then(parsePluginBindings(b.bindings), LAMBDA bindings :
    Accept(settingsOK(b), settings(b) @@ bindings))

parseUseBlock(b) ==
  Accept(settingsOK(b), settings(b) @@ [group |-> b.group])

-----------------------------------------------------------------------------
(* Contracts *)

NoPorts == [producer |-> <<>>, consumer |-> <<>>]

parsePortContract(p, kind) == p.kind = kind /\ p.typed

\* The set of ports already declared for a source is the code's `seen` map.
parseContractSideBlock(b, base, contracts) ==
  LET key == IF b.source.form = "local"
             THEN [remote |-> FALSE, path |-> Join(base, b.source.path)]
             ELSE [remote |-> TRUE, path |-> b.source.path]
      old == IF key \in DOMAIN contracts THEN contracts[key] ELSE NoPorts
      kind == IF b.type = "producer" THEN "output" ELSE "input"
      ports == [n \in Names(b.ports) |-> Named(b.ports, n).claims]
  IN IF /\ b.typed
        /\ b.source.form \in {"local", "remote"}
        /\ \A i \in DOMAIN b.ports : parsePortContract(b.ports[i], kind)
        /\ Distinct(b.ports)
        /\ Names(b.ports) \cap DOMAIN old[b.type] = {}
     THEN Parsed((key :> [old EXCEPT ![b.type] = @ @@ ports]) @@ contracts)
     ELSE Refused

-----------------------------------------------------------------------------
(* Groups *)

parseExportBlock(b) ==
  LET input(in) ==
        Then(parsePortRefList(in.to), LAMBDA refs :
          Accept(\A i \in DOMAIN in.to : refs[i].kind = "input",
                 [name |-> in.name, to |-> refs]))
      output(out) ==
        Then(parseNodeOrPortRef(out.from), LAMBDA ref :
          Accept(ref.kind = "output", [name |-> out.name, from |-> ref]))
  IN Then(ParseAll(input, b.inputs), LAMBDA ins :
       Then(ParseAll(output, b.outputs), LAMBDA outs :
         Accept(b.typed /\ Distinct(b.inputs) /\ Distinct(b.outputs),
                [inputs |-> ins, outputs |-> outs])))

validateEndpointKnown(ref, scope) ==
  ref.node \in Names(IF ref.entity = "use" THEN scope.uses ELSE scope.nodes)

validateEdges(scope) ==
  \A i \in DOMAIN scope.edges :
     /\ validateEndpointKnown(scope.edges[i].from, scope)
     /\ validateEndpointKnown(scope.edges[i].to, scope)

Scope == [nodes |-> <<>>, edges |-> <<>>, uses |-> <<>>, contracts |-> <<>>]

\* A named declaration joins its list unless its parse or its name is refused.
Declare(scope, list, decl) ==
  Then(decl, LAMBDA d : Accept(d.name \notin Names(scope[list]),
                               [scope EXCEPT ![list] = Append(@, d)]))

\* The four kinds of block a blueprint and a group body have in common.
scopeBlock(scope, b, base) ==
  CASE b.type = "node" -> Declare(scope, "nodes", parseNodeBlock(b))
    [] b.type = "use"  -> Declare(scope, "uses", parseUseBlock(b))
    [] b.type = "edge" ->
         Then(parseEdgeBlock(b), LAMBDA es : Parsed([scope EXCEPT !.edges = @ \o es]))
    [] b.type \in {"producer", "consumer"} ->
         Then(parseContractSideBlock(b, base, scope.contracts), LAMBDA cs :
           Parsed([scope EXCEPT !.contracts = cs]))

NoExport == [inputs |-> <<>>, outputs |-> <<>>]

groupBlock(g, b, base) ==
  IF b.type # "export"
  THEN scopeBlock(g, b, base)
  ELSE Then(parseExportBlock(b), LAMBDA exp :
         Accept(~g.exported, [g EXCEPT !.export = exp, !.exported = TRUE]))

parseGroupBlock(b, base) ==
  LET exports(g) ==
        {g.export.outputs[i].from : i \in DOMAIN g.export.outputs}
          \cup UNION {Range(g.export.inputs[i].to) : i \in DOMAIN g.export.inputs}
  IN Then(Through(LAMBDA g, x : groupBlock(g, x, base),
                  Parsed([name |-> b.name, export |-> NoExport, exported |-> FALSE] @@ Scope),
                  b.blocks), LAMBDA g :
       Accept(/\ b.typed
              /\ validateName(b.name)
              /\ validateEdges(g)
              /\ \A ref \in exports(g) : validateEndpointKnown(ref, g), g))

-----------------------------------------------------------------------------
(* Blocks of the root file: runtimes, plugins and the blocks that may      *)
(* appear once                                                             *)

parseRuntimeBlock(b) ==
  IF b.typed /\ validateName(b.name) /\ b.binary # ""
  THEN Parsed([name |-> b.name, binary |-> b.binary, default |-> b.default])
  ELSE Refused

\* A feature's mode and timeout (in seconds) are options.
parsePluginBlock(b) ==
  IF /\ b.typed
     /\ b.name \notin BadAliases
     /\ b.source # "" /\ b.version # ""
     /\ Distinct(b.features)
     /\ \A i \in DOMAIN b.features :
          /\ Range(b.features[i].mode) \subseteq {"enforce", "advisory", "best_effort"}
          /\ Range(b.features[i].timeout) \subseteq 1..300
     /\ Len(b.access) <= 1
  THEN Parsed([name |-> b.name, source |-> b.source])
  ELSE Refused

parseVendorBlock(b) == IF b.typed THEN Parsed(b.directory) ELSE Refused

parseTFVarsBlock(b) ==
  IF b.typed /\ Range(b.location) \subseteq {"workdir", "module"}
  THEN Parsed(b.location)
  ELSE Refused

parseContractsBlock(b) ==
  IF b.typed /\ b.mode \in {"warn", "enforce"} THEN Parsed(b.mode) ELSE Refused

parseSnapshotsBlock(b) == IF b.typed THEN Parsed(TRUE) ELSE Refused

parseLockS3Block(b) ==
  IF b.bucket # "" /\ b.key # <<>> /\ b.region # ""
  THEN Parsed([bucket |-> b.bucket, key |-> b.key, region |-> b.region])
  ELSE Refused

parseLockBlock(b) ==
  IF b.typed /\ Len(b.backends) = 1 /\ b.backends[1].type = "s3"
  THEN parseLockS3Block(b.backends[1])
  ELSE Refused

\* The journal's bucket, prefix (its components, outer slashes trimmed) and
\* region come together or not at all; durations are positive.
parseExecutionBlock(b) ==
  IF /\ b.typed
     /\ (b.bucket # "" \/ b.prefix # <<>> \/ b.region # "") =>
          b.bucket # "" /\ b.prefix # <<>> /\ b.region # ""
     /\ \A i \in DOMAIN b.prefix : b.prefix[i] \notin {<<"">>, <<".">>, <<"..">>}
     /\ \A d \in Range(b.plan_ttl) \cup Range(b.record_retention) : d > 0
  THEN Parsed([bucket |-> b.bucket, prefix |-> b.prefix, region |-> b.region])
  ELSE Refused

Singletons == {"vendor", "tfvars", "lock", "contracts", "execution", "snapshots"}

parseSingleton(b) ==
  CASE b.type = "vendor"    -> parseVendorBlock(b)
    [] b.type = "tfvars"    -> parseTFVarsBlock(b)
    [] b.type = "lock"      -> parseLockBlock(b)
    [] b.type = "contracts" -> parseContractsBlock(b)
    [] b.type = "execution" -> parseExecutionBlock(b)
    [] b.type = "snapshots" -> parseSnapshotsBlock(b)

EmptyBlueprint ==
  [plugins |-> <<>>, groups |-> <<>>, runtimes |-> <<>>,
   vendor |-> <<>>, tfvars |-> <<>>, lock |-> <<>>, contractMode |-> <<>>,
   execution |-> <<>>, snapshots |-> <<>>] @@ Scope

\* Every singleton field is an option; contracts {} sets contractMode.
Field(type) == IF type = "contracts" THEN "contractMode" ELSE type

parseBlock(bp, b, base) ==
  CASE b.type = "plugin"  -> Declare(bp, "plugins", parsePluginBlock(b))
    [] b.type = "group"   -> Declare(bp, "groups", parseGroupBlock(b, base))
    [] b.type = "runtime" -> Declare(bp, "runtimes", parseRuntimeBlock(b))
    [] b.type \in Singletons ->
         Then(parseSingleton(b), LAMBDA v :
           Accept(bp[Field(b.type)] = <<>>, [bp EXCEPT ![Field(b.type)] = <<v>>]))
    [] OTHER -> scopeBlock(bp, b, base)

-----------------------------------------------------------------------------
(* Files *)

RuntimeByName(bp, n) == {bp.runtimes[i] : i \in {j \in DOMAIN bp.runtimes : bp.runtimes[j].name = n}}

DefaultRuntime(bp) == SelectSeq(bp.runtimes, LAMBDA rt : rt.default)

VendorDirectory(bp) == IF bp.vendor \in {<<>>, <<"">>} THEN "vendor" ELSE bp.vendor[1]

validateRuntimes(bp) ==
  LET known(decls) == \A i \in DOMAIN decls :
        decls[i].runtime # "" => RuntimeByName(bp, decls[i].runtime) # {}
  IN /\ Len(DefaultRuntime(bp)) <= 1
     /\ known(bp.nodes) /\ known(bp.uses)
     /\ \A i \in DOMAIN bp.groups : known(bp.groups[i].nodes) /\ known(bp.groups[i].uses)

\* The journal's objects may not be stored where cleaning them up would
\* remove the graph lock.
validateExecutionConfig(bp) ==
  LET cfg == bp.execution[1]
      lock == bp.lock[1]
  IN bp.execution # <<>> /\ cfg.bucket # "" =>
       /\ bp.lock # <<>>
       /\ ~(cfg.bucket = lock.bucket /\ IsPrefix(cfg.prefix, lock.key))

\* kind tells a blueprint file from a directory, another file and
\* .terraform.lock.hcl; broken is a file that does not read as HCL.
IsBlueprintFilename(file) == file.kind \in {"hcl", "broken"}

parseOneFile(bp, file, base) ==
  IF file.kind = "broken"
  THEN Refused
  ELSE Through(LAMBDA acc, b : parseBlock(acc, b, base), Parsed(bp), file.blocks)

parseFiles(files, base) ==
  Through(LAMBDA acc, f : parseOneFile(acc, f, base),
          Parsed(EmptyBlueprint), SelectSeq(files, IsBlueprintFilename))

crossChecked(bp) ==
  IF bp # Refused /\ validateEdges(bp[1]) /\ validateRuntimes(bp[1])
       /\ validateExecutionConfig(bp[1])
  THEN bp
  ELSE Refused

\* Mutant: each file is cross-checked as it is read.
CheckedByFile(files, base) ==
  Through(LAMBDA acc, f : crossChecked(parseOneFile(acc, f, base)),
          Parsed(EmptyBlueprint), SelectSeq(files, IsBlueprintFilename))

\* Cross-references are checked once, after every file has been merged.
parseDir(files, base) == crossChecked(parseFiles(files, base))

LoadPath(files, base) ==
  IF SelectSeq(files, IsBlueprintFilename) = <<>> THEN Refused ELSE parseDir(files, base)
=============================================================================

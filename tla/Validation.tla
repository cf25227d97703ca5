----------------------------- MODULE Validation ------------------------------
(***************************************************************************)
(* internal/graph: Validate, which every command consults before it acts   *)
(* on an expanded graph, and the state addresses it compares.              *)
(*                                                                         *)
(* A graph is [nodes, edges, contracts, contractMode, lock]. A leaf's name *)
(* is the tuple of the instance names above it and its own, the code's     *)
(* dotted string; S3 keys and paths are sequences of such components. The  *)
(* schema of a leaf is what module.Inspect read. A problem is [code,       *)
(* subject, error], its subject the names it is about.                     *)
(***************************************************************************)
EXTENDS Blueprint

CONSTANTS ProcessEnv,      \* os.Getenv of terragraph's own process
          CaseRule,        \* of the project's file system: "sensitive", "insensitive", "unknown"
          LowerCase,       \* the lower-case spelling of the names that have upper-case letters
          SafeConversion,  \* pairs of types with a safe cty conversion
          AnyConversion    \* pairs of types with any cty conversion

Get(f, k, default) == IF k \in DOMAIN f THEN f[k] ELSE default

HasOutput(schema, n) == n \in DOMAIN schema.outputs
HasVariable(schema, n) == n \in DOMAIN schema.variables

Problem(code, subject, error) == [code |-> code, subject |-> subject, error |-> error]
IsError(p) == p.error

DataEdges(g) == {i \in DOMAIN g.edges : IsDataEdge(g.edges[i])}

\* mergeEnv: override's entries win key by key.
mergeEnv(base, override) == override @@ base

-----------------------------------------------------------------------------
(* What supplies each input *)

edgeProblems(g) ==
  LET from(i) == g.edges[i].from
      to(i) == g.edges[i].to
  IN {Problem("missing_output", <<from(i).node, <<from(i).name>>>>, TRUE) :
        i \in {j \in DataEdges(g) : ~HasOutput(g.nodes[from(j).node].schema, from(j).name)}}
     \cup
     {Problem("missing_input", <<to(i).node, <<to(i).name>>>>, TRUE) :
        i \in {j \in DataEdges(g) : ~HasVariable(g.nodes[to(j).node].schema, to(j).name)}}
     \cup
     {Problem("input_conflict", <<to(i).node, <<to(i).name>>>>, TRUE) :
        i \in {j \in DataEdges(g) : \E k \in DataEdges(g) : k # j /\ to(k) = to(j)}}

edgeWired(g) == {<<g.edges[i].to.node, g.edges[i].to.name>> : i \in DataEdges(g)}

varsProblems(g) ==
  UNION {{Problem(IF HasVariable(g.nodes[n].schema, v) THEN "input_conflict"
                                                       ELSE "missing_input", <<n, <<v>>>>, TRUE) :
            v \in {w \in DOMAIN g.nodes[n].vars :
                     ~HasVariable(g.nodes[n].schema, w) \/ <<n, w>> \in edgeWired(g)}} :
         n \in DOMAIN g.nodes}

varsWired(g) ==
  UNION {{<<n, v>> : v \in {w \in DOMAIN g.nodes[n].vars : HasVariable(g.nodes[n].schema, w)}} :
         n \in DOMAIN g.nodes}

pluginProblems(g) ==
  LET wired == edgeWired(g) \cup varsWired(g)
      of(n, v) ==
        LET schema == g.nodes[n].schema
        IN {Problem(c, <<n, <<v>>>>, TRUE) : c \in
              (IF HasVariable(schema, v) /\ ~schema.variables[v].sensitive
               THEN {"plugin_input_not_sensitive"} ELSE {})
              \cup (IF <<n, v>> \in wired THEN {"input_conflict"} ELSE {})
              \cup (IF HasVariable(schema, v) THEN {} ELSE {"missing_input"})}
  IN UNION {UNION {of(n, v) : v \in DOMAIN g.nodes[n].inputs} : n \in DOMAIN g.nodes}

unwiredProblems(g) ==
  LET wired == edgeWired(g) \cup varsWired(g)
                 \cup UNION {{<<n, v>> : v \in DOMAIN g.nodes[n].inputs} : n \in DOMAIN g.nodes}
  IN UNION {{Problem("required_input_unwired", <<n, <<v>>>>, FALSE) :
               v \in {w \in DOMAIN g.nodes[n].schema.variables :
                        g.nodes[n].schema.variables[w].required /\ <<n, w>> \notin wired}} :
            n \in DOMAIN g.nodes}

-----------------------------------------------------------------------------
(* Order *)

Arcs(g) == {<<g.edges[i].from.node, g.edges[i].to.node>> : i \in DOMAIN g.edges}

\* Every leaf reachable from n along at least one edge, grown until it closes.
Downstream(arcs, n) ==
  LET next(S) == S \cup {a[2] : a \in {b \in arcs : b[1] \in S}}
      grow[k \in 0..Cardinality(arcs)] ==
        IF k = 0 THEN {a[2] : a \in {b \in arcs : b[1] = n}} ELSE next(grow[k - 1])
  IN grow[Cardinality(arcs)]

\* What FindCycles reports; the algorithm itself is the subject of module Graph.
cycleProblems(g) ==
  IF \E n \in DOMAIN g.nodes : n \in Downstream(Arcs(g), n)
  THEN {Problem("dependency_cycle", <<>>, TRUE)}
  ELSE {}

-----------------------------------------------------------------------------
(* State addresses *)

effectiveBackendConfig(node) == mergeEnv(node.schema.config, node.backend)

nodeEnvironment(node, key) == Get(node.env, key, Get(ProcessEnv, key, ""))

Workspace(node) ==
  LET w == nodeEnvironment(node, "TF_WORKSPACE")
  IN IF w = "default" THEN "" ELSE w

StateFile == <<"terraform", "tfstate">>

\* <<>> when the address is not known statically.
localStatePath(node) ==
  LET cfg == effectiveBackendConfig(node)
      workspaces == Get(cfg, "workspace_dir", <<<<"terraform", "tfstate", "d">>>>)
      state == IF Workspace(node) # ""
               THEN [abs |-> FALSE, path |-> workspaces \o <<<<Workspace(node)>>, StateFile>>]
               ELSE Get(cfg, "path", [abs |-> FALSE, path |-> <<StateFile>>])
  IN IF ~node.schema.known \/ node.schema.backend \notin {"", "local"}
     THEN <<>>
     ELSE <<IF state.abs THEN state.path ELSE Join(node.dir, state.path)>>

awsPartition(region) ==
  CASE region \in {"", "us-iso"} -> ""
    [] region = "cn"     -> "aws-cn"
    [] region = "us-gov" -> "aws-us-gov"
    [] OTHER             -> "aws"

FirstSet(values) ==
  IF \E i \in DOMAIN values : values[i] # ""
  THEN values[Min({i \in DOMAIN values : values[i] # ""})]
  ELSE ""

NoAddress == [bucket |-> "", key |-> <<>>, endpoint |-> "", partition |-> ""]

s3Address(node) ==
  LET cfg == effectiveBackendConfig(node)
      key == IF Workspace(node) = ""
             THEN cfg["key"]
             ELSE <<<<Get(cfg, "workspace_key_prefix", "env:")>>, <<Workspace(node)>>>>
                    \o cfg["key"]
  IN IF /\ node.schema.known
        /\ node.schema.backend = "s3"
        /\ {"bucket", "key"} \subseteq DOMAIN cfg
     THEN [bucket |-> cfg["bucket"], key |-> key,
           endpoint |-> FirstSet(<<Get(cfg, "endpoint", ""),
                                   nodeEnvironment(node, "AWS_ENDPOINT_URL_S3"),
                                   nodeEnvironment(node, "AWS_ENDPOINT_URL")>>),
           partition |-> awsPartition(FirstSet(<<Get(cfg, "region", ""),
                                                 nodeEnvironment(node, "AWS_REGION"),
                                                 nodeEnvironment(node, "AWS_DEFAULT_REGION")>>))]
     ELSE NoAddress

S3Known(address) == address.partition # ""

possibleS3Collision(a, b) ==
  /\ a.bucket # "" /\ a.key # <<>>
  /\ a.bucket = b.bucket /\ a.key = b.key
  /\ a.endpoint = "" \/ b.endpoint = "" \/ a.endpoint = b.endpoint
  /\ a.partition = "" \/ b.partition = ""

backendProblems(g) ==
  {Problem("backend_missing", <<n>>, TRUE) :
     n \in {m \in DOMAIN g.nodes : /\ g.nodes[m].backend # <<>>
                                   /\ g.nodes[m].schema.backend \in {"", "cloud"}}}
  \cup
  {Problem("relative_state_path", <<n>>, FALSE) :
     n \in {m \in DOMAIN g.nodes : /\ g.nodes[m].schema.backend = "local"
                                   /\ "path" \in DOMAIN g.nodes[m].backend
                                   /\ ~g.nodes[m].backend["path"].abs}}
  \cup
  {Problem("backend_conflict", <<g.nodes[n].dir>>, TRUE) :
     n \in {m \in DOMAIN g.nodes :
              \E o \in DOMAIN g.nodes \ {m} : /\ g.nodes[o].dir = g.nodes[m].dir
                                              /\ g.nodes[o].backend = g.nodes[m].backend}}

\* pathidentity.Same, of paths with no links in them: "unknown" where two
\* spellings differ by case only and the file system does not tell.
Same(p, q) ==
  LET lower(path) == [i \in DOMAIN path |->
                        [j \in DOMAIN path[i] |-> Get(LowerCase, path[i][j], path[i][j])]]
  IN CASE p = q -> "same"
       [] p # q /\ lower(p) = lower(q) ->
            CASE CaseRule = "insensitive" -> "same"
              [] CaseRule = "sensitive"   -> "different"
              [] OTHER                    -> "unknown"
       [] OTHER -> "different"

\* Mutant: leaves of one directory are left to backendProblems.
PairsAcrossDirs(g) ==
  {p \in (DOMAIN g.nodes) \X (DOMAIN g.nodes) : g.nodes[p[1]].dir # g.nodes[p[2]].dir}

\* backendProblems has already refused the pairs left out.
comparedPairs(g) ==
  {p \in (DOMAIN g.nodes) \X (DOMAIN g.nodes) :
     /\ p[1] # p[2]
     /\ ~(/\ g.nodes[p[1]].dir = g.nodes[p[2]].dir
          /\ g.nodes[p[1]].backend = g.nodes[p[2]].backend)}

knownBackendProblems(g) ==
  LET pairs == comparedPairs(g)
      local(n) == localStatePath(g.nodes[n])
      paths(x, y, verdict) == x # <<>> /\ y # <<>> /\ Same(x[1], y[1]) = verdict
      s3(n) == s3Address(g.nodes[n])
  IN {Problem("state_conflict", p, TRUE) :
        p \in {q \in pairs : \/ paths(local(q[1]), local(q[2]), "same")
                             \/ S3Known(s3(q[1])) /\ s3(q[1]) = s3(q[2])}}
     \cup
     {Problem("state_identity_unverified", p, FALSE) :
        p \in {q \in pairs : \/ paths(local(q[1]), local(q[2]), "unknown")
                             \/ possibleS3Collision(s3(q[1]), s3(q[2]))}}

remoteLockBackends == {"s3", "gcs", "azurerm", "http", "remote", "cloud"}

LockAddress(lock) ==
  [bucket |-> lock.bucket, key |-> lock.key,
   endpoint |-> FirstSet(<<Get(ProcessEnv, "AWS_ENDPOINT_URL_S3", ""),
                           Get(ProcessEnv, "AWS_ENDPOINT_URL", "")>>),
   partition |-> awsPartition(lock.region)]

\* An explicit partial key is compared as written until the address is known.
lockCollision(node, lock) ==
  IF S3Known(s3Address(node))
  THEN s3Address(node) = LockAddress(lock)
  ELSE /\ node.schema.backend = "s3"
       /\ "key" \in DOMAIN node.backend /\ node.backend["key"] = lock.key
       /\ "bucket" \in DOMAIN node.backend => node.backend["bucket"] = lock.bucket

remoteLockProblems(g) ==
  IF g.lock = <<>>
  THEN {}
  ELSE {Problem("remote_backend_required", <<n>>, TRUE) :
          n \in {m \in DOMAIN g.nodes : g.nodes[m].schema.backend \notin remoteLockBackends}}
       \cup
       {Problem("lock_state_conflict", <<n>>, TRUE) :
          n \in {m \in DOMAIN g.nodes : lockCollision(g.nodes[m], g.lock[1])}}
       \cup
       {Problem("lock_state_unverified", <<n>>, FALSE) :
          n \in {m \in DOMAIN g.nodes :
                   /\ ~lockCollision(g.nodes[m], g.lock[1])
                   /\ possibleS3Collision(s3Address(g.nodes[m]), LockAddress(g.lock[1]))}}

-----------------------------------------------------------------------------
(* Contracts. A claim is [type, nullable, sensitive]: "" is no claim, a    *)
(* flag is "yes" or "no".                                                  *)

\* A remote leaf is looked up by its source as written, a local one by the
\* directory it resolves to.
contractKey(node) ==
  IF IsRemote(node.source)
  THEN [remote |-> TRUE, path |-> node.source.path]
  ELSE [remote |-> FALSE, path |-> node.dir]

Claimed(flag, fact) == flag # "" /\ (flag = "yes") # fact

producerProblems(schema, ports) ==
  {IF HasOutput(schema, p) THEN "C009" ELSE "C001" :
     p \in {q \in DOMAIN ports :
              HasOutput(schema, q) => Claimed(ports[q].sensitive, schema.outputs[q])}}

consumerProblems(schema, ports) ==
  LET v(p) == schema.variables[p]
      missing == {p \in DOMAIN ports : ~HasVariable(schema, p)}
      unfit == {p \in DOMAIN ports \ missing :
                  /\ ports[p].type # "" /\ v(p).type # ""
                  /\ ports[p].type # v(p).type
                  /\ <<ports[p].type, v(p).type>> \notin SafeConversion}
      mislabelled == {p \in DOMAIN ports \ missing : Claimed(ports[p].sensitive, v(p).sensitive)}
  IN {"C002" : p \in missing} \cup {"C007" : p \in unfit} \cup {"C008" : p \in mislabelled}

\* A null reaching the variable is replaced by its default.
NoVariable == [nullable |-> "", default |-> "none"]
nullDefault(variable) == variable.nullable = "no" /\ variable.default = "value"

edgeContractProblems(p, c, variable) ==
  (IF /\ p.type # "" /\ c.type # "" /\ p.type # c.type
      /\ <<p.type, c.type>> \notin AnyConversion
   THEN {"C003"} ELSE {})
  \cup (IF c.nullable = "no" /\ p.nullable # "no" /\ ~nullDefault(variable)
        THEN {"C004"} ELSE {})
  \cup (IF p.sensitive = "yes" /\ c.sensitive # "yes" THEN {"C005"} ELSE {})

\* Both ends of a data edge promised: <<producer's claims, consumer's claims>>.
Promised(g, e) ==
  LET from == contractKey(g.nodes[e.from.node])
      to == contractKey(g.nodes[e.to.node])
  IN IF /\ from \in DOMAIN g.contracts /\ to \in DOMAIN g.contracts
        /\ e.from.name \in DOMAIN g.contracts[from].producer
        /\ e.to.name \in DOMAIN g.contracts[to].consumer
     THEN <<g.contracts[from].producer[e.from.name], g.contracts[to].consumer[e.to.name]>>
     ELSE <<>>

contractProblems(g) ==
  LET enforced == g.contractMode = <<"enforce">>
      owners(key) == {n \in DOMAIN g.nodes : contractKey(g.nodes[n]) = key}
      bySource(key) ==
        IF owners(key) = {}
        THEN {"C006"}
        ELSE UNION {producerProblems(g.nodes[n].schema, g.contracts[key].producer)
                      \cup consumerProblems(g.nodes[n].schema, g.contracts[key].consumer) :
                    n \in owners(key)}
      byEdge(i) ==
        LET e == g.edges[i]
            claims == Promised(g, e)
        IN IF claims = <<>>
           THEN {}
           ELSE edgeContractProblems(claims[1], claims[2],
                                     Get(g.nodes[e.to.node].schema.variables, e.to.name, NoVariable))
  IN UNION {{Problem(c, <<key.path>>, enforced) : c \in bySource(key)} : key \in DOMAIN g.contracts}
     \cup
     UNION {{Problem(c, <<g.edges[i].to.node>>, enforced) : c \in byEdge(i)} : i \in DataEdges(g)}

-----------------------------------------------------------------------------
Validate(g) ==
  edgeProblems(g) \cup varsProblems(g) \cup pluginProblems(g) \cup unwiredProblems(g)
    \cup cycleProblems(g) \cup backendProblems(g) \cup knownBackendProblems(g)
    \cup remoteLockProblems(g) \cup contractProblems(g)

Accepted(g) == \A p \in Validate(g) : ~IsError(p)
=============================================================================

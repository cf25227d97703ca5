------------------------------ MODULE MCProject ------------------------------
\* The families of projects TLC loads, and the one whose runs it explores.
EXTENDS Project

CONSTANT MaxBlocks  \* bound on the blocks of a generated project

Root == <<<<"p">>>>
Here == <<>>
Dir(d) == <<<<d>>>>
Local(path) == [remote |-> FALSE, path |-> path]
In(d) == Root \o Dir(d)

File(blocks) == [kind |-> "hcl", blocks |-> blocks]

Tree(files, modules) ==
  [root |-> Root, files |-> files, modules |-> modules, vendored |-> <<>>, left |-> {}]

Node(name, dir) ==
  [type |-> "node", typed |-> TRUE, name |-> name, source |-> Local(Dir(dir)), runtime |-> <<>>,
   env |-> <<>>, approve |-> "", backend |-> <<>>, address |-> <<>>, vars |-> <<>>,
   bindings |-> <<>>]

Use(name, path, group) ==
  [type |-> "use", typed |-> TRUE, name |-> name, source |-> Local(path), runtime |-> <<>>,
   env |-> <<>>, approve |-> "", backend |-> <<>>, address |-> <<>>, vars |-> <<>>,
   group |-> group]

Group(name, blocks) == [type |-> "group", typed |-> TRUE, name |-> name, blocks |-> blocks]

Edge(from, to) == [type |-> "edge", typed |-> TRUE, from |-> from, to |-> to, inputs |-> <<>>]

Export(ins, outs) == [type |-> "export", typed |-> TRUE, inputs |-> ins, outputs |-> outs]

Runtime(name, binary, default) ==
  [type |-> "runtime", typed |-> TRUE, name |-> name, binary |-> binary, default |-> default]

Side(type, dir, ports) ==
  [type |-> type, typed |-> TRUE, source |-> [form |-> "local", path |-> Dir(dir)],
   ports |-> ports]

Port(kind, name, claims) == [kind |-> kind, name |-> name, typed |-> TRUE, claims |-> claims]
Claims(nullable, sensitive) == [type |-> "", nullable |-> nullable, sensitive |-> sensitive]

Lock(bucket, key) ==
  [type |-> "lock", typed |-> TRUE,
   backends |-> <<[type |-> "s3", bucket |-> bucket, key |-> key, region |-> "eu"]>>]

Variable(required, nullable, default) ==
  [required |-> required, type |-> "", nullable |-> nullable, default |-> default,
   sensitive |-> FALSE]

Schema(backend, variables, outputs) ==
  [variables |-> [v \in variables |-> Variable(TRUE, "", "none")],
   outputs |-> [o \in outputs |-> FALSE], backend |-> backend, known |-> TRUE,
   config |-> <<>>, attributes |-> <<{}>>]

AnyMode(schema) == [m \in {"terraform", "tofu", "unknown"} |-> schema]

-----------------------------------------------------------------------------
(* Parsing: every sequence of MaxBlocks blocks, in one file or two *)

BlockPool ==
  {Node("a", "m"),
   [Node("b", "m") EXCEPT !.runtime = <<<<"runtime", "r">>>>],
   [Node("bad", "m") EXCEPT !.env = "K" :> "1"],
   Use("a", Here, "g"),
   Group("g", <<Node("c", "m"), [Node("d", "m") EXCEPT !.runtime = <<<<"runtime", "r">>>>],
                Edge(<<"node", "c">>, <<"node", "d">>)>>),
   Edge(<<"node", "a">>, <<"node", "b">>),
   [Edge(<<"node", "a">>, <<"use", "a">>)
      EXCEPT !.inputs = <<[name |-> "x", from |-> <<"output", "y">>]>>],
   Edge(<<"node", "a", "output", "y">>, <<"node", "a">>),
   Runtime("r", "tofu", TRUE), Runtime("s", "terraform", TRUE),
   Side("producer", "m", <<Port("output", "y", Claims("no", ""))>>),
   Side("consumer", "m", <<Port("output", "y", Claims("no", ""))>>),
   Lock("b", <<<<"e">>, <<"lock">>>>),
   [type |-> "execution", typed |-> TRUE, bucket |-> "b", prefix |-> <<<<"e">>>>, region |-> "eu",
    plan_ttl |-> <<>>, record_retention |-> <<>>],
   [type |-> "execution", typed |-> TRUE, bucket |-> "b", prefix |-> <<<<"x">>>>, region |-> "eu",
    plan_ttl |-> <<>>, record_retention |-> <<1>>],
   [type |-> "plugin", typed |-> TRUE, name |-> "k", source |-> "s", version |-> "1",
    features |-> <<>>, access |-> <<>>],
   [type |-> "tfvars", typed |-> TRUE, location |-> <<"module">>]}

ParseTrees ==
  {Tree(Root :> files, <<>>) : files \in
     UNION {{<<File(SubSeq(bs, 1, k)), [kind |-> "other", blocks |-> <<>>],
               File(SubSeq(bs, k + 1, Len(bs)))>> : k \in {0, 1}} : bs \in [1..MaxBlocks -> BlockPool]}
     \cup {<<>>, <<[kind |-> "other", blocks |-> <<>>]>>,
           <<File(<<>>), [kind |-> "broken", blocks |-> <<>>]>>}}

-----------------------------------------------------------------------------
(* Settings: a use of a use of a leaf, one attribute at a time *)

Settings ==
  {<<"runtime", {<<>>, <<<<"runtime", "r">>>>, <<<<"runtime", "s">>>>}>>,
   <<"approve", {"", "safe", "all"}>>,
   <<"env", {<<>>, "K" :> "1", "K" :> "2", "L" :> "1"}>>,
   <<"backend", {<<>>, "bucket" :> "b1", "bucket" :> "b2", "region" :> "eu"}>>,
   <<"address", {<<>>, <<<<>>>>, <<"s3_key_prefix" :> Dir("x")>>, <<"s3_key_name" :> <<"y">>>>}>>}

SettingsTrees ==
  {Tree(Root :> <<File(<<Runtime("r", "terraform", FALSE), Runtime("s", "tofu", FALSE),
                         [Use("u", Dir("g"), "g") EXCEPT ![s[1]] = v[1]],
                         [Node("w", "m") EXCEPT ![s[1]] = v[3]]>>)>>
        @@ In("g") :> <<File(<<Runtime("r", "tofu", d), Runtime("s", "other", FALSE),
                               Group("g", <<[Use("v", Here, "h") EXCEPT ![s[1]] = v[2]]>>),
                               Group("h", <<[Node("n", "m") EXCEPT ![s[1]] = v[3]],
                                            Node("o", "o")>>)>>)>>,
        [e \in {In("m"), In("g") \o Dir("m"), In("g") \o Dir("o")} |->
           [m \in {"terraform", "tofu", "unknown"} |-> Schema("s3", {}, {m})]]) :
     <<s, v, d>> \in UNION {{t} \X [1..3 -> t[2]] \X BOOLEAN : t \in Settings}}

-----------------------------------------------------------------------------
(* Remote sources: a leaf of the root and one of a group, wherever copies
   of their modules may lie *)

RemoteNode(name) == [Node(name, "x") EXCEPT !.source = [remote |-> TRUE, path |-> Dir("git")]]

Copies == {Root \o <<<<"vendor">>, <<"r">>>>, Root \o <<<<"vendor">>, <<"u", "r">>>>,
           In("g") \o <<<<"vendor">>, <<"r">>>>, In("g") \o <<<<"alt">>, <<"r">>>>}

SourceTrees ==
  {[Tree(Root :> <<File(<<RemoteNode("r"), Use("u", Dir("g"), "g"),
                          [Side("producer", "x", <<Port("output", "o", Claims("", ""))>>)
                             EXCEPT !.source = [form |-> "remote", path |-> Dir("git")]]>>)>>
         @@ In("g") :> <<File(<<[type |-> "vendor", typed |-> TRUE, directory |-> "alt"],
                                Group("g", <<RemoteNode("r")>>)>>)>>,
         [d \in Copies \cup {c \o Dir("sub") : c \in Copies} |-> AnyMode(Schema("local", {}, {"o"}))])
      EXCEPT !.vendored = [d \in dirs |-> [kind |-> kind, package |-> package]]] :
     dirs \in SUBSET Copies, kind \in {"dir", "file"}, package \in {<<>>, <<Dir("sub")>>, <<Refused>>}}

-----------------------------------------------------------------------------
(* Wiring: two uses of a group, a leaf, and edges between them *)

In1(name, to) == [name |-> name, to |-> to]
Out1(name, from) == [name |-> name, from |-> from]

GroupBodies ==
  LET two == <<Node("m", "mod"), Node("k", "mod"),
               Edge(<<"node", "m", "output", "o">>, <<"node", "k", "input", "j">>)>>
  IN {\* one input fans out, another stays inside
      <<Group("g", two \o <<Export(<<In1("i", <<<<"node", "m", "input", "i">>,
                                               <<"node", "k", "input", "i">>>>)>>,
                                   <<Out1("o", <<"node", "k", "output", "o">>)>>)>>)>>,
      \* the exported input is one an edge or a literal already supplies
      <<Group("g", two \o <<Export(<<In1("i", <<<<"node", "k", "input", "j">>>>)>>,
                                   <<Out1("o", <<"node", "m", "output", "o">>)>>)>>)>>,
      \* a group within a group, with a literal of its own
      <<Group("g", <<[Use("h", Here, "h") EXCEPT !.vars = "l" :> "1"], Node("z", "mod"),
                     Edge(<<"use", "h">>, <<"node", "z">>),
                     Export(<<In1("i", <<<<"use", "h", "input", "i">>>>)>>,
                            <<Out1("o", <<"use", "h", "output", "o">>)>>)>>),
        Group("h", two \o <<Export(<<In1("i", <<<<"node", "m", "input", "i">>>>),
                                     In1("l", <<<<"node", "k", "input", "i">>>>)>>,
                                   <<Out1("o", <<"node", "k", "output", "o">>)>>)>>)>>,
      \* a group that uses itself
      <<Group("g", <<Use("h", Here, "g"),
                     Export(<<In1("i", <<<<"use", "h", "input", "i">>>>)>>,
                            <<Out1("o", <<"use", "h", "output", "o">>)>>)>>)>>}

EdgePool ==
  {Edge(<<"use", "a", "output", "o">>, <<"use", "b", "input", "i">>),
   Edge(<<"use", "a">>, <<"use", "b">>),
   Edge(<<"node", "n", "output", "o">>, <<"use", "a", "input", "i">>),
   Edge(<<"use", "b", "output", "o">>, <<"node", "n", "input", "i">>),
   Edge(<<"use", "b">>, <<"node", "n">>)}

WiringTrees ==
  {Tree(Root :> <<File(body \o <<[Use("a", Here, "g") EXCEPT !.vars = va],
                                 [Use("b", Here, "g") EXCEPT !.vars = vb], Node("n", "mod")>>
                            \o SetToSeq(es))>>,
        In("mod") :> AnyMode(Schema("local", {"i", "j"}, {"o"}))) :
     body \in GroupBodies, es \in SUBSET EdgePool,
     va \in {<<>>, "i" :> "1"}, vb \in {<<>>, "i" :> "2"}}

-----------------------------------------------------------------------------
(* State addresses: two leaves, whose names differ by case or not at all
   like each other, on local and S3 backends *)

Backends ==
  {[backend |-> <<>>], [backend |-> "path" :> [abs |-> FALSE, path |-> Dir("s")]],
   [backend |-> "path" :> [abs |-> TRUE, path |-> In("m") \o Dir("s")]],
   [backend |-> "workspace_dir" :> Dir("w"), env |-> "TF_WORKSPACE" :> "dev"],
   [backend |-> <<>>, env |-> "TF_WORKSPACE" :> "default"],
   [backend |-> "bucket" :> "b" @@ "key" :> Dir("k") @@ "region" :> "eu"],
   [backend |-> "bucket" :> "b" @@ "key" :> Dir("k"), env |-> "AWS_REGION" :> "cn"],
   [backend |-> "bucket" :> "b" @@ "key" :> Dir("k"), env |-> "AWS_REGION" :> "us"],
   [backend |-> "bucket" :> "b" @@ "region" :> "eu", address |-> <<"s3_key_prefix" :> <<>>>>],
   [backend |-> "bucket" :> "b"]}

StateTrees ==
  {Tree(Root :> <<File(<<b1 @@ Node("a", d1), b2 @@ Node(n, d2)>> \o lock)>>,
        In("m") :> AnyMode(Schema("local", {}, {})) @@ In("m2") :> AnyMode(Schema("local", {}, {}))
        @@ In("s") :> AnyMode(Schema("s3", {}, {}))) :
     b1 \in Backends, b2 \in Backends, d1 \in {"m", "s"}, d2 \in {"m", "m2", "s"}, n \in {"A", "b"},
     lock \in {<<>>, <<Lock("b", Dir("k"))>>}}

-----------------------------------------------------------------------------
(* Runs: an upstream with two outputs, a downstream that takes both, and
   promises an author adds, drops or changes between runs *)

RunTree(mode, promise, secret, default) ==
  LET claims(c) == Claims(c, "")
      contract == IF mode = "none" THEN <<>>
                  ELSE <<[type |-> "contracts", typed |-> TRUE, mode |-> mode],
                         Side("producer", "up", <<Port("output", "p", claims(promise[1]))>>),
                         Side("consumer", "down", <<Port("input", "x", claims(promise[2]))>>)>>
      down == [Schema("local", {"x", "y", "z", "s"}, {})
                 EXCEPT !.variables["s"].sensitive = TRUE,
                        !.variables["x"].nullable = IF default = "value" THEN "no" ELSE "",
                        !.variables["x"].default = default]
      plug == [type |-> "input", typed |-> TRUE, name |-> "s", from |-> <<"plugin", "k", "f">>,
               environment |-> <<>>]
  IN Tree(Root :> <<File(<<Node("a", "up"), [Node("b", "down") EXCEPT !.bindings = <<plug>>,
                                                                     !.vars = "z" :> "1"],
                           [type |-> "plugin", typed |-> TRUE, name |-> "k", source |-> "s",
                            version |-> "1", features |-> <<>>, access |-> <<>>],
                           Edge(<<"node", "a", "output", "p">>, <<"node", "b", "input", "x">>),
                           Edge(<<"node", "a", "output", "q">>, <<"node", "b", "input", "y">>),
                           [type |-> "snapshots", typed |-> TRUE]>> \o contract)>>,
          In("up") :> AnyMode([Schema("local", {}, {"p", "q"}) EXCEPT !.outputs["p"] = secret])
          @@ In("down") :> AnyMode(down))

RunTrees ==
  {RunTree("none", <<"", "">>, secret, "none") : secret \in BOOLEAN}
  \cup {RunTree("enforce", promise, FALSE, default) :
          promise \in {<<"no", "no">>, <<"", "no">>}, default \in {"none", "value"}}

MCInitTrees == ParseTrees \cup SettingsTrees \cup SourceTrees \cup WiringTrees \cup StateTrees \cup RunTrees

MCEdits(t) == IF t \in RunTrees THEN RunTrees \ {t} ELSE {}

MCLegacyFiles(t) ==
  {<<>>} \cup (IF t \notin RunTrees THEN {} ELSE
               {<<"a">> :> [schema |-> 1, outputs |-> "p" :> Value(0, "value", "yes"), withheld |-> {}]})

\* Runs are explored for RunTrees only; the other families are loaded.
MCSelections(t) == IF t \in RunTrees THEN {{<<"a">>}, {<<"b">>}, {<<"a">>, <<"b">>}} ELSE {}

MCLowerCase == "A" :> "a"
NoEnv == <<>>
=============================================================================

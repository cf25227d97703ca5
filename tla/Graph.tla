-------------------------------- MODULE Graph --------------------------------
(***************************************************************************)
(* The graph of a blueprint and the algorithms that schedule it            *)
(* (internal/graph: build, topo, tarjan, selection).  graph.Build appends  *)
(* the edges one at a time, several of them possibly between the same two  *)
(* nodes; the algorithms are pure and are checked on every graph reached.  *)
(* Node names are numbers, ordered as the names are; an edge is            *)
(* [from, to, data], data false for a pure ordering edge.                  *)
(***************************************************************************)
EXTENDS Integers, Sequences, FiniteSets, SequencesExt, FiniteSetsExt

CONSTANTS Nodes, Kinds, MaxEdges,
          Unknown   \* a name that is no node of the graph

ASSUME GraphAssumption ==
  /\ Nodes \subseteq Nat \ {Unknown} /\ IsFiniteSet(Nodes)
  /\ Kinds \subseteq BOOLEAN /\ Unknown \in Nat /\ MaxEdges \in Nat

Edge == [from : Nodes, to : Nodes, data : Kinds]

VARIABLE edges   \* g.Edges; g.In and g.Out list the same edges by node

Init == edges = <<>>
AddEdge(e) == Len(edges) < MaxEdges /\ edges' = Append(edges, e)
Next == \E e \in Edge : AddEdge(e)
Spec == Init /\ [][Next]_edges

Sorted(S) == SetToSortSeq(S, <)

\* The lists g.In[n] and g.Out[n].
In(n)  == LET es == SelectSeq(edges, LAMBDA e : e.to = n) IN [i \in DOMAIN es |-> es[i].from]
Out(n) == LET es == SelectSeq(edges, LAMBDA e : e.from = n) IN [i \in DOMAIN es |-> es[i].to]

-----------------------------------------------------------------------------
(* Levels *)

Ready(inDegree) == {n \in DOMAIN inDegree : inDegree[n] = 0}

\* The edges from the level to n, counted once however many there are.
CutOnce(n, level) == Cardinality({m \in level : n \in Range(Out(m))})

\* The edges from the level to n, every one of them.
Cut(n, level) == Cardinality({i \in DOMAIN edges : edges[i].from \in level /\ edges[i].to = n})

\* A level is deleted, and what it points at loses one for every edge.
Place(inDegree) ==
  LET level == Ready(inDegree)
  IN [n \in DOMAIN inDegree \ level |-> inDegree[n] - Cut(n, level)]

\* inDegree after k rounds.
InDegrees ==
  LET round[k \in 0 .. Cardinality(Nodes)] ==
        IF k = 0 THEN [n \in Nodes |-> Len(In(n))] ELSE Place(round[k - 1])
  IN round

\* The levels, and whether a cycle kept some nodes from being placed.
Levels ==
  LET d == InDegrees
      rounds == Min({k \in DOMAIN d : Ready(d[k]) = {}})
  IN [levels |-> [k \in 1 .. rounds |-> Sorted(Ready(d[k - 1]))],
      cycle  |-> DOMAIN d[rounds] # {}]

TopoSort == FlattenSeq(Levels.levels)

-----------------------------------------------------------------------------
(* FindCycles: Tarjan's algorithm *)

LowLink(st, v, low) == [st EXCEPT !.lowlink[v] = IF low < @ THEN low ELSE @]

\* Successors that already have an index, finished ones included.
OnStackSeen(st, w) == w \in DOMAIN st.indices

OnStack(st, w) == w \in Range(st.stack)

\* More than one node, or one that points at itself.
IsCyclic(scc) == Cardinality(scc) > 1 \/ \E n \in scc : n \in Range(Out(n))

\* The stack down to v leaves it as one component.
PopComponent(st, v) ==
  LET at  == CHOOSE i \in DOMAIN st.stack : st.stack[i] = v
      scc == {st.stack[i] : i \in at .. Len(st.stack)}
  IN [st EXCEPT !.stack = SubSeq(@, 1, at - 1),
                !.sccs = IF IsCyclic(scc) THEN @ \cup {scc} ELSE @]

RECURSIVE StrongConnect(_, _)
StrongConnect(st, v) ==
  LET opened == [st EXCEPT !.index = @ + 1,
                           !.indices = (v :> st.index) @@ @,
                           !.lowlink = (v :> st.index) @@ @,
                           !.stack = Append(@, v)]
      Visit(s, w) ==
        IF w \notin DOMAIN s.indices
        THEN LET t == StrongConnect(s, w) IN LowLink(t, v, t.lowlink[w])
        ELSE IF OnStack(s, w) THEN LowLink(s, v, s.indices[w]) ELSE s
      closed == FoldLeft(Visit, opened, SortSeq(Out(v), <))
  IN IF closed.lowlink[v] = closed.indices[v] THEN PopComponent(closed, v) ELSE closed

FindCycles ==
  LET start == [index |-> 0, indices |-> <<>>, lowlink |-> <<>>, stack |-> <<>>, sccs |-> {}]
      From(st, v) == IF v \in DOMAIN st.indices THEN st ELSE StrongConnect(st, v)
      sccs == FoldLeft(From, start, Sorted(Nodes)).sccs
  IN SetToSortSeq({Sorted(scc) : scc \in sccs}, LAMBDA a, b : a[1] < b[1])

-----------------------------------------------------------------------------
(* Select *)

Requests == {<<n>> : n \in Nodes \cup {Unknown}} \cup {<<n, m>> : n, m \in Nodes}

\* The queue of selected names after i of them have been expanded: the
\* successors not selected yet are appended.
Expand(queue, n) ==
  FoldLeft(LAMBDA q, m : IF m \in Range(q) THEN q ELSE Append(q, m), queue, Out(n))

\* Only the successors of the requested names.
DownstreamOnce(seeds) == Range(FoldLeft(Expand, seeds, seeds))

Downstream(seeds) ==
  LET queue[i \in 0 .. Cardinality(Nodes)] ==
        IF i = 0 THEN seeds
        ELSE IF i > Len(queue[i - 1]) THEN queue[i - 1]
        ELSE Expand(queue[i - 1], queue[i - 1][i])
  IN Range(queue[Cardinality(Nodes)])

\* The order of boundary edges: by node and port they come from, then by node
\* and port they go to.  An ordering edge has no ports, and the empty name comes
\* first; data edges of a node are taken to leave the same port.
EdgeBefore(e, f) ==
  \/ e.from < f.from
  \/ e.from = f.from /\ ~e.data /\ f.data
  \/ e.from = f.from /\ e.data = f.data /\ e.to < f.to

Why(n, seeds, selected) ==
  IF n \in seeds
  THEN [node |-> n, reason |-> "requested", via |-> <<>>]
  ELSE [node |-> n, reason |-> "downstream", via |-> Sorted(Range(In(n)) \cap selected)]

\* An unknown name or an empty request is an error; nil without --downstream
\* is the whole graph and makes no selection.
Selectable(requested) == requested # <<>> /\ Range(requested) \subseteq Nodes

Select(requested, downstream) ==
  LET seeds    == Range(requested)
      selected == IF downstream THEN Downstream(Sorted(seeds)) ELSE seeds
      listed   == Sorted(selected)
  IN [mode      |-> IF downstream THEN "downstream" ELSE "exact",
      requested |-> Sorted(seeds),
      nodes     |-> [i \in DOMAIN listed |-> Why(listed[i], seeds, selected)],
      boundary  |-> SortSeq(SelectSeq(edges, LAMBDA e : (e.from \in selected) # (e.to \in selected)),
                            EdgeBefore)]

Names(s) == [i \in DOMAIN s.nodes |-> s.nodes[i].node]

\* SelectedLevels: the levels of the whole graph, filtered, empty ones left out,
\* last first for a destroy.
SelectedLevels(names, reverse) ==
  LET Kept(level) == SelectSeq(level, LAMBDA n : n \in Range(names))
      levels == Levels.levels
      out == SelectSeq([k \in DOMAIN levels |-> Kept(levels[k])], LAMBDA level : level # <<>>)
  IN IF reverse THEN Reverse(out) ELSE out

-----------------------------------------------------------------------------
(* ValidateMembership: a stored selection against the recorded nodes *)

StrictlySorted(s) == \A i, j \in DOMAIN s : i < j => s[i] < s[j]

ViaOK(s, n, members) ==
  IF n.node \in Range(s.requested)
  THEN n.reason = "requested" /\ n.via = <<>>
  ELSE /\ s.mode = "downstream" /\ n.reason = "downstream" /\ n.via # <<>>
       /\ StrictlySorted(n.via)
       /\ Range(n.via) \subseteq members \ {n.node}

\* Every listed node taken as explained.
ExplainedListed(s) == Range(Names(s))

\* What the via lists explain, starting from the requested nodes.
Explained(s) ==
  LET step[k \in 0 .. Len(s.nodes)] ==
        IF k = 0 THEN Range(s.requested)
        ELSE step[k - 1] \cup {n.node : n \in {m \in Range(s.nodes) : Range(m.via) \cap step[k - 1] # {}}}
  IN step[Len(s.nodes)]

ValidateMembership(s, names) ==
  LET members == Range(names)
  IN /\ Len(s.requested) # 0
     /\ Cardinality(members) = Len(names)
     /\ Len(s.nodes) = Cardinality(members)
     /\ StrictlySorted(s.requested) /\ Range(s.requested) \subseteq members
     /\ StrictlySorted(Names(s)) /\ Range(Names(s)) \subseteq members
     /\ \A i \in DOMAIN s.nodes : ViaOK(s, s.nodes[i], members)
     /\ Explained(s) = members
     /\ \A i, j \in DOMAIN s.boundary : i < j => ~EdgeBefore(s.boundary[j], s.boundary[i])
     /\ \A e \in Range(s.boundary) : (e.from \in members) # (e.to \in members)

-----------------------------------------------------------------------------
(* Properties *)

\* Reference definitions: reachability and the components of the graph.
Reach ==
  LET paths[k \in 1 .. Cardinality(Nodes)] ==
        IF k = 1 THEN {<<e.from, e.to>> : e \in Range(edges)}
        ELSE LET shorter == paths[k - 1]
             IN shorter \cup {<<p[1], e.to>> : <<p, e>> \in
                  {pe \in shorter \X Range(edges) : pe[1][2] = pe[2].from}}
  IN paths[Cardinality(Nodes)]
Cyclic == LET reach == Reach IN {n \in Nodes : <<n, n>> \in reach}
Component(n) == LET reach == Reach IN {n} \cup {m \in Nodes : {<<n, m>>, <<m, n>>} \subseteq reach}

\* Levels ("every node in layer i only depends on nodes in layers < i"): on an
\* acyclic graph every node is in one level, after all it depends on and no
\* later than it has to be, however many edges join two nodes; a cycle is
\* reported exactly when there is one.
LevelsSound ==
  LET r == Levels
      Level(n) == CHOOSE k \in DOMAIN r.levels : n \in Range(r.levels[k])
  IN /\ r.cycle <=> Cyclic # {}
     /\ ~r.cycle =>
          /\ Range(TopoSort) = Nodes
          /\ Len(TopoSort) = Cardinality(Nodes)
          /\ \A e \in Range(edges) : Level(e.from) < Level(e.to)
          /\ \A n \in Nodes : Level(n) > 1 => \E m \in Range(In(n)) : Level(m) = Level(n) - 1

\* FindCycles ("finds all of them in one pass"): exactly the components that
\* contain a cycle, each sorted, listed by their first node.
CyclesExact ==
  LET cycles == FindCycles
  IN /\ {Range(c) : c \in Range(cycles)} = {Component(n) : n \in Cyclic}
     /\ \A i \in DOMAIN cycles : StrictlySorted(cycles[i])
     /\ \A i, j \in DOMAIN cycles : i < j => cycles[i][1] < cycles[j][1]

Runnable == Cyclic = {}
Selections == {Select(r, d) : r \in {q \in Requests : Selectable(q)}, d \in BOOLEAN}

\* Select and SelectedLevels ("preserving full-graph ordering even when omitted
\* predecessors leave gaps"): the schedule holds the requested nodes and, with
\* --downstream, all they reach, each once, and orders two selected nodes also
\* when the path between them leaves the selection.
SelectionScheduled ==
  Runnable => \A q \in Requests, d, reverse \in BOOLEAN : Selectable(q) =>
    LET s == Select(q, d)
        levels == SelectedLevels(Names(s), reverse)
        reach == Reach
        want == Range(q) \cup {m \in Nodes : d /\ \E n \in Range(q) : <<n, m>> \in reach}
    IN /\ Range(FlattenSeq(levels)) = want
       /\ Len(FlattenSeq(levels)) = Cardinality(want)
       /\ \A k, l \in DOMAIN levels : \A n \in Range(levels[k]), m \in Range(levels[l]) :
            <<n, m>> \in reach => IF reverse THEN l < k ELSE k < l

\* A stored selection of `members' that gives every node not requested all its
\* predecessors among them as its reason.
Claim(requested, members) ==
  LET listed == Sorted(members)
  IN [mode |-> "downstream", requested |-> Sorted(requested), boundary |-> <<>>,
      nodes |-> [i \in DOMAIN listed |-> Why(listed[i], requested, members)]]

\* Select and ValidateMembership: what a command stores about its selection is
\* accepted when the record is read back, and ("rejects corrupt stored
\* metadata") nothing is unless every member is requested or reached from a
\* requested one by the reasons given; nodes that only explain each other are
\* refused.
StoredSelectionExact ==
  /\ Runnable => \A s \in Selections : ValidateMembership(s, Names(s))
  /\ LET reach == Reach
     IN \A members \in SUBSET Nodes : \A requested \in SUBSET members :
          LET within == {r \in reach : r[1] \in requested}
          IN ValidateMembership(Claim(requested, members), Sorted(members))
             => members \subseteq requested \cup {r[2] : r \in within}
==============================================================================

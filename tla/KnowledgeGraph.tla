---------------------------- MODULE KnowledgeGraph ----------------------------
(***************************************************************************)
(* The knowledge graph of a mission                                          *)
(* (standalone/runtime/intelligence/knowledge-graph.mjs), as operators on    *)
(* graphs: a criticality for every node, and a set of edges.  A node is the  *)
(* pair of its kind and external id, from which the code hashes its node id. *)
(* Labels, attributes, provenance, the bounds on the numbers of nodes and     *)
(* edges, and the nodes of acceptance criteria are left out.                 *)
(***************************************************************************)
LOCAL INSTANCE Naturals

Severities == {"low", "medium", "high", "critical"}

SeverityRank == [low |-> 0, medium |-> 1, high |-> 2, critical |-> 3]

Worse(s, t) == IF SeverityRank[s] > SeverityRank[t] THEN s ELSE t

NoGraph == [nodes |-> << >>, edges |-> {}]

\* Nodes that exist keep the higher criticality.
WithNodes(graph, nodes) ==
  [graph EXCEPT !.nodes =
     [n \in DOMAIN graph.nodes \cup DOMAIN nodes |->
        IF n \notin DOMAIN nodes THEN graph.nodes[n]
        ELSE IF n \notin DOMAIN graph.nodes THEN nodes[n]
        ELSE Worse(nodes[n], graph.nodes[n])]]

\* The id of an edge is what it connects and how; the first of an id stays.
WithEdges(graph, edges) ==
  LET id(e) == <<e.from, e.to, e.kind, e.source>>
      known == {id(e) : e \in graph.edges}
  IN [graph EXCEPT !.edges = @ \cup {e \in edges : id(e) \notin known}]

Edge(from, to, kind, severity, source) ==
  [from |-> from, to |-> to, kind |-> kind, severity |-> severity, source |-> source]

Task == <<"task", "task">>
RoleNode(r) == <<"role", r>>
ItemNode(i) == <<"work_item", i>>
FileNode(f) == <<"file", f>>

\* The graph of a new mission: its task, its roles, its items and what they
\* depend on.
MissionGraph(items, deps, role, type, kind, risk) ==
  LET roles == {RoleNode(role[i]) : i \in items}
      nodes == [n \in {Task} \cup roles \cup {ItemNode(i) : i \in items} |->
                  IF n = Task THEN IF risk \in {"critical", "high"} THEN risk ELSE "medium"
                  ELSE IF n \in roles THEN IF type[n[2]] = "human" THEN "high" ELSE "low"
                  ELSE IF kind[n[2]] \in {"verify", "human_approval"} THEN "high"
                  ELSE "medium"]
      edges == UNION {{Edge(RoleNode(role[i]), ItemNode(i), "produces", "low", <<i, 0>>),
                       Edge(ItemNode(i), Task, "relates_to", "medium", <<i, 0>>)}
                      \cup {Edge(ItemNode(j), ItemNode(i), "depends_on", "medium", <<i, 0>>) :
                              j \in deps[i]}
                      : i \in items}
  IN WithEdges(WithNodes(NoGraph, nodes), edges)

\* A report adds the files it names, the relations it has found between them,
\* and that its item has changed (or verified) them.
ReportNodes(graph, files) == WithNodes(graph, [n \in {FileNode(f) : f \in files} |-> "medium"])

ReportEdges(report, kind, files, relations) ==
  {Edge(FileNode(r.from), FileNode(r.to), "impacts", r.severity, report) : r \in relations}
  \cup {Edge(ItemNode(report[1]), FileNode(f), IF kind = "verify" THEN "verifies" ELSE "modifies",
             "medium", report) : f \in files}

\* What the sources have an effect on within so many steps, at its shortest
\* distance, with the worst severity on the way.  Of several shortest paths the
\* code takes the first in the order of the edges, which is not modelled.
Impact(graph, sources, depth) ==
  LET level[n \in 0..depth] ==
        IF n = 0
        THEN {[target |-> s, severity |-> "low"] : s \in sources \cap DOMAIN graph.nodes}
        ELSE LET seen == {m.target : m \in UNION {level[k] : k \in 0..(n - 1)}} IN
             {[target |-> step[1].to,
               severity |-> Worse(Worse(step[1].severity, step[2].severity),
                                  graph.nodes[step[1].to])] :
                step \in {s \in graph.edges \X level[n - 1] :
                            s[1].from = s[2].target /\ s[1].to \notin seen}}
      found == UNION {level[n] : n \in 1..depth}
  IN {CHOOSE m \in found : m.target = t : t \in {m.target : m \in found}}
===============================================================================

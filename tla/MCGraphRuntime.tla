--------------------------- MODULE MCGraphRuntime ---------------------------
(***************************************************************************)
(* The graphs of the runs of GraphRuntime, a small one made by hand and one  *)
(* that GraphCompiler makes, and what all graphs of the compiler share, also *)
(* with the hooks of the host.                                               *)
(***************************************************************************)
EXTENDS GraphRuntime, GraphCompiler, HookGuard, TLC

Symmetry == Permutations(Clients)

N(kind) == [kind |-> kind, approval |-> FALSE, join |-> "any", joinFrom |-> {},
            attempts |-> 1, auto |-> FALSE, route |-> "none", terminal |-> "none"]
Terminal(status) == [N("terminal") EXCEPT !.terminal = status]
Tries(kind, k) == [N(kind) EXCEPT !.attempts = k]
Triage(route) == [N("triage") EXCEPT !.auto = TRUE, !.route = route]

E(from, to, type, value, priority) ==
  [from |-> from, to |-> to, type |-> type, value |-> value, priority |-> priority]
On(from, to, type, value) == E(from, to, type, value, 50)
Always(from, to) == E(from, to, "always", "", 50)

\* triage -> develop -> verify -> success, with failures routed back to develop,
\* to a human, or to the partial terminal.
LoopGraph ==
  [node |-> ("triage" :> Triage("develop")) @@ ("develop" :> Tries("develop", 2))
            @@ ("verify" :> Tries("verify", 2)) @@ ("human" :> N("human_approval"))
            @@ ("success" :> Terminal("success")) @@ ("partial" :> Terminal("partial"))
            @@ ("failed" :> Terminal("failed")),
   order |-> <<"triage", "develop", "verify", "human", "success", "partial", "failed">>,
   entry |-> "triage",
   edges |-> {On("triage", "develop", "route", "develop"),
              On("develop", "verify", "outcome", "success"),
              Always("develop", "partial"),
              On("verify", "success", "verification", "passed"),
              On("verify", "develop", "failure_type", "implementation_error"),
              On("verify", "human", "failure_type", "security_risk"),
              On("human", "develop", "approval", "approved"),
              On("human", "failed", "approval", "denied")},
   parallel |-> 1, visits |-> 2, steps |-> 8, dynamic |-> 0, verification |-> TRUE]

-----------------------------------------------------------------------------
(* Graphs of the compiler *)

\* An objective of which the word lists say nothing but that it needs research.
Question ==
  [length |-> 60, complex |-> FALSE, research |-> TRUE, implementation |-> FALSE,
   risky |-> FALSE, list |-> FALSE, question |-> FALSE, latest |-> FALSE,
   external |-> FALSE, compliance |-> FALSE]

Unsaid == [field \in {} |-> 0]

Compiled ==
  Compile(Assess(Question, "auto", Unsaid,
                 [max_parallel_nodes |-> 2, max_iterations |-> 2, max_dynamic_nodes |-> 1], 0))

\* Two shards of research, which the plan joins, and one task that the plan may
\* be expanded by.
CompiledGraph == [Compiled EXCEPT !.node = @ @@ ("task" :> Tries("develop", 2))]

-----------------------------------------------------------------------------
(* What holds of every graph of the compiler, over a grid of inputs *)

Objectives ==
  {[Question EXCEPT !.research = research, !.implementation = research, !.risky = risky,
                    !.external = external, !.length = length, !.complex = length > 1000] :
     research \in BOOLEAN, risky \in BOOLEAN, external \in BOOLEAN, length \in {10, 9000}}

SignalChoices ==
  {Unsaid, [risk |-> "low"], [risk |-> "critical"], [uncertainty |-> 50],
   [complexity |-> 100, uncertainty |-> 100, estimated_subtasks |-> 50],
   [requires_research |-> FALSE, user_approval_required |-> TRUE],
   [reversibility |-> "irreversible", compliance_sensitive |-> TRUE]}

Limits ==
  {Unsaid} \cup [max_parallel_nodes : {1, 2, 16}, max_iterations : {1, 10},
                 max_dynamic_nodes : {0}]

Assessments ==
  {Assess(o, mode, s, c, workstreams) :
     o \in Objectives, mode \in Modes, s \in SignalChoices, c \in Limits,
     workstreams \in {0, 32}}

ASSUME InputsAreValid ==
  /\ Objectives \subseteq Objective
  /\ \A s \in SignalChoices : ValidSignals(s)
  /\ \A c \in Limits : ValidConstraints(c)

StaticGraph(g) ==
  [nodes |-> DOMAIN g.node, edges |-> g.edges, entry |-> g.entry,
   kind |-> [n \in DOMAIN g.node |-> g.node[n].kind],
   terminal |-> [n \in DOMAIN g.node |-> g.node[n].terminal],
   verification |-> g.verification]

\* compileDynamicGraph never throws: its graph passes the checks that
\* validateGraphSpec makes of graphs from outside, of its parts and of the whole.
ASSUME CompiledGraphsAreValid ==
  \A a \in Assessments :
    LET g == Compile(a) IN
    /\ ValidGraphSpec(StaticGraph(g))
    /\ \A id \in DOMAIN g.node : NodeIsAdmitted(NodeInput(a, id), CompiledPolicy)
    /\ \A e \in g.edges : EdgeIsAdmitted(e)
    /\ LimitsAreAdmitted(CompiledLimits(a))
    /\ Cardinality(DOMAIN g.node) <= 200 /\ Cardinality(g.edges) <= 500

\* The nodes of an input, with and without their optional fields.
NodeInputs ==
  [kind : Kinds, role : {"system", "developer", "human"}]
  \cup [kind : Kinds, role : {"system", "developer", "human"}, risk : GraphRisks,
        tool_policy : {{"proofgraph"}, {"shell"}, {"proofgraph", "workspace_write"}}]
  \cup [kind : Kinds, role : {"system", "developer", "human"}, risk : GraphRisks,
        approval_required : BOOLEAN, terminal_status : {"none", "success"}]

Policies ==
  [require_human_for_high_risk : BOOLEAN, allow_workspace_mutation : BOOLEAN,
   allow_shell : BOOLEAN]

\* A normalised graph is taken as it is when it is handed in again, so that it
\* keeps its digest; and whatever the policy allows, no node that may change or
\* run something is worked on without an approval.
ASSUME NormalizedNodesStay ==
  \A n \in NodeInputs, policy \in Policies :
    NodeIsAdmitted(n, policy) =>
      LET m == NormalizeNode(n) IN
      /\ NormalizeNode(m) = m /\ NodeIsAdmitted(m, policy)
      /\ m.tool_policy \cap {"workspace_write", "shell"} # {} => m.approval_required

\* Work that needs an approval cannot be reached but through the human gate, and
\* after a security risk it comes back to the gate.
ASSUME RiskyWorkIsGated ==
  \A a \in Assessments :
    LET g == Compile(a)
        ungated == {e \in g.edges : g.node[e.from].kind # "human_approval"}
    IN  a.approval =>
          /\ Reachable(DOMAIN g.node, ungated, g.entry) = {"triage", "human-gate"}
          /\ \A e \in g.edges : e.value = "security_risk" => e.to = "human-gate"

\* The step limit leaves every node of the compiled graph all of its attempts.
ASSUME StepsSuffice ==
  \A a \in Assessments :
    LET g == Compile(a) IN
    MapThenSumSet(LAMBDA n : g.node[n].attempts, DOMAIN g.node) <= g.steps

\* The research fans out to no more shards than may run at once, but for a limit
\* of one: clamp(v, 2, 1) is 2, and route() refuses the fan-out of every such run.
ASSUME FanOutFits ==
  \A a \in Assessments : a.fanout <= a.parallel \/ (a.parallel = 1 /\ a.fanout = 2)

Runtime(g) ==
  INSTANCE GraphRuntime
    WITH Graph <- g, Routes <- {}, FailureTypes <- GraphFailureTypes

\* Every graph of the compiler is one thread that forks to its shards and joins
\* them in the plan, and so is the graph made by hand: no run of these graphs
\* gets stuck before it is expanded.
ASSUME GraphsAreThreaded ==
  /\ \A g \in {Compile(a) : a \in Assessments} :
       Runtime(g)!GraphAssumption /\ Runtime(g)!Threaded
  /\ Threaded

-----------------------------------------------------------------------------
(* The hooks of the host and the graphs of the compiler *)

\* The graph of a as a hook sees it, with one node in some state.
RunWith(a, id, status) ==
  [kind |-> "graph", status |-> "active",
   nodes |-> [n \in DOMAIN Compile(a).node |->
                [role |-> NodeInput(a, n).role, agent_type |-> NodeInput(a, n).agent_type,
                 tool_policy |-> NodeInput(a, n).tool_policy,
                 status |-> IF n = id THEN status ELSE "pending",
                 actor |-> IF n = id THEN NodeInput(a, n).role ELSE "none"]]]

HostTools == ControlTools \cup DOMAIN ReadCapability \cup {"own", "foreign", "Agent", "Bash", "Write"}

\* Of the assessments those that differ in what a hook sees of the graph.
HookAssessments ==
  {a \in Assessments : a.fanout \in {0, 2} /\ a.dynamic = 0 /\ a.iterations < 3}

\* The agent that the compiler names for a node may be started when the node is
\* ready, and may then use the tools of the node's contract to read; nobody else
\* may be started or read; nobody may write or run commands.
ASSUME AgentsCanDoTheirWork ==
  \A a \in HookAssessments : \A id \in DOMAIN Compile(a).node, agent \in GraphAgents :
    LET ready == RunWith(a, id, "ready")
        running == RunWith(a, id, "running")
        contract == NodeInput(a, id)
        asks(seen, tool) == Decision(seen, [tool |-> tool, agent |-> agent, caller |-> agent])
    IN  /\ asks(ready, "Agent") = "spawn" <=> contract.agent_type = agent
        /\ \A tool \in DOMAIN ReadCapability :
             /\ asks(ready, tool) = "deny"
             /\ asks(running, tool) = "read" <=>
                  contract.agent_type = agent /\ ReadCapability[tool] \in contract.tool_policy
        /\ \A tool \in {"Bash", "Write", "foreign"} : asks(running, tool) = "deny"

\* A run that is out of budget keeps its own tools and nothing else, so that it
\* can be aborted, which is what the host is told to do.
ASSUME ExhaustedRunsCanBeEnded ==
  \A kind \in {"graph", "research"}, tool \in HostTools :
    LET seen == [kind |-> kind, status |-> "budget_exceeded", nodes |-> Unsaid]
        call == [tool |-> tool, agent |-> "planner", caller |-> "researcher"]
    IN  /\ Decision(seen, call) # "deny" <=> tool = "own"
        /\ Unfinished(seen) = "abort"
===============================================================================

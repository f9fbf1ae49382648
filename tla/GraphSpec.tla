------------------------------ MODULE GraphSpec ------------------------------
(***************************************************************************)
(* The shape of a workflow graph and the static checks of                    *)
(* server/lib/graph-spec.mjs.  A graph is a record: its set of nodes, its    *)
(* set of edges, the entry node, the kind of every node, the terminal status *)
(* of every node ("none" unless it is a terminal) and whether the policy     *)
(* requires a verifier on the way to success.  The nodes of an input are     *)
(* records with some of the fields, those that were given.                   *)
(***************************************************************************)
EXTENDS Naturals, FiniteSets

Kinds == {"triage", "direct", "research", "plan", "develop", "verify",
          "human_approval", "synthesize", "terminal"}

ConditionTypes == {"always", "outcome", "route", "failure_type", "approval",
                   "verification"}

GraphRisks == {"low", "medium", "high", "critical"}
GraphTiers == {"fast", "standard", "deep", "inherit"}
GraphTools == {"proofgraph", "web_search", "workspace_read", "workspace_write", "shell"}
GraphFailureTypes == {"implementation_error", "design_error", "requirements_error",
                 "evidence_gap", "verification_error", "security_risk",
                 "budget_exceeded", "unknown"}
GraphRoutes == {"direct", "research", "plan", "develop", "verify", "human", "synthesize",
           "success", "partial", "failed"}

KindRoles ==
  [triage |-> {"system", "coordinator"}, direct |-> {"direct", "developer"},
   research |-> {"researcher"}, plan |-> {"planner"}, develop |-> {"developer"},
   verify |-> {"verifier"}, human_approval |-> {"human"},
   synthesize |-> {"synthesizer"}, terminal |-> {"system"}]

\* A field of an input, or what stands for it when it is not given.
Given(input, field, default) ==
  IF field \in DOMAIN input THEN input[field] ELSE default

NodeDefaults(input) ==
  [risk |-> "low",
   approval_required |-> Given(input, "risk", "low") \in {"high", "critical"},
   max_attempts |-> 1, join |-> "any", agent_type |-> "none", model_tier |-> "inherit",
   tool_policy |-> {"proofgraph"}, terminal_status |-> "none", dynamic |-> FALSE]

\* normalizeNode, but for what it refuses.
NormalizeNode(input) ==
  LET default == NodeDefaults(input)
  IN  [f \in DOMAIN input \cup DOMAIN default |->
         IF f \in DOMAIN input THEN input[f] ELSE default[f]]

\* What normalizeNode lets pass.  What may be changed and what is dangerous
\* needs an approval, and the policy has to allow the tools.
NodeIsAdmitted(input, policy) ==
  LET n == NormalizeNode(input) IN
  /\ n.kind \in Kinds /\ n.role \in KindRoles[n.kind]
  /\ n.risk \in GraphRisks /\ n.model_tier \in GraphTiers /\ n.join \in {"any", "all"}
  /\ n.max_attempts \in 1..20
  /\ n.tool_policy \subseteq GraphTools /\ n.tool_policy # {}
  /\ IF n.kind = "terminal"
     THEN n.terminal_status \in {"success", "partial", "failed"} /\ n.agent_type = "none"
     ELSE n.terminal_status = "none"
  /\ \/ ~policy.require_human_for_high_risk
     \/ n.risk \notin {"high", "critical"}
     \/ n.kind = "human_approval" \/ n.approval_required
  /\ "workspace_write" \in n.tool_policy =>
       policy.allow_workspace_mutation /\ n.approval_required
  /\ "shell" \in n.tool_policy => policy.allow_shell /\ n.approval_required

ConditionValues ==
  [always |-> {""}, outcome |-> {"success", "failed", "blocked"}, route |-> GraphRoutes,
   failure_type |-> GraphFailureTypes, approval |-> {"approved", "denied"},
   verification |-> {"passed", "failed"}]

EdgeIsAdmitted(e) ==
  /\ e.type \in ConditionTypes /\ e.value \in ConditionValues[e.type]
  /\ e.priority \in 0..100

LimitsAreAdmitted(limits) ==
  /\ limits.max_steps \in 4..2000 /\ limits.max_route_visits \in 1..20
  /\ limits.max_dynamic_nodes \in 0..200 /\ limits.max_parallel_nodes \in 1..32
  /\ limits.max_iterations \in 1..20

\* The nodes that paths along the edges lead to, from itself included.
Reachable(nodes, edges, from) ==
  LET reached[k \in Nat] ==
        IF k = 0 THEN {from}
        ELSE LET before == reached[k - 1]
             IN  before \cup {e.to : e \in {f \in edges : f.from \in before}}
  IN  reached[Cardinality(nodes)]

EdgesOut(g, n) == {e \in g.edges : e.from = n}
EdgesIn(g, n) == {e \in g.edges : e.to = n}

\* The strongly connected component of n, as Tarjan's algorithm groups nodes:
\* what leads to n and is led to by n.
Component(g, n) ==
  LET backwards == {[from |-> e.to, to |-> e.from] : e \in g.edges}
  IN  Reachable(g.nodes, g.edges, n) \cap Reachable(g.nodes, backwards, n)

\* Every component of more than one node contains a verifier or a human.
CyclesAreGuarded(g) ==
  \A n \in g.nodes :
    LET c == Component(g, n) IN
    c # {n} => \E m \in c : g.kind[m] \in {"verify", "human_approval"}

\* What is reached without having passed a verifier is no success terminal.
SuccessPathsAreVerified(g) ==
  g.verification =>
    \A n \in Reachable(g.nodes, {e \in g.edges : g.kind[e.from] # "verify"}, g.entry) :
      g.terminal[n] # "success"

EdgesAreWellFormed(g) ==
  /\ \A e \in g.edges : e.from \in g.nodes /\ e.to \in g.nodes /\ e.from # e.to
  /\ \A n \in g.nodes :
       /\ n # g.entry => EdgesIn(g, n) # {}
       /\ (g.kind[n] = "terminal") <=> (EdgesOut(g, n) = {})

ValidGraphSpec(g) ==
  /\ g.entry \in g.nodes
  /\ EdgesAreWellFormed(g)
  /\ g.nodes \subseteq Reachable(g.nodes, g.edges, g.entry)
  /\ \E n \in g.nodes : g.terminal[n] = "success"
  /\ CyclesAreGuarded(g)
  /\ SuccessPathsAreVerified(g)
===============================================================================

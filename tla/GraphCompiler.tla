---------------------------- MODULE GraphCompiler ----------------------------
(***************************************************************************)
(* server/lib/graph-compiler.mjs: from what is known of an objective to the  *)
(* graph of its run, in the form that GraphRuntime takes.                    *)
(*                                                                           *)
(* An objective is a record of what the word lists and patterns find in it:  *)
(* its length and the Booleans complex, research, implementation, risky,     *)
(* list, question, latest, external and compliance.  The signals and the     *)
(* constraints of the input are records with some of their fields, those     *)
(* that were given.  A profile is the number of its research workstreams:    *)
(* its texts go to the metadata of nodes, which no decision looks at.        *)
(***************************************************************************)
EXTENDS GraphSpec, Sequences, SequencesExt

\* Not the nearest value within the bounds when max < min: then it is min.
Clamp(value, min, max) ==
  LET capped == IF value < max THEN value ELSE max
  IN  IF capped > min THEN capped ELSE min

CeilDiv(a, b) == (a + b - 1) \div b

If(condition, amount) == IF condition THEN amount ELSE 0

Modes == {"auto", "research", "build", "review"}
Reversibilities == {"reversible", "partially_reversible", "irreversible"}
Strengths == {"lite", "standard", "deep"}

Objective ==
  [length : 10..10000, complex : BOOLEAN, research : BOOLEAN, implementation : BOOLEAN,
   risky : BOOLEAN, list : BOOLEAN, question : BOOLEAN, latest : BOOLEAN,
   external : BOOLEAN, compliance : BOOLEAN]

\* What rejectUnknownKeys, enumValue, integerValue and booleanValue let pass.
ValidSignals(s) ==
  \A f \in DOMAIN s :
    CASE f \in {"complexity", "uncertainty"} -> s[f] \in 0..100
      [] f = "estimated_subtasks" -> s[f] \in 1..50
      [] f = "risk" -> s[f] \in GraphRisks
      [] f = "reversibility" -> s[f] \in Reversibilities
      [] f = "verification_strength" -> s[f] \in Strengths
      [] f \in {"requires_research", "requires_implementation", "external_side_effects",
                "compliance_sensitive", "user_approval_required"} -> s[f] \in BOOLEAN
      [] OTHER -> FALSE

ValidConstraints(c) ==
  \A f \in DOMAIN c :
    CASE f = "max_parallel_nodes" -> c[f] \in 1..16
      [] f = "max_iterations" -> c[f] \in 1..10
      [] f = "max_dynamic_nodes" -> c[f] \in 0..100
      [] OTHER -> FALSE

-----------------------------------------------------------------------------
(* assessObjective *)

HeuristicComplexity(o) ==
  Clamp(15 + (o.length \div 120) * 8 + If(o.complex, 30) + If(o.list, 15)
           + If(o.research /\ o.implementation, 10), 0, 100)

HeuristicUncertainty(o) ==
  Clamp(15 + If(o.research, 40) + If(o.question, 10) + If(o.latest, 15), 0, 100)

NormalizeSignals(s, o) ==
  LET external   == Given(s, "external_side_effects", o.external)
      compliance == Given(s, "compliance_sensitive", o.compliance)
      risk       == Given(s, "risk", IF o.risky THEN "high" ELSE "low")
  IN  [complexity |-> Given(s, "complexity", HeuristicComplexity(o)),
       uncertainty |-> Given(s, "uncertainty", HeuristicUncertainty(o)),
       risk |-> IF (external \/ compliance) /\ risk = "low" THEN "high" ELSE risk,
       reversibility |-> Given(s, "reversibility",
                               IF external THEN "partially_reversible" ELSE "reversible"),
       requires_research |-> Given(s, "requires_research", o.research),
       requires_implementation |-> Given(s, "requires_implementation", o.implementation),
       estimated_subtasks |-> Given(s, "estimated_subtasks",
                                    Clamp(CeilDiv(HeuristicComplexity(o), 25), 1, 12)),
       external_side_effects |-> external,
       compliance_sensitive |-> compliance,
       user_approval_required |-> Given(s, "user_approval_required", FALSE),
       verification_strength |-> Given(s, "verification_strength", "none")]

NeedsApproval(s) ==
  \/ s.risk \in {"high", "critical"}
  \/ s.external_side_effects \/ s.compliance_sensitive \/ s.user_approval_required
  \/ s.reversibility = "irreversible"

WorkRoute(mode, s) ==
  LET researched(limit) == s.requires_research \/ s.uncertainty >= limit
      simple == /\ s.complexity <= 30 /\ s.uncertainty <= 30
                /\ ~s.requires_research /\ ~s.requires_implementation
  IN  CASE mode = "research" -> "research"
        [] mode = "build" -> IF researched(45) THEN "research" ELSE "plan"
        [] mode = "review" -> IF researched(55) THEN "research" ELSE "direct"
        [] mode = "auto" -> IF simple THEN "direct"
                            ELSE IF researched(45) THEN "research" ELSE "plan"

Fanout(route, s, workstreams, parallel) ==
  IF route # "research" THEN 0
  ELSE Clamp(IF workstreams > 0 THEN workstreams
             ELSE CeilDiv(s.complexity + s.uncertainty + s.estimated_subtasks * 4, 55),
             2, parallel)

VerificationStrength(s) ==
  CASE s.verification_strength # "none" -> s.verification_strength
    [] s.verification_strength = "none" /\ (NeedsApproval(s) \/ s.complexity >= 75) -> "deep"
    [] OTHER -> IF s.complexity <= 25 /\ s.uncertainty <= 25 THEN "lite" ELSE "standard"

Assess(objective, mode, signals, constraints, workstreams) ==
  LET s        == NormalizeSignals(signals, objective)
      route    == WorkRoute(mode, s)
      parallel == Given(constraints, "max_parallel_nodes", 6)
      deepIf(condition) == IF condition THEN "deep" ELSE "standard"
  IN  [signals |-> s,
       approval |-> NeedsApproval(s),
       initial |-> IF NeedsApproval(s) THEN "human" ELSE route,
       route |-> route,
       fanout |-> Fanout(route, s, workstreams, parallel),
       strength |-> VerificationStrength(s),
       iterations |-> Clamp(1 + (s.complexity + s.uncertainty) \div 55, 1,
                            Given(constraints, "max_iterations", 4)),
       parallel |-> parallel,
       dynamic |-> Given(constraints, "max_dynamic_nodes", 24),
       tiers |-> [direct |-> IF s.complexity <= 25 THEN "fast" ELSE "standard",
                  research |-> deepIf(s.uncertainty >= 70),
                  plan |-> deepIf(s.complexity >= 70),
                  develop |-> deepIf(s.complexity >= 80),
                  verify |-> deepIf(VerificationStrength(s) = "deep"),
                  synthesize |-> "standard"]]

-----------------------------------------------------------------------------
(* compileDynamicGraph *)

ShardIds == <<"research-01", "research-02", "research-03", "research-04",
              "research-05", "research-06", "research-07", "research-08",
              "research-09", "research-10", "research-11", "research-12",
              "research-13", "research-14", "research-15", "research-16">>

Plain(kind, attempts) ==
  [kind |-> kind, approval |-> FALSE, join |-> "any", joinFrom |-> {},
   attempts |-> attempts, auto |-> FALSE, route |-> "none", terminal |-> "none"]

Ending(status) == [Plain("terminal", 1) EXCEPT !.terminal = status]

Arc(from, to, type, value) ==
  [from |-> from, to |-> to, type |-> type, value |-> value, priority |-> 100]

\* The shards, in the order of their numbers.
ShardsOf(a) == SubSeq(ShardIds, 1, a.fanout)

Order(a) ==
  <<"triage", "terminal-success", "terminal-partial", "terminal-failed">>
  \o ShardsOf(a)
  \o (IF a.route = "direct" THEN <<"direct">> ELSE <<>>)
  \o <<"plan", "develop", "verify", "synthesize">>
  \o (IF a.approval THEN <<"human-gate">> ELSE <<>>)

NodeOf(a, id) ==
  CASE id = "triage" -> [Plain("triage", 1) EXCEPT !.auto = TRUE, !.route = a.initial]
    [] id = "terminal-success" -> Ending("success")
    [] id = "terminal-partial" -> Ending("partial")
    [] id = "terminal-failed" -> Ending("failed")
    [] id = "direct" -> Plain("direct", 2)
    [] id = "plan" -> [Plain("plan", a.iterations) EXCEPT
                         !.join = IF a.fanout > 0 THEN "all" ELSE "any",
                         !.joinFrom = ToSet(ShardsOf(a))]
    [] id = "develop" -> Plain("develop", a.iterations)
    [] id = "verify" -> Plain("verify", a.iterations + 1)
    [] id = "synthesize" -> Plain("synthesize", 1)
    [] id = "human-gate" -> [Plain("human_approval", 1) EXCEPT !.approval = TRUE]
    [] OTHER -> Plain("research", 2)

\* The nodes that the work begins with, once it is approved.
FirstWork(a) == IF a.route = "research" THEN ToSet(ShardsOf(a)) ELSE {a.route}

EntryArcs(a) ==
  IF a.approval
  THEN {Arc("triage", "human-gate", "route", "human"),
        Arc("human-gate", "terminal-failed", "approval", "denied")}
       \cup {Arc("human-gate", n, "approval", "approved") : n \in FirstWork(a)}
  ELSE {Arc("triage", n, "route", a.initial) : n \in FirstWork(a)}

ShardArcs(a) ==
  UNION {{Arc(id, "plan", "outcome", "success"),
          Arc(id, "terminal-partial", "outcome", "blocked"),
          [Arc(id, "terminal-partial", "outcome", "failed") EXCEPT !.priority = 10],
          Arc("plan", id, "failure_type", "evidence_gap"),
          Arc("verify", id, "failure_type", "evidence_gap")} : id \in ToSet(ShardsOf(a))}

\* Who has no shards to ask for more evidence goes on with what there is.
NoShardArcs(a) ==
  IF a.fanout > 0 THEN {}
  ELSE {Arc("plan", "develop", "failure_type", "evidence_gap"),
        Arc("verify", "plan", "failure_type", "evidence_gap")}

DirectArcs(a) ==
  IF a.route # "direct" THEN {}
  ELSE {Arc("direct", "verify", "outcome", "success"),
        Arc("direct", "plan", "failure_type", "implementation_error"),
        Arc("direct", "terminal-partial", "outcome", "blocked")}

SecurityArcs(a) ==
  {Arc(id, IF a.approval THEN "human-gate" ELSE "terminal-failed", "failure_type",
       "security_risk") : id \in {"plan", "develop", "verify"}}

CommonArcs ==
  {Arc("plan", "develop", "outcome", "success"),
   Arc("develop", "verify", "outcome", "success"),
   Arc("develop", "plan", "failure_type", "design_error"),
   Arc("develop", "plan", "failure_type", "requirements_error"),
   Arc("verify", "synthesize", "verification", "passed"),
   Arc("verify", "develop", "failure_type", "implementation_error"),
   Arc("verify", "plan", "failure_type", "design_error"),
   Arc("verify", "plan", "failure_type", "requirements_error"),
   Arc("verify", "plan", "failure_type", "verification_error"),
   Arc("verify", "terminal-partial", "failure_type", "budget_exceeded"),
   [Arc("verify", "plan", "failure_type", "unknown") EXCEPT !.priority = 20],
   Arc("synthesize", "terminal-success", "outcome", "success"),
   Arc("synthesize", "terminal-partial", "outcome", "failed")}
  \cup {Arc(id, "terminal-partial", "outcome", "blocked") :
          id \in {"plan", "develop", "verify", "synthesize"}}

Compile(a) ==
  [node |-> [id \in ToSet(Order(a)) |-> NodeOf(a, id)],
   order |-> Order(a),
   entry |-> "triage",
   edges |-> EntryArcs(a) \cup ShardArcs(a) \cup NoShardArcs(a) \cup DirectArcs(a)
             \cup SecurityArcs(a) \cup CommonArcs,
   parallel |-> a.parallel,
   visits |-> a.iterations + 1,
   steps |-> Clamp(Len(Order(a)) * (a.iterations + 3), 20, 500),
   dynamic |-> a.dynamic,
   verification |-> TRUE]

-----------------------------------------------------------------------------
(* The graph as validateGraphSpec is given it *)

NodeRole ==
  [triage |-> "system", terminal |-> "system", research |-> "researcher",
   direct |-> "direct", plan |-> "planner", develop |-> "developer",
   verify |-> "verifier", synthesize |-> "synthesizer", human_approval |-> "human"]

\* Who works on a node: nobody on those of the system and of humans.
Agent(kind, strength) ==
  CASE kind = "verify" -> IF strength = "deep" THEN "verifier_deep" ELSE "verifier"
    [] kind \in {"triage", "human_approval", "terminal"} -> "none"
    [] OTHER -> NodeRole[kind]

\* No compiled node may write or run commands.
NodeTools(kind, s) ==
  CASE kind \in {"direct", "plan", "develop"} -> {"proofgraph", "workspace_read"}
    [] kind = "research" -> {"proofgraph", "workspace_read", "web_search"}
    [] kind = "verify" -> {"proofgraph", "workspace_read"}
                          \cup (IF s.requires_research THEN {"web_search"} ELSE {})
    [] OTHER -> {"proofgraph"}

NodeInput(a, id) ==
  LET n == NodeOf(a, id)
      given == [kind |-> n.kind, role |-> NodeRole[n.kind], max_attempts |-> n.attempts,
                join |-> n.join, agent_type |-> Agent(n.kind, a.strength),
                model_tier |-> Given(a.tiers, n.kind, "inherit"),
                tool_policy |-> NodeTools(n.kind, a.signals), terminal_status |-> n.terminal,
                dynamic |-> n.kind = "research"]
  IN  IF n.kind # "human_approval" THEN given
      ELSE [f \in DOMAIN given \cup {"risk", "approval_required"} |->
              CASE f = "risk" -> a.signals.risk [] f = "approval_required" -> TRUE
                [] OTHER -> given[f]]

CompiledPolicy ==
  [require_verification_for_success |-> TRUE, require_human_for_high_risk |-> TRUE,
   allow_workspace_mutation |-> FALSE, allow_shell |-> FALSE]

CompiledLimits(a) ==
  LET g == Compile(a) IN
  [max_steps |-> g.steps, max_route_visits |-> g.visits, max_dynamic_nodes |-> g.dynamic,
   max_parallel_nodes |-> g.parallel, max_iterations |-> a.iterations]
===============================================================================

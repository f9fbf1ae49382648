--------------------------- MODULE TaskIntelligence ---------------------------
(***************************************************************************)
(* standalone/runtime/task-intelligence: what is known of an objective       *)
(* becomes a classification, the classification a task specification with a  *)
(* blueprint of stages, and the blueprint is checked for adequacy.           *)
(*                                                                           *)
(* An objective is a record of what the patterns find in it: the archetype   *)
(* inferred from it, the numbers of its words and of its list separators,    *)
(* and Booleans for the other patterns.  Signals are a record with those     *)
(* fields that were given.  The names of stages are strings; constraints,    *)
(* texts and digests are left out.                                           *)
(***************************************************************************)
EXTENDS Naturals, Sequences, FiniteSets, SequencesExt

Archetypes == {"direct", "research", "feature", "bugfix", "refactor", "security",
               "migration", "operations", "product"}

Building == {"feature", "bugfix", "refactor", "migration", "security", "operations"}

\* From the mildest to the gravest.
RiskScale == <<"low", "medium", "high", "critical">>
ReversibilityScale == <<"reversible", "partially_reversible", "irreversible">>

Least(a, b) == IF a < b THEN a ELSE b
Most(a, b) == IF a > b THEN a ELSE b
Ceiling(a, b) == (a + b - 1) \div b
Plus(condition, amount) == IF condition THEN amount ELSE 0

Says(signals, field, default) ==
  IF field \in DOMAIN signals THEN signals[field] ELSE default

\* What was said cannot be milder than what was inferred.
ConservativeEnum(said, inferred, scale) ==
  LET rank(x) == CHOOSE i \in DOMAIN scale : scale[i] = x
  IN  IF rank(said) >= rank(inferred) THEN said ELSE inferred

-----------------------------------------------------------------------------
(* classifyTask.  Complexity is kept in tenths, for words count 1.4 each. *)

Archetype(o, s) ==
  IF o.archetype = "direct" THEN Says(s, "archetype", "direct") ELSE o.archetype

ComplexityTenths(o, archetype) ==
  Least(1000, 100 + o.words * 14 + o.lists * 60
              + Plus(archetype \in {"feature", "migration", "operations", "security"}, 180))

UncertaintyBase(o, archetype) ==
  Least(100, (IF o.unknown THEN 55 ELSE 20) + Plus(archetype = "research", 25))

InferredRisk(o, archetype) ==
  CASE o.grave -> "critical"
    [] ~o.grave /\ o.destructive -> "high"
    [] OTHER -> IF archetype \in {"security", "operations", "migration"} THEN "medium" ELSE "low"

InferredReversibility(o) ==
  CASE o.irrevocable -> "irreversible"
    [] ~o.irrevocable /\ o.publishes -> "partially_reversible"
    [] OTHER -> "reversible"

ClassifyTask(o, s) ==
  LET archetype == Archetype(o, s)
      tenths == ComplexityTenths(o, archetype)
      complexity == (tenths + 5) \div 10
      uncertainty == UncertaintyBase(o, archetype)
      research == \/ Says(s, "requires_research", FALSE)
                  \/ archetype = "research" \/ uncertainty >= 55 \/ tenths >= 700
      inferred == Most(1, Least(24, Ceiling(tenths, 200) + Plus(research, 1)))
      risk == InferredRisk(o, archetype)
      reversibility == InferredReversibility(o)
  IN  [archetype |-> archetype,
       complexity |-> Most(Says(s, "complexity", complexity), complexity),
       uncertainty |-> Most(Says(s, "uncertainty", uncertainty), uncertainty),
       risk |-> ConservativeEnum(Says(s, "risk", risk), risk, RiskScale),
       reversibility |-> ConservativeEnum(Says(s, "reversibility", reversibility),
                                          reversibility, ReversibilityScale),
       external_effects |-> Says(s, "external_effects", FALSE) \/ o.external,
       requires_research |-> research,
       requires_implementation |->
         Says(s, "requires_implementation", FALSE) \/ archetype \in Building \/ o.builds,
       estimated_subtasks |-> Most(Says(s, "estimated_subtasks", inferred), inferred)]

-----------------------------------------------------------------------------
(* compileTaskSpec *)

\* requiredRoles and createGraphBlueprint ask the same question.
AsksHuman(task) ==
  task.risk \in {"high", "critical"} \/ task.external_effects \/ task.reversibility # "reversible"

RequiredCapabilities(c) ==
  {"proofgraph.control", "artifact.read"}
  \cup (IF c.requires_research THEN {"workspace.read", "web.research"} ELSE {})
  \cup (IF c.requires_implementation THEN {"workspace.propose"} ELSE {})
  \cup (IF c.risk # "low" THEN {"risk.review"} ELSE {})
  \cup (IF c.external_effects THEN {"delivery.propose"} ELSE {})

RequiredRoles(c) ==
  {"coordinator", "verifier", "synthesizer"}
  \cup (IF c.requires_research THEN {"researcher"} ELSE {})
  \cup (IF c.requires_implementation THEN {"planner", "developer"} ELSE {"direct"})
  \cup (IF AsksHuman(c) THEN {"human_approver"} ELSE {})

Strength(c) ==
  IF c.risk = "critical" \/ c.complexity >= 75 \/ c.uncertainty >= 70 THEN "deep"
  ELSE IF c.complexity >= 45 THEN "standard" ELSE "lite"

-----------------------------------------------------------------------------
(* createGraphBlueprint *)

Stage(id, kind, role, attempts) ==
  [id |-> id, kind |-> kind, role |-> role, attempts |-> attempts, join |-> "any"]

Link(from, to, condition) == [from |-> from, to |-> to, condition |-> condition]

ResearchIds == <<"research-01", "research-02", "research-03", "research-04",
                 "research-05", "research-06">>

Shards(task) ==
  IF task.requires_research
  THEN SubSeq(ResearchIds, 1, Most(1, Least(6, Ceiling(task.estimated_subtasks, 3))))
  ELSE <<>>

WorkStages(task) ==
  IF task.requires_implementation
  THEN <<Stage("plan", "plan", "planner", 3), Stage("develop", "develop", "developer", 4)>>
  ELSE <<Stage("direct", "direct", "direct", 2)>>

When(condition, stages) == IF condition THEN stages ELSE <<>>

Stages(task) ==
  <<Stage("triage", "triage", "coordinator", 1)>>
  \o [i \in DOMAIN Shards(task) |->
        [Stage(Shards(task)[i], "research", "researcher", 2) EXCEPT !.join = "all"]]
  \o When(task.requires_research,
          <<[Stage("research-join", "join", "coordinator", 1) EXCEPT !.join = "all"]>>)
  \o When(AsksHuman(task), <<Stage("human-approval", "human_approval", "human", 1)>>)
  \o WorkStages(task)
  \o <<Stage("verify", "verify", "verifier", IF Strength(task) = "deep" THEN 4 ELSE 2),
       Stage("synthesize", "synthesize", "synthesizer", 1),
       Stage("terminal-success", "terminal", "system", 1),
       Stage("terminal-partial", "terminal", "system", 1),
       Stage("terminal-failed", "terminal", "system", 1)>>

Links(task) ==
  LET shards == ToSet(Shards(task))
      gathered == IF task.requires_research THEN "research-join" ELSE "triage"
      decided == IF AsksHuman(task) THEN "human-approval" ELSE gathered
      work == IF task.requires_implementation THEN "develop" ELSE "direct"
      first == IF task.requires_implementation THEN "plan" ELSE "direct"
  IN  {Link("triage", id, "success") : id \in shards}
      \cup {Link(id, "research-join", "success") : id \in shards}
      \cup (IF AsksHuman(task)
            THEN {Link(gathered, "human-approval", "success"),
                  Link("human-approval", "terminal-failed", "denied")} ELSE {})
      \cup {Link(decided, first, "approved_or_success")}
      \cup (IF task.requires_implementation
            THEN {Link("plan", "develop", "success"),
                  Link("verify", "develop", "implementation_error"),
                  Link("verify", "plan", "design_or_requirements_error")} ELSE {})
      \cup (IF shards # {} THEN {Link("verify", "research-01", "evidence_gap")} ELSE {})
      \cup {Link(work, "verify", "success"),
            Link("verify", "synthesize", "verification_passed"),
            Link("synthesize", "terminal-success", "success"),
            Link("verify", "terminal-partial", "budget_or_attempts_exhausted"),
            Link("verify", "terminal-failed", "critical_failure")}

MaxSteps(task) == Least(200, 20 + task.estimated_subtasks * 8)
MaxParallel(task) == Most(1, Least(8, Ceiling(task.estimated_subtasks, 2)))

-----------------------------------------------------------------------------
(* validateGraphAdequacy *)

Repairs == {"implementation_error", "design_or_requirements_error", "evidence_gap"}

LedTo(links, from, bound) ==
  LET reached[k \in Nat] ==
        IF k = 0 THEN {from}
        ELSE LET before == reached[k - 1]
             IN  before \cup {e.to : e \in {f \in links : f.from \in before}}
  IN  reached[bound]

\* Stages and links are what the task requires, every stage is reached from the
\* triage, and no success without a verifier on the way.
Adequate(task, stages, links) ==
  LET ids == {stages[i].id : i \in DOMAIN stages}
      kinds == {stages[i].kind : i \in DOMAIN stages}
      kindOf(id) == (CHOOSE i \in DOMAIN stages : stages[i].id = id)
      unverified == {e \in links : /\ e.condition \notin Repairs
                                   /\ stages[kindOf(e.from)].kind # "verify"}
  IN  /\ Cardinality(ids) = Len(stages)
      /\ {"triage", "verify", "terminal"} \subseteq kinds
      /\ task.requires_research => "research" \in kinds
      /\ task.requires_implementation => {"plan", "develop"} \subseteq kinds
      /\ AsksHuman(task) => "human_approval" \in kinds
      /\ MaxSteps(task) >= 1
      /\ \A e \in links : {e.from, e.to} \subseteq ids
      /\ LedTo(links, "triage", Len(stages)) = ids
      /\ "terminal-success" \in ids
      /\ "terminal-success" \notin LedTo(unverified, "triage", Len(stages))
===============================================================================

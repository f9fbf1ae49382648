---------------------------- MODULE MCIntelligence ----------------------------
(* Two developments in parallel, and a verification of both. *)
EXTENDS Intelligence, SequencesExt, TLC

CONSTANTS d1, d2

Items == {1, 2, 3}
InOrder == <<1, 2, 3>>
Deps == <<{}, {}, {1, 2}>>
Kinds == <<"develop", "develop", "verify">>
Roles == <<"dev", "ops", "qa">>
Attempts == <<1, 1, 2>>
Files == <<{"api"}, {"api"}, {}>>
Types == [dev |-> "developer", ops |-> "developer", qa |-> "verifier"]
Policies ==
  [r \in DOMAIN Types |-> [max_bytes |-> 16, reject_stale_sources |-> r = "qa"]]
Models ==
  [small |-> Entry([provider |-> "local", max_context_tokens |-> 3, reliability |-> 90,
                    capabilities |-> {"coding", "structured_output"}]),
   large |-> Entry([provider |-> "cloud", risk_ceiling |-> "high", max_context_tokens |-> 9,
                    capabilities |-> {"verification", "reasoning", "coding", "structured_output"}])]
Effects == {[from |-> "api", to |-> "client", severity |-> "high"]}

\* On all graphs of three files: what an impact reaches, and how severe it is,
\* is what the shortest paths from the source say.
Places == {"x", "y", "z"}
Links == {Edge(FileNode(f), FileNode(g), "impacts", IF g = "z" THEN "high" ELSE "low", <<1, 1>>) :
            f, g \in Places}
Place(g) == [nodes |-> [n \in {FileNode(f) : f \in Places} |-> "low"], edges |-> g]
PathsTo(g, f) ==
  {p \in UNION {[1..n -> g] : n \in 1..2} :
     /\ p[1].from = FileNode("x") /\ p[Len(p)].to = FileNode(f)
     /\ \A k \in 1..(Len(p) - 1) : p[k].to = p[k + 1].from}
ASSUME ImpactFollowsPaths ==
  \A g \in SUBSET {l \in Links : l.from # l.to} :
    LET found == Impact(Place(g), {FileNode("x")}, 2) IN
    /\ {m.target : m \in found} = {FileNode(f) : f \in {h \in Places \ {"x"} : PathsTo(g, h) # {}}}
    /\ \A m \in found : \E p \in PathsTo(g, m.target[2]) :
         /\ \A q \in PathsTo(g, m.target[2]) : Len(p) <= Len(q)
         /\ (m.severity = "high") = (\E k \in DOMAIN p : p[k].severity = "high")

\* A packet keeps what fits, and drops a section only if it did not fit.
ASSUME PacketsAreBounded ==
  \A size \in [ToSet(AllSections) -> {1, 4}], room \in {4, 9} :
    LET p == Packet("researcher", [max_bytes |-> room, reject_stale_sources |-> TRUE], size, {})
        used(S) == FoldFunctionOnSet(LAMBDA a, b : a + b, 0, size, S)
    IN /\ used(p.sections) <= room /\ p.sections \cup p.dropped = SectionsOf("researcher")
       /\ \A s \in p.dropped : used(p.sections) + size[s] > room

\* A model that may do a work item may do every one that asks for less, with
\* other scores and observations too; the choice is the best of them, and what it
\* falls back on are the others, in order.
Asked ==
  {Request([kind |-> kind, risk |-> risk, context_tokens |-> tokens, min_health |-> health]) :
     kind \in {"develop", "verify"}, risk \in {"low", "high"}, tokens \in {2, 5}, health \in {25, 60}}
Seen == {[m \in {} |-> 0], [small |-> [health |-> 30]],
         [small |-> [reliability |-> 40, latency_ms |-> 9], large |-> [health |-> 100]]}
ASSUME RoutesAreMonotone ==
  \A seen \in Seen, hard \in Asked, score \in [{"small", "large"} -> {1, 2}] :
    LET models == WithObservations(Models, seen)
        route == Route(models, hard, score, <<"large", "small">>)
    IN  /\ \A easy \in Asked :
             (/\ easy.kind = hard.kind
              /\ RiskRank[easy.risk] <= RiskRank[hard.risk]
              /\ easy.context_tokens <= hard.context_tokens
              /\ easy.min_health <= hard.min_health)
             => Routes(models, hard) \subseteq Routes(models, easy)
        /\ Routes(models, hard) # {} =>
             /\ {route.model} \cup ToSet(route.fallback) = Routes(models, hard)
             /\ \A m \in ToSet(route.fallback) : score[m] <= score[route.model]
             /\ RouteVerifies(models, route)
             /\ RouteVerifies(Models, route) <=> models = Models

\* What is summed up of the observations of a mission is all of them: none is
\* lost or counted twice, and 95 of 100 answers came within the latency that is
\* given, fewer within any shorter one.
Answers ==
  {[status |-> "success", latency_ms |-> 3, tokens |-> 2, at |-> 1],
   [status |-> "failed", latency_ms |-> 8, tokens |-> 1, at |-> 2, failure |-> "tool_failure"],
   [status |-> "blocked", latency_ms |-> 5, tokens |-> 0, at |-> 3]}
Observations ==
  {Observe([registry |-> Models, model |-> m, host |-> Models[m].host], r) :
     m \in DOMAIN Models, r \in Answers}
ASSUME SummariesAddUp ==
  \A n \in 1..3 : \A seen \in [1..n -> Observations] :
    LET summary == Summaries(seen)
        total(f) == FoldFunction(LAMBDA s, sum : s[f] + sum, 0, summary)
    IN  /\ \A o \in ToSet(seen) : ObservationVerifies(Models, o)
        /\ total("observations") = n /\ total("successes") + total("failures") = n
        /\ total("tokens") = FoldSeq(LAMBDA o, sum : o.tokens + sum, 0, seen)
        /\ \A m \in DOMAIN summary :
             LET s == summary[m] IN
             /\ s.failures = FoldFunction(LAMBDA k, sum : k + sum, 0, s.failure_types)
             /\ \E o \in ToSet(seen) : o.model = m /\ o.at = s.last_observed_at
ASSUME PercentilesAreNearest ==
  \A n \in {1, 2, 19, 20, 21, 40}, tail \in 0..3 :
    LET values == [k \in 1..n |-> IF k <= n - tail THEN ((k * 7) % n) + 1 ELSE 100 + k]
        p == Percentile95(values)
        within(limit) == Cardinality({k \in 1..n : values[k] <= limit})
    IN  100 * within(p) >= 95 * n /\ 100 * within(p - 1) < 95 * n

\* However the roles of a contract go on with it, it is completed by a consumer
\* that is not its producer, with what was asked for, and what was completed,
\* rejected or cancelled stays so; but one of several consumers is enough, and
\* one that was blocked is open again when anybody acknowledges it.
Parties == {"dev", "ops", "qa"}
Moves == Transitions \X Parties \X SUBSET {"outputs", "evidence"}
After(c) == {Transition(c, m[1], m[2]) : m \in {n \in Moves : MayTransition(c, n[1], n[2], n[3])}}
Made ==
  {Contract(<<"k">>, type, "dev", consumers, {}) :
     type \in {"dependency_handoff", "impact_followup"},
     consumers \in {S \in SUBSET Parties : MayCreate("dev", S)}}
Reached == LET step(S) == S \cup UNION {After(c) : c \in S} IN step(step(step(Made)))
ASSUME ContractsAreSettledByOthers ==
  /\ \A c \in Reached :
       /\ c.status \in {"completed", "rejected", "cancelled"} => After(c) = {}
       /\ c.status = "acknowledged" => c.acks = c.consumers
       /\ MayHandOff(c) <=> Open(c)
       /\ MayHandOff(c) => "dev" \notin Handoff(c, 1, 1).consumers
       /\ \A given \in SUBSET {"outputs", "evidence"} :
            MayTransition(c, "complete", "qa", given) => AsksFor(c.type) \subseteq given
  /\ \E c \in Reached : c.status = "completed" /\ c.acks = {} /\ c.consumers = {"ops", "qa"}
  /\ \E c \in Reached : c.status = "blocked" /\ \E d \in After(c) : Open(d)

\* A contract that was completed with evidence is shown without.
Show == INSTANCE Projection
ASSUME EvidenceIsNotShown ==
  \A c \in Reached :
    LET kept == WithDefaults(c, [work_item |-> 1]) IN
    Show!ContractSummary(WithDefaults(kept, [completion |-> [evidence |-> {"report"}]])).evidence_count = 0

\* The summary accounts for every contract but those that were cancelled, and
\* shows of each item the last of its routes and observations.
ViewOf(cs, os) ==
  Show!IntelligenceView([contracts |-> cs, packets |-> << >>, routes |-> os, observations |-> os,
                         impacts |-> << >>, verifications |-> << >>])
ASSUME SummariesAreComplete ==
  /\ \A cs \in [1..2 -> {WithDefaults(c, [work_item |-> 1]) : c \in Reached}] :
       LET shown == ViewOf(cs, << >>).collaboration IN
       shown.pending + shown.blocked + shown.completed
         = Cardinality({k \in 1..2 : cs[k].status # "cancelled"})
  /\ \A seen \in [1..2 -> Observations] :
       LET os == [k \in 1..2 |-> WithDefaults(seen[k], [work_item |-> seen[k].at])]
           routing == ViewOf(<< >>, os).routing
       IN  routing.latest[seen[2].at] = os[2] /\ routing.models = Summaries(seen)

Symmetric == Permutations(Driver)
===============================================================================

------------------------------ MODULE ModelRouter ------------------------------
(***************************************************************************)
(* The choice of a model for a work item, and what is made of the reports    *)
(* of the models (standalone/runtime/intelligence/model-router.mjs).         *)
(*                                                                           *)
(* A registry maps models to what they may be used for.  Qualities are in    *)
(* percent, and the formula of the score is left to the caller: the choice   *)
(* is made by any score of the eligible models.  The digest of a registry is *)
(* the registry, and a time is a number.                                     *)
(***************************************************************************)
LOCAL INSTANCE Naturals
LOCAL INSTANCE Sequences
LOCAL INSTANCE FiniteSets
LOCAL Seqs == INSTANCE SequencesExt
LOCAL Sets == INSTANCE FiniteSetsExt

RiskRank == [low |-> 0, medium |-> 1, high |-> 2, critical |-> 3]

RequiredByKind ==
  [triage |-> {"reasoning"}, direct |-> {"general"}, research |-> {"research"},
   plan |-> {"reasoning", "planning"}, develop |-> {"coding"},
   verify |-> {"verification", "reasoning"}, synthesize |-> {"reasoning"},
   join |-> {}, human_approval |-> {}]

WithDefaults(default, given) ==
  [f \in DOMAIN default \cup DOMAIN given |->
     IF f \in DOMAIN given THEN given[f] ELSE default[f]]

\* normalizeEntry: nothing is presumed but a healthy model of middling quality,
\* for data that is not confidential.
Entry(raw) ==
  WithDefaults([host |-> raw.provider, enabled |-> TRUE, capabilities |-> {},
        data_classifications |-> {"public", "internal"}, risk_ceiling |-> "medium",
        max_context_tokens |-> 16000, quality |-> 50, reliability |-> 50, health |-> 100,
        latency_ms |-> 1000, input_cost |-> 0, output_cost |-> 0], raw)

\* route: a request without the fields that the fabric seldom sets.
Request(raw) ==
  WithDefaults([risk |-> "low", classification |-> "internal", context_tokens |-> 0,
        expected_output_tokens |-> 4000, required_capabilities |-> {}, max_cost |-> "any",
        min_health |-> 25, allowed_hosts |-> {}, allowed_models |-> {}], raw)

Required(request) ==
  RequiredByKind[request.kind] \cup request.required_capabilities \cup {"structured_output"}

EstimatedCost(entry, request) ==
  (request.context_tokens * entry.input_cost
     + request.expected_output_tokens * entry.output_cost + 999999) \div 1000000

Eligible(registry, m, request) ==
  LET entry == registry[m] IN
  /\ entry.enabled
  /\ entry.health >= request.min_health
  /\ request.classification \in entry.data_classifications
  /\ RiskRank[entry.risk_ceiling] >= RiskRank[request.risk]
  /\ entry.max_context_tokens >= request.context_tokens
  /\ Required(request) \subseteq entry.capabilities
  /\ request.max_cost # "any" => EstimatedCost(entry, request) <= request.max_cost
  /\ request.allowed_hosts # {} => entry.host \in request.allowed_hosts
  /\ request.allowed_models # {} => m \in request.allowed_models

\* route() throws if there is none.
Routes(registry, request) == {m \in DOMAIN registry : Eligible(registry, m, request)}

\* The eligible models, the best first.  Of two that are equally good the more
\* reliable one is better, and then the one whose name comes first in names.
Ranked(registry, request, score, names) ==
  LET place(m) == CHOOSE k \in DOMAIN names : names[k] = m
      better(m, n) ==
        IF score[m] # score[n] THEN score[m] > score[n]
        ELSE IF registry[m].reliability # registry[n].reliability
             THEN registry[m].reliability > registry[n].reliability
             ELSE place(m) < place(n)
  IN  Seqs!SetToSortSeq(Routes(registry, request), better)

Route(registry, request, score, names) ==
  LET ranked == Ranked(registry, request, score, names) IN
  [registry |-> registry, model |-> ranked[1], host |-> registry[ranked[1]].host,
   fallback |-> SubSeq(ranked, 2, IF Len(ranked) < 6 THEN Len(ranked) ELSE 6),
   rejected |-> DOMAIN registry \ Routes(registry, request)]

\* verify: the router that looks at a decision has the registry it was made by.
RouteVerifies(registry, decision) ==
  decision.registry = registry /\ decision.model \in DOMAIN registry

-----------------------------------------------------------------------------
(* What the reports of the models say *)

Observe(decision, report) ==
  [registry |-> decision.registry, model |-> decision.model, host |-> decision.host,
   success |-> report.status = "success",
   failure |-> IF report.status = "success" THEN "none"
               ELSE IF "failure" \in DOMAIN report THEN report.failure ELSE "unknown_failure",
   latency_ms |-> report.latency_ms, tokens |-> report.tokens, at |-> report.at]

ObservationVerifies(registry, o) ==
  /\ o.registry = registry /\ o.model \in DOMAIN registry
  /\ registry[o.model].host = o.host

\* The least value that is not less than 95 percent of the values are.
Percentile95(values) ==
  LET ordered == Seqs!SortSeq(values, <)
      place == (Len(values) * 95 + 99) \div 100
  IN  IF values = <<>> THEN 0 ELSE ordered[IF place < Len(values) THEN place ELSE Len(values)]

\* summarizeObservations: one summary for each model that was observed.
Summaries(observations) ==
  [m \in {o.model : o \in Seqs!ToSet(observations)} |->
     LET own == SelectSeq(observations, LAMBDA o : o.model = m)
         count(P(_)) == Len(SelectSeq(own, P))
         total(f) == Seqs!FoldSeq(LAMBDA o, sum : o[f] + sum, 0, own)
     IN  [observations |-> Len(own),
          successes |-> count(LAMBDA o : o.success),
          failures |-> count(LAMBDA o : ~o.success),
          failure_types |-> [t \in {o.failure : o \in Seqs!ToSet(own)} \ {"none"} |->
                               count(LAMBDA o : o.failure = t)],
          average_latency_ms |-> (2 * total("latency_ms") + Len(own)) \div (2 * Len(own)),
          p95_latency_ms |-> Percentile95([k \in DOMAIN own |-> own[k].latency_ms]),
          tokens |-> total("tokens"),
          last_observed_at |-> Sets!Max({o.at : o \in Seqs!ToSet(own)})]]

\* withObservations: the registry of a new router.
WithObservations(registry, observed) ==
  [m \in DOMAIN registry |->
     IF m \in DOMAIN observed THEN WithDefaults(registry[m], observed[m]) ELSE registry[m]]
===============================================================================

------------------------------- MODULE Projection -------------------------------
(***************************************************************************)
(* What the dashboards show of a mission and of an organization's run:       *)
(* standalone/runtime/observability/projection.mjs and contracts.mjs.        *)
(*                                                                           *)
(* A state has the items of the mission in their order, the histories of its *)
(* failures, routes and approvals, and the record of the intelligence        *)
(* fabric.  What is only copied is left out, and a digest is no part of it.  *)
(***************************************************************************)
LOCAL INSTANCE Naturals
LOCAL INSTANCE Sequences
LOCAL INSTANCE FiniteSets
LOCAL INSTANCE FiniteSetsExt
LOCAL INSTANCE SequencesExt
LOCAL INSTANCE ModelRouter

LOCAL Restricted(record, fields) == [f \in DOMAIN record \cap fields |-> record[f]]
LOCAL LastOf(s, n) == SubSeq(s, IF Len(s) > n THEN Len(s) - n + 1 ELSE 1, Len(s))
LOCAL Number(s, P(_)) == Cardinality({k \in DOMAIN s : P(s[k])})

-----------------------------------------------------------------------------
(* contracts.mjs *)

RunStates ==
  {"planned", "queued", "active", "paused", "waiting_approval", "completed_clean",
   "completed_with_recovery", "simulation_complete", "partial", "failed", "denied", "aborted"}

NodeStates ==
  {"blocked", "pending", "ready", "running", "paused", "waiting_approval", "completed",
   "failed", "skipped", "cancelled"}

\* A failure is made good by a later attempt of its item, or is marked so.
IsResolved(state, f) ==
  \/ f.status = "resolved"
  \/ /\ f.item \in DOMAIN state.items
     /\ state.items[f.item].status = "completed" /\ state.items[f.item].attempts > f.attempt

Failures(state) ==
  [historical |-> state.failures,
   resolved |-> SelectSeq(state.failures, LAMBDA f : IsResolved(state, f)),
   unresolved |-> SelectSeq(state.failures, LAMBDA f : ~IsResolved(state, f))]

WasDenied(state) ==
  \/ \E a \in ToSet(state.approvals) : a.status = "denied"
  \/ \E f \in ToSet(Failures(state).unresolved) : f.type = "approval_denied"

\* A mission that was paused is shown as paused, whatever has become of it.
RunStatus(state) ==
  IF state.paused \/ state.status = "paused" THEN "paused"
  ELSE IF state.status = "simulated" THEN "simulation_complete"
  ELSE IF state.status = "completed"
       THEN IF state.failures = << >> THEN "completed_clean" ELSE "completed_with_recovery"
  ELSE IF state.status = "failed" /\ WasDenied(state) THEN "denied"
  ELSE IF state.status \in RunStates THEN state.status ELSE "failed"

NodeStatus(item, state) ==
  IF state.paused /\ item.status = "running" THEN "paused"
  ELSE IF item.status \in NodeStates THEN item.status ELSE "pending"

-----------------------------------------------------------------------------
(* projection.mjs *)

Public(approval) == Restricted(approval, DOMAIN approval \ {"challenge"})

Progress(items) ==
  LET completed == Number(items, LAMBDA i : i.status \in {"completed", "skipped"})
      total == Max({1, Len(items)})
  IN  [completed |-> completed, total |-> total,
       terminal |-> Number(items, LAMBDA i : i.status \in
                             {"completed", "failed", "blocked", "skipped", "cancelled"}),
       percent |-> (200 * completed + total) \div (2 * total)]

NextNodes(items) ==
  LET done == {i \in DOMAIN items : items[i].status = "completed"} IN
  {i \in DOMAIN items :
     /\ items[i].status = "pending"
     /\ items[i].dependencies = {}
        \/ IF items[i].join = "all" THEN items[i].dependencies \subseteq done
           ELSE items[i].dependencies \cap done # {}}

\* A loop is what its routes have in common, as the last of them leaves it.
Loop(own) ==
  [source |-> Head(own).from, target |-> Head(own).to, failure_type |-> Head(own).failure_type,
   entered_at |-> Head(own).at, last_at |-> Last(own).at, status |-> Last(own).status,
   iteration |-> Max({r.iteration : r \in ToSet(own)}), max_iterations |-> Last(own).max_iterations]

Loops(routes) ==
  [id \in {r.loop : r \in ToSet(routes)} |-> Loop(SelectSeq(routes, LAMBDA r : r.loop = id))]

Nodes(state) ==
  [i \in DOMAIN state.items |->
     WithDefaults(Restricted(state.items[i], {"kind", "role", "attempts", "max_attempts"}),
                  [status |-> NodeStatus(state.items[i], state)])]

Edges(state) ==
  {[from |-> j, to |-> i, kind |-> "dependency", active |-> FALSE] :
     <<j, i>> \in {e \in (DOMAIN state.items) \X (DOMAIN state.items) :
                     e[1] \in state.items[e[2]].dependencies}}
  \cup {[from |-> r.from, to |-> r.to, kind |-> "retry", active |-> r.status # "exited",
         failure_type |-> r.failure_type, iteration |-> r.iteration] : r \in ToSet(state.routes)}

Graph(state) ==
  [nodes |-> Nodes(state), edges |-> Edges(state), next |-> NextNodes(state.items),
   current |-> {i \in DOMAIN state.items :
                  Nodes(state)[i].status \in {"running", "paused", "waiting_approval", "failed"}}]

-----------------------------------------------------------------------------
(* intelligenceProjection *)

\* The last record of each work item.
Latest(records) ==
  [w \in {r.work_item : r \in ToSet(records)} |->
     Last(SelectSeq(records, LAMBDA r : r.work_item = w))]

\* The evidence is looked for where no contract has it: complete() keeps it
\* in the contract's completion.
ContractSummary(c) ==
  [work_item |-> c.work_item, type |-> c.type, status |-> c.status, producer |-> c.producer,
   consumers |-> c.consumers, acknowledgement_count |-> Cardinality(c.acks),
   evidence_count |-> IF "evidence" \in DOMAIN c THEN Cardinality(c.evidence) ELSE 0,
   output_count |-> IF "outputs" \in DOMAIN c THEN Cardinality(c.outputs) ELSE 0]

ContextSummary(p) ==
  Restricted(p, {"work_item", "role", "classification", "byte_size", "stale", "dropped"})

IntelligenceView(intel) ==
  LET summaries == [k \in DOMAIN intel.contracts |-> ContractSummary(intel.contracts[k])]
      contexts == [k \in DOMAIN intel.packets |-> ContextSummary(intel.packets[k])]
      with(S) == Number(summaries, LAMBDA c : c.status \in S)
      impacts == LastOf(intel.impacts, 500)
  IN [contexts |-> [total |-> Len(contexts), latest |-> Latest(contexts),
                    packets |-> LastOf(contexts, 500)],
      routing |-> [total |-> Len(intel.routes), latest |-> Latest(intel.routes),
                   decisions |-> LastOf(intel.routes, 500),
                   observation_total |-> Len(intel.observations),
                   latest_observation |-> Latest(intel.observations),
                   observations |-> LastOf(intel.observations, 1000),
                   models |-> Summaries(intel.observations)],
      collaboration |-> [contracts |-> LastOf(summaries, 1000),
                         pending |-> with({"proposed", "acknowledged"}),
                         blocked |-> with({"blocked", "rejected"}),
                         completed |-> with({"completed"})],
      knowledge |-> [impacts |-> impacts,
                     actionable_impacts |-> Number(impacts, LAMBDA m : m.action_required)],
      verification |-> LastOf(intel.verifications, 500)]

-----------------------------------------------------------------------------
MissionView(state) ==
  [status |-> RunStatus(state), raw_status |-> state.status, gate |-> state.gate,
   progress |-> Progress(state.items), graph |-> Graph(state), loops |-> Loops(state.routes),
   active_loops |-> Cardinality({id \in DOMAIN Loops(state.routes) :
                                   Loops(state.routes)[id].status = "active"}),
   exhausted_loops |-> Cardinality({id \in DOMAIN Loops(state.routes) :
                                      Loops(state.routes)[id].status = "exhausted"}),
   failures |-> Failures(state),
   approvals |-> [pending |-> {Public(a) : a \in {b \in ToSet(state.approvals) : b.status = "pending"}},
                  decided |-> {Public(a) : a \in {b \in ToSet(state.approvals) : b.status # "pending"}}]]

\* osProjection, of a run and the views of its missions.
OsView(os, missions) ==
  [status |-> IF os.status = "completed" THEN "completed_clean"
              ELSE IF os.status = "failed" /\ \E a \in os.approvals : a.status = "denied"
              THEN "denied" ELSE os.status,
   gate |-> os.gate,
   cycles |-> [k \in DOMAIN missions |->
                 [status |-> missions[k].status, gate |-> missions[k].gate,
                  failures |-> Len(missions[k].failures.unresolved)]],
   approvals |-> {Public(a) : a \in os.approvals}]
===============================================================================

---------------------------- MODULE GraphRuntime ----------------------------
(***************************************************************************)
(* A dynamic graph run: server/lib/graph-runtime.mjs.                        *)
(*                                                                           *)
(* Clients (the kernel, the MCP host, agents) claim and complete nodes,      *)
(* answer approvals and expand the graph.  Each of these calls is two        *)
(* transactions of the run store: reserve pays for the call, then a mutator  *)
(* does the work; other clients' calls come in between.                      *)
(*                                                                           *)
(* A mutator works on a copy of the record, run, which replaces the          *)
(* committed one, disk, when it returns; if it throws, the copy is dropped.  *)
(* RunStore shows that transactions do not interleave, so no other action    *)
(* is taken while phase is not "idle".  A mutator that routes goes through   *)
(*   activate   activate() on every edge selected by route(), in todo        *)
(*   advance    autoAdvance(), where scan is its position in the node list   *)
(*   commit     withRunTransaction writes the record                         *)
(*                                                                           *)
(* The actors are left out: two agents of one role are the same actor to the *)
(* code, so any client may complete what any other has claimed.  A critical  *)
(* failure is one of type security_risk: the code treats both alike.         *)
(***************************************************************************)
EXTENDS Naturals, Sequences, FiniteSets, GraphSpec

CONSTANTS
  Graph,         \* the run's graph and its limits, see GraphAssumption
  Clients,
  Routes,        \* what a node may answer as output.route
  FailureTypes,  \* the failure types a node may report
  Signatures,    \* the failure signatures
  MaxTools,      \* policy.max_tool_calls
  EarlyCalls,    \* may others call before startGraphRun has returned the run id?
  MaxFaults      \* bound on the calls that die or are rejected

Node == DOMAIN Graph.node
Listed == {Graph.order[i] : i \in DOMAIN Graph.order}
Tasks == Node \ Listed   \* the nodes that expandGraph may add

\* The values that conditions of edges compare with.
Values == {"", "success"} \cup {e.value : e \in Graph.edges}

Edge == [from : Node, to : Node, type : ConditionTypes \cup {"synthetic"},
         value : Values, priority : Nat]

\* The edge ids `synthetic-...` that stand for no edge of the graph.
Synthetic(n, m) ==
  [from |-> n, to |-> m, type |-> "synthetic", value |-> "", priority |-> 0]

Spawned(p, t) == [from |-> p, to |-> t, type |-> "outcome", value |-> "success",
                  priority |-> 100]

Done == {"succeeded", "failed", "blocked"}
NodeStatus == {"pending", "ready", "waiting_approval", "running"} \cup Done
Live == {"active", "waiting_approval"}
Ended == {"finalized", "failed", "budget_exceeded", "aborted"}
Ops == {"claim", "complete", "resolve", "expand"}
Calls == Ops \cup {"start", "none"}

SpecOf(nodes, edges) ==
  [nodes |-> nodes, edges |-> edges, entry |-> Graph.entry,
   kind |-> [n \in Node |-> Graph.node[n].kind],
   terminal |-> [n \in Node |-> Graph.node[n].terminal],
   verification |-> Graph.verification]

GraphAssumption ==
  /\ \A n \in Node :
       Graph.node[n] \in
         [kind : Kinds, approval : BOOLEAN, join : {"any", "all"},
          joinFrom : SUBSET Node, attempts : Nat \ {0}, auto : BOOLEAN,
          route : STRING, terminal : {"none", "success", "partial", "failed"}]
  /\ Graph.order \in Seq(Node)
  /\ Graph.entry \in Listed
  /\ Graph.edges \subseteq Edge
  /\ Graph.parallel \in Nat \ {0} /\ Graph.visits \in Nat \ {0}
  /\ Graph.steps \in Nat /\ Graph.dynamic \in Nat
  /\ Graph.verification \in BOOLEAN
  /\ ValidGraphSpec(SpecOf(Listed, Graph.edges))
  /\ \A n \in Tasks : /\ Graph.node[n].kind \in {"research", "develop", "verify"}
                      /\ ~Graph.node[n].approval /\ Graph.node[n].join = "any"

ASSUME RuntimeAssumption ==
  /\ GraphAssumption /\ IsFiniteSet(Node)
  /\ MaxTools \in Nat /\ EarlyCalls \in BOOLEAN /\ MaxFaults \in Nat

VARIABLES
  disk,    \* the committed record of the run
  run,     \* the mutator's copy
  phase,   \* "idle", or what the mutator is doing
  todo,    \* the edges still to activate
  scan,    \* autoAdvance's position, NoScan outside of it
  calls,   \* calls[c]: the call client c has reserved and not yet executed
  late,    \* deadline_at has passed
  faults   \* dead or rejected calls so far

vars == <<disk, run, phase, todo, scan, calls, late, faults>>

NoScan == [on |-> FALSE, at |-> 1, sweep |-> 1, changed |-> FALSE]

\* readyNodes and friends: the nodes of r in status s.
In(r, s) == {n \in Node : r.node[n].status = s}
LiveNodes(r) == Listed \cup r.dynamic
-------------------------------------------------------------------------------
(* startGraphRun *)

NodeState ==
  [status |-> "pending", attempts |-> 0, visits |-> 0, incoming |-> {}, passed |-> FALSE]

\* The state of a node that a call tries once, and leaves in status st.
Tried(x, st) == [x EXCEPT !.status = st, !.attempts = @ + 1]

InitialRun ==
  [status   |-> "active",
   node     |-> [n \in Node |-> IF n = Graph.entry
                                THEN [NodeState EXCEPT !.status = "ready", !.visits = 1]
                                ELSE NodeState],
   edges    |-> Graph.edges,
   dynamic  |-> {},
   join     |-> [n \in Node |-> Graph.node[n].join],
   joinFrom |-> [n \in Node |-> Graph.node[n].joinFrom],
   pending  |-> {},                            \* nodes with a pending approval
   approved |-> {},                            \* nodes approved so far
   counts   |-> [n \in Node |-> [s \in Signatures |-> 0]],
   tools    |-> 0,
   steps    |-> 0,
   final    |-> "none",
   quality  |-> FALSE]

\* A client's startGraphRun has committed the record with createRun; it has yet
\* to advance it in a transaction of its own.
Init ==
  /\ disk = InitialRun /\ run = InitialRun
  /\ phase = "idle" /\ todo = {} /\ scan = NoScan
  /\ \E c \in Clients : calls = [d \in Clients |-> IF d = c THEN "start" ELSE "none"]
  /\ late = FALSE /\ faults = 0

\* Other clients have the run's id: from startGraphRun's result or, earlier,
\* from pg_get_active_run.
Known == EarlyCalls \/ \A c \in Clients : calls[c] # "start"

\* A mutator that returns without routing: r is committed.
Write(r) ==
  /\ disk' = r /\ run' = r
  /\ UNCHANGED <<phase, todo, scan>>

\* A mutator that throws: its copy is dropped.
Rollback ==
  /\ run' = disk /\ phase' = "idle" /\ todo' = {} /\ scan' = NoScan
-------------------------------------------------------------------------------
(* route: which edges are taken, and what happens when there are none *)

Context(n, outcome, out, passed, failure) ==
  [outcome |-> outcome, route |-> out.route, approval |-> out.approval,
   verification |-> IF Graph.node[n].kind # "verify" THEN "none"
                    ELSE IF passed THEN "passed" ELSE "failed",
   failure_type |-> failure]

ConditionMatches(e, ctx) == e.type = "always" \/ ctx[e.type] = e.value

Selected(r, n, ctx) ==
  LET matches    == {e \in r.edges : e.from = n /\ ConditionMatches(e, ctx)}
      specific   == {e \in matches : e.type # "always"}
      candidates == IF specific # {} THEN specific ELSE matches
  IN  {e \in candidates : \A f \in candidates : f.priority <= e.priority}

\* Mutant of Terminals: the status of the terminal is not looked at.
AnyTerminal(status) == {n \in Listed : Graph.node[n].kind = "terminal"}

Terminals(status) ==
  {n \in Listed : Graph.node[n].kind = "terminal" /\ Graph.node[n].terminal = status}

\* nodes.find(...): the first of S in the list, as a set of at most one.
FirstOf(S) ==
  {n \in S : \E i \in DOMAIN Graph.order :
               Graph.order[i] = n /\ \A j \in 1..(i - 1) : Graph.order[j] \notin S}

Fallback ==
  FirstOf(IF Terminals("partial") # {} THEN Terminals("partial") ELSE Terminals("failed"))

\* Mutant of Route: a node without a matching edge leads nowhere.
RouteMatching(r, n, ctx) ==
  LET edges == Selected(r, n, ctx) IN
  /\ Cardinality(edges) <= Graph.parallel
  /\ run' = r /\ todo' = edges /\ phase' = "activate"

\* r is the record with n completed.  A fan-out above the limit throws.
Route(r, n, ctx) ==
  LET edges == Selected(r, n, ctx) IN
  \/ /\ edges # {} /\ Cardinality(edges) <= Graph.parallel
     /\ run' = r /\ todo' = edges /\ phase' = "activate"
  \/ /\ edges = {} /\ Terminals("failed") # {}
     /\ run' = r /\ todo' = {Synthetic(n, t) : t \in FirstOf(Terminals("failed"))}
     /\ phase' = "activate"
  \/ /\ edges = {} /\ Terminals("failed") = {}
     /\ run' = [r EXCEPT !.status = "failed"] /\ todo' = {} /\ phase' = "activate"

FanOutExceeded(r, n, ctx) == Cardinality(Selected(r, n, ctx)) > Graph.parallel
-------------------------------------------------------------------------------
(* activate *)

\* Mutant of JoinReady: every join is an any-join.
JoinAny(r, n, trigger) == TRUE

JoinReady(r, n, trigger) ==
  \/ r.join[n] = "any"
  \/ r.node[n].attempts > 0 /\ r.joinFrom[n] # {} /\ trigger \notin r.joinFrom[n]
  \/ LET sources == IF r.joinFrom[n] # {} THEN r.joinFrom[n]
                    ELSE {e.from : e \in {f \in r.edges : f.to = n}}
     IN  sources \subseteq {e.from : e \in r.node[n].incoming \cap r.edges}

\* Mutant of Exhausted: loops are not counted.
NeverExhausted(r, n) == FALSE

Exhausted(r, n) ==
  /\ r.node[n].status \in Done
  /\ r.node[n].attempts >= Graph.node[n].attempts \/ r.node[n].visits >= Graph.visits

\* The record with edge e noted at its target, which is reset if it was done.
Note(r, e) ==
  LET x == r.node[e.to]
      y == IF x.status \in Done
           THEN [NodeState EXCEPT !.attempts = x.attempts, !.visits = x.visits]
           ELSE x
      z == [y EXCEPT !.incoming = @ \cup {e}]
  IN  [r EXCEPT !.node[e.to] = z]

Gated(n) == Graph.node[n].kind = "human_approval" \/ Graph.node[n].approval

\* Mutant of Wake: no approval is requested.
WakeUnasked(r, n) ==
  [r EXCEPT !.node[n] = [r.node[n] EXCEPT !.visits = @ + 1, !.status = "ready"]]

\* The record with n woken up: ready, or waiting for an approval.
Wake(r, n) ==
  LET x == [r.node[n] EXCEPT !.visits = @ + 1,
                             !.status = IF Gated(n) THEN "waiting_approval" ELSE "ready"]
  IN  IF Gated(n)
      THEN [r EXCEPT !.node[n] = x, !.pending = @ \cup {n}, !.status = "waiting_approval"]
      ELSE [r EXCEPT !.node[n] = x]

\* The target has used up its attempts: the run heads for a terminal instead.
GiveUp(e) ==
  /\ phase = "activate" /\ e \in todo /\ Exhausted(run, e.to)
  /\ todo' = (todo \ {e}) \cup {Synthetic(e.to, t) : t \in Fallback \ {e.to}}
  /\ UNCHANGED <<disk, run, phase, scan, calls, late, faults>>

Activate(e) ==
  /\ phase = "activate" /\ e \in todo /\ ~Exhausted(run, e.to)
  /\ LET r == Note(run, e) IN
       run' = IF JoinReady(r, e.to, e.from) /\ r.node[e.to].status = "pending"
              THEN Wake(r, e.to) ELSE r
  /\ todo' = todo \ {e}
  /\ UNCHANGED <<disk, phase, scan, calls, late, faults>>

\* route() returns to autoAdvance, or to a mutator that calls it if the run is
\* still active.
Routed ==
  /\ phase = "activate" /\ todo = {}
  /\ IF run.status # "failed" /\ (scan.on \/ run.status = "active")
     THEN phase' = "advance" /\ scan' = [scan EXCEPT !.on = TRUE]
     ELSE phase' = "commit" /\ scan' = NoScan
  /\ UNCHANGED <<disk, run, todo, calls, late, faults>>
-------------------------------------------------------------------------------
(* autoAdvance *)

Automatic(n) ==
  /\ run.node[n].status = "ready"
  /\ Graph.node[n].kind = "terminal" \/ (Graph.node[n].kind = "triage" /\ Graph.node[n].auto)

\* The next position of this sweep with something to do.
AtNode(i) ==
  /\ phase = "advance" /\ i \in scan.at..Len(Graph.order) /\ Automatic(Graph.order[i])
  /\ \A j \in scan.at..(i - 1) : ~Automatic(Graph.order[j])

AutoTriage(i) ==
  LET n == Graph.order[i]
      r == [run EXCEPT !.node[n] = Tried(@, "succeeded"), !.steps = @ + 1]
      ctx == Context(n, "success", [route |-> Graph.node[n].route, approval |-> "none"],
                     FALSE, "none")
  IN  /\ AtNode(i) /\ Graph.node[n].kind = "triage"
      /\ \/ /\ Route(r, n, ctx)
            /\ scan' = [scan EXCEPT !.at = i + 1, !.changed = TRUE]
         \/ FanOutExceeded(r, n, ctx) /\ Rollback
      /\ UNCHANGED <<disk, calls, late, faults>>

\* buildReport's verdict on record r at terminal n.
Quality(r, n) ==
  /\ Graph.node[n].terminal = "success"
  /\ \E v \in LiveNodes(r) : /\ Graph.node[v].kind = "verify"
                             /\ r.node[v].status = "succeeded" /\ r.node[v].passed
  /\ In(r, "failed") \cup In(r, "blocked") = {}
  /\ r.pending = {}

\* The state of a terminal node once it is reached.
Reached(x) == [x EXCEPT !.status = "succeeded",
                        !.attempts = IF @ = 0 THEN 1 ELSE @,
                        !.visits = IF @ = 0 THEN 1 ELSE @]

FinalizeTerminal(i) ==
  LET n == Graph.order[i]
      r == [run EXCEPT !.node[n] = Reached(@)]
  IN  /\ AtNode(i) /\ Graph.node[n].kind = "terminal"
      /\ run' = [r EXCEPT !.status = "finalized", !.final = Graph.node[n].terminal,
                          !.quality = Quality(r, n)]
      /\ phase' = "commit" /\ scan' = NoScan
      /\ UNCHANGED <<disk, todo, calls, late, faults>>

\* The end of a sweep: another one if this one changed something, until the
\* safety bound.
SweepEnds ==
  /\ phase = "advance"
  /\ \A i \in scan.at..Len(Graph.order) : ~Automatic(Graph.order[i])
  /\ LET bound == 3 * Cardinality(LiveNodes(run)) IN
     IF scan.changed /\ scan.sweep < bound
     THEN /\ scan' = [scan EXCEPT !.at = 1, !.sweep = @ + 1, !.changed = FALSE]
          /\ UNCHANGED <<run, phase>>
     ELSE /\ run' = IF scan.sweep >= bound THEN [run EXCEPT !.status = "failed"] ELSE run
          /\ phase' = "commit" /\ scan' = NoScan
  /\ UNCHANGED <<disk, todo, calls, late, faults>>

Commit ==
  /\ phase = "commit"
  /\ disk' = run /\ phase' = "idle"
  /\ UNCHANGED <<run, todo, scan, calls, late, faults>>
-------------------------------------------------------------------------------
(* The calls of the clients *)

\* The graph that expandGraph makes of the committed one.
Expanded(p, j, ts) ==
  [disk EXCEPT
     !.edges = (@ \ {e \in @ : /\ e.from = p /\ e.to = j
                               /\ e.type = "outcome" /\ e.value = "success"})
               \cup {Spawned(p, t) : t \in ts} \cup {Spawned(t, j) : t \in ts},
     !.dynamic = @ \cup ts,
     !.join[j] = "all", !.joinFrom[j] = ts]

\* The status of the run is not looked at.
MayExpand(p, j, ts) ==
  /\ {p, j} \subseteq LiveNodes(disk)
  /\ Graph.node[p].kind = "plan" /\ Graph.node[j].kind \in {"develop", "verify", "plan"}
  /\ disk.node[p].status = "running" /\ disk.node[j].status = "pending"
  /\ ts # {} /\ ts \cap disk.dynamic = {} /\ Cardinality(ts) <= Graph.parallel
  /\ Cardinality(disk.dynamic) + Cardinality(ts) <= Graph.dynamic
  /\ LET r == Expanded(p, j, ts) IN ValidGraphSpec(SpecOf(LiveNodes(r), r.edges))

MayClaim(n) ==
  /\ disk.status = "active" /\ disk.node[n].status = "ready"
  /\ disk.node[n].attempts < Graph.node[n].attempts
  /\ Cardinality(In(disk, "running")) < Graph.parallel

\* Mutant of MayComplete: the status of the run is not looked at.
MayCompleteAnyway(n) == disk.node[n].status = "running"

MayComplete(n) == disk.status = "active" /\ disk.node[n].status = "running"

MayResolve(n) == disk.status = "waiting_approval" /\ n \in disk.pending

\* Some arguments with which the mutator of call o would succeed now.
Useful(o) ==
  CASE o = "claim"    -> \E n \in Node : MayClaim(n)
    [] o = "complete" -> \E n \in Node : MayComplete(n)
    [] o = "resolve"  -> \E n \in Node : MayResolve(n)
    [] o = "expand"   -> \E p \in In(disk, "running"), j \in In(disk, "pending"),
                            ts \in SUBSET Tasks : MayExpand(p, j, ts)
    [] OTHER          -> TRUE

\* The first transaction of a call.  A client makes the calls that it sees to
\* be useful; they may be useless by the time the second one runs.
Reserve(c, o) ==
  /\ phase = "idle" /\ calls[c] = "none" /\ Known
  /\ disk.status \in (IF o = "resolve" THEN Live ELSE {"active"})
  /\ Useful(o)
  /\ IF late \/ disk.tools >= MaxTools
     THEN Write([disk EXCEPT !.status = "budget_exceeded"]) /\ UNCHANGED calls
     ELSE Write([disk EXCEPT !.tools = @ + 1]) /\ calls' = [calls EXCEPT ![c] = o]
  /\ UNCHANGED <<late, faults>>

\* The second transaction of call o starts.
Execute(c, o) ==
  /\ phase = "idle" /\ calls[c] = o
  /\ calls' = [calls EXCEPT ![c] = "none"]
  /\ UNCHANGED <<late, faults>>

\* startGraphRun's transaction: autoAdvance, whatever the run's status is.
StartAdvance(c) ==
  /\ Execute(c, "start")
  /\ phase' = "advance" /\ scan' = [NoScan EXCEPT !.on = TRUE]
  /\ UNCHANGED <<disk, run, todo>>

ClaimGraphNode(c, n) ==
  /\ Execute(c, "claim") /\ MayClaim(n)
  /\ Write([disk EXCEPT !.node[n] = Tried(@, "running")])

\* What a node may answer.  The outputs of agents carry no approval.
Answers(n) ==
  {a \in [outcome : {"success", "failed", "blocked"}, route : Routes \cup {"none"},
          passed : BOOLEAN, failure : FailureTypes \cup {"none"}, signature : Signatures] :
     /\ (a.outcome = "failed") <=> (a.failure # "none")
     /\ Graph.node[n].kind = "verify" /\ a.outcome = "success" => a.passed
     /\ Graph.node[n].kind # "verify" \/ a.outcome = "failed" => ~a.passed}

\* adaptiveFailure: repeated is the number of failures with this signature.
Effective(failure, repeated) ==
  IF failure = "none" THEN "none"
  ELSE IF failure = "security_risk" \/ repeated >= 3 THEN "security_risk"
  ELSE IF repeated >= 2 /\ failure = "implementation_error" THEN "design_error"
  ELSE failure

Answered(x, a) ==
  [x EXCEPT !.status = IF a.outcome = "success" THEN "succeeded" ELSE a.outcome,
            !.passed = a.passed]

\* The record with n completed with answer a; failures are counted up to three.
Completed(n, a) ==
  [disk EXCEPT
     !.node[n] = Answered(@, a),
     !.steps = @ + 1,
     !.counts[n][a.signature] =
        IF a.outcome = "failed" /\ disk.steps < Graph.steps /\ @ < 3 THEN @ + 1 ELSE @]

CompleteGraphNode(c, n, a) ==
  LET r   == Completed(n, a)
      ctx == Context(n, a.outcome, [route |-> a.route, approval |-> "none"], a.passed,
                     Effective(a.failure, r.counts[n][a.signature]))
  IN  /\ Execute(c, "complete") /\ MayComplete(n)
      /\ \/ /\ r.steps > Graph.steps
            /\ Write([r EXCEPT !.status = "budget_exceeded"])
         \/ /\ r.steps <= Graph.steps
            /\ Route(r, n, ctx) /\ UNCHANGED <<disk, scan>>
         \/ /\ r.steps <= Graph.steps
            /\ FanOutExceeded(r, n, ctx) /\ Rollback /\ UNCHANGED disk

\* Mutant of Resolved: the approval stays pending.
ResolvedButPending(n, decision) ==
  [disk EXCEPT
     !.approved = IF decision = "approved" THEN @ \cup {n} ELSE @,
     !.node[n] = Tried(@, IF decision = "approved" THEN "succeeded" ELSE "blocked"),
     !.status = "active",
     !.steps = @ + 1]

\* The node itself is done with the answer; the run is active again, whatever
\* else is waiting.
Resolved(n, decision) ==
  [disk EXCEPT
     !.pending = @ \ {n},
     !.approved = IF decision = "approved" THEN @ \cup {n} ELSE @,
     !.node[n] = Tried(@, IF decision = "approved" THEN "succeeded" ELSE "blocked"),
     !.status = "active",
     !.steps = @ + 1]

ResolveGraphApproval(c, n, decision) ==
  LET r   == Resolved(n, decision)
      ctx == Context(n, IF decision = "approved" THEN "success" ELSE "blocked",
                     [route |-> "none", approval |-> decision], FALSE, "none")
  IN  /\ Execute(c, "resolve") /\ MayResolve(n)
      /\ \/ Route(r, n, ctx) /\ UNCHANGED <<disk, scan>>
         \/ FanOutExceeded(r, n, ctx) /\ Rollback /\ UNCHANGED disk

ExpandGraph(c, p, j, ts) ==
  /\ Execute(c, "expand") /\ MayExpand(p, j, ts)
  /\ Write(Expanded(p, j, ts))

\* Another call has made this one useless, and its mutator throws.
Reject(c) ==
  /\ calls[c] # "none" /\ ~Useful(calls[c])
  /\ Execute(c, calls[c])
  /\ UNCHANGED <<disk, run, phase, todo, scan>>

\* The client dies between its two transactions, or its arguments are wrong.
Drop(c) ==
  /\ phase = "idle" /\ calls[c] # "none" /\ faults < MaxFaults
  /\ calls' = [calls EXCEPT ![c] = "none"]
  /\ faults' = faults + 1
  /\ UNCHANGED <<disk, run, phase, todo, scan, late>>

AbortGraphRun ==
  /\ phase = "idle" /\ Known /\ disk.status \notin {"finalized", "aborted"}
  /\ Write([disk EXCEPT !.status = "aborted"])
  /\ UNCHANGED <<calls, late, faults>>

DeadlinePasses ==
  /\ ~late /\ late' = TRUE
  /\ UNCHANGED <<disk, run, phase, todo, scan, calls, faults>>
-------------------------------------------------------------------------------
Mutator ==
  \/ \E e \in todo : GiveUp(e) \/ Activate(e)
  \/ Routed
  \/ \E i \in DOMAIN Graph.order : AutoTriage(i) \/ FinalizeTerminal(i)
  \/ SweepEnds \/ Commit

Client(c) ==
  \/ StartAdvance(c)
  \/ \E o \in Ops : Reserve(c, o)
  \/ \E n \in In(disk, "ready") : ClaimGraphNode(c, n)
  \/ \E n \in In(disk, "running") : \E a \in Answers(n) : CompleteGraphNode(c, n, a)
  \/ \E n \in disk.pending, d \in {"approved", "denied"} : ResolveGraphApproval(c, n, d)
  \/ \E p \in In(disk, "running"), j \in In(disk, "pending"), ts \in SUBSET Tasks :
       ExpandGraph(c, p, j, ts)
  \/ Reject(c)

Next ==
  \/ Mutator
  \/ \E c \in Clients : Client(c) \/ Drop(c)
  \/ AbortGraphRun
  \/ DeadlinePasses

Spec == Init /\ [][Next]_vars

\* A mutator that has started runs on, and the clients keep working: the kernel
\* or the host executes what is ready, the human answers.
FairSpec == Spec /\ WF_vars(Mutator) /\ \A c \in Clients : WF_vars(Client(c))
-------------------------------------------------------------------------------
Record ==
  [status : Live \cup Ended,
   node : [Node -> [status : NodeStatus, attempts : Nat, visits : Nat,
                    incoming : SUBSET Edge, passed : BOOLEAN]],
   edges : SUBSET Edge, dynamic : SUBSET Tasks,
   join : [Node -> {"any", "all"}], joinFrom : [Node -> SUBSET Node],
   pending : SUBSET Node, approved : SUBSET Node,
   counts : [Node -> [Signatures -> 0..3]],
   tools : Nat, steps : Nat,
   final : {"none", "success", "partial", "failed"}, quality : BOOLEAN]

TypeOK ==
  /\ disk \in Record /\ run \in Record
  /\ phase \in {"idle", "activate", "advance", "commit"}
  /\ todo \subseteq Edge
  /\ scan \in [on : BOOLEAN, at : Nat, sweep : Nat, changed : BOOLEAN]
  /\ calls \in [Clients -> Calls]
  /\ late \in BOOLEAN /\ faults \in Nat

\* However the clients race, and whatever loops the graph has, no node is tried
\* more often than max_attempts or entered more often than max_route_visits, no
\* more than max_parallel_nodes run at once, and no more calls than
\* max_tool_calls are paid for.
WithinLimits ==
  /\ \A n \in Node : /\ disk.node[n].attempts <= Graph.node[n].attempts
                     /\ disk.node[n].visits <= Graph.visits
  /\ Cardinality(In(disk, "running")) <= Graph.parallel
  /\ disk.tools <= MaxTools
  /\ Cardinality(disk.dynamic) <= Graph.dynamic

\* A pending approval and the node that waits for it never part, and a run that
\* waits has something to wait for: resolveGraphApproval always finds its node
\* in the state it was left in.
ApprovalsMatchNodes ==
  /\ disk.pending = In(disk, "waiting_approval")
  /\ disk.status = "waiting_approval" => disk.pending # {}

\* A node that requires approval gets past it only by being approved: it is
\* never ready or running, and it succeeds only after an approval.  (The entry
\* node is the exception: startGraphRun makes it ready without asking.)
GatedNodesAreApproved ==
  \A n \in Node \ {Graph.entry} :
    Gated(n) => /\ disk.node[n].status \notin {"ready", "running"}
                /\ disk.node[n].status = "succeeded" => n \in disk.approved

\* A run reaches a success terminal only after some verifier has completed,
\* through fan-outs, joins, retries and expansions.
SuccessWasVerified ==
  Graph.verification /\ disk.final = "success" =>
    \E v \in LiveNodes(disk) : Graph.node[v].kind = "verify" /\ disk.node[v].attempts > 0

\* An all-join that has not failed before starts only when every source has
\* led to it since its last reset.
JoinsWait ==
  \A n \in Node :
    disk.join[n] = "all" /\ n # Graph.entry /\ disk.node[n].status \in {"ready", "running"}
    /\ (disk.joinFrom[n] = {} \/ disk.node[n].attempts = 0) =>
      (IF disk.joinFrom[n] # {} THEN disk.joinFrom[n]
       ELSE {e.from : e \in {f \in disk.edges : f.to = n}})
        \subseteq {e.from : e \in disk.node[n].incoming}

\* An active run always has a node to claim or to complete: it cannot be wedged
\* waiting for nothing.
NeverWedged ==
  disk.status = "active" /\ phase = "idle" =>
    In(disk, "ready") \cup In(disk, "running") # {}

\* What route() may be asked at node n: by autoAdvance, which answers a triage
\* node, by an answer of Answers(n), or by an approval.
Contexts(n) ==
  {ctx \in {Context(n, outcome, [route |-> route, approval |-> approval], passed, failure) :
              outcome \in {"success", "failed", "blocked"},
              route \in Routes \cup {"none", Graph.node[n].route},
              approval \in {"none", "approved", "denied"}, passed \in BOOLEAN,
              failure \in FailureTypes \cup {"none", "design_error", "security_risk"}} :
     /\ (ctx.outcome = "failed") <=> (ctx.failure_type # "none")
     /\ ctx.verification = "passed" => ctx.outcome # "failed"}

Ends == {n \in Listed : Graph.node[n].kind = "terminal"}
AllJoins == {n \in Listed : Graph.node[n].join = "all"}

\* What join j waits for, before the graph is expanded.
SourcesOf(j) ==
  IF Graph.node[j].joinFrom # {} THEN Graph.node[j].joinFrom
  ELSE {e.from : e \in {f \in Graph.edges : f.to = j}}

AllSources == UNION {SourcesOf(j) : j \in AllJoins}

\* What is reached before join j has been.
Before(j) == Reachable(Listed, {e \in Graph.edges : e.from # j}, Graph.entry)

\* A run that does not go as planned can be ended: there is a terminal that says
\* so, and no approval is asked for at a terminal.
CanEnd ==
  /\ Terminals("partial") \cup Terminals("failed") # {}
  /\ \A n \in Ends : ~Gated(n)

\* The work of the graph is one thread.  It forks only to all the sources of one
\* join, which ask for no approval and lead to the join or end the run, and it
\* enters a join from elsewhere only after the join has been tried.
Threaded ==
  /\ CanEnd
  /\ \A n \in Ends : Graph.node[n].join = "any"
  /\ Graph.entry \notin AllSources
  /\ \A s \in AllSources : ~Gated(s) /\ Graph.node[s].join = "any"
  /\ \A n \in Listed : \A ctx \in Contexts(n) :
       LET targets == {e.to : e \in Selected(Graph, n, ctx)} IN
       \/ targets = {} \/ targets \cap Ends # {}
       \/ n \in AllSources /\ \A j \in AllJoins : n \in SourcesOf(j) => targets = {j}
       \/ n \notin AllSources /\ \E j \in AllJoins : targets = SourcesOf(j)
       \/ n \notin AllSources /\ \E m \in Listed \ AllSources :
            targets = {m} /\ (m \in AllJoins => n \notin Before(m))

\* Nothing a late call does changes how a run ended: a call reserved before
\* the end and executed after it is rejected.
Outcome == <<disk.status, disk.node, disk.pending, disk.final, disk.quality>>

OutcomeIsFinal ==
  [][disk.status \in {"finalized", "aborted"} => UNCHANGED Outcome]_disk

\* Every run ends, by a route of its own unless the deadline passes: the limits
\* on visits and attempts break every loop.
RunEnds == <>(disk.status \in Ended \ {"budget_exceeded"} \/ late)
===============================================================================

-------------------------- MODULE GraphRuntimeProofs --------------------------
(***************************************************************************)
(* For every graph, every set of clients and every bound: the records of     *)
(* GraphRuntime are well typed, the limits are kept, approvals and nodes     *)
(* agree, nothing gets past an approval without one, joins wait, success is  *)
(* verified and an end is final.  For every graph that lets its runs end:    *)
(* what can stop a run, and of which graphs no run is stopped.               *)
(*                                                                           *)
(* RunInv is a property of one record.  The committed record and the         *)
(* mutator's copy both have it: the record lemmas show that each thing a     *)
(* mutator does to its copy preserves it, and the steps put them together.   *)
(***************************************************************************)
EXTENDS GraphRuntime, FiniteSetTheorems, WellFoundedInduction, TLAPS

\* A node that may still be started has an attempt left, one that may still be
\* entered has a visit left.
NodeInv(n, x) ==
  /\ x.attempts <= Graph.node[n].attempts
  /\ x.visits <= Graph.visits
  /\ x.status \in {"pending", "ready", "waiting_approval"} =>
       x.attempts < Graph.node[n].attempts
  /\ x.status = "pending" => x.visits < Graph.visits

GateInv(n, x, approved) ==
  n # Graph.entry /\ Gated(n) =>
    /\ x.status \notin {"ready", "running"}
    /\ x.status = "succeeded" => n \in approved

RunInv(r) ==
  /\ r \in Record
  /\ \A n \in Node : NodeInv(n, r.node[n]) /\ GateInv(n, r.node[n], r.approved)
  /\ r.pending = In(r, "waiting_approval")
  /\ r.status = "waiting_approval" => r.pending # {}
  /\ Cardinality(In(r, "running")) <= Graph.parallel
  /\ r.tools <= MaxTools
  /\ Cardinality(r.dynamic) <= Graph.dynamic

\* The types of the variables other than the two records.
Rest ==
  /\ phase \in {"idle", "activate", "advance", "commit"}
  /\ todo \subseteq Edge
  /\ scan \in [on : BOOLEAN, at : Nat, sweep : Nat, changed : BOOLEAN]
  /\ calls \in [Clients -> Calls]
  /\ late \in BOOLEAN /\ faults \in Nat

\* Both copies of the record satisfy RunInv.
IInv == Rest /\ RunInv(disk) /\ RunInv(run)

\* What RuntimeAssumption says of a single node and of the limits.
LEMMA GraphFacts ==
  /\ IsFiniteSet(Node) /\ Listed \subseteq Node /\ Graph.entry \in Node
  /\ Graph.order \in Seq(Node) /\ Graph.edges \subseteq Edge
  /\ Graph.parallel \in Nat \ {0} /\ Graph.visits \in Nat \ {0}
  /\ Graph.dynamic \in Nat /\ Graph.steps \in Nat
  /\ MaxTools \in Nat /\ MaxFaults \in Nat
  /\ \A n \in Node : /\ Graph.node[n].attempts \in Nat \ {0}
                     /\ Graph.node[n].join \in {"any", "all"}
                     /\ Graph.node[n].joinFrom \subseteq Node
                     /\ Graph.node[n].terminal \in {"none", "success", "partial", "failed"}
<1>1. Graph.order \in Seq(Node)
  BY RuntimeAssumption DEF GraphAssumption
<1>2. Listed \subseteq Node
  BY <1>1 DEF Listed
<1>3. \A n \in Node : /\ Graph.node[n].attempts \in Nat \ {0}
                      /\ Graph.node[n].join \in {"any", "all"}
                      /\ Graph.node[n].joinFrom \subseteq Node
                      /\ Graph.node[n].terminal \in {"none", "success", "partial", "failed"}
  BY RuntimeAssumption DEF GraphAssumption
<1>. QED
  BY <1>1, <1>2, <1>3, RuntimeAssumption DEF GraphAssumption

\* The record of a new run satisfies RunInv.
LEMMA InitialRecord == RunInv(InitialRun)
<1>1. InitialRun \in Record
  <2>1. [n \in Node |-> IF n = Graph.entry
                        THEN [NodeState EXCEPT !.status = "ready", !.visits = 1]
                        ELSE NodeState]
          \in [Node -> [status : NodeStatus, attempts : Nat, visits : Nat,
                        incoming : SUBSET Edge, passed : BOOLEAN]]
    BY DEF NodeState, NodeStatus
  <2>2. [n \in Node |-> Graph.node[n].join] \in [Node -> {"any", "all"}]
    BY GraphFacts
  <2>3. [n \in Node |-> Graph.node[n].joinFrom] \in [Node -> SUBSET Node]
    BY GraphFacts
  <2>4. [n \in Node |-> [s \in Signatures |-> 0]] \in [Node -> [Signatures -> 0..3]]
    OBVIOUS
  <2>5. Graph.edges \in SUBSET Edge
    BY GraphFacts
  <2>. QED
    BY <2>1, <2>2, <2>3, <2>4, <2>5 DEF InitialRun, Record, Live
<1>2. \A n \in Node : InitialRun.node[n].status \in {"pending", "ready"}
  BY GraphFacts DEF InitialRun, NodeState
<1>3. \A n \in Node : /\ NodeInv(n, InitialRun.node[n])
                      /\ GateInv(n, InitialRun.node[n], InitialRun.approved)
  BY GraphFacts DEF InitialRun, NodeState, NodeInv, GateInv
<1>4. In(InitialRun, "waiting_approval") = {} /\ In(InitialRun, "running") = {}
  BY <1>2 DEF In
<1>5. Cardinality({}) = 0
  BY FS_EmptySet
<1>6. /\ InitialRun.pending = {} /\ InitialRun.status = "active"
      /\ InitialRun.tools = 0 /\ InitialRun.dynamic = {}
  BY DEF InitialRun
<1>7. /\ Cardinality(In(InitialRun, "running")) <= Graph.parallel
      /\ InitialRun.tools <= MaxTools /\ Cardinality(InitialRun.dynamic) <= Graph.dynamic
  <2>1. 0 <= Graph.parallel /\ 0 <= MaxTools /\ 0 <= Graph.dynamic
    BY GraphFacts
  <2>. QED
    BY <2>1, <1>4, <1>5, <1>6
<1>8. /\ InitialRun.pending = In(InitialRun, "waiting_approval")
      /\ InitialRun.status = "waiting_approval" => InitialRun.pending # {}
  BY <1>4, <1>6
<1>. QED
  BY <1>1, <1>3, <1>7, <1>8 DEF RunInv

\* One node of a record changes, to something that satisfies NodeInv and GateInv
\* and is not newly running.
LEMMA ChangeNode ==
  ASSUME NEW r, RunInv(r), NEW s \in Record, NEW n \in Node,
         \A m \in Node \ {n} : s.node[m] = r.node[m],
         NodeInv(n, s.node[n]), GateInv(n, s.node[n], s.approved),
         s.node[n].status = "running" => r.node[n].status = "running",
         r.approved \subseteq s.approved, s.tools = r.tools, s.dynamic = r.dynamic,
         s.pending = IF s.node[n].status = "waiting_approval"
                     THEN r.pending \cup {n} ELSE r.pending \ {n},
         s.status = "waiting_approval" => s.pending # {}
  PROVE  RunInv(s)
<1>1. \A m \in Node : NodeInv(m, s.node[m]) /\ GateInv(m, s.node[m], s.approved)
  <2>1. \A m \in Node \ {n} : GateInv(m, s.node[m], s.approved)
    BY DEF RunInv, GateInv
  <2>. QED
    BY <2>1 DEF RunInv
<1>2. s.pending = In(s, "waiting_approval")
  BY DEF RunInv, In
<1>3. In(s, "running") \subseteq In(r, "running")
  BY DEF In
<1>4. IsFiniteSet(In(r, "running"))
  BY GraphFacts, FS_Subset DEF In
<1>5. /\ Cardinality(In(s, "running")) <= Cardinality(In(r, "running"))
      /\ Cardinality(In(s, "running")) \in Nat /\ Cardinality(In(r, "running")) \in Nat
  BY <1>3, <1>4, FS_Subset, FS_CardinalityType
<1>6. Cardinality(In(r, "running")) <= Graph.parallel
  BY DEF RunInv
<1>7. Cardinality(In(s, "running")) <= Graph.parallel
  BY <1>5, <1>6, GraphFacts
<1>. QED
  BY <1>1, <1>2, <1>7 DEF RunInv

\* Only fields that RunInv does not constrain change.
LEMMA ChangeRest ==
  ASSUME NEW r, RunInv(r), NEW s \in Record,
         s.node = r.node, s.approved = r.approved, s.pending = r.pending,
         s.status = "waiting_approval" => s.pending # {},
         s.tools <= MaxTools, Cardinality(s.dynamic) <= Graph.dynamic
  PROVE  RunInv(s)
<1>1. In(s, "running") = In(r, "running") /\ In(s, "waiting_approval") = In(r, "waiting_approval")
  BY DEF In
<1>. QED
  BY <1>1 DEF RunInv
-------------------------------------------------------------------------------
\* The states of a node.
NodeRecord == [status : NodeStatus, attempts : Nat, visits : Nat,
               incoming : SUBSET Edge, passed : BOOLEAN]

\* A record with another value for a node is a record.
LEMMA SetNode ==
  ASSUME NEW r \in Record, NEW n \in Node, NEW x \in NodeRecord
  PROVE  /\ [r EXCEPT !.node[n] = x] \in Record
         /\ [r EXCEPT !.node[n] = x].node[n] = x
         /\ \A m \in Node \ {n} : [r EXCEPT !.node[n] = x].node[m] = r.node[m]
  BY DEF Record, NodeRecord

\* Noting an edge at a node that is not exhausted preserves RunInv.
LEMMA NoteInv ==
  ASSUME NEW r, RunInv(r), NEW e \in Edge, ~Exhausted(r, e.to)
  PROVE  RunInv(Note(r, e)) /\ Note(r, e).node[e.to].status \notin Done
<1>. DEFINE n == e.to
            x == r.node[n]
            y == IF x.status \in Done
                 THEN [NodeState EXCEPT !.attempts = x.attempts, !.visits = x.visits]
                 ELSE x
            z == [y EXCEPT !.incoming = @ \cup {e}]
            s == [r EXCEPT !.node[n] = z]
<1>1. n \in Node /\ r \in Record /\ x \in NodeRecord
  BY DEF RunInv, Edge, Record, NodeRecord
<1>2. y \in NodeRecord
  BY <1>1 DEF NodeState, NodeRecord, NodeStatus
<1>3. z \in NodeRecord
  BY <1>2 DEF NodeRecord
<1>4. /\ z.attempts = x.attempts /\ z.visits = x.visits
      /\ z.status = IF x.status \in Done THEN "pending" ELSE x.status
  BY <1>1, <1>2 DEF NodeState, NodeRecord
<1>5. /\ s \in Record /\ s.node[n] = z /\ \A m \in Node \ {n} : s.node[m] = r.node[m]
  <2>. HIDE DEF x, y, z
  <2>. QED
    BY <1>1, <1>3, SetNode
<1>6. Note(r, e) = s
  BY DEF Note
<1>7. NodeInv(n, x) /\ GateInv(n, x, r.approved)
  BY <1>1 DEF RunInv
<1>8. x.status \in Done => x.attempts < Graph.node[n].attempts /\ x.visits < Graph.visits
  BY <1>1, GraphFacts DEF Exhausted, NodeRecord
<1>9. NodeInv(n, z)
  BY <1>4, <1>7, <1>8 DEF NodeInv, Done
<1>10. GateInv(n, z, r.approved)
  BY <1>4, <1>7 DEF GateInv, Done
<1>11. /\ s.approved = r.approved /\ s.tools = r.tools /\ s.dynamic = r.dynamic
       /\ s.pending = r.pending /\ s.status = r.status
  BY <1>1 DEF Record
<1>12. n \in r.pending <=> z.status = "waiting_approval"
  BY <1>1, <1>4 DEF RunInv, In, Done
<1>13. s.pending = IF z.status = "waiting_approval" THEN r.pending \cup {n} ELSE r.pending \ {n}
  BY <1>11, <1>12
<1>14. s.status = "waiting_approval" => s.pending # {}
  BY <1>11 DEF RunInv
<1>15. z.status = "running" => x.status = "running"
  BY <1>4
<1>. HIDE DEF n, x, y, z, s
<1>16. RunInv(s)
  BY <1>1, <1>5, <1>9, <1>10, <1>11, <1>13, <1>14, <1>15, ChangeNode DEF x
<1>17. z.status \notin Done
  BY <1>4 DEF Done
<1>. QED
  BY <1>5, <1>6, <1>16, <1>17 DEF n

\* What Wake makes of a node.
LEMMA WokenNode ==
  ASSUME NEW x \in NodeRecord, NEW st \in NodeStatus
  PROVE  /\ [x EXCEPT !.visits = @ + 1, !.status = st] \in NodeRecord
         /\ [x EXCEPT !.visits = @ + 1, !.status = st].attempts = x.attempts
         /\ [x EXCEPT !.visits = @ + 1, !.status = st].visits = x.visits + 1
         /\ [x EXCEPT !.visits = @ + 1, !.status = st].status = st
<1>1. x.visits + 1 \in Nat
  BY DEF NodeRecord
<1>. QED
  BY <1>1 DEF NodeRecord

\* Waking a pending node preserves RunInv.
LEMMA WakeInv ==
  ASSUME NEW r, RunInv(r), NEW n \in Node, r.node[n].status = "pending"
  PROVE  RunInv(Wake(r, n))
<1>. DEFINE st == IF Gated(n) THEN "waiting_approval" ELSE "ready"
            x == r.node[n]
            z == [x EXCEPT !.visits = @ + 1, !.status = st]
            q == [r EXCEPT !.node[n] = z]
            s == Wake(r, n)
<1>1. r \in Record /\ x \in NodeRecord /\ NodeInv(n, x)
  BY DEF RunInv, Record, NodeRecord
<1>2. st \in NodeStatus
  BY DEF NodeStatus
<1>3. z \in NodeRecord /\ z.attempts = x.attempts /\ z.visits = x.visits + 1 /\ z.status = st
  BY <1>1, <1>2, WokenNode
<1>4. q \in Record /\ q.node[n] = z /\ \A m \in Node \ {n} : q.node[m] = r.node[m]
  BY <1>1, <1>3, SetNode
<1>5. /\ q.pending = r.pending /\ q.approved = r.approved /\ q.tools = r.tools
      /\ q.dynamic = r.dynamic /\ q.status = r.status
  BY <1>1 DEF Record
<1>6. s = IF Gated(n) THEN [q EXCEPT !.pending = @ \cup {n}, !.status = "waiting_approval"]
          ELSE q
  BY <1>1 DEF Wake, Record
<1>7. x.status = "pending"
  OBVIOUS
<1>8. n \notin r.pending /\ (r.status = "waiting_approval" => r.pending # {})
  BY DEF RunInv, In
<1>. HIDE DEF x, z, q, s
<1>9. NodeInv(n, z) /\ GateInv(n, z, r.approved)
  BY <1>1, <1>3, <1>7, GraphFacts DEF NodeInv, GateInv, NodeRecord
<1>10. CASE Gated(n)
  <2>1. /\ s \in Record /\ s.node[n] = z /\ \A m \in Node \ {n} : s.node[m] = r.node[m]
        /\ s.pending = r.pending \cup {n} /\ s.status = "waiting_approval"
        /\ s.approved = r.approved /\ s.tools = r.tools /\ s.dynamic = r.dynamic
    BY <1>4, <1>5, <1>6, <1>10 DEF Record, Live
  <2>. QED
    BY <1>3, <1>9, <1>10, <2>1, ChangeNode DEF s
<1>11. CASE ~Gated(n)
  <2>1. s = q
    BY <1>6, <1>11
  <2>2. s.pending = r.pending \ {n}
    BY <2>1, <1>5, <1>8
  <2>3. s.status = "waiting_approval" => s.pending # {}
    BY <2>1, <1>5, <1>8
  <2>. QED
    <3>1. /\ s \in Record /\ s.node[n] = z /\ \A m \in Node \ {n} : s.node[m] = r.node[m]
          /\ s.approved = r.approved /\ s.tools = r.tools /\ s.dynamic = r.dynamic
      BY <1>4, <1>5, <2>1
    <3>2. z.status = "ready"
      BY <1>3, <1>11
    <3>3. s.pending = IF s.node[n].status = "waiting_approval"
                      THEN r.pending \cup {n} ELSE r.pending \ {n}
      BY <2>2, <3>1, <3>2
    <3>. QED
      BY <1>9, <2>3, <3>1, <3>2, <3>3, ChangeNode DEF s
<1>. QED
  BY <1>10, <1>11
-------------------------------------------------------------------------------
\* Trying a node that waits to be tried: it has an attempt left.
LEMMA TriedNode ==
  ASSUME NEW n \in Node, NEW x \in NodeRecord, NodeInv(n, x),
         x.status \in {"ready", "waiting_approval"}, NEW st \in Done \cup {"running"}
  PROVE  Tried(x, st) \in NodeRecord /\ Tried(x, st).status = st /\ NodeInv(n, Tried(x, st))
<1>1. x.attempts + 1 \in Nat /\ st \in NodeStatus
  BY DEF NodeRecord, NodeStatus
<1>2. /\ Tried(x, st) \in NodeRecord /\ Tried(x, st).status = st
      /\ Tried(x, st).attempts = x.attempts + 1 /\ Tried(x, st).visits = x.visits
  BY <1>1 DEF Tried, NodeRecord
<1>3. /\ x.attempts < Graph.node[n].attempts /\ x.visits <= Graph.visits
      /\ x.attempts \in Nat /\ Graph.node[n].attempts \in Nat
  BY GraphFacts DEF NodeInv, NodeRecord
<1>4. st \notin {"pending", "ready", "waiting_approval"}
  BY DEF Done
<1>. QED
  BY <1>2, <1>3, <1>4 DEF NodeInv

\* The node whose status a call looks at, as the invariant describes it.
LEMMA NodeFacts ==
  ASSUME NEW r, RunInv(r), NEW n \in Node
  PROVE  /\ r \in Record /\ r.node[n] \in NodeRecord
         /\ NodeInv(n, r.node[n]) /\ GateInv(n, r.node[n], r.approved)
         /\ n \in r.pending <=> r.node[n].status = "waiting_approval"
         /\ r.status = "waiting_approval" => r.pending # {}
  BY DEF RunInv, Record, NodeRecord, In

\* A node that was ready, running or waiting is done, and its approval, if it
\* had one, is settled.
LEMMA FinishNode ==
  ASSUME NEW r, RunInv(r), NEW n \in Node, NEW z,
         NodeInv(n, z), z.status \in Done,
         NEW s \in Record, s.node[n] = z, \A m \in Node \ {n} : s.node[m] = r.node[m],
         s.pending = r.pending \ {n}, r.approved \subseteq s.approved,
         GateInv(n, z, s.approved), s.tools = r.tools, s.dynamic = r.dynamic,
         s.status = "waiting_approval" => s.pending # {}
  PROVE  RunInv(s)
<1>1. z.status # "running" /\ z.status # "waiting_approval"
  BY DEF Done
<1>2. /\ NodeInv(n, s.node[n]) /\ GateInv(n, s.node[n], s.approved)
      /\ s.node[n].status = "running" => r.node[n].status = "running"
      /\ s.pending = IF s.node[n].status = "waiting_approval"
                     THEN r.pending \cup {n} ELSE r.pending \ {n}
  BY <1>1
<1>. QED
  BY <1>2, ChangeNode

\* The other fields of a record whose node n is replaced.
LEMMA SetNodeRest ==
  ASSUME NEW r \in Record, NEW n \in Node, NEW x \in NodeRecord
  PROVE  LET q == [r EXCEPT !.node[n] = x]
         IN  /\ q.status = r.status /\ q.pending = r.pending /\ q.approved = r.approved
             /\ q.tools = r.tools /\ q.dynamic = r.dynamic /\ q.steps = r.steps
             /\ q.counts = r.counts
  BY DEF Record

\* autoAdvance answers a ready triage node.
LEMMA AutoInv ==
  ASSUME NEW r, RunInv(r), NEW n \in Node, r.node[n].status = "ready"
  PROVE  RunInv([r EXCEPT !.node[n] = Tried(@, "succeeded"), !.steps = @ + 1])
<1>. DEFINE x == r.node[n]
            z == Tried(x, "succeeded")
            q == [r EXCEPT !.node[n] = z]
            s == [r EXCEPT !.node[n] = Tried(@, "succeeded"), !.steps = @ + 1]
<1>1. /\ r \in Record /\ x \in NodeRecord /\ x.status = "ready"
      /\ NodeInv(n, x) /\ GateInv(n, x, r.approved)
      /\ n \notin r.pending /\ (r.status = "waiting_approval" => r.pending # {})
  BY NodeFacts
<1>2. s = [q EXCEPT !.steps = @ + 1]
  BY <1>1 DEF Record
<1>. HIDE DEF x, z, s
<1>3. z \in NodeRecord /\ z.status = "succeeded" /\ NodeInv(n, z)
  BY <1>1, TriedNode DEF Done, z
<1>4. GateInv(n, z, r.approved) /\ z.status \in Done
  BY <1>1, <1>3 DEF GateInv, Done
<1>5. q \in Record /\ q.node[n] = z /\ \A m \in Node \ {n} : q.node[m] = r.node[m]
  BY <1>1, <1>3, SetNode
<1>6. /\ q.pending = r.pending /\ q.approved = r.approved /\ q.tools = r.tools
      /\ q.dynamic = r.dynamic /\ q.status = r.status
  BY <1>1, <1>3, SetNodeRest
<1>. HIDE DEF q
<1>7. q.steps + 1 \in Nat
  BY <1>5 DEF Record
<1>8. /\ s \in Record /\ s.node = q.node /\ s.pending = q.pending /\ s.approved = q.approved
      /\ s.tools = q.tools /\ s.dynamic = q.dynamic /\ s.status = q.status
  BY <1>2, <1>5, <1>7 DEF Record
<1>9. /\ \A m \in Node \ {n} : s.node[m] = r.node[m]
      /\ s.node[n] = z /\ s.approved = r.approved /\ s.tools = r.tools
      /\ s.dynamic = r.dynamic /\ s.pending = r.pending \ {n}
      /\ s.status = "waiting_approval" => s.pending # {}
  BY <1>1, <1>5, <1>6, <1>8
<1>10. RunInv(s)
  <2>1. GateInv(n, z, s.approved) /\ r.approved \subseteq s.approved
    BY <1>4, <1>9
  <2>. QED
    BY <1>3, <1>4, <1>8, <1>9, <2>1, FinishNode
<1>. QED
  BY <1>10 DEF s

\* Ending a run, whatever the reason, preserves RunInv.
LEMMA EndInv ==
  ASSUME NEW r, RunInv(r), NEW st \in Ended
  PROVE  RunInv([r EXCEPT !.status = st])
<1>. DEFINE s == [r EXCEPT !.status = st]
<1>1. r \in Record /\ r.tools <= MaxTools /\ Cardinality(r.dynamic) <= Graph.dynamic
  BY DEF RunInv
<1>2. /\ s \in Record /\ s.node = r.node /\ s.pending = r.pending /\ s.approved = r.approved
      /\ s.tools = r.tools /\ s.dynamic = r.dynamic /\ s.status # "waiting_approval"
  BY <1>1 DEF Record, Ended
<1>. HIDE DEF s
<1>3. RunInv(s)
  BY <1>1, <1>2, ChangeRest
<1>. QED
  BY <1>3 DEF s

\* A terminal that is reached is done: it has been tried and entered once.
LEMMA ReachedNode ==
  ASSUME NEW n \in Node, NEW x \in NodeRecord, NodeInv(n, x)
  PROVE  Reached(x) \in NodeRecord /\ Reached(x).status = "succeeded" /\ NodeInv(n, Reached(x))
<1>1. /\ Reached(x) \in NodeRecord /\ Reached(x).status = "succeeded"
      /\ Reached(x).attempts = IF x.attempts = 0 THEN 1 ELSE x.attempts
      /\ Reached(x).visits = IF x.visits = 0 THEN 1 ELSE x.visits
  BY DEF Reached, NodeRecord, NodeStatus, Done
<1>2. Graph.node[n].attempts \in Nat \ {0} /\ Graph.visits \in Nat \ {0}
  BY GraphFacts
<1>. QED
  BY <1>1, <1>2 DEF NodeInv, NodeRecord

\* autoAdvance finalizes the run at a ready terminal.
LEMMA TerminalInv ==
  ASSUME NEW r, RunInv(r), NEW n \in Node, r.node[n].status = "ready", NEW b \in BOOLEAN
  PROVE  RunInv([[r EXCEPT !.node[n] = Reached(@)] EXCEPT
                   !.status = "finalized", !.final = Graph.node[n].terminal, !.quality = b])
<1>. DEFINE x == r.node[n]
            z == Reached(x)
            q == [r EXCEPT !.node[n] = z]
            t == Graph.node[n].terminal
            s == [q EXCEPT !.status = "finalized", !.final = t, !.quality = b]
<1>1. /\ r \in Record /\ x \in NodeRecord /\ x.status = "ready"
      /\ NodeInv(n, x) /\ GateInv(n, x, r.approved)
      /\ n \notin r.pending
  BY NodeFacts
<1>2. t \in {"none", "success", "partial", "failed"}
  BY GraphFacts
<1>. HIDE DEF x, z, t
<1>3. z \in NodeRecord /\ z.status = "succeeded" /\ NodeInv(n, z)
  BY <1>1, ReachedNode DEF z
<1>4. GateInv(n, z, r.approved) /\ z.status \in Done
  BY <1>1, <1>3 DEF GateInv, Done
<1>5. q \in Record /\ q.node[n] = z /\ \A m \in Node \ {n} : q.node[m] = r.node[m]
  BY <1>1, <1>3, SetNode
<1>6. /\ q.pending = r.pending /\ q.approved = r.approved /\ q.tools = r.tools
      /\ q.dynamic = r.dynamic
  BY <1>1, <1>3, SetNodeRest
<1>. HIDE DEF q
<1>7. /\ s \in Record /\ s.node = q.node /\ s.pending = q.pending /\ s.approved = q.approved
      /\ s.tools = q.tools /\ s.dynamic = q.dynamic /\ s.status = "finalized"
  BY <1>2, <1>5 DEF Record, Ended
<1>. HIDE DEF s
<1>8. /\ \A m \in Node \ {n} : s.node[m] = r.node[m]
      /\ s.node[n] = z /\ s.approved = r.approved /\ s.tools = r.tools
      /\ s.dynamic = r.dynamic /\ s.pending = r.pending \ {n}
      /\ s.status = "waiting_approval" => s.pending # {}
  BY <1>1, <1>5, <1>6, <1>7
<1>9. GateInv(n, z, s.approved) /\ r.approved \subseteq s.approved
  BY <1>4, <1>8
<1>10. RunInv(s)
  BY <1>3, <1>4, <1>7, <1>8, <1>9, FinishNode
<1>. QED
  BY <1>10 DEF s, q, z, x, t

\* Answering a running node.
LEMMA AnsweredNode ==
  ASSUME NEW n \in Node, NEW x \in NodeRecord, NodeInv(n, x), NEW a \in Answers(n)
  PROVE  /\ Answered(x, a) \in NodeRecord /\ Answered(x, a).status \in Done
         /\ NodeInv(n, Answered(x, a)) /\ a.signature \in Signatures
<1>1. /\ a.outcome \in {"success", "failed", "blocked"} /\ a.passed \in BOOLEAN
      /\ a.signature \in Signatures
  BY DEF Answers
<1>2. /\ Answered(x, a) \in NodeRecord /\ Answered(x, a).status \in Done
      /\ Answered(x, a).attempts = x.attempts /\ Answered(x, a).visits = x.visits
  BY <1>1 DEF Answered, NodeRecord, NodeStatus, Done
<1>. QED
  BY <1>1, <1>2 DEF NodeInv, Done

\* Completing a running node, before any edge is followed.
LEMMA CompletedInv ==
  ASSUME RunInv(disk), NEW n \in Node, disk.node[n].status = "running", NEW a \in Answers(n)
  PROVE  RunInv(Completed(n, a))
<1>. DEFINE x == disk.node[n]
            z == Answered(x, a)
            q == [disk EXCEPT !.node[n] = z]
            k == IF a.outcome = "failed" /\ disk.steps < Graph.steps /\ disk.counts[n][a.signature] < 3
                 THEN disk.counts[n][a.signature] + 1 ELSE disk.counts[n][a.signature]
            s == Completed(n, a)
<1>1. /\ disk \in Record /\ x \in NodeRecord /\ x.status = "running"
      /\ NodeInv(n, x) /\ GateInv(n, x, disk.approved)
      /\ n \notin disk.pending /\ (disk.status = "waiting_approval" => disk.pending # {})
  BY NodeFacts
<1>2. s = [q EXCEPT !.steps = @ + 1, !.counts[n][a.signature] = k]
  BY <1>1 DEF Completed, Record
<1>. HIDE DEF x, z
<1>3. z \in NodeRecord /\ z.status \in Done /\ NodeInv(n, z) /\ a.signature \in Signatures
  BY <1>1, AnsweredNode DEF z
<1>4. GateInv(n, z, disk.approved)
  BY <1>1, <1>3 DEF GateInv
<1>5. q \in Record /\ q.node[n] = z /\ \A m \in Node \ {n} : q.node[m] = disk.node[m]
  BY <1>1, <1>3, SetNode
<1>6. /\ q.pending = disk.pending /\ q.approved = disk.approved /\ q.tools = disk.tools
      /\ q.dynamic = disk.dynamic /\ q.status = disk.status
  BY <1>1, <1>3, SetNodeRest
<1>7. k \in 0..3
  <2>1. disk.counts[n][a.signature] \in 0..3
    BY <1>1, <1>3 DEF Record
  <2>. QED
    BY <2>1
<1>. HIDE DEF q, k, s
<1>8. q.steps + 1 \in Nat /\ [q.counts EXCEPT ![n][a.signature] = k] \in [Node -> [Signatures -> 0..3]]
  BY <1>3, <1>5, <1>7 DEF Record
<1>9. /\ s \in Record /\ s.node = q.node /\ s.pending = q.pending /\ s.approved = q.approved
      /\ s.tools = q.tools /\ s.dynamic = q.dynamic /\ s.status = q.status
  BY <1>2, <1>5, <1>8 DEF Record
<1>10. /\ \A m \in Node \ {n} : s.node[m] = disk.node[m]
       /\ s.node[n] = z /\ s.approved = disk.approved /\ s.tools = disk.tools
       /\ s.dynamic = disk.dynamic /\ s.pending = disk.pending \ {n}
       /\ s.status = "waiting_approval" => s.pending # {}
  BY <1>1, <1>5, <1>6, <1>9
<1>11. GateInv(n, z, s.approved) /\ disk.approved \subseteq s.approved
  BY <1>4, <1>10
<1>12. RunInv(s)
  BY <1>3, <1>9, <1>10, <1>11, FinishNode
<1>. QED
  BY <1>12 DEF s

\* Resolving a pending approval, one way or the other.
LEMMA ResolvedInv ==
  ASSUME RunInv(disk), NEW n \in disk.pending, NEW d \in {"approved", "denied"}
  PROVE  RunInv(Resolved(n, d))
<1>. DEFINE x == disk.node[n]
            st == IF d = "approved" THEN "succeeded" ELSE "blocked"
            z == Tried(x, st)
            q == [disk EXCEPT !.node[n] = z]
            ap == IF d = "approved" THEN disk.approved \cup {n} ELSE disk.approved
            s == Resolved(n, d)
<1>1. n \in Node
  BY DEF RunInv, In
<1>2. /\ disk \in Record /\ x \in NodeRecord /\ x.status = "waiting_approval"
      /\ NodeInv(n, x)
  BY <1>1, NodeFacts
<1>3. s = [q EXCEPT !.pending = @ \ {n}, !.approved = ap, !.status = "active", !.steps = @ + 1]
  BY <1>2 DEF Resolved, Record
<1>4. ap \subseteq Node /\ disk.approved \subseteq ap /\ (d = "approved" => n \in ap)
  BY <1>1, <1>2 DEF Record
<1>5. st \in Done /\ (st = "succeeded" => d = "approved")
  BY DEF Done
<1>. HIDE DEF x, z, st, ap
<1>6. z \in NodeRecord /\ z.status = st /\ NodeInv(n, z)
  BY <1>1, <1>2, <1>5, TriedNode DEF z
<1>7. GateInv(n, z, ap) /\ z.status \in Done
  BY <1>4, <1>5, <1>6 DEF GateInv, Done
<1>8. q \in Record /\ q.node[n] = z /\ \A m \in Node \ {n} : q.node[m] = disk.node[m]
  BY <1>1, <1>2, <1>6, SetNode
<1>9. q.pending = disk.pending /\ q.tools = disk.tools /\ q.dynamic = disk.dynamic
  BY <1>1, <1>2, <1>6, SetNodeRest
<1>. HIDE DEF q, s
<1>10. q.steps + 1 \in Nat
  BY <1>8 DEF Record
<1>11. /\ s \in Record /\ s.node = q.node /\ s.pending = q.pending \ {n} /\ s.approved = ap
       /\ s.tools = q.tools /\ s.dynamic = q.dynamic /\ s.status = "active"
  BY <1>3, <1>4, <1>8, <1>10 DEF Record, Live
<1>12. /\ \A m \in Node \ {n} : s.node[m] = disk.node[m]
       /\ s.node[n] = z /\ disk.approved \subseteq s.approved /\ s.tools = disk.tools
       /\ s.dynamic = disk.dynamic /\ s.pending = disk.pending \ {n}
       /\ s.status = "waiting_approval" => s.pending # {}
  BY <1>4, <1>8, <1>9, <1>11
<1>13. GateInv(n, z, s.approved)
  BY <1>7, <1>11
<1>14. RunInv(s)
  BY <1>1, <1>6, <1>7, <1>11, <1>12, <1>13, FinishNode
<1>. QED
  BY <1>14 DEF s

\* Claiming a ready node while another one may run.
LEMMA ClaimInv ==
  ASSUME RunInv(disk), NEW n \in Node, MayClaim(n)
  PROVE  RunInv([disk EXCEPT !.node[n] = Tried(@, "running")])
<1>. DEFINE x == disk.node[n]
            z == Tried(x, "running")
            s == [disk EXCEPT !.node[n] = z]
            before == In(disk, "running")
<1>1. /\ disk \in Record /\ x \in NodeRecord /\ x.status = "ready"
      /\ NodeInv(n, x) /\ GateInv(n, x, disk.approved) /\ n \notin disk.pending
  BY NodeFacts DEF MayClaim
<1>. HIDE DEF x, z
<1>2. z \in NodeRecord /\ z.status = "running" /\ NodeInv(n, z)
  BY <1>1, TriedNode DEF z
<1>3. GateInv(n, z, disk.approved)
  BY <1>1, <1>2 DEF GateInv
<1>4. s \in Record /\ s.node[n] = z /\ \A m \in Node \ {n} : s.node[m] = disk.node[m]
  BY <1>1, <1>2, SetNode
<1>5. /\ s.pending = disk.pending /\ s.approved = disk.approved /\ s.tools = disk.tools
      /\ s.dynamic = disk.dynamic /\ s.status = disk.status
  BY <1>1, <1>2, SetNodeRest
<1>. HIDE DEF s
<1>6. \A m \in Node : NodeInv(m, s.node[m]) /\ GateInv(m, s.node[m], s.approved)
  <2>1. \A m \in Node \ {n} : NodeInv(m, s.node[m]) /\ GateInv(m, s.node[m], s.approved)
    BY <1>4, <1>5, NodeFacts
  <2>. QED
    BY <2>1, <1>2, <1>3, <1>4, <1>5
<1>7. s.pending = In(s, "waiting_approval")
  BY <1>1, <1>2, <1>4, <1>5 DEF RunInv, In, x
<1>8. n \notin before /\ IsFiniteSet(before) /\ In(s, "running") = before \cup {n}
  <2>1. IsFiniteSet(before)
    BY GraphFacts, FS_Subset DEF In
  <2>2. n \notin before
    BY <1>1 DEF In, x
  <2>3. In(s, "running") = before \cup {n}
    BY <1>2, <1>4 DEF In
  <2>. QED
    BY <2>1, <2>2, <2>3
<1>9. Cardinality(before) < Graph.parallel
  BY DEF MayClaim
<1>. HIDE DEF before
<1>10. Cardinality(In(s, "running")) <= Graph.parallel
  <2>1. Cardinality(before) \in Nat /\ Cardinality(before \cup {n}) = Cardinality(before) + 1
    BY <1>8, FS_AddElement, FS_CardinalityType
  <2>2. Graph.parallel \in Nat
    BY GraphFacts
  <2>. QED
    BY <1>8, <1>9, <2>1, <2>2
<1>11. /\ s.status = "waiting_approval" => s.pending # {}
       /\ s.tools <= MaxTools /\ Cardinality(s.dynamic) <= Graph.dynamic
  BY <1>5 DEF RunInv
<1>12. RunInv(s)
  BY <1>4, <1>6, <1>7, <1>10, <1>11 DEF RunInv
<1>. QED
  BY <1>1, <1>12 DEF s, z, x, Record

\* Paying for a call.
LEMMA PaidInv ==
  ASSUME RunInv(disk), disk.tools < MaxTools
  PROVE  RunInv([disk EXCEPT !.tools = @ + 1])
<1>. DEFINE s == [disk EXCEPT !.tools = @ + 1]
<1>1. /\ disk \in Record /\ Cardinality(disk.dynamic) <= Graph.dynamic
      /\ disk.status = "waiting_approval" => disk.pending # {}
  BY DEF RunInv
<1>2. disk.tools + 1 \in Nat /\ disk.tools + 1 <= MaxTools
  BY <1>1, GraphFacts DEF Record
<1>3. /\ s \in Record /\ s.node = disk.node /\ s.pending = disk.pending
      /\ s.approved = disk.approved /\ s.tools = disk.tools + 1
      /\ s.dynamic = disk.dynamic /\ s.status = disk.status
  BY <1>1, <1>2 DEF Record
<1>. HIDE DEF s
<1>4. RunInv(s)
  BY <1>1, <1>2, <1>3, ChangeRest
<1>. QED
  BY <1>4 DEF s

\* Expanding the graph by a set of tasks that the limit leaves room for.
LEMMA ExpandInv ==
  ASSUME RunInv(disk), NEW p \in Node, NEW j \in Node, NEW ts \in SUBSET Tasks,
         MayExpand(p, j, ts)
  PROVE  RunInv(Expanded(p, j, ts))
<1>. DEFINE s == Expanded(p, j, ts)
<1>1. /\ disk \in Record /\ disk.tools <= MaxTools
      /\ disk.status = "waiting_approval" => disk.pending # {}
  BY DEF RunInv
<1>2. /\ ts \subseteq Node
      /\ Cardinality(disk.dynamic) + Cardinality(ts) <= Graph.dynamic
  BY DEF MayExpand, Tasks
<1>3. {Spawned(p, t) : t \in ts} \subseteq Edge /\ {Spawned(t, j) : t \in ts} \subseteq Edge
  <2>1. \A m, n \in Node : Spawned(m, n) \in Edge
    BY DEF Spawned, Edge, ConditionTypes, Values
  <2>. HIDE DEF s
  <2>. QED
    BY <1>2, <2>1
<1>4. /\ s \in Record /\ s.node = disk.node /\ s.pending = disk.pending
      /\ s.approved = disk.approved /\ s.tools = disk.tools
      /\ s.dynamic = disk.dynamic \cup ts /\ s.status = disk.status
  <2>. DEFINE es == (disk.edges \ {e \in disk.edges : /\ e.from = p /\ e.to = j
                                   /\ e.type = "outcome" /\ e.value = "success"})
                    \cup {Spawned(p, t) : t \in ts} \cup {Spawned(t, j) : t \in ts}
              dy == disk.dynamic \cup ts
              jn == [disk.join EXCEPT ![j] = "all"]
              jf == [disk.joinFrom EXCEPT ![j] = ts]
  <2>1. s = [disk EXCEPT !.edges = es, !.dynamic = dy, !.join = jn, !.joinFrom = jf]
    BY <1>1 DEF Expanded, Record
  <2>2. /\ es \subseteq Edge /\ dy \subseteq Tasks
        /\ jn \in [Node -> {"any", "all"}] /\ jf \in [Node -> SUBSET Node]
    BY <1>1, <1>2, <1>3 DEF Record
  <2>. HIDE DEF es, jn, jf, s, dy
  <2>3. /\ s \in Record /\ s.node = disk.node /\ s.pending = disk.pending
        /\ s.approved = disk.approved /\ s.tools = disk.tools
        /\ s.dynamic = dy /\ s.status = disk.status
    BY <1>1, <2>1, <2>2 DEF Record
  <2>. QED
    BY <2>3 DEF dy
<1>. HIDE DEF s
<1>5. Cardinality(s.dynamic) <= Graph.dynamic
  <2>1. IsFiniteSet(disk.dynamic) /\ IsFiniteSet(ts)
    BY <1>1, <1>2, GraphFacts, FS_Subset DEF Record, Tasks
  <2>2. /\ Cardinality(disk.dynamic \cup ts) =
             Cardinality(disk.dynamic) + Cardinality(ts) - Cardinality(disk.dynamic \cap ts)
        /\ Cardinality(disk.dynamic \cap ts) \in Nat
    BY <2>1, FS_Union, FS_Intersection, FS_CardinalityType
  <2>3. /\ Cardinality(disk.dynamic) \in Nat /\ Cardinality(ts) \in Nat /\ Graph.dynamic \in Nat
    BY <2>1, FS_CardinalityType, GraphFacts
  <2>. QED
    BY <1>2, <1>4, <2>2, <2>3
<1>6. RunInv(s)
  BY <1>1, <1>4, <1>5, ChangeRest
<1>. QED
  BY <1>6 DEF s
-------------------------------------------------------------------------------
\* The pieces that the mutators are made of.

\* What a synthetic edge leads to is a node.
LEMMA SyntheticEdge ==
  ASSUME NEW n \in Node, NEW S \in SUBSET Node
  PROVE  {Synthetic(n, t) : t \in FirstOf(S)} \subseteq Edge
<1>1. \A t \in Node : Synthetic(n, t) \in Edge
  BY DEF Synthetic, Edge, Values
<1>2. FirstOf(S) \subseteq Node
  BY DEF FirstOf
<1>. QED
  BY <1>1, <1>2

\* Terminals are nodes of the graph.
LEMMA TerminalNodes == \A status : Terminals(status) \subseteq Node
  BY GraphFacts DEF Terminals

\* route() leaves the mutator with a good record and edges to activate.
LEMMA RouteInv ==
  ASSUME NEW r, RunInv(r), NEW n \in Node, NEW ctx, Route(r, n, ctx)
  PROVE  RunInv(run)' /\ (todo \subseteq Edge)' /\ phase' = "activate"
<1>1. r \in Record
  BY NodeFacts DEF RunInv
<1>2. Selected(r, n, ctx) \subseteq Edge
  BY <1>1 DEF Selected, Record
<1>3. {Synthetic(n, t) : t \in FirstOf(Terminals("failed"))} \subseteq Edge
  BY SyntheticEdge, TerminalNodes
<1>4. RunInv([r EXCEPT !.status = "failed"])
  BY EndInv DEF Ended
<1>5. \/ run' = r \/ run' = [r EXCEPT !.status = "failed"]
  BY DEF Route
<1>6. \/ todo' = Selected(r, n, ctx)
      \/ todo' = {Synthetic(n, t) : t \in FirstOf(Terminals("failed"))}
      \/ todo' = {}
  BY DEF Route
<1>7. phase' = "activate"
  BY DEF Route
<1>8. RunInv(run')
  BY <1>4, <1>5
<1>9. todo' \subseteq Edge
  BY <1>2, <1>3, <1>6
<1>. QED
  BY <1>7, <1>8, <1>9

\* A mutator that throws, and one that commits at once.
LEMMA RollbackInv ==
  ASSUME IInv, Rollback, UNCHANGED <<disk, calls, late, faults>>
  PROVE  IInv'
  BY DEF IInv, Rest, Rollback, NoScan, RunInv

\* A mutator that commits a record at once.
LEMMA WriteInv ==
  ASSUME IInv, NEW r, RunInv(r), Write(r), UNCHANGED <<late, faults>>,
         calls' \in [Clients -> Calls]
  PROVE  IInv'
<1>1. disk' = r /\ run' = r /\ UNCHANGED <<phase, todo, scan, late, faults>>
  BY DEF Write
<1>2. RunInv(disk') /\ RunInv(run')
  BY <1>1
<1>3. Rest'
  BY <1>1 DEF IInv, Rest
<1>. QED
  BY <1>2, <1>3 DEF IInv

\* The calls of the clients once c has executed o.
LEMMA ExecuteRest ==
  ASSUME IInv, NEW c \in Clients, NEW o, Execute(c, o)
  PROVE  /\ calls' \in [Clients -> Calls] /\ UNCHANGED <<late, faults>>
         /\ phase = "idle"
  BY DEF IInv, Rest, Execute, Calls
-------------------------------------------------------------------------------
\* The new run satisfies the invariant, and the invariant is type correct.
LEMMA Initially == Init => IInv
<1>. SUFFICES ASSUME Init PROVE IInv
  OBVIOUS
<1>1. RunInv(disk) /\ RunInv(run)
  BY InitialRecord DEF Init
<1>2. Rest
  BY DEF Init, Rest, NoScan, Calls
<1>. QED
  BY <1>1, <1>2 DEF IInv

\* What Rest and RunInv say of the types is TypeOK.
LEMMA Typed == IInv => TypeOK
  BY DEF IInv, TypeOK, Rest, RunInv

\* What becomes of autoAdvance's position.
LEMMA ScanTypes ==
  ASSUME IInv
  PROVE  LET T == [on : BOOLEAN, at : Nat, sweep : Nat, changed : BOOLEAN]
         IN  /\ NoScan \in T /\ [scan EXCEPT !.on = TRUE] \in T
             /\ [scan EXCEPT !.at = 1, !.sweep = @ + 1, !.changed = FALSE] \in T
             /\ \A i \in Nat : [scan EXCEPT !.at = i + 1, !.changed = TRUE] \in T
<1>. DEFINE T == [on : BOOLEAN, at : Nat, sweep : Nat, changed : BOOLEAN]
<1>1. scan \in T
  BY DEF IInv, Rest
<1>2. NoScan \in T
  BY DEF NoScan
<1>3. [scan EXCEPT !.on = TRUE] \in T
  BY <1>1
<1>4. [scan EXCEPT !.at = 1, !.sweep = @ + 1, !.changed = FALSE] \in T
  <2>1. scan.sweep + 1 \in Nat
    BY <1>1
  <2>. QED
    BY <1>1, <2>1
<1>5. \A i \in Nat : [scan EXCEPT !.at = i + 1, !.changed = TRUE] \in T
  <2>1. \A i \in Nat : i + 1 \in Nat
    OBVIOUS
  <2>. QED
    BY <1>1, <2>1
<1>. QED
  BY <1>2, <1>3, <1>4, <1>5

\* The steps of a mutator.
LEMMA MutatorStep ==
  ASSUME IInv, Mutator
  PROVE  IInv'
<1>1. ASSUME NEW e \in todo, GiveUp(e) PROVE IInv'
  <2>1. e.to \in Node
    BY DEF IInv, Rest, Edge
  <2>2. {Synthetic(e.to, t) : t \in Fallback} \subseteq Edge
    BY <2>1, SyntheticEdge, TerminalNodes DEF Fallback
  <2>3. todo' \subseteq Edge
    BY <1>1, <2>2 DEF GiveUp, IInv, Rest
  <2>. QED
    BY <1>1, <2>3 DEF GiveUp, IInv, Rest, RunInv
<1>2. ASSUME NEW e \in todo, Activate(e) PROVE IInv'
  <2>. DEFINE r == Note(run, e)
  <2>1. e \in Edge /\ e.to \in Node
    BY DEF IInv, Rest, Edge
  <2>2. RunInv(r)
    BY <1>2, <2>1, NoteInv DEF IInv, Activate
  <2>3. r.node[e.to].status = "pending" => RunInv(Wake(r, e.to))
    BY <2>1, <2>2, WakeInv
  <2>4. run' = r \/ (r.node[e.to].status = "pending" /\ run' = Wake(r, e.to))
    BY <1>2 DEF Activate
  <2>. HIDE DEF r
  <2>5. RunInv(run')
    BY <2>2, <2>3, <2>4
  <2>6. /\ UNCHANGED <<disk, phase, scan, calls, late, faults>> /\ todo' = todo \ {e}
    BY <1>2 DEF Activate
  <2>7. Rest' /\ RunInv(disk')
    BY <2>6 DEF IInv, Rest
  <2>. QED
    BY <2>5, <2>7 DEF IInv
<1>3. CASE Routed
  <2>1. UNCHANGED <<disk, run, todo, calls, late, faults>>
    BY <1>3 DEF Routed
  <2>2. /\ phase' \in {"advance", "commit"}
        /\ scan' = NoScan \/ scan' = [scan EXCEPT !.on = TRUE]
    BY <1>3 DEF Routed
  <2>3. scan' \in [on : BOOLEAN, at : Nat, sweep : Nat, changed : BOOLEAN]
    BY <2>2, ScanTypes
  <2>. QED
    BY <2>1, <2>2, <2>3 DEF IInv, Rest, RunInv
<1>4. ASSUME NEW i \in DOMAIN Graph.order, AutoTriage(i) PROVE IInv'
  <2>. DEFINE n == Graph.order[i]
              r == [run EXCEPT !.node[n] = Tried(@, "succeeded"), !.steps = @ + 1]
              ctx == Context(n, "success", [route |-> Graph.node[n].route, approval |-> "none"],
                             FALSE, "none")
  <2>1. n \in Node /\ i \in Nat
    BY GraphFacts
  <2>2. run.node[n].status = "ready"
    BY <1>4 DEF AutoTriage, AtNode, Automatic
  <2>3. RunInv(r)
    BY <2>1, <2>2, AutoInv DEF IInv
  <2>4. /\ UNCHANGED <<disk, calls, late, faults>>
        /\ \/ Route(r, n, ctx) /\ scan' = [scan EXCEPT !.at = i + 1, !.changed = TRUE]
           \/ Rollback
    BY <1>4 DEF AutoTriage
  <2>. HIDE DEF n, r, ctx
  <2>5. CASE Rollback
    BY <2>4, <2>5, RollbackInv
  <2>6. CASE Route(r, n, ctx) /\ scan' = [scan EXCEPT !.at = i + 1, !.changed = TRUE]
    <3>1. RunInv(run)' /\ todo' \subseteq Edge /\ phase' = "activate"
      BY <2>1, <2>3, <2>6, RouteInv
    <3>2. scan' \in [on : BOOLEAN, at : Nat, sweep : Nat, changed : BOOLEAN]
      BY <2>1, <2>6, ScanTypes
    <3>. QED
      BY <2>4, <3>1, <3>2 DEF IInv, Rest, RunInv
  <2>. QED
    BY <2>4, <2>5, <2>6
<1>5. ASSUME NEW i \in DOMAIN Graph.order, FinalizeTerminal(i) PROVE IInv'
  <2>. DEFINE n == Graph.order[i]
              b == Quality([run EXCEPT !.node[n] = Reached(@)], n)
  <2>1. n \in Node
    BY GraphFacts
  <2>2. run.node[n].status = "ready"
    BY <1>5 DEF FinalizeTerminal, AtNode, Automatic
  <2>3. b \in BOOLEAN
    BY DEF Quality
  <2>4. /\ run' = [[run EXCEPT !.node[n] = Reached(@)] EXCEPT
                     !.status = "finalized", !.final = Graph.node[n].terminal, !.quality = b]
        /\ phase' = "commit" /\ scan' = NoScan /\ UNCHANGED <<disk, todo, calls, late, faults>>
    BY <1>5 DEF FinalizeTerminal
  <2>. HIDE DEF n, b
  <2>5. RunInv(run')
    BY <2>1, <2>2, <2>3, <2>4, TerminalInv DEF IInv
  <2>6. Rest' /\ RunInv(disk')
    BY <2>4 DEF IInv, Rest, NoScan
  <2>. QED
    BY <2>5, <2>6 DEF IInv
<1>6. CASE SweepEnds
  <2>1. run' = run \/ run' = [run EXCEPT !.status = "failed"]
    BY <1>6 DEF SweepEnds
  <2>2. RunInv(run')
    BY <2>1, EndInv DEF IInv, Ended
  <2>3. /\ phase' \in {"advance", "commit"} /\ UNCHANGED <<disk, todo, calls, late, faults>>
        /\ scan' = NoScan \/ scan' = [scan EXCEPT !.at = 1, !.sweep = @ + 1, !.changed = FALSE]
    BY <1>6 DEF SweepEnds
  <2>4. scan' \in [on : BOOLEAN, at : Nat, sweep : Nat, changed : BOOLEAN]
    BY <2>3, ScanTypes
  <2>5. Rest' /\ RunInv(disk')
    BY <2>3, <2>4 DEF IInv, Rest
  <2>. QED
    BY <2>2, <2>5 DEF IInv
<1>7. CASE Commit
  BY <1>7 DEF Commit, IInv, Rest, RunInv
<1>. QED
  BY <1>1, <1>2, <1>3, <1>4, <1>5, <1>6, <1>7 DEF Mutator

\* The steps of a client.
LEMMA ClientStep ==
  ASSUME IInv, NEW c \in Clients, Client(c)
  PROVE  IInv'
<1>1. ASSUME NEW o \in Ops, Reserve(c, o) PROVE IInv'
  <2>1. UNCHANGED <<late, faults>>
    BY <1>1 DEF Reserve
  <2>2. CASE late \/ disk.tools >= MaxTools
    <3>1. Write([disk EXCEPT !.status = "budget_exceeded"]) /\ UNCHANGED calls
      BY <1>1, <2>2 DEF Reserve
    <3>2. RunInv([disk EXCEPT !.status = "budget_exceeded"])
      BY EndInv DEF IInv, Ended
    <3>3. calls' \in [Clients -> Calls]
      BY <3>1 DEF IInv, Rest
    <3>. QED
      BY <2>1, <3>1, <3>2, <3>3, WriteInv
  <2>3. CASE ~(late \/ disk.tools >= MaxTools)
    <3>1. Write([disk EXCEPT !.tools = @ + 1]) /\ calls' = [calls EXCEPT ![c] = o]
      BY <1>1, <2>3 DEF Reserve
    <3>2. disk.tools < MaxTools
      BY <2>3, GraphFacts DEF IInv, RunInv, Record
    <3>3. RunInv([disk EXCEPT !.tools = @ + 1])
      BY <3>2, PaidInv DEF IInv
    <3>4. calls' \in [Clients -> Calls]
      BY <3>1 DEF IInv, Rest, Calls
    <3>. QED
      BY <2>1, <3>1, <3>3, <3>4, WriteInv
  <2>. QED
    BY <2>2, <2>3
<1>2. ASSUME NEW n \in In(disk, "ready"), ClaimGraphNode(c, n) PROVE IInv'
  <2>1. n \in Node /\ Execute(c, "claim") /\ MayClaim(n)
        /\ Write([disk EXCEPT !.node[n] = Tried(@, "running")])
    BY <1>2 DEF ClaimGraphNode, In
  <2>2. RunInv([disk EXCEPT !.node[n] = Tried(@, "running")])
    BY <2>1, ClaimInv DEF IInv
  <2>3. calls' \in [Clients -> Calls] /\ UNCHANGED <<late, faults>>
    BY <2>1, ExecuteRest
  <2>. QED
    BY <2>1, <2>2, <2>3, WriteInv
<1>3. ASSUME NEW n \in In(disk, "running"), NEW a \in Answers(n), CompleteGraphNode(c, n, a)
      PROVE  IInv'
  <2>. DEFINE r == Completed(n, a)
              ctx == Context(n, a.outcome, [route |-> a.route, approval |-> "none"], a.passed,
                             Effective(a.failure, r.counts[n][a.signature]))
  <2>1. n \in Node /\ disk.node[n].status = "running"
    BY DEF In
  <2>2. /\ Execute(c, "complete")
        /\ \/ Write([r EXCEPT !.status = "budget_exceeded"])
           \/ Route(r, n, ctx) /\ UNCHANGED <<disk, scan>>
           \/ Rollback /\ UNCHANGED disk
    BY <1>3 DEF CompleteGraphNode
  <2>3. RunInv(r)
    BY <2>1, CompletedInv DEF IInv
  <2>4. RunInv([r EXCEPT !.status = "budget_exceeded"])
    BY <2>3, EndInv DEF Ended
  <2>. HIDE DEF r, ctx
  <2>5. calls' \in [Clients -> Calls] /\ UNCHANGED <<late, faults>>
    BY <2>2, ExecuteRest
  <2>6. CASE Write([r EXCEPT !.status = "budget_exceeded"])
    BY <2>4, <2>5, <2>6, WriteInv
  <2>7. CASE Route(r, n, ctx) /\ UNCHANGED <<disk, scan>>
    <3>1. RunInv(run)' /\ todo' \subseteq Edge /\ phase' = "activate"
      BY <2>1, <2>3, <2>7, RouteInv
    <3>. QED
      BY <2>5, <2>7, <3>1 DEF IInv, Rest, RunInv
  <2>8. CASE Rollback /\ UNCHANGED disk
    BY <2>5, <2>8 DEF IInv, Rest, Rollback, NoScan, RunInv
  <2>. QED
    BY <2>2, <2>6, <2>7, <2>8
<1>4. ASSUME NEW n \in disk.pending, NEW d \in {"approved", "denied"},
             ResolveGraphApproval(c, n, d)
      PROVE  IInv'
  <2>. DEFINE r == Resolved(n, d)
              ctx == Context(n, IF d = "approved" THEN "success" ELSE "blocked",
                             [route |-> "none", approval |-> d], FALSE, "none")
  <2>1. n \in Node
    BY DEF IInv, RunInv, In
  <2>2. /\ Execute(c, "resolve")
        /\ \/ Route(r, n, ctx) /\ UNCHANGED <<disk, scan>>
           \/ Rollback /\ UNCHANGED disk
    BY <1>4 DEF ResolveGraphApproval
  <2>3. RunInv(r)
    BY ResolvedInv DEF IInv
  <2>. HIDE DEF r, ctx
  <2>4. calls' \in [Clients -> Calls] /\ UNCHANGED <<late, faults>>
    BY <2>2, ExecuteRest
  <2>5. CASE Route(r, n, ctx) /\ UNCHANGED <<disk, scan>>
    <3>1. RunInv(run)' /\ todo' \subseteq Edge /\ phase' = "activate"
      BY <2>1, <2>3, <2>5, RouteInv
    <3>. QED
      BY <2>4, <2>5, <3>1 DEF IInv, Rest, RunInv
  <2>6. CASE Rollback /\ UNCHANGED disk
    BY <2>4, <2>6 DEF IInv, Rest, Rollback, NoScan, RunInv
  <2>. QED
    BY <2>2, <2>5, <2>6
<1>5. ASSUME NEW p \in In(disk, "running"), NEW j \in In(disk, "pending"),
             NEW ts \in SUBSET Tasks, ExpandGraph(c, p, j, ts)
      PROVE  IInv'
  <2>1. /\ p \in Node /\ j \in Node
        /\ Execute(c, "expand") /\ MayExpand(p, j, ts) /\ Write(Expanded(p, j, ts))
    BY <1>5 DEF ExpandGraph, In
  <2>2. RunInv(Expanded(p, j, ts))
    BY <2>1, ExpandInv DEF IInv
  <2>3. calls' \in [Clients -> Calls] /\ UNCHANGED <<late, faults>>
    BY <2>1, ExecuteRest
  <2>. QED
    BY <2>1, <2>2, <2>3, WriteInv
<1>6. CASE Reject(c)
  <2>1. Execute(c, calls[c]) /\ UNCHANGED <<disk, run, phase, todo, scan>>
    BY <1>6 DEF Reject
  <2>2. calls' \in [Clients -> Calls] /\ UNCHANGED <<late, faults>>
    BY <2>1, ExecuteRest
  <2>. QED
    BY <2>1, <2>2 DEF IInv, Rest, RunInv
<1>7. CASE StartAdvance(c)
  <2>1. /\ Execute(c, "start") /\ phase' = "advance"
        /\ scan' = [NoScan EXCEPT !.on = TRUE] /\ UNCHANGED <<disk, run, todo>>
    BY <1>7 DEF StartAdvance
  <2>2. calls' \in [Clients -> Calls] /\ UNCHANGED <<late, faults>>
    BY <2>1, ExecuteRest
  <2>. QED
    BY <2>1, <2>2 DEF IInv, Rest, RunInv, NoScan
<1>. QED
  BY <1>1, <1>2, <1>3, <1>4, <1>5, <1>6, <1>7 DEF Client

\* Every step preserves the invariant.
LEMMA Step == IInv /\ [Next]_vars => IInv'
<1>. SUFFICES ASSUME IInv, [Next]_vars PROVE IInv'
  OBVIOUS
<1>1. ASSUME NEW c \in Clients, Drop(c) PROVE IInv'
  <2>1. /\ UNCHANGED <<disk, run, phase, todo, scan, late>> /\ faults' = faults + 1
        /\ calls' = [calls EXCEPT ![c] = "none"]
    BY <1>1 DEF Drop
  <2>. QED
    BY <2>1 DEF IInv, Rest, RunInv, Calls
<1>2. CASE AbortGraphRun
  <2>1. RunInv([disk EXCEPT !.status = "aborted"])
    BY EndInv DEF IInv, Ended
  <2>2. /\ Write([disk EXCEPT !.status = "aborted"]) /\ UNCHANGED <<late, faults>>
        /\ calls' \in [Clients -> Calls]
    BY <1>2 DEF AbortGraphRun, IInv, Rest
  <2>. QED
    BY <2>1, <2>2, WriteInv
<1>3. CASE DeadlinePasses
  BY <1>3 DEF DeadlinePasses, IInv, Rest, RunInv
<1>4. CASE UNCHANGED vars
  BY <1>4 DEF vars, IInv, Rest, RunInv
<1>. QED
  BY <1>1, <1>2, <1>3, <1>4, MutatorStep, ClientStep DEF Next
-------------------------------------------------------------------------------
\* The invariant holds of every run.
LEMMA Inductive == Spec => []IInv
<1>. QED
  BY Initially, Step, PTL DEF Spec

\* The variables of the runtime, whatever the graph and however many clients,
\* keep their types: in particular every edge id that a mutator has still to
\* activate leads to a node of the graph.
THEOREM TypeCorrect == Spec => []TypeOK
<1>. QED
  BY Inductive, Typed, PTL

\* No loop, no race of clients and no expansion takes a run over its limits on
\* attempts, visits, parallel nodes, tool calls and dynamic nodes.
THEOREM Limits == Spec => []WithinLimits
<1>1. IInv => WithinLimits
  BY DEF IInv, RunInv, NodeInv, WithinLimits
<1>. QED
  BY <1>1, Inductive, PTL

\* The pending approvals of a run are those of the nodes that wait for one, and
\* a run that waits for approvals has one.
THEOREM Approvals == Spec => []ApprovalsMatchNodes
<1>1. IInv => ApprovalsMatchNodes
  BY DEF IInv, RunInv, ApprovalsMatchNodes
<1>. QED
  BY <1>1, Inductive, PTL

\* Nothing but an approval takes a run past a node that requires one, the entry
\* node excepted.
THEOREM Gates == Spec => []GatedNodesAreApproved
<1>1. IInv => GatedNodesAreApproved
  BY DEF IInv, RunInv, GateInv, GatedNodesAreApproved
<1>. QED
  BY <1>1, Inductive, PTL
-------------------------------------------------------------------------------
\* If callers wait for startGraphRun's answer, a run that is still starting is
\* active and nobody else is calling.
StartInv ==
  \A c \in Clients : calls[c] = "start" =>
    phase = "idle" /\ disk.status = "active" /\ \A d \in Clients \ {c} : calls[d] = "none"

\* A mutator only routes in a run that has not ended.
MutatorInv == StartInv /\ (phase # "idle" => disk.status \in Live)

\* Once a call executes, the run is no longer starting.
LEMMA NoStartLeft ==
  ASSUME StartInv, Rest, NEW c \in Clients, calls[c] # "none",
         calls' = [calls EXCEPT ![c] = "none"]
  PROVE  StartInv'
  BY DEF StartInv, Rest

\* Every step preserves StartInv.
LEMMA StartInductive ==
  ASSUME ~EarlyCalls, Rest, StartInv, [Next]_vars
  PROVE  StartInv'
<1>1. CASE Mutator
  <2>1. phase # "idle" /\ calls' = calls
    BY <1>1 DEF Mutator, GiveUp, Activate, Routed, AutoTriage, FinalizeTerminal,
      SweepEnds, Commit, AtNode
  <2>. QED
    BY <2>1 DEF StartInv
<1>2. ASSUME NEW c \in Clients, Client(c) PROVE StartInv'
  <2>1. ASSUME NEW o \in Ops, Reserve(c, o) PROVE StartInv'
    <3>1. \A d \in Clients : calls[d] # "start"
      BY <2>1 DEF Reserve, Known
    <3>2. calls' = calls \/ calls' = [calls EXCEPT ![c] = o]
      BY <2>1 DEF Reserve
    <3>. QED
      BY <3>1, <3>2 DEF StartInv, Rest, Ops
  <2>2. ASSUME NEW o, o # "none", Execute(c, o) PROVE StartInv'
    BY <2>2, NoStartLeft DEF Execute
  <2>3. CASE Reject(c)
    BY <2>2, <2>3 DEF Reject
  <2>. QED
    BY <1>2, <2>1, <2>2, <2>3 DEF Client, StartAdvance, ClaimGraphNode, CompleteGraphNode,
      ResolveGraphApproval, ExpandGraph
<1>3. ASSUME NEW c \in Clients, Drop(c) PROVE StartInv'
  BY <1>3, NoStartLeft DEF Drop
<1>4. CASE AbortGraphRun
  <2>1. (\A c \in Clients : calls[c] # "start") /\ calls' = calls
    BY <1>4 DEF AbortGraphRun, Known
  <2>. QED
    BY <2>1 DEF StartInv
<1>5. CASE DeadlinePasses \/ UNCHANGED vars
  BY <1>5 DEF StartInv, DeadlinePasses, vars
<1>. QED
  BY <1>1, <1>2, <1>3, <1>4, <1>5 DEF Next

\* Every step preserves MutatorInv.
LEMMA MutatorInductive ==
  ASSUME ~EarlyCalls, Rest, MutatorInv, [Next]_vars
  PROVE  MutatorInv'
<1>. SUFFICES (phase # "idle" => disk.status \in Live)'
  BY StartInductive DEF MutatorInv
<1>1. CASE Mutator
  BY <1>1 DEF MutatorInv, Mutator, GiveUp, Activate, Routed, AutoTriage, FinalizeTerminal,
    SweepEnds, Commit, AtNode, Route, Rollback
<1>2. ASSUME NEW c \in Clients, Client(c) PROVE (phase # "idle" => disk.status \in Live)'
  <2>1. ASSUME NEW o \in Ops, Reserve(c, o) PROVE (phase # "idle" => disk.status \in Live)'
    BY <2>1 DEF MutatorInv, Reserve, Write
  <2>2. ASSUME NEW n \in In(disk, "ready"), ClaimGraphNode(c, n) PROVE (phase # "idle" => disk.status \in Live)'
    BY <2>2 DEF MutatorInv, ClaimGraphNode, Execute, Write
  <2>3. ASSUME NEW n \in In(disk, "running"), NEW a \in Answers(n), CompleteGraphNode(c, n, a)
        PROVE  (phase # "idle" => disk.status \in Live)'
    <3>1. phase = "idle" /\ disk.status = "active"
      BY <2>3 DEF CompleteGraphNode, Execute, MayComplete
    <3>2. phase' = phase \/ disk' = disk
      BY <2>3 DEF CompleteGraphNode, Write, Rollback
    <3>. QED
      BY <3>1, <3>2 DEF MutatorInv, Live
  <2>4. ASSUME NEW n \in disk.pending, NEW d \in {"approved", "denied"},
               ResolveGraphApproval(c, n, d)
        PROVE  (phase # "idle" => disk.status \in Live)'
    <3>1. disk.status = "waiting_approval" /\ disk' = disk
      BY <2>4 DEF ResolveGraphApproval, MayResolve
    <3>. QED
      BY <3>1 DEF MutatorInv, Live
  <2>5. ASSUME NEW p \in In(disk, "running"), NEW j \in In(disk, "pending"),
               NEW ts \in SUBSET Tasks, ExpandGraph(c, p, j, ts)
        PROVE  (phase # "idle" => disk.status \in Live)'
    BY <2>5 DEF MutatorInv, ExpandGraph, Execute, Write
  <2>6. CASE Reject(c)
    BY <2>6 DEF MutatorInv, Reject
  <2>7. CASE StartAdvance(c)
    <3>1. disk.status = "active" /\ disk' = disk
      BY <2>7 DEF MutatorInv, StartInv, StartAdvance, Execute
    <3>. QED
      BY <3>1 DEF Live
  <2>. QED
    BY <1>2, <2>1, <2>2, <2>3, <2>4, <2>5, <2>6, <2>7 DEF Client
<1>3. ASSUME NEW c \in Clients, Drop(c) PROVE (phase # "idle" => disk.status \in Live)'
  BY <1>3 DEF MutatorInv, Drop
<1>4. CASE AbortGraphRun
  BY <1>4 DEF MutatorInv, AbortGraphRun, Write
<1>5. CASE DeadlinePasses \/ UNCHANGED vars
  BY <1>5 DEF MutatorInv, DeadlinePasses, vars
<1>. QED
  BY <1>1, <1>2, <1>3, <1>4, <1>5 DEF Next

\* A step that starts from the record of a finalized or aborted run leaves its
\* outcome alone: only an expansion still writes the record.
LEMMA FinalStep ==
  ASSUME ~EarlyCalls, IInv, MutatorInv, [Next]_vars, disk.status \in {"finalized", "aborted"}
  PROVE  UNCHANGED Outcome
<1>1. phase = "idle" /\ disk.status \notin Live
  BY DEF MutatorInv, Live
<1>2. CASE Mutator
  <2>1. disk' = disk
    BY <1>1, <1>2 DEF Mutator, GiveUp, Activate, Routed, AutoTriage, FinalizeTerminal,
      SweepEnds, Commit, AtNode
  <2>. QED
    BY <2>1 DEF Outcome
<1>3. ASSUME NEW c \in Clients, Client(c) PROVE UNCHANGED Outcome
  <2>1. \A o \in Ops : ~Reserve(c, o)
    BY <1>1 DEF Reserve, Live
  <2>2. \A n : ~MayClaim(n) /\ ~MayComplete(n) /\ ~MayResolve(n)
    BY <1>1 DEF MayClaim, MayComplete, MayResolve, Live
  <2>3. CASE Reject(c)
    BY <2>3 DEF Reject, Outcome
  <2>4. ASSUME NEW p \in In(disk, "running"), NEW j \in In(disk, "pending"),
               NEW ts \in SUBSET Tasks, ExpandGraph(c, p, j, ts)
        PROVE  UNCHANGED Outcome
    <3>1. disk' = Expanded(p, j, ts) /\ disk \in Record
      BY <2>4 DEF ExpandGraph, Write, IInv, RunInv
    <3>. QED
      BY <3>1 DEF Expanded, Outcome, Record
  <2>5. ~StartAdvance(c)
    BY <1>1 DEF StartAdvance, Execute, MutatorInv, StartInv, Live
  <2>. QED
    BY <1>3, <2>1, <2>2, <2>3, <2>4, <2>5
      DEF Client, ClaimGraphNode, CompleteGraphNode, ResolveGraphApproval
<1>4. ASSUME NEW c \in Clients, Drop(c) PROVE UNCHANGED Outcome
  BY <1>4 DEF Drop, Outcome
<1>5. ~AbortGraphRun
  BY DEF AbortGraphRun
<1>6. CASE DeadlinePasses \/ UNCHANGED vars
  BY <1>6 DEF DeadlinePasses, vars, Outcome
<1>. QED
  BY <1>2, <1>3, <1>4, <1>5, <1>6 DEF Next

\* How a run ended is final: no call that was reserved before the end, and no
\* mutator, changes it afterwards, as long as nobody calls before startGraphRun
\* has returned.
THEOREM Finality ==
  ASSUME ~EarlyCalls
  PROVE  Spec => OutcomeIsFinal
<1>1. Init => MutatorInv
  <2>. SUFFICES ASSUME Init PROVE MutatorInv
    OBVIOUS
  <2>1. phase = "idle" /\ disk.status = "active"
    BY DEF Init, InitialRun
  <2>2. PICK c \in Clients : calls = [d \in Clients |-> IF d = c THEN "start" ELSE "none"]
    BY DEF Init
  <2>. QED
    BY <2>1, <2>2 DEF MutatorInv, StartInv
<1>2. IInv /\ MutatorInv /\ [Next]_vars => MutatorInv'
  BY MutatorInductive DEF IInv
<1>3. Spec => []MutatorInv
  BY <1>1, <1>2, Inductive, PTL DEF Spec
<1>4. IInv /\ MutatorInv /\ [Next]_vars
        => [disk.status \in {"finalized", "aborted"} => UNCHANGED Outcome]_disk
  BY FinalStep
<1>. QED
  BY <1>3, <1>4, Inductive, PTL DEF Spec, OutcomeIsFinal
-------------------------------------------------------------------------------
(* Joins *)

\* What JoinReady waits for.
Sources(r, n) ==
  IF r.joinFrom[n] # {} THEN r.joinFrom[n]
  ELSE {e.from : e \in {f \in r.edges : f.to = n}}

\* JoinsWait, of one node of any record.
JoinWaits(r, n) ==
  r.join[n] = "all" /\ r.node[n].status \in {"ready", "running"}
  /\ (r.joinFrom[n] = {} \/ r.node[n].attempts = 0) =>
    Sources(r, n) \subseteq {e.from : e \in r.node[n].incoming}

\* Nothing waits at a task that is no part of the run yet, so that an expansion
\* adds no source to a join that has started.
ShapeInv(r) ==
  /\ \A t \in Tasks \ r.dynamic : r.join[t] = "any"
  /\ \A n \in Node : r.node[n].status = "running" => r.node[n].attempts > 0
  /\ \A n \in Node \ {Graph.entry} : JoinWaits(r, n)

\* s has the graph of r, and no node of s has started that had not in r.
Kept(r, s) ==
  /\ s.join = r.join /\ s.joinFrom = r.joinFrom
  /\ s.edges = r.edges /\ s.dynamic = r.dynamic
  /\ \A n \in Node :
       /\ r.node[n].attempts <= s.node[n].attempts
       /\ s.node[n].status # "pending" => r.node[n].status # "pending"
       /\ s.node[n].status \in {"ready", "running"} =>
            /\ r.node[n].status \in {"ready", "running"}
            /\ r.node[n].incoming \subseteq s.node[n].incoming
       /\ s.node[n].status = "running" =>
            r.node[n].status = "running" \/ s.node[n].attempts > 0

Moved(r, s) == Kept(r, s) /\ s.final = r.final

LEMMA KeptShape ==
  ASSUME NEW r \in Record, NEW s \in Record, ShapeInv(r), Kept(r, s)
  PROVE  ShapeInv(s)
<1>1. \A n \in Node : r.node[n].attempts \in Nat /\ s.node[n].attempts \in Nat
  BY DEF Record
<1>2. \A t \in Tasks \ s.dynamic : s.join[t] = "any"
  BY DEF ShapeInv, Kept
<1>3. ASSUME NEW n \in Node, s.node[n].status = "running" PROVE s.node[n].attempts > 0
  BY <1>1, <1>3 DEF ShapeInv, Kept
<1>4. ASSUME NEW n \in Node \ {Graph.entry} PROVE JoinWaits(s, n)
  <2>1. SUFFICES ASSUME s.join[n] = "all", s.node[n].status \in {"ready", "running"},
                        s.joinFrom[n] = {} \/ s.node[n].attempts = 0
                 PROVE  Sources(s, n) \subseteq {e.from : e \in s.node[n].incoming}
    BY DEF JoinWaits
  <2>2. /\ r.join[n] = "all" /\ r.node[n].status \in {"ready", "running"}
        /\ r.joinFrom[n] = s.joinFrom[n] /\ Sources(r, n) = Sources(s, n)
        /\ r.node[n].incoming \subseteq s.node[n].incoming
    BY <2>1 DEF Kept, Sources
  <2>3. r.joinFrom[n] = {} \/ r.node[n].attempts = 0
    BY <1>1, <2>1, <2>2 DEF Kept
  <2>4. Sources(r, n) \subseteq {e.from : e \in r.node[n].incoming}
    BY <2>2, <2>3 DEF ShapeInv, JoinWaits
  <2>. QED
    BY <2>2, <2>4
<1>. QED
  BY <1>2, <1>3, <1>4 DEF ShapeInv

\* One node changes, and does not start.
LEMMA ChangeKept ==
  ASSUME NEW r \in Record, NEW s \in Record, NEW n \in Node,
         s.join = r.join, s.joinFrom = r.joinFrom,
         s.edges = r.edges, s.dynamic = r.dynamic, s.final = r.final,
         \A m \in Node \ {n} : s.node[m] = r.node[m],
         r.node[n].attempts <= s.node[n].attempts,
         s.node[n].status # "pending" => r.node[n].status # "pending",
         s.node[n].status \in {"ready", "running"} =>
           /\ r.node[n].status \in {"ready", "running"}
           /\ r.node[n].incoming \subseteq s.node[n].incoming,
         s.node[n].status = "running" =>
           r.node[n].status = "running" \/ s.node[n].attempts > 0
  PROVE  Moved(r, s)
<1>1. \A m \in Node : r.node[m].attempts \in Nat
  BY DEF Record
<1>2. \A m \in Node : r.node[m].attempts <= r.node[m].attempts
  BY <1>1
<1>. QED
  BY <1>2 DEF Moved, Kept

\* A record moves to itself, and to any record with its nodes and its graph.
LEMMA SameKept ==
  ASSUME NEW r \in Record, NEW s, s.node = r.node, s.join = r.join, s.joinFrom = r.joinFrom,
         s.edges = r.edges, s.dynamic = r.dynamic, s.final = r.final
  PROVE  Moved(r, s)
<1>1. \A m \in Node : r.node[m].attempts <= r.node[m].attempts
  BY DEF Record
<1>. QED
  BY <1>1 DEF Moved, Kept

LEMMA StatusKept ==
  ASSUME NEW r \in Record, NEW st
  PROVE  Moved(r, [r EXCEPT !.status = st])
<1>. DEFINE s == [r EXCEPT !.status = st]
<1>1. /\ s.node = r.node /\ s.join = r.join /\ s.joinFrom = r.joinFrom
      /\ s.edges = r.edges /\ s.dynamic = r.dynamic /\ s.final = r.final
  BY DEF Record
<1>. HIDE DEF s
<1>. QED
  BY <1>1, SameKept DEF s

LEMMA PaidKept ==
  ASSUME NEW r \in Record
  PROVE  Moved(r, [r EXCEPT !.tools = @ + 1])
<1>. DEFINE s == [r EXCEPT !.tools = @ + 1]
<1>1. /\ s.node = r.node /\ s.join = r.join /\ s.joinFrom = r.joinFrom
      /\ s.edges = r.edges /\ s.dynamic = r.dynamic /\ s.final = r.final
  BY DEF Record
<1>. HIDE DEF s
<1>. QED
  BY <1>1, SameKept DEF s

\* Moves compose with a change of the status.
LEMMA MovedOn ==
  ASSUME NEW r \in Record, NEW s \in Record, NEW t, Moved(r, s),
         t.node = s.node, t.join = s.join, t.joinFrom = s.joinFrom,
         t.edges = s.edges, t.dynamic = s.dynamic, t.final = s.final
  PROVE  Moved(r, t)
  BY DEF Moved, Kept

\* The node of a record that is replaced, and what is not.
LEMMA SetNodeGraph ==
  ASSUME NEW r \in Record, NEW n \in Node, NEW x \in NodeRecord
  PROVE  LET q == [r EXCEPT !.node[n] = x]
         IN  /\ q.join = r.join /\ q.joinFrom = r.joinFrom /\ q.edges = r.edges
             /\ q.dynamic = r.dynamic /\ q.final = r.final
  BY DEF Record

LEMMA SetNodeKept ==
  ASSUME NEW r \in Record, NEW n \in Node, NEW x \in NodeRecord,
         r.node[n].attempts <= x.attempts,
         x.status # "pending" => r.node[n].status # "pending",
         x.status \in {"ready", "running"} =>
           /\ r.node[n].status \in {"ready", "running"}
           /\ r.node[n].incoming \subseteq x.incoming,
         x.status = "running" => r.node[n].status = "running" \/ x.attempts > 0
  PROVE  Moved(r, [r EXCEPT !.node[n] = x])
<1>. DEFINE q == [r EXCEPT !.node[n] = x]
<1>1. q \in Record /\ q.node[n] = x /\ \A m \in Node \ {n} : q.node[m] = r.node[m]
  BY SetNode
<1>2. /\ q.join = r.join /\ q.joinFrom = r.joinFrom /\ q.edges = r.edges
      /\ q.dynamic = r.dynamic /\ q.final = r.final
  BY SetNodeGraph
<1>. HIDE DEF q
<1>3. Moved(r, q)
  BY <1>1, <1>2, ChangeKept
<1>. QED
  BY <1>3 DEF q

LEMMA NoteKept ==
  ASSUME NEW r \in Record, NEW e \in Edge
  PROVE  Note(r, e) \in Record /\ Moved(r, Note(r, e))
<1>. DEFINE n == e.to
            x == r.node[n]
            y == IF x.status \in Done
                 THEN [NodeState EXCEPT !.attempts = x.attempts, !.visits = x.visits]
                 ELSE x
            z == [y EXCEPT !.incoming = @ \cup {e}]
<1>1. n \in Node /\ x \in NodeRecord
  BY DEF Edge, Record, NodeRecord
<1>2. y \in NodeRecord
  BY <1>1 DEF NodeState, NodeRecord, NodeStatus
<1>3. z \in NodeRecord
  BY <1>2 DEF NodeRecord
<1>4. /\ z.attempts = x.attempts
      /\ z.status = IF x.status \in Done THEN "pending" ELSE x.status
      /\ x.status \notin Done => x.incoming \subseteq z.incoming
  BY <1>1, <1>2 DEF NodeState, NodeRecord
<1>5. Note(r, e) = [r EXCEPT !.node[n] = z]
  BY DEF Note
<1>6. r.node[n] = x /\ x.attempts \in Nat
  BY <1>1 DEF NodeRecord
<1>. HIDE DEF n, x, y, z
<1>7. /\ r.node[n].attempts <= z.attempts
      /\ z.status # "pending" => r.node[n].status # "pending"
      /\ z.status \in {"ready", "running"} =>
           /\ r.node[n].status \in {"ready", "running"}
           /\ r.node[n].incoming \subseteq z.incoming
      /\ z.status = "running" => r.node[n].status = "running"
  BY <1>4, <1>6 DEF Done
<1>8. Moved(r, [r EXCEPT !.node[n] = z])
  BY <1>1, <1>3, <1>7, SetNodeKept
<1>9. [r EXCEPT !.node[n] = z] \in Record
  BY <1>1, <1>3, SetNode
<1>. QED
  BY <1>5, <1>8, <1>9

\* A node is tried, or finished.
LEMMA TriedKept ==
  ASSUME NEW r \in Record, NEW n \in Node, NEW st \in Done \cup {"running"},
         r.node[n].status \in {"ready", "waiting_approval"},
         st = "running" => r.node[n].status = "ready"
  PROVE  /\ Tried(r.node[n], st) \in NodeRecord
         /\ Moved(r, [r EXCEPT !.node[n] = Tried(r.node[n], st)])
<1>. DEFINE x == r.node[n]
            z == Tried(x, st)
<1>1. x \in NodeRecord /\ x.attempts \in Nat /\ x.attempts + 1 \in Nat /\ st \in NodeStatus
  BY DEF Record, NodeRecord, NodeStatus
<1>2. /\ z \in NodeRecord /\ z.status = st /\ z.attempts = x.attempts + 1
      /\ z.incoming = x.incoming
  BY <1>1 DEF Tried, NodeRecord
<1>3. r.node[n] = x
  OBVIOUS
<1>. HIDE DEF x, z
<1>4. x.attempts <= z.attempts /\ z.attempts > 0
  BY <1>1, <1>2
<1>5. st # "pending" /\ st # "ready"
  BY DEF Done
<1>6. Moved(r, [r EXCEPT !.node[n] = z])
  BY <1>2, <1>3, <1>4, <1>5, SetNodeKept
<1>. QED
  BY <1>2, <1>6 DEF z, x

LEMMA AutoKept ==
  ASSUME NEW r \in Record, NEW n \in Node, r.node[n].status = "ready"
  PROVE  Moved(r, [r EXCEPT !.node[n] = Tried(@, "succeeded"), !.steps = @ + 1])
<1>. DEFINE z == Tried(r.node[n], "succeeded")
            q == [r EXCEPT !.node[n] = z]
            s == [r EXCEPT !.node[n] = Tried(@, "succeeded"), !.steps = @ + 1]
<1>1. z \in NodeRecord /\ Moved(r, q)
  BY TriedKept DEF Done
<1>2. s = [q EXCEPT !.steps = @ + 1]
  BY DEF Record
<1>3. q \in Record
  BY <1>1, SetNode
<1>. HIDE DEF z, q, s
<1>4. /\ s.node = q.node /\ s.join = q.join /\ s.joinFrom = q.joinFrom
      /\ s.edges = q.edges /\ s.dynamic = q.dynamic /\ s.final = q.final
  BY <1>2, <1>3 DEF Record
<1>5. Moved(r, s)
  BY <1>1, <1>3, <1>4, MovedOn
<1>. QED
  BY <1>5 DEF s

LEMMA CompletedKept ==
  ASSUME disk \in Record, NEW n \in Node, disk.node[n].status = "running", NEW a \in Answers(n)
  PROVE  Moved(disk, Completed(n, a))
<1>. DEFINE x == disk.node[n]
            z == Answered(x, a)
            q == [disk EXCEPT !.node[n] = z]
            s == Completed(n, a)
<1>1. x \in NodeRecord /\ x.attempts \in Nat
  BY DEF Record, NodeRecord
<1>2. /\ a.outcome \in {"success", "failed", "blocked"} /\ a.passed \in BOOLEAN
  BY DEF Answers
<1>3. /\ z \in NodeRecord /\ z.status \in Done /\ z.attempts = x.attempts
  BY <1>1, <1>2 DEF Answered, NodeRecord, NodeStatus, Done
<1>4. /\ s.node = q.node /\ s.join = q.join /\ s.joinFrom = q.joinFrom
      /\ s.edges = q.edges /\ s.dynamic = q.dynamic /\ s.final = q.final
  BY DEF Completed, Record
<1>5. disk.node[n] = x /\ x.status = "running"
  OBVIOUS
<1>. HIDE DEF x, z, s
<1>6. q \in Record
  BY <1>3, SetNode
<1>7. x.attempts <= z.attempts /\ z.status \notin {"pending", "ready", "running"}
  BY <1>1, <1>3 DEF Done
<1>8. Moved(disk, q)
  BY <1>3, <1>5, <1>7, SetNodeKept
<1>. HIDE DEF q
<1>9. Moved(disk, s)
  BY <1>4, <1>6, <1>8, MovedOn
<1>. QED
  BY <1>9 DEF s

LEMMA ResolvedKept ==
  ASSUME disk \in Record, NEW n \in Node, disk.node[n].status = "waiting_approval",
         NEW d \in {"approved", "denied"}
  PROVE  Moved(disk, Resolved(n, d))
<1>. DEFINE st == IF d = "approved" THEN "succeeded" ELSE "blocked"
            z == Tried(disk.node[n], st)
            q == [disk EXCEPT !.node[n] = z]
            s == Resolved(n, d)
<1>1. st \in Done
  BY DEF Done
<1>2. /\ s.node = q.node /\ s.join = q.join /\ s.joinFrom = q.joinFrom
      /\ s.edges = q.edges /\ s.dynamic = q.dynamic /\ s.final = q.final
  BY DEF Resolved, Record
<1>. HIDE DEF st, s
<1>3. z \in NodeRecord /\ Moved(disk, q)
  <2>1. st # "running"
    BY <1>1 DEF Done
  <2>. QED
    BY <1>1, <2>1, TriedKept
<1>4. q \in Record
  BY <1>3, SetNode
<1>. HIDE DEF z, q
<1>5. Moved(disk, s)
  BY <1>2, <1>3, <1>4, MovedOn
<1>. QED
  BY <1>5 DEF s

\* A terminal that is reached counts as tried.
LEMMA ReachedKept ==
  ASSUME NEW r \in Record, NEW n \in Node, r.node[n].status = "ready", NEW final, NEW b
  PROVE  LET s == [[r EXCEPT !.node[n] = Reached(@)] EXCEPT
                     !.status = "finalized", !.final = final, !.quality = b]
         IN  Kept(r, s) /\ s.final = final
<1>. DEFINE x == r.node[n]
            z == Reached(x)
            q == [r EXCEPT !.node[n] = z]
            s == [q EXCEPT !.status = "finalized", !.final = final, !.quality = b]
<1>1. x \in NodeRecord /\ x.attempts \in Nat /\ x.status = "ready"
  BY DEF Record, NodeRecord
<1>2. /\ z \in NodeRecord /\ z.status = "succeeded"
      /\ z.attempts = IF x.attempts = 0 THEN 1 ELSE x.attempts
  BY <1>1 DEF Reached, NodeRecord, NodeStatus, Done
<1>3. r.node[n] = x
  OBVIOUS
<1>. HIDE DEF x, z
<1>4. x.attempts <= z.attempts
  BY <1>1, <1>2
<1>5. q \in Record /\ Moved(r, q)
  BY <1>1, <1>2, <1>3, <1>4, SetNode, SetNodeKept
<1>. HIDE DEF q
<1>6. /\ s.node = q.node /\ s.join = q.join /\ s.joinFrom = q.joinFrom
      /\ s.edges = q.edges /\ s.dynamic = q.dynamic /\ s.final = final
  BY <1>5 DEF Record
<1>. HIDE DEF s
<1>7. Kept(r, s) /\ s.final = final
  BY <1>5, <1>6 DEF Moved, Kept
<1>. QED
  BY <1>7 DEF s, q, z, x

\* What waking a node changes.
LEMMA WokenRecord ==
  ASSUME NEW r \in Record, NEW n \in Node
  PROVE  LET s == Wake(r, n) IN
         /\ s.join = r.join /\ s.joinFrom = r.joinFrom /\ s.edges = r.edges
         /\ s.dynamic = r.dynamic /\ s.final = r.final
         /\ s.node[n].attempts = r.node[n].attempts
         /\ s.node[n].incoming = r.node[n].incoming
         /\ s.node[n].status \in {"ready", "waiting_approval"}
         /\ \A m \in Node \ {n} : s.node[m] = r.node[m]
<1>. DEFINE st == IF Gated(n) THEN "waiting_approval" ELSE "ready"
            x == r.node[n]
            z == [x EXCEPT !.visits = @ + 1, !.status = st]
            q == [r EXCEPT !.node[n] = z]
            s == Wake(r, n)
<1>0. st \in NodeStatus
  BY DEF NodeStatus
<1>1. x \in NodeRecord
  BY DEF Record, NodeRecord
<1>2. x.visits + 1 \in Nat
  BY <1>1 DEF NodeRecord
<1>3. /\ z \in NodeRecord /\ z.attempts = x.attempts /\ z.incoming = x.incoming
      /\ z.status = st
  BY <1>0, <1>1, <1>2 DEF NodeRecord
<1>4. s = IF Gated(n) THEN [q EXCEPT !.pending = @ \cup {n}, !.status = "waiting_approval"]
          ELSE q
  BY DEF Wake, Record
<1>. HIDE DEF z, s
<1>5. q \in Record /\ q.node[n] = z /\ \A m \in Node \ {n} : q.node[m] = r.node[m]
  BY <1>3, SetNode
<1>6. /\ q.join = r.join /\ q.joinFrom = r.joinFrom /\ q.edges = r.edges
      /\ q.dynamic = r.dynamic /\ q.final = r.final
  BY <1>3, SetNodeGraph
<1>. HIDE DEF q
<1>7. /\ s.node = q.node /\ s.join = q.join /\ s.joinFrom = q.joinFrom
      /\ s.edges = q.edges /\ s.dynamic = q.dynamic /\ s.final = q.final
  BY <1>4, <1>5 DEF Record
<1>8. /\ s.join = r.join /\ s.joinFrom = r.joinFrom /\ s.edges = r.edges
      /\ s.dynamic = r.dynamic /\ s.final = r.final
      /\ s.node[n] = z /\ \A m \in Node \ {n} : s.node[m] = r.node[m]
  BY <1>5, <1>6, <1>7
<1>. QED
  BY <1>3, <1>8 DEF s

\* A join that is ready has everything that it waits for.
LEMMA WakeShape ==
  ASSUME NEW r \in Record, ShapeInv(r), NEW n \in Node, NEW trigger,
         JoinReady(r, n, trigger)
  PROVE  ShapeInv(Wake(r, n))
<1>. DEFINE s == Wake(r, n)
<1>1. /\ s.join = r.join /\ s.joinFrom = r.joinFrom /\ s.edges = r.edges
      /\ s.dynamic = r.dynamic /\ s.final = r.final
      /\ s.node[n].attempts = r.node[n].attempts
      /\ s.node[n].incoming = r.node[n].incoming
      /\ s.node[n].status \in {"ready", "waiting_approval"}
      /\ \A m \in Node \ {n} : s.node[m] = r.node[m]
  BY WokenRecord
<1>. HIDE DEF s
<1>2. \A t \in Tasks \ s.dynamic : s.join[t] = "any"
  BY <1>1 DEF ShapeInv
<1>3. \A m \in Node : s.node[m].status = "running" => s.node[m].attempts > 0
  BY <1>1 DEF ShapeInv
<1>4. ASSUME NEW m \in Node \ {Graph.entry}, m # n PROVE JoinWaits(s, m)
  <2>1. JoinWaits(r, m)
    BY DEF ShapeInv
  <2>. QED
    BY <1>1, <1>4, <2>1 DEF JoinWaits, Sources
<1>5. JoinWaits(s, n)
  <2>1. SUFFICES ASSUME s.join[n] = "all", s.joinFrom[n] = {} \/ s.node[n].attempts = 0
                 PROVE  Sources(s, n) \subseteq {e.from : e \in s.node[n].incoming}
    BY DEF JoinWaits
  <2>2. r.node[n].attempts \in Nat
    BY DEF Record
  <2>3. Sources(r, n) \subseteq {e.from : e \in r.node[n].incoming \cap r.edges}
    BY <1>1, <2>1, <2>2 DEF JoinReady, Sources
  <2>. QED
    BY <1>1, <2>3 DEF Sources
<1>6. ShapeInv(s)
  BY <1>2, <1>3, <1>4, <1>5 DEF ShapeInv
<1>. QED
  BY <1>6 DEF s

\* What expanding the graph changes.
LEMMA ExpandedRecord ==
  ASSUME disk \in Record, NEW p \in Node, NEW j \in Node, NEW ts \in SUBSET Tasks
  PROVE  LET s == Expanded(p, j, ts) IN
         /\ s.node = disk.node /\ s.final = disk.final /\ s.dynamic = disk.dynamic \cup ts
         /\ s.join[j] = "all" /\ s.joinFrom[j] = ts
         /\ \A n \in Node \ {j} : s.join[n] = disk.join[n] /\ s.joinFrom[n] = disk.joinFrom[n]
         /\ \A e \in disk.edges : e \in s.edges \/ (e.from = p /\ e.to = j)
         /\ \A e \in s.edges : e \in disk.edges \/ \E t \in ts : e = Spawned(p, t) \/ e = Spawned(t, j)
         /\ \A t \in ts : Spawned(p, t) \in s.edges /\ Spawned(t, j) \in s.edges
<1>. DEFINE es == (disk.edges \ {e \in disk.edges : /\ e.from = p /\ e.to = j
                                 /\ e.type = "outcome" /\ e.value = "success"})
                  \cup {Spawned(p, t) : t \in ts} \cup {Spawned(t, j) : t \in ts}
            dy == disk.dynamic \cup ts
            jn == [disk.join EXCEPT ![j] = "all"]
            jf == [disk.joinFrom EXCEPT ![j] = ts]
            s == Expanded(p, j, ts)
<1>1. s = [disk EXCEPT !.edges = es, !.dynamic = dy, !.join = jn, !.joinFrom = jf]
  BY DEF Expanded, Record
<1>2. /\ jn[j] = "all" /\ jf[j] = ts
      /\ \A n \in Node \ {j} : jn[n] = disk.join[n] /\ jf[n] = disk.joinFrom[n]
  BY DEF Record
<1>3. /\ \A e \in disk.edges : e \in es \/ (e.from = p /\ e.to = j)
      /\ \A e \in es : e \in disk.edges \/ \E t \in ts : e = Spawned(p, t) \/ e = Spawned(t, j)
      /\ \A t \in ts : Spawned(p, t) \in es /\ Spawned(t, j) \in es
  OBVIOUS
<1>. HIDE DEF es, dy, jn, jf, s
<1>4. /\ s.node = disk.node /\ s.final = disk.final /\ s.dynamic = dy
      /\ s.join = jn /\ s.joinFrom = jf /\ s.edges = es
  BY <1>1 DEF Record
<1>. QED
  BY <1>2, <1>3, <1>4 DEF s, dy

\* An expansion adds sources only to the join that it is made for, which has not
\* started, and to its tasks, which wait for any.
LEMMA ExpandShape ==
  ASSUME disk \in Record, ShapeInv(disk), NEW p \in Node, NEW j \in Node,
         NEW ts \in SUBSET Tasks, MayExpand(p, j, ts)
  PROVE  ShapeInv(Expanded(p, j, ts))
<1>. DEFINE s == Expanded(p, j, ts)
<1>1. /\ s.node = disk.node /\ s.dynamic = disk.dynamic \cup ts
      /\ \A n \in Node \ {j} : s.join[n] = disk.join[n] /\ s.joinFrom[n] = disk.joinFrom[n]
      /\ \A e \in disk.edges : e \in s.edges \/ (e.from = p /\ e.to = j)
      /\ \A e \in s.edges : e \in disk.edges \/ \E t \in ts : e = Spawned(p, t) \/ e = Spawned(t, j)
  BY ExpandedRecord
<1>2. /\ j \in Listed \cup disk.dynamic /\ disk.node[j].status = "pending"
      /\ ts \cap disk.dynamic = {}
  BY DEF MayExpand, LiveNodes
<1>. HIDE DEF s
<1>3. ASSUME NEW t \in Tasks \ s.dynamic PROVE s.join[t] = "any"
  <2>1. t \notin disk.dynamic /\ t \in Node /\ t # j
    BY <1>1, <1>2 DEF Tasks
  <2>. QED
    BY <1>1, <2>1 DEF ShapeInv
<1>4. \A n \in Node : s.node[n].status = "running" => s.node[n].attempts > 0
  BY <1>1 DEF ShapeInv
<1>5. ASSUME NEW n \in Node \ {Graph.entry} PROVE JoinWaits(s, n)
  <2>1. SUFFICES ASSUME s.join[n] = "all", s.node[n].status \in {"ready", "running"},
                        s.joinFrom[n] = {} \/ s.node[n].attempts = 0
                 PROVE  Sources(s, n) \subseteq {e.from : e \in s.node[n].incoming}
    BY DEF JoinWaits
  <2>2. n # j
    BY <1>1, <1>2, <2>1
  <2>3. s.join[n] = disk.join[n] /\ s.joinFrom[n] = disk.joinFrom[n]
    BY <1>1, <2>2
  <2>4. n \notin ts
    BY <1>2, <2>1, <2>3 DEF ShapeInv
  <2>5. \A e \in s.edges : e.to = n => e \in disk.edges
    BY <1>1, <2>2, <2>4 DEF Spawned
  <2>6. Sources(s, n) \subseteq Sources(disk, n)
    BY <2>3, <2>5 DEF Sources
  <2>7. JoinWaits(disk, n)
    BY DEF ShapeInv
  <2>. QED
    BY <1>1, <2>1, <2>3, <2>6, <2>7 DEF JoinWaits
<1>6. ShapeInv(s)
  BY <1>3, <1>4, <1>5 DEF ShapeInv
<1>. QED
  BY <1>6 DEF s

LEMMA InitialShape == ShapeInv(InitialRun)
<1>1. /\ \A n \in Node : InitialRun.node[n].status \in {"pending", "ready"}
      /\ \A n \in Node \ {Graph.entry} : InitialRun.node[n].status = "pending"
      /\ InitialRun.join = [n \in Node |-> Graph.node[n].join]
  BY DEF InitialRun, NodeState
<1>2. \A t \in Tasks : t \in Node /\ Graph.node[t].join = "any"
  BY RuntimeAssumption DEF GraphAssumption, Tasks
<1>. QED
  BY <1>1, <1>2 DEF ShapeInv, JoinWaits

\* What a step makes of the two records.
LEMMA Moves ==
  ASSUME IInv, [Next]_vars
  PROVE  /\ \/ disk' \in {disk, run} \/ Moved(disk, disk')
            \/ \E p, j \in Node, ts \in SUBSET Tasks :
                 MayExpand(p, j, ts) /\ disk' = Expanded(p, j, ts)
         /\ \/ run' \in {disk, run, disk'} \/ Moved(run, run') \/ Moved(disk, run')
            \/ \E e \in todo : Activate(e)
            \/ \E i \in DOMAIN Graph.order : FinalizeTerminal(i)
<1>. DEFINE D == \/ disk' \in {disk, run} \/ Moved(disk, disk')
                 \/ \E p, j \in Node, ts \in SUBSET Tasks :
                      MayExpand(p, j, ts) /\ disk' = Expanded(p, j, ts)
            R == \/ run' \in {disk, run, disk'} \/ Moved(run, run') \/ Moved(disk, run')
                 \/ \E e \in todo : Activate(e)
                 \/ \E i \in DOMAIN Graph.order : FinalizeTerminal(i)
<1>1. disk \in Record /\ run \in Record
  BY DEF IInv, RunInv
<1>2. ASSUME NEW r \in Record, NEW n \in Node, NEW ctx, Route(r, n, ctx),
             Moved(disk, r) \/ Moved(run, r)
      PROVE  Moved(disk, run') \/ Moved(run, run')
  <2>1. run' = r \/ run' = [r EXCEPT !.status = "failed"]
    BY <1>2 DEF Route
  <2>2. Moved(r, run')
    <3>1. r.node = r.node /\ r.join = r.join
      OBVIOUS
    <3>. QED
      BY <2>1, StatusKept, SameKept
  <2>3. /\ run'.node = r.node /\ run'.join = r.join /\ run'.joinFrom = r.joinFrom
        /\ run'.edges = r.edges /\ run'.dynamic = r.dynamic /\ run'.final = r.final
    BY <2>1 DEF Record
  <2>. QED
    BY <1>1, <1>2, <2>3, MovedOn
<1>3. ASSUME NEW r, Write(r), Moved(disk, r) PROVE D /\ R
  BY <1>3 DEF Write
<1>4. CASE Mutator
  <2>1. CASE \E e \in todo : GiveUp(e) \/ Activate(e)
    BY <2>1 DEF GiveUp, Activate
  <2>2. CASE Routed \/ Commit
    BY <2>2 DEF Routed, Commit
  <2>3. CASE SweepEnds
    <3>1. disk' = disk /\ (run' = run \/ run' = [run EXCEPT !.status = "failed"])
      BY <2>3 DEF SweepEnds
    <3>. QED
      BY <1>1, <3>1, StatusKept
  <2>4. ASSUME NEW i \in DOMAIN Graph.order, FinalizeTerminal(i) PROVE D /\ R
    <3>1. disk' = disk
      BY <2>4 DEF FinalizeTerminal
    <3>. QED
      BY <2>4, <3>1
  <2>5. ASSUME NEW i \in DOMAIN Graph.order, AutoTriage(i) PROVE D /\ R
    <3>. DEFINE n == Graph.order[i]
                r == [run EXCEPT !.node[n] = Tried(@, "succeeded"), !.steps = @ + 1]
                ctx == Context(n, "success", [route |-> Graph.node[n].route,
                                              approval |-> "none"], FALSE, "none")
    <3>1. n \in Node /\ run.node[n].status = "ready"
      BY <2>5, GraphFacts DEF AutoTriage, AtNode, Automatic
    <3>2. disk' = disk /\ (Route(r, n, ctx) \/ Rollback)
      BY <2>5 DEF AutoTriage
    <3>. HIDE DEF n, ctx
    <3>a. RunInv(run)
      BY DEF IInv
    <3>b. RunInv(r)
      BY <3>a, <3>1, AutoInv, Zenon
    <3>4. Moved(run, r)
      BY <1>1, <3>1, AutoKept, Zenon
    <3>. HIDE DEF r
    <3>3. r \in Record
      BY <3>b DEF RunInv
    <3>. QED
      BY <1>2, <3>1, <3>2, <3>3, <3>4 DEF Rollback
  <2>. QED
    BY <1>4, <2>1, <2>2, <2>3, <2>4, <2>5 DEF Mutator
<1>5. ASSUME NEW c \in Clients, Client(c) PROVE D /\ R
  <2>1. ASSUME NEW o \in Ops, Reserve(c, o) PROVE D /\ R
    <3>1. \/ Write([disk EXCEPT !.status = "budget_exceeded"])
          \/ Write([disk EXCEPT !.tools = @ + 1])
      BY <2>1 DEF Reserve
    <3>. QED
      BY <1>1, <1>3, <3>1, StatusKept, PaidKept
  <2>2. ASSUME NEW n \in In(disk, "ready"), ClaimGraphNode(c, n) PROVE D /\ R
    <3>1. n \in Node /\ disk.node[n].status = "ready"
          /\ Write([disk EXCEPT !.node[n] = Tried(disk.node[n], "running")])
      BY <2>2 DEF ClaimGraphNode, In
    <3>2. Moved(disk, [disk EXCEPT !.node[n] = Tried(disk.node[n], "running")])
      BY <1>1, <3>1, TriedKept
    <3>. QED
      BY <1>3, <3>1, <3>2
  <2>3. ASSUME NEW n \in In(disk, "running"), NEW a \in Answers(n), CompleteGraphNode(c, n, a)
        PROVE  D /\ R
    <3>. DEFINE r == Completed(n, a)
                ctx == Context(n, a.outcome, [route |-> a.route, approval |-> "none"], a.passed,
                               Effective(a.failure, r.counts[n][a.signature]))
    <3>1. n \in Node /\ disk.node[n].status = "running"
      BY DEF In
    <3>2. \/ Write([r EXCEPT !.status = "budget_exceeded"])
          \/ Route(r, n, ctx) /\ disk' = disk
          \/ Rollback /\ disk' = disk
      BY <2>3 DEF CompleteGraphNode
    <3>3. Moved(disk, r) /\ r \in Record
      BY <1>1, <3>1, CompletedKept, CompletedInv DEF IInv, RunInv
    <3>. HIDE DEF r, ctx
    <3>4. Moved(disk, [r EXCEPT !.status = "budget_exceeded"])
      <4>. DEFINE s == [r EXCEPT !.status = "budget_exceeded"]
      <4>1. /\ s.node = r.node /\ s.join = r.join /\ s.joinFrom = r.joinFrom
            /\ s.edges = r.edges /\ s.dynamic = r.dynamic /\ s.final = r.final
        BY <3>3 DEF Record
      <4>. HIDE DEF s
      <4>. QED
        BY <1>1, <3>3, <4>1, MovedOn DEF s
    <3>5. CASE Route(r, n, ctx) /\ disk' = disk
      BY <1>2, <3>1, <3>3, <3>5
    <3>6. CASE Rollback /\ disk' = disk
      BY <3>6 DEF Rollback
    <3>. QED
      BY <1>3, <3>2, <3>4, <3>5, <3>6
  <2>4. ASSUME NEW n \in disk.pending, NEW d \in {"approved", "denied"},
               ResolveGraphApproval(c, n, d)
        PROVE  D /\ R
    <3>. DEFINE r == Resolved(n, d)
                ctx == Context(n, IF d = "approved" THEN "success" ELSE "blocked",
                               [route |-> "none", approval |-> d], FALSE, "none")
    <3>1. n \in Node /\ disk.node[n].status = "waiting_approval"
      BY DEF IInv, RunInv, In
    <3>2. \/ Route(r, n, ctx) /\ disk' = disk
          \/ Rollback /\ disk' = disk
      BY <2>4 DEF ResolveGraphApproval
    <3>3. Moved(disk, r) /\ r \in Record
      BY <1>1, <3>1, ResolvedKept, ResolvedInv DEF IInv, RunInv
    <3>. HIDE DEF r, ctx
    <3>4. CASE Route(r, n, ctx) /\ disk' = disk
      BY <1>2, <3>1, <3>3, <3>4
    <3>5. CASE Rollback /\ disk' = disk
      BY <3>5 DEF Rollback
    <3>. QED
      BY <3>2, <3>4, <3>5
  <2>5. ASSUME NEW p \in In(disk, "running"), NEW j \in In(disk, "pending"),
               NEW ts \in SUBSET Tasks, ExpandGraph(c, p, j, ts)
        PROVE  D /\ R
    BY <2>5 DEF ExpandGraph, Write, In
  <2>6. CASE Reject(c)
    BY <2>6 DEF Reject
  <2>7. CASE StartAdvance(c)
    BY <2>7 DEF StartAdvance
  <2>. QED
    BY <1>5, <2>1, <2>2, <2>3, <2>4, <2>5, <2>6, <2>7 DEF Client
<1>6. ASSUME NEW c \in Clients, Drop(c) PROVE D /\ R
  BY <1>6 DEF Drop
<1>7. CASE AbortGraphRun
  BY <1>1, <1>3, <1>7, StatusKept DEF AbortGraphRun
<1>8. CASE DeadlinePasses \/ UNCHANGED vars
  BY <1>8 DEF DeadlinePasses, vars
<1>. QED
  BY <1>4, <1>5, <1>6, <1>7, <1>8 DEF Next

LEMMA ShapeStep ==
  ASSUME IInv, ShapeInv(disk), ShapeInv(run), [Next]_vars
  PROVE  ShapeInv(disk)' /\ ShapeInv(run)'
<1>1. /\ disk \in Record /\ run \in Record /\ disk' \in Record /\ run' \in Record
      /\ todo \subseteq Edge
  BY Step DEF IInv, RunInv, Rest
<1>2. ShapeInv(disk')
  BY <1>1, Moves, KeptShape, ExpandShape DEF Moved
<1>3. ASSUME NEW e \in todo, Activate(e) PROVE ShapeInv(run')
  <2>. DEFINE r == Note(run, e)
  <2>1. e \in Edge /\ e.to \in Node
    BY <1>1 DEF Edge
  <2>2. r \in Record /\ ShapeInv(r)
    BY <1>1, <2>1, NoteKept, KeptShape DEF Moved
  <2>3. run' = r \/ (JoinReady(r, e.to, e.from) /\ run' = Wake(r, e.to))
    BY <1>3 DEF Activate
  <2>. HIDE DEF r
  <2>. QED
    BY <2>1, <2>2, <2>3, WakeShape
<1>4. ASSUME NEW i \in DOMAIN Graph.order, FinalizeTerminal(i) PROVE ShapeInv(run')
  <2>. DEFINE n == Graph.order[i]
              b == Quality([run EXCEPT !.node[n] = Reached(@)], n)
  <2>1. n \in Node /\ run.node[n].status = "ready"
    BY <1>4, GraphFacts DEF FinalizeTerminal, AtNode, Automatic
  <2>3. run' = [[run EXCEPT !.node[n] = Reached(@)] EXCEPT
                  !.status = "finalized", !.final = Graph.node[n].terminal, !.quality = b]
    BY <1>4 DEF FinalizeTerminal
  <2>. HIDE DEF n, b
  <2>2. Kept(run, run')
    BY <1>1, <2>1, <2>3, ReachedKept, Zenon
  <2>. QED
    BY <1>1, <2>2, KeptShape
<1>5. ShapeInv(run')
  BY <1>1, <1>2, <1>3, <1>4, Moves, KeptShape DEF Moved
<1>. QED
  BY <1>2, <1>5

\* In every graph, however it is expanded and however its loops reset it, a join
\* that waits for all its sources starts only when every one has led to it.
THEOREM Joins == Spec => []JoinsWait
<1>1. Init => ShapeInv(disk) /\ ShapeInv(run)
  BY InitialShape DEF Init
<1>2. IInv /\ ShapeInv(disk) /\ ShapeInv(run) /\ [Next]_vars
        => ShapeInv(disk)' /\ ShapeInv(run)'
  BY ShapeStep
<1>3. ShapeInv(disk) => JoinsWait
  BY DEF ShapeInv, JoinWaits, Sources, JoinsWait
<1>. QED
  BY <1>1, <1>2, <1>3, Inductive, PTL DEF Spec

-------------------------------------------------------------------------------
(* Reachable *)

\* What a round of the search adds.
Spread(edges, S) == S \cup {e.to : e \in {f \in edges : f.from \in S}}

Closed(edges, S) == \A e \in edges : e.from \in S => e.to \in S

\* A nonempty set of natural numbers has a least element.
LEMMA LeastNumber ==
  ASSUME NEW S \in SUBSET Nat, S # {}
  PROVE  \E j \in S : \A k \in S : j <= k
<1>. DEFINE L == OpToRel(<, Nat)
<1>1. \A i, j \in Nat : i < j => <<i, j>> \in L
  BY DEF OpToRel
<1>2. IsWellFoundedOn(L, Nat)
  BY NatLessThanWellFounded, Zenon
<1>. HIDE DEF L
<1>3. PICK j \in S : \A k \in S : ~(<<k, j>> \in L)
  BY <1>2, WFMin
<1>4. ASSUME NEW k \in S PROVE j <= k
  <2>1. j \in Nat /\ k \in Nat /\ ~(k < j)
    BY <1>1, <1>3
  <2>. QED
    BY <2>1
<1>. QED
  BY <1>4

\* The rounds that Reachable counts through.
Rounds(edges, from) ==
  CHOOSE r : r = [k \in Nat |-> IF k = 0 THEN {from} ELSE Spread(edges, r[k - 1])]

\* The rounds of the search are well defined: round k finds what walks of k
\* steps lead to, where a step stays or follows an edge.
LEMMA RoundsStep ==
  ASSUME NEW edges, NEW from
  PROVE  /\ Rounds(edges, from)[0] = {from}
         /\ \A k \in Nat : Rounds(edges, from)[k + 1] = Spread(edges, Rounds(edges, from)[k])
<1>. DEFINE X == {from} \cup {e.to : e \in edges}
            Leads(x, y) == x = y \/ \E e \in edges : e.from = x /\ e.to = y
            W(k) == {w \in [0..k -> X] :
                       w[0] = from /\ \A i \in 0..(k - 1) : Leads(w[i], w[i + 1])}
            r == [k \in Nat |-> {w[k] : w \in W(k)}]
<1>1. r[0] = {from}
  <2>1. [i \in 0..0 |-> from] \in W(0)
    OBVIOUS
  <2>2. r[0] = {w[0] : w \in W(0)}
    OBVIOUS
  <2>. HIDE DEF r
  <2>3. \A w \in W(0) : w[0] = from
    OBVIOUS
  <2>. QED
    BY <2>1, <2>2, <2>3
<1>2. ASSUME NEW k \in Nat, k # 0 PROVE r[k] = Spread(edges, r[k - 1])
  <2>1. k - 1 \in Nat
    BY <1>2
  <2>2. r[k] = {w[k] : w \in W(k)} /\ r[k - 1] = {w[k - 1] : w \in W(k - 1)}
    BY <2>1
  <2>. HIDE DEF r
  <2>3. ASSUME NEW x \in r[k] PROVE x \in Spread(edges, r[k - 1])
    <3>1. PICK w \in W(k) : x = w[k]
      BY <2>2
    <3>. DEFINE v == [i \in 0..(k - 1) |-> w[i]]
    <3>2. v \in W(k - 1) /\ v[k - 1] = w[k - 1]
      <4>1. \A i \in 0..(k - 1) : i \in 0..k /\ w[i] \in X
        BY <2>1
      <4>2. \A i \in 0..((k - 1) - 1) : i + 1 \in 0..(k - 1) /\ i \in 0..(k - 1) /\ Leads(w[i], w[i + 1])
        BY <2>1
      <4>3. v[0] = from /\ v[k - 1] = w[k - 1] /\ v \in [0..(k - 1) -> X]
        BY <2>1, <4>1
      <4>4. \A i \in 0..((k - 1) - 1) : Leads(v[i], v[i + 1])
        BY <4>2
      <4>. QED
        BY <4>3, <4>4
    <3>3. w[k - 1] \in r[k - 1]
      BY <2>2, <3>2
    <3>4. Leads(w[k - 1], w[k])
      <4>1. k - 1 \in 0..(k - 1) /\ (k - 1) + 1 = k
        BY <2>1
      <4>. QED
        BY <4>1
    <3>. QED
      BY <3>1, <3>3, <3>4 DEF Spread
  <2>4. ASSUME NEW w \in W(k - 1), NEW x \in X, Leads(w[k - 1], x) PROVE x \in r[k]
    <3>. DEFINE v == [i \in 0..k |-> IF i = k THEN x ELSE w[i]]
    <3>1. \A i \in 0..k : i # k => i \in 0..(k - 1)
      BY <2>1
    <3>2. v \in [0..k -> X] /\ v[0] = from /\ v[k] = x
      BY <2>1, <2>4, <3>1, <1>2
    <3>3. ASSUME NEW i \in 0..(k - 1) PROVE Leads(v[i], v[i + 1])
      <4>1. CASE i = k - 1
        <5>1. v[i] = w[k - 1] /\ v[i + 1] = x
          BY <2>1, <4>1
        <5>. QED
          BY <2>4, <5>1
      <4>2. CASE i # k - 1
        <5>1. i \in 0..((k - 1) - 1) /\ i # k /\ i + 1 # k /\ i \in 0..k /\ i + 1 \in 0..k
          BY <2>1, <4>2
        <5>2. v[i] = w[i] /\ v[i + 1] = w[i + 1]
          BY <5>1
        <5>. QED
          BY <5>1, <5>2
      <4>. QED
        BY <4>1, <4>2
    <3>4. v \in W(k)
      BY <3>2, <3>3
    <3>. QED
      BY <2>2, <3>2, <3>4
  <2>5. ASSUME NEW x \in Spread(edges, r[k - 1]) PROVE x \in r[k]
    <3>1. CASE x \in r[k - 1]
      <4>1. PICK w \in W(k - 1) : x = w[k - 1]
        BY <2>2, <3>1
      <4>2. x \in X
        BY <2>1, <4>1
      <4>. QED
        BY <2>4, <4>1, <4>2
    <3>2. CASE x \notin r[k - 1]
      <4>1. PICK e \in edges : e.from \in r[k - 1] /\ x = e.to
        BY <3>2 DEF Spread
      <4>2. PICK w \in W(k - 1) : e.from = w[k - 1]
        BY <2>2, <4>1
      <4>. QED
        BY <2>4, <4>1, <4>2
    <3>. QED
      BY <3>1, <3>2
  <2>. QED
    BY <2>3, <2>5
<1>3. r = [k \in Nat |-> IF k = 0 THEN {from} ELSE Spread(edges, r[k - 1])]
  <2>. DEFINE s == [k \in Nat |-> IF k = 0 THEN {from} ELSE Spread(edges, r[k - 1])]
  <2>1. \A k \in Nat : r[k] = s[k]
    <3>. HIDE DEF r
    <3>. QED
      BY <1>1, <1>2
  <2>2. r = [k \in Nat |-> r[k]] /\ s = [k \in Nat |-> s[k]]
    OBVIOUS
  <2>. HIDE DEF r, s
  <2>3. r = s
    BY <2>1, <2>2
  <2>. QED
    BY <2>3 DEF s
<1>. DEFINE F(q) == [k \in Nat |-> IF k = 0 THEN {from} ELSE Spread(edges, q[k - 1])]
<1>4. r = F(r)
  BY <1>3
<1>5. Rounds(edges, from) = CHOOSE q : q = F(q)
  BY Zenon DEF Rounds
<1>. HIDE DEF r, F
<1>6. Rounds(edges, from) = F(Rounds(edges, from))
  BY <1>4, <1>5, Zenon
<1>7. Rounds(edges, from)[0] = {from}
  BY <1>6 DEF F
<1>8. ASSUME NEW k \in Nat
      PROVE  Rounds(edges, from)[k + 1] = Spread(edges, Rounds(edges, from)[k])
  <2>1. k + 1 \in Nat /\ k + 1 # 0 /\ (k + 1) - 1 = k
    OBVIOUS
  <2>. QED
    BY <1>6, <2>1 DEF F
<1>. QED
  BY <1>7, <1>8

LEMMA ReachableRounds ==
  ASSUME NEW nodes, NEW edges, NEW from
  PROVE  Reachable(nodes, edges, from) = Rounds(edges, from)[Cardinality(nodes)]
  BY DEF Reachable, Rounds, Spread

\* The search finds the least set of nodes that contains its start and that no
\* edge leaves: as many rounds as there are nodes are enough.
THEOREM ReachableIsLeast ==
  ASSUME NEW nodes, IsFiniteSet(nodes), NEW edges, NEW from \in nodes,
         \A e \in edges : e.from \in nodes /\ e.to \in nodes
  PROVE  LET S == Reachable(nodes, edges, from) IN
         /\ from \in S /\ S \subseteq nodes /\ Closed(edges, S)
         /\ \A T : from \in T /\ Closed(edges, T) => S \subseteq T
<1>. DEFINE r == Rounds(edges, from)
            N == Cardinality(nodes)
<1>0. N \in Nat /\ Reachable(nodes, edges, from) = r[N]
  BY FS_CardinalityType, ReachableRounds
<1>1. r[0] = {from} /\ \A k \in Nat : r[k + 1] = Spread(edges, r[k])
  BY RoundsStep
<1>. HIDE DEF r
<1>2. ASSUME NEW T, from \in T, Closed(edges, T) PROVE \A k \in Nat : r[k] \subseteq T
  <2>. DEFINE B == {k \in Nat : ~(r[k] \subseteq T)}
  <2>1. SUFFICES ASSUME B # {} PROVE FALSE
    OBVIOUS
  <2>2. PICK j \in B : \A k \in B : j <= k
    BY <2>1, LeastNumber
  <2>3. j # 0
    BY <1>1, <1>2
  <2>4. j - 1 \in Nat /\ (j - 1) + 1 = j /\ ~(j <= j - 1)
    BY <2>3
  <2>5. r[j - 1] \subseteq T
    BY <2>2, <2>4
  <2>6. r[j] = Spread(edges, r[j - 1])
    BY <1>1, <2>4
  <2>7. r[j] \subseteq T
    BY <1>2, <2>5, <2>6 DEF Spread, Closed
  <2>. QED
    BY <2>7
<1>3. \A k \in Nat : r[k] \subseteq nodes
  BY <1>2 DEF Closed
<1>4. \A k \in Nat : r[k] \subseteq r[k + 1]
  BY <1>1 DEF Spread
<1>5. \A k \in Nat : from \in r[k]
  <2>. DEFINE B == {k \in Nat : from \notin r[k]}
  <2>1. SUFFICES ASSUME B # {} PROVE FALSE
    OBVIOUS
  <2>2. PICK j \in B : \A k \in B : j <= k
    BY <2>1, LeastNumber
  <2>3. j # 0
    BY <1>1
  <2>4. j - 1 \in Nat /\ (j - 1) + 1 = j /\ ~(j <= j - 1)
    BY <2>3
  <2>. QED
    BY <1>4, <2>2, <2>4
<1>6. \A k \in Nat : IsFiniteSet(r[k]) /\ Cardinality(r[k]) \in Nat /\ Cardinality(r[k]) <= N
  BY <1>3, FS_Subset, FS_CardinalityType
<1>7. Closed(edges, r[N])
  <2>1. SUFFICES ASSUME ~Closed(edges, r[N]) PROVE FALSE
    OBVIOUS
  \* A round that finds nothing new is the last one that finds anything.
  <2>2. ASSUME NEW k \in 0..N PROVE r[k + 1] # r[k]
    <3>1. SUFFICES ASSUME r[k + 1] = r[k] PROVE FALSE
      OBVIOUS
    <3>2. Closed(edges, r[k]) /\ k \in Nat
      BY <1>1, <1>0, <3>1 DEF Spread, Closed
    <3>3. r[N] \subseteq r[k]
      BY <1>0, <1>2, <1>5, <3>2
    <3>4. r[k] \subseteq r[N]
      <4>. DEFINE B == {i \in Nat : k <= i /\ ~(r[k] \subseteq r[i])}
      <4>1. SUFFICES ASSUME B # {} PROVE FALSE
        BY <1>0
      <4>2. PICK j \in B : \A i \in B : j <= i
        BY <4>1, LeastNumber
      <4>3. j # k
        BY <4>2
      <4>4. j - 1 \in Nat /\ (j - 1) + 1 = j /\ ~(j <= j - 1) /\ k <= j - 1
        BY <3>2, <4>2, <4>3
      <4>. QED
        BY <1>4, <4>2, <4>4
    <3>5. r[N] = r[k]
      BY <3>3, <3>4
    <3>. QED
      BY <2>1, <3>2, <3>5
  <2>3. ASSUME NEW k \in 0..N PROVE Cardinality(r[k]) + 1 <= Cardinality(r[k + 1])
    <3>1. k \in Nat /\ k + 1 \in Nat
      BY <1>0
    <3>2. r[k] \subseteq r[k + 1] /\ r[k] # r[k + 1]
      BY <1>4, <2>2, <3>1
    <3>3. /\ Cardinality(r[k]) <= Cardinality(r[k + 1])
          /\ Cardinality(r[k]) = Cardinality(r[k + 1]) => r[k] = r[k + 1]
      BY <1>6, <3>1, <3>2, FS_Subset
    <3>4. Cardinality(r[k]) \in Nat /\ Cardinality(r[k + 1]) \in Nat
      BY <1>6, <3>1
    <3>. QED
      BY <3>2, <3>3, <3>4
  <2>4. \A k \in Nat : k <= N + 1 => k <= Cardinality(r[k])
    <3>. DEFINE B == {k \in Nat : k <= N + 1 /\ ~(k <= Cardinality(r[k]))}
    <3>1. SUFFICES ASSUME B # {} PROVE FALSE
      OBVIOUS
    <3>2. PICK j \in B : \A k \in B : j <= k
      BY <3>1, LeastNumber
    <3>3. j # 0
      BY <1>6, <3>2
    <3>4. j - 1 \in 0..N /\ (j - 1) + 1 = j /\ ~(j <= j - 1) /\ j - 1 <= N + 1
      BY <1>0, <3>2, <3>3
    <3>5. j - 1 <= Cardinality(r[j - 1])
      BY <3>2, <3>4
    <3>6. Cardinality(r[j - 1]) + 1 <= Cardinality(r[j])
      BY <2>3, <3>4
    <3>7. Cardinality(r[j - 1]) \in Nat /\ Cardinality(r[j]) \in Nat
      BY <1>6, <3>2, <3>4
    <3>. QED
      BY <3>2, <3>4, <3>5, <3>6, <3>7
  <2>5. N + 1 \in Nat /\ N + 1 <= Cardinality(r[N + 1]) /\ Cardinality(r[N + 1]) <= N
    BY <1>0, <1>6, <2>4
  <2>. QED
    BY <1>0, <1>6, <2>5
<1>. QED
  BY <1>0, <1>2, <1>3, <1>5, <1>7

-------------------------------------------------------------------------------
(* Verification *)

\* The edges of r that do not lead past a verifier, and what they lead to.
Bypass(r) == {e \in r.edges : Graph.node[e.from].kind # "verify"}
Free(r) == Reachable(LiveNodes(r), Bypass(r), Graph.entry)

\* Some verifier has been tried.
Attempted(r) ==
  \E v \in LiveNodes(r) : Graph.node[v].kind = "verify" /\ r.node[v].attempts > 0

\* Where a run may be that no verifier has seen.
Unverified(r, n) ==
  n \in Free(r) \/ (Graph.node[n].kind = "terminal" /\ Graph.node[n].terminal # "success")

\* Until a verifier is tried, what has started is no further than the edges past
\* no verifier lead, or at a terminal that admits failure.
FlowInv(r) ==
  /\ ValidGraphSpec(SpecOf(LiveNodes(r), r.edges))
  /\ Graph.verification /\ ~Attempted(r) =>
       /\ r.final # "success"
       /\ \A n \in Node : r.node[n].status # "pending" => Unverified(r, n)

\* And the edges that a mutator has still to activate lead no further.
TodoInv ==
  phase = "activate" /\ Graph.verification =>
    Attempted(run) \/ \A e \in todo : Unverified(run, e.to)

\* What ValidGraphSpec says of a record's graph.
LEMMA ValidRecord ==
  ASSUME NEW r \in Record, ValidGraphSpec(SpecOf(LiveNodes(r), r.edges))
  PROVE  /\ LiveNodes(r) \subseteq Node /\ IsFiniteSet(LiveNodes(r))
         /\ Graph.entry \in LiveNodes(r)
         /\ \A e \in r.edges : /\ e.from \in LiveNodes(r) /\ e.to \in LiveNodes(r)
                               /\ Graph.node[e.from].kind # "terminal"
         /\ Graph.verification => \A n \in Free(r) : Graph.node[n].terminal # "success"
         /\ Graph.entry \in Free(r) /\ Free(r) \subseteq LiveNodes(r)
         /\ Closed(Bypass(r), Free(r))
         /\ \A T : Graph.entry \in T /\ Closed(Bypass(r), T) => Free(r) \subseteq T
<1>. DEFINE g == SpecOf(LiveNodes(r), r.edges)
<1>1. /\ g.nodes = LiveNodes(r) /\ g.edges = r.edges /\ g.entry = Graph.entry
      /\ \A n \in Node : g.kind[n] = Graph.node[n].kind /\ g.terminal[n] = Graph.node[n].terminal
      /\ g.verification = Graph.verification
  BY DEF SpecOf
<1>. HIDE DEF g
<1>2. g.entry \in g.nodes /\ EdgesAreWellFormed(g) /\ SuccessPathsAreVerified(g)
  BY DEF ValidGraphSpec, g
<1>3. LiveNodes(r) \subseteq Node
  BY GraphFacts DEF LiveNodes, Record, Tasks
<1>4. IsFiniteSet(LiveNodes(r))
  BY <1>3, GraphFacts, FS_Subset
<1>5. \A e \in r.edges : /\ e.from \in LiveNodes(r) /\ e.to \in LiveNodes(r)
                         /\ Graph.node[e.from].kind # "terminal"
  BY <1>1, <1>2, <1>3 DEF EdgesAreWellFormed, EdgesOut
<1>6. Bypass(r) = {e \in g.edges : g.kind[e.from] # "verify"}
  BY <1>1, <1>3, <1>5 DEF Bypass
<1>7. Free(r) = Reachable(g.nodes, {e \in g.edges : g.kind[e.from] # "verify"}, g.entry)
  BY <1>1, <1>6 DEF Free
<1>8. \A e \in Bypass(r) : e.from \in LiveNodes(r) /\ e.to \in LiveNodes(r)
  BY <1>5 DEF Bypass
<1>9. Graph.entry \in LiveNodes(r)
  BY <1>1, <1>2
<1>10. /\ Graph.entry \in Free(r) /\ Free(r) \subseteq LiveNodes(r)
       /\ Closed(Bypass(r), Free(r))
       /\ \A T : Graph.entry \in T /\ Closed(Bypass(r), T) => Free(r) \subseteq T
  BY <1>4, <1>8, <1>9, ReachableIsLeast DEF Free
<1>11. Graph.verification => \A n \in Free(r) : Graph.node[n].terminal # "success"
  BY <1>1, <1>2, <1>3, <1>7, <1>10 DEF SuccessPathsAreVerified
<1>. QED
  BY <1>3, <1>4, <1>5, <1>9, <1>10, <1>11

\* What a move of a record leaves of it.
LEMMA KeptFlow ==
  ASSUME NEW r \in Record, NEW s \in Record, Kept(r, s)
  PROVE  /\ LiveNodes(s) = LiveNodes(r) /\ Free(s) = Free(r)
         /\ Attempted(r) => Attempted(s)
         /\ \A n : Unverified(s, n) <=> Unverified(r, n)
         /\ FlowInv(r) /\ (Graph.verification /\ s.final = "success" =>
                              r.final = "success" \/ Attempted(r)) => FlowInv(s)
<1>1. s.edges = r.edges /\ s.dynamic = r.dynamic
  BY DEF Kept
<1>2. LiveNodes(s) = LiveNodes(r)
  BY <1>1 DEF LiveNodes
<1>3. Free(s) = Free(r)
  BY <1>1, <1>2 DEF Free, Bypass
<1>4. ASSUME Attempted(r) PROVE Attempted(s)
  <2>1. PICK v \in LiveNodes(r) : Graph.node[v].kind = "verify" /\ r.node[v].attempts > 0
    BY <1>4 DEF Attempted
  <2>2. v \in Node
    BY GraphFacts DEF LiveNodes, Record, Tasks
  <2>3. r.node[v].attempts \in Nat /\ s.node[v].attempts \in Nat
        /\ r.node[v].attempts <= s.node[v].attempts
    BY <2>2 DEF Record, Kept
  <2>4. s.node[v].attempts > 0
    BY <2>1, <2>3
  <2>. QED
    BY <1>2, <2>1, <2>4 DEF Attempted
<1>5. \A n : Unverified(s, n) <=> Unverified(r, n)
  BY <1>3 DEF Unverified
<1>6. \A n \in Node : s.node[n].status # "pending" => r.node[n].status # "pending"
  BY DEF Kept
<1>7. ASSUME FlowInv(r),
             Graph.verification /\ s.final = "success" => r.final = "success" \/ Attempted(r)
      PROVE  FlowInv(s)
  BY <1>1, <1>2, <1>4, <1>5, <1>6, <1>7 DEF FlowInv
<1>. QED
  BY <1>2, <1>3, <1>4, <1>5, <1>7

LEMMA MovedFlow ==
  ASSUME NEW r \in Record, NEW s \in Record, FlowInv(r), Moved(r, s)
  PROVE  FlowInv(s)
  BY KeptFlow DEF Moved

\* route() from a node that has been tried follows the edges of the graph, or
\* heads for the failed terminal.
LEMMA RouteFlow ==
  ASSUME NEW r \in Record, FlowInv(r), NEW n \in Node, r.node[n].status # "pending",
         Graph.node[n].kind = "verify" => r.node[n].attempts > 0,
         NEW ctx, Route(r, n, ctx), run' \in Record
  PROVE  TodoInv'
<1>1. SUFFICES ASSUME Graph.verification, ~Attempted(run') PROVE \A e \in todo' : Unverified(run', e.to)
  BY DEF TodoInv
<1>2. run' = r \/ run' = [r EXCEPT !.status = "failed"]
  BY DEF Route
<1>3. Kept(r, run')
  <2>1. Moved(r, r)
    BY SameKept
  <2>. QED
    BY <1>2, <2>1, StatusKept DEF Moved
<1>4. ~Attempted(r) /\ \A m : Unverified(run', m) <=> Unverified(r, m)
  BY <1>1, <1>3, KeptFlow
<1>5. Unverified(r, n)
  BY <1>1, <1>4 DEF FlowInv
<1>6. ASSUME NEW e \in Selected(r, n, ctx) PROVE Unverified(r, e.to)
  <2>1. e \in r.edges /\ e.from = n
    BY DEF Selected
  <2>2. /\ Graph.node[n].kind # "terminal" /\ Closed(Bypass(r), Free(r))
        /\ n \in LiveNodes(r)
    BY <2>1, ValidRecord DEF FlowInv
  <2>3. Graph.node[n].kind # "verify"
    BY <1>4, <2>2 DEF Attempted
  <2>. QED
    BY <1>5, <2>1, <2>2, <2>3 DEF Unverified, Closed, Bypass
<1>7. \A t \in FirstOf(Terminals("failed")) : Unverified(r, t)
  BY DEF FirstOf, Terminals, Unverified
<1>8. \A t : Synthetic(n, t).to = t
  BY DEF Synthetic
<1>9. \/ todo' = Selected(r, n, ctx)
      \/ todo' = {Synthetic(n, t) : t \in FirstOf(Terminals("failed"))}
      \/ todo' = {}
  BY DEF Route
<1>10. \A e \in todo' : Unverified(r, e.to)
  BY <1>6, <1>7, <1>8, <1>9
<1>. QED
  BY <1>4, <1>10

\* An expansion without verifiers makes its detours where the edge was that it
\* replaces: what was reached past no verifier still is.
LEMMA ExpandFlow ==
  ASSUME \A t \in Tasks : Graph.node[t].kind # "verify",
         disk \in Record, FlowInv(disk), NEW p \in Node, NEW j \in Node,
         NEW ts \in SUBSET Tasks, MayExpand(p, j, ts), Expanded(p, j, ts) \in Record
  PROVE  FlowInv(Expanded(p, j, ts))
<1>. DEFINE s == Expanded(p, j, ts)
<1>1. /\ s.node = disk.node /\ s.final = disk.final /\ s.dynamic = disk.dynamic \cup ts
      /\ \A e \in disk.edges : e \in s.edges \/ (e.from = p /\ e.to = j)
      /\ \A t \in ts : Spawned(p, t) \in s.edges /\ Spawned(t, j) \in s.edges
  BY ExpandedRecord
<1>2. ValidGraphSpec(SpecOf(LiveNodes(s), s.edges)) /\ ts # {} /\ Graph.node[p].kind = "plan"
  BY DEF MayExpand
<1>3. s \in Record
  OBVIOUS
<1>. HIDE DEF s
<1>4. Graph.entry \in Free(s) /\ Closed(Bypass(s), Free(s))
  BY <1>2, <1>3, ValidRecord
<1>5. Closed(Bypass(disk), Free(s))
  <2>1. SUFFICES ASSUME NEW e \in Bypass(disk), e.from \in Free(s) PROVE e.to \in Free(s)
    BY DEF Closed
  <2>2. CASE e \in s.edges
    BY <1>4, <2>1, <2>2 DEF Bypass, Closed
  <2>3. CASE e \notin s.edges
    <3>1. e.from = p /\ e.to = j
      BY <1>1, <2>3 DEF Bypass
    <3>2. PICK t \in ts : TRUE
      BY <1>2
    <3>3. /\ Spawned(p, t).from = p /\ Spawned(p, t).to = t
          /\ Spawned(t, j).from = t /\ Spawned(t, j).to = j
      BY DEF Spawned
    <3>4. Spawned(p, t) \in Bypass(s) /\ Spawned(t, j) \in Bypass(s)
      BY <1>1, <1>2, <3>3 DEF Bypass
    <3>5. t \in Free(s)
      BY <1>4, <2>1, <3>1, <3>3, <3>4 DEF Closed
    <3>6. j \in Free(s)
      BY <1>4, <3>3, <3>4, <3>5 DEF Closed
    <3>. QED
      BY <3>1, <3>6
  <2>. QED
    BY <2>2, <2>3
<1>6. Free(disk) \subseteq Free(s)
  BY <1>4, <1>5, ValidRecord DEF FlowInv
<1>7. Attempted(disk) => Attempted(s)
  BY <1>1 DEF Attempted, LiveNodes
<1>8. \A n : Unverified(disk, n) => Unverified(s, n)
  BY <1>6 DEF Unverified
<1>9. FlowInv(s)
  BY <1>1, <1>2, <1>7, <1>8 DEF FlowInv
<1>. QED
  BY <1>9 DEF s

LEMMA InitialFlow == FlowInv(InitialRun)
<1>1. /\ InitialRun.edges = Graph.edges /\ InitialRun.dynamic = {} /\ InitialRun.final = "none"
      /\ \A n \in Node \ {Graph.entry} : InitialRun.node[n].status = "pending"
  BY DEF InitialRun, NodeState
<1>2. LiveNodes(InitialRun) = Listed
  BY <1>1 DEF LiveNodes
<1>3. ValidGraphSpec(SpecOf(LiveNodes(InitialRun), InitialRun.edges))
  BY <1>1, <1>2, RuntimeAssumption DEF GraphAssumption
<1>4. InitialRun \in Record
  BY InitialRecord DEF RunInv
<1>5. Graph.entry \in Free(InitialRun)
  BY <1>3, <1>4, ValidRecord
<1>. QED
  BY <1>1, <1>3, <1>5 DEF FlowInv, Unverified

LEMMA WakeFlow ==
  ASSUME NEW r \in Record, FlowInv(r), NEW n \in Node, Wake(r, n) \in Record,
         Graph.verification => Attempted(r) \/ Unverified(r, n)
  PROVE  LET s == Wake(r, n) IN
         FlowInv(s) /\ Free(s) = Free(r) /\ (Attempted(r) => Attempted(s))
<1>. DEFINE s == Wake(r, n)
<1>1. /\ s.edges = r.edges /\ s.dynamic = r.dynamic /\ s.final = r.final
      /\ s.node[n].attempts = r.node[n].attempts
      /\ \A m \in Node \ {n} : s.node[m] = r.node[m]
  BY WokenRecord
<1>. HIDE DEF s
<1>2. LiveNodes(s) = LiveNodes(r) /\ LiveNodes(r) \subseteq Node
  BY <1>1, GraphFacts DEF LiveNodes, Record, Tasks
<1>3. Free(s) = Free(r)
  BY <1>1, <1>2 DEF Free, Bypass
<1>4. Attempted(s) <=> Attempted(r)
  BY <1>1, <1>2 DEF Attempted
<1>5. \A m : Unverified(s, m) <=> Unverified(r, m)
  BY <1>3 DEF Unverified
<1>6. FlowInv(s)
  BY <1>1, <1>2, <1>4, <1>5 DEF FlowInv
<1>. QED
  BY <1>3, <1>4, <1>6 DEF s

\* activate() goes where its edge leads.
LEMMA ActivateFlow ==
  ASSUME IInv, IInv', FlowInv(run), TodoInv, NEW e \in todo, Activate(e)
  PROVE  FlowInv(run') /\ TodoInv'
<1>. DEFINE r == Note(run, e)
<1>1. run \in Record /\ run' \in Record /\ e \in Edge /\ e.to \in Node
  BY DEF IInv, RunInv, Rest, Edge
<1>2. r \in Record /\ Moved(run, r)
  BY <1>1, NoteKept
<1>3. /\ phase = "activate" /\ phase' = phase /\ todo' = todo \ {e}
      /\ run' = r \/ run' = Wake(r, e.to)
  BY DEF Activate
<1>. HIDE DEF r
<1>4. /\ FlowInv(r) /\ (Attempted(run) => Attempted(r)) /\ Free(r) = Free(run)
      /\ \A n : Unverified(r, n) <=> Unverified(run, n)
  BY <1>1, <1>2, KeptFlow, MovedFlow DEF Moved
<1>5. Graph.verification => Attempted(r) \/ Unverified(r, e.to)
  BY <1>3, <1>4 DEF TodoInv
<1>6. FlowInv(run') /\ Free(run') = Free(run) /\ (Attempted(run) => Attempted(run'))
  <2>1. CASE run' = r
    BY <1>4, <2>1
  <2>2. CASE run' = Wake(r, e.to)
    BY <1>1, <1>2, <1>4, <1>5, <2>2, WakeFlow
  <2>. QED
    BY <1>3, <2>1, <2>2
<1>7. \A n : Unverified(run', n) <=> Unverified(run, n)
  BY <1>6 DEF Unverified
<1>8. TodoInv'
  BY <1>3, <1>6, <1>7 DEF TodoInv
<1>. QED
  BY <1>6, <1>8

\* A terminal that says success is finalized only after a verifier was tried.
LEMMA FinalizeFlow ==
  ASSUME IInv, IInv', FlowInv(run), NEW i \in DOMAIN Graph.order, FinalizeTerminal(i)
  PROVE  FlowInv(run')
<1>. DEFINE n == Graph.order[i]
            b == Quality([run EXCEPT !.node[n] = Reached(@)], n)
            f == Graph.node[n].terminal
            s == [[run EXCEPT !.node[n] = Reached(@)] EXCEPT
                    !.status = "finalized", !.final = f, !.quality = b]
<1>1. n \in Node /\ run.node[n].status = "ready" /\ Graph.node[n].kind = "terminal"
  BY GraphFacts DEF FinalizeTerminal, AtNode, Automatic
<1>2. run' = s
  BY DEF FinalizeTerminal
<1>3. run \in Record /\ run' \in Record
  BY DEF IInv, RunInv
<1>. HIDE DEF n, b, f
<1>a. Kept(run, s)
  BY <1>1, <1>3, ReachedKept, Zenon
<1>b. s.final = f
  BY <1>3 DEF Record
<1>. HIDE DEF s
<1>4. Kept(run, run') /\ run'.final = Graph.node[n].terminal
  BY <1>2, <1>a, <1>b DEF f
<1>5. ASSUME Graph.verification, run'.final = "success" PROVE Attempted(run)
  <2>1. SUFFICES ASSUME ~Attempted(run) PROVE FALSE
    OBVIOUS
  <2>2. Unverified(run, n)
    BY <1>1, <1>5, <2>1 DEF FlowInv
  <2>3. n \in Free(run)
    BY <1>4, <1>5, <2>2 DEF Unverified
  <2>4. Graph.node[n].terminal # "success"
    BY <1>3, <1>5, <2>3, ValidRecord DEF FlowInv
  <2>. QED
    BY <1>4, <1>5, <2>4
<1>. QED
  BY <1>3, <1>4, <1>5, KeptFlow

\* What a step leaves to activate.
LEMMA TodoStep ==
  ASSUME IInv, IInv', ShapeInv(disk), FlowInv(disk), FlowInv(run), TodoInv, [Next]_vars
  PROVE  TodoInv'
<1>1. disk \in Record /\ run \in Record /\ disk' \in Record /\ run' \in Record /\ todo \subseteq Edge
  BY DEF IInv, RunInv, Rest
<1>2. ASSUME phase' # "activate" PROVE TodoInv'
  BY <1>2 DEF TodoInv
<1>3. CASE Mutator
  <2>1. ASSUME NEW e \in todo, GiveUp(e) PROVE TodoInv'
    <3>1. UNCHANGED <<run, phase>>
          /\ todo' = (todo \ {e}) \cup {Synthetic(e.to, t) : t \in Fallback \ {e.to}}
      BY <2>1 DEF GiveUp
    <3>2. \A t \in Fallback : Unverified(run, t)
      BY DEF Fallback, FirstOf, Terminals, Unverified
    <3>3. \A t : Synthetic(e.to, t).to = t
      BY DEF Synthetic
    <3>4. Attempted(run') <=> Attempted(run)
      BY <3>1
    <3>5. \A n : Unverified(run', n) <=> Unverified(run, n)
      BY <3>1
    <3>. QED
      BY <3>1, <3>2, <3>3, <3>4, <3>5 DEF TodoInv
  <2>2. ASSUME NEW e \in todo, Activate(e) PROVE TodoInv'
    BY <2>2, ActivateFlow
  <2>3. CASE Routed
    BY <1>2, <2>3 DEF Routed
  <2>4. ASSUME NEW i \in DOMAIN Graph.order, AutoTriage(i) PROVE TodoInv'
    <3>. DEFINE n == Graph.order[i]
                r == [run EXCEPT !.node[n] = Tried(@, "succeeded"), !.steps = @ + 1]
                ctx == Context(n, "success", [route |-> Graph.node[n].route,
                                              approval |-> "none"], FALSE, "none")
    <3>1. n \in Node /\ run.node[n].status = "ready" /\ Graph.node[n].kind = "triage"
      BY <2>4, GraphFacts DEF AutoTriage, AtNode, Automatic
    <3>2. Route(r, n, ctx) \/ Rollback
      BY <2>4 DEF AutoTriage
    <3>3. r.node[n].status # "pending"
      <4>1. Tried(run.node[n], "succeeded").status = "succeeded"
        BY <1>1, <3>1 DEF Tried, Record
      <4>. QED
        BY <1>1, <3>1, <4>1 DEF Record
    <3>. HIDE DEF n, ctx
    <3>4. RunInv(run)
      BY DEF IInv
    <3>5. RunInv(r)
      BY <3>4, <3>1, AutoInv, Zenon
    <3>6. Moved(run, r)
      BY <1>1, <3>1, AutoKept, Zenon
    <3>. HIDE DEF r
    <3>7. r \in Record
      BY <3>5 DEF RunInv
    <3>8. FlowInv(r)
      BY <1>1, <3>6, <3>7, MovedFlow
    <3>9. CASE Route(r, n, ctx)
      BY <1>1, <3>1, <3>3, <3>7, <3>8, <3>9, RouteFlow
    <3>10. CASE Rollback
      BY <1>2, <3>10 DEF Rollback
    <3>. QED
      BY <3>2, <3>9, <3>10
  <2>5. ASSUME NEW i \in DOMAIN Graph.order, FinalizeTerminal(i) PROVE TodoInv'
    BY <1>2, <2>5 DEF FinalizeTerminal
  <2>6. CASE SweepEnds
    <3>1. phase = "advance" /\ (phase' = phase \/ phase' = "commit")
      BY <2>6 DEF SweepEnds
    <3>. QED
      BY <1>2, <3>1
  <2>7. CASE Commit
    BY <1>2, <2>7 DEF Commit
  <2>. QED
    BY <1>3, <2>1, <2>2, <2>3, <2>4, <2>5, <2>6, <2>7 DEF Mutator
<1>4. ASSUME NEW c \in Clients, Client(c) PROVE TodoInv'
  <2>1. ASSUME NEW n \in In(disk, "running"), NEW a \in Answers(n), CompleteGraphNode(c, n, a)
        PROVE  TodoInv'
    <3>. DEFINE r == Completed(n, a)
                ctx == Context(n, a.outcome, [route |-> a.route, approval |-> "none"], a.passed,
                               Effective(a.failure, r.counts[n][a.signature]))
    <3>1. n \in Node /\ disk.node[n].status = "running" /\ disk.node[n].attempts > 0
      BY DEF In, ShapeInv
    <3>2. /\ phase = "idle"
          /\ \/ phase' = phase
             \/ Route(r, n, ctx)
             \/ Rollback
      BY <2>1 DEF CompleteGraphNode, Execute, Write
    <3>3. Moved(disk, r) /\ r \in Record
      BY <1>1, <3>1, CompletedKept, CompletedInv DEF IInv, RunInv
    <3>4. r.node[n].status # "pending" /\ r.node[n].attempts > 0
      <4>1. /\ Answered(disk.node[n], a).status # "pending"
            /\ Answered(disk.node[n], a).attempts = disk.node[n].attempts
        <5>1. a.outcome \in {"success", "failed", "blocked"}
          BY DEF Answers
        <5>. QED
          BY <1>1, <3>1, <5>1 DEF Answered, Record
      <4>2. r.node[n] = Answered(disk.node[n], a)
        BY <1>1, <3>1 DEF Completed, Record
      <4>. QED
        BY <3>1, <4>1, <4>2
    <3>. HIDE DEF r, ctx
    <3>5. FlowInv(r)
      BY <1>1, <3>3, MovedFlow
    <3>6. CASE Route(r, n, ctx)
      BY <1>1, <3>1, <3>3, <3>4, <3>5, <3>6, RouteFlow
    <3>7. CASE Rollback \/ phase' = phase
      BY <1>2, <3>2, <3>7 DEF Rollback
    <3>. QED
      BY <3>2, <3>6, <3>7
  <2>2. ASSUME NEW n \in disk.pending, NEW d \in {"approved", "denied"},
               ResolveGraphApproval(c, n, d)
        PROVE  TodoInv'
    <3>. DEFINE st == IF d = "approved" THEN "succeeded" ELSE "blocked"
                r == Resolved(n, d)
                ctx == Context(n, IF d = "approved" THEN "success" ELSE "blocked",
                               [route |-> "none", approval |-> d], FALSE, "none")
    <3>1. n \in Node /\ disk.node[n].status = "waiting_approval"
      BY DEF IInv, RunInv, In
    <3>2. Route(r, n, ctx) \/ Rollback
      BY <2>2 DEF ResolveGraphApproval
    <3>3. Moved(disk, r) /\ r \in Record
      BY <1>1, <3>1, ResolvedKept, ResolvedInv DEF IInv, RunInv
    <3>4. r.node[n].status # "pending" /\ r.node[n].attempts > 0
      <4>1. disk.node[n].attempts \in Nat
        BY <1>1, <3>1 DEF Record
      <4>2. /\ Tried(disk.node[n], st).status # "pending"
            /\ Tried(disk.node[n], st).attempts = disk.node[n].attempts + 1
        BY <1>1, <3>1 DEF Tried, Record
      <4>3. r.node[n] = Tried(disk.node[n], st)
        BY <1>1, <3>1 DEF Resolved, Record
      <4>. QED
        BY <4>1, <4>2, <4>3
    <3>. HIDE DEF r, ctx
    <3>5. FlowInv(r)
      BY <1>1, <3>3, MovedFlow
    <3>6. CASE Route(r, n, ctx)
      BY <1>1, <3>1, <3>3, <3>4, <3>5, <3>6, RouteFlow
    <3>7. CASE Rollback
      BY <1>2, <3>7 DEF Rollback
    <3>. QED
      BY <3>2, <3>6, <3>7
  <2>3. CASE \/ StartAdvance(c) \/ Reject(c) \/ \E o \in Ops : Reserve(c, o)
             \/ \E n \in In(disk, "ready") : ClaimGraphNode(c, n)
             \/ \E p \in In(disk, "running"), j \in In(disk, "pending"), ts \in SUBSET Tasks :
                  ExpandGraph(c, p, j, ts)
    <3>1. phase' # "activate"
      BY <2>3 DEF StartAdvance, Reject, Reserve, ClaimGraphNode, ExpandGraph, Execute, Write
    <3>. QED
      BY <1>2, <3>1
  <2>. QED
    BY <1>4, <2>1, <2>2, <2>3 DEF Client
<1>5. CASE AbortGraphRun \/ \E c \in Clients : Drop(c)
  <2>1. phase' # "activate"
    BY <1>5 DEF AbortGraphRun, Drop, Write
  <2>. QED
    BY <1>2, <2>1
<1>6. CASE DeadlinePasses \/ UNCHANGED vars
  <2>1. UNCHANGED <<run, phase, todo>>
    BY <1>6 DEF DeadlinePasses, vars
  <2>2. (Attempted(run') <=> Attempted(run)) /\ \A n : Unverified(run', n) <=> Unverified(run, n)
    BY <2>1
  <2>. QED
    BY <2>1, <2>2 DEF TodoInv
<1>. QED
  BY <1>3, <1>4, <1>5, <1>6 DEF Next

LEMMA FlowStep ==
  ASSUME \A t \in Tasks : Graph.node[t].kind # "verify",
         IInv, ShapeInv(disk), FlowInv(disk), FlowInv(run), TodoInv, [Next]_vars
  PROVE  FlowInv(disk)' /\ FlowInv(run)' /\ TodoInv'
<1>0. IInv'
  BY Step
<1>1. disk \in Record /\ run \in Record /\ disk' \in Record /\ run' \in Record
  BY <1>0 DEF IInv, RunInv
<1>2. FlowInv(disk')
  BY <1>1, Moves, MovedFlow, ExpandFlow
<1>3. FlowInv(run')
  BY <1>0, <1>1, <1>2, Moves, MovedFlow, ActivateFlow, FinalizeFlow
<1>4. TodoInv'
  BY <1>0, TodoStep
<1>. QED
  BY <1>2, <1>3, <1>4

\* If no expansion brings verifiers of its own, a run whose policy requires
\* verification ends in success only after some verifier has been tried: the
\* static check of the paths is enough, through every fan-out, join, loop and
\* expansion.
THEOREM Verified ==
  ASSUME \A t \in Tasks : Graph.node[t].kind # "verify"
  PROVE  Spec => []SuccessWasVerified
<1>1. Init => ShapeInv(disk) /\ ShapeInv(run) /\ FlowInv(disk) /\ FlowInv(run) /\ TodoInv
  BY InitialShape, InitialFlow DEF Init, TodoInv
<1>2. IInv /\ ShapeInv(disk) /\ ShapeInv(run) /\ FlowInv(disk) /\ FlowInv(run) /\ TodoInv
        /\ [Next]_vars
      => (ShapeInv(disk) /\ ShapeInv(run) /\ FlowInv(disk) /\ FlowInv(run) /\ TodoInv)'
  BY ShapeStep, FlowStep
<1>3. FlowInv(disk) => SuccessWasVerified
  BY DEF FlowInv, Attempted, SuccessWasVerified
<1>. QED
  BY <1>1, <1>2, <1>3, Inductive, PTL DEF Spec
-------------------------------------------------------------------------------
(* What keeps a run going *)

Awake(r) == {n \in Node : r.node[n].status \in {"ready", "waiting_approval", "running"}}

\* An all-join that some of its sources have led to, but not all.
Stalled(r, n) ==
  /\ r.node[n].status = "pending" /\ r.node[n].incoming # {} /\ r.join[n] = "all"
  /\ ~(Sources(r, n) \subseteq {e.from : e \in r.node[n].incoming \cap r.edges})

Busy(r) == Awake(r) # {} \/ \E n \in Node : Stalled(r, n)

ReadyEnd(r) == \E n \in Ends : r.node[n].status = "ready"

\* A terminal is never worked on, and while the run lives none has been reached.
EndsInv(r) ==
  \A n \in Ends : /\ r.node[n].status \notin {"running", "waiting_approval"}
                  /\ r.status \in Live => r.node[n].status \notin Done

\* A live run is busy or about to become so, and no call ever sees an active run
\* with a terminal to finalize.
TokenInv ==
  /\ EndsInv(disk) /\ EndsInv(run)
  /\ disk.status \in Live => Busy(disk)
  /\ run.status \in Live => todo # {} \/ Busy(run)
  /\ phase # "activate" => todo = {}
  /\ phase = "idle" => run = disk
  /\ phase = "activate" => run.status \in Live \/ (run.status = "failed" /\ todo = {})
  /\ phase = "advance" => run.status \in Live
  /\ ~scan.changed => scan.at = 1
  /\ disk.status = "active" => ~ReadyEnd(disk)
  /\ phase = "commit" /\ run.status = "active" => ~ReadyEnd(run)

\* find() finds something in a list that has it.
LEMMA FirstOfSome ==
  ASSUME NEW S \in SUBSET Listed, S # {}
  PROVE  FirstOf(S) # {}
<1>. DEFINE D == {i \in DOMAIN Graph.order : Graph.order[i] \in S}
<1>1. DOMAIN Graph.order \subseteq Nat /\ \A i \in DOMAIN Graph.order : 1..(i - 1) \subseteq DOMAIN Graph.order
  BY GraphFacts
<1>2. D \in SUBSET Nat /\ D # {}
  BY <1>1 DEF Listed
<1>3. PICK i \in D : \A k \in D : i <= k
  BY <1>2, LeastNumber
<1>4. \A j \in 1..(i - 1) : Graph.order[j] \notin S
  <2>1. SUFFICES ASSUME NEW j \in 1..(i - 1), Graph.order[j] \in S PROVE FALSE
    OBVIOUS
  <2>2. j \in D
    BY <1>1, <2>1
  <2>3. i <= j /\ i \in Nat /\ j \in Nat
    BY <1>2, <1>3, <2>2
  <2>. QED
    BY <2>1, <2>3
<1>. QED
  BY <1>3, <1>4 DEF FirstOf

\* A terminal is in the list, and is no task.
LEMMA EndFacts ==
  /\ Ends \subseteq Node
  /\ \A n \in Node : Graph.node[n].kind = "terminal" <=> n \in Ends
  /\ \A status : Terminals(status) \subseteq Ends
<1>1. Ends \subseteq Node
  BY GraphFacts DEF Ends
<1>2. \A n \in Tasks : Graph.node[n].kind # "terminal"
  BY RuntimeAssumption DEF GraphAssumption
<1>. QED
  BY <1>1, <1>2 DEF Ends, Tasks, Terminals

\* There is a terminal to fall back to.
LEMMA FallbackSome ==
  ASSUME CanEnd
  PROVE  Fallback # {} /\ Fallback \subseteq Ends
<1>. DEFINE S == IF Terminals("partial") # {} THEN Terminals("partial") ELSE Terminals("failed")
<1>1. S \in SUBSET Listed /\ S # {}
  BY DEF CanEnd, Terminals
<1>2. S \subseteq Ends
  BY EndFacts
<1>3. Fallback = FirstOf(S)
  BY DEF Fallback
<1>. HIDE DEF S
<1>4. FirstOf(S) # {}
  BY <1>1, FirstOfSome
<1>. QED
  BY <1>2, <1>3, <1>4 DEF FirstOf

\* Something leads out of the entry: there are two terminals to be reached.
LEMMA EntryIsNoEnd ==
  ASSUME CanEnd
  PROVE  Graph.entry \notin Ends
<1>. DEFINE g == SpecOf(Listed, Graph.edges)
<1>1. /\ g.nodes = Listed /\ g.edges = Graph.edges /\ g.entry = Graph.entry
      /\ \A n \in Node : g.kind[n] = Graph.node[n].kind /\ g.terminal[n] = Graph.node[n].terminal
  BY DEF SpecOf
<1>2. ValidGraphSpec(g)
  BY RuntimeAssumption DEF GraphAssumption
<1>. HIDE DEF g
<1>3. SUFFICES ASSUME Graph.entry \in Ends PROVE FALSE
  OBVIOUS
<1>4. Listed \subseteq Node /\ Graph.entry \in Listed
  BY GraphFacts, RuntimeAssumption DEF GraphAssumption
<1>5. /\ EdgesAreWellFormed(g) /\ g.nodes \subseteq Reachable(g.nodes, g.edges, g.entry)
      /\ \E n \in g.nodes : g.terminal[n] = "success"
  BY <1>2 DEF ValidGraphSpec
<1>6. /\ \A e \in Graph.edges : e.from \in Listed /\ e.to \in Listed
      /\ \A e \in Graph.edges : e.from # Graph.entry
  BY <1>1, <1>3, <1>4, <1>5 DEF EdgesAreWellFormed, EdgesOut, Ends
<1>7. Closed(Graph.edges, {Graph.entry})
  BY <1>6 DEF Closed
<1>8. IsFiniteSet(Listed)
  BY <1>4, GraphFacts, FS_Subset
<1>9. Reachable(Listed, Graph.edges, Graph.entry) \subseteq {Graph.entry}
  BY <1>4, <1>6, <1>7, <1>8, ReachableIsLeast
<1>10. \A n \in Listed : n = Graph.entry
  BY <1>1, <1>5, <1>9
<1>11. Graph.node[Graph.entry].terminal = "success"
  BY <1>1, <1>4, <1>5, <1>10
<1>12. \E n \in Listed : Graph.node[n].terminal # "success"
  BY DEF CanEnd, Terminals
<1>. QED
  BY <1>10, <1>11, <1>12
-------------------------------------------------------------------------------
\* What noting an edge changes.
LEMMA NotedRecord ==
  ASSUME NEW r \in Record, NEW e \in Edge
  PROVE  LET s == Note(r, e)
             x == r.node[e.to]
         IN  /\ s.status = r.status
             /\ \A m \in Node \ {e.to} : s.node[m] = r.node[m]
             /\ s.node[e.to].status = IF x.status \in Done THEN "pending" ELSE x.status
             /\ s.node[e.to].attempts = x.attempts
             /\ s.node[e.to].incoming = IF x.status \in Done THEN {e} ELSE x.incoming \cup {e}
<1>. DEFINE n == e.to
            x == r.node[n]
            y == IF x.status \in Done
                 THEN [NodeState EXCEPT !.attempts = x.attempts, !.visits = x.visits]
                 ELSE x
            z == [y EXCEPT !.incoming = @ \cup {e}]
            q == [r EXCEPT !.node[n] = z]
<1>1. n \in Node /\ x \in NodeRecord
  BY DEF Edge, Record, NodeRecord
<1>2. y \in NodeRecord
  BY <1>1 DEF NodeState, NodeRecord, NodeStatus
<1>3. z \in NodeRecord
  BY <1>2 DEF NodeRecord
<1>4. /\ z.attempts = x.attempts
      /\ z.status = IF x.status \in Done THEN "pending" ELSE x.status
      /\ z.incoming = IF x.status \in Done THEN {e} ELSE x.incoming \cup {e}
  BY <1>1, <1>2 DEF NodeState, NodeRecord
<1>5. Note(r, e) = q
  BY DEF Note
<1>. HIDE DEF z
<1>6. q.node[n] = z /\ q.status = r.status /\ \A m \in Node \ {n} : q.node[m] = r.node[m]
  BY <1>1, <1>3, SetNode, SetNodeRest
<1>. QED
  BY <1>4, <1>5, <1>6

\* The status of a node that is woken, and of its run.
LEMMA WokenStatus ==
  ASSUME NEW r \in Record, NEW n \in Node
  PROVE  LET s == Wake(r, n) IN
         /\ s.status = IF Gated(n) THEN "waiting_approval" ELSE r.status
         /\ s.node[n].status = IF Gated(n) THEN "waiting_approval" ELSE "ready"
<1>. DEFINE st == IF Gated(n) THEN "waiting_approval" ELSE "ready"
            x == r.node[n]
            z == [x EXCEPT !.visits = @ + 1, !.status = st]
            q == [r EXCEPT !.node[n] = z]
            s == Wake(r, n)
<1>1. st \in NodeStatus /\ x \in NodeRecord
  BY DEF NodeStatus, Record, NodeRecord
<1>2. z \in NodeRecord /\ z.status = st
  BY <1>1, WokenNode
<1>3. s = IF Gated(n) THEN [q EXCEPT !.pending = @ \cup {n}, !.status = "waiting_approval"]
          ELSE q
  BY DEF Wake, Record
<1>. HIDE DEF z, s
<1>4. q \in Record /\ q.node[n] = z /\ q.status = r.status
  BY <1>2, SetNode, SetNodeRest
<1>. HIDE DEF q
<1>5. s.node = q.node /\ s.status = IF Gated(n) THEN "waiting_approval" ELSE q.status
  BY <1>3, <1>4 DEF Record
<1>6. s.status = (IF Gated(n) THEN "waiting_approval" ELSE r.status)
      /\ s.node[n].status = st
  BY <1>2, <1>4, <1>5
<1>. QED
  BY <1>6 DEF s

\* The target of an edge is awake once the edge is activated, or it is stalled.
LEMMA ActivateBusy ==
  ASSUME IInv, NEW e \in todo, Activate(e)
  PROVE  Busy(run')
<1>. DEFINE r == Note(run, e)
            n == e.to
<1>1. run \in Record /\ e \in Edge /\ n \in Node /\ ~Exhausted(run, n) /\ RunInv(run)
  BY DEF IInv, RunInv, Rest, Edge, Activate
<1>2. r \in Record /\ RunInv(r) /\ r.node[n].status \notin Done
  BY <1>1, NoteKept, NoteInv
<1>3. e \in r.node[n].incoming
  <2>1. r.node[n].incoming = IF run.node[n].status \in Done THEN {e}
                             ELSE run.node[n].incoming \cup {e}
    BY <1>1, NotedRecord, Zenon
  <2>. HIDE DEF r, n
  <2>. QED
    BY ONLY <2>1
<1>4. run' = IF JoinReady(r, n, e.from) /\ r.node[n].status = "pending" THEN Wake(r, n) ELSE r
  BY DEF Activate
<1>5. r.node[n].status \in NodeStatus /\ r.join[n] \in {"any", "all"}
  BY <1>1, <1>2 DEF Record
<1>. HIDE DEF r, n
<1>6. CASE JoinReady(r, n, e.from) /\ r.node[n].status = "pending"
  <2>1. run'.node[n].status \in {"ready", "waiting_approval"}
    BY <1>1, <1>2, <1>4, <1>6, WokenRecord
  <2>. QED
    BY <1>1, <2>1 DEF Busy, Awake
<1>7. CASE r.node[n].status # "pending"
  <2>1. run' = r /\ r.node[n].status \in {"ready", "waiting_approval", "running"}
    BY <1>2, <1>4, <1>5, <1>7 DEF NodeStatus
  <2>. QED
    BY <1>1, <2>1 DEF Busy, Awake
<1>8. CASE ~JoinReady(r, n, e.from) /\ r.node[n].status = "pending"
  <2>1. run' = r
    BY <1>4, <1>8
  <2>2. Stalled(r, n)
    BY <1>3, <1>5, <1>8 DEF JoinReady, Stalled, Sources
  <2>. QED
    BY <1>1, <2>1, <2>2 DEF Busy
<1>. QED
  BY <1>6, <1>7, <1>8

\* A record whose nodes are the same, or one of whose nodes changed, has its
\* terminals as they were.
LEMMA SameEnds ==
  ASSUME NEW r, NEW s, EndsInv(r), s.node = r.node, s.status \in Live => r.status \in Live
  PROVE  EndsInv(s) /\ (ReadyEnd(s) <=> ReadyEnd(r))
  BY DEF EndsInv, ReadyEnd

LEMMA OneEnd ==
  ASSUME NEW r, NEW s, EndsInv(r), NEW n \in Node,
         \A m \in Node \ {n} : s.node[m] = r.node[m],
         n \in Ends => s.node[n].status \in {"pending", "ready"},
         s.status \in Live => r.status \in Live
  PROVE  EndsInv(s)
  BY EndFacts DEF EndsInv, Done

LEMMA SameBusy ==
  ASSUME NEW r, NEW s, Busy(r), s.node = r.node, s.join = r.join, s.joinFrom = r.joinFrom,
         s.edges = r.edges
  PROVE  Busy(s)
  BY DEF Busy, Awake, Stalled, Sources

\* The records stay as they are, and perhaps all the rest.
LEMMA SameRecords ==
  ASSUME TokenInv, UNCHANGED <<disk, run>>
  PROVE  /\ EndsInv(disk') /\ EndsInv(run') /\ (disk'.status \in Live => Busy(disk'))
         /\ (disk'.status = "active" => ~ReadyEnd(disk'))
         /\ (ReadyEnd(run') <=> ReadyEnd(run)) /\ (Busy(run') <=> Busy(run))
  BY DEF TokenInv

LEMMA SameToken ==
  ASSUME TokenInv, UNCHANGED <<disk, run, phase, todo, scan>>
  PROVE  TokenInv'
  BY SameRecords DEF TokenInv

\* A mutator that commits at once, and one that throws.
LEMMA WriteToken ==
  ASSUME TokenInv, phase = "idle", NEW r, Write(r), EndsInv(r),
         r.status \in Live => Busy(r), r.status = "active" => ~ReadyEnd(r)
  PROVE  TokenInv'
<1>1. disk' = r /\ run' = r /\ phase' = "idle" /\ todo' = todo /\ scan' = scan
  BY DEF Write
<1>2. EndsInv(disk') /\ EndsInv(run') /\ (disk'.status \in Live => Busy(disk'))
      /\ (run'.status \in Live => Busy(run')) /\ (disk'.status = "active" => ~ReadyEnd(disk'))
  BY <1>1
<1>. QED
  BY <1>1, <1>2 DEF TokenInv

LEMMA RollbackToken ==
  ASSUME TokenInv, Rollback, disk' = disk
  PROVE  TokenInv'
<1>1. run' = disk /\ phase' = "idle" /\ todo' = {} /\ scan'.at = 1
  BY DEF Rollback, NoScan
<1>2. /\ EndsInv(disk') /\ EndsInv(run') /\ (disk'.status \in Live => Busy(disk'))
      /\ (run'.status \in Live => Busy(run')) /\ (disk'.status = "active" => ~ReadyEnd(disk'))
  BY <1>1 DEF TokenInv
<1>. QED
  BY <1>1, <1>2 DEF TokenInv

\* route() leaves an edge to activate, or fails the run.
LEMMA RouteToken ==
  ASSUME TokenInv, NEW r \in Record, EndsInv(r), r.status \in Live,
         NEW n, NEW ctx, Route(r, n, ctx), disk' = disk, ~scan'.changed => scan'.at = 1
  PROVE  TokenInv'
<1>1. \/ run' = r /\ todo' # {}
      \/ run' = [r EXCEPT !.status = "failed"] /\ todo' = {}
  <2>1. Terminals("failed") # {} => FirstOf(Terminals("failed")) # {}
    BY FirstOfSome DEF Terminals
  <2>. QED
    BY <2>1 DEF Route
<1>2. phase' = "activate"
  BY DEF Route
<1>3. [r EXCEPT !.status = "failed"].status = "failed" /\ [r EXCEPT !.status = "failed"].node = r.node
  BY DEF Record
<1>4. EndsInv(run')
  BY <1>1, <1>3, SameEnds DEF Live
<1>5. /\ run'.status \in Live => todo' # {}
      /\ run'.status \in Live \/ (run'.status = "failed" /\ todo' = {})
  BY <1>1, <1>3 DEF Live
<1>6. EndsInv(disk') /\ (disk'.status \in Live => Busy(disk'))
      /\ (disk'.status = "active" => ~ReadyEnd(disk'))
  BY DEF TokenInv
<1>. QED
  BY <1>2, <1>4, <1>5, <1>6 DEF TokenInv

LEMMA ActivateToken ==
  ASSUME CanEnd, IInv, TokenInv, NEW e \in todo, Activate(e)
  PROVE  TokenInv'
<1>. DEFINE r == Note(run, e)
            n == e.to
<1>1. /\ run \in Record /\ e \in Edge /\ n \in Node /\ phase = "activate"
      /\ disk' = disk /\ phase' = phase /\ scan' = scan
  BY DEF IInv, RunInv, Rest, Edge, Activate
<1>2. run.status \in Live
  BY <1>1 DEF TokenInv
<1>3. /\ r \in Record /\ r.status = run.status
      /\ \A m \in Node \ {n} : r.node[m] = run.node[m]
      /\ r.node[n].status = IF run.node[n].status \in Done THEN "pending" ELSE run.node[n].status
  BY <1>1, NoteKept, NotedRecord
<1>4. run' = r \/ run' = Wake(r, n)
  BY DEF Activate
<1>5. n \in Ends => ~Gated(n)
  BY DEF CanEnd
<1>6. n \in Ends => run.node[n].status \in {"pending", "ready"}
  <2>1. run.node[n].status \in NodeStatus
    BY <1>1 DEF Record
  <2>. QED
    BY <1>2, <2>1 DEF TokenInv, EndsInv, NodeStatus
<1>7. EndsInv(run)
  BY DEF TokenInv
<1>. HIDE DEF r, n
<1>8. /\ run'.status \in Live
      /\ \A m \in Node \ {n} : run'.node[m] = run.node[m]
      /\ n \in Ends => run'.node[n].status \in {"pending", "ready"}
  <2>1. CASE run' = r
    BY <1>2, <1>3, <1>6, <2>1
  <2>2. CASE run' = Wake(r, n)
    <3>1. \A m \in Node \ {n} : run'.node[m] = r.node[m]
      BY <1>1, <1>3, <2>2, WokenRecord
    <3>2. /\ run'.status = IF Gated(n) THEN "waiting_approval" ELSE r.status
          /\ run'.node[n].status = IF Gated(n) THEN "waiting_approval" ELSE "ready"
      BY <1>1, <1>3, <2>2, WokenStatus
    <3>. QED
      BY <1>2, <1>3, <1>5, <3>1, <3>2 DEF Live
  <2>. QED
    BY <1>4, <2>1, <2>2
<1>9. EndsInv(run')
  BY <1>1, <1>2, <1>7, <1>8, OneEnd
<1>10. Busy(run')
  BY ActivateBusy
<1>11. EndsInv(disk') /\ (disk'.status \in Live => Busy(disk'))
       /\ (disk'.status = "active" => ~ReadyEnd(disk'))
  BY <1>1 DEF TokenInv
<1>. QED
  BY <1>1, <1>8, <1>9, <1>10, <1>11 DEF TokenInv

LEMMA GiveUpToken ==
  ASSUME CanEnd, IInv, TokenInv, NEW e \in todo, GiveUp(e)
  PROVE  TokenInv'
<1>1. /\ phase = "activate" /\ run.node[e.to].status \in Done /\ UNCHANGED <<disk, run, phase, scan>>
      /\ todo' = (todo \ {e}) \cup {Synthetic(e.to, t) : t \in Fallback \ {e.to}}
  BY DEF GiveUp, Exhausted
<1>2. run.status \in Live
  BY <1>1 DEF TokenInv
<1>3. e.to \notin Ends
  BY <1>1, <1>2 DEF TokenInv, EndsInv
<1>4. todo' # {}
  BY <1>1, <1>3, FallbackSome
<1>. QED
  BY <1>1, <1>2, <1>4, SameRecords DEF TokenInv

\* s is r with node n done.
Finishes(r, s, n) ==
  /\ \A m \in Node \ {n} : s.node[m] = r.node[m]
  /\ s.node[n].status \in Done /\ s.node[n].attempts > 0

\* autoAdvance, an answer and an approval finish one node each.
LEMMA AutoFinishes ==
  ASSUME NEW r \in Record, NEW n \in Node
  PROVE  LET s == [r EXCEPT !.node[n] = Tried(@, "succeeded"), !.steps = @ + 1]
         IN  Finishes(r, s, n) /\ s.status = r.status
<1>. DEFINE z == Tried(r.node[n], "succeeded")
            s == [r EXCEPT !.node[n] = Tried(@, "succeeded"), !.steps = @ + 1]
<1>1. r.node[n].attempts \in Nat /\ r.node[n] \in NodeRecord
  BY DEF Record, NodeRecord
<1>2. z.status = "succeeded" /\ z.attempts = r.node[n].attempts + 1
  BY <1>1 DEF Tried, NodeRecord
<1>. HIDE DEF z
<1>3. s.node[n] = z /\ s.status = r.status /\ \A m \in Node \ {n} : s.node[m] = r.node[m]
  BY DEF Record, z
<1>. HIDE DEF s
<1>4. Finishes(r, s, n) /\ s.status = r.status
  BY <1>1, <1>2, <1>3 DEF Finishes, Done
<1>. QED
  BY <1>4 DEF s

LEMMA CompletedFinishes ==
  ASSUME disk \in Record, NEW n \in Node, disk.node[n].attempts > 0, NEW a \in Answers(n)
  PROVE  Finishes(disk, Completed(n, a), n) /\ Completed(n, a).status = disk.status
<1>. DEFINE z == Answered(disk.node[n], a)
            s == Completed(n, a)
<1>1. disk.node[n] \in NodeRecord
  BY DEF Record, NodeRecord
<1>2. a.outcome \in {"success", "failed", "blocked"}
  BY DEF Answers
<1>3. z.status \in Done /\ z.attempts = disk.node[n].attempts
  BY <1>1, <1>2 DEF Answered, NodeRecord, Done
<1>. HIDE DEF z
<1>4. s.node[n] = z /\ s.status = disk.status /\ \A m \in Node \ {n} : s.node[m] = disk.node[m]
  BY DEF Completed, Record, z
<1>. HIDE DEF s
<1>5. Finishes(disk, s, n) /\ s.status = disk.status
  BY <1>3, <1>4 DEF Finishes
<1>. QED
  BY <1>5 DEF s

LEMMA ResolvedFinishes ==
  ASSUME disk \in Record, NEW n \in Node, NEW d \in {"approved", "denied"}
  PROVE  Finishes(disk, Resolved(n, d), n) /\ Resolved(n, d).status = "active"
<1>. DEFINE st == IF d = "approved" THEN "succeeded" ELSE "blocked"
            z == Tried(disk.node[n], st)
            s == Resolved(n, d)
<1>1. disk.node[n].attempts \in Nat /\ disk.node[n] \in NodeRecord
  BY DEF Record, NodeRecord
<1>2. z.status \in Done /\ z.attempts = disk.node[n].attempts + 1
  BY <1>1 DEF Tried, NodeRecord, Done
<1>. HIDE DEF z
<1>3. s.node[n] = z /\ s.status = "active" /\ \A m \in Node \ {n} : s.node[m] = disk.node[m]
  BY DEF Resolved, Record, z
<1>. HIDE DEF s
<1>4. Finishes(disk, s, n) /\ s.status = "active"
  BY <1>1, <1>2, <1>3 DEF Finishes
<1>. QED
  BY <1>4 DEF s

\* A claim takes a node from ready to running.
LEMMA ClaimedRecord ==
  ASSUME disk \in Record, NEW n \in Node
  PROVE  LET s == [disk EXCEPT !.node[n] = Tried(@, "running")] IN
         /\ s.status = disk.status /\ s.node[n].status = "running"
         /\ s.node[n].attempts = disk.node[n].attempts + 1
         /\ \A m \in Node \ {n} : s.node[m] = disk.node[m]
<1>. DEFINE z == Tried(disk.node[n], "running")
            s == [disk EXCEPT !.node[n] = Tried(@, "running")]
<1>1. z.status = "running" /\ z.attempts = disk.node[n].attempts + 1
  BY DEF Tried, Record
<1>. HIDE DEF z
<1>2. s.node[n] = z /\ s.status = disk.status /\ \A m \in Node \ {n} : s.node[m] = disk.node[m]
  BY DEF Record, z
<1>. QED
  BY <1>1, <1>2

LEMMA FinishedEnds ==
  ASSUME NEW r, NEW s, EndsInv(r), NEW n \in Node \ Ends, Finishes(r, s, n),
         s.status \in Live => r.status \in Live
  PROVE  EndsInv(s)
  BY OneEnd DEF Finishes

\* The steps of a mutator keep the run going.
LEMMA MutatorToken ==
  ASSUME CanEnd, IInv, TokenInv, Mutator
  PROVE  TokenInv'
<1>0. run \in Record /\ disk \in Record /\ EndsInv(run)
  BY DEF IInv, RunInv, TokenInv
<1>1. ASSUME NEW e \in todo, GiveUp(e) \/ Activate(e) PROVE TokenInv'
  BY <1>1, GiveUpToken, ActivateToken
<1>2. CASE Routed
  <2>1. /\ phase = "activate" /\ todo = {} /\ UNCHANGED <<disk, run, todo>>
        /\ \/ /\ run.status # "failed" /\ phase' = "advance" /\ scan' = [scan EXCEPT !.on = TRUE]
           \/ /\ run.status = "failed" \/ ~(scan.on \/ run.status = "active")
              /\ phase' = "commit" /\ scan' = NoScan
    BY <1>2 DEF Routed
  <2>2. ~scan'.changed => scan'.at = 1
    BY <2>1 DEF NoScan, TokenInv, IInv, Rest
  <2>. QED
    BY <2>1, <2>2, SameRecords DEF TokenInv
<1>3. ASSUME NEW i \in DOMAIN Graph.order, AutoTriage(i) PROVE TokenInv'
  <2>. DEFINE n == Graph.order[i]
              r == [run EXCEPT !.node[n] = Tried(@, "succeeded"), !.steps = @ + 1]
              ctx == Context(n, "success", [route |-> Graph.node[n].route, approval |-> "none"],
                             FALSE, "none")
  <2>1. n \in Node /\ n \notin Ends /\ run.node[n].status = "ready" /\ phase = "advance"
    BY <1>3, GraphFacts, EndFacts DEF AutoTriage, AtNode, Automatic
  <2>2. disk' = disk /\ ((Route(r, n, ctx) /\ scan' = [scan EXCEPT !.at = i + 1, !.changed = TRUE])
                         \/ Rollback)
    BY <1>3 DEF AutoTriage
  <2>. HIDE DEF n, ctx
  <2>3. Finishes(run, r, n) /\ r.status = run.status
    BY <1>0, <2>1, AutoFinishes, Zenon
  <2>4. RunInv(run)
    BY DEF IInv
  <2>5. RunInv(r)
    BY <2>4, <2>1, AutoInv, Zenon
  <2>. HIDE DEF r
  <2>6. r \in Record /\ EndsInv(r) /\ r.status \in Live
    BY <1>0, <2>1, <2>3, <2>5, FinishedEnds DEF RunInv, TokenInv
  <2>7. CASE Rollback
    BY <2>2, <2>7, RollbackToken
  <2>8. CASE Route(r, n, ctx) /\ scan' = [scan EXCEPT !.at = i + 1, !.changed = TRUE]
    <3>1. scan'.changed
      BY <2>8 DEF IInv, Rest
    <3>. QED
      BY <2>2, <2>6, <2>8, <3>1, RouteToken
  <2>. QED
    BY <2>2, <2>7, <2>8
<1>4. ASSUME NEW i \in DOMAIN Graph.order, FinalizeTerminal(i) PROVE TokenInv'
  <2>. DEFINE n == Graph.order[i]
              b == Quality([run EXCEPT !.node[n] = Reached(@)], n)
              z == Reached(run.node[n])
  <2>1. /\ n \in Node /\ phase = "advance" /\ disk' = disk /\ todo' = todo
        /\ phase' = "commit" /\ scan' = NoScan
    BY <1>4, GraphFacts DEF FinalizeTerminal, AtNode
  <2>2. run' = [[run EXCEPT !.node[n] = Reached(@)] EXCEPT
                  !.status = "finalized", !.final = Graph.node[n].terminal, !.quality = b]
    BY <1>4 DEF FinalizeTerminal
  <2>. HIDE DEF b
  <2>3. z.status = "succeeded"
    BY <1>0, <2>1 DEF Reached, Record
  <2>. HIDE DEF n, z
  <2>4. run'.node[n] = z /\ run'.status = "finalized" /\ \A m \in Node \ {n} : run'.node[m] = run.node[m]
    BY <1>0, <2>1, <2>2 DEF Record, z
  <2>5. EndsInv(run')
    BY <1>0, <2>1, <2>3, <2>4, EndFacts DEF EndsInv, Live
  <2>6. /\ EndsInv(disk') /\ (disk'.status \in Live => Busy(disk'))
        /\ (disk'.status = "active" => ~ReadyEnd(disk')) /\ todo' = {}
    BY <2>1 DEF TokenInv
  <2>7. run'.status \notin Live /\ run'.status # "active" /\ scan'.at = 1
    BY <2>1, <2>4 DEF Live, NoScan
  <2>. QED
    BY <2>1, <2>5, <2>6, <2>7 DEF TokenInv
<1>5. CASE SweepEnds
  <2>. DEFINE bound == 3 * Cardinality(LiveNodes(run))
  <2>1. /\ phase = "advance" /\ disk' = disk /\ todo' = todo
        /\ \A i \in scan.at..Len(Graph.order) : ~Automatic(Graph.order[i])
    BY <1>5 DEF SweepEnds
  <2>2. \/ /\ scan' = [scan EXCEPT !.at = 1, !.sweep = @ + 1, !.changed = FALSE]
           /\ run' = run /\ phase' = phase
        \/ /\ ~(scan.changed /\ scan.sweep < bound) /\ phase' = "commit" /\ scan' = NoScan
           /\ run' = IF scan.sweep >= bound THEN [run EXCEPT !.status = "failed"] ELSE run
    BY <1>5 DEF SweepEnds
  <2>3. EndsInv(disk') /\ (disk'.status \in Live => Busy(disk'))
        /\ (disk'.status = "active" => ~ReadyEnd(disk')) /\ todo' = {}
    BY <2>1 DEF TokenInv
  <2>4. CASE run' = run /\ phase' = phase
             /\ scan' = [scan EXCEPT !.at = 1, !.sweep = @ + 1, !.changed = FALSE]
    <3>1. scan'.at = 1
      BY <2>4 DEF IInv, Rest
    <3>2. EndsInv(run') /\ (run'.status \in Live => Busy(run')) /\ run'.status \in Live
      BY <2>1, <2>4 DEF TokenInv
    <3>. QED
      BY <2>1, <2>3, <2>4, <3>1, <3>2 DEF TokenInv
  <2>5. CASE phase' = "commit" /\ run' = [run EXCEPT !.status = "failed"] /\ scan' = NoScan
    <3>1. run'.node = run.node /\ run'.status = "failed"
      BY <1>0, <2>5 DEF Record
    <3>2. EndsInv(run') /\ run'.status \notin Live
      BY <1>0, <3>1, SameEnds DEF Live
    <3>. QED
      BY <2>3, <2>5, <3>1, <3>2 DEF TokenInv, NoScan
  <2>6. CASE phase' = "commit" /\ run' = run /\ ~scan.changed /\ scan' = NoScan
    <3>1. scan.at = 1
      BY <2>6 DEF TokenInv
    <3>2. ~ReadyEnd(run)
      <4>1. SUFFICES ASSUME NEW n \in Ends, run.node[n].status = "ready" PROVE FALSE
        BY DEF ReadyEnd
      <4>2. PICK i \in DOMAIN Graph.order : Graph.order[i] = n
        BY DEF Ends, Listed
      <4>3. i \in 1..Len(Graph.order)
        BY GraphFacts
      <4>4. Automatic(Graph.order[i])
        BY <4>1, <4>2 DEF Automatic, Ends
      <4>. QED
        BY <2>1, <3>1, <4>3, <4>4
    <3>3. EndsInv(run') /\ (run'.status \in Live => Busy(run')) /\ ~ReadyEnd(run')
      BY <2>1, <2>6, <3>2 DEF TokenInv
    <3>. QED
      BY <2>3, <2>6, <3>3 DEF TokenInv, NoScan
  <2>7. scan.sweep < bound \/ scan.sweep >= bound
    <3>1. IsFiniteSet(LiveNodes(run))
      BY <1>0, GraphFacts, FS_Subset DEF LiveNodes, Record, Tasks
    <3>2. Cardinality(LiveNodes(run)) \in Nat /\ scan.sweep \in Nat
      BY <3>1, FS_CardinalityType DEF IInv, Rest
    <3>. QED
      BY <3>2
  <2>. HIDE DEF bound
  <2>. QED
    BY <2>2, <2>4, <2>5, <2>6, <2>7
<1>6. CASE Commit
  <2>1. phase = "commit" /\ disk' = run /\ run' = run /\ phase' = "idle" /\ todo' = todo /\ scan' = scan
    BY <1>6 DEF Commit
  <2>2. todo = {}
    BY <2>1 DEF TokenInv
  <2>3. EndsInv(disk') /\ EndsInv(run') /\ (disk'.status \in Live => Busy(disk'))
        /\ (run'.status \in Live => Busy(run')) /\ (disk'.status = "active" => ~ReadyEnd(disk'))
    BY <2>1, <2>2 DEF TokenInv
  <2>. QED
    BY <2>1, <2>2, <2>3 DEF TokenInv
<1>. QED
  BY <1>1, <1>2, <1>3, <1>4, <1>5, <1>6 DEF Mutator

\* What a client's transactions leave.
LEMMA ClientToken ==
  ASSUME CanEnd, IInv, MutatorInv, ShapeInv(disk), TokenInv, NEW c \in Clients, Client(c)
  PROVE  TokenInv'
<1>0. run \in Record /\ disk \in Record /\ EndsInv(disk)
  BY DEF IInv, RunInv, TokenInv
<1>1. ASSUME NEW st \in Ended, phase = "idle", Write([disk EXCEPT !.status = st]) PROVE TokenInv'
  <2>. DEFINE s == [disk EXCEPT !.status = st]
  <2>1. s.node = disk.node /\ s.status \notin Live
    BY <1>0, <1>1 DEF Record, Ended, Live
  <2>2. phase = "idle" /\ Write(s)
    BY <1>1
  <2>. HIDE DEF s
  <2>3. EndsInv(s) /\ s.status # "active"
    BY <1>0, <2>1, SameEnds DEF Live
  <2>. QED
    BY <2>1, <2>2, <2>3, WriteToken
<1>2. ASSUME NEW o \in Ops, Reserve(c, o) PROVE TokenInv'
  <2>1. phase = "idle" /\ (\/ Write([disk EXCEPT !.status = "budget_exceeded"])
                           \/ Write([disk EXCEPT !.tools = @ + 1]))
    BY <1>2 DEF Reserve
  <2>2. CASE Write([disk EXCEPT !.status = "budget_exceeded"])
    BY <1>1, <2>1, <2>2 DEF Ended
  <2>3. CASE Write([disk EXCEPT !.tools = @ + 1])
    <3>. DEFINE s == [disk EXCEPT !.tools = @ + 1]
    <3>1. /\ s.node = disk.node /\ s.status = disk.status /\ s.join = disk.join
          /\ s.joinFrom = disk.joinFrom /\ s.edges = disk.edges
      BY <1>0 DEF Record
    <3>2. Write(s)
      BY <2>3
    <3>. HIDE DEF s
    <3>3. EndsInv(s) /\ (s.status \in Live => Busy(s)) /\ (s.status = "active" => ~ReadyEnd(s))
      BY <1>0, <3>1, SameEnds, SameBusy DEF TokenInv
    <3>. QED
      BY <2>1, <3>2, <3>3, WriteToken
  <2>. QED
    BY <2>1, <2>2, <2>3
<1>3. ASSUME NEW n \in In(disk, "ready"), ClaimGraphNode(c, n) PROVE TokenInv'
  <2>. DEFINE s == [disk EXCEPT !.node[n] = Tried(@, "running")]
  <2>1. /\ n \in Node /\ phase = "idle" /\ disk.status = "active"
        /\ disk.node[n].status = "ready" /\ Write(s)
    BY <1>3 DEF ClaimGraphNode, Execute, MayClaim, In
  <2>2. ~ReadyEnd(disk) /\ n \notin Ends
    BY <2>1 DEF TokenInv, ReadyEnd
  <2>3. /\ s.status = disk.status /\ s.node[n].status = "running"
        /\ \A m \in Node \ {n} : s.node[m] = disk.node[m]
    BY <1>0, <2>1, ClaimedRecord
  <2>. HIDE DEF s
  <2>4. EndsInv(s)
    BY <1>0, <2>1, <2>2, <2>3, OneEnd
  <2>5. Busy(s)
    BY <2>1, <2>3 DEF Busy, Awake
  <2>6. ~ReadyEnd(s)
    BY <2>2, <2>3, EndFacts DEF ReadyEnd
  <2>. QED
    BY <2>1, <2>4, <2>5, <2>6, WriteToken
<1>4. ASSUME NEW n \in In(disk, "running"), NEW a \in Answers(n), CompleteGraphNode(c, n, a)
      PROVE  TokenInv'
  <2>. DEFINE r == Completed(n, a)
              ctx == Context(n, a.outcome, [route |-> a.route, approval |-> "none"], a.passed,
                             Effective(a.failure, r.counts[n][a.signature]))
              s == [r EXCEPT !.status = "budget_exceeded"]
  <2>1. /\ n \in Node /\ disk.node[n].status = "running" /\ disk.node[n].attempts > 0
        /\ phase = "idle" /\ disk.status = "active"
    BY <1>4 DEF In, CompleteGraphNode, Execute, MayComplete, ShapeInv
  <2>2. \/ Write(s)
        \/ Route(r, n, ctx) /\ UNCHANGED <<disk, scan>>
        \/ Rollback /\ UNCHANGED disk
    BY <1>4 DEF CompleteGraphNode
  <2>3. n \notin Ends
    BY <1>0, <2>1 DEF EndsInv
  <2>4. r \in Record /\ Finishes(disk, r, n) /\ r.status = "active"
    BY <1>0, <2>1, CompletedInv, CompletedFinishes DEF IInv, RunInv
  <2>. HIDE DEF r, ctx
  <2>5. EndsInv(r) /\ r.status \in Live
    BY <1>0, <2>1, <2>3, <2>4, FinishedEnds DEF Live
  <2>6. CASE Write(s)
    <3>1. s.node = r.node /\ s.status = "budget_exceeded"
      BY <2>4 DEF Record
    <3>2. EndsInv(s) /\ s.status \notin Live /\ s.status # "active"
      BY <2>5, <3>1, SameEnds DEF Live
    <3>. HIDE DEF s
    <3>. QED
      BY <2>1, <2>6, <3>2, WriteToken
  <2>7. CASE Route(r, n, ctx) /\ UNCHANGED <<disk, scan>>
    BY <2>4, <2>5, <2>7, RouteToken DEF TokenInv
  <2>8. CASE Rollback /\ UNCHANGED disk
    BY <2>8, RollbackToken
  <2>. QED
    BY <2>2, <2>6, <2>7, <2>8
<1>5. ASSUME NEW n \in disk.pending, NEW d \in {"approved", "denied"},
             ResolveGraphApproval(c, n, d)
      PROVE  TokenInv'
  <2>. DEFINE r == Resolved(n, d)
              ctx == Context(n, IF d = "approved" THEN "success" ELSE "blocked",
                             [route |-> "none", approval |-> d], FALSE, "none")
  <2>1. /\ n \in Node /\ disk.node[n].status = "waiting_approval"
        /\ phase = "idle" /\ disk.status = "waiting_approval"
    BY <1>5 DEF IInv, RunInv, In, ResolveGraphApproval, Execute, MayResolve
  <2>2. \/ Route(r, n, ctx) /\ UNCHANGED <<disk, scan>>
        \/ Rollback /\ UNCHANGED disk
    BY <1>5 DEF ResolveGraphApproval
  <2>3. n \notin Ends
    BY <1>0, <2>1 DEF EndsInv
  <2>4. r \in Record /\ Finishes(disk, r, n) /\ r.status = "active"
    BY <1>0, <2>1, ResolvedInv, ResolvedFinishes DEF IInv, RunInv
  <2>. HIDE DEF r, ctx
  <2>5. EndsInv(r) /\ r.status \in Live
    BY <1>0, <2>1, <2>3, <2>4, FinishedEnds DEF Live
  <2>6. CASE Route(r, n, ctx) /\ UNCHANGED <<disk, scan>>
    BY <2>4, <2>5, <2>6, RouteToken DEF TokenInv
  <2>7. CASE Rollback /\ UNCHANGED disk
    BY <2>7, RollbackToken
  <2>. QED
    BY <2>2, <2>6, <2>7
<1>6. ASSUME NEW p \in In(disk, "running"), NEW j \in In(disk, "pending"),
             NEW ts \in SUBSET Tasks, ExpandGraph(c, p, j, ts)
      PROVE  TokenInv'
  <2>. DEFINE s == Expanded(p, j, ts)
  <2>1. /\ p \in Node /\ j \in Node /\ disk.node[p].status = "running"
        /\ phase = "idle" /\ Write(s)
    BY <1>6 DEF In, ExpandGraph, Execute
  <2>2. s.node = disk.node
    BY <1>0, <2>1, ExpandedRecord
  <2>3. s.status = disk.status
    BY <1>0 DEF Expanded, Record
  <2>. HIDE DEF s
  <2>4. EndsInv(s) /\ (ReadyEnd(s) <=> ReadyEnd(disk))
    BY <1>0, <2>2, <2>3, SameEnds
  <2>5. Busy(s)
    BY <2>1, <2>2 DEF Busy, Awake
  <2>. QED
    BY <2>1, <2>3, <2>4, <2>5, WriteToken DEF TokenInv
<1>7. CASE Reject(c)
  <2>1. UNCHANGED <<disk, run, phase, todo, scan>>
    BY <1>7 DEF Reject
  <2>. QED
    BY <2>1, SameToken
<1>8. CASE StartAdvance(c)
  <2>1. /\ disk.status = "active" /\ phase = "idle" /\ phase' = "advance"
        /\ scan'.at = 1 /\ UNCHANGED <<disk, run, todo>>
    BY <1>8 DEF StartAdvance, Execute, MutatorInv, StartInv, NoScan
  <2>2. run = disk /\ run.status \in Live /\ todo = {}
    BY <2>1 DEF TokenInv, Live
  <2>. QED
    BY <2>1, <2>2, SameRecords DEF TokenInv
<1>. QED
  BY <1>2, <1>3, <1>4, <1>5, <1>6, <1>7, <1>8 DEF Client

LEMMA TokenStep ==
  ASSUME CanEnd, IInv, MutatorInv, ShapeInv(disk), TokenInv, [Next]_vars
  PROVE  TokenInv'
<1>1. ASSUME NEW c \in Clients, Drop(c) PROVE TokenInv'
  BY <1>1, SameToken DEF Drop
<1>2. CASE AbortGraphRun
  <2>. DEFINE s == [disk EXCEPT !.status = "aborted"]
  <2>1. disk \in Record /\ EndsInv(disk) /\ phase = "idle" /\ Write(s)
    BY <1>2 DEF AbortGraphRun, IInv, RunInv, TokenInv
  <2>2. s.node = disk.node /\ s.status = "aborted"
    BY <2>1 DEF Record
  <2>. HIDE DEF s
  <2>3. EndsInv(s) /\ s.status \notin Live /\ s.status # "active"
    BY <2>1, <2>2, SameEnds DEF Live
  <2>. QED
    BY <2>1, <2>3, WriteToken
<1>3. CASE DeadlinePasses \/ UNCHANGED vars
  BY <1>3, SameToken DEF DeadlinePasses, vars
<1>. QED
  BY <1>1, <1>2, <1>3, MutatorToken, ClientToken DEF Next

LEMMA InitialToken ==
  ASSUME CanEnd, Init
  PROVE  TokenInv
<1>1. /\ disk = InitialRun /\ run = InitialRun /\ phase = "idle" /\ todo = {} /\ scan = NoScan
  BY DEF Init
<1>2. /\ InitialRun.status = "active" /\ InitialRun.node[Graph.entry].status = "ready"
      /\ \A n \in Node \ {Graph.entry} : InitialRun.node[n].status = "pending"
  BY GraphFacts DEF InitialRun, NodeState
<1>3. EndsInv(disk) /\ ~ReadyEnd(disk)
  BY <1>1, <1>2, EndFacts, EntryIsNoEnd DEF EndsInv, ReadyEnd, Done
<1>4. Busy(disk)
  BY <1>1, <1>2, GraphFacts DEF Busy, Awake
<1>. QED
  BY <1>1, <1>2, <1>3, <1>4 DEF TokenInv, NoScan, Live

\* All that the rest needs.
WorkInv == MutatorInv /\ ShapeInv(disk) /\ ShapeInv(run) /\ TokenInv

LEMMA WorkInductive ==
  ASSUME ~EarlyCalls, CanEnd
  PROVE  Spec => []WorkInv
<1>1. Init => WorkInv
  <2>. SUFFICES ASSUME Init PROVE WorkInv
    OBVIOUS
  <2>1. phase = "idle" /\ disk.status = "active"
    BY DEF Init, InitialRun
  <2>2. PICK c \in Clients : calls = [d \in Clients |-> IF d = c THEN "start" ELSE "none"]
    BY DEF Init
  <2>3. MutatorInv
    BY <2>1, <2>2 DEF MutatorInv, StartInv
  <2>. QED
    BY <2>3, InitialShape, InitialToken DEF Init, WorkInv
<1>2. IInv /\ WorkInv /\ [Next]_vars => WorkInv'
  <2>. SUFFICES ASSUME IInv, WorkInv, [Next]_vars PROVE WorkInv'
    OBVIOUS
  <2>1. MutatorInv'
    BY MutatorInductive DEF WorkInv, IInv
  <2>2. ShapeInv(disk)' /\ ShapeInv(run)'
    BY ShapeStep DEF WorkInv
  <2>3. TokenInv'
    BY TokenStep DEF WorkInv
  <2>. QED
    BY <2>1, <2>2, <2>3 DEF WorkInv
<1>. QED
  BY <1>1, <1>2, Inductive, PTL DEF Spec

\* If a graph lets its runs end, a run that neither waits for an approval nor has
\* a node to claim or to complete has a join that some, but not all, of its
\* sources have led to, or an approval that was left behind: nothing else stops
\* a run, whatever the graph and its expansions.
THEOREM Wedges ==
  ASSUME ~EarlyCalls, CanEnd
  PROVE  Spec => [](disk.status = "active" =>
                      In(disk, "ready") \cup In(disk, "running") # {}
                      \/ disk.pending # {} \/ \E n \in Node : Stalled(disk, n))
<1>1. IInv /\ WorkInv => (disk.status = "active" =>
                            In(disk, "ready") \cup In(disk, "running") # {}
                            \/ disk.pending # {} \/ \E n \in Node : Stalled(disk, n))
  <2>. SUFFICES ASSUME IInv, WorkInv, disk.status = "active"
                PROVE  \/ In(disk, "ready") \cup In(disk, "running") # {}
                       \/ disk.pending # {} \/ \E n \in Node : Stalled(disk, n)
    OBVIOUS
  <2>1. Busy(disk)
    BY DEF WorkInv, TokenInv, Live
  <2>2. disk.pending = In(disk, "waiting_approval")
    BY DEF IInv, RunInv
  <2>. QED
    BY <2>1, <2>2 DEF Busy, Awake, In
<1>. QED
  BY <1>1, WorkInductive, Inductive, PTL
-------------------------------------------------------------------------------
(* One thread of work *)

\* The graph of the run is the one it was started with.
Original(r) ==
  /\ r.edges = Graph.edges
  /\ \A n \in Node : r.join[n] = Graph.node[n].join /\ r.joinFrom[n] = Graph.node[n].joinFrom

\* Where the edges T lead, and from where they lead to j; what has led to j.
Targets(T) == {e.to : e \in T}
Coming(T, j) == {e.from : e \in {f \in T : f.to = j}}
Led(r, j) == {e.from : e \in r.node[j].incoming \cap Graph.edges}

Quiet(r, n) == r.node[n].status = "pending" => r.node[n].incoming = {}

\* With the edges T still to activate, the run is about to end ...
Ending(r, T) == ReadyEnd(r) \/ Targets(T) \cap Ends # {}

\* ... or all its work is at node m, which nothing holds up ...
SoloAt(r, T, m) ==
  /\ Awake(r) \cup Targets(T) = {m}
  /\ m \in AllJoins /\ m \notin Awake(r) =>
       r.node[m].attempts > 0 /\ \A e \in T : e \in Graph.edges /\ e.from \notin SourcesOf(m)
  /\ r.node[m].status = "waiting_approval" => r.status # "active"
  /\ \A n \in Node : Quiet(r, n)

\* ... or it has forked to the sources of join j: each of them has work to do or
\* has led to the join, and not both.
ForkedTo(r, T, j) ==
  /\ Awake(r) \cup Targets(T) # {}
  /\ Awake(r) \subseteq SourcesOf(j)
  /\ \A s \in Awake(r) : r.node[s].status # "waiting_approval"
  /\ \A e \in T : \/ e.to \in SourcesOf(j)
                  \/ /\ e.to = j /\ e \in Graph.edges
                     /\ e.from \in SourcesOf(j) \ (Awake(r) \cup Targets(T))
  /\ \A s \in SourcesOf(j) : \/ s \in Awake(r) \cup Targets(T) \cup Coming(T, j)
                             \/ r.node[j].status = "pending" /\ s \in Led(r, j)
  /\ r.node[j].status = "pending" =>
       SourcesOf(j) \cap Led(r, j) \cap (Awake(r) \cup Targets(T)) = {}
  /\ \A n \in Node \ {j} : Quiet(r, n)

Mode(r, T) ==
  \/ Ending(r, T)
  \/ \E m \in Listed \ AllSources : SoloAt(r, T, m)
  \/ \E j \in AllJoins : ForkedTo(r, T, j)

\* Nothing that comes after a join is reached before the join has been tried.
BeforeInv(r, T) ==
  \A j \in AllJoins : r.node[j].attempts = 0 =>
    \A n \in Node : r.node[n].status # "pending" \/ n \in Targets(T) => n \in Before(j) \cup Ends

\* What the graph's being threaded says of its joins and edges.
LEMMA ThreadFacts ==
  ASSUME Threaded
  PROVE  /\ AllJoins \subseteq Listed /\ AllJoins \cap AllSources = {} /\ AllJoins \cap Ends = {}
         /\ Listed \subseteq Node /\ Ends \subseteq Node
         /\ \A j \in AllJoins : SourcesOf(j) \subseteq AllSources /\ SourcesOf(j) \subseteq Node
         /\ \A s \in AllSources : ~Gated(s) /\ Graph.node[s].join = "any"
         /\ \A n \in Ends : ~Gated(n) /\ Graph.node[n].join = "any"
         /\ \A e \in Graph.edges : e.from \in Listed \ Ends /\ e.to \in Listed
         /\ Graph.entry \in Listed \ AllSources
         /\ \A j \in AllJoins : /\ Graph.entry \in Before(j)
                                /\ \A e \in Graph.edges : e.from \in Before(j) \ {j} => e.to \in Before(j)
<1>. DEFINE g == SpecOf(Listed, Graph.edges)
<1>1. /\ g.nodes = Listed /\ g.edges = Graph.edges /\ g.entry = Graph.entry
      /\ \A n \in Node : g.kind[n] = Graph.node[n].kind
  BY DEF SpecOf
<1>2. ValidGraphSpec(g)
  BY RuntimeAssumption DEF GraphAssumption
<1>. HIDE DEF g
<1>3. Listed \subseteq Node /\ Ends \subseteq Node /\ IsFiniteSet(Listed) /\ Graph.entry \in Listed
  BY GraphFacts, EndFacts, RuntimeAssumption, FS_Subset DEF GraphAssumption
<1>4. \A e \in Graph.edges : e.from \in Listed \ Ends /\ e.to \in Listed
  BY <1>1, <1>2, <1>3 DEF ValidGraphSpec, EdgesAreWellFormed, EdgesOut, Ends
<1>5. \A j \in AllJoins : SourcesOf(j) \subseteq AllSources
  BY DEF AllSources
<1>6. \A j \in AllJoins : SourcesOf(j) \subseteq Node
  BY <1>3, <1>4, GraphFacts DEF SourcesOf, AllJoins
<1>7. /\ \A s \in AllSources : ~Gated(s) /\ Graph.node[s].join = "any"
      /\ \A n \in Ends : ~Gated(n) /\ Graph.node[n].join = "any"
      /\ Graph.entry \notin AllSources
  BY DEF Threaded, CanEnd
<1>8. AllJoins \subseteq Listed /\ AllJoins \cap AllSources = {} /\ AllJoins \cap Ends = {}
  BY <1>7 DEF AllJoins
<1>9. ASSUME NEW j \in AllJoins
      PROVE  /\ Graph.entry \in Before(j)
             /\ \A e \in Graph.edges : e.from \in Before(j) \ {j} => e.to \in Before(j)
  <2>. DEFINE E == {e \in Graph.edges : e.from # j}
  <2>1. \A e \in E : e.from \in Listed /\ e.to \in Listed
    BY <1>4
  <2>2. Before(j) = Reachable(Listed, E, Graph.entry)
    BY DEF Before
  <2>. HIDE DEF E
  <2>3. Graph.entry \in Before(j) /\ Closed(E, Before(j))
    BY <1>3, <2>1, <2>2, ReachableIsLeast
  <2>. QED
    BY <2>3 DEF Closed, E
<1>. QED
  BY <1>3, <1>4, <1>5, <1>6, <1>7, <1>8, <1>9

\* Where route() may lead.
LEMMA RouteShape ==
  ASSUME Threaded, NEW n \in Node, NEW ctx \in Contexts(n)
  PROVE  LET S == Selected(Graph, n, ctx)
             targets == Targets(S)
         IN  /\ \A e \in S : e \in Graph.edges /\ e.from = n
             /\ \/ S = {} \/ targets \cap Ends # {}
                \/ n \in AllSources /\ \A j \in AllJoins : n \in SourcesOf(j) => targets = {j}
                \/ n \notin AllSources /\ \E j \in AllJoins : targets = SourcesOf(j)
                \/ n \notin AllSources /\ \E m \in Listed \ AllSources :
                     targets = {m} /\ (m \in AllJoins => n \notin Before(m))
<1>. DEFINE S == Selected(Graph, n, ctx)
<1>1. \A e \in S : e \in Graph.edges /\ e.from = n
  BY DEF Selected
<1>2. CASE n \in Listed
  <2>1. Targets(S) = {} => S = {}
    BY DEF Targets
  <2>. QED
    BY <1>1, <1>2, <2>1 DEF Threaded, Targets
<1>3. CASE n \notin Listed
  <2>1. S = {}
    BY <1>1, <1>3, ThreadFacts
  <2>. QED
    BY <1>1, <2>1
<1>. QED
  BY <1>2, <1>3

\* The contexts in which the mutators route.
LEMMA IsContext ==
  ASSUME NEW n \in Node, NEW outcome \in {"success", "failed", "blocked"},
         NEW route \in Routes \cup {"none", Graph.node[n].route},
         NEW approval \in {"none", "approved", "denied"}, NEW passed \in BOOLEAN,
         NEW failure \in FailureTypes \cup {"none", "design_error", "security_risk"},
         (outcome = "failed") <=> (failure # "none"),
         Graph.node[n].kind = "verify" /\ passed => outcome # "failed"
  PROVE  Context(n, outcome, [route |-> route, approval |-> approval], passed, failure)
           \in Contexts(n)
<1>. DEFINE ctx == Context(n, outcome, [route |-> route, approval |-> approval], passed, failure)
            O == {"success", "failed", "blocked"}
            W == Routes \cup {"none", Graph.node[n].route}
            A == {"none", "approved", "denied"}
            F == FailureTypes \cup {"none", "design_error", "security_risk"}
            S == {Context(n, o, [route |-> w, approval |-> a], p, f) :
                    o \in O, w \in W, a \in A, p \in BOOLEAN, f \in F}
<1>1. ctx.outcome = outcome /\ ctx.failure_type = failure
      /\ (ctx.verification = "passed" => Graph.node[n].kind = "verify" /\ passed)
  BY DEF Context
<1>2. outcome \in O /\ route \in W /\ approval \in A /\ failure \in F
  OBVIOUS
<1>3. Contexts(n) = {x \in S : /\ (x.outcome = "failed") <=> (x.failure_type # "none")
                               /\ x.verification = "passed" => x.outcome # "failed"}
  BY DEF Contexts
<1>. HIDE DEF O, W, A, F
<1>4. ctx \in S
  <2>1. \E o \in O, w \in W, a \in A, p \in BOOLEAN, f \in F :
          ctx = Context(n, o, [route |-> w, approval |-> a], p, f)
    BY <1>2, Zenon
  <2>. HIDE DEF ctx
  <2>. QED
    BY ONLY <2>1, SMT
<1>. HIDE DEF S, ctx
<1>5. ctx \in Contexts(n)
  BY <1>1, <1>3, <1>4
<1>. QED
  BY <1>5 DEF ctx

LEMMA AutoContext ==
  ASSUME NEW n \in Node
  PROVE  Context(n, "success", [route |-> Graph.node[n].route, approval |-> "none"], FALSE, "none")
           \in Contexts(n)
  BY IsContext

LEMMA AnswerContext ==
  ASSUME NEW n \in Node, NEW a \in Answers(n), NEW k
  PROVE  Context(n, a.outcome, [route |-> a.route, approval |-> "none"], a.passed,
                 Effective(a.failure, k)) \in Contexts(n)
<1>. DEFINE f == Effective(a.failure, k)
<1>1. /\ a.outcome \in {"success", "failed", "blocked"} /\ a.route \in Routes \cup {"none"}
      /\ a.passed \in BOOLEAN /\ a.failure \in FailureTypes \cup {"none"}
      /\ (a.outcome = "failed") <=> (a.failure # "none")
      /\ Graph.node[n].kind # "verify" \/ a.outcome = "failed" => ~a.passed
  BY DEF Answers
<1>2. /\ f \in FailureTypes \cup {"none", "design_error", "security_risk"}
      /\ (f # "none") <=> (a.failure # "none")
  BY <1>1 DEF Effective
<1>. HIDE DEF f
<1>3. Context(n, a.outcome, [route |-> a.route, approval |-> "none"], a.passed, f) \in Contexts(n)
  BY <1>1, <1>2, IsContext
<1>. QED
  BY <1>3 DEF f

LEMMA ApprovalContext ==
  ASSUME NEW n \in Node, NEW d \in {"approved", "denied"}
  PROVE  Context(n, IF d = "approved" THEN "success" ELSE "blocked",
                 [route |-> "none", approval |-> d], FALSE, "none") \in Contexts(n)
<1>. DEFINE o == IF d = "approved" THEN "success" ELSE "blocked"
<1>1. o \in {"success", "failed", "blocked"} /\ o # "failed"
  OBVIOUS
<1>. HIDE DEF o
<1>2. Context(n, o, [route |-> "none", approval |-> d], FALSE, "none") \in Contexts(n)
  BY <1>1, IsContext
<1>. QED
  BY <1>2 DEF o

\* A record that moves keeps BeforeInv; fewer edges to activate do no harm, nor
\* do edges to terminals.
LEMMA KeptBefore ==
  ASSUME NEW r \in Record, NEW s \in Record, Kept(r, s), NEW T, BeforeInv(r, T),
         NEW U, Targets(U) \subseteq Targets(T) \cup Ends
  PROVE  BeforeInv(s, U)
<1>1. \A n \in Node : r.node[n].attempts \in Nat /\ s.node[n].attempts \in Nat
  BY DEF Record
<1>2. \A n \in Node : s.node[n].attempts = 0 => r.node[n].attempts = 0
  BY <1>1 DEF Kept
<1>3. AllJoins \subseteq Node
  BY GraphFacts DEF AllJoins
<1>. QED
  BY <1>2, <1>3 DEF BeforeInv, Kept

\* Nothing is awake at a node that is done, and so on.
LEMMA AwakeFacts ==
  ASSUME NEW r \in Record
  PROVE  /\ Awake(r) \subseteq Node
         /\ \A n \in Node : n \in Awake(r) <=> r.node[n].status \notin Done \cup {"pending"}
<1>1. \A n \in Node : r.node[n].status \in NodeStatus
  BY DEF Record
<1>. QED
  BY <1>1 DEF Awake, NodeStatus, Done

LEMMA FinishedAwake ==
  ASSUME NEW r \in Record, NEW s \in Record, NEW n \in Node, Finishes(r, s, n)
  PROVE  /\ Awake(s) = Awake(r) \ {n}
         /\ \A m \in Node : Quiet(r, m) => Quiet(s, m)
<1>1. \A m \in Node : m \in Awake(s) <=> m \in Awake(r) \ {n}
  BY AwakeFacts DEF Finishes
<1>. QED
  BY <1>1, AwakeFacts DEF Finishes, Quiet, Done

\* The edges that lead on from a node that is done.
LEMMA LeadsOn ==
  ASSUME Threaded, NEW r \in Record, NEW s \in Record, NEW n \in Node, n \in Awake(r),
         Finishes(r, s, n), Mode(r, {}), BeforeInv(r, {}), r.status \in Live,
         NEW ctx \in Contexts(n), NEW S, S = Selected(Graph, n, ctx), S # {}
  PROVE  Mode(s, S)
<1>. DEFINE targets == Targets(S)
<1>1. /\ \A e \in S : e \in Graph.edges /\ e.from = n
      /\ \/ targets \cap Ends # {}
         \/ n \in AllSources /\ \A j \in AllJoins : n \in SourcesOf(j) => targets = {j}
         \/ n \notin AllSources /\ \E j \in AllJoins : targets = SourcesOf(j)
         \/ n \notin AllSources /\ \E m \in Listed \ AllSources :
              targets = {m} /\ (m \in AllJoins => n \notin Before(m))
  BY RouteShape
<1>2. targets # {} /\ \A e \in S : e.to \in targets
  BY DEF Targets
<1>3. /\ Awake(s) = Awake(r) \ {n}
      /\ \A m \in Node : Quiet(r, m) => Quiet(s, m)
  BY FinishedAwake
<1>. HIDE DEF targets
<1>4. CASE targets \cap Ends # {}
  BY <1>4 DEF Mode, Ending, targets
<1>5. CASE Ending(r, {})
  <2>1. PICK t \in Ends : r.node[t].status = "ready"
    BY <1>5 DEF Ending, ReadyEnd, Targets
  <2>2. CASE t # n
    <3>1. s.node[t].status = "ready"
      BY <2>1, <2>2, ThreadFacts DEF Finishes
    <3>. QED
      BY <3>1 DEF Mode, Ending, ReadyEnd
  <2>3. CASE t = n
    <3>1. S = {}
      BY <1>1, <2>1, <2>3, ThreadFacts
    <3>. QED
      BY <3>1
  <2>. QED
    BY <2>2, <2>3
<1>6. ASSUME NEW m \in Listed \ AllSources, SoloAt(r, {}, m), targets \cap Ends = {}
      PROVE  Mode(s, S)
  <2>1. Awake(r) = {m} /\ m = n
    BY <1>6 DEF SoloAt, Targets
  <2>2. Awake(s) = {} /\ \A k \in Node : Quiet(s, k)
    BY <1>3, <1>6, <2>1 DEF SoloAt
  <2>3. ASSUME NEW j \in AllJoins, targets = SourcesOf(j) PROVE ForkedTo(s, S, j)
    <3>1. s.node[j].status = "pending" => Led(s, j) = {}
      BY <2>2, ThreadFacts DEF Quiet, Led
    <3>. QED
      BY <1>2, <2>2, <2>3, <3>1 DEF ForkedTo, targets
  <2>4. ASSUME NEW k \in Listed \ AllSources, targets = {k}, k \in AllJoins => n \notin Before(k)
        PROVE  SoloAt(s, S, k)
    <3>1. k \in Node /\ s.node[k].status # "waiting_approval"
      BY <2>2, ThreadFacts DEF Awake
    <3>2. k \in AllJoins => s.node[k].attempts > 0
      <4>1. SUFFICES ASSUME k \in AllJoins, ~(s.node[k].attempts > 0) PROVE FALSE
        OBVIOUS
      <4>2. s.node[k].attempts = 0
        BY <3>1, <4>1 DEF Record
      <4>3. k # n /\ r.node[k].attempts = 0
        BY <3>1, <4>1, <4>2 DEF Finishes
      <4>4. n \in Before(k) \cup Ends
        BY <4>1, <4>3, AwakeFacts DEF BeforeInv
      <4>5. n \in Ends
        BY <2>4, <4>1, <4>4
      <4>. QED
        BY <1>1, <1>2, <4>5, ThreadFacts DEF targets, Targets
    <3>3. k \in AllJoins => n \notin SourcesOf(k)
      BY <1>6, <2>1, ThreadFacts
    <3>. QED
      BY <1>1, <2>2, <2>4, <3>1, <3>2, <3>3 DEF SoloAt, targets
  <2>. QED
    BY <1>1, <1>6, <2>1, <2>3, <2>4 DEF Mode
<1>7. ASSUME NEW j \in AllJoins, ForkedTo(r, {}, j), targets \cap Ends = {}
      PROVE  Mode(s, S)
  <2>1. n \in SourcesOf(j) /\ Awake(r) \subseteq SourcesOf(j)
    BY <1>7 DEF ForkedTo
  <2>2. targets = {j} /\ j \in Node /\ j \notin SourcesOf(j) /\ j # n /\ SourcesOf(j) \subseteq Node
    BY <1>1, <1>7, <2>1, ThreadFacts
  <2>3. s.node[j] = r.node[j]
    BY <2>2 DEF Finishes
  <2>4. \A e \in S : e.to = j /\ e \in Graph.edges /\ e.from = n
    BY <1>1, <1>2, <2>2
  <2>5. Coming(S, j) = {n}
    BY <1>2, <2>2, <2>4 DEF Coming, targets, Targets
  <2>6. Led(s, j) = Led(r, j)
    BY <2>3 DEF Led
  <2>7. Awake(s) \cup targets # {} /\ Awake(s) \subseteq SourcesOf(j)
        /\ \A e \in S : e.from \in SourcesOf(j) \ (Awake(s) \cup targets)
    BY <1>2, <1>3, <2>1, <2>2, <2>4
  <2>8. \A k \in Awake(s) : s.node[k].status # "waiting_approval"
    BY <1>3, <1>7, AwakeFacts DEF ForkedTo, Finishes
  <2>9. \A k \in SourcesOf(j) : \/ k \in Awake(s) \cup targets \cup Coming(S, j)
                                \/ s.node[j].status = "pending" /\ k \in Led(s, j)
    BY <1>3, <1>7, <2>3, <2>5, <2>6 DEF ForkedTo, Targets, Coming
  <2>10. s.node[j].status = "pending" =>
           SourcesOf(j) \cap Led(s, j) \cap (Awake(s) \cup targets) = {}
    BY <1>3, <1>7, <2>2, <2>3, <2>6 DEF ForkedTo
  <2>. QED
    BY <1>3, <1>7, <2>2, <2>4, <2>7, <2>8, <2>9, <2>10 DEF ForkedTo, Mode, targets
<1>. QED
  BY <1>4, <1>5, <1>6, <1>7 DEF Mode

\* What holds of a record of a run that has not been expanded.
Course(r, T) ==
  /\ Original(r)
  /\ r.status \in Live => Mode(r, T)
  /\ BeforeInv(r, T)

LEMMA KeptOriginal ==
  ASSUME NEW r, NEW s, Original(r), Kept(r, s)
  PROVE  Original(s)
  BY DEF Original, Kept

\* Routing from a node that is done.
LEMMA RouteCourse ==
  ASSUME Threaded, NEW r \in Record, NEW s \in Record, NEW n \in Node, n \in Awake(r) \ Ends,
         Finishes(r, s, n), Kept(r, s), Course(r, {}), r.status \in Live,
         NEW ctx \in Contexts(n), Route(s, n, ctx), run' \in Record
  PROVE  Course(run', todo')
<1>. DEFINE S == Selected(Graph, n, ctx)
<1>1. Original(s)
  BY KeptOriginal DEF Course
<1>2. Selected(s, n, ctx) = S
  BY <1>1 DEF Original, Selected
<1>3. \/ S # {} /\ run' = s /\ todo' = S
      \/ run' = s /\ Targets(todo') \cap Ends # {} /\ Targets(todo') \subseteq Ends
      \/ run' = [s EXCEPT !.status = "failed"] /\ todo' = {}
  <2>1. CASE S = {} /\ Terminals("failed") # {}
    <3>. DEFINE F == FirstOf(Terminals("failed"))
    <3>1. F # {} /\ F \subseteq Ends
      BY <2>1, FirstOfSome DEF Terminals, FirstOf, Ends
    <3>2. run' = s /\ todo' = {Synthetic(n, t) : t \in F}
      BY <1>2, <2>1 DEF Route
    <3>3. \A t : Synthetic(n, t).to = t
      BY DEF Synthetic
    <3>. HIDE DEF F
    <3>4. Targets(todo') = F
      BY <3>2, <3>3 DEF Targets
    <3>. QED
      BY <3>1, <3>2, <3>4
  <2>. QED
    BY <1>2, <2>1 DEF Route
<1>4. CASE S # {} /\ run' = s /\ todo' = S
  <2>1. Mode(s, S)
    BY <1>4, LeadsOn DEF Course
  <2>2. BeforeInv(s, S)
    <3>1. \A e \in S : e \in Graph.edges /\ e.from = n
      BY DEF Selected
    <3>2. \A m \in Targets(S) : \E e \in S : e.to = m
      BY DEF Targets
    <3>3. SUFFICES ASSUME NEW j \in AllJoins, s.node[j].attempts = 0,
                          NEW m \in Node, s.node[m].status # "pending" \/ m \in Targets(S)
                   PROVE  m \in Before(j) \cup Ends
      BY DEF BeforeInv
    <3>4. j \in Node /\ j # n
      BY <3>3, ThreadFacts DEF Finishes
    <3>5. r.node[j].attempts = 0
      BY <3>3, <3>4 DEF Finishes
    <3>6. \A k \in Node : r.node[k].status # "pending" => k \in Before(j) \cup Ends
      BY <3>5 DEF Course, BeforeInv
    <3>7. CASE s.node[m].status # "pending"
      BY <3>6, <3>7 DEF Kept
    <3>8. CASE m \in Targets(S)
      <4>1. n \in Before(j) \ {j}
        BY <3>4, <3>6, AwakeFacts
      <4>. QED
        BY <3>1, <3>2, <3>8, <4>1, ThreadFacts
    <3>. QED
      BY <3>3, <3>7, <3>8
  <2>. QED
    BY <1>1, <1>4, <2>1, <2>2 DEF Course
<1>5. CASE run' = s /\ Targets(todo') \cap Ends # {} /\ Targets(todo') \subseteq Ends
  <2>1. BeforeInv(run', todo')
    BY <1>5, KeptBefore DEF Course
  <2>. QED
    BY <1>1, <1>5, <2>1 DEF Course, Mode, Ending
<1>6. CASE run' = [s EXCEPT !.status = "failed"] /\ todo' = {}
  <2>1. /\ run'.status = "failed" /\ run'.node = s.node /\ run'.edges = s.edges
        /\ run'.join = s.join /\ run'.joinFrom = s.joinFrom
    BY <1>6 DEF Record
  <2>2. BeforeInv(s, {})
    BY KeptBefore DEF Course
  <2>3. BeforeInv(run', todo')
    BY <1>6, <2>1, <2>2 DEF BeforeInv
  <2>. QED
    BY <1>1, <2>1, <2>3 DEF Course, Original, Live
<1>. QED
  BY <1>3, <1>4, <1>5, <1>6

\* The run gives up on the target of an edge.
LEMMA GiveUpCourse ==
  ASSUME Threaded, IInv, TokenInv, Course(run, todo), NEW e \in todo, GiveUp(e)
  PROVE  Course(run', todo')
<1>1. /\ run' = run /\ run \in Record /\ phase = "activate"
      /\ e.to \in Node /\ run.node[e.to].status \in Done
      /\ todo' = (todo \ {e}) \cup {Synthetic(e.to, t) : t \in Fallback \ {e.to}}
  BY DEF GiveUp, Exhausted, IInv, RunInv, Rest, Edge
<1>2. run.status \in Live
  BY <1>1 DEF TokenInv
<1>3. e.to \notin Ends
  BY <1>1, <1>2 DEF TokenInv, EndsInv
<1>4. CanEnd
  BY DEF Threaded
<1>5. Fallback # {} /\ Fallback \subseteq Ends
  BY <1>4, FallbackSome
<1>6. \A t : Synthetic(e.to, t).to = t
  BY DEF Synthetic
<1>7. Targets(todo') \subseteq Targets(todo) \cup Ends
  BY <1>1, <1>5, <1>6 DEF Targets
<1>8. Targets(todo') \cap Ends # {}
  BY <1>1, <1>3, <1>5, <1>6 DEF Targets
<1>9. Kept(run, run)
  BY <1>1, SameKept DEF Moved
<1>10. BeforeInv(run, todo')
  BY <1>1, <1>7, <1>9, KeptBefore DEF Course
<1>. QED
  BY <1>1, <1>8, <1>10 DEF Course, Mode, Ending

\* The target of edge e is entered if e is activated in record r.
Entered(r, e) ==
  LET n == e.to
      x == r.node[n]
      incoming == (IF x.status \in Done THEN {} ELSE x.incoming) \cup {e}
  IN  \/ Graph.node[n].join = "any"
      \/ x.attempts > 0 /\ Graph.node[n].joinFrom # {} /\ e.from \notin Graph.node[n].joinFrom
      \/ SourcesOf(n) \subseteq {f.from : f \in incoming \cap Graph.edges}

\* What activating edge e makes of the record: its target works already, or it
\* waits for more edges, or it is woken up.
LEMMA ActivatedRecord ==
  ASSUME IInv, TokenInv, Original(run), NEW e \in todo, Activate(e)
  PROVE  LET n == e.to
             x == run.node[n]
             y == run'.node[n]
             st == IF Gated(n) THEN "waiting_approval" ELSE "ready"
         IN  /\ n \in Node /\ run.status \in Live /\ todo' = todo \ {e}
             /\ Kept(run, Note(run, e)) /\ Original(run') /\ run'.status \in Live
             /\ \A m \in Node \ {n} : run'.node[m] = run.node[m]
             /\ y.attempts = x.attempts
             /\ y.incoming = (IF x.status \in Done THEN {} ELSE x.incoming) \cup {e}
             /\ \/ n \in Awake(run) /\ y.status = x.status /\ run'.status = run.status
                \/ /\ n \notin Awake(run) /\ ~Entered(run, e)
                   /\ y.status = "pending" /\ run'.status = run.status
                \/ /\ n \notin Awake(run) /\ Entered(run, e) /\ y.status = st
                   /\ run'.status = IF Gated(n) THEN "waiting_approval" ELSE run.status
<1>. DEFINE r == Note(run, e)
            n == e.to
            x == run.node[n]
            incoming == (IF x.status \in Done THEN {} ELSE x.incoming) \cup {e}
<1>1. /\ run \in Record /\ e \in Edge /\ n \in Node /\ phase = "activate" /\ todo' = todo \ {e}
      /\ run' = IF JoinReady(r, n, e.from) /\ r.node[n].status = "pending" THEN Wake(r, n) ELSE r
  BY DEF IInv, RunInv, Rest, Edge, Activate
<1>2. run.status \in Live
  BY <1>1 DEF TokenInv
<1>3. /\ r \in Record /\ Kept(run, r) /\ r.status = run.status
      /\ \A m \in Node \ {n} : r.node[m] = run.node[m]
      /\ r.node[n].status = IF x.status \in Done THEN "pending" ELSE x.status
      /\ r.node[n].attempts = x.attempts /\ r.node[n].incoming = incoming
  BY <1>1, NoteKept, NotedRecord DEF Moved
<1>4. Original(r)
  BY <1>3, KeptOriginal
<1>5. n \in Awake(run) <=> r.node[n].status # "pending"
  BY <1>1, <1>3, AwakeFacts
<1>6. JoinReady(r, n, e.from) <=> Entered(run, e)
  <2>1. /\ r.edges = Graph.edges /\ r.join[n] = Graph.node[n].join
        /\ r.joinFrom[n] = Graph.node[n].joinFrom
    BY <1>1, <1>4 DEF Original
  <2>. QED
    BY <1>3, <2>1 DEF JoinReady, Entered, SourcesOf
<1>7. run'.status \in Live /\ Original(run')
  <2>1. CASE run' = r
    BY <1>2, <1>3, <1>4, <2>1
  <2>2. CASE run' = Wake(r, n)
    <3>1. /\ run'.join = r.join /\ run'.joinFrom = r.joinFrom /\ run'.edges = r.edges
          /\ run'.status = IF Gated(n) THEN "waiting_approval" ELSE r.status
      BY <1>1, <1>3, <2>2, WokenRecord, WokenStatus
    <3>. QED
      BY <1>2, <1>3, <1>4, <3>1 DEF Live, Original
  <2>. QED
    BY <1>1, <2>1, <2>2
<1>. HIDE DEF r, n, x, incoming
<1>8. CASE n \in Awake(run)
  <2>1. run' = r /\ r.node[n].status = x.status
    BY <1>1, <1>3, <1>5, <1>8, AwakeFacts DEF x
  <2>. QED
    BY <1>1, <1>2, <1>3, <1>7, <1>8, <2>1 DEF r, n, x, incoming
<1>9. CASE n \notin Awake(run) /\ ~Entered(run, e)
  <2>1. run' = r
    BY <1>1, <1>6, <1>9
  <2>. QED
    BY <1>1, <1>2, <1>3, <1>5, <1>7, <1>9, <2>1 DEF r, n, x, incoming
<1>10. CASE n \notin Awake(run) /\ Entered(run, e)
  <2>1. run' = Wake(r, n)
    BY <1>1, <1>5, <1>6, <1>10
  <2>2. /\ run'.status = IF Gated(n) THEN "waiting_approval" ELSE r.status
        /\ run'.node[n].status = IF Gated(n) THEN "waiting_approval" ELSE "ready"
        /\ run'.node[n].attempts = r.node[n].attempts
        /\ run'.node[n].incoming = r.node[n].incoming
        /\ \A m \in Node \ {n} : run'.node[m] = r.node[m]
    BY <1>1, <1>3, <2>1, WokenRecord, WokenStatus
  <2>. QED
    BY <1>1, <1>2, <1>3, <1>7, <1>10, <2>2 DEF r, n, x, incoming
<1>. QED
  BY <1>8, <1>9, <1>10

\* A source of a join is entered when an edge to it is activated, and the join when
\* the edge comes from the last of its sources.
LEMMA ActivateForked ==
  ASSUME Threaded, IInv, TokenInv, Course(run, todo), NEW e \in todo, Activate(e),
         NEW j \in AllJoins, ForkedTo(run, todo, j)
  PROVE  Mode(run', todo')
<1>. DEFINE n == e.to
            T == todo \ {e}
            srcs == SourcesOf(j)
            incoming == (IF run.node[n].status \in Done THEN {} ELSE run.node[n].incoming) \cup {e}
<1>1. /\ n \in Node /\ todo' = T /\ run.status \in Live /\ run'.status \in Live
      /\ \A m \in Node \ {n} : run'.node[m] = run.node[m]
      /\ run'.node[n].attempts = run.node[n].attempts
      /\ run'.node[n].incoming = incoming
      /\ \/ n \in Awake(run) /\ run'.node[n].status = run.node[n].status /\ run'.status = run.status
         \/ /\ n \notin Awake(run) /\ ~Entered(run, e)
            /\ run'.node[n].status = "pending" /\ run'.status = run.status
         \/ /\ n \notin Awake(run) /\ Entered(run, e)
            /\ run'.node[n].status = IF Gated(n) THEN "waiting_approval" ELSE "ready"
            /\ run'.status = IF Gated(n) THEN "waiting_approval" ELSE run.status
  BY ActivatedRecord DEF Course
<1>2. run \in Record /\ run' \in Record
  BY Step, Zenon DEF IInv, RunInv, Next, Mutator
<1>3. /\ j \in Node /\ j \in Listed \ AllSources /\ j \notin srcs
      /\ srcs \subseteq Node /\ srcs \subseteq AllSources
  BY ThreadFacts
<1>4. /\ \A t \in Targets(todo) : t = n \/ t \in Targets(T)
      /\ n \in Targets(todo) /\ Targets(T) \subseteq Targets(todo)
  BY DEF Targets
<1>5. /\ Awake(run) \subseteq srcs
      /\ \A s \in Awake(run) : run.node[s].status # "waiting_approval"
      /\ \A f \in todo : \/ f.to \in srcs
                         \/ /\ f.to = j /\ f \in Graph.edges
                            /\ f.from \in srcs \ (Awake(run) \cup Targets(todo))
      /\ \A s \in srcs : \/ s \in Awake(run) \cup Targets(todo) \cup Coming(todo, j)
                         \/ run.node[j].status = "pending" /\ s \in Led(run, j)
      /\ run.node[j].status = "pending" =>
           srcs \cap Led(run, j) \cap (Awake(run) \cup Targets(todo)) = {}
      /\ \A m \in Node \ {j} : Quiet(run, m)
  BY DEF ForkedTo
<1>6. \A m \in Node : /\ m \in Awake(run) <=> run.node[m].status \notin Done \cup {"pending"}
                      /\ m \in Awake(run') <=> run'.node[m].status \notin Done \cup {"pending"}
  BY <1>2, AwakeFacts
<1>. HIDE DEF n, T, srcs
<1>7. Awake(run') \subseteq Node /\ \A m \in Node \ {n} : m \in Awake(run') <=> m \in Awake(run)
  BY <1>1, <1>2, <1>6, AwakeFacts
<1>8. CASE n \in srcs
  <2>1. ~Gated(n) /\ Graph.node[n].join = "any" /\ n # j
    BY <1>3, <1>8, ThreadFacts
  <2>2. Entered(run, e)
    BY <2>1 DEF Entered, n
  <2>3. run'.node[n].status \in {"ready", run.node[n].status} /\ n \in Awake(run')
        /\ run'.node[n].status # "waiting_approval"
    BY <1>1, <1>5, <1>6, <2>1, <2>2 DEF Done
  <2>4. Awake(run') = Awake(run) \cup {n}
    BY <1>1, <1>2, <1>7, <2>3, AwakeFacts
  <2>5. run'.node[j] = run.node[j] /\ Led(run', j) = Led(run, j)
    BY <1>1, <1>3, <2>1 DEF Led
  <2>6. Coming(T, j) = Coming(todo, j)
    BY <2>1 DEF Coming, T, n
  <2>7. Awake(run') \cup Targets(T) = Awake(run) \cup Targets(todo)
    BY <1>4, <2>4
  <2>8. \A s \in Awake(run') : run'.node[s].status # "waiting_approval"
    BY <1>1, <1>3, <1>5, <2>3, <2>4
  <2>9. \A m \in Node \ {j} : Quiet(run', m)
    BY <1>1, <1>5, <1>6, <2>3 DEF Quiet
  <2>10. Awake(run') # {} /\ Awake(run') \subseteq srcs
    BY <1>5, <1>8, <2>4
  <2>11. \A f \in T : f \in todo
    BY DEF T
  <2>12. ForkedTo(run', T, j)
    BY <1>5, <2>5, <2>6, <2>7, <2>8, <2>9, <2>10, <2>11 DEF ForkedTo, srcs
  <2>. QED
    BY <1>1, <2>12 DEF Mode
<1>9. CASE n = j
  <2>1. e \in Graph.edges /\ e.from \in srcs \ (Awake(run) \cup Targets(todo))
    BY <1>3, <1>5, <1>9 DEF n
  <2>2. j \notin Awake(run) /\ run.node[j].status \in Done \cup {"pending"}
    BY <1>3, <1>5, <1>6
  <2>3. Led(run', j) = (IF run.node[j].status \in Done THEN {} ELSE Led(run, j)) \cup {e.from}
    <3>1. run'.node[j].incoming =
            (IF run.node[j].status \in Done THEN {} ELSE run.node[j].incoming) \cup {e}
      BY <1>1, <1>9
    <3>. QED
      BY <2>1, <3>1 DEF Led
  <2>4. Entered(run, e) <=> srcs \subseteq Led(run', j)
    <3>1. Graph.node[j].join = "all"
      BY DEF AllJoins
    <3>2. Graph.node[j].joinFrom # {} => e.from \in Graph.node[j].joinFrom
      BY <2>1 DEF SourcesOf, srcs
    <3>3. Led(run', j) = {f.from : f \in incoming \cap Graph.edges}
      BY <1>1, <1>9 DEF Led
    <3>. QED
      BY <1>9, <3>1, <3>2, <3>3 DEF Entered, srcs, n
  <2>5. \A s \in srcs \cap Led(run', j) : s \notin Awake(run) \cup Targets(todo)
    <3>1. SUFFICES ASSUME NEW s \in srcs \cap Led(run', j), s # e.from
                   PROVE  s \notin Awake(run) \cup Targets(todo)
      BY <2>1
    <3>2. run.node[j].status = "pending" /\ s \in Led(run, j)
      BY <2>2, <2>3, <3>1
    <3>. QED
      BY <1>5, <3>1, <3>2
  <2>6. CASE Entered(run, e)
    <3>1. /\ run'.node[j].status = IF Gated(j) THEN "waiting_approval" ELSE "ready"
          /\ run'.status = IF Gated(j) THEN "waiting_approval" ELSE run.status
      BY <1>1, <1>9, <2>2, <2>6
    <3>2. j \in Awake(run')
      BY <1>3, <1>6, <3>1 DEF Done
    <3>3. Awake(run') = {j}
      BY <1>5, <1>7, <1>9, <2>4, <2>5, <2>6, <3>2
    <3>4. Targets(T) \subseteq {j}
      <4>1. SUFFICES ASSUME NEW f \in T, f.to # j PROVE FALSE
        BY DEF Targets
      <4>2. f.to \in srcs /\ f.to \in Targets(todo)
        BY <1>5, <4>1 DEF T, Targets
      <4>. QED
        BY <2>4, <2>5, <2>6, <4>2
    <3>5. \A m \in Node : Quiet(run', m)
      BY <1>1, <1>5, <1>9, <3>1 DEF Quiet
    <3>6. SoloAt(run', T, j)
      BY <3>1, <3>2, <3>3, <3>4, <3>5 DEF SoloAt
    <3>. QED
      BY <1>1, <1>3, <3>6 DEF Mode
  <2>7. CASE ~Entered(run, e)
    <3>1. run'.node[j].status = "pending" /\ run'.status = run.status
      BY <1>1, <1>9, <2>2, <2>7
    <3>2. Awake(run') = Awake(run)
      BY <1>2, <1>3, <1>6, <1>7, <1>9, <2>2, <3>1, AwakeFacts
    <3>3. Coming(todo, j) \subseteq Coming(T, j) \cup {e.from}
      BY DEF Coming, T
    <3>4. Led(run, j) \subseteq Led(run', j) \/ run.node[j].status \in Done
      BY <2>3
    <3>5. \A s \in srcs : \/ s \in Awake(run') \cup Targets(T) \cup Coming(T, j)
                          \/ s \in Led(run', j)
      <4>1. SUFFICES ASSUME NEW s \in srcs, s \notin Led(run', j), s \notin Awake(run')
                     PROVE  s \in Targets(T) \cup Coming(T, j)
        OBVIOUS
      <4>2. s # e.from
        BY <2>3, <4>1
      <4>3. s \in Targets(todo) \cup Coming(todo, j)
        BY <1>5, <2>2, <3>2, <3>4, <4>1 DEF Done
      <4>. QED
        BY <1>3, <1>4, <1>9, <3>3, <4>1, <4>2, <4>3
    <3>6. Awake(run') \cup Targets(T) # {}
      <4>1. PICK s \in srcs : s \notin Led(run', j)
        BY <2>4, <2>7
      <4>2. s \in Awake(run') \cup Targets(T) \cup Coming(T, j)
        BY <3>5, <4>1
      <4>3. Coming(T, j) # {} => Targets(T) # {}
        BY DEF Coming, Targets
      <4>. QED
        BY <4>2, <4>3
    <3>7. \A f \in T : \/ f.to \in srcs
                       \/ /\ f.to = j /\ f \in Graph.edges
                          /\ f.from \in srcs \ (Awake(run') \cup Targets(T))
      BY <1>4, <1>5, <3>2 DEF T
    <3>8. srcs \cap Led(run', j) \cap (Awake(run') \cup Targets(T)) = {}
      BY <1>4, <2>5, <3>2
    <3>9. \A s \in Awake(run') : run'.node[s].status # "waiting_approval"
      BY <1>1, <1>3, <1>5, <1>9, <3>2
    <3>10. \A m \in Node \ {j} : Quiet(run', m)
      BY <1>1, <1>5, <1>9 DEF Quiet
    <3>11. ForkedTo(run', T, j)
      BY <1>5, <3>1, <3>2, <3>5, <3>6, <3>7, <3>8, <3>9, <3>10 DEF ForkedTo, srcs
    <3>. QED
      BY <1>1, <3>11 DEF Mode
  <2>. QED
    BY <2>6, <2>7
<1>. QED
  BY <1>5, <1>8, <1>9 DEF n

LEMMA ActivateSolo ==
  ASSUME Threaded, IInv, TokenInv, Course(run, todo), NEW e \in todo, Activate(e),
         NEW m \in Listed \ AllSources, SoloAt(run, todo, m)
  PROVE  Mode(run', todo')
<1>. DEFINE T == todo \ {e}
<1>1. e.to = m /\ Awake(run) \subseteq {m}
  BY DEF SoloAt, Targets
<1>2. /\ m \in Node /\ todo' = T /\ run.status \in Live
      /\ \A k \in Node \ {m} : run'.node[k] = run.node[k]
      /\ run'.node[m].attempts = run.node[m].attempts
      /\ run'.node[m].incoming = (IF run.node[m].status \in Done THEN {} ELSE run.node[m].incoming) \cup {e}
      /\ \/ m \in Awake(run) /\ run'.node[m].status = run.node[m].status /\ run'.status = run.status
         \/ /\ m \notin Awake(run) /\ ~Entered(run, e)
            /\ run'.node[m].status = "pending" /\ run'.status = run.status
         \/ /\ m \notin Awake(run) /\ Entered(run, e)
            /\ run'.node[m].status = IF Gated(m) THEN "waiting_approval" ELSE "ready"
            /\ run'.status = IF Gated(m) THEN "waiting_approval" ELSE run.status
  BY <1>1, ActivatedRecord DEF Course
<1>3. run \in Record /\ run' \in Record
  BY Step, Zenon DEF IInv, RunInv, Next, Mutator
<1>4. Targets(T) \subseteq {m}
  BY DEF SoloAt, Targets
<1>. HIDE DEF T
<1>5. m \notin Awake(run) => Entered(run, e)
  <2>1. CASE m \notin AllJoins
    BY <1>1, <1>2, <2>1, GraphFacts DEF AllJoins, Entered
  <2>2. CASE m \in AllJoins /\ m \notin Awake(run)
    <3>1. run.node[m].attempts > 0 /\ e \in Graph.edges /\ e.from \notin SourcesOf(m)
      BY <2>2 DEF SoloAt
    <3>2. Graph.node[m].joinFrom # {} /\ e.from \notin Graph.node[m].joinFrom
      BY <1>1, <3>1 DEF SourcesOf
    <3>. QED
      BY <1>1, <3>1, <3>2 DEF Entered
  <2>. QED
    BY <2>1, <2>2
<1>6. /\ run'.node[m].status \in {"ready", "waiting_approval", "running"}
      /\ run'.node[m].status = "waiting_approval" => run'.status # "active"
  BY <1>2, <1>5 DEF Awake, SoloAt
<1>7. Awake(run') = {m}
  BY <1>1, <1>2, <1>6 DEF Awake
<1>8. \A k \in Node : Quiet(run', k)
  BY <1>2, <1>6 DEF SoloAt, Quiet
<1>9. SoloAt(run', T, m)
  BY <1>4, <1>6, <1>7, <1>8 DEF SoloAt
<1>. QED
  BY <1>2, <1>9 DEF Mode

LEMMA ActivateCourse ==
  ASSUME Threaded, IInv, TokenInv, Course(run, todo), NEW e \in todo, Activate(e)
  PROVE  Course(run', todo')
<1>. DEFINE n == e.to
            T == todo \ {e}
<1>1. /\ n \in Node /\ todo' = T /\ run.status \in Live /\ run'.status \in Live /\ Original(run')
      /\ \A m \in Node \ {n} : run'.node[m] = run.node[m]
      /\ run'.node[n].attempts = run.node[n].attempts
      /\ \/ n \in Awake(run) /\ run'.node[n].status = run.node[n].status
         \/ /\ n \notin Awake(run) /\ ~Entered(run, e)
         \/ /\ n \notin Awake(run) /\ Entered(run, e)
            /\ run'.node[n].status = IF Gated(n) THEN "waiting_approval" ELSE "ready"
  BY ActivatedRecord DEF Course
<1>2. n \in Targets(todo) /\ (\A t \in Targets(todo) : t = n \/ t \in Targets(T))
      /\ Targets(T) \subseteq Targets(todo)
  BY DEF Targets
<1>. HIDE DEF n, T
<1>3. BeforeInv(run', todo')
  <2>1. AllJoins \subseteq Node
    BY ThreadFacts
  <2>. QED
    BY <1>1, <1>2, <2>1 DEF Course, BeforeInv
<1>4. ASSUME Ending(run, todo) PROVE Mode(run', todo')
  <2>1. CASE n \in Ends
    <3>1. Entered(run, e) /\ ~Gated(n)
      BY <2>1, ThreadFacts DEF Entered, n
    <3>2. run.node[n].status \in NodeStatus /\ run.node[n].status \notin {"running", "waiting_approval"}
      BY <1>1, <2>1 DEF IInv, RunInv, Record, TokenInv, EndsInv
    <3>3. run'.node[n].status = "ready"
      BY <1>1, <3>1, <3>2 DEF Awake
    <3>. QED
      BY <2>1, <3>3 DEF Mode, Ending, ReadyEnd
  <2>2. CASE n \notin Ends
    <3>1. ReadyEnd(run) => ReadyEnd(run')
      BY <1>1, <2>2, EndFacts DEF ReadyEnd
    <3>2. Targets(todo) \cap Ends # {} => Targets(T) \cap Ends # {}
      BY <1>2, <2>2
    <3>. QED
      BY <1>1, <1>4, <3>1, <3>2 DEF Mode, Ending
  <2>. QED
    BY <2>1, <2>2
<1>5. Mode(run', todo')
  BY <1>1, <1>4, ActivateSolo, ActivateForked DEF Course, Mode
<1>. QED
  BY <1>1, <1>3, <1>5 DEF Course
-------------------------------------------------------------------------------
\* A record with the same nodes.
LEMMA SameCourse ==
  ASSUME NEW r \in Record, NEW s \in Record, NEW T, Course(r, T), s.node = r.node,
         s.join = r.join, s.joinFrom = r.joinFrom, s.edges = r.edges, s.dynamic = r.dynamic,
         s.final = r.final,
         s.status \in Live => s.status = r.status
  PROVE  Course(s, T)
<1>1. Kept(r, s)
  BY SameKept DEF Moved
<1>2. Original(s) /\ BeforeInv(s, T)
  BY <1>1, KeptOriginal, KeptBefore DEF Course
<1>3. Awake(s) = Awake(r) /\ (\A n : Quiet(s, n) <=> Quiet(r, n)) /\ (ReadyEnd(s) <=> ReadyEnd(r))
      /\ \A j : Led(s, j) = Led(r, j)
  BY DEF Awake, Quiet, ReadyEnd, Led
<1>4. s.status \in Live => Mode(s, T)
  BY <1>3 DEF Course, Mode, Ending, SoloAt, ForkedTo
<1>. QED
  BY <1>2, <1>4 DEF Course

\* A record that moves, in a run that ends.
LEMMA EndCourse ==
  ASSUME NEW r \in Record, NEW s \in Record, NEW T, Course(r, T), Kept(r, s), s.status \notin Live
  PROVE  Course(s, T)
  BY KeptOriginal, KeptBefore DEF Course

\* The claim of a node.
LEMMA ClaimCourse ==
  ASSUME NEW n \in Node, disk \in Record, Course(disk, {}), disk.status = "active",
         ~ReadyEnd(disk), disk.node[n].status = "ready",
         NEW s \in Record, Kept(disk, s), s.status = disk.status, s.node[n].status = "running",
         \A m \in Node \ {n} : s.node[m] = disk.node[m]
  PROVE  Course(s, {})
<1>1. Original(s) /\ BeforeInv(s, {})
  BY KeptOriginal, KeptBefore DEF Course
<1>2. Awake(s) = Awake(disk) /\ \A m \in Node : Quiet(disk, m) => Quiet(s, m)
  BY DEF Awake, Quiet
<1>3. Targets({}) = {} /\ \A j : Coming({}, j) = {}
  BY DEF Targets, Coming
<1>4. Mode(disk, {})
  BY DEF Course, Live
<1>5. ASSUME NEW m \in Listed \ AllSources, SoloAt(disk, {}, m) PROVE SoloAt(s, {}, m)
  <2>1. m = n
    BY <1>2, <1>3, <1>5 DEF SoloAt, Awake
  <2>. QED
    BY <1>2, <1>3, <1>5, <2>1 DEF SoloAt, Awake
<1>6. ASSUME NEW j \in AllJoins, ForkedTo(disk, {}, j) PROVE ForkedTo(s, {}, j)
  <2>1. s.node[j].status = "pending" \/ disk.node[j].status = "pending" => s.node[j] = disk.node[j]
    <3>1. j \in Node
      BY GraphFacts DEF AllJoins
    <3>. QED
      BY <3>1
  <2>2. Led(s, j) = Led(disk, j) \/ ~(s.node[j].status = "pending" \/ disk.node[j].status = "pending")
    BY <2>1 DEF Led
  <2>3. \A k \in Awake(s) : s.node[k].status # "waiting_approval"
    BY <1>2, <1>6 DEF ForkedTo, Awake
  <2>. QED
    BY <1>2, <1>3, <1>6, <2>1, <2>2, <2>3 DEF ForkedTo
<1>. QED
  BY <1>1, <1>3, <1>4, <1>5, <1>6 DEF Course, Mode, Ending

\* The first record.
LEMMA InitialCourse ==
  ASSUME Threaded
  PROVE  Course(InitialRun, {})
<1>1. /\ InitialRun.status = "active" /\ InitialRun.node[Graph.entry].status = "ready"
      /\ \A n \in Node \ {Graph.entry} : InitialRun.node[n].status = "pending"
      /\ \A n \in Node : InitialRun.node[n].incoming = {}
      /\ Original(InitialRun)
  BY GraphFacts DEF InitialRun, NodeState, Original
<1>2. Awake(InitialRun) = {Graph.entry} /\ Targets({}) = {}
  BY <1>1, GraphFacts DEF Awake, Targets
<1>3. SoloAt(InitialRun, {}, Graph.entry)
  BY <1>1, <1>2 DEF SoloAt, Quiet
<1>4. BeforeInv(InitialRun, {})
  BY <1>1, <1>2, ThreadFacts DEF BeforeInv
<1>. QED
  BY <1>1, <1>3, <1>4, ThreadFacts DEF Course, Mode

CourseInv ==
  /\ disk.dynamic = {} => Course(disk, {})
  /\ run.dynamic = {} => Course(run, todo)

LEMMA WriteCourse ==
  ASSUME TokenInv, phase = "idle", NEW r, Write(r), r.dynamic = {} => Course(r, {})
  PROVE  CourseInv'
<1>1. disk' = r /\ run' = r /\ todo' = {}
  BY DEF Write, TokenInv
<1>. QED
  BY <1>1 DEF CourseInv

LEMMA RollbackCourse ==
  ASSUME CourseInv, Rollback, disk' = disk
  PROVE  CourseInv'
<1>1. run' = disk /\ todo' = {}
  BY DEF Rollback
<1>. QED
  BY <1>1 DEF CourseInv

\* A mutator routes from a node of r, which is the record it works on.
LEMMA RoutedCourse ==
  ASSUME Threaded, CourseInv, disk' = disk, run' \in Record,
         NEW r \in Record, r.dynamic = {} => Course(r, {}), r.status \in Live,
         NEW s \in Record, NEW n \in Node, n \in Awake(r) \ Ends, Finishes(r, s, n), Kept(r, s),
         NEW ctx \in Contexts(n), Route(s, n, ctx)
  PROVE  CourseInv'
<1>1. run'.dynamic = r.dynamic
  <2>1. run' = s \/ run' = [s EXCEPT !.status = "failed"]
    BY DEF Route
  <2>2. run'.dynamic = s.dynamic
    BY <2>1 DEF Record
  <2>. QED
    BY <2>2 DEF Kept
<1>2. r.dynamic = {} => Course(run', todo')
  BY RouteCourse
<1>. QED
  BY <1>1, <1>2 DEF CourseInv

LEMMA MutatorCourse ==
  ASSUME Threaded, IInv, IInv', TokenInv, CourseInv, Mutator
  PROVE  CourseInv'
<1>0. run \in Record /\ run' \in Record /\ disk \in Record
  BY DEF IInv, RunInv
<1>1. ASSUME NEW e \in todo, GiveUp(e) PROVE CourseInv'
  <2>1. run' = run /\ disk' = disk
    BY <1>1 DEF GiveUp
  <2>2. run.dynamic = {} => Course(run', todo')
    BY <1>1, GiveUpCourse DEF CourseInv
  <2>. QED
    BY <2>1, <2>2 DEF CourseInv
<1>2. ASSUME NEW e \in todo, Activate(e) PROVE CourseInv'
  <2>. DEFINE r == Note(run, e)
  <2>1. disk' = disk /\ (run' = r \/ run' = Wake(r, e.to)) /\ e \in Edge /\ e.to \in Node
    BY <1>2 DEF Activate, IInv, Rest, Edge
  <2>2. r \in Record /\ r.dynamic = run.dynamic
    BY <1>0, <2>1, NoteKept DEF Moved, Kept
  <2>. HIDE DEF r
  <2>3. run'.dynamic = run.dynamic
    BY <2>1, <2>2, WokenRecord
  <2>4. run.dynamic = {} => Course(run', todo')
    BY <1>2, ActivateCourse DEF CourseInv
  <2>. QED
    BY <2>1, <2>3, <2>4 DEF CourseInv
<1>3. CASE Routed
  BY <1>3 DEF Routed, CourseInv
<1>4. ASSUME NEW i \in DOMAIN Graph.order, AutoTriage(i) PROVE CourseInv'
  <2>. DEFINE n == Graph.order[i]
              r == [run EXCEPT !.node[n] = Tried(@, "succeeded"), !.steps = @ + 1]
              ctx == Context(n, "success", [route |-> Graph.node[n].route, approval |-> "none"],
                             FALSE, "none")
  <2>1. n \in Node /\ n \notin Ends /\ run.node[n].status = "ready" /\ phase = "advance"
    BY <1>4, GraphFacts, EndFacts DEF AutoTriage, AtNode, Automatic
  <2>2. disk' = disk /\ (Route(r, n, ctx) \/ Rollback)
    BY <1>4 DEF AutoTriage
  <2>3. ctx \in Contexts(n)
    BY <2>1, AutoContext
  <2>. HIDE DEF n, ctx
  <2>4. RunInv(run)
    BY DEF IInv
  <2>5. RunInv(r)
    BY <2>4, <2>1, AutoInv, Zenon
  <2>6. Finishes(run, r, n)
    BY <1>0, <2>1, AutoFinishes, Zenon
  <2>7. Moved(run, r)
    BY <1>0, <2>1, AutoKept, Zenon
  <2>. HIDE DEF r
  <2>8. r \in Record /\ Kept(run, r) /\ n \in Awake(run) \ Ends /\ run.status \in Live /\ todo = {}
    BY <2>1, <2>5, <2>7 DEF RunInv, Moved, Awake, TokenInv
  <2>9. run.dynamic = {} => Course(run, {})
    BY <2>8 DEF CourseInv
  <2>10. CASE Route(r, n, ctx)
    BY <1>0, <2>1, <2>2, <2>3, <2>6, <2>8, <2>9, <2>10, RoutedCourse
  <2>. QED
    BY <2>2, <2>10, RollbackCourse
<1>5. ASSUME NEW i \in DOMAIN Graph.order, FinalizeTerminal(i) PROVE CourseInv'
  <2>. DEFINE n == Graph.order[i]
              b == Quality([run EXCEPT !.node[n] = Reached(@)], n)
  <2>1. n \in Node /\ run.node[n].status = "ready" /\ disk' = disk /\ todo' = todo
    BY <1>5, GraphFacts DEF FinalizeTerminal, AtNode, Automatic
  <2>2. run' = [[run EXCEPT !.node[n] = Reached(@)] EXCEPT
                  !.status = "finalized", !.final = Graph.node[n].terminal, !.quality = b]
    BY <1>5 DEF FinalizeTerminal
  <2>3. run'.status = "finalized"
    BY <1>0, <2>2 DEF Record
  <2>. HIDE DEF n, b
  <2>4. Kept(run, run')
    BY <1>0, <2>1, <2>2, ReachedKept, Zenon
  <2>5. run.dynamic = {} => Course(run', todo)
    BY <1>0, <2>3, <2>4, EndCourse DEF Live, CourseInv
  <2>. QED
    BY <2>1, <2>4, <2>5 DEF CourseInv, Kept
<1>6. CASE SweepEnds
  <2>1. disk' = disk /\ todo' = todo /\ (run' = run \/ run' = [run EXCEPT !.status = "failed"])
    BY <1>6 DEF SweepEnds
  <2>2. CASE run' = run
    BY <2>1, <2>2 DEF CourseInv
  <2>3. CASE run' = [run EXCEPT !.status = "failed"]
    <3>1. run'.status = "failed" /\ Kept(run, run')
      BY <1>0, <2>3, StatusKept DEF Record, Moved
    <3>2. run.dynamic = {} => Course(run', todo)
      BY <1>0, <3>1, EndCourse DEF Live, CourseInv
    <3>. QED
      BY <2>1, <3>1, <3>2 DEF CourseInv, Kept
  <2>. QED
    BY <2>1, <2>2, <2>3
<1>7. CASE Commit
  <2>1. disk' = run /\ run' = run /\ todo' = todo /\ todo = {}
    BY <1>7 DEF Commit, TokenInv
  <2>. QED
    BY <2>1 DEF CourseInv
<1>. QED
  BY <1>1, <1>2, <1>3, <1>4, <1>5, <1>6, <1>7 DEF Mutator

LEMMA ClientCourse ==
  ASSUME Threaded, IInv, IInv', ShapeInv(disk), TokenInv, CourseInv, NEW c \in Clients, Client(c)
  PROVE  CourseInv'
<1>0. run \in Record /\ run' \in Record /\ disk \in Record /\ disk' \in Record
  BY DEF IInv, RunInv
<1>1. ASSUME NEW o \in Ops, Reserve(c, o) PROVE CourseInv'
  <2>1. phase = "idle" /\ (\/ Write([disk EXCEPT !.status = "budget_exceeded"])
                           \/ Write([disk EXCEPT !.tools = @ + 1]))
    BY <1>1 DEF Reserve
  <2>2. CASE Write([disk EXCEPT !.status = "budget_exceeded"])
    <3>. DEFINE s == [disk EXCEPT !.status = "budget_exceeded"]
    <3>1. s.status = "budget_exceeded" /\ Kept(disk, s) /\ s \in Record
      BY <1>0, <2>2, StatusKept DEF Record, Moved, Write
    <3>2. Write(s)
      BY <2>2
    <3>. HIDE DEF s
    <3>3. s.dynamic = {} => Course(s, {})
      BY <1>0, <3>1, EndCourse DEF Live, CourseInv, Kept
    <3>. QED
      BY <2>1, <3>2, <3>3, WriteCourse
  <2>3. CASE Write([disk EXCEPT !.tools = @ + 1])
    <3>. DEFINE s == [disk EXCEPT !.tools = @ + 1]
    <3>1. /\ s.node = disk.node /\ s.status = disk.status /\ s.join = disk.join
          /\ s.joinFrom = disk.joinFrom /\ s.edges = disk.edges /\ s.dynamic = disk.dynamic
          /\ s.final = disk.final
      BY <1>0 DEF Record
    <3>2. Write(s) /\ s \in Record
      BY <1>0, <2>3 DEF Write
    <3>. HIDE DEF s
    <3>3. s.dynamic = {} => Course(s, {})
      BY <1>0, <3>1, <3>2, SameCourse DEF CourseInv
    <3>. QED
      BY <2>1, <3>2, <3>3, WriteCourse
  <2>. QED
    BY <2>1, <2>2, <2>3
<1>2. ASSUME NEW n \in In(disk, "ready"), ClaimGraphNode(c, n) PROVE CourseInv'
  <2>. DEFINE s == [disk EXCEPT !.node[n] = Tried(@, "running")]
  <2>1. /\ n \in Node /\ phase = "idle" /\ disk.status = "active"
        /\ disk.node[n].status = "ready" /\ Write(s)
    BY <1>2 DEF ClaimGraphNode, Execute, MayClaim, In
  <2>2. ~ReadyEnd(disk) /\ s \in Record
    BY <1>0, <2>1 DEF TokenInv, Write
  <2>3. /\ s.status = disk.status /\ s.node[n].status = "running"
        /\ \A m \in Node \ {n} : s.node[m] = disk.node[m]
    BY <1>0, <2>1, ClaimedRecord
  <2>4. Moved(disk, [disk EXCEPT !.node[n] = Tried(disk.node[n], "running")])
    BY <1>0, <2>1, TriedKept
  <2>5. Kept(disk, s)
    BY <2>4 DEF Moved
  <2>. HIDE DEF s
  <2>6. s.dynamic = {} => Course(s, {})
    BY <1>0, <2>1, <2>2, <2>3, <2>5, ClaimCourse DEF CourseInv, Kept
  <2>. QED
    BY <2>1, <2>6, WriteCourse
<1>3. ASSUME NEW n \in In(disk, "running"), NEW a \in Answers(n), CompleteGraphNode(c, n, a)
      PROVE  CourseInv'
  <2>. DEFINE r == Completed(n, a)
              ctx == Context(n, a.outcome, [route |-> a.route, approval |-> "none"], a.passed,
                             Effective(a.failure, r.counts[n][a.signature]))
              s == [r EXCEPT !.status = "budget_exceeded"]
  <2>1. /\ n \in Node /\ disk.node[n].status = "running" /\ disk.node[n].attempts > 0
        /\ phase = "idle" /\ disk.status = "active"
    BY <1>3 DEF In, CompleteGraphNode, Execute, MayComplete, ShapeInv
  <2>2. \/ Write(s)
        \/ Route(r, n, ctx) /\ UNCHANGED <<disk, scan>>
        \/ Rollback /\ UNCHANGED disk
    BY <1>3 DEF CompleteGraphNode
  <2>3. n \in Awake(disk) \ Ends
    BY <2>1 DEF TokenInv, EndsInv, Awake
  <2>4. r \in Record /\ Finishes(disk, r, n) /\ Kept(disk, r)
    BY <1>0, <2>1, CompletedInv, CompletedFinishes, CompletedKept DEF IInv, RunInv, Moved
  <2>5. ctx \in Contexts(n)
    BY <2>1, AnswerContext
  <2>. HIDE DEF r, ctx
  <2>6. CASE Write(s)
    <3>1. /\ s.node = r.node /\ s.status = "budget_exceeded" /\ s.join = r.join
          /\ s.joinFrom = r.joinFrom /\ s.edges = r.edges /\ s.dynamic = r.dynamic
      BY <2>4 DEF Record
    <3>2. s \in Record
      BY <1>0, <2>6 DEF Write
    <3>. HIDE DEF s
    <3>3. Kept(disk, s)
      BY <2>4, <3>1 DEF Kept
    <3>4. s.dynamic = {} => Course(s, {})
      BY <1>0, <3>1, <3>2, <3>3, EndCourse DEF Live, CourseInv, Kept
    <3>. QED
      BY <2>1, <2>6, <3>4, WriteCourse
  <2>7. CASE Route(r, n, ctx) /\ UNCHANGED <<disk, scan>>
    BY <1>0, <2>1, <2>3, <2>4, <2>5, <2>7, RoutedCourse DEF CourseInv, Live
  <2>8. CASE Rollback /\ UNCHANGED disk
    BY <2>8, RollbackCourse
  <2>. QED
    BY <2>2, <2>6, <2>7, <2>8
<1>4. ASSUME NEW n \in disk.pending, NEW d \in {"approved", "denied"},
             ResolveGraphApproval(c, n, d)
      PROVE  CourseInv'
  <2>. DEFINE r == Resolved(n, d)
              ctx == Context(n, IF d = "approved" THEN "success" ELSE "blocked",
                             [route |-> "none", approval |-> d], FALSE, "none")
  <2>1. /\ n \in Node /\ disk.node[n].status = "waiting_approval"
        /\ phase = "idle" /\ disk.status = "waiting_approval"
    BY <1>4 DEF IInv, RunInv, In, ResolveGraphApproval, Execute, MayResolve
  <2>2. \/ Route(r, n, ctx) /\ UNCHANGED <<disk, scan>>
        \/ Rollback /\ UNCHANGED disk
    BY <1>4 DEF ResolveGraphApproval
  <2>3. n \in Awake(disk) \ Ends
    BY <2>1 DEF TokenInv, EndsInv, Awake
  <2>4. r \in Record /\ Finishes(disk, r, n) /\ Kept(disk, r)
    BY <1>0, <2>1, ResolvedInv, ResolvedFinishes, ResolvedKept DEF IInv, RunInv, Moved
  <2>5. ctx \in Contexts(n)
    BY <2>1, ApprovalContext
  <2>. HIDE DEF r, ctx
  <2>6. CASE Route(r, n, ctx) /\ UNCHANGED <<disk, scan>>
    BY <1>0, <2>1, <2>3, <2>4, <2>5, <2>6, RoutedCourse DEF CourseInv, Live
  <2>7. CASE Rollback /\ UNCHANGED disk
    BY <2>7, RollbackCourse
  <2>. QED
    BY <2>2, <2>6, <2>7
<1>5. ASSUME NEW p \in In(disk, "running"), NEW j \in In(disk, "pending"),
             NEW ts \in SUBSET Tasks, ExpandGraph(c, p, j, ts)
      PROVE  CourseInv'
  <2>1. p \in Node /\ j \in Node /\ phase = "idle" /\ Write(Expanded(p, j, ts)) /\ ts # {}
    BY <1>5 DEF In, ExpandGraph, Execute, MayExpand
  <2>2. Expanded(p, j, ts).dynamic = disk.dynamic \cup ts
    BY <1>0, <2>1, ExpandedRecord
  <2>. QED
    BY <2>1, <2>2, WriteCourse
<1>6. CASE Reject(c) \/ StartAdvance(c)
  <2>1. UNCHANGED <<disk, run, todo>>
    BY <1>6 DEF Reject, StartAdvance
  <2>. QED
    BY <2>1 DEF CourseInv
<1>. QED
  BY <1>1, <1>2, <1>3, <1>4, <1>5, <1>6 DEF Client

LEMMA CourseStep ==
  ASSUME Threaded, IInv, IInv', ShapeInv(disk), TokenInv, CourseInv, [Next]_vars
  PROVE  CourseInv'
<1>1. ASSUME NEW c \in Clients, Drop(c) PROVE CourseInv'
  BY <1>1 DEF Drop, CourseInv
<1>2. CASE AbortGraphRun
  <2>. DEFINE s == [disk EXCEPT !.status = "aborted"]
  <2>1. disk \in Record /\ phase = "idle" /\ Write(s) /\ disk' \in Record
    BY <1>2 DEF AbortGraphRun, IInv, RunInv
  <2>2. s.status = "aborted" /\ Kept(disk, s) /\ s \in Record
    BY <2>1, StatusKept DEF Record, Moved, Write
  <2>. HIDE DEF s
  <2>3. s.dynamic = {} => Course(s, {})
    BY <2>1, <2>2, EndCourse DEF Live, CourseInv, Kept
  <2>. QED
    BY <2>1, <2>3, WriteCourse
<1>3. CASE DeadlinePasses \/ UNCHANGED vars
  BY <1>3 DEF DeadlinePasses, vars, CourseInv
<1>. QED
  BY <1>1, <1>2, <1>3, MutatorCourse, ClientCourse DEF Next

\* A run of a threaded graph, until it is expanded, always has a node to claim or
\* to complete while it is active.
THEOREM Unwedged ==
  ASSUME ~EarlyCalls, Threaded
  PROVE  Spec => [](disk.dynamic = {} => NeverWedged)
<1>1. CanEnd
  BY DEF Threaded
<1>2. Init => CourseInv
  BY InitialCourse DEF Init, CourseInv
<1>3. IInv /\ IInv' /\ WorkInv /\ CourseInv /\ [Next]_vars => CourseInv'
  BY CourseStep DEF WorkInv
<1>4. IInv /\ WorkInv /\ CourseInv => (disk.dynamic = {} => NeverWedged)
  <2>. SUFFICES ASSUME IInv, WorkInv, CourseInv, disk.dynamic = {}, disk.status = "active"
                PROVE  In(disk, "ready") \cup In(disk, "running") # {}
    BY DEF NeverWedged
  <2>1. Mode(disk, {}) /\ ~ReadyEnd(disk)
    BY DEF CourseInv, Course, WorkInv, TokenInv, Live
  <2>2. ~Ending(disk, {})
    BY <2>1 DEF Ending, Targets
  <2>3. \E n \in Awake(disk) : disk.node[n].status # "waiting_approval"
    BY <2>1, <2>2 DEF Mode, SoloAt, ForkedTo, Targets
  <2>. QED
    BY <2>3 DEF Awake, In
<1>. QED
  BY <1>1, <1>2, <1>3, <1>4, WorkInductive, Inductive, PTL DEF Spec

\* An active run of a threaded graph that may not be expanded always has a node to
\* claim or to complete.
COROLLARY NeverStuck ==
  ASSUME ~EarlyCalls, Threaded, Graph.dynamic = 0
  PROVE  Spec => []NeverWedged
<1>1. IInv => disk.dynamic = {}
  <2>. SUFFICES ASSUME IInv PROVE disk.dynamic = {}
    OBVIOUS
  <2>1. disk.dynamic \subseteq Node /\ Cardinality(disk.dynamic) <= 0
    BY DEF IInv, RunInv, Record, Tasks
  <2>2. IsFiniteSet(disk.dynamic)
    BY <2>1, GraphFacts, FS_Subset
  <2>3. Cardinality(disk.dynamic) \in Nat
    BY <2>2, FS_CardinalityType
  <2>. QED
    BY <2>1, <2>2, <2>3, FS_EmptySet
<1>. QED
  BY <1>1, Unwedged, Inductive, PTL
===============================================================================

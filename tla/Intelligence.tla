----------------------------- MODULE Intelligence -----------------------------
(***************************************************************************)
(* The intelligence fabric of a mission: what company-runtime.mjs keeps in   *)
(* the mission's record under "intelligence" (fabric.mjs), with the          *)
(* contracts between the roles (collaboration-runtime.mjs), and the memory   *)
(* of the organization, a record of its own (memory-runtime.mjs).            *)
(*                                                                           *)
(* The fabric never changes a record in place.  A driver computes a new one  *)
(* from a copy that it has read, and the transaction that stores it looks at *)
(* its work item, not at the record it overwrites: two drivers overwrite     *)
(* what the other one has stored in between.                                 *)
(*                                                                           *)
(* Of the mission itself, which Company models, there is what the fabric     *)
(* reads: items, their attempts and results, and its end.  Every transaction *)
(* is one step.  Left out: the lists that are only kept (packets, routes,    *)
(* observations, handoffs, statistics) and their bounds, and impacts that    *)
(* are only shown.  Recalled memory is kept as a copy, which was verified    *)
(* when it was recalled; the terminal check of it always passes, and so do     *)
(* those of digests.                                                         *)
(***************************************************************************)
EXTENDS Naturals, Sequences, FiniteSets, KnowledgeGraph, ModelRouter, ContextPacket,
        Collaboration

CONSTANTS
  Item, Order,     \* the work items, and their sequence
  DependsOn,       \* DependsOn[i]: the items that i waits for, all of them
  KindOf, RoleOf,  \* the kind of an item, and its assigned role
  MaxAttempts, MaxTicks,  \* of an item, and of the mission
  TypeOf,          \* TypeOf[r]: the type of role r
  VerifierRoles, RiskRoles,  \* roles of quality, and of risk
  Policy,          \* Policy[r]: the context policy of role r
  Registry,        \* the models
  Risk, Classification,      \* of the mission's task
  FilesOf,         \* FilesOf[i]: what the work on i may change
  Makes,           \* the items whose reports may have deliverables
  Relations,       \* what changes have effects on
  Driver,
  Curator,         \* the roles that curate the memory
  Curation,        \* sensitivities of what they remember themselves
  MaxCurated,      \* bound on their calls
  None

ASSUME IntelligenceAssumption ==
  /\ \A i \in Item : DependsOn[i] \subseteq Item
  /\ MaxAttempts \in [Item -> Nat] /\ MaxTicks \in Nat /\ MaxCurated \in Nat
  /\ VerifierRoles \cap RiskRoles = {}
  /\ Order \in Seq(Item) /\ \A i \in Item : \E n \in DOMAIN Order : Order[n] = i

Seqs == INSTANCE SequencesExt

VARIABLES
  status,      \* "active", "completed", "partial" or "failed"
  ticks,       \* claims so far
  items,
  candidates, artifacts,   \* unverified and verified results
  intel,       \* the record: its contracts, its impacts, its graph
  memory,      \* the entries of the organization's memory
  at, work,    \* where a driver is, and the <<item, attempt>> it works on
  copy,        \* the record that it is about to store
  todo,        \* the memories that it has yet to store
  behind,      \* the drivers whose copy is older than the record (history)
  overwritten, \* such a copy was stored (history)
  earned,      \* the reports of independent verifications that were accepted (history)
  curated      \* calls of curators so far (bound)

mission == <<status, ticks, items, candidates, artifacts>>
driver == <<at, work, copy, todo>>
history == <<overwritten, earned, curated>>
fabricVars == <<status, ticks, items, candidates, artifacts, intel, memory, at, work, copy, todo, behind,
          overwritten, earned, curated>>

Result == Item \X Nat
Ended == {"completed", "partial", "failed"}

RolesOfMission == {RoleOf[i] : i \in Item}
OrderOf(i) == CHOOSE n \in DOMAIN Order : Order[n] = i
Earliest(S) == CHOOSE i \in S : \A j \in S : OrderOf(i) <= OrderOf(j)

-----------------------------------------------------------------------------
(* Contracts *)

Open(c) == c.status \in {"proposed", "acknowledged"}

\* A contract with a key that is there already is not added.
AddContracts(cs, new) == cs \cup {c \in new : \A old \in cs : old.key # c.key}

\* What the consumer's contracts become, whatever item they were made for.
ForConsumer(cs, role, Op(_)) ==
  {IF Open(c) /\ role \in c.consumers THEN Op(c) ELSE c : c \in cs}

\* dependencyContracts, of a state in which the item has just been claimed.
DependencyContracts(its, i) ==
  {Contract(<<"dependency", j, i, its[j].attempts>>,
            IF KindOf[i] = "verify" THEN "verification_request" ELSE "dependency_handoff",
            RoleOf[j], {RoleOf[i]}, {}) :
     j \in {k \in DependsOn[i] : its[k].status = "completed" /\ RoleOf[k] # RoleOf[i]}}

Future(its) ==
  {RoleOf[i] : i \in {k \in Item : its[k].status \in {"pending", "running"}}}

FutureRole(its, roles) == roles \cap Future(its)

\* Who has to review an impact.
Consumers(its, impact) ==
  LET verifier == FutureRole(its, VerifierRoles)
      risk == FutureRole(its, RiskRoles)
  IN verifier \cup IF impact.severity \in {"high", "critical"} /\ risk # {} THEN risk ELSE {}

FollowUps(its, i, impacts) ==
  {Contract(<<"impact", m.id, Consumers(its, m), 0>>, "impact_followup", RoleOf[i],
            Consumers(its, m), {m.id}) :
     m \in {n \in impacts : Consumers(its, n) \notin {{}, {RoleOf[i]}}}}

FollowUpsAllowed(its, i, impacts) ==
  \A c \in FollowUps(its, i, impacts) : MayCreate(RoleOf[i], c.consumers)

-----------------------------------------------------------------------------
(* What the fabric computes *)

\* prepareExecution: contracts for what the item depends on, and all of its
\* role acknowledged.  A contract that was blocked is not made again.
Contracted(int, its, i) ==
  [int EXCEPT !.contracts =
     ForConsumer(AddContracts(int.contracts, DependencyContracts(its, i)), RoleOf[i],
                 LAMBDA c : Transition(c, "acknowledge", RoleOf[i]))]

SensitivityRank == [public |-> 0, internal |-> 1, confidential |-> 2, restricted |-> 3]

\* retrieve, as the fabric calls it.
Recalled == {m \in DOMAIN memory :
               /\ memory[m].status = "verified"
               /\ SensitivityRank[memory[m].sensitivity] <= SensitivityRank[Classification]}

\* The number of things in a section stands for its size.
ContextSize(int, i) ==
  [s \in Seqs!ToSet(AllSections) |->
     CASE s = "dependencies" -> 1 + Cardinality(DependsOn[i])
       [] s = "artifacts" -> 1 + Cardinality(artifacts)
       [] s = "contracts" ->
            1 + Cardinality({c \in int.contracts : Open(c) /\ RoleOf[i] \in c.consumers})
       [] s = "impacts" ->
            1 + Cardinality(Impact(int.graph, {ItemNode(j) : j \in DependsOn[i] \cup {i}}, 2))
       [] s = "memory" -> 1 + Cardinality(Recalled)
       [] OTHER -> 1]

ContextOf(int, i, aged) ==
  Packet(TypeOf[RoleOf[i]], Policy[RoleOf[i]], ContextSize(int, i), aged)

RequestFor(i, packet) ==
  Request([kind |-> KindOf[i], risk |-> Risk, classification |-> Classification,
           context_tokens |-> packet.tokens])

\* What can be prepared: the context is fresh and a model can take it.
Preparable(int, i, aged) ==
  /\ Fresh(TypeOf[RoleOf[i]], Policy[RoleOf[i]], aged)
  /\ PacketVerifies(ContextOf(int, i, aged), Policy[RoleOf[i]])
  /\ Routes(Registry, RequestFor(i, ContextOf(int, i, aged))) # {}

RelationsOf(files) == {r \in Relations : r.from \in files}

\* processReport: the graph with what the report says.
Ingested(int, w, files) ==
  LET named == files \cup {r.to : r \in RelationsOf(files)}
  IN WithEdges(ReportNodes(int.graph, named),
               ReportEdges(w, KindOf[w[1]], named, RelationsOf(files)))

\* What the files have an effect on.  The id of an impact has the digest of the
\* graph in it, so every report has its own.
ImpactsOf(graph, w, files) ==
  {[id |-> <<w, m.target>>, severity |-> m.severity] :
     m \in Impact(graph, {FileNode(f) : f \in files}, 2)}

\* Mutant of Settle: only the contracts of dependencies.
SettleDependencies(cs, role, success) ==
  {IF Open(c) /\ role \in c.consumers /\ c.type # "impact_followup"
   THEN [c EXCEPT !.status = IF success THEN "completed" ELSE "blocked"] ELSE c : c \in cs}

\* The report is the evidence and one of the outputs; a contract that cannot be
\* completed is blocked.
Settle(cs, role, success) ==
  ForConsumer(cs, role, LAMBDA c :
    IF success /\ MayTransition(c, "complete", role, {"outputs", "evidence"})
    THEN Transition(c, "complete", role) ELSE Transition(c, "block", role))

Processed(int, its, w, success, files) ==
  LET graph == Ingested(int, w, files)
      impacts == ImpactsOf(graph, w, files)
  IN [contracts |-> AddContracts(Settle(int.contracts, RoleOf[w[1]], success),
                                 FollowUps(its, w[1], impacts)),
      impacts |-> int.impacts \cup impacts,
      graph |-> graph]

\* Somebody has reviewed what is severe.
ImpactsAddressed(int) ==
  \A m \in int.impacts : m.severity \in {"high", "critical"} =>
    \E c \in int.contracts : c.type = "impact_followup" /\ ~Open(c) /\ m.id \in c.refs

\* verifyTerminal: contracts are closed, and severe impacts were reviewed.
TerminalPassed(int) ==
  /\ \A c \in int.contracts : ~Open(c)
  /\ ImpactsAddressed(int)

\* The memories that a successful report leaves behind, one transaction each.
\* A verification keeps what was made, whoever has made it.
MemoriesOf(w, verified) ==
  IF verified
  THEN <<<<"verification", w, w>>>> \o Seqs!SetToSeq({<<"artifact", w, c>> : c \in candidates})
  ELSE <<<<"result", w, w>>>>

CapturedEntry(w, verified) ==
  [status |-> IF verified THEN "verified" ELSE "proposed", role |-> RoleOf[w[1]],
   verified_by |-> IF verified THEN RoleOf[w[1]] ELSE None, sensitivity |-> "internal"]

-----------------------------------------------------------------------------
FabricInit ==
  /\ status = "active" /\ ticks = 0
  /\ items = [i \in Item |-> [status |-> "pending", attempts |-> 0]]
  /\ candidates = {} /\ artifacts = {}
  /\ intel = [contracts |-> {}, impacts |-> {},
              graph |-> MissionGraph(Item, DependsOn, RoleOf, TypeOf, KindOf, Risk)]
  /\ memory = << >>
  /\ at = [d \in Driver |-> "off"] /\ work = [d \in Driver |-> None]
  /\ copy = [d \in Driver |-> None] /\ todo = [d \in Driver |-> << >>]
  /\ behind = {} /\ overwritten = FALSE /\ earned = {}
  /\ curated = 0

GoesTo(d, step, w, c, mem) ==
  /\ at' = [at EXCEPT ![d] = step]
  /\ work' = [work EXCEPT ![d] = w]
  /\ copy' = [copy EXCEPT ![d] = c]
  /\ todo' = [todo EXCEPT ![d] = mem]

Stop(d) == GoesTo(d, "off", None, None, << >>)

Reads(d) == behind' = behind \ {d}

\* The record is replaced by the copy of d, or left to the others as it is.
Stores(d) ==
  /\ intel' = copy[d]
  /\ overwritten' = (overwritten \/ d \in behind)
  /\ behind' = Driver \ {d}

Ready(i) == items[i].status = "pending"
            /\ \A j \in DependsOn[i] : items[j].status = "completed"

Tried(i) == [items EXCEPT ![i] = [status |-> "running", attempts |-> items[i].attempts + 1]]

WithStatus(i, s) == [items EXCEPT ![i] = [status |-> s, attempts |-> items[i].attempts]]

\* claim(), and what the fabric makes of the state it returns.
Claim(d) ==
  /\ at[d] = "off" /\ status = "active" /\ ticks < MaxTicks
  /\ \E i \in Item : Ready(i)
  /\ ticks' = ticks + 1
  /\ LET i == Earliest({j \in Item : Ready(j)}) IN
     /\ items' = Tried(i)
     /\ GoesTo(d, "prepare", <<i, items[i].attempts + 1>>, Contracted(intel, items', i), << >>)
  /\ Reads(d)
  /\ UNCHANGED <<status, candidates, artifacts, intel, memory, history>>

OutOfTicks ==
  /\ status = "active" /\ ticks = MaxTicks
  /\ status' = "partial"
  /\ UNCHANGED <<ticks, items, candidates, artifacts, intel, memory, driver, behind, history>>

Current(w) == items[w[1]].status = "running" /\ items[w[1]].attempts = w[2]

\* Mutant of StillClaimed: nothing is looked at again.
NotLookedAt(w) == TRUE

StillClaimed(w) == Current(w)

\* The memory is read, the context compiled and a model chosen.  If there is
\* none, the error ends the driver, and the item stays running.
PrepareFails(d) ==
  /\ at[d] = "prepare"
  /\ \E aged \in SUBSET {"memory"} : ~Preparable(copy[d], work[d][1], aged)
  /\ Stop(d)
  /\ UNCHANGED <<mission, intel, memory, behind, history>>

Prepare(d) ==
  /\ at[d] = "prepare"
  /\ \E aged \in SUBSET {"memory"} : Preparable(copy[d], work[d][1], aged)
  /\ IF StillClaimed(work[d])
     THEN Stores(d) /\ GoesTo(d, "execute", work[d], None, << >>)
     ELSE Stop(d) /\ UNCHANGED <<intel, behind, overwritten>>
  /\ UNCHANGED <<mission, memory, earned, curated>>

\* The agent has reported, and the fabric processes the report on a copy.
\* A report that it cannot take (an edge to an unknown node) ends the driver.
Report(d, success, verified, files) ==
  /\ at[d] = "execute"
  /\ verified => success /\ KindOf[work[d][1]] = "verify"
  /\ LET w == work[d]
         next == Processed(intel, items, w, success, files)
     IN IF FollowUpsAllowed(items, w[1], next.impacts \ intel.impacts)
        THEN GoesTo(d, IF success THEN IF verified THEN "verified" ELSE "success" ELSE "failure",
                  w, next, IF success THEN MemoriesOf(w, verified) ELSE << >>)
        ELSE Stop(d)
  /\ Reads(d)
  /\ UNCHANGED <<mission, intel, memory, history>>

Reports(d) ==
  \E success, verified \in BOOLEAN :
    \E files \in SUBSET (IF work[d] = None THEN {} ELSE FilesOf[work[d][1]]) :
      Report(d, success, verified, files)

Unprocessable(d) ==
  /\ at[d] = "execute"
  /\ Stop(d)
  /\ UNCHANGED <<mission, intel, memory, behind, history>>

Reported(d) == at[d] \in {"verified", "success", "failure"}

Stale(d) ==
  /\ Reported(d) /\ ~Current(work[d])
  /\ Stop(d)
  /\ UNCHANGED <<mission, intel, memory, behind, history>>

\* completeClaim of a success.
Complete(d) ==
  /\ at[d] \in {"verified", "success"} /\ Current(work[d])
  /\ LET i == work[d][1]
         promoted == IF at[d] = "verified" THEN {c \in candidates : RoleOf[c[1]] # RoleOf[i]}
                     ELSE {}
     IN /\ items' = WithStatus(i, "completed")
        /\ \E made \in SUBSET ({work[d]} \cap (Makes \X Nat)) : candidates' = (candidates \cup made) \ promoted
        /\ artifacts' = artifacts \cup promoted
  /\ Stores(d)
  /\ earned' = IF at[d] = "verified" THEN earned \cup {work[d]} ELSE earned
  /\ GoesTo(d, IF at[d] = "verified" THEN "remember verified" ELSE "remember", work[d], None, todo[d])
  /\ UNCHANGED <<status, ticks, memory, curated>>

\* completeClaim of a failure, and its repair by development.
CompleteFailure(d) ==
  /\ at[d] = "failure" /\ Current(work[d])
  /\ LET i == work[d][1]
         repairs == {j \in Item : KindOf[j] = "develop"}
         retried == WithStatus(i, "pending")
     IN IF items[i].attempts < MaxAttempts[i] /\ repairs # {}
        THEN /\ items' = IF retried[Earliest(repairs)].status \in {"completed", "failed"}
                         THEN [retried EXCEPT ![Earliest(repairs)].status = "pending"]
                         ELSE retried
             /\ UNCHANGED status
        ELSE items' = WithStatus(i, "failed") /\ status' \in {"failed", "partial"}
  /\ Stores(d)
  /\ Stop(d)
  /\ UNCHANGED <<ticks, candidates, artifacts, memory, earned, curated>>

\* remember: an entry that is there stays as it is.
With(mem, m, entry) ==
  [n \in DOMAIN mem \cup {m} |-> IF n \in DOMAIN mem THEN mem[n] ELSE entry]

Remember(d) ==
  /\ at[d] \in {"remember", "remember verified"}
  /\ memory' = With(memory, Head(todo[d]), CapturedEntry(work[d], at[d] = "remember verified"))
  /\ IF Len(todo[d]) = 1 THEN Stop(d) ELSE GoesTo(d, at[d], work[d], None, Tail(todo[d]))
  /\ UNCHANGED <<mission, intel, behind, history>>

\* reconcile, of a state without an item to claim: what the gate says of it is
\* stored with its copy.
Gather(d) ==
  /\ at[d] = "off" /\ status = "active"
  /\ \A i \in Item : items[i].status = "completed"
  /\ GoesTo(d, "conclude", None, intel, << >>)
  /\ Reads(d)
  /\ UNCHANGED <<mission, intel, memory, history>>

Conclude(d) ==
  /\ at[d] = "conclude"
  /\ status' = IF artifacts # {} /\ TerminalPassed(copy[d]) THEN "completed" ELSE "partial"
  /\ Stores(d)
  /\ Stop(d)
  /\ UNCHANGED <<ticks, items, candidates, artifacts, memory, earned, curated>>

\* The operator takes work back from drivers that died, or that are slow.
Recover(i) ==
  /\ items[i].status = "running"
  /\ items' = WithStatus(i, "pending")
  /\ UNCHANGED <<status, ticks, candidates, artifacts, intel, memory, driver, behind, history>>

-----------------------------------------------------------------------------
(* Those who curate the memory of the organization *)

RememberThat(m, role, sensitivity) ==
  memory' = With(memory, m, [status |-> "proposed", role |-> role, verified_by |-> None,
                             sensitivity |-> sensitivity])

\* Mutant of Promote: whoever asks for it.
PromoteAnyway(m, role) ==
  /\ memory[m].status \in {"proposed", "verified"}
  /\ memory' = [memory EXCEPT ![m] = [memory[m] EXCEPT !.status = "verified", !.verified_by = role]]

Promote(m, role) ==
  /\ memory[m].status \in {"proposed", "verified"}
  /\ role # memory[m].role
  /\ memory' = [memory EXCEPT ![m] = [memory[m] EXCEPT !.status = "verified", !.verified_by = role]]

\* reject, or supersede by an entry that was remembered before: whatever the
\* entry is.
Retire(m, s) == memory' = [memory EXCEPT ![m] = [memory[m] EXCEPT !.status = s]]

Curate ==
  /\ curated < MaxCurated /\ curated' = curated + 1
  /\ \/ \E role \in Curator, s \in Curation :
          RememberThat(<<"curated", curated, 0>>, role, s)
     \/ \E m \in DOMAIN memory :
          \/ \E role \in Curator : Promote(m, role)
          \/ Retire(m, "rejected")
          \/ \E n \in DOMAIN memory \ {m} : Retire(m, "superseded")
  /\ UNCHANGED <<mission, intel, driver, behind, overwritten, earned>>

FabricNext ==
  \/ \E d \in Driver :
       \/ Claim(d) \/ PrepareFails(d) \/ Prepare(d) \/ Unprocessable(d) \/ Stale(d)
       \/ Reports(d)
       \/ Complete(d) \/ CompleteFailure(d) \/ Remember(d) \/ Gather(d) \/ Conclude(d)
  \/ OutOfTicks \/ \E i \in Item : Recover(i)
  \/ Curate

FabricSpec == FabricInit /\ [][FabricNext]_fabricVars

-----------------------------------------------------------------------------
(* What makes the fabric correct *)

FabricTypeOK ==
  /\ status \in {"active"} \cup Ended
  /\ items \in [Item -> [status : {"pending", "running", "completed", "failed"}, attempts : Nat]]
  /\ candidates \subseteq Result /\ artifacts \subseteq Result
  /\ \A m \in DOMAIN memory :
       memory[m].status \in {"proposed", "verified", "rejected", "superseded"}
  /\ work \in [Driver -> Result \cup {None}]
  /\ behind \subseteq Driver /\ overwritten \in BOOLEAN
  /\ earned \subseteq Result

\* A mission that has passed the gate has no open contract and no severe impact
\* that nobody has reviewed, and it stays so: no driver that comes late, with a
\* copy from before, reopens what was closed.
GateMeansClosed == status = "completed" => TerminalPassed(intel)

\* An open contract has somebody who will close it: a role among its consumers
\* still has work.  That two drivers overwrite each other's record is excepted:
\* it reopens contracts for good.
OpenContractsHaveWork ==
  overwritten \/ \A c \in intel.contracts : Open(c) =>
    \E i \in Item : RoleOf[i] \in c.consumers /\ items[i].status # "completed"

\* What agents are told as verified memory was confirmed by another role, or
\* comes from an independent verification that the mission has accepted.
VerifiedMemoryIsEarned ==
  \A m \in DOMAIN memory : memory[m].status = "verified" =>
    \/ memory[m].verified_by # memory[m].role
    \/ m[1] \in {"verification", "artifact"} /\ m[2] \in earned
===============================================================================

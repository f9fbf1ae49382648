------------------------------- MODULE Company --------------------------------
(***************************************************************************)
(* A mission of standalone/runtime/company/company-runtime.mjs: work items   *)
(* that are claimed, executed by an agent and completed, approvals, repair   *)
(* loops, artifacts, and the delivery of the result.                         *)
(*                                                                           *)
(* Every transaction of the mission's record is one step (ChainStore takes   *)
(* them apart).  What a driver does between two of them, it does on what it  *)
(* has read: a driver is a loop of tick(), run by the control plane, by an   *)
(* organization or from the command line, and there may be several.          *)
(*                                                                           *)
(* A result of an item is the number of the attempt that produced it.        *)
(* Whether a mission without a way to repair a failure ends as failed or as  *)
(* partial depends on the number and the severity of its failures, which are *)
(* not modelled: it may end as either.  The state of the intelligence fabric  *)
(* is not modelled either: it no longer changes once every item is completed, *)
(* so what the terminal gate will say of it is chosen at the start.           *)
(***************************************************************************)
EXTENDS Naturals, Sequences, FiniteSets

CONSTANTS
  Driver,          \* those who run tick()
  Courier,         \* those who call executeDelivery
  Kind,            \* the kinds of the work items, in their order
  DependsOn,       \* DependsOn[i]: the items that i waits for
  JoinsAll,        \* those that wait for all of them, not for any
  Role,            \* Role[i]: assigned_role_id
  MaxAttempts,     \* MaxAttempts[i]: max_attempts
  MaxTicks,        \* policy.max_ticks
  Simulation,      \* no real agent runs, and promotion is not allowed
  ProducesCode,    \* task.requires_implementation
  FailureTypes,    \* the failures that agents report
  MaxProposals,    \* bound on the calls of proposeDelivery
  MaxFaults,       \* bound on the drivers and couriers that die
  None

Item == DOMAIN Kind

ASSUME CompanyAssumption ==
  /\ Kind \in Seq({"triage", "research", "join", "human_approval", "plan", "develop", "direct",
                   "verify", "synthesize"})
  /\ DependsOn \in [Item -> SUBSET Item]
  /\ MaxAttempts \in [Item -> Nat \ {0}]
  /\ MaxTicks \in Nat /\ MaxProposals \in Nat /\ MaxFaults \in Nat
  /\ Simulation \in BOOLEAN /\ ProducesCode \in BOOLEAN
  /\ None \notin Item \X Nat

VARIABLES
  status, paused, items, ticks,
  unresolved,   \* failures that no later attempt has made good
  loops,        \* the items whose failure has started a repair loop
  approvals,    \* approvals[i]: how many approvals are pending for item i
  candidates, artifacts,  \* unverified and verified results
  gate,         \* quality_gate_passed
  grounded,     \* what the terminal gate of the fabric says at the end
  deliveries,   \* the approvals of the delivery, in their order
  executed,     \* the delivery has a receipt
  at,           \* at[d]: the step of tick() that driver d is at, or "off"
  work,         \* work[d]: the <<item, attempt>> it is working on, or None
  courier,      \* courier[e]: the step of executeDelivery, or "off"
  effects,      \* how often the delivery was carried out (history)
  faults

mission == <<status, paused, items, ticks, unresolved, loops, approvals,
             candidates, artifacts, gate, grounded>>
delivery == <<deliveries, executed, courier, effects>>
vars == <<status, paused, items, ticks, unresolved, loops, approvals, candidates,
          artifacts, gate, grounded, deliveries, executed, at, work, courier, effects, faults>>

Result == Item \X Nat
Terminal == {"completed", "simulated", "partial", "failed", "aborted"}
ItemStatus == {"pending", "running", "waiting_approval", "completed", "failed"}

TypeOK ==
  /\ status \in {"planned", "active", "waiting_approval"} \cup Terminal
  /\ paused \in BOOLEAN
  /\ items \in [Item -> [status : ItemStatus, attempts : Nat]]
  /\ ticks \in 0..MaxTicks
  /\ unresolved \subseteq Result /\ candidates \subseteq Result /\ artifacts \subseteq Result
  /\ loops \subseteq Item /\ approvals \in [Item -> Nat]
  /\ gate \in BOOLEAN /\ grounded \in BOOLEAN
  /\ deliveries \in Seq({"pending", "approved", "denied"}) /\ executed \in BOOLEAN
  /\ at \in [Driver -> {"off", "look", "start", "ask", "claim", "prepare", "execute",
                        "report", "conclude", "give up"}]
  /\ work \in [Driver -> Result \cup {None}]
  /\ courier \in [Courier -> {"off", "deliver", "commit"}]
  /\ effects \in Nat /\ faults \in 0..MaxFaults

Init ==
  /\ status = "planned" /\ paused = FALSE /\ ticks = 0 /\ gate = FALSE
  /\ grounded \in BOOLEAN
  /\ items = [i \in Item |-> IF Kind[i] = "triage"
                            THEN [status |-> "completed", attempts |-> 1]
                            ELSE [status |-> "pending", attempts |-> 0]]
  /\ unresolved = {} /\ loops = {} /\ approvals = [i \in Item |-> 0] /\ candidates = {} /\ artifacts = {}
  /\ deliveries = << >> /\ executed = FALSE /\ effects = 0
  /\ at = [d \in Driver |-> "off"] /\ work = [d \in Driver |-> None]
  /\ courier = [e \in Courier |-> "off"]
  /\ faults = 0

-----------------------------------------------------------------------------
(* Items *)

Done(its, i) == its[i].status = "completed"

Ready(its, i) ==
  /\ its[i].status = "pending"
  /\ \/ DependsOn[i] = {}
     \/ IF i \in JoinsAll THEN \A j \in DependsOn[i] : Done(its, j)
        ELSE \E j \in DependsOn[i] : Done(its, j)

NeedsApproval(i) == Kind[i] = "human_approval"

First(S) == CHOOSE i \in S : \A j \in S : i <= j

WithStatus(its, i, s) == [its EXCEPT ![i] = [status |-> s, attempts |-> its[i].attempts]]
Tried(its, i, s) == [its EXCEPT ![i] = [status |-> s, attempts |-> its[i].attempts + 1]]

-----------------------------------------------------------------------------
(* tick() *)

Goto(d, step, w) == at' = [at EXCEPT ![d] = step] /\ work' = [work EXCEPT ![d] = w]

\* A Conflict or any other error ends the loop of the driver.
Stop(d) == Goto(d, "off", None)

Launch(d) ==
  /\ at[d] = "off"
  /\ Goto(d, "look", None)
  /\ UNCHANGED <<mission, delivery, faults>>

\* Where tick() goes on from a state it has read: to ask for an approval that
\* is due, or to claim.
Onwards(d, its) ==
  LET due == {i \in Item : Ready(its, i) /\ NeedsApproval(i)} IN
  IF due # {} THEN Goto(d, "ask", <<First(due), 0>>) ELSE Goto(d, "claim", None)

Look(d) ==
  /\ at[d] = "look"
  /\ \/ (status \in Terminal \cup {"waiting_approval"} \/ paused) /\ Stop(d)
     \/ status = "planned" /\ ~paused /\ Goto(d, "start", None)
     \/ status = "active" /\ ~paused /\ Onwards(d, items)
  /\ UNCHANGED <<mission, delivery, faults>>

Start(d) ==
  /\ at[d] = "start"
  /\ IF status = "planned"
     THEN status' = "active" /\ paused' = FALSE /\ Onwards(d, items)
     ELSE Stop(d) /\ UNCHANGED <<status, paused>>
  /\ UNCHANGED <<items, ticks, unresolved, loops, approvals, candidates, artifacts, gate,
                 grounded, delivery, faults>>

\* Mutant of RequestApproval: the item is not looked at again.
AskAnyway(d) ==
  /\ at[d] = "ask"
  /\ LET i == work[d][1] IN
     /\ items' = WithStatus(items, i, "waiting_approval")
     /\ approvals' = [approvals EXCEPT ![i] = approvals[i] + 1]
     /\ status' = "waiting_approval"
  /\ Goto(d, "look", None)
  /\ UNCHANGED <<paused, ticks, unresolved, loops, candidates, artifacts, gate, grounded,
                 delivery, faults>>

\* The status of the mission is not looked at again.
RequestApproval(d) ==
  /\ at[d] = "ask"
  /\ LET i == work[d][1] IN
     IF items[i].status = "pending"
     THEN /\ items' = WithStatus(items, i, "waiting_approval")
          /\ approvals' = [approvals EXCEPT ![i] = approvals[i] + 1]
          /\ status' = "waiting_approval"
          /\ Goto(d, "look", None)
     ELSE Stop(d) /\ UNCHANGED <<items, approvals, status>>
  /\ UNCHANGED <<paused, ticks, unresolved, loops, candidates, artifacts, gate, grounded, delivery, faults>>

\* reconcile, of the state that the claim has left.
Conclude(d, its) ==
  IF \A i \in Item : Done(its, i) THEN Goto(d, "conclude", None)
  ELSE IF \E i \in Item : its[i].status \in {"pending", "running", "waiting_approval"}
  THEN Goto(d, "look", None)
  ELSE Goto(d, "give up", None)

Claim(d) ==
  /\ at[d] = "claim"
  /\ LET ready == {i \in Item : Ready(items, i)}
         i == First(ready)
     IN \/ /\ status # "active" \/ paused
           /\ IF status \in Terminal \cup {"waiting_approval"} THEN Goto(d, "look", None)
              ELSE Conclude(d, items)
           /\ UNCHANGED <<status, items, ticks>>
        \/ /\ status = "active" /\ ~paused /\ ticks >= MaxTicks
           /\ status' = "partial"
           /\ Goto(d, "look", None)
           /\ UNCHANGED <<items, ticks>>
        \/ /\ status = "active" /\ ~paused /\ ticks < MaxTicks
           /\ ready # {} => NeedsApproval(i)
           /\ Conclude(d, items)
           /\ UNCHANGED <<status, items, ticks>>
        \/ /\ status = "active" /\ ~paused /\ ticks < MaxTicks
           /\ ready # {} /\ Kind[i] = "join"
           /\ items' = Tried(items, i, "completed")
           /\ ticks' = ticks + 1
           /\ Conclude(d, items')
           /\ UNCHANGED status
        \/ /\ status = "active" /\ ~paused /\ ticks < MaxTicks
           /\ ready # {} /\ Kind[i] # "join" /\ ~NeedsApproval(i)
           /\ items' = Tried(items, i, "running")
           /\ ticks' = ticks + 1
           /\ Goto(d, "prepare", <<i, items[i].attempts + 1>>)
           /\ UNCHANGED status
  /\ UNCHANGED <<paused, unresolved, loops, approvals, candidates, artifacts, gate,
                 grounded, delivery, faults>>

Working(d) == at[d] \in {"prepare", "execute", "report"}

Current(w) == items[w[1]].status = "running" /\ items[w[1]].attempts = w[2]

\* The execution is prepared, and the mission must still be where it was.  What
\* throws here is not caught by the tick: the driver stops, the item stays claimed.
Prepare(d) ==
  /\ at[d] = "prepare"
  /\ (Current(work[d]) /\ Goto(d, "execute", work[d])) \/ Stop(d)
  /\ UNCHANGED <<mission, delivery, faults>>

\* The agent works, which may take any time.  An agent that throws is one that
\* fails; that its report does not verify ends the driver.
Execute(d) ==
  /\ at[d] = "execute"
  /\ Goto(d, "report", work[d]) \/ Stop(d)
  /\ UNCHANGED <<mission, delivery, faults>>

-----------------------------------------------------------------------------
(* completeClaim *)

RepairKind(type) ==
  CASE type = "evidence_gap" -> "research"
    [] type \in {"design_error", "requirements_error"} -> "plan"
    [] type = "security_risk" -> "human_approval"
    [] OTHER -> "develop"

\* routeFailure: its and the status after the failure of item i.
Route(i, type, retryable) ==
  LET targets == {j \in Item : Kind[j] = RepairKind(type)}
      target == First(targets)
      failed == WithStatus(items, i, "failed")
      again == WithStatus(failed, i, "pending")
  IN IF retryable /\ items[i].attempts < MaxAttempts[i] /\ targets # {}
     THEN /\ items' = IF again[target].status \in {"completed", "failed"}
                      THEN WithStatus(again, target, "pending") ELSE again
          /\ loops' = loops \cup {i}
          /\ UNCHANGED status
     ELSE items' = failed /\ status' \in {"failed", "partial"} /\ UNCHANGED loops

\* Mutant of Promoted: whoever has produced it.
PromotedAll(i) == candidates \cup {<<i, items[i].attempts>>}

\* An independent verification promotes what others have produced.
Promoted(i) == {c \in candidates : Role[c[1]] # Role[i]}

\* The agent may have made nothing, and a verification may have found nothing.
Succeed(i, report, delivers, verifies) ==
  LET made == IF Simulation \/ ~delivers THEN {} ELSE {report}
      promoted == IF ~Simulation /\ Kind[i] = "verify" /\ verifies THEN Promoted(i) ELSE {}
  IN /\ items' = WithStatus(items, i, "completed")
     /\ unresolved' = {f \in unresolved : ~(f[1] = i /\ f[2] < items[i].attempts)}
     /\ loops' = loops \ {i}
     /\ candidates' = (candidates \cup made) \ promoted
     /\ artifacts' = artifacts \cup promoted
     /\ UNCHANGED status

\* Mutant of StillClaimed: the attempt is not compared.
StillRunning(w) == items[w[1]].status = "running"

StillClaimed(w) == Current(w)

\* The status of the mission is not looked at.
CompleteClaim(d) ==
  /\ at[d] = "report"
  /\ LET i == work[d][1] IN
     \/ /\ ~StillClaimed(work[d])
        /\ Stop(d)
        /\ UNCHANGED <<status, items, unresolved, loops, candidates, artifacts>>
     \/ /\ StillClaimed(work[d])
        /\ \E delivers, verifies \in BOOLEAN : Succeed(i, work[d], delivers, verifies)
        /\ Goto(d, "look", None)
     \/ /\ StillClaimed(work[d])
        /\ \E type \in FailureTypes, retryable \in BOOLEAN : Route(i, type, retryable)
        /\ unresolved' = unresolved \cup {<<i, items[i].attempts>>}
        /\ Goto(d, "look", None)
        /\ UNCHANGED <<candidates, artifacts>>
  /\ UNCHANGED <<paused, ticks, approvals, gate, grounded, delivery, faults>>

-----------------------------------------------------------------------------
(* reconcile: on a state read before, and nothing is looked at again *)

ConcludeAll(d) ==
  /\ at[d] = "conclude"
  /\ LET verified == artifacts # {} \/ ~ProducesCode IN
     /\ status' = IF Simulation THEN "simulated"
                  ELSE IF verified /\ grounded THEN "completed" ELSE "partial"
     /\ gate' = (~Simulation /\ verified /\ grounded /\ unresolved = {})
  /\ Goto(d, "look", None)
  /\ UNCHANGED <<paused, items, ticks, unresolved, loops, approvals, candidates, artifacts,
                 grounded, delivery, faults>>

\* An item has failed, so there are failures, if only such as were made good.
GiveUp(d) ==
  /\ at[d] = "give up"
  /\ status' = "failed"
  /\ Goto(d, "look", None)
  /\ UNCHANGED <<paused, items, ticks, unresolved, loops, approvals, candidates, artifacts,
                 gate, grounded, delivery, faults>>

-----------------------------------------------------------------------------
(* The operator *)

Pause ==
  /\ status \notin Terminal /\ paused' = TRUE
  /\ UNCHANGED <<status, items, ticks, unresolved, loops, approvals, candidates, artifacts,
                 gate, grounded, delivery, at, work, faults>>

Resume ==
  /\ status \notin Terminal /\ paused' = FALSE
  /\ status' = IF status = "planned" THEN "active" ELSE status
  /\ UNCHANGED <<items, ticks, unresolved, loops, approvals, candidates, artifacts, gate,
                 grounded, delivery, at, work, faults>>

Abort ==
  /\ status \notin Terminal /\ status' = "aborted"
  /\ UNCHANGED <<paused, items, ticks, unresolved, loops, approvals, candidates, artifacts,
                 gate, grounded, delivery, at, work, faults>>

\* The status of the mission is not looked at: an approval that was pending
\* when it was aborted can still be given.
Decide(i, approved) ==
  /\ approvals[i] > 0
  /\ approvals' = [approvals EXCEPT ![i] = approvals[i] - 1]
  /\ items' = IF approved THEN Tried(items, i, "completed") ELSE WithStatus(items, i, "failed")
  /\ status' = IF approved THEN "active" ELSE "failed"
  /\ unresolved' = IF approved THEN unresolved ELSE unresolved \cup {<<i, 0>>}
  /\ UNCHANGED <<paused, ticks, loops, candidates, artifacts, gate, grounded, delivery, at, work, faults>>

\* Mutant of RetryWorkItem: also of a mission that was completed.
RetryAnyway(i) ==
  /\ items[i].attempts < MaxAttempts[i]
  /\ items' = WithStatus(items, i, "pending")
  /\ status' = "active" /\ paused' = FALSE
  /\ UNCHANGED <<ticks, unresolved, loops, approvals, candidates, artifacts, gate, grounded, delivery,
                 at, work, faults>>

RetryWorkItem(i) ==
  /\ status \notin {"completed", "simulated", "aborted"}
  /\ items[i].status \in {"failed", "pending"}
  /\ items[i].attempts < MaxAttempts[i]
  /\ items' = WithStatus(items, i, "pending")
  /\ status' = "active" /\ paused' = FALSE
  /\ UNCHANGED <<ticks, unresolved, loops, approvals, candidates, artifacts, gate, grounded, delivery,
                 at, work, faults>>

\* Items that run, whether their driver died or is only slow, are taken back.
\* Their attempts stay as they are: the next claim counts.
RecoverInterrupted ==
  /\ \E old \in SUBSET {i \in Item : items[i].status = "running"} :
       /\ old # {}
       /\ items' = [i \in Item |-> IF i \in old THEN WithStatus(items, i, "pending")[i]
                                   ELSE items[i]]
  /\ status' = IF status \in Terminal THEN status ELSE "active"
  /\ UNCHANGED <<paused, ticks, unresolved, loops, approvals, candidates, artifacts, gate,
                 grounded, delivery, at, work, faults>>

-----------------------------------------------------------------------------
(* Delivery.  Its id follows from its artifacts and target, so a proposal made *)
(* again has the same id, and it is the first approval with it that counts.    *)

ProposeDelivery ==
  /\ status \in {"completed", "partial"} /\ artifacts # {}
  /\ Len(deliveries) < MaxProposals
  /\ deliveries' = Append(deliveries, "pending")
  /\ UNCHANGED <<mission, executed, courier, effects, at, work, faults>>

\* Mutant of Approved: an approval that nobody has denied counts.
ApprovedOnce == \E n \in DOMAIN deliveries : deliveries[n] # "denied"

Approved == deliveries # << >> /\ deliveries[1] = "approved"

DecideDelivery(n, decision) ==
  /\ n \in DOMAIN deliveries /\ deliveries[n] = "pending"
  /\ deliveries' = [deliveries EXCEPT ![n] = decision]
  /\ UNCHANGED <<mission, executed, courier, effects, at, work, faults>>

ReadDelivery(e) ==
  /\ courier[e] = "off"
  /\ deliveries # << >> /\ ~executed /\ Approved
  /\ courier' = [courier EXCEPT ![e] = "deliver"]
  /\ UNCHANGED <<mission, deliveries, executed, effects, at, work, faults>>

\* The adapter delivers, and no transaction is open.
Deliver(e) ==
  /\ courier[e] = "deliver"
  /\ effects' = effects + 1
  /\ courier' = [courier EXCEPT ![e] = "commit"]
  /\ UNCHANGED <<mission, deliveries, executed, at, work, faults>>

CommitDelivery(e) ==
  /\ courier[e] = "commit"
  /\ executed' = (executed \/ Approved)
  /\ courier' = [courier EXCEPT ![e] = "off"]
  /\ UNCHANGED <<mission, deliveries, effects, at, work, faults>>

-----------------------------------------------------------------------------
DriverDies(d) ==
  /\ at[d] # "off" /\ faults < MaxFaults
  /\ faults' = faults + 1
  /\ Stop(d)
  /\ UNCHANGED <<mission, delivery>>

CourierDies(e) ==
  /\ courier[e] # "off" /\ faults < MaxFaults
  /\ faults' = faults + 1
  /\ courier' = [courier EXCEPT ![e] = "off"]
  /\ UNCHANGED <<mission, deliveries, executed, effects, at, work>>

Tick(d) ==
  \/ Look(d) \/ Start(d) \/ RequestApproval(d) \/ Claim(d) \/ Prepare(d) \/ Execute(d)
  \/ CompleteClaim(d) \/ ConcludeAll(d) \/ GiveUp(d)

Operate ==
  \/ Pause \/ Resume \/ Abort \/ RecoverInterrupted
  \/ \E i \in Item : RetryWorkItem(i) \/ \E approved \in BOOLEAN : Decide(i, approved)

Ship ==
  \/ ProposeDelivery
  \/ \E n \in DOMAIN deliveries, decision \in {"approved", "denied"} : DecideDelivery(n, decision)
  \/ \E e \in Courier : ReadDelivery(e) \/ Deliver(e) \/ CommitDelivery(e) \/ CourierDies(e)

Next ==
  \/ \E d \in Driver : Launch(d) \/ Tick(d) \/ DriverDies(d)
  \/ Operate
  \/ Ship

Spec == Init /\ [][Next]_vars

-----------------------------------------------------------------------------
(* What makes a mission correct *)

\* An approval is pending for exactly the items that wait for one: none is lost
\* and none can be decided twice, though drivers ask and operators decide,
\* retry and recover on states that others have changed.
ApprovalsMatchItems ==
  \A i \in Item : approvals[i] = IF items[i].status = "waiting_approval" THEN 1 ELSE 0

\* Every attempt at an item has one driver, and as long as it is at work, nobody
\* else completes or fails the item under its number: a driver that was taken
\* for dead, and whose item was given out again, is not heard.
OneWorkerIsHeard ==
  \A d \in Driver :
    Working(d) => /\ \A e \in Driver \ {d} : Working(e) => work[e] # work[d]
                  /\ work[d][2] = items[work[d][1]].attempts
                       => items[work[d][1]].status \in {"running", "pending"}

\* The quality gate is passed by a mission whose items are all completed,
\* whose failures were all made good and whose repair loops have ended, on
\* artifacts that none but another role has verified.  The mission is completed,
\* or a driver has given it up afterwards on what it had read before a retry.
GateIsEarned ==
  gate => /\ \A i \in Item : Done(items, i)
          /\ unresolved = {} /\ loops = {}
          /\ ProducesCode => artifacts # {}
          /\ status \in {"completed", "failed"}
          /\ \A a \in artifacts : \E v \in Item : Kind[v] = "verify" /\ Role[v] # Role[a[1]]

\* A mission that was completed stays completed, with the items and the gate it
\* had, whatever a driver concludes late from a state it read before; but one
\* that had found nothing left to run, before an operator's retry, may still
\* write that the mission has failed.
CompletedIsFinal ==
  [][(status \in {"completed", "simulated"}) =>
       /\ status' = status \/ \E d \in Driver : at[d] = "give up" /\ status' = "failed"
       /\ items' = items /\ artifacts' = artifacts
       /\ gate => gate']_vars

\* What needs an approval is delivered only if it was approved, and stays
\* approved from then on.
DeliveriesAreApproved == effects > 0 \/ executed => Approved
===============================================================================

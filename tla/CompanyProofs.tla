----------------------------- MODULE CompanyProofs -----------------------------
(***************************************************************************)
(* For any mission, any number of drivers and couriers, any attempts, ticks  *)
(* and deaths: an approval is pending for exactly the items that wait for    *)
(* one, an attempt has one driver that is heard, what was completed stays    *)
(* completed, the gate is earned, and what is delivered was approved.        *)
(***************************************************************************)
EXTENDS Company, WellFoundedInduction, TLAPS

Items == [Item -> [status : ItemStatus, attempts : Nat]]

\* The items that drivers work on.
Worked(i) == Kind[i] \notin {"human_approval", "join"}

AllDone == \A i \in Item : Done(items, i)
Verified == artifacts # {} \/ ~ProducesCode

\* What a driver has read when it asks for an approval, and what it was given
\* when it claimed: an attempt that the item has had.
WorkIsGiven ==
  \A d \in Driver :
    /\ at[d] = "ask" => work[d] \in Result /\ NeedsApproval(work[d][1])
    /\ Working(d) => /\ work[d] \in Result
                     /\ Worked(work[d][1])
                     /\ work[d][2] <= items[work[d][1]].attempts

Held == TypeOK /\ WorkIsGiven

OnlyApprovalsWait == \A i \in Item : items[i].status = "waiting_approval" => NeedsApproval(i)

Waits == ApprovalsMatchItems /\ OnlyApprovalsWait

\* A repair loop is of an item that a driver has failed and none has completed since.
LoopsRunOn == \A i \in loops : Worked(i) /\ ~Done(items, i)

\* What a driver has found to be completed is completed.
ConcludesWhatIsDone == \A d \in Driver : at[d] = "conclude" => AllDone

\* A mission ends well only when everything is done, and as what it is.
EndsAsItIs ==
  /\ status = "completed" => AllDone /\ Verified /\ grounded /\ ~Simulation
  /\ status = "simulated" => AllDone /\ Simulation

GateStands ==
  gate => /\ AllDone /\ unresolved = {} /\ Verified /\ grounded /\ ~Simulation
          /\ status \in {"completed", "failed"}

Ends == ConcludesWhatIsDone /\ EndsAsItIs /\ GateStands

PromotedByOthers ==
  \A a \in artifacts : \E v \in Item : Kind[v] = "verify" /\ Role[v] # Role[a[1]]

\* Who is about to deliver has read an approval, and an approval stands.
CouriersHoldApproval == \A e \in Courier : courier[e] # "off" => Approved

Sound ==
  /\ Held /\ Waits /\ OneWorkerIsHeard /\ LoopsRunOn /\ Ends /\ PromotedByOthers
  /\ DeliveriesAreApproved /\ CouriersHoldApproval

-----------------------------------------------------------------------------
(* Items *)

LEMMA ItemIsNumber == Item = 1..Len(Kind) /\ Item \in SUBSET Nat
  BY CompanyAssumption DEF Item

LEMMA FirstIsIn ==
  ASSUME NEW S \in SUBSET Item, S # {}
  PROVE  First(S) \in S
<1>. DEFINE L == OpToRel(<, Nat)
<1>1. \A i, j \in Nat : i < j => <<i, j>> \in L
  BY DEF OpToRel
<1>2. IsWellFoundedOn(L, Nat)
  BY NatLessThanWellFounded
<1>. HIDE DEF L
<1>3. S \in SUBSET Nat
  BY ItemIsNumber
<1>4. PICK i \in S : \A j \in S : ~(<<j, i>> \in L)
  BY <1>2, <1>3, WFMin
<1>5. ASSUME NEW j \in S PROVE i <= j
  <2>1. i \in Nat /\ j \in Nat /\ ~(j < i)
    BY <1>1, <1>3, <1>4
  <2>. QED
    BY <2>1
<1>. QED
  BY <1>5 DEF First

\* What the two ways of writing an item do.
LEMMA WithStatusAt ==
  ASSUME NEW its \in Items, NEW i \in Item, NEW s \in ItemStatus
  PROVE  /\ WithStatus(its, i, s) \in Items
         /\ WithStatus(its, i, s)[i].status = s
         /\ \A j \in Item : /\ WithStatus(its, i, s)[j].attempts = its[j].attempts
                            /\ its[j].attempts <= WithStatus(its, i, s)[j].attempts
                            /\ j # i => WithStatus(its, i, s)[j] = its[j]
<1>. DEFINE new == WithStatus(its, i, s)
<1>1. \A j \in Item : its[j].attempts \in Nat
  BY DEF Items
<1>2. new \in Items /\ new[i].status = s
      /\ \A j \in Item : new[j].attempts = its[j].attempts /\ (j # i => new[j] = its[j])
  BY DEF WithStatus, Items
<1>. HIDE DEF new
<1>3. \A j \in Item : its[j].attempts <= new[j].attempts
  BY <1>1, <1>2
<1>. QED
  BY <1>2, <1>3 DEF new

LEMMA TriedAt ==
  ASSUME NEW its \in Items, NEW i \in Item, NEW s \in ItemStatus
  PROVE  /\ Tried(its, i, s) \in Items
         /\ Tried(its, i, s)[i].status = s
         /\ Tried(its, i, s)[i].attempts = its[i].attempts + 1
         /\ \A j \in Item : its[j].attempts <= Tried(its, i, s)[j].attempts
         /\ \A j \in Item \ {i} : Tried(its, i, s)[j] = its[j]
<1>. DEFINE new == Tried(its, i, s)
<1>1. \A j \in Item : its[j].attempts \in Nat
  BY DEF Items
<1>2. its[i].attempts + 1 \in Nat
  BY <1>1
<1>3. new \in Items /\ new[i].status = s /\ new[i].attempts = its[i].attempts + 1
      /\ \A j \in Item \ {i} : new[j] = its[j]
  BY <1>2 DEF Tried, Items
<1>. HIDE DEF new
<1>4. \A j \in Item : its[j].attempts <= new[j].attempts
  BY <1>1, <1>3
<1>. QED
  BY <1>3, <1>4 DEF new

LEMMA Gone ==
  ASSUME TypeOK, NEW d \in Driver, NEW step, NEW w, Goto(d, step, w)
  PROVE  /\ at'[d] = step /\ work'[d] = w
         /\ \A e \in Driver \ {d} : at'[e] = at[e] /\ work'[e] = work[e]
  BY DEF TypeOK, Goto

-----------------------------------------------------------------------------
(* Types *)

LEMMA InitHeld == Init => Held
<1>1. ASSUME NEW i \in Item PROVE Init => items[i] \in [status : ItemStatus, attempts : Nat]
  BY DEF Init, ItemStatus
<1>2. Init => items \in Items
  BY <1>1 DEF Init, Items, ItemStatus
<1>3. << >> \in Seq({"pending", "approved", "denied"})
  OBVIOUS
<1>4. Init => WorkIsGiven
  BY DEF Init, WorkIsGiven, Working
<1>5. ASSUME Init PROVE TypeOK
  <2>1. status \in {"planned", "active", "waiting_approval"} \cup Terminal /\ paused \in BOOLEAN
        /\ gate \in BOOLEAN /\ grounded \in BOOLEAN /\ executed \in BOOLEAN
    BY <1>5 DEF Init
  <2>2. ticks \in 0..MaxTicks /\ faults \in 0..MaxFaults /\ effects \in Nat
    BY <1>5, CompanyAssumption DEF Init
  <2>3. /\ unresolved \subseteq Result /\ candidates \subseteq Result /\ artifacts \subseteq Result
        /\ loops \subseteq Item /\ approvals \in [Item -> Nat]
    BY <1>5 DEF Init
  <2>4. /\ at \in [Driver -> {"off", "look", "start", "ask", "claim", "prepare", "execute",
                              "report", "conclude", "give up"}]
        /\ work \in [Driver -> Result \cup {None}]
        /\ courier \in [Courier -> {"off", "deliver", "commit"}]
    BY <1>5 DEF Init
  <2>. QED
    BY <1>2, <1>3, <1>5, <2>1, <2>2, <2>3, <2>4 DEF TypeOK, Items, Init
<1>. QED
  BY <1>4, <1>5 DEF Held

\* The parts of the types that a step of a driver changes in any case.
AtStep == {"off", "look", "start", "ask", "claim", "prepare", "execute", "report", "conclude",
           "give up"}

LEMMA IsItemStatus ==
  /\ "pending" \in ItemStatus /\ "running" \in ItemStatus /\ "waiting_approval" \in ItemStatus
  /\ "completed" \in ItemStatus /\ "failed" \in ItemStatus
  BY DEF ItemStatus

LEMMA IsStep ==
  /\ {"off", "look", "start", "ask", "claim", "prepare", "execute", "report", "conclude",
      "give up"} = AtStep
  /\ "off" \in AtStep /\ "look" \in AtStep /\ "start" \in AtStep /\ "ask" \in AtStep
  /\ "claim" \in AtStep /\ "prepare" \in AtStep /\ "execute" \in AtStep /\ "report" \in AtStep
  /\ "conclude" \in AtStep /\ "give up" \in AtStep
  BY DEF AtStep

LEMMA GoesOn ==
  ASSUME TypeOK, WorkIsGiven, NEW d \in Driver, NEW step \in AtStep, NEW w \in Result \cup {None},
         Goto(d, step, w),
         items' \in Items, \A i \in Item : items[i].attempts <= items'[i].attempts,
         step = "ask" => w \in Result /\ NeedsApproval(w[1]),
         step \in {"prepare", "execute", "report"} =>
           w \in Result /\ Worked(w[1]) /\ w[2] <= items'[w[1]].attempts
  PROVE  /\ at' \in [Driver -> AtStep] /\ work' \in [Driver -> Result \cup {None}]
         /\ WorkIsGiven'
<1>1. at' \in [Driver -> AtStep] /\ work' \in [Driver -> Result \cup {None}]
  BY DEF TypeOK, Goto, AtStep
<1>2. ASSUME NEW e \in Driver
      PROVE  /\ at'[e] = "ask" => work'[e] \in Result /\ NeedsApproval(work'[e][1])
             /\ Working(e)' => /\ work'[e] \in Result /\ Worked(work'[e][1])
                               /\ work'[e][2] <= items'[work'[e][1]].attempts
  <2>1. CASE e = d
    BY <2>1, Gone DEF Working
  <2>2. CASE e # d
    <3>1. at'[e] = at[e] /\ work'[e] = work[e]
      BY <2>2, Gone
    <3>2. ASSUME Working(e)
          PROVE  /\ work[e] \in Result /\ Worked(work[e][1])
                 /\ work[e][2] <= items'[work[e][1]].attempts
      <4>1. work[e] \in Result /\ Worked(work[e][1]) /\ work[e][2] <= items[work[e][1]].attempts
        BY <3>2 DEF WorkIsGiven
      <4>2. work[e][1] \in Item /\ work[e][2] \in Nat
        BY <4>1 DEF Result
      <4>3. items[work[e][1]].attempts \in Nat /\ items'[work[e][1]].attempts \in Nat
        BY <4>2 DEF TypeOK, Items
      <4>. QED
        BY <4>1, <4>2, <4>3
    <3>. QED
      BY <3>1, <3>2 DEF WorkIsGiven, Working
  <2>. QED
    BY <2>1, <2>2
<1>. QED
  BY <1>1, <1>2 DEF WorkIsGiven

\* Without an item in hand.
LEMMA GoesFree ==
  ASSUME Held, items' = items, NEW d \in Driver, NEW step \in AtStep, Goto(d, step, None),
         step \notin {"ask", "prepare", "execute", "report"}
  PROVE  /\ at' \in [Driver -> AtStep] /\ work' \in [Driver -> Result \cup {None}]
         /\ WorkIsGiven'
<1>0. items \in Items
  BY DEF Held, TypeOK, Items
<1>1. items' \in Items /\ \A i \in Item : items[i].attempts <= items'[i].attempts
  BY <1>0 DEF Items
<1>2. step # "ask" /\ step \notin {"prepare", "execute", "report"}
  OBVIOUS
<1>3. None \in Result \cup {None}
  OBVIOUS
<1>. QED
  BY <1>1, <1>2, <1>3, GoesOn DEF Held

LEMMA StaysGiven ==
  ASSUME TypeOK, WorkIsGiven, at' = at, work' = work,
         items' \in Items, \A i \in Item : items[i].attempts <= items'[i].attempts
  PROVE  WorkIsGiven'
<1>1. ASSUME NEW e \in Driver, Working(e) PROVE work[e][2] <= items'[work[e][1]].attempts
  <2>1. work[e] \in Result /\ work[e][2] <= items[work[e][1]].attempts
    BY <1>1 DEF WorkIsGiven
  <2>2. work[e][1] \in Item /\ work[e][2] \in Nat
    BY <2>1 DEF Result
  <2>3. items[work[e][1]].attempts \in Nat /\ items'[work[e][1]].attempts \in Nat
    BY <2>2 DEF TypeOK, Items
  <2>. QED
    BY <2>1, <2>2, <2>3
<1>. QED
  BY <1>1 DEF WorkIsGiven, Working

LEMMA OnwardsGoes ==
  ASSUME Held, items \in Items, NEW d \in Driver, Onwards(d, items), UNCHANGED items
  PROVE  /\ WorkIsGiven' /\ at' \in [Driver -> AtStep] /\ work' \in [Driver -> Result \cup {None}]
         /\ at'[d] # "conclude"
<1>. DEFINE due == {i \in Item : Ready(items, i) /\ NeedsApproval(i)}
<1>1. \A i \in Item : items[i].attempts <= items[i].attempts
  BY DEF Items
<1>2. CASE due # {}
  <2>. DEFINE w == <<First(due), 0>>
  <2>1. First(due) \in due
    BY <1>2, FirstIsIn
  <2>2. w \in Result /\ NeedsApproval(w[1])
    BY <2>1 DEF Result
  <2>3. Goto(d, "ask", w)
    BY <1>2 DEF Onwards
  <2>. HIDE DEF w
  <2>. QED
    BY <1>1, <2>2, <2>3, GoesOn, IsStep, Gone DEF Held
<1>3. CASE due = {}
  <2>1. Goto(d, "claim", None)
    BY <1>3 DEF Onwards
  <2>. QED
    <3>1. at'[d] = "claim"
      BY <2>1, Gone DEF Held
    <3>. QED
      BY <2>1, <3>1, GoesFree, IsStep
<1>. QED
  BY <1>2, <1>3

LEMMA ConcludeGoes ==
  ASSUME NEW its, NEW d \in Driver, Conclude(d, its)
  PROVE  \E step \in AtStep :
           /\ Goto(d, step, None) /\ step \in {"look", "conclude", "give up"}
           /\ step = "conclude" => \A i \in Item : Done(its, i)
  BY DEF Conclude, AtStep

\* The ways in which a claim ends: nothing is changed, a join is completed, or
\* an item is given to the driver.
JoinsItem(d, i) ==
  /\ status = "active" /\ items[i].status = "pending" /\ Kind[i] = "join"
  /\ items' = Tried(items, i, "completed") /\ Conclude(d, items') /\ UNCHANGED status

ClaimsItem(d, i) ==
  /\ status = "active" /\ items[i].status = "pending" /\ Kind[i] # "join" /\ ~NeedsApproval(i)
  /\ items' = Tried(items, i, "running") /\ Goto(d, "prepare", <<i, items[i].attempts + 1>>)
  /\ UNCHANGED status

LEMMA ClaimCases ==
  ASSUME NEW d \in Driver, Claim(d)
  PROVE  \/ /\ UNCHANGED items
            /\ Goto(d, "look", None) \/ Conclude(d, items)
            /\ status' = status \/ (status = "active" /\ status' = "partial")
         \/ \E i \in Item : JoinsItem(d, i) \/ ClaimsItem(d, i)
<1>. DEFINE ready == {i \in Item : Ready(items, i)}
             i == First(ready)
<1>1. CASE ready # {}
  <2>1. i \in ready
    BY <1>1, FirstIsIn
  <2>2. i \in Item /\ items[i].status = "pending"
    BY <2>1 DEF Ready
  <2>. HIDE DEF i
  <2>3. i = First({j \in Item : Ready(items, j)}) /\ {j \in Item : Ready(items, j)} # {}
    BY <1>1 DEF i
  <2>. QED
    BY <2>2, <2>3 DEF Claim, JoinsItem, ClaimsItem
<1>2. CASE ready = {}
  BY <1>2 DEF Claim
<1>. QED
  BY <1>1, <1>2

\* Where a failure is routed: item i is failed or pending again, and another
\* item that was over may be pending again.
LEMMA RouteAt ==
  ASSUME items \in Items, NEW i \in Item, NEW type, NEW retryable, Route(i, type, retryable)
  PROVE  /\ items' \in Items
         /\ \A j \in Item : items'[j].attempts = items[j].attempts
         /\ \A j \in Item : items[j].attempts <= items'[j].attempts
         /\ \/ items'[i].status = "pending" /\ loops' = loops \cup {i} /\ status' = status
            \/ /\ items'[i].status = "failed" /\ loops' = loops /\ status' \in {"failed", "partial"}
         /\ \A j \in Item \ {i} :
              \/ items'[j] = items[j]
              \/ items[j].status \in {"completed", "failed"} /\ items'[j].status = "pending"
<1>. DEFINE targets == {j \in Item : Kind[j] = RepairKind(type)}
             target == First(targets)
             failed == WithStatus(items, i, "failed")
             again == WithStatus(failed, i, "pending")
<1>1. failed \in Items /\ failed[i].status = "failed"
      /\ \A j \in Item : /\ failed[j].attempts = items[j].attempts
                         /\ j # i => failed[j] = items[j]
  BY WithStatusAt, IsItemStatus
<1>2. again \in Items /\ again[i].status = "pending"
      /\ \A j \in Item : /\ again[j].attempts = items[j].attempts
                         /\ j # i => again[j] = items[j]
  <2>. HIDE DEF failed
  <2>. QED
    BY <1>1, WithStatusAt, IsItemStatus
<1>3. \A j \in Item : items[j].attempts \in Nat
  BY DEF Items
<1>4. CASE ~(retryable /\ items[i].attempts < MaxAttempts[i] /\ targets # {})
  <2>1. items' = failed /\ status' \in {"failed", "partial"} /\ loops' = loops
    BY <1>4 DEF Route
  <2>. HIDE DEF failed
  <2>. QED
    BY <1>1, <1>3, <2>1
<1>5. CASE retryable /\ items[i].attempts < MaxAttempts[i] /\ targets # {}
  <2>1. target \in Item
    BY <1>5, FirstIsIn
  <2>2. /\ items' = IF again[target].status \in {"completed", "failed"}
                    THEN WithStatus(again, target, "pending") ELSE again
        /\ loops' = loops \cup {i} /\ status' = status
    BY <1>5 DEF Route
  <2>. HIDE DEF again, target
  <2>3. CASE again[target].status \in {"completed", "failed"}
    <3>1. target # i
      BY <1>2, <2>3
    <3>0. items' = WithStatus(again, target, "pending")
      BY <2>2, <2>3
    <3>2. /\ items' \in Items /\ items'[target].status = "pending"
          /\ \A j \in Item : /\ items'[j].attempts = again[j].attempts
                             /\ j # target => items'[j] = again[j]
      <4>1. again \in Items /\ "pending" \in ItemStatus
        BY <1>2, IsItemStatus
      <4>. QED
        BY <2>1, <3>0, <4>1, WithStatusAt
    <3>. QED
      BY <1>2, <1>3, <2>1, <2>2, <2>3, <3>1, <3>2
  <2>4. CASE again[target].status \notin {"completed", "failed"}
    BY <1>2, <1>3, <2>2, <2>4
  <2>. QED
    BY <2>3, <2>4
<1>. QED
  BY <1>4, <1>5

LEMMA NextHeld ==
  ASSUME Held, [Next]_vars
  PROVE  Held'
<1>a. items \in Items
  BY DEF Held, TypeOK, Items
<1>0. items \in Items /\ \A i \in Item : items[i].attempts <= items[i].attempts
  BY <1>a DEF Items
<1>1. ASSUME NEW d \in Driver, Launch(d)
      PROVE  Held'
  <2>1. WorkIsGiven' /\ at' \in [Driver -> AtStep] /\ work' \in [Driver -> Result \cup {None}]
    BY <1>1, <1>0, GoesFree, IsStep DEF Launch, Stop, mission
  <2>. QED
    BY <1>1, <2>1 DEF Held, Launch, TypeOK, AtStep, Items, mission, delivery
<1>2. ASSUME NEW d \in Driver, Look(d)
      PROVE  Held'
  <2>1. ASSUME Onwards(d, items), UNCHANGED items
        PROVE  WorkIsGiven' /\ at' \in [Driver -> AtStep] /\ work' \in [Driver -> Result \cup {None}]
    BY <2>1, <1>0, OnwardsGoes
  <2>2. ASSUME Stop(d) \/ Goto(d, "start", None), UNCHANGED items
        PROVE  WorkIsGiven' /\ at' \in [Driver -> AtStep] /\ work' \in [Driver -> Result \cup {None}]
    BY <2>2, <1>0, GoesFree, IsStep DEF Stop
  <2>3. WorkIsGiven' /\ at' \in [Driver -> AtStep] /\ work' \in [Driver -> Result \cup {None}]
    BY <1>2, <2>1, <2>2 DEF Look, mission
  <2>. QED
    BY <1>2, <2>3 DEF Held, Look, TypeOK, AtStep, mission, delivery
<1>3. ASSUME NEW d \in Driver, Start(d)
      PROVE  Held'
  <2>1. ASSUME Onwards(d, items), UNCHANGED items
        PROVE  WorkIsGiven' /\ at' \in [Driver -> AtStep] /\ work' \in [Driver -> Result \cup {None}]
    BY <2>1, <1>0, OnwardsGoes
  <2>2. ASSUME Stop(d), UNCHANGED items
        PROVE  WorkIsGiven' /\ at' \in [Driver -> AtStep] /\ work' \in [Driver -> Result \cup {None}]
    BY <2>2, <1>0, GoesFree, IsStep DEF Stop
  <2>3. WorkIsGiven' /\ at' \in [Driver -> AtStep] /\ work' \in [Driver -> Result \cup {None}]
    BY <1>3, <2>1, <2>2 DEF Start, mission
  <2>. QED
    BY <1>3, <2>3 DEF Held, Start, TypeOK, AtStep, mission, delivery
<1>4. ASSUME NEW d \in Driver, RequestApproval(d)
      PROVE  Held'
  <2>. DEFINE i == work[d][1]
  <2>1. i \in Item
    BY <1>4 DEF RequestApproval, Held, WorkIsGiven, Result
  <2>2. CASE items[i].status = "pending"
    <3>1. /\ items' = WithStatus(items, i, "waiting_approval")
          /\ approvals' = [approvals EXCEPT ![i] = approvals[i] + 1]
          /\ Goto(d, "look", None)
      BY <1>4, <2>2 DEF RequestApproval
    <3>0. approvals \in [Item -> Nat] /\ i \in Item
      BY <2>1 DEF Held, TypeOK
    <3>2. i \in Item /\ approvals[i] + 1 \in Nat
      BY <3>0
    <3>. HIDE DEF i
    <3>3. items' \in Items /\ \A j \in Item : items[j].attempts <= items'[j].attempts
      BY <1>0, <3>1, <3>2, WithStatusAt, IsItemStatus
    <3>4. WorkIsGiven' /\ at' \in [Driver -> AtStep] /\ work' \in [Driver -> Result \cup {None}]
      BY <3>1, <3>3, GoesOn, IsStep DEF Held
    <3>5. approvals' \in [Item -> Nat]
      BY <3>1, <3>2 DEF Held, TypeOK
    <3>. QED
      BY <1>4, <3>3, <3>4, <3>5 DEF Held, RequestApproval, TypeOK, AtStep, Items, delivery
  <2>3. CASE items[i].status # "pending"
    <3>1. WorkIsGiven' /\ at' \in [Driver -> AtStep] /\ work' \in [Driver -> Result \cup {None}]
      BY <1>4, <1>0, <2>3, GoesFree, IsStep DEF RequestApproval, Stop
    <3>. QED
      BY <1>4, <2>3, <3>1 DEF Held, RequestApproval, TypeOK, AtStep, Items, delivery
  <2>. QED
    BY <2>2, <2>3
<1>5. ASSUME NEW d \in Driver, Claim(d)
      PROVE  Held'
  <2>1. WorkIsGiven' /\ at' \in [Driver -> AtStep] /\ work' \in [Driver -> Result \cup {None}]
        /\ items' \in Items
    <3>1. ASSUME UNCHANGED items, Goto(d, "look", None) \/ Conclude(d, items)
          PROVE  WorkIsGiven' /\ at' \in [Driver -> AtStep] /\ work' \in [Driver -> Result \cup {None}]
                 /\ items' \in Items
      BY <1>5, <1>0, <3>1, GoesFree, IsStep, ConcludeGoes, ClaimCases
    <3>2. ASSUME NEW i \in Item, JoinsItem(d, i)
          PROVE  WorkIsGiven' /\ at' \in [Driver -> AtStep] /\ work' \in [Driver -> Result \cup {None}]
                 /\ items' \in Items
      <4>1. items' \in Items /\ \A j \in Item : items[j].attempts <= items'[j].attempts
        <5>1. \A j \in Item : items[j].attempts \in Nat
          BY <1>0 DEF Items
        <5>. QED
          BY <1>0, <3>2, <5>1, TriedAt, IsItemStatus DEF JoinsItem
      <4>. QED
        BY <3>2, <4>1, GoesOn, ConcludeGoes DEF Held, JoinsItem
    <3>3. ASSUME NEW i \in Item, ClaimsItem(d, i)
          PROVE  WorkIsGiven' /\ at' \in [Driver -> AtStep] /\ work' \in [Driver -> Result \cup {None}]
                 /\ items' \in Items
      <4>1. items' \in Items /\ \A j \in Item : items[j].attempts <= items'[j].attempts
        <5>1. \A j \in Item : items[j].attempts \in Nat
          BY <1>0 DEF Items
        <5>. QED
          BY <1>0, <3>3, <5>1, TriedAt, IsItemStatus DEF ClaimsItem
      <4>2. items[i].attempts + 1 \in Nat /\ items'[i].attempts = items[i].attempts + 1
        <5>1. items[i].attempts \in Nat
          BY <1>0 DEF Items
        <5>. QED
          BY <1>0, <3>3, <5>1, TriedAt, IsItemStatus DEF ClaimsItem
      <4>3. <<i, items[i].attempts + 1>> \in Result /\ Worked(i)
        BY <3>3, <4>2 DEF Result, ClaimsItem, Worked, NeedsApproval
      <4>. DEFINE w == <<i, items[i].attempts + 1>>
      <4>4. w \in Result /\ Worked(w[1]) /\ w[2] <= items'[w[1]].attempts /\ Goto(d, "prepare", w)
        BY <3>3, <4>2, <4>3 DEF ClaimsItem
      <4>. HIDE DEF w
      <4>. QED
        BY <4>1, <4>4, GoesOn, IsStep DEF Held
    <3>. QED
      BY <1>5, <3>1, <3>2, <3>3, ClaimCases DEF Held
  <2>2. ticks' \in 0..MaxTicks
    <3>1. ticks \in 0..MaxTicks /\ MaxTicks \in Nat
      BY CompanyAssumption DEF Held, TypeOK
    <3>2. ticks' = ticks \/ (ticks < MaxTicks /\ ticks' = ticks + 1)
      BY <1>5 DEF Claim
    <3>. QED
      BY <3>1, <3>2
  <2>3. status' \in {"planned", "active", "waiting_approval"} \cup Terminal
    <3>1. status' \in {status, "partial"}
      BY <1>5 DEF Claim
    <3>. QED
      BY <3>1 DEF Held, TypeOK, Terminal
  <2>. QED
    BY <1>5, <2>1, <2>2, <2>3 DEF Held, Claim, TypeOK, AtStep, Items, delivery
<1>6. ASSUME NEW d \in Driver, Prepare(d)
      PROVE  Held'
  <2>1. \/ Goto(d, "execute", work[d]) \/ Goto(d, "report", work[d])
        \/ Goto(d, "off", None)
    BY <1>6 DEF Prepare, Stop
  <2>2. work[d] \in Result /\ Worked(work[d][1]) /\ work[d][2] <= items[work[d][1]].attempts
    BY <1>6 DEF Prepare, Held, WorkIsGiven, Working
  <2>3. WorkIsGiven' /\ at' \in [Driver -> AtStep] /\ work' \in [Driver -> Result \cup {None}]
    BY <1>6, <1>0, <2>1, <2>2, GoesOn, IsStep DEF Held, Prepare, mission
  <2>. QED
    BY <1>6, <2>3 DEF Held, Prepare, TypeOK, AtStep, mission, delivery
<1>7. ASSUME NEW d \in Driver, Execute(d)
      PROVE  Held'
  <2>1. \/ Goto(d, "execute", work[d]) \/ Goto(d, "report", work[d])
        \/ Goto(d, "off", None)
    BY <1>7 DEF Execute, Stop
  <2>2. work[d] \in Result /\ Worked(work[d][1]) /\ work[d][2] <= items[work[d][1]].attempts
    BY <1>7 DEF Execute, Held, WorkIsGiven, Working
  <2>3. WorkIsGiven' /\ at' \in [Driver -> AtStep] /\ work' \in [Driver -> Result \cup {None}]
    BY <1>7, <1>0, <2>1, <2>2, GoesOn, IsStep DEF Held, Execute, mission
  <2>. QED
    BY <1>7, <2>3 DEF Held, Execute, TypeOK, AtStep, mission, delivery
<1>8. ASSUME NEW d \in Driver, CompleteClaim(d)
      PROVE  Held'
  <2>. DEFINE i == work[d][1]
  <2>1. work[d] \in Result /\ i \in Item
    BY <1>8 DEF CompleteClaim, Held, WorkIsGiven, Working, Result
  <2>2. CASE ~StillClaimed(work[d])
    <3>1. WorkIsGiven' /\ at' \in [Driver -> AtStep] /\ work' \in [Driver -> Result \cup {None}]
      BY <1>8, <1>0, <2>2, GoesFree, IsStep DEF CompleteClaim, Stop
    <3>. QED
      BY <1>8, <2>2, <3>1 DEF Held, CompleteClaim, TypeOK, AtStep, Items, delivery
  <2>3. ASSUME NEW delivers \in BOOLEAN, NEW verifies \in BOOLEAN,
               Succeed(i, work[d], delivers, verifies), Goto(d, "look", None)
        PROVE  Held'
    <3>1. items' \in Items /\ \A j \in Item : items[j].attempts <= items'[j].attempts
      BY <1>0, <2>1, <2>3, WithStatusAt, IsItemStatus DEF Succeed
    <3>2. WorkIsGiven' /\ at' \in [Driver -> AtStep] /\ work' \in [Driver -> Result \cup {None}]
      BY <1>8, <2>3, <3>1, GoesOn, IsStep DEF Held
    <3>3. candidates' \subseteq Result /\ artifacts' \subseteq Result
      BY <2>1, <2>3 DEF Succeed, Promoted, Held, TypeOK
    <3>4. unresolved' \subseteq Result /\ loops' \subseteq Item
      BY <2>3 DEF Succeed, Held, TypeOK
    <3>. QED
      BY <1>8, <2>3, <3>1, <3>2, <3>3, <3>4
         DEF Held, CompleteClaim, Succeed, TypeOK, AtStep, Items, delivery
  <2>4. ASSUME NEW type \in FailureTypes, NEW retryable \in BOOLEAN, Route(i, type, retryable),
               unresolved' = unresolved \cup {<<i, items[i].attempts>>}, Goto(d, "look", None),
               UNCHANGED <<candidates, artifacts>>
        PROVE  Held'
    <3>1. items' \in Items /\ \A j \in Item : items[j].attempts <= items'[j].attempts
      BY <1>0, <2>1, <2>4, RouteAt
    <3>2. WorkIsGiven' /\ at' \in [Driver -> AtStep] /\ work' \in [Driver -> Result \cup {None}]
      BY <1>8, <2>4, <3>1, GoesOn, IsStep DEF Held
    <3>3. unresolved' \subseteq Result /\ loops' \subseteq Item
          /\ status' \in {"planned", "active", "waiting_approval"} \cup Terminal
      <4>1. items[i].attempts \in Nat
        BY <1>0, <2>1 DEF Items
      <4>2. unresolved' \subseteq Result
        <5>1. unresolved \subseteq Result
          BY DEF Held, TypeOK
        <5>2. <<i, items[i].attempts>> \in Result
          BY <2>1, <4>1 DEF Result
        <5>. QED
          BY <2>4, <5>1, <5>2
      <4>3. loops' \in {loops, loops \cup {i}} /\ status' \in {status, "failed", "partial"}
        BY <1>0, <2>1, <2>4, RouteAt
      <4>. QED
        BY <2>1, <4>2, <4>3 DEF Held, TypeOK, Terminal
    <3>. QED
      BY <1>8, <2>4, <3>1, <3>2, <3>3 DEF Held, CompleteClaim, TypeOK, AtStep, Items, delivery
  <2>. QED
    BY <1>8, <2>2, <2>3, <2>4 DEF CompleteClaim
<1>9. ASSUME NEW d \in Driver, ConcludeAll(d)
      PROVE  Held'
  <2>1. WorkIsGiven' /\ at' \in [Driver -> AtStep] /\ work' \in [Driver -> Result \cup {None}]
    BY <1>9, <1>0, GoesFree, IsStep DEF ConcludeAll, Stop
  <2>. QED
    BY <1>9, <2>1 DEF Held, ConcludeAll, TypeOK, AtStep, Items, mission, delivery, Terminal
<1>10. ASSUME NEW d \in Driver, GiveUp(d)
      PROVE  Held'
  <2>1. WorkIsGiven' /\ at' \in [Driver -> AtStep] /\ work' \in [Driver -> Result \cup {None}]
    BY <1>10, <1>0, GoesFree, IsStep DEF GiveUp, Stop
  <2>. QED
    BY <1>10, <2>1 DEF Held, GiveUp, TypeOK, AtStep, Items, mission, delivery, Terminal
<1>11. ASSUME NEW d \in Driver, DriverDies(d)
      PROVE  Held'
  <2>1. WorkIsGiven' /\ at' \in [Driver -> AtStep] /\ work' \in [Driver -> Result \cup {None}]
    BY <1>11, <1>0, GoesFree, IsStep DEF DriverDies, Stop, mission
  <2>2. faults' \in 0..MaxFaults
    <3>1. faults \in 0..MaxFaults /\ MaxFaults \in Nat /\ faults < MaxFaults /\ faults' = faults + 1
      BY <1>11, CompanyAssumption DEF Held, TypeOK, DriverDies
    <3>. QED
      BY <3>1
  <2>. QED
    BY <1>11, <2>1, <2>2 DEF Held, DriverDies, TypeOK, AtStep, Items, mission, delivery
<1>12. CASE Pause
  <2>1. items' \in Items /\ \A j \in Item : items[j].attempts <= items'[j].attempts
    BY <1>12, <1>0 DEF Pause
  <2>2. WorkIsGiven'
    BY <1>12, <2>1, StaysGiven DEF Held, Pause
  <2>. QED
    BY <1>12, <2>1, <2>2 DEF Held, Pause, TypeOK, Items, delivery, Terminal
<1>13. CASE Resume
  <2>1. items' \in Items /\ \A j \in Item : items[j].attempts <= items'[j].attempts
    BY <1>13, <1>0 DEF Resume
  <2>2. WorkIsGiven'
    BY <1>13, <2>1, StaysGiven DEF Held, Resume
  <2>. QED
    BY <1>13, <2>1, <2>2 DEF Held, Resume, TypeOK, Items, delivery, Terminal
<1>14. CASE Abort
  <2>1. items' \in Items /\ \A j \in Item : items[j].attempts <= items'[j].attempts
    BY <1>14, <1>0 DEF Abort
  <2>2. WorkIsGiven'
    BY <1>14, <2>1, StaysGiven DEF Held, Abort
  <2>. QED
    BY <1>14, <2>1, <2>2 DEF Held, Abort, TypeOK, Items, delivery, Terminal
<1>15. CASE RecoverInterrupted
  <2>1. PICK old \in SUBSET {i \in Item : items[i].status = "running"} :
          items' = [i \in Item |-> IF i \in old THEN WithStatus(items, i, "pending")[i] ELSE items[i]]
    BY <1>15 DEF RecoverInterrupted
  <2>2. \A i \in Item : /\ WithStatus(items, i, "pending")[i] \in [status : ItemStatus, attempts : Nat]
                        /\ WithStatus(items, i, "pending")[i].attempts = items[i].attempts
                        /\ items[i] \in [status : ItemStatus, attempts : Nat]
    <3>1. ASSUME NEW i \in Item
          PROVE  /\ WithStatus(items, i, "pending") \in Items
                 /\ WithStatus(items, i, "pending")[i].attempts = items[i].attempts
      BY <1>0, WithStatusAt, IsItemStatus
    <3>. QED
      BY <1>0, <3>1 DEF Items
  <2>b. items' \in Items /\ \A j \in Item : items'[j].attempts = items[j].attempts
    BY <2>1, <2>2 DEF Items
  <2>3. items' \in Items /\ \A j \in Item : items[j].attempts <= items'[j].attempts
    BY <1>0, <2>b
  <2>4. WorkIsGiven'
    BY <1>15, <2>3, StaysGiven DEF Held, RecoverInterrupted
  <2>. QED
    BY <1>15, <2>3, <2>4 DEF Held, RecoverInterrupted, TypeOK, Items, delivery, Terminal
<1>16. ASSUME NEW i \in Item, RetryWorkItem(i)
      PROVE  Held'
  <2>1. items' \in Items /\ \A j \in Item : items[j].attempts <= items'[j].attempts
    BY <1>16, <1>0, WithStatusAt, IsItemStatus DEF RetryWorkItem
  <2>2. WorkIsGiven'
    BY <1>16, <2>1, StaysGiven DEF Held, RetryWorkItem
  <2>. QED
    BY <1>16, <2>1, <2>2 DEF Held, RetryWorkItem, TypeOK, Items, delivery, Terminal
<1>17. ASSUME NEW i \in Item, NEW approved \in BOOLEAN, Decide(i, approved)
      PROVE  Held'
  <2>1. items' \in Items /\ \A j \in Item : items[j].attempts <= items'[j].attempts
    <3>1. \A j \in Item : items[j].attempts \in Nat
      BY <1>0 DEF Items
    <3>2. CASE approved
      BY <1>17, <1>0, <3>1, <3>2, TriedAt, IsItemStatus DEF Decide
    <3>3. CASE ~approved
      BY <1>17, <1>0, <3>3, WithStatusAt, IsItemStatus DEF Decide
    <3>. QED
      BY <3>2, <3>3
  <2>2. WorkIsGiven'
    BY <1>17, <2>1, StaysGiven DEF Held, Decide
  <2>3. approvals' \in [Item -> Nat]
    <3>1. approvals[i] \in Nat /\ approvals[i] > 0 /\ approvals' = [approvals EXCEPT ![i] = approvals[i] - 1]
      BY <1>17 DEF Held, TypeOK, Decide
    <3>2. approvals[i] - 1 \in Nat
      BY <3>1
    <3>. QED
      BY <3>1, <3>2 DEF Held, TypeOK
  <2>4. unresolved' \subseteq Result
    <3>1. unresolved \subseteq Result /\ <<i, 0>> \in Result
      BY DEF Held, TypeOK, Result
    <3>2. unresolved' \in {unresolved, unresolved \cup {<<i, 0>>}}
      BY <1>17 DEF Decide
    <3>. QED
      BY <3>1, <3>2
  <2>. QED
    BY <1>17, <2>1, <2>2, <2>3, <2>4 DEF Held, Decide, TypeOK, Items, delivery, Terminal
<1>18. CASE ProposeDelivery
  <2>1. WorkIsGiven'
    BY <1>18, <1>0, StaysGiven DEF Held, ProposeDelivery, mission
  <2>2. deliveries' \in Seq({"pending", "approved", "denied"})
    <3>1. deliveries \in Seq({"pending", "approved", "denied"})
      BY DEF Held, TypeOK
    <3>. QED
      BY <1>18, <3>1 DEF ProposeDelivery
  <2>. QED
    BY <1>18, <2>1, <2>2 DEF Held, ProposeDelivery, TypeOK, mission
<1>19. ASSUME NEW n \in DOMAIN deliveries, NEW decision \in {"approved", "denied"},
             DecideDelivery(n, decision)
      PROVE  Held'
  <2>1. WorkIsGiven'
    BY <1>19, <1>0, StaysGiven DEF Held, DecideDelivery, mission
  <2>2. deliveries' \in Seq({"pending", "approved", "denied"})
    <3>1. deliveries \in Seq({"pending", "approved", "denied"})
      BY DEF Held, TypeOK
    <3>. QED
      BY <1>19, <3>1 DEF DecideDelivery
  <2>. QED
    BY <1>19, <2>1, <2>2 DEF Held, DecideDelivery, TypeOK, mission
<1>20. ASSUME NEW e \in Courier, ReadDelivery(e)
      PROVE  Held'
  <2>1. WorkIsGiven'
    BY <1>20, <1>0, StaysGiven DEF Held, ReadDelivery, mission
  <2>. QED
    BY <1>20, <2>1 DEF Held, ReadDelivery, TypeOK, mission
<1>21. ASSUME NEW e \in Courier, Deliver(e)
      PROVE  Held'
  <2>1. WorkIsGiven'
    BY <1>21, <1>0, StaysGiven DEF Held, Deliver, mission
  <2>2. effects' \in Nat
    <3>1. effects \in Nat
      BY DEF Held, TypeOK
    <3>. QED
      BY <1>21, <3>1 DEF Deliver
  <2>. QED
    BY <1>21, <2>1, <2>2 DEF Held, Deliver, TypeOK, mission
<1>22. ASSUME NEW e \in Courier, CommitDelivery(e)
      PROVE  Held'
  <2>1. WorkIsGiven'
    BY <1>22, <1>0, StaysGiven DEF Held, CommitDelivery, mission
  <2>. QED
    BY <1>22, <2>1 DEF Held, CommitDelivery, TypeOK, Approved, mission
<1>23. ASSUME NEW e \in Courier, CourierDies(e)
      PROVE  Held'
  <2>1. WorkIsGiven'
    BY <1>23, <1>0, StaysGiven DEF Held, CourierDies, mission
  <2>2. faults' \in 0..MaxFaults
    <3>1. faults \in 0..MaxFaults /\ MaxFaults \in Nat /\ faults < MaxFaults /\ faults' = faults + 1
      BY <1>23, CompanyAssumption DEF Held, TypeOK, CourierDies
    <3>. QED
      BY <3>1
  <2>. QED
    BY <1>23, <2>1, <2>2 DEF Held, CourierDies, TypeOK, mission
<1>24. CASE UNCHANGED vars
  <2>1. WorkIsGiven'
    BY <1>24, <1>0, StaysGiven DEF Held, vars, mission
  <2>. QED
    BY <1>24, <2>1 DEF Held, TypeOK, vars, mission, delivery
<1>. QED
  BY <1>1, <1>2, <1>3, <1>4, <1>5, <1>6, <1>7, <1>8, <1>9, <1>10, <1>11, <1>12, <1>13, <1>14, <1>15, <1>16, <1>17, <1>18, <1>19, <1>20, <1>21, <1>22, <1>23, <1>24
     DEF Next, Tick, Operate, Ship

-----------------------------------------------------------------------------
(* What a step does to the items *)

\* No driver has got work, or work of another attempt.
NoNewWork == \A e \in Driver : Working(e)' => Working(e) /\ work'[e] = work[e]

KeepsItems ==
  UNCHANGED <<items, approvals, loops, unresolved, candidates, artifacts>> /\ NoNewWork

AsksFor(i) ==
  /\ items[i].status = "pending" /\ NeedsApproval(i)
  /\ items' = WithStatus(items, i, "waiting_approval")
  /\ approvals' = [approvals EXCEPT ![i] = approvals[i] + 1]
  /\ UNCHANGED <<loops, unresolved, artifacts>> /\ NoNewWork

Joins(i) ==
  /\ items[i].status = "pending" /\ Kind[i] = "join"
  /\ items' = Tried(items, i, "completed")
  /\ UNCHANGED <<approvals, loops, unresolved, artifacts>> /\ NoNewWork

GivesTo(d, i) ==
  /\ items[i].status = "pending" /\ Worked(i)
  /\ items' = Tried(items, i, "running")
  /\ at'[d] = "prepare" /\ work'[d] = <<i, items[i].attempts + 1>>
  /\ \A e \in Driver \ {d} : at'[e] = at[e] /\ work'[e] = work[e]
  /\ UNCHANGED <<approvals, loops, unresolved, artifacts>>

Ends1(d, i) ==
  /\ Working(d) /\ work[d] = <<i, items[i].attempts>> /\ items[i].status = "running" /\ Worked(i)
  /\ at'[d] = "look" /\ \A e \in Driver \ {d} : at'[e] = at[e] /\ work'[e] = work[e]
  /\ UNCHANGED approvals

Succeeds(d, i) ==
  /\ Ends1(d, i)
  /\ items' = WithStatus(items, i, "completed") /\ loops' = loops \ {i}
  /\ artifacts' \subseteq artifacts \cup
       (IF Kind[i] = "verify" THEN {c \in candidates : Role[c[1]] # Role[i]} ELSE {})

Fails(d, i) ==
  /\ Ends1(d, i)
  /\ \A j \in Item : items'[j].attempts = items[j].attempts
  /\ \/ items'[i].status = "pending" /\ loops' = loops \cup {i}
     \/ items'[i].status = "failed" /\ loops' = loops
  /\ \A j \in Item \ {i} :
       \/ items'[j] = items[j]
       \/ items[j].status \in {"completed", "failed"} /\ items'[j].status = "pending"
  /\ UNCHANGED artifacts

\* The operator's steps: some items that ran, or that had failed, may run again.
RunsAgain ==
  /\ \E i \in Item : items[i].status \in {"running", "failed", "pending"}
  /\ \A j \in Item : /\ items'[j].attempts = items[j].attempts
                     /\ \/ items'[j] = items[j]
                        \/ /\ items[j].status \in {"running", "failed", "pending"}
                           /\ items'[j].status = "pending"
  /\ UNCHANGED <<approvals, loops, unresolved, artifacts>> /\ NoNewWork

Decides(i, approved) ==
  /\ approvals[i] > 0
  /\ approvals' = [approvals EXCEPT ![i] = approvals[i] - 1]
  /\ items' = IF approved THEN Tried(items, i, "completed") ELSE WithStatus(items, i, "failed")
  /\ UNCHANGED <<loops, artifacts>> /\ NoNewWork

ItemStep ==
  \/ KeepsItems
  \/ \E i \in Item : AsksFor(i) \/ Joins(i) \/ \E approved \in BOOLEAN : Decides(i, approved)
  \/ \E d \in Driver, i \in Item : GivesTo(d, i) \/ Succeeds(d, i) \/ Fails(d, i)
  \/ RunsAgain

\* One item is written.
LEMMA OneWritten ==
  ASSUME items \in Items, NEW i \in Item, NEW s \in ItemStatus, items' = WithStatus(items, i, s)
  PROVE  /\ items'[i].status = s
         /\ \A j \in Item : items'[j].attempts = items[j].attempts
         /\ \A j \in Item \ {i} : items'[j] = items[j]
  BY WithStatusAt

LEMMA OneTried ==
  ASSUME items \in Items, NEW i \in Item, NEW s \in ItemStatus, items' = Tried(items, i, s)
  PROVE  /\ items'[i].status = s /\ items'[i].attempts = items[i].attempts + 1
         /\ \A j \in Item \ {i} : items'[j] = items[j]
  BY TriedAt

LEMMA NoWork ==
  ASSUME TypeOK, NEW d \in Driver, NEW step, NEW w, Goto(d, step, w),
         step \notin {"prepare", "execute", "report"}
  PROVE  NoNewWork
  BY Gone DEF NoNewWork, Working

LEMMA OnwardsSteps ==
  ASSUME NEW d \in Driver, NEW its, Onwards(d, its)
  PROVE  \E step \in {"ask", "claim"}, w \in Result \cup {None} : Goto(d, step, w)
<1>. DEFINE due == {i \in Item : Ready(its, i) /\ NeedsApproval(i)}
             w == <<First(due), 0>>
<1>1. CASE due # {}
  <2>1. First(due) \in Item
    BY <1>1, FirstIsIn
  <2>2. w \in Result
    BY <2>1 DEF Result
  <2>3. Goto(d, "ask", w)
    BY <1>1 DEF Onwards
  <2>. HIDE DEF w
  <2>. QED
    BY <2>2, <2>3
<1>2. CASE due = {}
  BY <1>2 DEF Onwards
<1>. QED
  BY <1>1, <1>2

LEMMA StepOfItems ==
  ASSUME Held, [Next]_vars
  PROVE  ItemStep
<1>0. TypeOK /\ items \in Items
  BY DEF Held, TypeOK, Items
<1>a. at' = at /\ work' = work => NoNewWork
  BY DEF NoNewWork, Working
<1>1. ASSUME NEW d \in Driver, Launch(d)
      PROVE  ItemStep
  <2>1. NoNewWork
    BY <1>1, <1>0, NoWork DEF Launch, Stop
  <2>. QED
    BY <1>1, <2>1 DEF Launch, mission, ItemStep, KeepsItems
<1>2. ASSUME NEW d \in Driver, Look(d)
      PROVE  ItemStep
  <2>1. PICK step \in {"off", "start", "ask", "claim"}, w \in Result \cup {None} : Goto(d, step, w)
    BY <1>2, <1>0, OnwardsSteps DEF Look, Stop
  <2>2. NoNewWork
    BY <1>0, <2>1, NoWork
  <2>. QED
    BY <1>2, <2>2 DEF Look, mission, ItemStep, KeepsItems
<1>3. ASSUME NEW d \in Driver, Start(d)
      PROVE  ItemStep
  <2>1. PICK step \in {"off", "start", "ask", "claim"}, w \in Result \cup {None} : Goto(d, step, w)
    BY <1>3, <1>0, OnwardsSteps DEF Start, Stop
  <2>2. NoNewWork
    BY <1>0, <2>1, NoWork
  <2>. QED
    BY <1>3, <2>2 DEF Start, ItemStep, KeepsItems
<1>4. ASSUME NEW d \in Driver, RequestApproval(d)
      PROVE  ItemStep
  <2>. DEFINE i == work[d][1]
  <2>1. i \in Item /\ NeedsApproval(i)
    BY <1>4 DEF RequestApproval, Held, WorkIsGiven, Result
  <2>2. NoNewWork
    BY <1>4, <1>0, NoWork DEF RequestApproval, Stop
  <2>3. CASE items[i].status = "pending"
    <3>1. AsksFor(i)
      BY <1>4, <2>1, <2>2, <2>3 DEF RequestApproval, AsksFor
    <3>. QED
      BY <2>1, <3>1 DEF ItemStep
  <2>4. CASE items[i].status # "pending"
    BY <1>4, <2>2, <2>4 DEF RequestApproval, ItemStep, KeepsItems
  <2>. QED
    BY <2>3, <2>4
<1>5. ASSUME NEW d \in Driver, Claim(d)
      PROVE  ItemStep
  <2>0. UNCHANGED <<approvals, loops, unresolved, candidates, artifacts>>
    BY <1>5 DEF Claim
  <2>1. ASSUME UNCHANGED items, Goto(d, "look", None) \/ Conclude(d, items)
        PROVE  ItemStep
    <3>1. NoNewWork
      BY <1>0, <2>1, ConcludeGoes, NoWork
    <3>. QED
      BY <2>0, <2>1, <3>1 DEF ItemStep, KeepsItems
  <2>2. ASSUME NEW i \in Item, JoinsItem(d, i)
        PROVE  ItemStep
    <3>1. NoNewWork
      BY <1>0, <2>2, ConcludeGoes, NoWork DEF JoinsItem
    <3>2. Joins(i)
      BY <2>0, <2>2, <3>1 DEF JoinsItem, Joins
    <3>. QED
      BY <3>2 DEF ItemStep
  <2>3. ASSUME NEW i \in Item, ClaimsItem(d, i)
        PROVE  ItemStep
    <3>1. GivesTo(d, i)
      BY <1>0, <2>0, <2>3, Gone DEF ClaimsItem, GivesTo, Worked, NeedsApproval
    <3>. QED
      BY <3>1 DEF ItemStep
  <2>. QED
    BY <1>5, <2>1, <2>2, <2>3, ClaimCases
<1>6. ASSUME NEW d \in Driver, Prepare(d)
      PROVE  ItemStep
  <2>1. NoNewWork
    BY <1>6, <1>0, Gone DEF Prepare, NoNewWork, Working, Stop
  <2>. QED
    BY <1>6, <2>1 DEF Prepare, mission, ItemStep, KeepsItems
<1>7. ASSUME NEW d \in Driver, Execute(d)
      PROVE  ItemStep
  <2>1. NoNewWork
    BY <1>7, <1>0, Gone DEF Execute, NoNewWork, Working, Stop
  <2>. QED
    BY <1>7, <2>1 DEF Execute, mission, ItemStep, KeepsItems
<1>8. ASSUME NEW d \in Driver, CompleteClaim(d)
      PROVE  ItemStep
  <2>. DEFINE i == work[d][1]
  <2>1. work[d] \in Result /\ i \in Item /\ Working(d) /\ Worked(i)
    BY <1>8 DEF CompleteClaim, Held, WorkIsGiven, Working, Result
  <2>2. CASE ~StillClaimed(work[d])
    <3>1. NoNewWork /\ UNCHANGED <<items, approvals, loops, unresolved, candidates, artifacts>>
      BY <1>8, <1>0, <2>2, NoWork DEF CompleteClaim, Stop
    <3>. QED
      BY <3>1 DEF ItemStep, KeepsItems
  <2>3. ASSUME StillClaimed(work[d]), Goto(d, "look", None), UNCHANGED approvals
        PROVE  Ends1(d, i)
    <3>1. work[d] = <<i, items[i].attempts>> /\ items[i].status = "running"
      BY <2>1, <2>3 DEF StillClaimed, Current, Result
    <3>. QED
      BY <1>0, <2>1, <2>3, <3>1, Gone DEF Ends1
  <2>4. ASSUME StillClaimed(work[d]), Goto(d, "look", None), UNCHANGED approvals,
               NEW delivers \in BOOLEAN, NEW verifies \in BOOLEAN,
               Succeed(i, work[d], delivers, verifies)
        PROVE  ItemStep
    <3>1. Ends1(d, i)
      BY <2>3, <2>4
    <3>2. Succeeds(d, i)
      BY <2>4, <3>1 DEF Succeeds, Succeed, Promoted
    <3>. QED
      BY <2>1, <3>2 DEF ItemStep
  <2>5. ASSUME StillClaimed(work[d]), Goto(d, "look", None), UNCHANGED <<approvals, artifacts>>,
               NEW type \in FailureTypes, NEW retryable \in BOOLEAN, Route(i, type, retryable)
        PROVE  ItemStep
    <3>1. Ends1(d, i)
      BY <2>3, <2>5
    <3>2. Fails(d, i)
      BY <1>0, <2>1, <2>5, <3>1, RouteAt DEF Fails
    <3>. QED
      BY <2>1, <3>2 DEF ItemStep
  <2>. QED
    BY <1>8, <2>2, <2>4, <2>5 DEF CompleteClaim
<1>9. ASSUME NEW d \in Driver, ConcludeAll(d)
      PROVE  ItemStep
  <2>1. NoNewWork
    BY <1>9, <1>0, NoWork DEF ConcludeAll, Stop
  <2>. QED
    BY <1>9, <2>1 DEF ConcludeAll, mission, ItemStep, KeepsItems
<1>10. ASSUME NEW d \in Driver, GiveUp(d)
      PROVE  ItemStep
  <2>1. NoNewWork
    BY <1>10, <1>0, NoWork DEF GiveUp, Stop
  <2>. QED
    BY <1>10, <2>1 DEF GiveUp, mission, ItemStep, KeepsItems
<1>11. ASSUME NEW d \in Driver, DriverDies(d)
      PROVE  ItemStep
  <2>1. NoNewWork
    BY <1>11, <1>0, NoWork DEF DriverDies, Stop
  <2>. QED
    BY <1>11, <2>1 DEF DriverDies, mission, ItemStep, KeepsItems
<1>12. CASE Pause
  BY <1>12, <1>a DEF Pause, ItemStep, KeepsItems
<1>13. CASE Resume
  BY <1>13, <1>a DEF Resume, ItemStep, KeepsItems
<1>14. CASE Abort
  BY <1>14, <1>a DEF Abort, ItemStep, KeepsItems
<1>15. CASE RecoverInterrupted
  <2>1. PICK old \in SUBSET {i \in Item : items[i].status = "running"} :
          /\ old # {}
          /\ items' = [i \in Item |-> IF i \in old THEN WithStatus(items, i, "pending")[i] ELSE items[i]]
    BY <1>15 DEF RecoverInterrupted
  <2>2. \A i \in Item : /\ WithStatus(items, i, "pending")[i].attempts = items[i].attempts
                        /\ WithStatus(items, i, "pending")[i].status = "pending"
    BY <1>0, WithStatusAt, IsItemStatus
  <2>3. RunsAgain
    BY <1>15, <1>a, <2>1, <2>2 DEF RecoverInterrupted, RunsAgain
  <2>. QED
    BY <2>3 DEF ItemStep
<1>16. ASSUME NEW i \in Item, RetryWorkItem(i)
      PROVE  ItemStep
  <2>1. RunsAgain
    <3>1. /\ items'[i].status = "pending"
          /\ \A j \in Item : items'[j].attempts = items[j].attempts /\ (j # i => items'[j] = items[j])
      <4>1. items' = WithStatus(items, i, "pending")
        BY <1>16 DEF RetryWorkItem
      <4>. QED
        BY <1>0, <4>1, OneWritten, IsItemStatus
    <3>. QED
      BY <1>16, <1>a, <3>1 DEF RetryWorkItem, RunsAgain
  <2>. QED
    BY <2>1 DEF ItemStep
<1>17. ASSUME NEW i \in Item, NEW approved \in BOOLEAN, Decide(i, approved)
      PROVE  ItemStep
  <2>1. Decides(i, approved)
    BY <1>17, <1>a DEF Decide, Decides
  <2>. QED
    BY <2>1 DEF ItemStep
<1>18. CASE ProposeDelivery
  BY <1>18, <1>a DEF ProposeDelivery, mission, ItemStep, KeepsItems
<1>19. ASSUME NEW n \in DOMAIN deliveries, NEW decision \in {"approved", "denied"},
             DecideDelivery(n, decision)
      PROVE  ItemStep
  BY <1>19, <1>a DEF DecideDelivery, mission, ItemStep, KeepsItems
<1>20. ASSUME NEW e \in Courier, ReadDelivery(e)
      PROVE  ItemStep
  BY <1>20, <1>a DEF ReadDelivery, mission, ItemStep, KeepsItems
<1>21. ASSUME NEW e \in Courier, Deliver(e)
      PROVE  ItemStep
  BY <1>21, <1>a DEF Deliver, mission, ItemStep, KeepsItems
<1>22. ASSUME NEW e \in Courier, CommitDelivery(e)
      PROVE  ItemStep
  BY <1>22, <1>a DEF CommitDelivery, mission, ItemStep, KeepsItems
<1>23. ASSUME NEW e \in Courier, CourierDies(e)
      PROVE  ItemStep
  BY <1>23, <1>a DEF CourierDies, mission, ItemStep, KeepsItems
<1>24. CASE UNCHANGED vars
  BY <1>24, <1>a DEF vars, mission, ItemStep, KeepsItems
<1>. QED
  BY <1>1, <1>2, <1>3, <1>4, <1>5, <1>6, <1>7, <1>8, <1>9, <1>10, <1>11, <1>12, <1>13, <1>14, <1>15, <1>16, <1>17, <1>18, <1>19, <1>20, <1>21, <1>22, <1>23, <1>24
     DEF Next, Tick, Operate, Ship

-----------------------------------------------------------------------------
(* Approvals, workers and repair loops *)

\* An approval is pending for exactly the items that wait for one, and it is
\* never an item that drivers work on.
LEMMA WaitsNext ==
  ASSUME Held, Waits, [Next]_vars
  PROVE  Waits'
<1>0. items \in Items /\ approvals \in [Item -> Nat] /\ ItemStep
  BY StepOfItems DEF Held, TypeOK, Items
<1>1. CASE KeepsItems
  BY <1>1 DEF KeepsItems, Waits, ApprovalsMatchItems, OnlyApprovalsWait
<1>2. ASSUME NEW i \in Item, AsksFor(i) PROVE Waits'
  <2>1. items'[i].status = "waiting_approval" /\ \A j \in Item \ {i} : items'[j] = items[j]
    BY <1>0, <1>2, OneWritten, IsItemStatus DEF AsksFor
  <2>2. approvals[i] = 0 /\ NeedsApproval(i)
    BY <1>2 DEF AsksFor, Waits, ApprovalsMatchItems
  <2>3. approvals'[i] = 1 /\ \A j \in Item \ {i} : approvals'[j] = approvals[j]
    BY <1>0, <1>2, <2>2 DEF AsksFor
  <2>. QED
    BY <2>1, <2>2, <2>3 DEF Waits, ApprovalsMatchItems, OnlyApprovalsWait
<1>3. ASSUME NEW i \in Item, items[i].status # "waiting_approval",
             items'[i].status # "waiting_approval",
             \A j \in Item \ {i} : items'[j] = items[j], UNCHANGED approvals
      PROVE  Waits'
  BY <1>3 DEF Waits, ApprovalsMatchItems, OnlyApprovalsWait
<1>4. ASSUME NEW i \in Item, Joins(i) PROVE Waits'
  <2>1. items'[i].status = "completed" /\ \A j \in Item \ {i} : items'[j] = items[j]
    BY <1>0, <1>4, OneTried, IsItemStatus DEF Joins
  <2>. QED
    BY <1>3, <1>4, <2>1 DEF Joins
<1>5. ASSUME NEW i \in Item, NEW d \in Driver, GivesTo(d, i) PROVE Waits'
  <2>1. items'[i].status = "running" /\ \A j \in Item \ {i} : items'[j] = items[j]
    BY <1>0, <1>5, OneTried, IsItemStatus DEF GivesTo
  <2>. QED
    BY <1>3, <1>5, <2>1 DEF GivesTo
<1>6. ASSUME NEW i \in Item, NEW d \in Driver, Succeeds(d, i) PROVE Waits'
  <2>1. items'[i].status = "completed" /\ \A j \in Item \ {i} : items'[j] = items[j]
    BY <1>0, <1>6, OneWritten, IsItemStatus DEF Succeeds
  <2>. QED
    BY <1>3, <1>6, <2>1 DEF Succeeds, Ends1
<1>7. ASSUME UNCHANGED approvals,
             \A j \in Item : \/ items'[j] = items[j]
                             \/ /\ items[j].status # "waiting_approval"
                                /\ items'[j].status # "waiting_approval"
      PROVE  Waits'
  BY <1>7 DEF Waits, ApprovalsMatchItems, OnlyApprovalsWait
<1>8. ASSUME NEW i \in Item, NEW d \in Driver, Fails(d, i) PROVE Waits'
  BY <1>7, <1>8 DEF Fails, Ends1
<1>9. CASE RunsAgain
  BY <1>7, <1>9 DEF RunsAgain
<1>10. ASSUME NEW i \in Item, NEW approved \in BOOLEAN, Decides(i, approved) PROVE Waits'
  <2>1. items[i].status = "waiting_approval" /\ approvals[i] = 1
    BY <1>10 DEF Decides, Waits, ApprovalsMatchItems
  <2>2. approvals'[i] = 0 /\ \A j \in Item \ {i} : approvals'[j] = approvals[j]
    BY <1>0, <1>10, <2>1 DEF Decides
  <2>3. items'[i].status # "waiting_approval" /\ \A j \in Item \ {i} : items'[j] = items[j]
    <3>1. CASE approved
      BY <1>0, <1>10, <3>1, OneTried, IsItemStatus DEF Decides
    <3>2. CASE ~approved
      BY <1>0, <1>10, <3>2, OneWritten, IsItemStatus DEF Decides
    <3>. QED
      BY <3>1, <3>2
  <2>. QED
    BY <2>1, <2>2, <2>3 DEF Waits, ApprovalsMatchItems, OnlyApprovalsWait
<1>. QED
  BY <1>0, <1>1, <1>2, <1>4, <1>5, <1>6, <1>8, <1>9, <1>10 DEF ItemStep

LEMMA WorkOf ==
  ASSUME Held, NEW e \in Driver, Working(e)
  PROVE  /\ work[e][1] \in Item /\ work[e][2] \in Nat /\ work[e] = <<work[e][1], work[e][2]>>
         /\ Worked(work[e][1]) /\ work[e][2] <= items[work[e][1]].attempts
         /\ items[work[e][1]].attempts \in Nat
<1>1. work[e] \in Result /\ Worked(work[e][1]) /\ work[e][2] <= items[work[e][1]].attempts
  BY DEF Held, WorkIsGiven
<1>2. work[e][1] \in Item /\ work[e][2] \in Nat /\ work[e] = <<work[e][1], work[e][2]>>
  BY <1>1 DEF Result
<1>3. items[work[e][1]].attempts \in Nat
  BY <1>2 DEF Held, TypeOK
<1>. QED
  BY <1>1, <1>2, <1>3

\* Nobody has the work of another, and the item of who is heard is not over.
LEMMA WorkerNext ==
  ASSUME Held, Waits, OneWorkerIsHeard, [Next]_vars
  PROVE  OneWorkerIsHeard'
<1>0. items \in Items /\ ItemStep
  BY StepOfItems DEF Held, TypeOK, Items
<1>a. Held'
  BY NextHeld
\* Steps that give no work and leave the items that are worked on in a state in
\* which they can still be.
<1>1. ASSUME NoNewWork,
             \A e \in Driver : (Working(e) /\ Working(e)') =>
               LET i == work[e][1] IN
               (work[e][2] = items'[i].attempts) =>
                  \/ items'[i].status \in {"running", "pending"}
                  \/ items'[i] = items[i]
      PROVE  OneWorkerIsHeard'
  BY <1>1 DEF OneWorkerIsHeard, NoNewWork
<1>2. CASE KeepsItems
  BY <1>1, <1>2 DEF KeepsItems
<1>3. ASSUME NEW i \in Item, AsksFor(i) PROVE OneWorkerIsHeard'
  <2>1. \A j \in Item \ {i} : items'[j] = items[j]
    BY <1>0, <1>3, OneWritten, IsItemStatus DEF AsksFor
  <2>2. \A e \in Driver : Working(e) => work[e][1] \in Item \ {i}
    BY <1>3, WorkOf DEF AsksFor, Worked, NeedsApproval
  <2>. QED
    BY <1>1, <1>3, <2>1, <2>2 DEF AsksFor
<1>4. ASSUME NEW i \in Item, Joins(i) PROVE OneWorkerIsHeard'
  <2>1. \A j \in Item \ {i} : items'[j] = items[j]
    BY <1>0, <1>4, OneTried, IsItemStatus DEF Joins
  <2>2. \A e \in Driver : Working(e) => work[e][1] \in Item \ {i}
    BY <1>4, WorkOf DEF Joins, Worked
  <2>. QED
    BY <1>1, <1>4, <2>1, <2>2 DEF Joins
<1>5. CASE RunsAgain
  <2>1. \A j \in Item : items'[j] = items[j] \/ items'[j].status = "pending"
    BY <1>5 DEF RunsAgain
  <2>2. \A e \in Driver : Working(e) => work[e][1] \in Item
    BY WorkOf
  <2>. QED
    BY <1>1, <1>5, <2>1, <2>2 DEF RunsAgain
<1>6. ASSUME NEW i \in Item, NEW approved \in BOOLEAN, Decides(i, approved) PROVE OneWorkerIsHeard'
  <2>0. NeedsApproval(i)
    BY <1>6 DEF Decides, Waits, ApprovalsMatchItems, OnlyApprovalsWait
  <2>1. \A j \in Item \ {i} : items'[j] = items[j]
    <3>1. CASE approved
      BY <1>0, <1>6, <3>1, OneTried, IsItemStatus DEF Decides
    <3>2. CASE ~approved
      BY <1>0, <1>6, <3>2, OneWritten, IsItemStatus DEF Decides
    <3>. QED
      BY <3>1, <3>2
  <2>2. \A e \in Driver : Working(e) => work[e][1] \in Item \ {i}
    BY <2>0, WorkOf DEF Worked, NeedsApproval
  <2>. QED
    BY <1>1, <1>6, <2>1, <2>2 DEF Decides
<1>7. ASSUME NEW d \in Driver, NEW i \in Item, GivesTo(d, i) PROVE OneWorkerIsHeard'
  <2>1. /\ items'[i].status = "running" /\ items'[i].attempts = items[i].attempts + 1
        /\ \A j \in Item \ {i} : items'[j] = items[j]
    BY <1>0, <1>7, OneTried, IsItemStatus DEF GivesTo
  <2>2. work'[d] = <<i, items[i].attempts + 1>>
    BY <1>7 DEF GivesTo
  <2>3. ASSUME NEW e \in Driver \ {d}, Working(e)'
        PROVE  /\ Working(e) /\ work'[e] = work[e]
               /\ work'[e] # work'[d]
               /\ work'[e][1] = i => work'[e][2] # items'[i].attempts
    <3>1. Working(e) /\ work'[e] = work[e]
      BY <1>7, <2>3 DEF GivesTo, Working
    <3>2. work[e][2] <= items[work[e][1]].attempts /\ work[e][2] \in Nat
          /\ items[work[e][1]].attempts \in Nat
      BY <3>1, WorkOf
    <3>3. work[e][1] = i => work[e][2] # items[i].attempts + 1
      BY <3>2
    <3>. QED
      BY <2>1, <2>2, <3>1, <3>3
  <2>4. ASSUME NEW e \in Driver, Working(e)', work'[e][2] = items'[work'[e][1]].attempts
        PROVE  items'[work'[e][1]].status \in {"running", "pending"}
    <3>1. CASE e = d
      BY <2>1, <2>2, <3>1
    <3>2. CASE e # d
      <4>1. Working(e) /\ work'[e] = work[e] /\ work[e][1] # i
        BY <2>3, <2>4, <3>2
      <4>2. work[e][1] \in Item \ {i}
        BY <4>1, WorkOf
      <4>3. items'[work[e][1]] = items[work[e][1]]
        BY <2>1, <4>2
      <4>. QED
        BY <2>4, <4>1, <4>3 DEF OneWorkerIsHeard
    <3>. QED
      BY <3>1, <3>2
  <2>5. ASSUME NEW e \in Driver, NEW f \in Driver \ {e}, Working(e)', Working(f)'
        PROVE  work'[f] # work'[e]
    <3>1. CASE e = d
      BY <2>3, <2>5, <3>1
    <3>2. CASE f = d
      BY <2>3, <2>5, <3>2
    <3>3. CASE e # d /\ f # d
      BY <2>3, <2>5, <3>3 DEF OneWorkerIsHeard
    <3>. QED
      BY <3>1, <3>2, <3>3
  <2>. QED
    BY <2>4, <2>5 DEF OneWorkerIsHeard
<1>8. ASSUME NEW d \in Driver, NEW i \in Item, Ends1(d, i),
             \A j \in Item : items'[j].attempts = items[j].attempts,
             \A j \in Item \ {i} : items'[j] = items[j] \/ items'[j].status = "pending"
      PROVE  OneWorkerIsHeard'
  <2>1. NoNewWork
    BY <1>8 DEF Ends1, NoNewWork, Working
  <2>2. ASSUME NEW e \in Driver, Working(e), Working(e)',
               work[e][2] = items'[work[e][1]].attempts
        PROVE  \/ items'[work[e][1]].status \in {"running", "pending"}
               \/ items'[work[e][1]] = items[work[e][1]]
    <3>1. e # d
      BY <1>8, <2>2 DEF Ends1, Working
    <3>2. work[e] # work[d] /\ work[e][1] \in Item /\ work[e] = <<work[e][1], work[e][2]>>
      BY <1>8, <2>2, <3>1, WorkOf DEF Ends1, OneWorkerIsHeard
    <3>3. work[e][1] # i
      BY <1>8, <2>2, <3>2 DEF Ends1
    <3>. QED
      BY <1>8, <3>2, <3>3
  <2>. QED
    BY <1>1, <2>1, <2>2
<1>9. ASSUME NEW d \in Driver, NEW i \in Item, Succeeds(d, i) PROVE OneWorkerIsHeard'
  <2>1. /\ \A j \in Item : items'[j].attempts = items[j].attempts
        /\ \A j \in Item \ {i} : items'[j] = items[j]
    BY <1>0, <1>9, OneWritten, IsItemStatus DEF Succeeds
  <2>. QED
    BY <1>8, <1>9, <2>1 DEF Succeeds
<1>10. ASSUME NEW d \in Driver, NEW i \in Item, Fails(d, i) PROVE OneWorkerIsHeard'
  BY <1>8, <1>10 DEF Fails
<1>. QED
  BY <1>0, <1>2, <1>3, <1>4, <1>5, <1>6, <1>7, <1>9, <1>10 DEF ItemStep

LEMMA LoopsNext ==
  ASSUME Held, Waits, LoopsRunOn, [Next]_vars
  PROVE  LoopsRunOn'
<1>0. items \in Items /\ ItemStep /\ loops \subseteq Item
  BY StepOfItems DEF Held, TypeOK, Items
<1>1. ASSUME \A j \in loops' : Worked(j) /\ items'[j].status # "completed"
      PROVE  LoopsRunOn'
  BY <1>1 DEF LoopsRunOn, Done
<1>2. \A j \in loops : j \in Item /\ Worked(j) /\ items[j].status # "completed"
  BY <1>0 DEF LoopsRunOn, Done
<1>3. CASE KeepsItems
  BY <1>1, <1>2, <1>3 DEF KeepsItems
<1>4. ASSUME NEW i \in Item, AsksFor(i) PROVE LoopsRunOn'
  <2>1. items'[i].status = "waiting_approval" /\ \A j \in Item \ {i} : items'[j] = items[j]
    BY <1>0, <1>4, OneWritten, IsItemStatus DEF AsksFor
  <2>. QED
    BY <1>1, <1>2, <1>4, <2>1 DEF AsksFor
<1>5. ASSUME NEW i \in Item, Joins(i) PROVE LoopsRunOn'
  <2>1. \A j \in Item \ {i} : items'[j] = items[j]
    BY <1>0, <1>5, OneTried, IsItemStatus DEF Joins
  <2>. QED
    BY <1>1, <1>2, <1>5, <2>1 DEF Joins, Worked
<1>6. ASSUME NEW d \in Driver, NEW i \in Item, GivesTo(d, i) PROVE LoopsRunOn'
  <2>1. items'[i].status = "running" /\ \A j \in Item \ {i} : items'[j] = items[j]
    BY <1>0, <1>6, OneTried, IsItemStatus DEF GivesTo
  <2>. QED
    BY <1>1, <1>2, <1>6, <2>1 DEF GivesTo
<1>7. ASSUME NEW d \in Driver, NEW i \in Item, Succeeds(d, i) PROVE LoopsRunOn'
  <2>1. \A j \in Item \ {i} : items'[j] = items[j]
    BY <1>0, <1>7, OneWritten, IsItemStatus DEF Succeeds
  <2>. QED
    BY <1>1, <1>2, <1>7, <2>1 DEF Succeeds
<1>8. ASSUME NEW d \in Driver, NEW i \in Item, Fails(d, i) PROVE LoopsRunOn'
  BY <1>1, <1>2, <1>8 DEF Fails, Ends1
<1>9. CASE RunsAgain
  BY <1>1, <1>2, <1>9 DEF RunsAgain
<1>10. ASSUME NEW i \in Item, NEW approved \in BOOLEAN, Decides(i, approved) PROVE LoopsRunOn'
  <2>0. NeedsApproval(i)
    BY <1>10 DEF Decides, Waits, ApprovalsMatchItems, OnlyApprovalsWait
  <2>1. \A j \in Item \ {i} : items'[j] = items[j]
    <3>1. CASE approved
      BY <1>0, <1>10, <3>1, OneTried, IsItemStatus DEF Decides
    <3>2. CASE ~approved
      BY <1>0, <1>10, <3>2, OneWritten, IsItemStatus DEF Decides
    <3>. QED
      BY <3>1, <3>2
  <2>. QED
    BY <1>1, <1>2, <1>10, <2>0, <2>1 DEF Decides, Worked, NeedsApproval
<1>. QED
  BY <1>0, <1>3, <1>4, <1>5, <1>6, <1>7, <1>8, <1>9, <1>10 DEF ItemStep

LEMMA PromotedNext ==
  ASSUME Held, PromotedByOthers, [Next]_vars
  PROVE  PromotedByOthers'
<1>1. ItemStep
  BY StepOfItems
<1>2. CASE UNCHANGED artifacts
  BY <1>2 DEF PromotedByOthers
<1>3. ASSUME NEW d \in Driver, NEW i \in Item, Succeeds(d, i) PROVE PromotedByOthers'
  <2>1. ASSUME NEW a \in artifacts' PROVE \E v \in Item : Kind[v] = "verify" /\ Role[v] # Role[a[1]]
    <3>1. CASE a \in artifacts
      BY <3>1 DEF PromotedByOthers
    <3>2. CASE a \notin artifacts
      BY <1>3, <2>1, <3>2 DEF Succeeds
    <3>. QED
      BY <3>1, <3>2
  <2>. QED
    BY <2>1 DEF PromotedByOthers
<1>. QED
  BY <1>1, <1>2, <1>3
     DEF ItemStep, KeepsItems, AsksFor, Joins, GivesTo, Fails, RunsAgain, Decides

-----------------------------------------------------------------------------
(* How a mission ends *)

\* When every item is completed, nothing is left that could change an item.
LEMMA NothingLeft ==
  ASSUME Held, Waits, AllDone, ItemStep
  PROVE  KeepsItems
<1>1. \A i \in Item : items[i].status = "completed" /\ approvals[i] = 0
  BY DEF AllDone, Done, Waits, ApprovalsMatchItems
<1>. QED
  BY <1>1 DEF ItemStep, AsksFor, Joins, GivesTo, Succeeds, Fails, Ends1, RunsAgain, Decides

Concluded ==
  /\ status' = IF Simulation THEN "simulated"
               ELSE IF Verified /\ grounded THEN "completed" ELSE "partial"
  /\ gate' = (~Simulation /\ Verified /\ grounded /\ unresolved = {})

\* The steps by what they make of the end of the mission: a driver concludes, a
\* driver gives up, or the end stays as it was.
OutcomeStep ==
  \/ /\ \E d \in Driver : at[d] = "conclude"
     /\ Concluded /\ UNCHANGED grounded
  \/ /\ \E d \in Driver : at[d] = "give up"
     /\ status' = "failed" /\ UNCHANGED <<gate, grounded>>
  \/ /\ UNCHANGED <<gate, grounded>>
     /\ \/ status' = status
        \/ /\ status' \notin {"completed", "simulated"}
           /\ status \notin Terminal \/ ~AllDone

LEMMA StepOfOutcome ==
  ASSUME Held, Waits, [Next]_vars
  PROVE  OutcomeStep
<1>a. ASSUME NEW i \in Item, items[i].status # "completed" PROVE ~AllDone
  BY <1>a DEF AllDone, Done
<1>1. ASSUME NEW d \in Driver, Launch(d)
      PROVE  OutcomeStep
  BY <1>1 DEF Launch, mission, OutcomeStep
<1>2. ASSUME NEW d \in Driver, Look(d)
      PROVE  OutcomeStep
  BY <1>2 DEF Look, mission, OutcomeStep
<1>3. ASSUME NEW d \in Driver, Start(d)
      PROVE  OutcomeStep
  BY <1>3 DEF Start, OutcomeStep, Terminal
<1>4. ASSUME NEW d \in Driver, RequestApproval(d)
      PROVE  OutcomeStep
  <2>1. work[d][1] \in Item
    BY <1>4 DEF RequestApproval, Held, WorkIsGiven, Result
  <2>. QED
    BY <1>4, <1>a, <2>1 DEF RequestApproval, OutcomeStep
<1>5. ASSUME NEW d \in Driver, Claim(d)
      PROVE  OutcomeStep
  <2>1. UNCHANGED <<gate, grounded>>
    BY <1>5 DEF Claim
  <2>2. status' = status \/ (status = "active" /\ status' = "partial")
    BY <1>5, ClaimCases DEF JoinsItem, ClaimsItem
  <2>. QED
    BY <2>1, <2>2 DEF OutcomeStep, Terminal
<1>6. ASSUME NEW d \in Driver, Prepare(d)
      PROVE  OutcomeStep
  BY <1>6 DEF Prepare, mission, OutcomeStep
<1>7. ASSUME NEW d \in Driver, Execute(d)
      PROVE  OutcomeStep
  BY <1>7 DEF Execute, mission, OutcomeStep
<1>8. ASSUME NEW d \in Driver, CompleteClaim(d)
      PROVE  OutcomeStep
  <2>1. work[d][1] \in Item
    BY <1>8 DEF CompleteClaim, Held, WorkIsGiven, Working, Result
  <2>2. UNCHANGED <<gate, grounded>>
    BY <1>8 DEF CompleteClaim
  <2>3. status' = status \/ (StillClaimed(work[d]) /\ status' \in {"failed", "partial"})
    <3>1. ASSUME NEW type \in FailureTypes, NEW retryable \in BOOLEAN,
                 Route(work[d][1], type, retryable)
          PROVE  status' = status \/ status' \in {"failed", "partial"}
      BY <3>1 DEF Route
    <3>. QED
      BY <1>8, <3>1 DEF CompleteClaim, Succeed
  <2>. QED
    BY <1>a, <2>1, <2>2, <2>3 DEF OutcomeStep, StillClaimed, Current
<1>9. ASSUME NEW d \in Driver, ConcludeAll(d)
      PROVE  OutcomeStep
  BY <1>9 DEF ConcludeAll, OutcomeStep, Concluded, Verified
<1>10. ASSUME NEW d \in Driver, GiveUp(d)
      PROVE  OutcomeStep
  BY <1>10 DEF GiveUp, OutcomeStep
<1>11. ASSUME NEW d \in Driver, DriverDies(d)
      PROVE  OutcomeStep
  BY <1>11 DEF DriverDies, mission, OutcomeStep
<1>12. CASE Pause
  BY <1>12 DEF Pause, OutcomeStep
<1>13. CASE Resume
  BY <1>13 DEF Resume, OutcomeStep, Terminal
<1>14. CASE Abort
  BY <1>14 DEF Abort, OutcomeStep, Terminal
<1>15. CASE RecoverInterrupted
  BY <1>15 DEF RecoverInterrupted, OutcomeStep, Terminal
<1>16. ASSUME NEW i \in Item, RetryWorkItem(i)
      PROVE  OutcomeStep
  BY <1>16, <1>a DEF RetryWorkItem, OutcomeStep
<1>17. ASSUME NEW i \in Item, NEW approved \in BOOLEAN, Decide(i, approved)
      PROVE  OutcomeStep
  <2>1. items[i].status # "completed"
    BY <1>17 DEF Decide, Waits, ApprovalsMatchItems
  <2>. QED
    BY <1>17, <1>a, <2>1 DEF Decide, OutcomeStep
<1>18. CASE ProposeDelivery
  BY <1>18 DEF ProposeDelivery, mission, OutcomeStep
<1>19. ASSUME NEW n \in DOMAIN deliveries, NEW decision \in {"approved", "denied"},
             DecideDelivery(n, decision)
      PROVE  OutcomeStep
  BY <1>19 DEF DecideDelivery, mission, OutcomeStep
<1>20. ASSUME NEW e \in Courier, ReadDelivery(e)
      PROVE  OutcomeStep
  BY <1>20 DEF ReadDelivery, mission, OutcomeStep
<1>21. ASSUME NEW e \in Courier, Deliver(e)
      PROVE  OutcomeStep
  BY <1>21 DEF Deliver, mission, OutcomeStep
<1>22. ASSUME NEW e \in Courier, CommitDelivery(e)
      PROVE  OutcomeStep
  BY <1>22 DEF CommitDelivery, mission, OutcomeStep
<1>23. ASSUME NEW e \in Courier, CourierDies(e)
      PROVE  OutcomeStep
  BY <1>23 DEF CourierDies, mission, OutcomeStep
<1>24. CASE UNCHANGED vars
  BY <1>24 DEF vars, mission, OutcomeStep
<1>. QED
  BY <1>1, <1>2, <1>3, <1>4, <1>5, <1>6, <1>7, <1>8, <1>9, <1>10, <1>11, <1>12, <1>13, <1>14, <1>15, <1>16, <1>17, <1>18, <1>19, <1>20, <1>21, <1>22, <1>23, <1>24
     DEF Next, Tick, Operate, Ship

\* A driver that concludes has just found every item completed.
LEMMA Arrives ==
  ASSUME Held, [Next]_vars, NEW e \in Driver, at'[e] = "conclude", at[e] # "conclude"
  PROVE  AllDone'
<1>0. TypeOK
  BY DEF Held
<1>a. ASSUME NEW d \in Driver, NEW step, NEW w, Goto(d, step, w), step # "conclude" PROVE FALSE
  BY <1>0, <1>a, Gone
<1>1. ~(\E d \in Driver : \/ Launch(d) \/ DriverDies(d) \/ RequestApproval(d) \/ Prepare(d)
                         \/ Execute(d) \/ CompleteClaim(d) \/ ConcludeAll(d) \/ GiveUp(d))
  BY <1>a
     DEF Launch, DriverDies, RequestApproval, Prepare, Execute, CompleteClaim, ConcludeAll, GiveUp,
         Stop
<1>2. ~(\E d \in Driver : Look(d) \/ Start(d))
  BY <1>a, OnwardsSteps DEF Look, Start, Stop
<1>3. ~(Operate \/ Ship \/ UNCHANGED vars)
  BY DEF Operate, Pause, Resume, Abort, RecoverInterrupted, RetryWorkItem, Decide, Ship,
         ProposeDelivery, DecideDelivery, ReadDelivery, Deliver, CommitDelivery, CourierDies, vars
<1>4. ASSUME NEW d \in Driver, Claim(d)
      PROVE  AllDone'
  <2>1. ASSUME NEW its, Conclude(d, its), items' = its PROVE AllDone'
    <3>1. PICK step \in AtStep : /\ Goto(d, step, None)
                                 /\ step = "conclude" => \A i \in Item : Done(its, i)
      BY <2>1, ConcludeGoes
    <3>2. \A i \in Item : Done(its, i)
      BY <1>a, <3>1
    <3>. QED
      BY <2>1, <3>2 DEF AllDone
  <2>2. ~Goto(d, "look", None)
    BY <1>a
  <2>3. \A i \in Item : ~ClaimsItem(d, i)
    BY <1>a DEF ClaimsItem
  <2>. QED
    BY <1>4, <2>1, <2>2, <2>3, ClaimCases DEF JoinsItem
<1>. QED
  BY <1>1, <1>2, <1>3, <1>4 DEF Next, Tick

LEMMA EndsNext ==
  ASSUME Held, Waits, Ends, [Next]_vars
  PROVE  Ends'
<1>0. ItemStep /\ OutcomeStep
  BY StepOfItems, StepOfOutcome
<1>1. AllDone => /\ UNCHANGED <<items, unresolved, artifacts>> /\ AllDone'
                 /\ Verified' = Verified
  <2>1. AllDone => UNCHANGED <<items, unresolved, artifacts>>
    BY <1>0, NothingLeft DEF KeepsItems
  <2>. QED
    BY <2>1 DEF AllDone, Verified
<1>2. ConcludesWhatIsDone'
  BY <1>1, Arrives DEF Ends, ConcludesWhatIsDone
<1>3. ASSUME \E d \in Driver : at[d] = "conclude", Concluded, UNCHANGED grounded
      PROVE  EndsAsItIs' /\ GateStands'
  <2>1. AllDone
    BY <1>3 DEF Ends, ConcludesWhatIsDone
  <2>2. UNCHANGED <<unresolved, grounded>> /\ AllDone' /\ Verified' = Verified
    BY <1>1, <1>3, <2>1
  <2>3. EndsAsItIs'
    BY <1>3, <2>2 DEF Concluded, EndsAsItIs
  <2>4. gate' => ~Simulation /\ Verified /\ grounded /\ unresolved = {} /\ status' = "completed"
    BY <1>3 DEF Concluded
  <2>. QED
    BY <2>2, <2>3, <2>4 DEF GateStands
<1>4. ASSUME status' = "failed", UNCHANGED <<gate, grounded>>
      PROVE  EndsAsItIs' /\ GateStands'
  BY <1>1, <1>4 DEF Ends, EndsAsItIs, GateStands
<1>5. ASSUME UNCHANGED <<gate, grounded>>,
             \/ status' = status
             \/ status' \notin {"completed", "simulated"} /\ (status \notin Terminal \/ ~AllDone)
      PROVE  EndsAsItIs' /\ GateStands'
  BY <1>1, <1>5 DEF Ends, EndsAsItIs, GateStands, Terminal
<1>. QED
  BY <1>0, <1>2, <1>3, <1>4, <1>5 DEF Ends, OutcomeStep

LEMMA CompletedStep ==
  ASSUME Held, Waits, Ends, [Next]_vars, status \in {"completed", "simulated"}
  PROVE  /\ status' = status \/ \E d \in Driver : at[d] = "give up" /\ status' = "failed"
         /\ items' = items /\ artifacts' = artifacts
         /\ gate => gate'
<1>0. ItemStep /\ OutcomeStep
  BY StepOfItems, StepOfOutcome
<1>1. AllDone
  BY DEF Ends, EndsAsItIs
<1>2. UNCHANGED <<items, unresolved, artifacts>>
  BY <1>0, <1>1, NothingLeft DEF KeepsItems
<1>3. CASE Concluded
  <2>1. status' = status
    BY <1>3 DEF Concluded, Ends, EndsAsItIs
  <2>2. gate => gate'
    BY <1>3 DEF Concluded, Ends, GateStands
  <2>. QED
    BY <1>2, <2>1, <2>2
<1>4. CASE UNCHANGED gate
  BY <1>0, <1>1, <1>2, <1>3, <1>4 DEF OutcomeStep, Terminal
<1>. QED
  BY <1>0, <1>3, <1>4 DEF OutcomeStep

-----------------------------------------------------------------------------
(* Delivery *)

LEMMA DeliveryNext ==
  ASSUME Held, DeliveriesAreApproved, CouriersHoldApproval, [Next]_vars
  PROVE  DeliveriesAreApproved' /\ CouriersHoldApproval'
<1>0. /\ deliveries \in Seq({"pending", "approved", "denied"})
      /\ courier \in [Courier -> {"off", "deliver", "commit"}]
  BY DEF Held, TypeOK
<1>a. UNCHANGED delivery => DeliveriesAreApproved' /\ CouriersHoldApproval'
  BY DEF delivery, DeliveriesAreApproved, CouriersHoldApproval, Approved
<1>b. ASSUME Approved => Approved', UNCHANGED <<executed, effects, courier>>
      PROVE  DeliveriesAreApproved' /\ CouriersHoldApproval'
  BY <1>b DEF DeliveriesAreApproved, CouriersHoldApproval
<1>1. CASE Operate \/ \E d \in Driver : Launch(d) \/ Tick(d) \/ DriverDies(d)
  BY <1>1, <1>a
     DEF Operate, Pause, Resume, Abort, RecoverInterrupted, RetryWorkItem, Decide, Launch, Tick,
         Look, Start, RequestApproval, Claim, Prepare, Execute, CompleteClaim, ConcludeAll, GiveUp,
         DriverDies, delivery
<1>2. CASE ProposeDelivery
  <2>1. Approved => Approved'
    BY <1>2, <1>0 DEF ProposeDelivery, Approved
  <2>. QED
    BY <1>2, <1>b, <2>1 DEF ProposeDelivery
<1>3. ASSUME NEW n \in DOMAIN deliveries, NEW decision \in {"approved", "denied"},
             DecideDelivery(n, decision)
      PROVE  DeliveriesAreApproved' /\ CouriersHoldApproval'
  <2>1. Approved => Approved'
    <3>1. ASSUME Approved PROVE deliveries'[1] = "approved" /\ deliveries' # << >>
      <4>1. 1 \in DOMAIN deliveries /\ deliveries[1] = "approved"
        BY <1>0, <3>1 DEF Approved
      <4>2. n # 1 /\ DOMAIN deliveries' = DOMAIN deliveries
        BY <1>3, <4>1 DEF DecideDelivery
      <4>. QED
        BY <1>3, <4>1, <4>2 DEF DecideDelivery
    <3>. QED
      BY <3>1 DEF Approved
  <2>. QED
    BY <1>3, <1>b, <2>1 DEF DecideDelivery
<1>4. ASSUME NEW e \in Courier, ReadDelivery(e)
      PROVE  DeliveriesAreApproved' /\ CouriersHoldApproval'
  BY <1>4, <1>0 DEF ReadDelivery, DeliveriesAreApproved, CouriersHoldApproval, Approved
<1>5. ASSUME NEW e \in Courier, Deliver(e)
      PROVE  DeliveriesAreApproved' /\ CouriersHoldApproval'
  BY <1>5, <1>0 DEF Deliver, DeliveriesAreApproved, CouriersHoldApproval, Approved
<1>6. ASSUME NEW e \in Courier, CommitDelivery(e)
      PROVE  DeliveriesAreApproved' /\ CouriersHoldApproval'
  BY <1>6, <1>0 DEF CommitDelivery, DeliveriesAreApproved, CouriersHoldApproval, Approved
<1>7. ASSUME NEW e \in Courier, CourierDies(e)
      PROVE  DeliveriesAreApproved' /\ CouriersHoldApproval'
  BY <1>7, <1>0 DEF CourierDies, DeliveriesAreApproved, CouriersHoldApproval, Approved
<1>8. CASE UNCHANGED vars
  BY <1>8, <1>a DEF vars, delivery
<1>. QED
  BY <1>1, <1>2, <1>3, <1>4, <1>5, <1>6, <1>7, <1>8 DEF Next, Ship

-----------------------------------------------------------------------------
(* What holds of every mission *)

LEMMA InitSound == Init => Sound
<1>. SUFFICES ASSUME Init PROVE Sound
  OBVIOUS
<1>1. Held
  BY InitHeld
<1>2. Waits
  BY DEF Init, Waits, ApprovalsMatchItems, OnlyApprovalsWait
<1>3. OneWorkerIsHeard /\ LoopsRunOn
  BY DEF Init, OneWorkerIsHeard, Working, LoopsRunOn
<1>4. Ends
  BY DEF Init, Ends, ConcludesWhatIsDone, EndsAsItIs, GateStands
<1>5. PromotedByOthers
  BY DEF Init, PromotedByOthers
<1>6. DeliveriesAreApproved /\ CouriersHoldApproval
  BY DEF Init, DeliveriesAreApproved, CouriersHoldApproval
<1>. QED
  BY <1>1, <1>2, <1>3, <1>4, <1>5, <1>6 DEF Sound

LEMMA NextSound == Sound /\ [Next]_vars => Sound'
  BY NextHeld, WaitsNext, WorkerNext, LoopsNext, EndsNext, PromotedNext, DeliveryNext DEF Sound

\* A mission keeps its types and its inductive invariant.
THEOREM Invariance == Spec => []Sound
<1>. QED
  BY InitSound, NextSound, PTL DEF Spec

\* The variables of a mission have their types.
THEOREM TypeCorrect == Spec => []TypeOK
<1>1. Sound => TypeOK
  BY DEF Sound, Held
<1>. QED
  BY <1>1, Invariance, PTL

\* requestApproval, decide, retryWorkItem, recoverInterrupted and completeClaim:
\* whatever the drivers and operators have read, an approval is pending for
\* exactly the items that wait for one.
THEOREM ApprovalsMatch == Spec => []ApprovalsMatchItems
<1>1. Sound => ApprovalsMatchItems
  BY DEF Sound, Waits
<1>. QED
  BY <1>1, Invariance, PTL

\* completeClaim: no two drivers have the same attempt, and a driver whose item
\* was given out again, or is over, is not heard.
THEOREM OneWorker == Spec => []OneWorkerIsHeard
<1>1. Sound => OneWorkerIsHeard
  BY DEF Sound
<1>. QED
  BY <1>1, Invariance, PTL

\* reconcile and completeClaim: the gate of a mission is passed only on items that
\* are all completed, failures that were made good and artifacts that another
\* role has verified.
THEOREM GateEarned == Spec => []GateIsEarned
<1>1. Sound => GateIsEarned
  <2>1. ASSUME Sound, gate PROVE loops = {}
    <3>1. \A i \in Item : Done(items, i)
      BY <2>1 DEF Sound, Ends, GateStands, AllDone
    <3>2. \A i \in loops : i \in Item /\ ~Done(items, i)
      BY <2>1 DEF Sound, Held, TypeOK, LoopsRunOn
    <3>. QED
      BY <3>1, <3>2
  <2>. QED
    BY <2>1 DEF Sound, Ends, GateStands, AllDone, Verified, PromotedByOthers, GateIsEarned
<1>. QED
  BY <1>1, Invariance, PTL

\* proposeDelivery and executeDelivery: with any number of couriers, nothing is
\* delivered that the first approval of the delivery does not allow.
THEOREM DeliveriesApproved == Spec => []DeliveriesAreApproved
<1>1. Sound => DeliveriesAreApproved
  BY DEF Sound
<1>. QED
  BY <1>1, Invariance, PTL

\* reconcile: a completed mission stays as it is, but for a driver that gives it
\* up on what it has read before a retry.
THEOREM CompletedFinal == Spec => CompletedIsFinal
<1>1. Sound /\ [Next]_vars =>
        [(status \in {"completed", "simulated"}) =>
           /\ status' = status \/ \E d \in Driver : at[d] = "give up" /\ status' = "failed"
           /\ items' = items /\ artifacts' = artifacts
           /\ gate => gate']_vars
  BY CompletedStep DEF Sound
<1>. QED
  BY <1>1, Invariance, PTL DEF Spec, CompletedIsFinal
================================================================================

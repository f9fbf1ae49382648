--------------------------- MODULE ControlProofs ----------------------------
(***************************************************************************)
(* For any number of invocations, operators, proposals, calls and deaths,  *)
(* only what was approved is applied, an edit of an adapter does not       *)
(* outlive its invocation, and an approval is good for one execution; and  *)
(* for any number of drivers, requests, commands and deaths, a command is  *)
(* carried out once and no run is left without a mission to go on with.    *)
(* The two components share nothing: the names of the second begin with OS *)
(* where the first has them too.                                           *)
(***************************************************************************)
EXTENDS Workspace, Operations, FiniteSetTheorems, TLAPS

-----------------------------------------------------------------------------
(* Workspace *)

PlaceOf == {"idle"} \cup InvokerStep \cup OperatorStep

\* Who decides has read of a proposal, who applies one has read that it was
\* approved, and so has whoever reads it from the record.
Chosen ==
  /\ \A o \in Operator : pc[o] = "decide" => read[o] # 0
  /\ \A o \in Operator : pc[o] \in {"apply", "written"} => read[o] \in approved
  /\ record.status = "approved" => record.pending \in approved

\* Where there is no worktree there are no edits, and an edit that an invoker
\* has found in the tree was left by an earlier one of its own, which died.
Found ==
  /\ ~present => edits = {}
  /\ \A i \in Invoker : Adapters(i) \in seen[i] /\ Adapters(i) \in edits => i \in abandoned

\* Only proposals that were made are in the record, in what was read of it and
\* among those that were executed.
Made ==
  /\ record.pending <= proposals
  /\ \A o \in Operator : read[o] <= proposals
  /\ \A p \in executed : p <= proposals

\* Unless two operators work at the same time or one dies, an executed proposal
\* is in the record only as long as its operator has to write it out of there,
\* and nobody else has it in hand.
Alone ==
  /\ \A o, p \in Operator : pc[o] # "idle" /\ pc[p] # "idle" => o = p
  /\ record.pending \in executed => \E o \in Operator : pc[o] = "written"
  /\ \A o \in Operator :
       pc[o] \in {"decide", "apply", "remove", "closed"} => read[o] \notin executed
  /\ ~repeated

Sound ==
  /\ TypeOK /\ Chosen /\ OnlyApprovedIsApplied
  /\ Found /\ AdaptersLeaveNothing
  /\ Made /\ (~excused => Alone)

-----------------------------------------------------------------------------
(* Types *)

LEMMA Actors ==
  /\ \A i \in Invoker : i \in Actor /\ i \notin Operator
  /\ \A o \in Operator : o \in Actor /\ o \notin Invoker
  BY WorkspaceAssumption DEF Actor

LEMMA Gone ==
  ASSUME TypeOK, NEW a \in Actor, NEW step, Goto(a, step)
  PROVE  /\ step \in PlaceOf => pc' \in [Actor -> PlaceOf]
         /\ pc'[a] = step
         /\ \A b \in Actor \ {a} : pc'[b] = pc[b]
  BY DEF TypeOK, Goto, PlaceOf

LEMMA IsStep ==
  /\ "idle" \in PlaceOf /\ "add" \in PlaceOf /\ "record" \in PlaceOf /\ "work" \in PlaceOf
  /\ "rollback" \in PlaceOf /\ "ready" \in PlaceOf /\ "propose" \in PlaceOf /\ "write proposal" \in PlaceOf
  /\ "decide" \in PlaceOf /\ "apply" \in PlaceOf /\ "written" \in PlaceOf /\ "remove" \in PlaceOf
  /\ "closed" \in PlaceOf
  BY DEF PlaceOf, InvokerStep, OperatorStep

LEMMA Forgot ==
  ASSUME TypeOK, NEW a \in Actor, Forget(a)
  PROVE  /\ seen' \in [Invoker -> SUBSET Edit] /\ read' \in [Operator -> 0..MaxProposals]
         /\ applied' \in [Operator -> 0..ActionCount]
         /\ \A i \in Invoker : seen'[i] = seen[i] \/ (i = a /\ seen'[i] = {})
         /\ \A o \in Operator : read'[o] = read[o] \/ (o = a /\ read'[o] = 0)
         /\ \A o \in Operator \ {a} : read'[o] = read[o]
  BY WorkspaceAssumption DEF TypeOK, Forget

LEMMA Records ==
  /\ Missing \in Record /\ Ready \in Record /\ Missing.pending = 0 /\ Ready.pending = 0
  /\ Missing.status = "none" /\ Ready.status = "ready"
  /\ \A p \in 0..MaxProposals :
       /\ State("waiting_approval", p) \in Record /\ State("approved", p) \in Record
       /\ State("executed", p) \in Record /\ State("closed", p) \in Record
  /\ \A s, p : State(s, p).status = s /\ State(s, p).pending = p
  BY WorkspaceAssumption DEF Missing, Ready, State, Record, Status

\* The parts of the types that a call of an operator changes.
LEMMA Called ==
  ASSUME TypeOK, NEW o \in Operator, NEW step \in PlaceOf, Call(o, step)
  PROVE  TypeOK'
<1>1. pc' \in [Actor -> PlaceOf]
  BY Actors, Gone DEF Call
<1>2. calls' \in 0..MaxCalls
  <2>1. calls \in 0..MaxCalls /\ MaxCalls \in Nat /\ calls < MaxCalls /\ calls' = calls + 1
    BY WorkspaceAssumption DEF TypeOK, Call
  <2>. QED
    BY <2>1
<1>3. read' \in [Operator -> 0..MaxProposals]
  BY DEF TypeOK, Call, Record
<1>. QED
  BY <1>1, <1>2, <1>3 DEF TypeOK, PlaceOf, Call, tree

LEMMA InitTyped == Init => TypeOK
<1>1. 0 \in 0..MaxProposals /\ 0 \in 0..ActionCount /\ 0 \in 0..MaxCalls /\ 0 \in 0..MaxFaults
  BY WorkspaceAssumption
<1>. QED
  BY <1>1, Records DEF Init, TypeOK

LEMMA NextTyped ==
  ASSUME TypeOK, Chosen, [Next]_vars
  PROVE  TypeOK'
<1>a. /\ \A i \in Invoker : i \in Actor
      /\ \A o \in Operator : o \in Actor
  BY Actors
<1>1. ASSUME NEW i \in Invoker, Prepare(i) PROVE TypeOK'
  <2>1. pc' \in [Actor -> PlaceOf]
    BY <1>1, <1>a, Gone, IsStep DEF Prepare, Leave, TypeOK, PlaceOf
  <2>. QED
    BY <1>1, <2>1, Records DEF Prepare, TypeOK, PlaceOf, tree, history, counters
<1>2. ASSUME NEW i \in Invoker, AddWorktree(i) PROVE TypeOK'
  <2>1. pc' \in [Actor -> PlaceOf]
    BY <1>2, <1>a, Gone, IsStep DEF AddWorktree, Leave, TypeOK, PlaceOf
  <2>. QED
    BY <1>2, <2>1, Records DEF AddWorktree, TypeOK, PlaceOf, tree, history, counters
<1>3. ASSUME NEW i \in Invoker, WriteRecord(i) PROVE TypeOK'
  <2>1. pc' \in [Actor -> PlaceOf]
    BY <1>3, <1>a, Gone, IsStep DEF WriteRecord, Leave, TypeOK, PlaceOf
  <2>. QED
    BY <1>3, <2>1, Records DEF WriteRecord, TypeOK, PlaceOf, tree, history, counters
<1>4. ASSUME NEW i \in Invoker, BeforeInvocation(i) PROVE TypeOK'
  <2>1. pc' \in [Actor -> PlaceOf]
    BY <1>4, <1>a, Gone, IsStep DEF BeforeInvocation
  <2>2. seen' \in [Invoker -> SUBSET Edit]
    BY <1>4 DEF BeforeInvocation, TypeOK
  <2>. QED
    BY <1>4, <2>1, <2>2 DEF BeforeInvocation, TypeOK, PlaceOf, tree, history, counters
<1>5. ASSUME NEW i \in Invoker, Mutate(i) PROVE TypeOK'
  <2>1. Adapters(i) \in Edit
    BY DEF Edit
  <2>. QED
    BY <1>5, <2>1 DEF Mutate, TypeOK, history, counters
<1>6. ASSUME NEW i \in Invoker, AfterInvocation(i) PROVE TypeOK'
  <2>1. pc' \in [Actor -> PlaceOf]
    BY <1>6, <1>a, Gone, IsStep DEF AfterInvocation, Leave
  <2>2. /\ seen' \in [Invoker -> SUBSET Edit] /\ read' \in [Operator -> 0..MaxProposals]
        /\ applied' \in [Operator -> 0..ActionCount]
    BY <1>6, <1>a, Forgot DEF AfterInvocation, Leave
  <2>. QED
    BY <1>6, <2>1, <2>2, Records DEF AfterInvocation, TypeOK, PlaceOf, tree, history, counters
<1>7. ASSUME NEW i \in Invoker, ProposeActions(i) PROVE TypeOK'
  <2>1. pc' \in [Actor -> PlaceOf]
    BY <1>7, <1>a, Gone, IsStep DEF ProposeActions, Leave, TypeOK, PlaceOf
  <2>. QED
    BY <1>7, <2>1, Records DEF ProposeActions, TypeOK, PlaceOf, tree, history, counters
<1>8. ASSUME NEW i \in Invoker, WriteProposal(i) PROVE TypeOK'
  <2>1. pc' \in [Actor -> PlaceOf]
    BY <1>8, <1>a, Gone, IsStep DEF WriteProposal
  <2>2. proposals' \in 0..MaxProposals
    <3>1. /\ proposals \in 0..MaxProposals /\ MaxProposals \in Nat
          /\ proposals < MaxProposals /\ proposals' = proposals + 1
      BY <1>8, WorkspaceAssumption DEF TypeOK, WriteProposal
    <3>. QED
      BY <3>1
  <2>3. record' \in Record
    BY <1>8, <2>2, Records DEF WriteProposal
  <2>. QED
    BY <1>8, <2>1, <2>2, <2>3 DEF WriteProposal, TypeOK, PlaceOf, tree, history, counters
<1>9. ASSUME NEW o \in Operator, Decide(o) PROVE TypeOK'
  BY <1>9, IsStep, Called DEF Decide
<1>10. ASSUME NEW o \in Operator, WriteDecision(o) PROVE TypeOK'
  <2>1. pc' \in [Actor -> PlaceOf]
    BY <1>10, <1>a, Gone, IsStep DEF WriteDecision, Leave
  <2>2. /\ seen' \in [Invoker -> SUBSET Edit] /\ read' \in [Operator -> 0..MaxProposals]
        /\ applied' \in [Operator -> 0..ActionCount]
    BY <1>10, <1>a, Forgot DEF WriteDecision, Leave
  <2>3. record' \in Record /\ approved' \subseteq 1..MaxProposals
    <3>1. read[o] \in 0..MaxProposals /\ read[o] # 0
      BY <1>10 DEF TypeOK, Chosen, WriteDecision
    <3>2. read[o] \in 1..MaxProposals
      BY <3>1, WorkspaceAssumption
    <3>3. record' \in {State("approved", read[o]), Ready} /\ approved' \in {approved, approved \cup {read[o]}}
      BY <1>10 DEF WriteDecision
    <3>. QED
      BY <3>1, <3>2, <3>3, Records DEF TypeOK
  <2>. QED
    BY <1>10, <2>1, <2>2, <2>3, Records DEF WriteDecision, TypeOK, PlaceOf, tree, history, counters
<1>11. ASSUME NEW o \in Operator, ExecuteApproved(o) PROVE TypeOK'
  BY <1>11, IsStep, Called DEF ExecuteApproved
<1>12. ASSUME NEW o \in Operator, ApplyAction(o) PROVE TypeOK'
  <2>1. pc' \in [Actor -> PlaceOf]
    BY <1>12, <1>a, Gone, IsStep DEF ApplyAction, TypeOK, PlaceOf
  <2>2. /\ read[o] \in 1..MaxProposals /\ applied[o] \in 0..ActionCount /\ applied[o] < ActionCount
        /\ ActionCount \in Nat
    BY <1>12, WorkspaceAssumption DEF TypeOK, Chosen, ApplyAction
  <2>3. applied[o] + 1 \in 1..ActionCount /\ applied[o] + 1 \in 0..ActionCount
    BY <2>2
  <2>4. edits' \subseteq Edit /\ applied' \in [Operator -> 0..ActionCount]
    BY <1>12, <2>2, <2>3 DEF TypeOK, ApplyAction, Edit
  <2>. QED
    BY <1>12, <2>1, <2>4 DEF ApplyAction, TypeOK, PlaceOf, tree, history, counters
<1>13. ASSUME NEW o \in Operator, WriteReceipt(o) PROVE TypeOK'
  <2>1. pc' \in [Actor -> PlaceOf]
    BY <1>13, <1>a, Gone, IsStep DEF WriteReceipt, Leave
  <2>2. /\ seen' \in [Invoker -> SUBSET Edit] /\ read' \in [Operator -> 0..MaxProposals]
        /\ applied' \in [Operator -> 0..ActionCount]
    BY <1>13, <1>a, Forgot DEF WriteReceipt, Leave, TypeOK
  <2>3. executed' \subseteq 1..MaxProposals
    <3>1. read[o] \in 1..MaxProposals
      BY <1>13 DEF TypeOK, Chosen, WriteReceipt
    <3>. QED
      BY <1>13, <3>1 DEF TypeOK, WriteReceipt
  <2>4. repeated' \in BOOLEAN
    BY <1>13 DEF TypeOK, WriteReceipt
  <2>. QED
    BY <1>13, <2>1, <2>2, <2>3, <2>4 DEF WriteReceipt, TypeOK, PlaceOf, tree, history, counters
<1>14. ASSUME NEW o \in Operator, WriteExecuted(o) PROVE TypeOK'
  <2>1. pc' \in [Actor -> PlaceOf]
    BY <1>14, <1>a, Gone, IsStep DEF WriteExecuted, Leave
  <2>2. /\ seen' \in [Invoker -> SUBSET Edit] /\ read' \in [Operator -> 0..MaxProposals]
        /\ applied' \in [Operator -> 0..ActionCount]
    BY <1>14, <1>a, Forgot DEF WriteExecuted, Leave
  <2>3. record' \in Record
    <3>1. read[o] \in 0..MaxProposals /\ 0 \in 0..MaxProposals
      BY WorkspaceAssumption DEF TypeOK
    <3>. QED
      BY <1>14, <3>1, Records DEF WriteExecuted, Settled
  <2>. QED
    BY <1>14, <2>1, <2>2, <2>3, Records DEF WriteExecuted, TypeOK, PlaceOf, tree, history, counters
<1>15. ASSUME NEW o \in Operator, Rollback(o) PROVE TypeOK'
  BY <1>15, IsStep, Called DEF Rollback
<1>16. ASSUME NEW o \in Operator, Close(o) PROVE TypeOK'
  BY <1>16, IsStep, Called DEF Close
<1>17. ASSUME NEW o \in Operator, RemoveWorktree(o) PROVE TypeOK'
  <2>1. pc' \in [Actor -> PlaceOf]
    BY <1>17, <1>a, Gone, IsStep DEF RemoveWorktree, Leave
  <2>2. /\ seen' \in [Invoker -> SUBSET Edit] /\ read' \in [Operator -> 0..MaxProposals]
        /\ applied' \in [Operator -> 0..ActionCount]
    BY <1>17, <1>a, Forgot DEF RemoveWorktree, Leave, TypeOK
  <2>. QED
    BY <1>17, <2>1, <2>2 DEF RemoveWorktree, TypeOK, PlaceOf, tree, counters
<1>18. ASSUME NEW o \in Operator, WriteClosed(o) PROVE TypeOK'
  <2>1. pc' \in [Actor -> PlaceOf]
    BY <1>18, <1>a, Gone, IsStep DEF WriteClosed, Leave
  <2>2. /\ seen' \in [Invoker -> SUBSET Edit] /\ read' \in [Operator -> 0..MaxProposals]
        /\ applied' \in [Operator -> 0..ActionCount]
    BY <1>18, <1>a, Forgot DEF WriteClosed, Leave
  <2>3. record' \in Record
    <3>1. read[o] \in 0..MaxProposals /\ 0 \in 0..MaxProposals
      BY WorkspaceAssumption DEF TypeOK
    <3>. QED
      BY <1>18, <3>1, Records DEF WriteClosed, Settled
  <2>. QED
    BY <1>18, <2>1, <2>2, <2>3, Records DEF WriteClosed, TypeOK, PlaceOf, tree, history, counters
<1>19. ASSUME NEW a \in Actor, Reset(a) PROVE TypeOK'
  <2>1. pc' \in [Actor -> PlaceOf]
    BY <1>19, <1>a, Gone, IsStep DEF Reset, Leave
  <2>2. /\ seen' \in [Invoker -> SUBSET Edit] /\ read' \in [Operator -> 0..MaxProposals]
        /\ applied' \in [Operator -> 0..ActionCount]
    BY <1>19, <1>a, Forgot DEF Reset, Leave
  <2>. QED
    BY <1>19, <2>1, <2>2, Records DEF Reset, TypeOK, PlaceOf, tree, history, counters
<1>20. ASSUME NEW a \in Actor, WriteReady(a) PROVE TypeOK'
  <2>1. pc' \in [Actor -> PlaceOf]
    BY <1>20, <1>a, Gone, IsStep DEF WriteReady, Leave
  <2>2. /\ seen' \in [Invoker -> SUBSET Edit] /\ read' \in [Operator -> 0..MaxProposals]
        /\ applied' \in [Operator -> 0..ActionCount]
    BY <1>20, <1>a, Forgot DEF WriteReady, Leave
  <2>. QED
    BY <1>20, <2>1, <2>2, Records DEF WriteReady, TypeOK, PlaceOf, tree, history, counters
<1>21. ASSUME NEW a \in Actor, Die(a) PROVE TypeOK'
  <2>1. pc' \in [Actor -> PlaceOf]
    BY <1>21, <1>a, Gone, IsStep DEF Die, Leave
  <2>2. /\ seen' \in [Invoker -> SUBSET Edit] /\ read' \in [Operator -> 0..MaxProposals]
        /\ applied' \in [Operator -> 0..ActionCount]
    BY <1>21, <1>a, Forgot DEF Die, Leave
  <2>3. faults' \in 0..MaxFaults /\ abandoned' \subseteq Invoker
    <3>1. faults \in 0..MaxFaults /\ MaxFaults \in Nat /\ faults < MaxFaults /\ faults' = faults + 1
      BY <1>21, WorkspaceAssumption DEF TypeOK, Die
    <3>2. faults' \in 0..MaxFaults
      BY <3>1
    <3>. QED
      BY <1>21, <3>2 DEF TypeOK, Die
  <2>. QED
    BY <1>21, <2>1, <2>2, <2>3, Records DEF Die, TypeOK, PlaceOf, tree, history, counters
<1>22. CASE UNCHANGED vars
  BY <1>22 DEF vars, tree, history, counters, TypeOK
<1>. QED
  BY <1>1, <1>2, <1>3, <1>4, <1>5, <1>6, <1>7, <1>8, <1>9, <1>10, <1>11, <1>12, <1>13, <1>14,
     <1>15, <1>16, <1>17, <1>18, <1>19, <1>20, <1>21, <1>22
     DEF Next, Invoke, Operate

-----------------------------------------------------------------------------
(* What operators have approved *)

\* A step after which the record is no new approval, nobody has got a step that
\* needs one, and who had one has read the same.
LEMMA ChosenStays ==
  ASSUME Chosen,
         record'.status = "approved" => record' = record,
         approved \subseteq approved',
         \A o \in Operator : pc'[o] \in {"decide", "apply", "written"} =>
           read'[o] = read[o] /\ (pc[o] = pc'[o] \/ (pc[o] = "apply" /\ pc'[o] = "written"))
  PROVE  Chosen'
  BY DEF Chosen

LEMMA ChosenNext ==
  ASSUME TypeOK, Chosen, [Next]_vars
  PROVE  Chosen'
<1>a. /\ \A i \in Invoker : i \in Actor /\ i \notin Operator
      /\ \A o \in Operator : o \in Actor
  BY Actors
\* Whoever is gone to another step of its own.
<1>b. ASSUME NEW a \in Actor, NEW step, Goto(a, step), step \notin {"decide", "apply", "written"},
             \A o \in Operator \ {a} : read'[o] = read[o]
      PROVE  \A o \in Operator : pc'[o] \in {"decide", "apply", "written"} =>
               read'[o] = read[o] /\ pc[o] = pc'[o]
  BY <1>a, <1>b, Gone
<1>c. ASSUME NEW a \in Actor, Forget(a) PROVE \A o \in Operator \ {a} : read'[o] = read[o]
  BY <1>c, Forgot
<1>1. ASSUME NEW i \in Invoker, Prepare(i) PROVE Chosen'
  <2>1. record'.status = "approved" => record' = record
    BY <1>1, Records DEF Prepare
  <2>2. \A o \in Operator : pc'[o] \in {"decide", "apply", "written"} =>
          read'[o] = read[o] /\ pc[o] = pc'[o]
    BY <1>1, <1>a, <1>b, <1>c DEF Prepare, Leave
  <2>. QED
    BY <1>1, <2>1, <2>2, ChosenStays DEF Prepare, history, counters
<1>2. ASSUME NEW i \in Invoker, AddWorktree(i) PROVE Chosen'
  <2>1. record'.status = "approved" => record' = record
    BY <1>2, Records DEF AddWorktree
  <2>2. \A o \in Operator : pc'[o] \in {"decide", "apply", "written"} =>
          read'[o] = read[o] /\ pc[o] = pc'[o]
    BY <1>2, <1>a, <1>b, <1>c DEF AddWorktree, Leave
  <2>. QED
    BY <1>2, <2>1, <2>2, ChosenStays DEF AddWorktree, history, counters
<1>3. ASSUME NEW i \in Invoker, WriteRecord(i) PROVE Chosen'
  <2>1. record'.status = "approved" => record' = record
    BY <1>3, Records DEF WriteRecord
  <2>2. \A o \in Operator : pc'[o] \in {"decide", "apply", "written"} =>
          read'[o] = read[o] /\ pc[o] = pc'[o]
    BY <1>3, <1>a, <1>b, <1>c DEF WriteRecord, Leave
  <2>. QED
    BY <1>3, <2>1, <2>2, ChosenStays DEF WriteRecord, history, counters
<1>4. ASSUME NEW i \in Invoker, BeforeInvocation(i) PROVE Chosen'
  <2>1. record'.status = "approved" => record' = record
    BY <1>4, Records DEF BeforeInvocation
  <2>2. \A o \in Operator : pc'[o] \in {"decide", "apply", "written"} =>
          read'[o] = read[o] /\ pc[o] = pc'[o]
    BY <1>4, <1>a, <1>b, <1>c DEF BeforeInvocation, Leave
  <2>. QED
    BY <1>4, <2>1, <2>2, ChosenStays DEF BeforeInvocation, history, counters
<1>5. ASSUME NEW i \in Invoker, Mutate(i) PROVE Chosen'
  BY <1>5, ChosenStays DEF Mutate, history
<1>6. ASSUME NEW i \in Invoker, AfterInvocation(i) PROVE Chosen'
  <2>1. record'.status = "approved" => record' = record
    BY <1>6, Records DEF AfterInvocation
  <2>2. \A o \in Operator : pc'[o] \in {"decide", "apply", "written"} =>
          read'[o] = read[o] /\ pc[o] = pc'[o]
    BY <1>6, <1>a, <1>b, <1>c DEF AfterInvocation, Leave
  <2>. QED
    BY <1>6, <2>1, <2>2, ChosenStays DEF AfterInvocation, history, counters
<1>7. ASSUME NEW i \in Invoker, ProposeActions(i) PROVE Chosen'
  <2>1. record'.status = "approved" => record' = record
    BY <1>7, Records DEF ProposeActions
  <2>2. \A o \in Operator : pc'[o] \in {"decide", "apply", "written"} =>
          read'[o] = read[o] /\ pc[o] = pc'[o]
    BY <1>7, <1>a, <1>b, <1>c DEF ProposeActions, Leave
  <2>. QED
    BY <1>7, <2>1, <2>2, ChosenStays DEF ProposeActions, history, counters
<1>8. ASSUME NEW i \in Invoker, WriteProposal(i) PROVE Chosen'
  <2>1. record'.status = "approved" => record' = record
    BY <1>8, Records DEF WriteProposal
  <2>2. \A o \in Operator : pc'[o] \in {"decide", "apply", "written"} =>
          read'[o] = read[o] /\ pc[o] = pc'[o]
    BY <1>8, <1>a, <1>b, <1>c DEF WriteProposal, Leave
  <2>. QED
    BY <1>8, <2>1, <2>2, ChosenStays DEF WriteProposal, history, counters
<1>9. ASSUME NEW o \in Operator, Decide(o) PROVE Chosen'
  <2>1. Call(o, "decide") /\ record.pending # 0
    BY <1>9 DEF Decide
  <2>2. /\ pc'[o] = "decide" /\ \A p \in Operator \ {o} : pc'[p] = pc[p]
        /\ read'[o] = record.pending /\ \A p \in Operator \ {o} : read'[p] = read[p]
    BY <1>a, <2>1, Gone DEF Call, TypeOK
  <2>. QED
    BY <2>1, <2>2 DEF Chosen, Call
<1>10. ASSUME NEW o \in Operator, WriteDecision(o) PROVE Chosen'
  <2>1. \A p \in Operator : pc'[p] \in {"decide", "apply", "written"} =>
          read'[p] = read[p] /\ pc[p] = pc'[p]
    BY <1>10, <1>a, <1>b, <1>c DEF WriteDecision, Leave
  <2>2. \/ record' = State("approved", read[o]) /\ approved' = approved \cup {read[o]}
        \/ record' = Ready /\ UNCHANGED approved
    BY <1>10 DEF WriteDecision
  <2>3. record'.status = "approved" => record'.pending \in approved'
    BY <2>2, Records
  <2>. QED
    BY <2>1, <2>2, <2>3 DEF Chosen
<1>11. ASSUME NEW o \in Operator, ExecuteApproved(o) PROVE Chosen'
  <2>1. Call(o, "apply") /\ record.status = "approved"
    BY <1>11 DEF ExecuteApproved, MayExecute
  <2>2. /\ pc'[o] = "apply" /\ \A p \in Operator \ {o} : pc'[p] = pc[p]
        /\ read'[o] = record.pending /\ \A p \in Operator \ {o} : read'[p] = read[p]
    BY <1>a, <2>1, Gone DEF Call, TypeOK
  <2>. QED
    BY <2>1, <2>2 DEF Chosen, Call
<1>12. ASSUME NEW o \in Operator, ApplyAction(o) PROVE Chosen'
  <2>1. \A p \in Operator : pc'[p] \in {"decide", "apply", "written"} =>
          read'[p] = read[p] /\ pc[p] = pc'[p]
    <3>1. CASE UNCHANGED pc
      BY <1>12, <3>1 DEF ApplyAction
    <3>2. CASE Goto(o, "rollback")
      BY <1>12, <1>a, <1>b, <3>2 DEF ApplyAction
    <3>. QED
      BY <1>12, <3>1, <3>2 DEF ApplyAction
  <2>. QED
    BY <1>12, <2>1, ChosenStays DEF ApplyAction, history
<1>13. ASSUME NEW o \in Operator, WriteReceipt(o) PROVE Chosen'
  <2>1. \A p \in Operator : pc'[p] \in {"decide", "apply", "written"} =>
          read'[p] = read[p] /\ (pc[p] = pc'[p] \/ (pc[p] = "apply" /\ pc'[p] = "written"))
    <3>1. CASE Goto(o, "written") /\ UNCHANGED read
      BY <1>13, <1>a, <3>1, Gone DEF WriteReceipt
    <3>2. CASE Leave(o)
      BY <1>a, <1>b, <1>c, <3>2 DEF Leave
    <3>. QED
      BY <1>13, <3>1, <3>2 DEF WriteReceipt
  <2>. QED
    BY <1>13, <2>1, ChosenStays DEF WriteReceipt
<1>14. ASSUME NEW o \in Operator, WriteExecuted(o) PROVE Chosen'
  <2>1. record'.status = "approved" => record' = record
    BY <1>14, Records DEF WriteExecuted, Settled
  <2>2. \A p \in Operator : pc'[p] \in {"decide", "apply", "written"} =>
          read'[p] = read[p] /\ pc[p] = pc'[p]
    BY <1>14, <1>a, <1>b, <1>c DEF WriteExecuted, Leave
  <2>. QED
    BY <1>14, <2>1, <2>2, ChosenStays DEF WriteExecuted, history, counters
<1>15. ASSUME NEW o \in Operator, Rollback(o) PROVE Chosen'
  <2>1. Call(o, "rollback")
    BY <1>15 DEF Rollback
  <2>2. /\ pc'[o] = "rollback" /\ \A p \in Operator \ {o} : pc'[p] = pc[p]
        /\ read'[o] = record.pending /\ \A p \in Operator \ {o} : read'[p] = read[p]
    BY <1>a, <2>1, Gone DEF Call, TypeOK
  <2>. QED
    BY <2>1, <2>2 DEF Chosen, Call
<1>16. ASSUME NEW o \in Operator, Close(o) PROVE Chosen'
  <2>1. Call(o, "remove")
    BY <1>16 DEF Close
  <2>2. /\ pc'[o] = "remove" /\ \A p \in Operator \ {o} : pc'[p] = pc[p]
        /\ read'[o] = record.pending /\ \A p \in Operator \ {o} : read'[p] = read[p]
    BY <1>a, <2>1, Gone DEF Call, TypeOK
  <2>. QED
    BY <2>1, <2>2 DEF Chosen, Call
<1>17. ASSUME NEW o \in Operator, RemoveWorktree(o) PROVE Chosen'
  <2>1. record'.status = "approved" => record' = record
    BY <1>17, Records DEF RemoveWorktree
  <2>2. \A p \in Operator : pc'[p] \in {"decide", "apply", "written"} =>
          read'[p] = read[p] /\ pc[p] = pc'[p]
    BY <1>17, <1>a, <1>b, <1>c DEF RemoveWorktree, Leave
  <2>. QED
    BY <1>17, <2>1, <2>2, ChosenStays DEF RemoveWorktree, history, counters
<1>18. ASSUME NEW o \in Operator, WriteClosed(o) PROVE Chosen'
  <2>1. record'.status = "approved" => record' = record
    BY <1>18, Records DEF WriteClosed
  <2>2. \A p \in Operator : pc'[p] \in {"decide", "apply", "written"} =>
          read'[p] = read[p] /\ pc[p] = pc'[p]
    BY <1>18, <1>a, <1>b, <1>c DEF WriteClosed, Leave
  <2>. QED
    BY <1>18, <2>1, <2>2, ChosenStays DEF WriteClosed, history, counters
<1>19. ASSUME NEW a \in Actor, Reset(a) PROVE Chosen'
  <2>1. record'.status = "approved" => record' = record
    BY <1>19, Records DEF Reset
  <2>2. \A o \in Operator : pc'[o] \in {"decide", "apply", "written"} =>
          read'[o] = read[o] /\ pc[o] = pc'[o]
    BY <1>19, <1>a, <1>b, <1>c DEF Reset, Leave
  <2>. QED
    BY <1>19, <2>1, <2>2, ChosenStays DEF Reset, history, counters
<1>20. ASSUME NEW a \in Actor, WriteReady(a) PROVE Chosen'
  <2>1. record'.status = "approved" => record' = record
    BY <1>20, Records DEF WriteReady
  <2>2. \A o \in Operator : pc'[o] \in {"decide", "apply", "written"} =>
          read'[o] = read[o] /\ pc[o] = pc'[o]
    BY <1>20, <1>a, <1>b, <1>c DEF WriteReady, Leave
  <2>. QED
    BY <1>20, <2>1, <2>2, ChosenStays DEF WriteReady, history, counters
<1>21. ASSUME NEW a \in Actor, Die(a) PROVE Chosen'
  <2>1. record'.status = "approved" => record' = record
    BY <1>21, Records DEF Die
  <2>2. \A o \in Operator : pc'[o] \in {"decide", "apply", "written"} =>
          read'[o] = read[o] /\ pc[o] = pc'[o]
    BY <1>21, <1>a, <1>b, <1>c DEF Die, Leave
  <2>. QED
    BY <1>21, <2>1, <2>2, ChosenStays DEF Die, history, counters
<1>22. CASE UNCHANGED vars
  BY <1>22, ChosenStays DEF vars, history
<1>. QED
  BY <1>1, <1>2, <1>3, <1>4, <1>5, <1>6, <1>7, <1>8, <1>9, <1>10, <1>11, <1>12, <1>13, <1>14,
     <1>15, <1>16, <1>17, <1>18, <1>19, <1>20, <1>21, <1>22
     DEF Next, Invoke, Operate

LEMMA AppliedNext ==
  ASSUME TypeOK, Chosen, OnlyApprovedIsApplied, [Next]_vars
  PROVE  OnlyApprovedIsApplied'
<1>a. ASSUME \A p \in 1..MaxProposals, k \in 1..ActionCount :
               <<p, k>> \in edits' => <<p, k>> \in edits \/ p \in approved',
             executed' \subseteq executed \cup approved', approved \subseteq approved'
      PROVE  OnlyApprovedIsApplied'
  BY <1>a DEF OnlyApprovedIsApplied
<1>1. ASSUME NEW i \in Invoker, Prepare(i) PROVE OnlyApprovedIsApplied'
  BY <1>1, <1>a DEF Prepare, tree, history
<1>2. ASSUME NEW i \in Invoker, AddWorktree(i) PROVE OnlyApprovedIsApplied'
  BY <1>2, <1>a DEF AddWorktree, tree, history
<1>3. ASSUME NEW i \in Invoker, WriteRecord(i) PROVE OnlyApprovedIsApplied'
  BY <1>3, <1>a DEF WriteRecord, tree, history
<1>4. ASSUME NEW i \in Invoker, BeforeInvocation(i) PROVE OnlyApprovedIsApplied'
  BY <1>4, <1>a DEF BeforeInvocation, tree, history
<1>5. ASSUME NEW i \in Invoker, Mutate(i) PROVE OnlyApprovedIsApplied'
  <2>1. \A p \in 1..MaxProposals, k \in 1..ActionCount : <<p, k>> # Adapters(i)
    BY WorkspaceAssumption DEF Adapters
  <2>. QED
    BY <1>5, <1>a, <2>1 DEF Mutate, history
<1>6. ASSUME NEW i \in Invoker, AfterInvocation(i) PROVE OnlyApprovedIsApplied'
  BY <1>6, <1>a DEF AfterInvocation, tree, history
<1>7. ASSUME NEW i \in Invoker, ProposeActions(i) PROVE OnlyApprovedIsApplied'
  BY <1>7, <1>a DEF ProposeActions, tree, history
<1>8. ASSUME NEW i \in Invoker, WriteProposal(i) PROVE OnlyApprovedIsApplied'
  BY <1>8, <1>a DEF WriteProposal, tree, history
<1>9. ASSUME NEW o \in Operator, Decide(o) PROVE OnlyApprovedIsApplied'
  BY <1>9, <1>a DEF Decide, Call, tree
<1>10. ASSUME NEW o \in Operator, WriteDecision(o) PROVE OnlyApprovedIsApplied'
  BY <1>10, <1>a DEF WriteDecision, tree, history
<1>11. ASSUME NEW o \in Operator, ExecuteApproved(o) PROVE OnlyApprovedIsApplied'
  BY <1>11, <1>a DEF ExecuteApproved, Call, tree
<1>12. ASSUME NEW o \in Operator, ApplyAction(o) PROVE OnlyApprovedIsApplied'
  <2>1. read[o] \in approved
    BY <1>12 DEF Chosen, ApplyAction
  <2>. QED
    BY <1>12, <1>a, <2>1 DEF ApplyAction, history
<1>13. ASSUME NEW o \in Operator, WriteReceipt(o) PROVE OnlyApprovedIsApplied'
  <2>1. read[o] \in approved
    BY <1>13 DEF Chosen, WriteReceipt
  <2>. QED
    BY <1>13, <1>a, <2>1 DEF WriteReceipt, tree
<1>14. ASSUME NEW o \in Operator, WriteExecuted(o) PROVE OnlyApprovedIsApplied'
  BY <1>14, <1>a DEF WriteExecuted, tree, history
<1>15. ASSUME NEW o \in Operator, Rollback(o) PROVE OnlyApprovedIsApplied'
  BY <1>15, <1>a DEF Rollback, Call, tree
<1>16. ASSUME NEW o \in Operator, Close(o) PROVE OnlyApprovedIsApplied'
  BY <1>16, <1>a DEF Close, Call, tree
<1>17. ASSUME NEW o \in Operator, RemoveWorktree(o) PROVE OnlyApprovedIsApplied'
  BY <1>17, <1>a DEF RemoveWorktree, tree, history
<1>18. ASSUME NEW o \in Operator, WriteClosed(o) PROVE OnlyApprovedIsApplied'
  BY <1>18, <1>a DEF WriteClosed, tree, history
<1>19. ASSUME NEW a \in Actor, Reset(a) PROVE OnlyApprovedIsApplied'
  BY <1>19, <1>a DEF Reset, tree, history
<1>20. ASSUME NEW a \in Actor, WriteReady(a) PROVE OnlyApprovedIsApplied'
  BY <1>20, <1>a DEF WriteReady, tree, history
<1>21. ASSUME NEW a \in Actor, Die(a) PROVE OnlyApprovedIsApplied'
  BY <1>21, <1>a DEF Die, tree, history
<1>22. CASE UNCHANGED vars
  BY <1>22, <1>a DEF vars, tree, history
<1>. QED
  BY <1>1, <1>2, <1>3, <1>4, <1>5, <1>6, <1>7, <1>8, <1>9, <1>10, <1>11, <1>12, <1>13, <1>14,
     <1>15, <1>16, <1>17, <1>18, <1>19, <1>20, <1>21, <1>22
     DEF Next, Invoke, Operate

-----------------------------------------------------------------------------
(* What adapters leave *)

LEMMA FoundNext ==
  ASSUME TypeOK, Chosen, Found, AdaptersLeaveNothing, [Next]_vars
  PROVE  Found' /\ AdaptersLeaveNothing'
<1>a. /\ \A i \in Invoker : i \in Actor /\ i \notin Operator
      /\ \A o \in Operator : o \in Actor /\ o \notin Invoker
  BY Actors
\* A step that makes no edit, and takes from an invoker that has made one only
\* by leaving it abandoned.
<1>b. ASSUME ~present' => edits' = {},
             edits' = {} \/ (edits' = edits /\ abandoned \subseteq abandoned'),
             \A i \in Invoker : seen'[i] = seen[i] \/ seen'[i] = {},
             \A i \in Invoker : pc[i] \in {"work", "rollback"} =>
               \/ pc'[i] \in {"work", "rollback"} \/ Adapters(i) \notin edits' \/ i \in abandoned'
      PROVE  Found' /\ AdaptersLeaveNothing'
  BY <1>b DEF Found, AdaptersLeaveNothing
\* An invoker goes to another step.
<1>c. ASSUME NEW i \in Invoker, NEW step, Goto(i, step),
             pc[i] \notin {"work", "rollback"} \/ step \in {"work", "rollback"}
      PROVE  \A j \in Invoker : pc[j] \in {"work", "rollback"} => pc'[j] \in {"work", "rollback"}
  BY <1>a, <1>c, Gone
<1>d. ASSUME NEW o \in Operator, NEW step, Goto(o, step)
      PROVE  \A j \in Invoker : pc'[j] = pc[j]
  BY <1>a, <1>d, Gone
<1>e. ASSUME NEW a \in Actor, Forget(a) PROVE \A i \in Invoker : seen'[i] = seen[i] \/ seen'[i] = {}
  BY <1>e, Forgot
<1>f. ~present => edits = {}
  BY DEF Found
<1>1. ASSUME NEW i \in Invoker, Prepare(i) PROVE Found' /\ AdaptersLeaveNothing'
  <2>1. \A j \in Invoker : pc[j] \in {"work", "rollback"} => pc'[j] \in {"work", "rollback"}
    BY <1>1, <1>c DEF Prepare
  <2>. QED
    BY <1>1, <1>b, <1>f, <2>1 DEF Prepare, tree, history
<1>2. ASSUME NEW i \in Invoker, AddWorktree(i) PROVE Found' /\ AdaptersLeaveNothing'
  <2>1. \A j \in Invoker : pc[j] \in {"work", "rollback"} => pc'[j] \in {"work", "rollback"}
    BY <1>2, <1>c DEF AddWorktree
  <2>. QED
    BY <1>2, <1>b, <1>f, <2>1 DEF AddWorktree, tree, history
<1>3. ASSUME NEW i \in Invoker, WriteRecord(i) PROVE Found' /\ AdaptersLeaveNothing'
  <2>1. \A j \in Invoker : pc[j] \in {"work", "rollback"} => pc'[j] \in {"work", "rollback"}
    BY <1>3, <1>c DEF WriteRecord
  <2>. QED
    BY <1>3, <1>b, <1>f, <2>1 DEF WriteRecord, tree, history
<1>4. ASSUME NEW i \in Invoker, BeforeInvocation(i) PROVE Found' /\ AdaptersLeaveNothing'
  <2>1. pc'[i] = "work" /\ \A j \in Invoker \ {i} : pc'[j] = pc[j]
    BY <1>4, <1>a, Gone DEF BeforeInvocation
  <2>2. Adapters(i) \in edits => i \in abandoned
    BY <1>4 DEF BeforeInvocation, AdaptersLeaveNothing
  <2>3. seen'[i] = edits /\ \A j \in Invoker \ {i} : seen'[j] = seen[j]
    BY <1>4 DEF BeforeInvocation, TypeOK
  <2>. QED
    BY <1>4, <2>1, <2>2, <2>3 DEF BeforeInvocation, tree, history, Found, AdaptersLeaveNothing
<1>5. ASSUME NEW i \in Invoker, Mutate(i) PROVE Found' /\ AdaptersLeaveNothing'
  <2>1. \A j \in Invoker \ {i} : Adapters(j) # Adapters(i)
    BY DEF Adapters
  <2>. QED
    BY <1>5, <2>1 DEF Mutate, history, Found, AdaptersLeaveNothing
<1>6. ASSUME NEW i \in Invoker, AfterInvocation(i) PROVE Found' /\ AdaptersLeaveNothing'
  <2>1. \A j \in Invoker \ {i} : pc'[j] = pc[j]
    BY <1>6, <1>a, Gone DEF AfterInvocation
  <2>2. pc[i] = "work" /\ (pc'[i] = "rollback" \/ Adapters(i) \notin edits \/ i \in abandoned)
    <3>1. CASE ~present
      BY <1>6, <1>f, <3>1 DEF AfterInvocation
    <3>2. CASE present /\ Unchanged(i)
      BY <1>6, <3>2 DEF AfterInvocation, Unchanged, Found
    <3>3. CASE present /\ ~Unchanged(i)
      BY <1>6, <1>a, <3>3, Gone DEF AfterInvocation
    <3>. QED
      BY <1>6, <3>1, <3>2, <3>3 DEF AfterInvocation
  <2>3. \A j \in Invoker : seen'[j] = seen[j] \/ seen'[j] = {}
    BY <1>6, <1>a, <1>e DEF AfterInvocation
  <2>. QED
    BY <1>6, <1>b, <1>f, <2>1, <2>2, <2>3 DEF AfterInvocation, tree, history
<1>7. ASSUME NEW i \in Invoker, ProposeActions(i) PROVE Found' /\ AdaptersLeaveNothing'
  <2>1. \A j \in Invoker : pc[j] \in {"work", "rollback"} => pc'[j] \in {"work", "rollback"}
    BY <1>7, <1>c DEF ProposeActions
  <2>. QED
    BY <1>7, <1>b, <1>f, <2>1 DEF ProposeActions, tree, history
<1>8. ASSUME NEW i \in Invoker, WriteProposal(i) PROVE Found' /\ AdaptersLeaveNothing'
  <2>1. \A j \in Invoker : pc[j] \in {"work", "rollback"} => pc'[j] \in {"work", "rollback"}
    BY <1>8, <1>c DEF WriteProposal
  <2>. QED
    BY <1>8, <1>b, <1>f, <2>1 DEF WriteProposal, tree, history
<1>9. ASSUME NEW o \in Operator, Decide(o) PROVE Found' /\ AdaptersLeaveNothing'
  <2>1. \A j \in Invoker : pc'[j] = pc[j]
    BY <1>9, <1>d DEF Decide, Call
  <2>. QED
    BY <1>9, <1>b, <1>f, <2>1 DEF Decide, Call, tree
<1>10. ASSUME NEW o \in Operator, WriteDecision(o) PROVE Found' /\ AdaptersLeaveNothing'
  <2>1. /\ \A j \in Invoker : pc'[j] = pc[j]
        /\ \A j \in Invoker : seen'[j] = seen[j] \/ seen'[j] = {}
    BY <1>10, <1>a, <1>d, <1>e DEF WriteDecision, Leave
  <2>. QED
    BY <1>10, <1>b, <1>f, <2>1 DEF WriteDecision, tree, history
<1>11. ASSUME NEW o \in Operator, ExecuteApproved(o) PROVE Found' /\ AdaptersLeaveNothing'
  <2>1. \A j \in Invoker : pc'[j] = pc[j]
    BY <1>11, <1>d DEF ExecuteApproved, Call
  <2>. QED
    BY <1>11, <1>b, <1>f, <2>1 DEF ExecuteApproved, Call, tree
<1>12. ASSUME NEW o \in Operator, ApplyAction(o) PROVE Found' /\ AdaptersLeaveNothing'
  <2>1. \A j \in Invoker : pc'[j] = pc[j]
    BY <1>12, <1>d DEF ApplyAction
  <2>2. ASSUME NEW j \in Invoker, Adapters(j) \in edits' PROVE Adapters(j) \in edits
    <3>1. read[o] # 0
      BY <1>12, WorkspaceAssumption DEF Chosen, ApplyAction, TypeOK
    <3>2. <<read[o], applied[o] + 1>> # Adapters(j)
      BY <3>1 DEF Adapters
    <3>. QED
      BY <1>12, <2>2, <3>2 DEF ApplyAction
  <2>. QED
    BY <1>12, <1>f, <2>1, <2>2 DEF ApplyAction, history, Found, AdaptersLeaveNothing
<1>13. ASSUME NEW o \in Operator, WriteReceipt(o) PROVE Found' /\ AdaptersLeaveNothing'
  <2>1. /\ \A j \in Invoker : pc'[j] = pc[j]
        /\ \A j \in Invoker : seen'[j] = seen[j] \/ seen'[j] = {}
    BY <1>13, <1>a, <1>d, <1>e DEF WriteReceipt, Leave
  <2>. QED
    BY <1>13, <1>b, <1>f, <2>1 DEF WriteReceipt, tree
<1>14. ASSUME NEW o \in Operator, WriteExecuted(o) PROVE Found' /\ AdaptersLeaveNothing'
  <2>1. /\ \A j \in Invoker : pc'[j] = pc[j]
        /\ \A j \in Invoker : seen'[j] = seen[j] \/ seen'[j] = {}
    BY <1>14, <1>a, <1>d, <1>e DEF WriteExecuted, Leave
  <2>. QED
    BY <1>14, <1>b, <1>f, <2>1 DEF WriteExecuted, tree, history
<1>15. ASSUME NEW o \in Operator, Rollback(o) PROVE Found' /\ AdaptersLeaveNothing'
  <2>1. \A j \in Invoker : pc'[j] = pc[j]
    BY <1>15, <1>d DEF Rollback, Call
  <2>. QED
    BY <1>15, <1>b, <1>f, <2>1 DEF Rollback, Call, tree
<1>16. ASSUME NEW o \in Operator, Close(o) PROVE Found' /\ AdaptersLeaveNothing'
  <2>1. \A j \in Invoker : pc'[j] = pc[j]
    BY <1>16, <1>d DEF Close, Call
  <2>. QED
    BY <1>16, <1>b, <1>f, <2>1 DEF Close, Call, tree
<1>17. ASSUME NEW o \in Operator, RemoveWorktree(o) PROVE Found' /\ AdaptersLeaveNothing'
  <2>1. /\ \A j \in Invoker : pc'[j] = pc[j]
        /\ \A j \in Invoker : seen'[j] = seen[j] \/ seen'[j] = {}
    BY <1>17, <1>a, <1>d, <1>e DEF RemoveWorktree, Leave
  <2>. QED
    BY <1>17, <1>b, <1>f, <2>1 DEF RemoveWorktree, tree
<1>18. ASSUME NEW o \in Operator, WriteClosed(o) PROVE Found' /\ AdaptersLeaveNothing'
  <2>1. /\ \A j \in Invoker : pc'[j] = pc[j]
        /\ \A j \in Invoker : seen'[j] = seen[j] \/ seen'[j] = {}
    BY <1>18, <1>a, <1>d, <1>e DEF WriteClosed, Leave
  <2>. QED
    BY <1>18, <1>b, <1>f, <2>1 DEF WriteClosed, tree, history
<1>19. ASSUME NEW a \in Actor, Reset(a) PROVE Found' /\ AdaptersLeaveNothing'
  <2>1. \A j \in Invoker : seen'[j] = seen[j] \/ seen'[j] = {}
    BY <1>19, <1>e DEF Reset
  <2>2. edits' = {} /\ (~present' => edits' = {})
    BY <1>19, <1>f DEF Reset
  <2>. QED
    BY <1>19, <1>b, <2>1, <2>2 DEF Reset
<1>20. ASSUME NEW a \in Actor, WriteReady(a) PROVE Found' /\ AdaptersLeaveNothing'
  <2>1. \A j \in Invoker : seen'[j] = seen[j] \/ seen'[j] = {}
    BY <1>20, <1>e DEF WriteReady, Leave
  <2>2. \A j \in Invoker : pc[j] \in {"work", "rollback"} => pc'[j] = pc[j]
    BY <1>20, <1>a, Gone DEF WriteReady, Leave
  <2>. QED
    BY <1>20, <1>b, <1>f, <2>1, <2>2 DEF WriteReady, tree, history
<1>21. ASSUME NEW a \in Actor, Die(a) PROVE Found' /\ AdaptersLeaveNothing'
  <2>1. \A j \in Invoker : seen'[j] = seen[j] \/ seen'[j] = {}
    BY <1>21, <1>e DEF Die, Leave
  <2>2. \A j \in Invoker : j = a \/ pc'[j] = pc[j]
    BY <1>21, <1>a, Gone DEF Die, Leave
  <2>3. abandoned \subseteq abandoned' /\ (a \in Invoker /\ Adapters(a) \in edits => a \in abandoned')
    BY <1>21 DEF Die
  <2>. QED
    BY <1>21, <1>b, <1>f, <2>1, <2>2, <2>3 DEF Die, tree
<1>22. CASE UNCHANGED vars
  BY <1>22, <1>b, <1>f DEF vars, tree, history
<1>. QED
  BY <1>1, <1>2, <1>3, <1>4, <1>5, <1>6, <1>7, <1>8, <1>9, <1>10, <1>11, <1>12, <1>13, <1>14,
     <1>15, <1>16, <1>17, <1>18, <1>19, <1>20, <1>21, <1>22
     DEF Next, Invoke, Operate

-----------------------------------------------------------------------------
(* One approval, one execution *)

LEMMA MadeNext ==
  ASSUME TypeOK, Made, [Next]_vars
  PROVE  Made'
<1>a. /\ \A i \in Invoker : i \in Actor
      /\ \A o \in Operator : o \in Actor
  BY Actors
<1>b. proposals \in Nat /\ \A o \in Operator : read[o] \in Nat
  BY WorkspaceAssumption DEF TypeOK
<1>c. ASSUME \/ record' = record \/ record'.pending = 0
             \/ \E o \in Operator : record'.pending = read[o],
             \A o \in Operator : read'[o] = read[o] \/ read'[o] = 0 \/ read'[o] = record.pending,
             \A p \in executed' : p \in executed \/ \E o \in Operator : p = read[o],
             UNCHANGED proposals
      PROVE  Made'
  <2>1. 0 <= proposals
    BY <1>b
  <2>. QED
    BY <1>c, <2>1 DEF Made
<1>d. ASSUME NEW a \in Actor, Forget(a)
      PROVE  \A o \in Operator : read'[o] = read[o] \/ read'[o] = 0
  BY <1>d, Forgot
<1>1. ASSUME NEW i \in Invoker, Prepare(i) PROVE Made'
  BY <1>1, <1>a, <1>c, <1>d, Records DEF Prepare, Leave, Settled, tree, history
<1>2. ASSUME NEW i \in Invoker, AddWorktree(i) PROVE Made'
  BY <1>2, <1>a, <1>c, <1>d, Records DEF AddWorktree, Leave, Settled, tree, history
<1>3. ASSUME NEW i \in Invoker, WriteRecord(i) PROVE Made'
  BY <1>3, <1>a, <1>c, <1>d, Records DEF WriteRecord, Leave, Settled, tree, history
<1>4. ASSUME NEW i \in Invoker, BeforeInvocation(i) PROVE Made'
  BY <1>4, <1>a, <1>c, <1>d, Records DEF BeforeInvocation, Leave, Settled, tree, history
<1>5. ASSUME NEW i \in Invoker, Mutate(i) PROVE Made'
  BY <1>5, <1>a, <1>c, <1>d, Records DEF Mutate, Leave, Settled, tree, history
<1>6. ASSUME NEW i \in Invoker, AfterInvocation(i) PROVE Made'
  BY <1>6, <1>a, <1>c, <1>d, Records DEF AfterInvocation, Leave, Settled, tree, history
<1>7. ASSUME NEW i \in Invoker, ProposeActions(i) PROVE Made'
  BY <1>7, <1>a, <1>c, <1>d, Records DEF ProposeActions, Leave, Settled, tree, history
<1>8. ASSUME NEW i \in Invoker, WriteProposal(i) PROVE Made'
  <2>1. /\ record'.pending = proposals + 1 /\ proposals' = proposals + 1
        /\ UNCHANGED <<read, executed>>
    BY <1>8, Records DEF WriteProposal, history
  <2>2. \A p \in executed : p \in Nat
    BY WorkspaceAssumption DEF TypeOK
  <2>. QED
    BY <1>b, <2>1, <2>2 DEF Made
<1>9. ASSUME NEW o \in Operator, Decide(o) PROVE Made'
  <2>1. \A p \in Operator : read'[p] = read[p] \/ read'[p] = record.pending
    BY <1>9 DEF Decide, Call, TypeOK
  <2>. QED
    BY <1>9, <1>c, <2>1 DEF Decide, Call
<1>10. ASSUME NEW o \in Operator, WriteDecision(o) PROVE Made'
  BY <1>10, <1>a, <1>c, <1>d, Records DEF WriteDecision, Leave, Settled, tree, history
<1>11. ASSUME NEW o \in Operator, ExecuteApproved(o) PROVE Made'
  <2>1. \A p \in Operator : read'[p] = read[p] \/ read'[p] = record.pending
    BY <1>11 DEF ExecuteApproved, Call, TypeOK
  <2>. QED
    BY <1>11, <1>c, <2>1 DEF ExecuteApproved, Call
<1>12. ASSUME NEW o \in Operator, ApplyAction(o) PROVE Made'
  BY <1>12, <1>a, <1>c, <1>d, Records DEF ApplyAction, Leave, Settled, tree, history
<1>13. ASSUME NEW o \in Operator, WriteReceipt(o) PROVE Made'
  BY <1>13, <1>a, <1>c, <1>d, Records DEF WriteReceipt, Leave, Settled, tree, history
<1>14. ASSUME NEW o \in Operator, WriteExecuted(o) PROVE Made'
  BY <1>14, <1>a, <1>c, <1>d, Records DEF WriteExecuted, Leave, Settled, tree, history
<1>15. ASSUME NEW o \in Operator, Rollback(o) PROVE Made'
  <2>1. \A p \in Operator : read'[p] = read[p] \/ read'[p] = record.pending
    BY <1>15 DEF Rollback, Call, TypeOK
  <2>. QED
    BY <1>15, <1>c, <2>1 DEF Rollback, Call
<1>16. ASSUME NEW o \in Operator, Close(o) PROVE Made'
  <2>1. \A p \in Operator : read'[p] = read[p] \/ read'[p] = record.pending
    BY <1>16 DEF Close, Call, TypeOK
  <2>. QED
    BY <1>16, <1>c, <2>1 DEF Close, Call
<1>17. ASSUME NEW o \in Operator, RemoveWorktree(o) PROVE Made'
  BY <1>17, <1>a, <1>c, <1>d, Records DEF RemoveWorktree, Leave, Settled, tree, history
<1>18. ASSUME NEW o \in Operator, WriteClosed(o) PROVE Made'
  BY <1>18, <1>a, <1>c, <1>d, Records DEF WriteClosed, Leave, Settled, tree, history
<1>19. ASSUME NEW a \in Actor, Reset(a) PROVE Made'
  BY <1>19, <1>a, <1>c, <1>d, Records DEF Reset, Leave, Settled, tree, history
<1>20. ASSUME NEW a \in Actor, WriteReady(a) PROVE Made'
  BY <1>20, <1>a, <1>c, <1>d, Records DEF WriteReady, Leave, Settled, tree, history
<1>21. ASSUME NEW a \in Actor, Die(a) PROVE Made'
  BY <1>21, <1>a, <1>c, <1>d, Records DEF Die, Leave, Settled, tree, history
<1>22. CASE UNCHANGED vars
  BY <1>22, <1>c DEF vars, history
<1>. QED
  BY <1>1, <1>2, <1>3, <1>4, <1>5, <1>6, <1>7, <1>8, <1>9, <1>10, <1>11, <1>12, <1>13, <1>14,
     <1>15, <1>16, <1>17, <1>18, <1>19, <1>20, <1>21, <1>22
     DEF Next, Invoke, Operate

\* The steps of an invoker, and its rollback, leave what operators do alone.
LEMMA Apart ==
  ASSUME TypeOK, Made, Alone,
         \A o \in Operator : pc'[o] = pc[o] /\ read'[o] = read[o],
         UNCHANGED <<executed, repeated>>,
         record' = record \/ record'.pending = 0 \/ record'.pending = proposals + 1
  PROVE  Alone'
<1>1. \A p \in executed : p \in Nat /\ p # 0 /\ p <= proposals
  BY WorkspaceAssumption DEF TypeOK, Made
<1>2. proposals \in Nat /\ proposals + 1 \notin executed /\ 0 \notin executed
  BY <1>1, WorkspaceAssumption DEF TypeOK
<1>. QED
  BY <1>2 DEF Alone

LEMMA AloneNext ==
  ASSUME TypeOK, Made, Alone, [Next]_vars, ~excused'
  PROVE  Alone'
<1>a. /\ \A i \in Invoker : i \in Actor /\ i \notin Operator
      /\ \A o \in Operator : o \in Actor /\ o \notin Invoker
  BY Actors
<1>b. 0 \notin executed
  BY WorkspaceAssumption DEF TypeOK
<1>c. ASSUME NEW i \in Invoker, NEW step, Goto(i, step)
      PROVE  \A o \in Operator : pc'[o] = pc[o]
  BY <1>a, <1>c, Gone
<1>d. ASSUME NEW i \in Invoker, Forget(i)
      PROVE  \A o \in Operator : read'[o] = read[o]
  BY <1>a, <1>d, Forgot
\* The operator that works goes to another step, and the others are idle.
<1>e. ASSUME NEW o \in Operator, pc[o] # "idle", NEW step, Goto(o, step)
      PROVE  pc'[o] = step /\ \A p \in Operator \ {o} : pc[p] = "idle" /\ pc'[p] = "idle"
  BY <1>a, <1>e, Gone DEF Alone
\* It has nothing in hand any more, and the record has nothing that was executed.
<1>f. ASSUME NEW o \in Operator, pc[o] # "idle",
             \E step \in {"idle", "ready", "rollback"} : Goto(o, step),
             record'.pending \notin executed, UNCHANGED <<executed, repeated>>
      PROVE  Alone'
  <2>1. /\ pc'[o] \in {"idle", "ready", "rollback"}
        /\ \A p \in Operator \ {o} : pc'[p] = "idle"
    BY <1>e, <1>f
  <2>. QED
    BY <1>f, <2>1 DEF Alone
\* Who is not at "written" has nothing in the record that was executed.
<1>g. ASSUME NEW o \in Operator, pc[o] \notin {"idle", "written"}
      PROVE  record.pending \notin executed
  BY <1>g DEF Alone
\* A call finds everybody idle.
<1>h. ASSUME NEW o \in Operator, NEW step \in {"decide", "apply", "rollback", "remove"},
             Call(o, step)
      PROVE  Alone'
  <2>1. \A p \in Operator : pc[p] = "idle"
    BY <1>h DEF Call
  <2>2. /\ pc'[o] = step /\ \A p \in Operator \ {o} : pc'[p] = "idle"
        /\ read'[o] = record.pending
    BY <1>a, <1>h, <2>1, Gone DEF Call, TypeOK
  <2>3. record.pending \notin executed
    BY <2>1 DEF Alone
  <2>. QED
    BY <1>h, <2>2, <2>3 DEF Alone, Call
<1>1. ASSUME NEW i \in Invoker, Prepare(i) PROVE Alone'
  <2>1. \A o \in Operator : pc'[o] = pc[o] /\ read'[o] = read[o]
    BY <1>1, <1>c, <1>d DEF Prepare
  <2>. QED
    BY <1>1, <2>1, Apart, Records DEF Prepare, history
<1>2. ASSUME NEW i \in Invoker, AddWorktree(i) PROVE Alone'
  <2>1. \A o \in Operator : pc'[o] = pc[o] /\ read'[o] = read[o]
    BY <1>2, <1>c, <1>d DEF AddWorktree
  <2>. QED
    BY <1>2, <2>1, Apart, Records DEF AddWorktree, history
<1>3. ASSUME NEW i \in Invoker, WriteRecord(i) PROVE Alone'
  <2>1. \A o \in Operator : pc'[o] = pc[o] /\ read'[o] = read[o]
    BY <1>3, <1>c, <1>d DEF WriteRecord
  <2>. QED
    BY <1>3, <2>1, Apart, Records DEF WriteRecord, history
<1>4. ASSUME NEW i \in Invoker, BeforeInvocation(i) PROVE Alone'
  <2>1. \A o \in Operator : pc'[o] = pc[o] /\ read'[o] = read[o]
    BY <1>4, <1>c, <1>d DEF BeforeInvocation
  <2>. QED
    BY <1>4, <2>1, Apart, Records DEF BeforeInvocation, history
<1>5. ASSUME NEW i \in Invoker, Mutate(i) PROVE Alone'
  BY <1>5, Apart DEF Mutate, history
<1>6. ASSUME NEW i \in Invoker, AfterInvocation(i) PROVE Alone'
  <2>1. \A o \in Operator : pc'[o] = pc[o] /\ read'[o] = read[o]
    BY <1>6, <1>c, <1>d DEF AfterInvocation
  <2>. QED
    BY <1>6, <2>1, Apart, Records DEF AfterInvocation, history
<1>7. ASSUME NEW i \in Invoker, ProposeActions(i) PROVE Alone'
  <2>1. \A o \in Operator : pc'[o] = pc[o] /\ read'[o] = read[o]
    BY <1>7, <1>c, <1>d DEF ProposeActions
  <2>. QED
    BY <1>7, <2>1, Apart, Records DEF ProposeActions, history
<1>8. ASSUME NEW i \in Invoker, WriteProposal(i) PROVE Alone'
  <2>1. \A o \in Operator : pc'[o] = pc[o] /\ read'[o] = read[o]
    BY <1>8, <1>c DEF WriteProposal
  <2>2. record'.pending = proposals + 1
    BY <1>8, Records DEF WriteProposal
  <2>. QED
    BY <1>8, <2>1, <2>2, Apart DEF WriteProposal, history
<1>9. ASSUME NEW o \in Operator, Decide(o) PROVE Alone'
  <2>1. Call(o, "decide")
    BY <1>9 DEF Decide
  <2>. QED
    BY <1>h, <2>1
<1>10. ASSUME NEW o \in Operator, WriteDecision(o) PROVE Alone'
  <2>1. record'.pending \notin executed
    BY <1>10, <1>b, Records DEF WriteDecision, Alone
  <2>. QED
    BY <1>10, <1>f, <2>1 DEF WriteDecision, Leave
<1>11. ASSUME NEW o \in Operator, ExecuteApproved(o) PROVE Alone'
  <2>1. Call(o, "apply")
    BY <1>11 DEF ExecuteApproved
  <2>. QED
    BY <1>h, <2>1
<1>12. ASSUME NEW o \in Operator, ApplyAction(o) PROVE Alone'
  <2>1. CASE UNCHANGED <<pc, read>>
    BY <1>12, <2>1, Apart DEF ApplyAction, history
  <2>2. CASE Goto(o, "rollback")
    <3>1. record.pending \notin executed
      BY <1>12, <1>g DEF ApplyAction
    <3>. QED
      BY <1>12, <1>f, <2>2, <3>1 DEF ApplyAction, history
  <2>. QED
    BY <1>12, <2>1, <2>2 DEF ApplyAction
<1>13. ASSUME NEW o \in Operator, WriteReceipt(o) PROVE Alone'
  <2>1. read[o] \notin executed
    BY <1>13 DEF WriteReceipt, Alone
  <2>2. CASE present
    <3>1. /\ pc'[o] = "written" /\ \A p \in Operator \ {o} : pc'[p] = "idle"
          /\ UNCHANGED read /\ ~repeated'
      BY <1>13, <1>e, <2>1, <2>2 DEF WriteReceipt, Alone
    <3>. QED
      BY <3>1 DEF Alone
  <2>3. CASE ~present
    <3>1. record.pending \notin executed
      BY <1>13, <1>g DEF WriteReceipt
    <3>. QED
      BY <1>13, <1>f, <2>3, <3>1 DEF WriteReceipt, Leave
  <2>. QED
    BY <2>2, <2>3
<1>14. ASSUME NEW o \in Operator, WriteExecuted(o) PROVE Alone'
  <2>1. record'.pending \notin executed
    BY <1>14, <1>b, Records DEF WriteExecuted, Settled
  <2>. QED
    BY <1>14, <1>f, <2>1 DEF WriteExecuted, Leave, history
<1>15. ASSUME NEW o \in Operator, Rollback(o) PROVE Alone'
  <2>1. Call(o, "rollback")
    BY <1>15 DEF Rollback
  <2>. QED
    BY <1>h, <2>1
<1>16. ASSUME NEW o \in Operator, Close(o) PROVE Alone'
  <2>1. Call(o, "remove")
    BY <1>16 DEF Close
  <2>. QED
    BY <1>h, <2>1
<1>17. ASSUME NEW o \in Operator, RemoveWorktree(o) PROVE Alone'
  <2>1. record.pending \notin executed
    BY <1>17, <1>g DEF RemoveWorktree
  <2>2. CASE Leave(o)
    BY <1>17, <1>f, <2>1, <2>2 DEF RemoveWorktree, Leave
  <2>3. CASE Goto(o, "closed") /\ UNCHANGED read
    <3>1. pc'[o] = "closed" /\ \A p \in Operator \ {o} : pc'[p] = "idle"
      BY <1>17, <1>e, <2>3 DEF RemoveWorktree
    <3>. QED
      BY <1>17, <2>1, <2>3, <3>1 DEF RemoveWorktree, Alone
  <2>. QED
    BY <1>17, <2>2, <2>3 DEF RemoveWorktree
<1>18. ASSUME NEW o \in Operator, WriteClosed(o) PROVE Alone'
  <2>1. record'.pending \notin executed
    BY <1>18, Records DEF WriteClosed, Alone
  <2>. QED
    BY <1>18, <1>f, <2>1 DEF WriteClosed, Leave, history
<1>19. ASSUME NEW a \in Actor, Reset(a) PROVE Alone'
  <2>1. CASE a \in Invoker
    <3>1. \A o \in Operator : pc'[o] = pc[o] /\ read'[o] = read[o]
      BY <1>19, <1>c, <1>d, <2>1 DEF Reset, Leave
    <3>. QED
      BY <1>19, <3>1, Apart, Records DEF Reset, history
  <2>2. CASE a \in Operator
    <3>1. record'.pending \notin executed
      BY <1>19, <1>b, <1>g, <2>2, Records DEF Reset
    <3>. QED
      BY <1>19, <1>f, <2>2, <3>1 DEF Reset, Leave, history
  <2>. QED
    BY <2>1, <2>2 DEF Actor
<1>20. ASSUME NEW a \in Actor, WriteReady(a) PROVE Alone'
  <2>1. CASE a \in Invoker
    <3>1. \A o \in Operator : pc'[o] = pc[o] /\ read'[o] = read[o]
      BY <1>20, <1>c, <1>d, <2>1 DEF WriteReady, Leave
    <3>. QED
      BY <1>20, <3>1, Apart, Records DEF WriteReady, history
  <2>2. CASE a \in Operator
    <3>1. record'.pending \notin executed
      BY <1>20, <1>b, <1>g, <2>2, Records DEF WriteReady
    <3>. QED
      BY <1>20, <1>f, <2>2, <3>1 DEF WriteReady, Leave, history
  <2>. QED
    BY <2>1, <2>2 DEF Actor
<1>21. ASSUME NEW a \in Actor, Die(a) PROVE Alone'
  <2>1. a \in Invoker
    BY <1>21 DEF Die, Actor
  <2>2. \A o \in Operator : pc'[o] = pc[o] /\ read'[o] = read[o]
    BY <1>21, <1>c, <1>d, <2>1 DEF Die, Leave
  <2>. QED
    BY <1>21, <2>2, Apart DEF Die
<1>22. CASE UNCHANGED vars
  BY <1>22, Apart DEF vars, history
<1>. QED
  BY <1>1, <1>2, <1>3, <1>4, <1>5, <1>6, <1>7, <1>8, <1>9, <1>10, <1>11, <1>12, <1>13, <1>14,
     <1>15, <1>16, <1>17, <1>18, <1>19, <1>20, <1>21, <1>22
     DEF Next, Invoke, Operate

LEMMA ExcusesStay == ASSUME TypeOK, [Next]_vars, excused PROVE excused'
<1>1. \A o \in Operator : \A step : Call(o, step) => excused'
  BY DEF Call
<1>2. ASSUME NEW i \in Invoker, Invoke(i) PROVE excused'
  BY <1>2
     DEF Invoke, Prepare, AddWorktree, WriteRecord, BeforeInvocation, Mutate, AfterInvocation,
         ProposeActions, WriteProposal, history
<1>3. ASSUME NEW o \in Operator, Operate(o) PROVE excused'
  BY <1>1, <1>3
     DEF Operate, Decide, WriteDecision, ExecuteApproved, ApplyAction, WriteReceipt, WriteExecuted,
         Rollback, Close, RemoveWorktree, WriteClosed, history
<1>4. ASSUME NEW a \in Actor, Reset(a) \/ WriteReady(a) \/ Die(a) PROVE excused'
  BY <1>4 DEF Reset, WriteReady, Die, history
<1>. QED
  BY <1>2, <1>3, <1>4 DEF Next, vars, history

-----------------------------------------------------------------------------
(* What holds of every workspace *)

LEMMA InitSound == Init => Sound
<1>. SUFFICES ASSUME Init PROVE Sound
  OBVIOUS
<1>1. TypeOK
  BY InitTyped
<1>2. Chosen
  BY Actors, Records DEF Init, Chosen
<1>3. OnlyApprovedIsApplied /\ Found /\ AdaptersLeaveNothing
  BY DEF Init, OnlyApprovedIsApplied, Found, AdaptersLeaveNothing
<1>4. Made
  BY Records DEF Init, Made
<1>5. Alone
  BY Actors DEF Init, Alone
<1>. QED
  BY <1>1, <1>2, <1>3, <1>4, <1>5 DEF Sound

LEMMA NextSound == Sound /\ [Next]_vars => Sound'
<1>. SUFFICES ASSUME Sound, [Next]_vars PROVE Sound'
  OBVIOUS
<1>1. TypeOK' /\ Chosen' /\ OnlyApprovedIsApplied' /\ Found' /\ AdaptersLeaveNothing' /\ Made'
  BY NextTyped, ChosenNext, AppliedNext, FoundNext, MadeNext DEF Sound
<1>2. ~excused' => Alone'
  BY AloneNext, ExcusesStay DEF Sound
<1>. QED
  BY <1>1, <1>2 DEF Sound

\* A workspace keeps its types and its inductive invariant.
THEOREM Invariance == Spec => []Sound
<1>. QED
  BY InitSound, NextSound, PTL DEF Spec

\* The variables of a workspace have their types.
THEOREM TypeCorrect == Spec => []TypeOK
<1>1. Sound => TypeOK
  BY DEF Sound
<1>. QED
  BY <1>1, Invariance, PTL

\* decide and executeApproved: with any number of operators and invocations that
\* write over each other's records, only actions that were approved are in the
\* worktree or have a receipt.
THEOREM OnlyApproved == Spec => []OnlyApprovedIsApplied
<1>1. Sound => OnlyApprovedIsApplied
  BY DEF Sound
<1>. QED
  BY <1>1, Invariance, PTL

\* executeNode's comparison of the tree before and after an adapter: an edit of
\* an adapter outlives its invocation only if the process of the invocation died.
THEOREM AdaptersLeave == Spec => []AdaptersLeaveNothing
<1>1. Sound => AdaptersLeaveNothing
  BY DEF Sound
<1>. QED
  BY <1>1, Invariance, PTL

\* executeApproved: an approved proposal is executed once, unless two operators
\* work at the same time or one of them dies.
THEOREM OneExecution == Spec => []ExecutedOnce
<1>1. Sound => ExecutedOnce
  BY DEF Sound, Alone, ExecutedOnce
<1>. QED
  BY <1>1, Invariance, PTL

-----------------------------------------------------------------------------
(* Autonomous OS and control plane *)

MissionStatus == {"planned", "active", "waiting_approval"} \cup Ended
Finding == {"nothing", "failures", "critical"}
MissionRecord ==
  [id : Nat \X Nat, status : MissionStatus, paused : BOOLEAN, pending : BOOLEAN,
   found : Finding, asks : Nat]
Approval == Nat \X (Nat \X MissionStatus \X Finding)
RunRecord ==
  [status : {"planned", "active"} \cup SettledRun, risk : {"low", "medium", "high"}, cycle : Nat,
   current : Nat, gate : BOOLEAN, blame : Nat, asked : SUBSET Approval, pending : SUBSET Approval]
AskStep ==
  {"idle", "create", "operate", "completed", "failed", "abort run", "abort mission", "decide",
   "approved", "denied"}
AskRecord ==
  [step : AskStep, order : Orders \cup {"none"}, command : Command \cup {"none"}, mission : Nat]

TypeInv ==
  /\ os \in RunRecord /\ os.current <= Len(missions) /\ os.pending \subseteq os.asked
  /\ missions \in Seq(MissionRecord)
  /\ at \in [Driver -> Step] /\ DOMAIN my = Driver
  /\ runners \subseteq DOMAIN missions
  /\ commands \in [Command -> {"unknown", "running", "completed", "failed"}]
  /\ ask \in [Request -> AskRecord]
  /\ runs \in [Command -> Nat]
  /\ deaths \in Nat

\* What a driver knows, at each of its steps.
DriverInv(d) ==
  /\ at[d] = "create" => my[d] \in Nat \X Nat /\ my[d][1] <= os.cycle + 1
  /\ at[d] \in {"adopt", "start", "run", "wait", "report"} =>
       \E n \in DOMAIN missions : my[d] = <<n>>
  /\ at[d] \in {"complete", "review"} =>
       my[d] \in Nat \X MissionStatus \X Finding

RequestInv(r) ==
  /\ ask[r].step # "idle" => ask[r].command \in Command
  /\ ask[r].mission <= Len(missions)
  /\ ask[r].step \in {"abort mission", "decide"} => ask[r].mission # 0

\* The missions of the cycles so far have been adopted, and one whose cycle has
\* not begun waits for its creator, unless somebody has died.
MissionInv(n) ==
  /\ missions[n].id[1] <= os.cycle + 1
  /\ missions[n].id[1] <= os.cycle \/ deaths > 0 \/ \E d \in Driver : at[d] = "adopt" /\ my[d] = <<n>>

CommandInv(c) == runs[c] <= 1 /\ (commands[c] = "unknown" => runs[c] = 0)

\* Those who have found a cycle left and have not counted theirs yet
Counting == {d \in Driver : at[d] \in {"create", "adopt"}}
CyclesInv == os.cycle + Cardinality(Counting) < MaxCycles + Cardinality(Driver)

IInv ==
  /\ TypeInv /\ CyclesInv
  /\ \A d \in Driver : DriverInv(d)
  /\ \A r \in Request : RequestInv(r)
  /\ \A n \in DOMAIN missions : MissionInv(n)
  /\ \A c \in Command : CommandInv(c)

-----------------------------------------------------------------------------
(* Cardinalities *)

LEMMA Counted ==
  ASSUME IsFiniteSet(Driver), at \in [Driver -> Step]
  PROVE  IsFiniteSet(Counting) /\ Cardinality(Counting) \in Nat /\ Cardinality(Driver) \in Nat
         /\ Cardinality(Counting) <= Cardinality(Driver)
<1>1. Counting \subseteq Driver
  BY DEF Counting
<1>2. IsFiniteSet(Counting) /\ Cardinality(Counting) <= Cardinality(Driver)
  BY <1>1, FS_Subset
<1>. QED
  BY <1>2, FS_CardinalityType

\* A step of one driver that counts no cycle
LEMMA CountOne ==
  ASSUME IsFiniteSet(Driver), at \in [Driver -> Step], NEW d \in Driver,
         at' \in [Driver -> Step], \A e \in Driver \ {d} : at'[e] = at[e],
         os.cycle \in Nat, MaxCycles \in Nat, CyclesInv,
         \/ os'.cycle = os.cycle /\ (d \in Counting \/ at'[d] \notin {"create", "adopt"} \/ os.cycle < MaxCycles)
         \/ os'.cycle = os.cycle + 1 /\ d \in Counting /\ at'[d] \notin {"create", "adopt"}
  PROVE  CyclesInv'
<1>1. IsFiniteSet(Counting) /\ Cardinality(Counting) \in Nat /\ Cardinality(Driver) \in Nat
      /\ Cardinality(Counting) <= Cardinality(Driver)
  BY Counted
<1>2. IsFiniteSet(Counting') /\ Cardinality(Counting') \in Nat /\ Cardinality(Counting') <= Cardinality(Driver)
  <2>1. Counting' \subseteq Driver
    BY DEF Counting
  <2>2. IsFiniteSet(Counting') /\ Cardinality(Counting') <= Cardinality(Driver)
    BY <2>1, FS_Subset
  <2>. QED
    BY <2>2, FS_CardinalityType
<1>3. CASE os'.cycle = os.cycle /\ at'[d] \in {"create", "adopt"} /\ d \notin Counting
  BY <1>1, <1>2, <1>3 DEF CyclesInv
<1>4. CASE os'.cycle = os.cycle /\ at'[d] \in {"create", "adopt"} /\ d \in Counting
  <2>1. Counting' = Counting
    BY <1>4 DEF Counting
  <2>. QED
    BY <1>4, <2>1 DEF CyclesInv
<1>5. CASE os'.cycle = os.cycle /\ at'[d] \notin {"create", "adopt"}
  <2>1. Counting' \subseteq Counting
    BY <1>5 DEF Counting
  <2>2. Cardinality(Counting') <= Cardinality(Counting)
    BY <1>1, <2>1, FS_Subset
  <2>. QED
    BY <1>1, <1>2, <1>5, <2>2 DEF CyclesInv
<1>6. CASE os'.cycle = os.cycle + 1 /\ d \in Counting /\ at'[d] \notin {"create", "adopt"}
  <2>1. Counting' = Counting \ {d}
    BY <1>6 DEF Counting
  <2>2. Cardinality(Counting') = Cardinality(Counting) - 1
    BY <1>1, <1>6, <2>1, FS_RemoveElement
  <2>. QED
    BY <1>1, <1>2, <1>6, <2>2 DEF CyclesInv
<1>. QED
  BY <1>3, <1>4, <1>5, <1>6

-----------------------------------------------------------------------------
(* Missions *)

\* A mission that is changed keeps its id, and so does every other.
LEMMA OneMission ==
  ASSUME missions \in Seq(MissionRecord), NEW n \in DOMAIN missions, NEW m \in MissionRecord,
         m.id = missions[n].id, missions' = [missions EXCEPT ![n] = m]
  PROVE  /\ missions' \in Seq(MissionRecord) /\ Len(missions') = Len(missions)
         /\ DOMAIN missions' = DOMAIN missions
         /\ \A k \in DOMAIN missions : missions'[k].id = missions[k].id
  OBVIOUS

LEMMA MissionAdded ==
  ASSUME missions \in Seq(MissionRecord), NEW m \in MissionRecord, missions' = Append(missions, m)
  PROVE  /\ missions' \in Seq(MissionRecord) /\ Len(missions') = Len(missions) + 1
         /\ DOMAIN missions' = DOMAIN missions \cup {Len(missions) + 1}
         /\ Len(missions) + 1 \notin DOMAIN missions
         /\ \A k \in DOMAIN missions : missions'[k] = missions[k]
         /\ missions'[Len(missions) + 1] = m
  OBVIOUS

-----------------------------------------------------------------------------
(* Drivers *)

\* A step of one driver: the cycle is only counted by who has adopted a mission.
LEMMA OneDriver ==
  ASSUME IInv, NEW d \in Driver, TypeInv', CyclesInv', DriverInv(d)',
         \A e \in Driver \ {d} : at'[e] = at[e] /\ my'[e] = my[e],
         DOMAIN missions \subseteq DOMAIN missions',
         Len(missions) <= Len(missions'),
         \A n \in DOMAIN missions : missions'[n].id = missions[n].id,
         \A n \in DOMAIN missions' \ DOMAIN missions : MissionInv(n)',
         os'.cycle >= os.cycle, deaths' >= deaths,
         at[d] = "adopt" => os'.cycle > os.cycle \/ deaths' > 0,
         UNCHANGED <<commands, ask, runs>>
  PROVE  IInv'
<1>0. TypeInv
  BY DEF IInv
<1>1. ASSUME NEW e \in Driver PROVE DriverInv(e)'
  <2>1. CASE e # d
    <3>1. DriverInv(e) /\ at'[e] = at[e] /\ my'[e] = my[e]
      BY <2>1 DEF IInv
    <3>2. os.cycle \in Nat /\ os'.cycle \in Nat
      BY <1>0 DEF TypeInv, RunRecord
    <3>3. at[e] = "create" => my[e][1] \in Nat
      BY <3>1 DEF DriverInv
    <3>. QED
      BY <3>1, <3>2, <3>3 DEF DriverInv
  <2>. QED
    BY <2>1
<1>2. ASSUME NEW r \in Request PROVE RequestInv(r)'
  <2>1. RequestInv(r) /\ ask[r].mission \in Nat
    BY <1>0 DEF IInv, TypeInv, AskRecord
  <2>2. Len(missions) \in Nat /\ Len(missions') \in Nat
    BY <1>0 DEF TypeInv
  <2>3. ask[r].mission <= Len(missions')
    <3>1. ask[r].mission <= Len(missions)
      BY <2>1 DEF RequestInv
    <3>. QED
      BY <2>1, <2>2, <3>1
  <2>. QED
    BY <2>1, <2>3 DEF RequestInv
<1>3. ASSUME NEW n \in DOMAIN missions' PROVE MissionInv(n)'
  <2>1. CASE n \in DOMAIN missions
    <3>1. MissionInv(n) /\ missions'[n].id = missions[n].id
      BY <2>1 DEF IInv
    <3>2. os.cycle \in Nat /\ os'.cycle \in Nat /\ deaths \in Nat /\ deaths' \in Nat
      BY <1>0 DEF TypeInv, RunRecord
    <3>3. missions[n].id[1] \in Nat
      <4>1. missions[n] \in MissionRecord
        BY <2>1, <1>0 DEF TypeInv
      <4>2. missions[n].id \in Nat \X Nat
        BY <4>1 DEF MissionRecord
      <4>. QED
        BY <4>2
    <3>4. missions[n].id[1] <= os.cycle => missions[n].id[1] <= os'.cycle
      BY <3>2, <3>3
    <3>5. missions[n].id[1] <= os.cycle + 1 => missions[n].id[1] <= os'.cycle + 1
      BY <3>2, <3>3
    <3>6. os'.cycle > os.cycle => missions[n].id[1] <= os'.cycle
      BY <3>1, <3>2, <3>3 DEF MissionInv
    <3>7. ASSUME NEW e \in Driver, at[e] = "adopt", my[e] = <<n>>
          PROVE  missions[n].id[1] <= os'.cycle \/ deaths' > 0 \/ \E f \in Driver : at'[f] = "adopt" /\ my'[f] = <<n>>
      BY <3>6, <3>7
    <3>8. deaths > 0 => deaths' > 0
      BY <3>2
    <3>. QED
      BY <3>1, <3>4, <3>5, <3>7, <3>8 DEF MissionInv
  <2>. QED
    BY <2>1
<1>4. \A c \in Command : CommandInv(c)'
  BY DEF IInv, CommandInv
<1>. QED
  BY <1>1, <1>2, <1>3, <1>4 DEF IInv

\* GoesTo, when nothing else but the run is written
LEMMA Goes ==
  ASSUME IInv, NEW d \in Driver, NEW s \in Step, NEW w, GoesTo(d, s, w)
  PROVE  /\ at' \in [Driver -> Step] /\ DOMAIN my' = Driver
         /\ at'[d] = s /\ my'[d] = w
         /\ \A e \in Driver \ {d} : at'[e] = at[e] /\ my'[e] = my[e]
  BY DEF IInv, TypeInv, GoesTo

LEMMA Finite == IsFiniteSet(Driver) /\ MaxCycles \in Nat /\ MaxCycles >= 1
  BY OperationsAssumption

\* A step of a driver that leaves the missions and the cycle alone
LEMMA QuietDriver ==
  ASSUME IInv, NEW d \in Driver, NEW s \in Step, NEW w, GoesTo(d, s, w),
         os' \in RunRecord, os'.cycle = os.cycle, os'.current \in {0, os.current},
         os'.pending \subseteq os'.asked,
         UNCHANGED <<missions, runners, commands, ask, runs>>, deaths' \in Nat, deaths' >= deaths,
         at[d] = "adopt" => deaths' > 0,
         s # "adopt", s = "create" => os.cycle < MaxCycles,
         DriverInv(d)'
  PROVE  IInv'
<1>0. TypeInv /\ CyclesInv /\ os.cycle \in Nat /\ Len(missions) \in Nat /\ os.current \in Nat
  BY DEF IInv, TypeInv, RunRecord
<1>1. /\ at' \in [Driver -> Step] /\ DOMAIN my' = Driver
      /\ at'[d] = s /\ my'[d] = w
      /\ \A e \in Driver \ {d} : at'[e] = at[e] /\ my'[e] = my[e]
  BY Goes
<1>2. TypeInv'
  BY <1>0, <1>1 DEF TypeInv
<1>3. s \in {"create", "adopt"} => d \in Counting \/ os.cycle < MaxCycles
  BY <1>1
<1>4. CyclesInv'
  BY <1>0, <1>1, <1>3, CountOne, Finite DEF TypeInv
<1>. QED
  BY <1>0, <1>1, <1>2, <1>4, OneDriver

\* A driver that leaves, or that begins again, knows nothing.
LEMMA IdleDriver ==
  ASSUME IInv, NEW d \in Driver, NEW s \in {"off", "look", "leave", "plan", "read"}, GoesTo(d, s, <<>>),
         os' \in RunRecord, os'.cycle = os.cycle, os'.current \in {0, os.current},
         os'.pending \subseteq os'.asked,
         UNCHANGED <<missions, runners, commands, ask, runs>>, deaths' \in Nat, deaths' >= deaths,
         at[d] = "adopt" => deaths' > 0
  PROVE  IInv'
<1>1. s \in Step /\ s # "adopt" /\ s # "create"
  BY DEF Step
<1>2. at'[d] = s
  BY <1>1, Goes
<1>3. DriverInv(d)'
  BY <1>2 DEF DriverInv
<1>. QED
  BY <1>1, <1>3, QuietDriver
\* What the steps of a driver that adopts or starts no mission write
LEMMA QuietSteps ==
  ASSUME IInv, NEW d \in Driver,
         \/ Launch(d) \/ Look(d) \/ LeaveRun(d) \/ Plan(d) \/ Read(d) \/ Run(d) \/ RunThrows(d)
         \/ Wait(d) \/ Report(d) \/ Complete(d) \/ Review(d) \/ DriverDies(d)
  PROVE  IInv'
<1>0. /\ TypeInv /\ DriverInv(d) /\ os \in RunRecord /\ missions \in Seq(MissionRecord)
      /\ deaths \in Nat /\ os.cycle \in Nat /\ os.current \in Nat /\ os.blame \in Nat /\ DOMAIN my = Driver
      /\ os.current <= Len(missions) /\ os.pending \subseteq os.asked /\ at \in [Driver -> Step]
  BY DEF IInv, TypeInv, RunRecord
<1>. USE <1>0
<1>1. CASE Launch(d)
  BY <1>1, IdleDriver DEF Launch
<1>2. CASE Look(d)
  BY <1>2, IdleDriver DEF Look
<1>3. CASE LeaveRun(d)
  BY <1>3, IdleDriver DEF LeaveRun, Stop
<1>4. CASE Plan(d)
  <2>1. MissionId(os.cycle + 1, os.blame) \in Nat \X Nat /\ MissionId(os.cycle + 1, os.blame)[1] = os.cycle + 1
    BY DEF MissionId
  <2>2. CASE os.cycle >= MaxCycles
    BY <1>4, <2>2, IdleDriver DEF Plan, Stop
  <2>3. CASE ~(os.cycle >= MaxCycles)
    <3>1. GoesTo(d, "create", MissionId(os.cycle + 1, os.blame)) /\ UNCHANGED <<os, missions, runners, commands, ask, runs, deaths>>
          /\ at[d] = "plan" /\ os.cycle < MaxCycles
      BY <1>4, <2>3, Finite DEF Plan
    <3>2. DriverInv(d)'
      <4>1. at'[d] = "create" /\ my'[d] = MissionId(os.cycle + 1, os.blame)
        BY <3>1, Goes DEF Step
      <4>. QED
        BY <3>1, <4>1, <2>1 DEF DriverInv
    <3>. QED
      BY <3>1, <3>2, QuietDriver DEF Step
  <2>. QED
    BY <2>2, <2>3
<1>5. CASE Read(d)
  <2>1. CASE os.current = 0
    BY <1>5, <2>1, IdleDriver DEF Read, Stop
  <2>2. CASE os.current # 0
    <3>1. os.current \in DOMAIN missions
      BY <2>2
    <3>. QED
      BY <1>5, <2>2, <3>1, QuietDriver, Goes DEF Read, DriverInv, Step
  <2>. QED
    BY <2>1, <2>2
<1>6. CASE Run(d)
  BY <1>6, QuietDriver, Goes DEF Run, DriverInv, Step
<1>7. CASE RunThrows(d)
  BY <1>7, IdleDriver DEF RunThrows, Stop
<1>8. CASE Wait(d)
  <2>1. os' \in RunRecord /\ os'.cycle = os.cycle /\ os'.current = os.current
        /\ os'.pending = os.pending /\ os'.asked = os.asked
    BY <1>8 DEF Wait, RunRecord, SettledRun
  <2>. QED
    BY <1>8, <2>1, IdleDriver DEF Wait
<1>9. CASE Report(d)
  <2>1. PICK n \in DOMAIN missions : my[d] = <<n>>
    BY <1>9 DEF Report, DriverInv
  <2>2. missions[n] \in MissionRecord /\ n \in Nat
    BY <2>1
  <2>. DEFINE w == <<n, missions[n].status, missions[n].found>>
  <2>3. w \in Nat \X MissionStatus \X Finding
    BY <2>2 DEF MissionRecord
  <2>4. PICK s \in {"complete", "review"} : GoesTo(d, s, w)
    BY <1>9, <2>1 DEF Report
  <2>. HIDE DEF w
  <2>5. at'[d] = s /\ my'[d] = w /\ s \in Step
    BY <2>4, Goes DEF Step
  <2>6. DriverInv(d)'
    BY <2>3, <2>5 DEF DriverInv
  <2>7. UNCHANGED <<os, missions, runners, commands, ask, runs, deaths>> /\ at[d] = "report"
    BY <1>9 DEF Report
  <2>. QED
    BY <2>4, <2>5, <2>6, <2>7, QuietDriver
<1>10. CASE Complete(d)
  <2>1. os' \in RunRecord /\ os'.cycle = os.cycle /\ os'.current = os.current
        /\ os'.pending = os.pending /\ os'.asked = os.asked
    BY <1>10 DEF Complete, RunRecord, SettledRun, Final
  <2>. QED
    BY <1>10, <2>1, IdleDriver DEF Complete
<1>11. CASE Review(d)
  <2>1. os' \in RunRecord /\ os'.cycle = os.cycle /\ os'.current = 0 /\ os'.pending \subseteq os'.asked
    <3>1. my[d] \in Nat \X MissionStatus \X Finding
      BY <1>11 DEF Review, DriverInv
    <3>. DEFINE b == IF my[d][3] = "nothing" THEN os.blame ELSE os.blame + 1
                after == [os EXCEPT !.current = 0, !.blame = b]
    <3>0. b \in Nat
      OBVIOUS
    <3>2. after \in RunRecord /\ after.cycle = os.cycle /\ after.current = 0
          /\ after.pending = os.pending /\ after.asked = os.asked
      <4>. HIDE DEF b
      <4>. QED
        BY <3>0 DEF RunRecord
    <3>3. \/ os' = [after EXCEPT !.status = "active"]
          \/ os' = Asking(after, <<os.cycle, my[d]>>)
          \/ os' = [after EXCEPT !.status = "failed"]
      BY <1>11 DEF Review
    <3>4. <<os.cycle, my[d]>> \in Approval
      BY <3>1 DEF Approval
    <3>. HIDE DEF after
    <3>5. CASE os' = [after EXCEPT !.status = "active"]
      BY <3>2, <3>5 DEF RunRecord
    <3>6. CASE os' = Asking(after, <<os.cycle, my[d]>>)
      BY <3>2, <3>4, <3>6 DEF RunRecord, Asking, SettledRun
    <3>7. CASE os' = [after EXCEPT !.status = "failed"]
      BY <3>2, <3>7 DEF RunRecord, SettledRun, Final
    <3>. QED
      BY <3>3, <3>5, <3>6, <3>7
  <2>. QED
    BY <1>11, <2>1, IdleDriver DEF Review
<1>12. CASE DriverDies(d)
  <2>1. deaths' = deaths + 1 /\ deaths' \in Nat /\ deaths' > 0 /\ deaths' >= deaths
    BY <1>12 DEF DriverDies
  <2>. QED
    BY <1>12, <2>1, IdleDriver DEF DriverDies, Stop
<1>. QED
  BY <1>1, <1>2, <1>3, <1>4, <1>5, <1>6, <1>7, <1>8, <1>9, <1>10, <1>11, <1>12

\* A new mission has the id that its creator has planned.
LEMMA CreateKeeps ==
  ASSUME IInv, NEW d \in Driver, Create(d)
  PROVE  IInv'
<1>0. /\ TypeInv /\ DriverInv(d) /\ CyclesInv /\ os.cycle \in Nat
      /\ missions \in Seq(MissionRecord) /\ Len(missions) \in Nat
      /\ at[d] = "create" /\ UNCHANGED <<os, runners, commands, ask, runs, deaths>>
  BY DEF IInv, TypeInv, RunRecord, Create
<1>1. CASE Exists(my[d])
  BY <1>0, <1>1, IdleDriver DEF Create, Stop, TypeInv
<1>2. CASE ~Exists(my[d])
  <2>1. missions' = Append(missions, NewMission(my[d])) /\ GoesTo(d, "adopt", <<Len(missions) + 1>>)
    BY <1>2 DEF Create
  <2>2. my[d] \in Nat \X Nat /\ my[d][1] <= os.cycle + 1
    BY <1>0 DEF DriverInv
  <2>3. NewMission(my[d]) \in MissionRecord /\ NewMission(my[d]).id = my[d]
    BY <2>2 DEF NewMission, MissionRecord, MissionStatus, Finding
  <2>0. PICK k \in Nat : k = Len(missions) + 1
    BY <1>0
  <2>4. /\ missions' \in Seq(MissionRecord) /\ Len(missions') = k
        /\ DOMAIN missions' = DOMAIN missions \cup {k} /\ k \notin DOMAIN missions
        /\ \A n \in DOMAIN missions : missions'[n] = missions[n]
        /\ missions'[k].id = my[d]
    BY <1>0, <2>0, <2>1, <2>3, MissionAdded
  <2>5. /\ at' \in [Driver -> Step] /\ DOMAIN my' = Driver
        /\ at'[d] = "adopt" /\ my'[d] = <<k>>
        /\ \A e \in Driver \ {d} : at'[e] = at[e] /\ my'[e] = my[e]
    BY <2>0, <2>1, Goes DEF Step
  <2>6. TypeInv'
    BY <1>0, <2>0, <2>4, <2>5 DEF TypeInv, RunRecord
  <2>7. d \in Counting
    BY <1>0 DEF Counting
  <2>8. CyclesInv'
    BY <1>0, <2>5, <2>7, CountOne, Finite DEF TypeInv
  <2>9. DriverInv(d)'
    BY <2>4, <2>5 DEF DriverInv
  <2>10. \A n \in DOMAIN missions' \ DOMAIN missions : MissionInv(n)'
    <3>1. missions'[k].id[1] <= os'.cycle + 1
      BY <1>0, <2>2, <2>4
    <3>2. \E e \in Driver : at'[e] = "adopt" /\ my'[e] = <<k>>
      BY <2>5
    <3>3. MissionInv(k)'
      BY <3>1, <3>2 DEF MissionInv
    <3>. QED
      BY <2>4, <3>3
  <2>11. Len(missions) <= Len(missions') /\ os'.cycle >= os.cycle /\ deaths' >= deaths /\ at[d] # "adopt"
    BY <1>0, <2>0, <2>4 DEF TypeInv
  <2>. QED
    BY <1>0, <2>4, <2>5, <2>6, <2>8, <2>9, <2>10, <2>11, OneDriver
<1>. QED
  BY <1>1, <1>2

\* Whoever adopts a mission counts its cycle.
LEMMA AdoptKeeps ==
  ASSUME IInv, NEW d \in Driver, Adopt(d)
  PROVE  IInv'
<1>0. /\ TypeInv /\ DriverInv(d) /\ CyclesInv /\ os.cycle \in Nat /\ os \in RunRecord
      /\ at[d] = "adopt" /\ GoesTo(d, "read", <<>>)
      /\ UNCHANGED <<missions, runners, commands, ask, runs, deaths>>
  BY DEF IInv, TypeInv, RunRecord, Adopt
<1>1. PICK n \in DOMAIN missions : my[d] = <<n>>
  BY <1>0 DEF DriverInv
<1>2. n \in Nat /\ n <= Len(missions)
  BY <1>0, <1>1 DEF TypeInv
<1>3. os' = [os EXCEPT !.cycle = os.cycle + 1, !.status = "active", !.current = n]
  BY <1>1 DEF Adopt
<1>4. os' \in RunRecord /\ os'.cycle = os.cycle + 1 /\ os'.current = n
      /\ os'.pending = os.pending /\ os'.asked = os.asked
  <2>. DEFINE c == os.cycle + 1
  <2>1. c \in Nat
    BY <1>0
  <2>2. os' = [os EXCEPT !.cycle = c, !.status = "active", !.current = n]
    BY <1>3
  <2>. HIDE DEF c
  <2>3. os' \in RunRecord /\ os'.cycle = c /\ os'.current = n
        /\ os'.pending = os.pending /\ os'.asked = os.asked
    BY <1>0, <1>2, <2>1, <2>2 DEF RunRecord
  <2>. QED
    BY <2>3 DEF c
<1>5. /\ at' \in [Driver -> Step] /\ DOMAIN my' = Driver
      /\ at'[d] = "read"
      /\ \A e \in Driver \ {d} : at'[e] = at[e] /\ my'[e] = my[e]
  BY <1>0, Goes DEF Step
<1>6. TypeInv'
  BY <1>0, <1>2, <1>4, <1>5 DEF TypeInv
<1>7. d \in Counting
  BY <1>0 DEF Counting
<1>8. CyclesInv'
  BY <1>0, <1>4, <1>5, <1>7, CountOne, Finite DEF TypeInv
<1>9. DriverInv(d)'
  BY <1>5 DEF DriverInv
<1>10. Len(missions) <= Len(missions') /\ os'.cycle >= os.cycle /\ os'.cycle > os.cycle /\ deaths' >= deaths
  BY <1>0, <1>4 DEF TypeInv
<1>. QED
  BY <1>0, <1>5, <1>6, <1>8, <1>9, <1>10, OneDriver

LEMMA StartKeeps ==
  ASSUME IInv, NEW d \in Driver, Start(d)
  PROVE  IInv'
<1>0. /\ TypeInv /\ DriverInv(d) /\ CyclesInv /\ os.cycle \in Nat
      /\ missions \in Seq(MissionRecord) /\ Len(missions) \in Nat
      /\ at[d] = "start" /\ UNCHANGED <<os, runners, commands, ask, runs, deaths>>
  BY DEF IInv, TypeInv, RunRecord, Start
<1>1. PICK n \in DOMAIN missions : my[d] = <<n>>
  BY <1>0 DEF DriverInv
<1>2. CASE missions[n].status # "planned"
  BY <1>0, <1>1, <1>2, IdleDriver DEF Start, Stop, TypeInv
<1>3. CASE missions[n].status = "planned"
  <2>1. missions' = [missions EXCEPT ![n].status = "active"] /\ GoesTo(d, "run", <<n>>)
    BY <1>1, <1>3 DEF Start
  <2>2. [missions[n] EXCEPT !.status = "active"] \in MissionRecord
        /\ [missions[n] EXCEPT !.status = "active"].id = missions[n].id
    <3>1. missions[n] \in MissionRecord
      BY <1>0
    <3>. QED
      BY <3>1 DEF MissionRecord, MissionStatus
  <2>3. /\ missions' \in Seq(MissionRecord) /\ Len(missions') = Len(missions)
        /\ DOMAIN missions' = DOMAIN missions
        /\ \A k \in DOMAIN missions : missions'[k].id = missions[k].id
    BY <1>0, <2>1, <2>2, OneMission
  <2>4. /\ at' \in [Driver -> Step] /\ DOMAIN my' = Driver
        /\ at'[d] = "run" /\ my'[d] = <<n>>
        /\ \A e \in Driver \ {d} : at'[e] = at[e] /\ my'[e] = my[e]
    BY <2>1, Goes DEF Step
  <2>5. TypeInv'
    BY <1>0, <2>3, <2>4 DEF TypeInv
  <2>6. CyclesInv'
    BY <1>0, <2>4, CountOne, Finite DEF TypeInv
  <2>7. DriverInv(d)'
    BY <2>3, <2>4 DEF DriverInv
  <2>8. Len(missions) <= Len(missions') /\ os'.cycle >= os.cycle /\ deaths' >= deaths /\ at[d] # "adopt"
    BY <1>0, <2>3 DEF TypeInv
  <2>. QED
    BY <1>0, <2>3, <2>4, <2>5, <2>6, <2>7, <2>8, OneDriver
<1>. QED
  BY <1>2, <1>3
-----------------------------------------------------------------------------
(* Missions and requests *)

\* A step of requests or missions leaves the missions in their order.
MissionsKept ==
  /\ missions' \in Seq(MissionRecord) /\ Len(missions') = Len(missions)
  /\ DOMAIN missions' = DOMAIN missions
  /\ \A n \in DOMAIN missions : missions'[n].id = missions[n].id

LEMMA Grows == \A n \in Nat : n + 1 \in Nat /\ (n > 0 => n + 1 > 0)
  OBVIOUS

\* A step of no driver, which counts no cycle and makes no mission
LEMMA NoDriver ==
  ASSUME IInv, TypeInv', UNCHANGED <<at, my>>, os'.cycle = os.cycle,
         MissionsKept, deaths' \in {deaths, deaths + 1},
         \A r \in Request : RequestInv(r)', \A c \in Command : CommandInv(c)'
  PROVE  IInv'
<1>1. deaths \in Nat /\ deaths' \in Nat /\ CyclesInv
  BY DEF IInv, TypeInv
<1>2. \A d \in Driver : DriverInv(d)'
  BY DEF IInv, DriverInv, MissionsKept
<1>3. ASSUME NEW n \in DOMAIN missions' PROVE MissionInv(n)'
  <2>1. MissionInv(n) /\ missions'[n].id = missions[n].id
    BY <1>3 DEF IInv, MissionsKept
  <2>2. deaths > 0 => deaths' > 0
    BY <1>1, Grows
  <2>. QED
    BY <2>1, <2>2 DEF MissionInv
<1>4. CyclesInv'
  BY <1>1 DEF CyclesInv, Counting
<1>. QED
  BY <1>2, <1>3, <1>4 DEF IInv

LEMMA MissionSteps ==
  ASSUME IInv, NEW n \in DOMAIN missions, Mission(n)
  PROVE  IInv'
<1>0. TypeInv /\ missions \in Seq(MissionRecord) /\ missions[n] \in MissionRecord /\ deaths \in Nat
  BY DEF IInv, TypeInv
<1>1. UNCHANGED <<os, at, my, commands, ask, runs, deaths>>
  BY DEF Mission, MissionAsks, MissionEnds, RunnerLeaves
<1>2. runners' \subseteq runners
  BY DEF Mission, MissionAsks, MissionEnds, RunnerLeaves
<1>3. MissionsKept
  <2>1. CASE MissionAsks(n)
    <3>. DEFINE k == missions[n].asks + 1
                m == [missions[n] EXCEPT !.status = "waiting_approval", !.pending = TRUE, !.asks = k]
    <3>1. k \in Nat
      BY <1>0 DEF MissionRecord
    <3>2. missions' = [missions EXCEPT ![n] = m]
      BY <2>1 DEF MissionAsks
    <3>3. m \in MissionRecord /\ m.id = missions[n].id
      <4>. HIDE DEF k
      <4>. QED
        BY <1>0, <3>1 DEF MissionRecord, MissionStatus
    <3>. HIDE DEF m
    <3>. QED
      BY <1>0, <3>2, <3>3, OneMission DEF MissionsKept
  <2>2. CASE MissionEnds(n)
    <3>1. PICK m : /\ missions' = [missions EXCEPT ![n] = m]
                   /\ \/ m = [missions[n] EXCEPT !.status = "completed"]
                      \/ \E f \in Findings : m = [missions[n] EXCEPT !.status = "ended", !.found = f]
      BY <2>2 DEF MissionEnds
    <3>2. m \in MissionRecord /\ m.id = missions[n].id
      BY <1>0, <3>1, OperationsAssumption DEF MissionRecord, MissionStatus, Ended, Finding
    <3>. QED
      BY <1>0, <3>1, <3>2, OneMission DEF MissionsKept
  <2>3. CASE RunnerLeaves(n)
    BY <1>0, <2>3 DEF RunnerLeaves, MissionsKept
  <2>. QED
    BY <2>1, <2>2, <2>3 DEF Mission
<1>4. TypeInv'
  BY <1>0, <1>1, <1>2, <1>3 DEF TypeInv, MissionsKept
<1>5. \A r \in Request : RequestInv(r)'
  BY <1>1, <1>3 DEF IInv, RequestInv, MissionsKept
<1>6. \A c \in Command : CommandInv(c)'
  BY <1>1 DEF IInv, CommandInv
<1>. QED
  BY <1>0, <1>1, <1>3, <1>4, <1>5, <1>6, NoDriver

\* A step of a request, which has its command and its mission, and carries out
\* the operation of a command only when it begins it
LEMMA OneRequest ==
  ASSUME IInv, NEW r \in Request, UNCHANGED <<at, my>>,
         os' \in RunRecord, os'.cycle = os.cycle, os'.current = os.current, os'.pending \subseteq os'.asked,
         MissionsKept, runners' \subseteq DOMAIN missions,
         deaths' \in {deaths, deaths + 1},
         NEW a \in AskRecord, ask' = [ask EXCEPT ![r] = a],
         a.step # "idle" => a.command \in Command,
         a.mission \in {ask[r].mission, os.current} \/ a.mission <= Len(missions),
         a.step \in {"abort mission", "decide"} => a.mission # 0,
         commands' \in [Command -> {"unknown", "running", "completed", "failed"}],
         runs' \in [Command -> Nat],
         \A c \in Command : CommandInv(c)'
  PROVE  IInv'
<1>0. TypeInv
  BY DEF IInv
<1>1. TypeInv'
  <2>1. deaths' \in Nat
    <3>1. deaths \in Nat
      BY <1>0 DEF TypeInv
    <3>2. deaths + 1 \in Nat
      BY <3>1, Grows, Zenon
    <3>. QED
      BY <3>1, <3>2, Zenon
  <2>. QED
    BY <1>0, <2>1 DEF TypeInv, MissionsKept
<1>2. ASSUME NEW q \in Request PROVE RequestInv(q)'
  <2>0. RequestInv(q) /\ RequestInv(r)
    BY DEF IInv
  <2>1. os.current <= Len(missions)
    BY <1>0 DEF TypeInv
  <2>2. ask'[q] = IF q = r THEN a ELSE ask[q]
    BY <1>0 DEF TypeInv
  <2>4. a.mission <= Len(missions) /\ ask[q].mission <= Len(missions)
    BY <2>0, <2>1 DEF RequestInv
  <2>5. ask'[q].mission <= Len(missions')
    BY <2>2, <2>4 DEF MissionsKept
  <2>. QED
    BY <2>0, <2>2, <2>5 DEF RequestInv
<1>. QED
  BY <1>0, <1>1, <1>2, NoDriver

\* Set and Done, field by field
LEMMA Asks ==
  ASSUME IInv, NEW r \in Request, NEW s \in AskStep
  PROVE  /\ [ask[r] EXCEPT !.step = s] \in AskRecord
         /\ [ask[r] EXCEPT !.step = s].step = s
         /\ [ask[r] EXCEPT !.step = s].command = ask[r].command
         /\ [ask[r] EXCEPT !.step = s].mission = ask[r].mission
         /\ Set(r, s) <=> ask' = [ask EXCEPT ![r] = [ask[r] EXCEPT !.step = s]]
<1>1. ask[r] \in AskRecord
  BY DEF IInv, TypeInv
<1>. QED
  BY <1>1 DEF AskRecord, Set

LEMMA Sets ==
  ASSUME IInv, NEW r \in Request, NEW s \in AskStep, Set(r, s), ask[r].step # "idle",
         s \notin {"abort mission", "decide"}, UNCHANGED <<at, my, commands, runs, deaths>>,
         os' \in RunRecord, os'.cycle = os.cycle, os'.current = os.current, os'.pending \subseteq os'.asked,
         MissionsKept, runners' \subseteq DOMAIN missions
  PROVE  IInv'
<1>0. TypeInv /\ RequestInv(r) /\ deaths \in Nat
  BY DEF IInv, TypeInv
<1>. DEFINE a == [ask[r] EXCEPT !.step = s]
<1>1. a \in AskRecord /\ a.step = s /\ a.command = ask[r].command /\ a.mission = ask[r].mission
      /\ ask' = [ask EXCEPT ![r] = a]
  BY Asks
<1>. HIDE DEF a
<1>2. \A c \in Command : CommandInv(c)'
  BY DEF IInv, CommandInv
<1>3. a.step # "idle" => a.command \in Command
  BY <1>0, <1>1 DEF RequestInv
<1>4. commands' \in [Command -> {"unknown", "running", "completed", "failed"}] /\ runs' \in [Command -> Nat]
  BY <1>0 DEF TypeInv
<1>. QED
  BY <1>1, <1>2, <1>3, <1>4, OneRequest

\* What an operator makes of a mission
LEMMA Changed ==
  ASSUME IInv, NEW n \in DOMAIN missions, NEW s \in MissionStatus, NEW p \in BOOLEAN, NEW q \in BOOLEAN, NEW f \in Finding
  PROVE  /\ missions' = [missions EXCEPT ![n].pending = q, ![n].status = s, ![n].found = f] => MissionsKept
         /\ missions' = [missions EXCEPT ![n].paused = p, ![n].status = s] => MissionsKept
         /\ missions' = [missions EXCEPT ![n].status = s, ![n].paused = p] => MissionsKept
         /\ missions' = [missions EXCEPT ![n].paused = p] => MissionsKept
         /\ missions' = [missions EXCEPT ![n].status = s] => MissionsKept
         /\ missions' = missions => MissionsKept
<1>0. missions \in Seq(MissionRecord) /\ missions[n] \in MissionRecord
  BY DEF IInv, TypeInv
<1>1. \A m \in MissionRecord : m.id = missions[n].id /\ missions' = [missions EXCEPT ![n] = m] => MissionsKept
  BY <1>0, OneMission DEF MissionsKept
<1>2. ASSUME missions' = [missions EXCEPT ![n].pending = q, ![n].status = s, ![n].found = f] PROVE MissionsKept
  <2>. DEFINE m == [missions[n] EXCEPT !.pending = q, !.status = s, !.found = f]
  <2>1. missions' = [missions EXCEPT ![n] = m]
    BY <1>2
  <2>2. m \in MissionRecord /\ m.id = missions[n].id
    BY <1>0 DEF MissionRecord
  <2>. HIDE DEF m
  <2>. QED
    BY <1>1, <2>1, <2>2
<1>3. ASSUME missions' = [missions EXCEPT ![n].paused = p, ![n].status = s] PROVE MissionsKept
  <2>. DEFINE m == [missions[n] EXCEPT !.paused = p, !.status = s]
  <2>1. missions' = [missions EXCEPT ![n] = m]
    BY <1>3
  <2>2. m \in MissionRecord /\ m.id = missions[n].id
    BY <1>0 DEF MissionRecord
  <2>. HIDE DEF m
  <2>. QED
    BY <1>1, <2>1, <2>2
<1>4. ASSUME missions' = [missions EXCEPT ![n].status = s, ![n].paused = p] PROVE MissionsKept
  <2>. DEFINE m == [missions[n] EXCEPT !.status = s, !.paused = p]
  <2>1. missions' = [missions EXCEPT ![n] = m]
    BY <1>4
  <2>2. m \in MissionRecord /\ m.id = missions[n].id
    BY <1>0 DEF MissionRecord
  <2>. HIDE DEF m
  <2>. QED
    BY <1>1, <2>1, <2>2
<1>5. ASSUME missions' = [missions EXCEPT ![n].paused = p] PROVE MissionsKept
  <2>. DEFINE m == [missions[n] EXCEPT !.paused = p]
  <2>1. missions' = [missions EXCEPT ![n] = m]
    BY <1>5
  <2>2. m \in MissionRecord /\ m.id = missions[n].id
    BY <1>0 DEF MissionRecord
  <2>. HIDE DEF m
  <2>. QED
    BY <1>1, <2>1, <2>2
<1>6. ASSUME missions' = [missions EXCEPT ![n].status = s] PROVE MissionsKept
  <2>. DEFINE m == [missions[n] EXCEPT !.status = s]
  <2>1. missions' = [missions EXCEPT ![n] = m]
    BY <1>6
  <2>2. m \in MissionRecord /\ m.id = missions[n].id
    BY <1>0 DEF MissionRecord
  <2>. HIDE DEF m
  <2>. QED
    BY <1>1, <2>1, <2>2
<1>7. missions' = missions => MissionsKept
  BY <1>0 DEF MissionsKept
<1>. QED
  BY <1>2, <1>3, <1>4, <1>5, <1>6, <1>7

\* The operations of an operator on a mission
LEMMA OnMission ==
  ASSUME IInv, NEW n \in DOMAIN missions
  PROVE  /\ \A granted \in BOOLEAN : missions' = Decided(n, granted) => MissionsKept
         /\ missions' = Aborted(n) => MissionsKept
         /\ \A r \in Request : Pause(r, n) \/ Resume(r, n) \/ Retry(r, n) => MissionsKept
         /\ \A r \in Request, granted \in BOOLEAN : DecideMission(r, n, granted) => MissionsKept
<1>0. missions \in Seq(MissionRecord) /\ missions[n] \in MissionRecord
  BY DEF IInv, TypeInv
<1>1. missions[n].status \in MissionStatus /\ missions[n].paused \in BOOLEAN /\ missions[n].found \in Finding
  BY <1>0 DEF MissionRecord
<1>2. {"active", "ended", "aborted", "planned"} \subseteq MissionStatus /\ "failures" \in Finding
  BY DEF MissionStatus, Ended, Finding
<1>3. ASSUME NEW granted \in BOOLEAN, missions' = Decided(n, granted) PROVE MissionsKept
  <2>1. PICK s \in {"active", "ended"} : s = IF granted THEN "active" ELSE "ended"
    OBVIOUS
  <2>2. PICK f \in Finding : f = IF granted \/ missions[n].found = "critical" THEN missions[n].found ELSE "failures"
    BY <1>1, <1>2
  <2>3. missions' = [missions EXCEPT ![n].pending = FALSE, ![n].status = s, ![n].found = f]
    BY <1>3, <2>1, <2>2 DEF Decided
  <2>. QED
    BY <1>1, <1>2, <2>3, Changed
<1>4. ASSUME missions' = Aborted(n) PROVE MissionsKept
  <2>1. missions' = missions \/ missions' = [missions EXCEPT ![n].status = "aborted"]
    BY <1>4 DEF Aborted
  <2>. QED
    BY <1>1, <1>2, <2>1, Changed
<1>5. ASSUME NEW r \in Request, Pause(r, n) PROVE MissionsKept
  <2>1. PICK p \in BOOLEAN : p = (missions[n].status \notin Ended \/ missions[n].paused)
    OBVIOUS
  <2>2. missions' = [missions EXCEPT ![n].paused = p]
    BY <1>5, <2>1 DEF Pause
  <2>. QED
    BY <1>1, <2>2, Changed
<1>6. ASSUME NEW r \in Request, Resume(r, n) PROVE MissionsKept
  <2>1. PICK s \in MissionStatus : s = IF missions[n].status = "planned" THEN "active" ELSE missions[n].status
    BY <1>1, <1>2
  <2>2. missions' = missions \/ missions' = [missions EXCEPT ![n].paused = FALSE, ![n].status = s]
    BY <1>6, <2>1 DEF Resume
  <2>. QED
    BY <1>1, <2>2, Changed
<1>7. ASSUME NEW r \in Request, Retry(r, n) PROVE MissionsKept
  <2>1. missions' = missions \/ missions' = [missions EXCEPT ![n].status = "active", ![n].paused = FALSE]
    BY <1>7 DEF Retry, Refuse
  <2>. QED
    BY <1>1, <1>2, <2>1, Changed
<1>8. ASSUME NEW r \in Request, NEW granted \in BOOLEAN, DecideMission(r, n, granted) PROVE MissionsKept
  <2>1. missions' = missions \/ missions' = Decided(n, granted)
    BY <1>8 DEF DecideMission, Refuse
  <2>. QED
    BY <1>1, <2>1, <1>3, Changed
<1>. QED
  BY <1>3, <1>4, <1>5, <1>6, <1>7, <1>8

LEMMA MissionsStay == IInv /\ UNCHANGED missions => MissionsKept
  BY DEF IInv, TypeInv, MissionsKept

LEMMA RunFacts ==
  ASSUME IInv
  PROVE  /\ os \in RunRecord /\ os.pending \subseteq os.asked /\ runners \subseteq DOMAIN missions
         /\ TypeInv /\ ask \in [Request -> AskRecord]
         /\ \A r \in Request : RequestInv(r)
         /\ \A c \in Command : CommandInv(c)
         /\ os.current # 0 => os.current \in DOMAIN missions
         /\ \A r \in Request : ask[r].mission # 0 => ask[r].mission \in DOMAIN missions
<1>1. TypeInv /\ os \in RunRecord /\ os.pending \subseteq os.asked /\ runners \subseteq DOMAIN missions
      /\ ask \in [Request -> AskRecord] /\ missions \in Seq(MissionRecord)
  BY DEF IInv, TypeInv
<1>2. (\A r \in Request : RequestInv(r)) /\ \A c \in Command : CommandInv(c)
  BY DEF IInv
<1>3. os.current \in Nat /\ os.current <= Len(missions)
  BY <1>1 DEF TypeInv, RunRecord
<1>4. os.current # 0 => os.current \in DOMAIN missions
  BY <1>1, <1>3
<1>5. ASSUME NEW r \in Request, ask[r].mission # 0 PROVE ask[r].mission \in DOMAIN missions
  <2>1. ask[r].mission \in Nat /\ ask[r].mission <= Len(missions)
    BY <1>1, <1>2 DEF AskRecord, RequestInv
  <2>. QED
    BY <1>1, <1>5, <2>1
<1>. QED
  BY <1>1, <1>2, <1>4, <1>5

\* Steps that write the record of a command
LEMMA CommandSteps ==
  ASSUME IInv, NEW r \in Request,
         Begin(r) \/ RecordOutcome(r) \/ RequestDies(r) \/ \E order \in Orders, c \in Command : Submit(r, order, c)
  PROVE  IInv'
<1>0. /\ TypeInv /\ os \in RunRecord /\ os.pending \subseteq os.asked /\ runners \subseteq DOMAIN missions
      /\ ask \in [Request -> AskRecord] /\ RequestInv(r) /\ \A c \in Command : CommandInv(c)
  BY RunFacts
<1>1. UNCHANGED <<os, missions, at, my, runners>> /\ MissionsKept
  BY MissionsStay DEF Begin, RecordOutcome, RequestDies, Submit
<1>2. /\ commands \in [Command -> {"unknown", "running", "completed", "failed"}]
      /\ runs \in [Command -> Nat]
  BY <1>0 DEF TypeInv
<1>3. Idle \in AskRecord /\ Idle.step = "idle" /\ Idle.mission <= Len(missions)
  <2>1. Idle \in AskRecord /\ Idle.step = "idle" /\ Idle.mission = 0
    BY DEF Idle, AskRecord, AskStep
  <2>2. 0 <= Len(missions)
    <3>1. missions \in Seq(MissionRecord)
      BY <1>0 DEF TypeInv
    <3>. QED
      BY <3>1
  <2>. QED
    BY <2>1, <2>2
<1>4. CASE Begin(r)
  <2>1. ask[r].command \in Command /\ ask[r].step = "create"
    BY <1>0, <1>4 DEF Begin, RequestInv
  <2>2. PICK c \in Command : c = ask[r].command
    BY <2>1
  <2>3. CASE commands[c] = "unknown"
    <3>1. /\ commands' = [commands EXCEPT ![c] = "running"]
          /\ runs' = [runs EXCEPT ![c] = runs[c] + 1]
          /\ Set(r, "operate") /\ UNCHANGED deaths
      BY <1>4, <2>2, <2>3 DEF Begin
    <3>2. runs[c] = 0
      BY <1>0, <2>3 DEF CommandInv
    <3>3. /\ commands' \in [Command -> {"unknown", "running", "completed", "failed"}]
          /\ runs' \in [Command -> Nat]
      BY <1>2, <3>1, <3>2
    <3>4. \A e \in Command : CommandInv(e)'
      BY <1>0, <1>2, <3>1, <3>2 DEF CommandInv
    <3>. DEFINE a == [ask[r] EXCEPT !.step = "operate"]
    <3>5. a \in AskRecord /\ a.step = "operate" /\ a.command = ask[r].command /\ a.mission = ask[r].mission
          /\ ask' = [ask EXCEPT ![r] = a]
      BY <3>1, Asks DEF AskStep
    <3>. HIDE DEF a
    <3>. QED
      BY <1>0, <1>1, <2>1, <3>1, <3>3, <3>4, <3>5, OneRequest
  <2>4. CASE commands[c] # "unknown"
    <3>1. ask' = [ask EXCEPT ![r] = Idle] /\ UNCHANGED <<commands, runs, deaths>>
      BY <1>4, <2>2, <2>4 DEF Begin, Done
    <3>2. \A e \in Command : CommandInv(e)'
      BY <1>0, <3>1 DEF CommandInv
    <3>. QED
      BY <1>0, <1>1, <1>2, <1>3, <3>1, <3>2, OneRequest
  <2>. QED
    BY <2>3, <2>4
<1>5. CASE RecordOutcome(r)
  <2>1. ask' = [ask EXCEPT ![r] = Idle] /\ UNCHANGED <<runs, deaths>>
        /\ ask[r].step \in {"completed", "failed"}
        /\ commands' = [commands EXCEPT ![ask[r].command] = ask[r].step]
    BY <1>5 DEF RecordOutcome, Done
  <2>2. commands' \in [Command -> {"unknown", "running", "completed", "failed"}]
    BY <1>2, <2>1
  <2>3. \A e \in Command : CommandInv(e)'
    BY <1>0, <1>2, <2>1 DEF CommandInv
  <2>. QED
    BY <1>0, <1>1, <1>2, <1>3, <2>1, <2>2, <2>3, OneRequest
<1>6. CASE RequestDies(r)
  <2>1. ask' = [ask EXCEPT ![r] = Idle] /\ UNCHANGED <<commands, runs>> /\ deaths' = deaths + 1
    BY <1>6 DEF RequestDies, Done
  <2>2. \A e \in Command : CommandInv(e)'
    BY <1>0, <2>1 DEF CommandInv
  <2>. QED
    BY <1>0, <1>1, <1>2, <1>3, <2>1, <2>2, OneRequest
<1>7. ASSUME NEW order \in Orders, NEW c \in Command, Submit(r, order, c) PROVE IInv'
  <2>. DEFINE a == [step |-> "create", order |-> order, command |-> c, mission |-> 0]
  <2>1. ask' = [ask EXCEPT ![r] = a] /\ UNCHANGED <<commands, runs, deaths>>
    BY <1>7 DEF Submit
  <2>2. a \in AskRecord /\ a.step = "create" /\ a.command \in Command /\ a.mission <= Len(missions)
    <3>1. a \in AskRecord /\ a.step = "create" /\ a.command \in Command /\ a.mission = Idle.mission
      BY DEF AskRecord, AskStep, Idle
    <3>. HIDE DEF a
    <3>. QED
      BY <1>3, <3>1
  <2>3. \A e \in Command : CommandInv(e)'
    BY <1>0, <2>1 DEF CommandInv
  <2>. HIDE DEF a
  <2>. QED
    BY <1>0, <1>1, <1>2, <2>1, <2>2, <2>3, OneRequest
<1>. QED
  BY <1>4, <1>5, <1>6, <1>7

\* Steps that carry a command out
LEMMA ServeSteps ==
  ASSUME IInv, NEW r \in Request,
         CarryOut(r) \/ AbortMission(r) \/ AbortRun(r) \/ ResolveMission(r) \/ SettleRun(r)
  PROVE  IInv'
<1>0. /\ TypeInv /\ os \in RunRecord /\ os.pending \subseteq os.asked /\ runners \subseteq DOMAIN missions
      /\ ask \in [Request -> AskRecord] /\ RequestInv(r) /\ \A c \in Command : CommandInv(c)
      /\ os.current # 0 => os.current \in DOMAIN missions
      /\ ask[r].mission # 0 => ask[r].mission \in DOMAIN missions
  BY RunFacts
<1>1. UNCHANGED <<at, my, commands, runs, deaths>> /\ ask[r].step # "idle"
  BY DEF CarryOut, AbortMission, AbortRun, ResolveMission, SettleRun
<1>2. ASSUME NEW s \in {"completed", "failed", "approved", "denied", "abort run"}, Set(r, s),
             os' \in RunRecord, os'.cycle = os.cycle, os'.current = os.current, os'.pending \subseteq os'.asked,
             MissionsKept, runners' \subseteq DOMAIN missions
      PROVE  IInv'
  <2>1. s \in AskStep /\ s \notin {"abort mission", "decide"}
    BY DEF AskStep
  <2>. QED
    BY <1>1, <1>2, <2>1, Sets
<1>3. ASSUME UNCHANGED os PROVE os' \in RunRecord /\ os'.cycle = os.cycle /\ os'.current = os.current /\ os'.pending \subseteq os'.asked
  BY <1>0, <1>3
<1>4. ASSUME NEW s \in {"active", "failed", "aborted"}, os' = [os EXCEPT !.status = s]
      PROVE os' \in RunRecord /\ os'.cycle = os.cycle /\ os'.current = os.current /\ os'.pending \subseteq os'.asked
  BY <1>0, <1>4 DEF RunRecord, SettledRun, Final
<1>5. CASE AbortMission(r)
  <2>1. ask[r].mission \in DOMAIN missions
    BY <1>0, <1>5 DEF AbortMission, RequestInv
  <2>2. MissionsKept
    BY <1>5, <2>1, OnMission DEF AbortMission
  <2>. QED
    BY <1>0, <1>2, <1>3, <1>5, <2>2 DEF AbortMission
<1>6. CASE AbortRun(r)
  BY <1>0, <1>2, <1>4, <1>6, MissionsStay DEF AbortRun
<1>7. CASE ResolveMission(r)
  <2>1. ask[r].mission \in DOMAIN missions
    BY <1>0, <1>7 DEF ResolveMission, RequestInv
  <2>2. MissionsKept
    BY <1>7, <2>1, OnMission, MissionsStay DEF ResolveMission
  <2>3. \E s \in {"approved", "denied", "failed"} : Set(r, s)
    BY <1>7 DEF ResolveMission
  <2>. QED
    BY <1>0, <1>2, <1>3, <1>7, <2>2, <2>3 DEF ResolveMission
<1>8. CASE SettleRun(r)
  <2>1. \E s \in {"active", "failed"} : os' = [os EXCEPT !.status = s]
    BY <1>8 DEF SettleRun
  <2>. QED
    BY <1>0, <1>2, <1>4, <1>8, <2>1, MissionsStay DEF SettleRun
<1>9. CASE CarryOut(r)
  <2>1. ASSUME ResolveOSApproval(r) PROVE IInv'
    <3>1. CASE os.pending = {} /\ Refuse(r)
      BY <1>0, <1>2, <1>3, <3>1, MissionsStay DEF Refuse
    <3>2. ASSUME NEW id \in os.pending, NEW s \in {"active", "failed"},
                 os' = [os EXCEPT !.pending = os.pending \ {id}, !.status = s]
          PROVE os' \in RunRecord /\ os'.cycle = os.cycle /\ os'.current = os.current /\ os'.pending \subseteq os'.asked
      BY <1>0, <3>2 DEF RunRecord, SettledRun, Final
    <3>3. CASE /\ Set(r, "completed") /\ UNCHANGED <<missions, runners>>
               /\ \E id \in os.pending, s \in {"active", "failed"} :
                    os' = [os EXCEPT !.pending = os.pending \ {id}, !.status = s]
      BY <1>0, <1>2, <3>2, <3>3, MissionsStay
    <3>. QED
      BY <2>1, <3>1, <3>3 DEF ResolveOSApproval
  <2>2. ASSUME Refuse(r) PROVE IInv'
    BY <1>0, <1>2, <1>3, <2>2, MissionsStay DEF Refuse
  <2>3. ASSUME NEW n \in DOMAIN missions,
               Pause(r, n) \/ Resume(r, n) \/ Retry(r, n) \/ \E granted \in BOOLEAN : DecideMission(r, n, granted)
        PROVE  IInv'
    <3>1. MissionsKept
      BY <2>3, OnMission
    <3>2. UNCHANGED os /\ runners' \subseteq DOMAIN missions
      BY <1>0, <2>3 DEF Pause, Resume, Retry, DecideMission, Refuse
    <3>3. Set(r, "completed") \/ Set(r, "failed")
      BY <2>3 DEF Pause, Resume, Retry, DecideMission, Refuse
    <3>. QED
      BY <1>2, <1>3, <3>1, <3>2, <3>3
  <2>4. ASSUME NEW s \in {"completed", "abort run", "abort mission", "decide"},
               s \in {"abort mission", "decide"} => os.current # 0,
               ask' = [ask EXCEPT ![r].step = s, ![r].mission = os.current], UNCHANGED <<os, missions, runners>>
        PROVE  IInv'
    <3>. DEFINE a == [ask[r] EXCEPT !.step = s, !.mission = os.current]
    <3>1. ask' = [ask EXCEPT ![r] = a]
      BY <2>4
    <3>2. ask[r] \in AskRecord /\ os.current \in Nat
      BY <1>0 DEF RunRecord
    <3>3. a \in AskRecord /\ a.step = s /\ a.mission = os.current /\ a.command = ask[r].command
      BY <3>2 DEF AskRecord, AskStep
    <3>. HIDE DEF a
    <3>4. a.step # "idle" => a.command \in Command
      BY <1>0, <1>1, <3>3 DEF RequestInv
    <3>5. a.step \in {"abort mission", "decide"} => a.mission # 0
      BY <2>4, <3>3
    <3>6. /\ commands' \in [Command -> {"unknown", "running", "completed", "failed"}]
          /\ runs' \in [Command -> Nat] /\ \A c \in Command : CommandInv(c)'
      BY <1>0, <1>1 DEF TypeInv, CommandInv
    <3>. QED
      BY <1>0, <1>1, <1>3, <2>4, <3>1, <3>3, <3>4, <3>5, <3>6, OneRequest, MissionsStay
  <2>5. CASE /\ ask' = [ask EXCEPT ![r].step = IF os.status \in Final THEN "completed"
                                               ELSE IF os.current = 0 THEN "abort run"
                                               ELSE "abort mission",
                                   ![r].mission = os.current]
             /\ UNCHANGED <<os, missions, runners>>
    <3>1. PICK s \in {"completed", "abort run", "abort mission"} :
            s = IF os.status \in Final THEN "completed"
                ELSE IF os.current = 0 THEN "abort run" ELSE "abort mission"
      OBVIOUS
    <3>. QED
      BY <2>4, <2>5, <3>1
  <2>6. CASE /\ IF os.status = "waiting_approval" /\ os.current # 0 /\ missions[os.current].pending
                THEN ask' = [ask EXCEPT ![r].step = "decide", ![r].mission = os.current]
                ELSE Set(r, "failed")
             /\ UNCHANGED <<os, missions, runners>>
    BY <2>2, <2>4, <2>6 DEF Refuse
  <2>. QED
    BY <1>9, <2>1, <2>2, <2>3, <2>5, <2>6 DEF CarryOut
<1>. QED
  BY <1>5, <1>6, <1>7, <1>8, <1>9

-----------------------------------------------------------------------------
(* The whole *)

\* Nothing has begun.
LEMMA Initially == OSInit => IInv
<1>. SUFFICES ASSUME OSInit PROVE IInv
  OBVIOUS
<1>1. TypeInv
  <2>1. os \in RunRecord /\ os.current = 0 /\ os.pending = os.asked
    BY OperationsAssumption DEF OSInit, RunRecord
  <2>2. missions \in Seq(MissionRecord) /\ 0 <= Len(missions)
    BY DEF OSInit
  <2>3. ask \in [Request -> AskRecord]
    BY DEF OSInit, Idle, AskRecord, AskStep
  <2>. QED
    BY <2>1, <2>2, <2>3 DEF OSInit, TypeInv, Step
<1>2. CyclesInv
  <2>1. Counting = {} /\ os.cycle = 0
    BY DEF OSInit, Counting
  <2>2. Cardinality(Counting) = 0 /\ Cardinality(Driver) \in Nat
    BY <2>1, Finite, FS_EmptySet, FS_CardinalityType
  <2>. QED
    BY <2>1, <2>2, Finite DEF CyclesInv
<1>3. \A d \in Driver : DriverInv(d)
  BY DEF OSInit, DriverInv
<1>4. ASSUME NEW r \in Request PROVE RequestInv(r)
  <2>1. ask[r].step = "idle" /\ ask[r].mission = 0 /\ missions = << >>
    BY DEF OSInit, Idle
  <2>2. 0 <= Len(<< >>)
    OBVIOUS
  <2>. QED
    BY <2>1, <2>2 DEF RequestInv
<1>5. \A n \in DOMAIN missions : MissionInv(n)
  BY DEF OSInit
<1>6. \A c \in Command : CommandInv(c)
  BY DEF OSInit, CommandInv
<1>. QED
  BY <1>1, <1>2, <1>3, <1>4, <1>5, <1>6 DEF IInv

\* Every step preserves the invariant.
LEMMA OSInvariance == IInv /\ [OSNext]_osVars => IInv'
<1>. SUFFICES ASSUME IInv, [OSNext]_osVars PROVE IInv'
  OBVIOUS
<1>1. CASE \E d \in Driver : Launch(d) \/ Drive(d) \/ RunThrows(d) \/ DriverDies(d)
  BY <1>1, QuietSteps, CreateKeeps, AdoptKeeps, StartKeeps DEF Drive
<1>2. CASE \E n \in DOMAIN missions : Mission(n)
  BY <1>2, MissionSteps
<1>3. CASE \E r \in Request : Serve(r) \/ RequestDies(r) \/ \E order \in Orders, c \in Command : Submit(r, order, c)
  BY <1>3, CommandSteps, ServeSteps DEF Serve
<1>4. CASE UNCHANGED osVars
  BY <1>4 DEF osVars, IInv, TypeInv, CyclesInv, Counting, DriverInv, RequestInv, MissionInv, CommandInv
<1>. QED
  BY <1>1, <1>2, <1>3, <1>4 DEF OSNext

\* What an organization run keeps has its types, and its cycle stays within
\* max_cycles and one increment for each driver that is counting.
THEOREM OSTypeCorrect == OSSpec => []OSTypeOK
<1>1. IInv => OSTypeOK
  <2>. SUFFICES ASSUME IInv PROVE OSTypeOK
    OBVIOUS
  <2>1. TypeInv /\ CyclesInv
    BY DEF IInv
  <2>2. os.cycle < MaxCycles + Cardinality(Driver)
    <3>1. os.cycle \in Nat /\ Cardinality(Counting) \in Nat /\ Cardinality(Driver) \in Nat /\ MaxCycles \in Nat
      BY <2>1, Finite, Counted DEF TypeInv, RunRecord
    <3>. QED
      BY <2>1, <3>1 DEF CyclesInv
  <2>3. os.current \in 0..Len(missions)
    <3>1. os.current \in Nat /\ os.current <= Len(missions) /\ Len(missions) \in Nat
      BY <2>1 DEF TypeInv, RunRecord
    <3>. QED
      BY <3>1
  <2>4. \A n \in DOMAIN missions : missions[n] \in MissionRecord
    BY <2>1 DEF TypeInv
  <2>5. \A n \in DOMAIN missions :
          /\ missions[n].status \in {"planned", "active", "waiting_approval"} \cup Ended
          /\ missions[n].paused \in BOOLEAN /\ missions[n].pending \in BOOLEAN
    BY <2>4 DEF MissionRecord, MissionStatus
  <2>. QED
    BY <2>1, <2>2, <2>3, <2>5 DEF TypeInv, OSTypeOK, RunRecord
<1>. QED
  BY Initially, OSInvariance, <1>1, PTL DEF OSSpec

\* A command is carried out once, however often it is sent and whoever dies
\* (control-plane.mjs: command).
THEOREM CommandsOnce == OSSpec => []CommandsRunOnce
<1>1. IInv => CommandsRunOnce
  BY DEF IInv, CommandInv, CommandsRunOnce
<1>. QED
  BY Initially, OSInvariance, <1>1, PTL DEF OSSpec

\* Unless somebody died, the id of the next mission is free, or a driver is about
\* to adopt the mission that has it (autonomous-os.mjs: createNextMission).
THEOREM MissionsFree == OSSpec => []NextMissionIsFree
<1>1. IInv => NextMissionIsFree
  <2>. SUFFICES ASSUME IInv, deaths = 0, Exists(MissionId(os.cycle + 1, os.blame))
                PROVE  \E d \in Driver : at[d] = "adopt"
    BY DEF NextMissionIsFree
  <2>1. PICK n \in DOMAIN missions : missions[n].id = <<os.cycle + 1, os.blame>>
    BY DEF Exists, MissionId
  <2>2. os.cycle \in Nat /\ missions[n].id[1] = os.cycle + 1
    BY <2>1 DEF IInv, TypeInv, RunRecord
  <2>3. MissionInv(n)
    BY DEF IInv
  <2>. QED
    BY <2>2, <2>3 DEF MissionInv
<1>. QED
  BY Initially, OSInvariance, <1>1, PTL DEF OSSpec

\* What a step writes of the run
LEMMA Unstranded ==
  ASSUME IInv, [OSNext]_osVars, os'.status = "active", os'.current = 0, os'.cycle >= MaxCycles
  PROVE  os = os' \/ \E r \in Request : ask[r].step = "approved"
<1>0. os \in RunRecord /\ os.cycle \in Nat /\ MaxCycles \in Nat /\ missions \in Seq(MissionRecord)
  BY Finite DEF IInv, TypeInv, RunRecord
<1>1. ASSUME NEW d \in Driver, Adopt(d) PROVE FALSE
  <2>1. PICK n \in DOMAIN missions : my[d] = <<n>>
    BY <1>1 DEF IInv, DriverInv, Adopt
  <2>2. os'.current = n
    BY <1>0, <1>1, <2>1 DEF Adopt, RunRecord
  <2>3. n # 0
    BY <1>0, <2>1
  <2>. QED
    BY <2>2, <2>3
<1>2. ASSUME NEW d \in Driver, Wait(d) \/ Complete(d) PROVE FALSE
  BY <1>0, <1>2 DEF Wait, Complete, RunRecord
<1>3. ASSUME NEW d \in Driver, Review(d) PROVE FALSE
  <2>. DEFINE b == IF my[d][3] = "nothing" THEN os.blame ELSE os.blame + 1
              after == [os EXCEPT !.current = 0, !.blame = b]
  <2>1. DOMAIN after = DOMAIN os /\ after.cycle = os.cycle
    BY <1>0 DEF RunRecord
  <2>2. \/ MayRetry(CouncilForFailure(my[d][3])) /\ os' = [after EXCEPT !.status = "active"]
        \/ os' = Asking(after, <<os.cycle, my[d]>>)
        \/ os' = [after EXCEPT !.status = "failed"]
    BY <1>3 DEF Review
  <2>3. "status" \in DOMAIN after /\ "cycle" \in DOMAIN after
    BY <1>0, <2>1 DEF RunRecord
  <2>. HIDE DEF after, b
  <2>4. CASE MayRetry(CouncilForFailure(my[d][3])) /\ os' = [after EXCEPT !.status = "active"]
    <3>1. os'.cycle = os.cycle /\ os.cycle < MaxCycles
      BY <2>1, <2>3, <2>4 DEF MayRetry
    <3>. QED
      BY <1>0, <3>1
  <2>5. CASE os' = Asking(after, <<os.cycle, my[d]>>)
    BY <2>3, <2>5 DEF Asking
  <2>6. CASE os' = [after EXCEPT !.status = "failed"]
    BY <2>3, <2>6
  <2>. QED
    BY <2>2, <2>4, <2>5, <2>6
<1>4. ASSUME NEW r \in Request, ResolveOSApproval(r), os' # os PROVE FALSE
  <2>1. PICK id \in os.pending :
          \/ os' = [os EXCEPT !.pending = os.pending \ {id},
                              !.status = IF os.cycle < MaxCycles THEN "active" ELSE "failed"]
          \/ os' = [os EXCEPT !.pending = os.pending \ {id}, !.status = "failed"]
    BY <1>4 DEF ResolveOSApproval, Refuse
  <2>2. os'.cycle = os.cycle /\ (os'.status = "active" => os.cycle < MaxCycles)
    BY <1>0, <2>1 DEF RunRecord
  <2>. QED
    BY <1>0, <2>2
<1>5. ASSUME NEW r \in Request, AbortRun(r) PROVE FALSE
  BY <1>0, <1>5 DEF AbortRun, RunRecord
<1>6. ASSUME NEW r \in Request, SettleRun(r) PROVE ask[r].step = "approved"
  BY <1>0, <1>6 DEF SettleRun, RunRecord
<1>7. ASSUME NEW d \in Driver, Launch(d) \/ Drive(d) \/ RunThrows(d) \/ DriverDies(d) PROVE os' = os
  <2>1. Adopt(d) \/ Wait(d) \/ Complete(d) \/ Review(d) \/ UNCHANGED os
    BY <1>7 DEF Launch, Drive, RunThrows, DriverDies, Look, LeaveRun, Plan, Create, Read, Start, Run, Report
  <2>. QED
    BY <1>1, <1>2, <1>3, <2>1
<1>8. ASSUME NEW n \in DOMAIN missions, Mission(n) PROVE os' = os
  BY <1>8 DEF Mission, MissionAsks, MissionEnds, RunnerLeaves
<1>9. ASSUME NEW r \in Request, CarryOut(r) PROVE os' = os
  <2>1. UNCHANGED os \/ ResolveOSApproval(r)
    BY <1>9 DEF CarryOut, Refuse, DecideMission, Pause, Resume, Retry
  <2>. QED
    BY <1>4, <2>1
<1>10. ASSUME NEW r \in Request, Serve(r) \/ RequestDies(r) \/ \E order \in Orders, c \in Command : Submit(r, order, c)
       PROVE  os' = os \/ ask[r].step = "approved"
  <2>1. CarryOut(r) \/ AbortRun(r) \/ SettleRun(r) \/ UNCHANGED os
    BY <1>10 DEF Serve, Begin, RecordOutcome, AbortMission, ResolveMission, RequestDies, Submit
  <2>. QED
    BY <1>5, <1>6, <1>9, <2>1
<1>. QED
  BY <1>7, <1>8, <1>10 DEF OSNext, osVars

\* No step leaves a run active without a mission when no cycle is left, but the
\* approval of a mission, which looks at nothing (autonomous-os.mjs:
\* resolveMissionApproval).
THEOREM NobodyStranded == OSSpec => NobodyIsStranded
<1>1. IInv /\ [OSNext]_osVars =>
        [(os'.status = "active" /\ os'.current = 0 /\ os'.cycle >= MaxCycles) =>
           (os = os' \/ \E r \in Request : ask[r].step = "approved")]_osVars
  BY Unstranded
<1>. QED
  BY Initially, OSInvariance, <1>1, PTL DEF OSSpec, NobodyIsStranded

-----------------------------------------------------------------------------
(* What the gate of a run rests on *)

\* A mission that is completed waits for no approval, and a driver that is about
\* to complete the run has found its mission completed.
DoneInv ==
  /\ \A n \in DOMAIN missions : missions[n].status = "completed" => ~missions[n].pending
  /\ \A d \in Driver : at[d] = "complete" =>
       \E n \in DOMAIN missions : my[d][1] = n /\ missions[n].status = "completed"
  /\ GateIsEarned

\* Nothing undoes a mission that is completed.
DoneStays ==
  /\ DOMAIN missions \subseteq DOMAIN missions'
  /\ \A n \in DOMAIN missions : missions[n].status = "completed" => missions'[n].status = "completed"
  /\ \A n \in DOMAIN missions' : missions'[n].status = "completed" => ~missions'[n].pending

LEMMA DoneChanged ==
  ASSUME DoneInv, NEW n \in DOMAIN missions, NEW m, missions' = [missions EXCEPT ![n] = m],
         missions[n].status = "completed" => m.status = "completed",
         m.status = "completed" => ~m.pending
  PROVE  DoneStays
  BY DEF DoneInv, DoneStays

LEMMA DoneUnchanged == DoneInv /\ missions' = missions => DoneStays
  BY DEF DoneInv, DoneStays

LEMMA DoneByMissions ==
  ASSUME IInv, DoneInv, NEW n \in DOMAIN missions, Mission(n)
  PROVE  DoneStays
<1>1. missions[n] \in MissionRecord
  BY DEF IInv, TypeInv
<1>2. CASE MissionAsks(n)
  <2>. DEFINE k == missions[n].asks + 1
              m == [missions[n] EXCEPT !.status = "waiting_approval", !.pending = TRUE, !.asks = k]
  <2>1. missions' = [missions EXCEPT ![n] = m] /\ missions[n].status = "active"
    BY <1>2 DEF MissionAsks
  <2>2. m.status = "waiting_approval"
    BY <1>1 DEF MissionRecord
  <2>. HIDE DEF m
  <2>. QED
    BY <2>1, <2>2, DoneChanged
<1>3. CASE MissionEnds(n)
  <2>1. PICK m : /\ missions' = [missions EXCEPT ![n] = m] /\ missions[n].status = "active"
                 /\ \/ m = [missions[n] EXCEPT !.status = "completed"] /\ ~missions[n].pending
                    \/ \E f \in Findings : m = [missions[n] EXCEPT !.status = "ended", !.found = f]
    BY <1>3 DEF MissionEnds
  <2>2. m.status = "completed" => ~m.pending
    BY <1>1, <2>1 DEF MissionRecord
  <2>. QED
    BY <2>1, <2>2, DoneChanged
<1>4. CASE RunnerLeaves(n)
  BY <1>4, DoneUnchanged DEF RunnerLeaves
<1>. QED
  BY <1>2, <1>3, <1>4 DEF Mission

\* What operators do to a mission: a decision finds an approval pending, and the
\* rest leaves a mission that is completed alone, but for its being paused.
LEMMA DoneByOperators ==
  ASSUME IInv, DoneInv, NEW r \in Request, NEW n \in DOMAIN missions
  PROVE  /\ \A granted \in BOOLEAN : missions[n].pending /\ missions' = Decided(n, granted) => DoneStays
         /\ missions' = Aborted(n) => DoneStays
         /\ Pause(r, n) \/ Resume(r, n) \/ Retry(r, n) => DoneStays
         /\ \A granted \in BOOLEAN : DecideMission(r, n, granted) => DoneStays
<1>0. missions[n] \in MissionRecord
  BY DEF IInv, TypeInv
<1>1. missions[n].status = "completed" => ~missions[n].pending
  BY DEF DoneInv
<1>2. ASSUME NEW granted \in BOOLEAN, missions[n].pending, missions' = Decided(n, granted) PROVE DoneStays
  <2>. DEFINE s == IF granted THEN "active" ELSE "ended"
              f == IF granted \/ missions[n].found = "critical" THEN missions[n].found ELSE "failures"
              m == [missions[n] EXCEPT !.pending = FALSE, !.status = s, !.found = f]
  <2>1. missions' = [missions EXCEPT ![n] = m]
    BY <1>2 DEF Decided
  <2>2. s # "completed"
    OBVIOUS
  <2>. HIDE DEF s, f
  <2>3. m.status = s
    BY <1>0 DEF MissionRecord
  <2>. HIDE DEF m
  <2>. QED
    BY <1>1, <1>2, <2>1, <2>2, <2>3, DoneChanged
<1>3. ASSUME missions' = Aborted(n) PROVE DoneStays
  <2>1. CASE missions[n].status \in Ended
    BY <1>3, <2>1, DoneUnchanged DEF Aborted
  <2>2. CASE missions[n].status \notin Ended
    <3>. DEFINE m == [missions[n] EXCEPT !.status = "aborted"]
    <3>1. missions' = [missions EXCEPT ![n] = m]
      BY <1>3, <2>2 DEF Aborted
    <3>2. m.status = "aborted"
      BY <1>0 DEF MissionRecord
    <3>3. missions[n].status # "completed"
      BY <2>2 DEF Ended
    <3>. HIDE DEF m
    <3>. QED
      BY <3>1, <3>2, <3>3, DoneChanged
  <2>. QED
    BY <2>1, <2>2
<1>4. ASSUME Pause(r, n) PROVE DoneStays
  <2>. DEFINE p == missions[n].status \notin Ended \/ missions[n].paused
              m == [missions[n] EXCEPT !.paused = p]
  <2>1. missions' = [missions EXCEPT ![n] = m]
    BY <1>4 DEF Pause
  <2>. HIDE DEF p
  <2>2. m.status = missions[n].status /\ m.pending = missions[n].pending
    BY <1>0 DEF MissionRecord
  <2>. HIDE DEF m
  <2>. QED
    BY <1>1, <2>1, <2>2, DoneChanged
<1>5. ASSUME Resume(r, n) PROVE DoneStays
  <2>1. CASE missions[n].status \in Ended
    BY <1>5, <2>1, DoneUnchanged DEF Resume
  <2>2. CASE missions[n].status \notin Ended
    <3>. DEFINE s == IF missions[n].status = "planned" THEN "active" ELSE missions[n].status
                m == [missions[n] EXCEPT !.paused = FALSE, !.status = s]
    <3>1. missions' = [missions EXCEPT ![n] = m]
      BY <1>5, <2>2 DEF Resume
    <3>2. s # "completed" /\ missions[n].status # "completed"
      BY <2>2 DEF Ended
    <3>. HIDE DEF s
    <3>3. m.status = s
      BY <1>0 DEF MissionRecord
    <3>. HIDE DEF m
    <3>. QED
      BY <3>1, <3>2, <3>3, DoneChanged
  <2>. QED
    BY <2>1, <2>2
<1>6. ASSUME Retry(r, n) PROVE DoneStays
  <2>1. CASE missions' = missions
    BY <2>1, DoneUnchanged
  <2>2. CASE missions' # missions
    <3>. DEFINE m == [missions[n] EXCEPT !.status = "active", !.paused = FALSE]
    <3>1. missions' = [missions EXCEPT ![n] = m] /\ missions[n].status # "completed"
      BY <1>6, <2>2 DEF Retry, Refuse
    <3>2. m.status = "active"
      BY <1>0 DEF MissionRecord
    <3>. HIDE DEF m
    <3>. QED
      BY <3>1, <3>2, DoneChanged
  <2>. QED
    BY <2>1, <2>2
<1>7. ASSUME NEW granted \in BOOLEAN, DecideMission(r, n, granted) PROVE DoneStays
  BY <1>2, <1>7, DoneUnchanged DEF DecideMission, Refuse
<1>. QED
  BY <1>2, <1>3, <1>4, <1>5, <1>6, <1>7

LEMMA DoneByRequests ==
  ASSUME IInv, DoneInv, NEW r \in Request,
         Serve(r) \/ RequestDies(r) \/ \E order \in Orders, c \in Command : Submit(r, order, c)
  PROVE  DoneStays
<1>1. CASE CarryOut(r)
  <2>1. \/ UNCHANGED missions
        \/ \E n \in DOMAIN missions :
             \/ \E granted \in BOOLEAN : DecideMission(r, n, granted)
             \/ Pause(r, n) \/ Resume(r, n) \/ Retry(r, n)
    BY <1>1 DEF CarryOut, ResolveOSApproval, Refuse
  <2>. QED
    BY <2>1, DoneUnchanged, DoneByOperators
<1>2. CASE AbortMission(r)
  <2>1. ask[r].mission \in DOMAIN missions
    BY <1>2, RunFacts DEF AbortMission, RequestInv
  <2>. QED
    BY <1>2, <2>1, DoneByOperators DEF AbortMission
<1>3. CASE ResolveMission(r)
  <2>1. ask[r].mission \in DOMAIN missions
    BY <1>3, RunFacts DEF ResolveMission, RequestInv
  <2>. QED
    BY <1>3, <2>1, DoneUnchanged, DoneByOperators DEF ResolveMission
<1>4. CASE UNCHANGED missions
  BY <1>4, DoneUnchanged
<1>. QED
  BY <1>1, <1>2, <1>3, <1>4 DEF Serve, Begin, RecordOutcome, AbortRun, SettleRun, RequestDies, Submit

LEMMA DoneByDrivers ==
  ASSUME IInv, DoneInv, NEW d \in Driver, Launch(d) \/ Drive(d) \/ RunThrows(d) \/ DriverDies(d)
  PROVE  DoneStays
<1>0. missions \in Seq(MissionRecord)
  BY DEF IInv, TypeInv
<1>1. CASE Create(d) /\ missions' # missions
  <2>1. missions' = Append(missions, NewMission(my[d]))
    BY <1>1 DEF Create
  <2>2. NewMission(my[d]).status = "planned"
    BY DEF NewMission
  <2>3. /\ DOMAIN missions' = DOMAIN missions \cup {Len(missions) + 1}
        /\ \A k \in DOMAIN missions : missions'[k] = missions[k]
        /\ missions'[Len(missions) + 1] = NewMission(my[d])
    BY <1>0, <2>1
  <2>. QED
    BY <2>2, <2>3 DEF DoneInv, DoneStays
<1>2. CASE Start(d) /\ missions' # missions
  <2>1. PICK n \in DOMAIN missions : my[d] = <<n>>
    BY <1>2 DEF IInv, DriverInv, Start
  <2>. DEFINE m == [missions[n] EXCEPT !.status = "active"]
  <2>2. missions' = [missions EXCEPT ![n] = m] /\ missions[n].status = "planned"
    BY <1>2, <2>1 DEF Start
  <2>3. m.status = "active"
    BY <1>0 DEF MissionRecord
  <2>. HIDE DEF m
  <2>. QED
    BY <2>2, <2>3, DoneChanged
<1>3. CASE missions' = missions
  BY <1>3, DoneUnchanged
<1>. QED
  BY <1>1, <1>2, <1>3
     DEF Launch, Drive, RunThrows, DriverDies, Look, LeaveRun, Plan, Adopt, Read, Run, Wait, Report, Complete, Review

\* The run completes when its driver has found a mission completed, and no other
\* step completes it or passes its gate.
LEMMA RunKeeps ==
  ASSUME IInv, [OSNext]_osVars
  PROVE  (os'.status = "completed" \/ os'.gate) =>
           (os.status = "completed" \/ os.gate \/ \E d \in Driver : at[d] = "complete")
<1>0. os \in RunRecord
  BY DEF IInv, TypeInv
<1>. DEFINE Kept == (os'.status = "completed" \/ os'.gate) => (os.status = "completed" \/ os.gate)
<1>1. ASSUME NEW d \in Driver, Adopt(d) \/ Wait(d) PROVE Kept
  BY <1>0, <1>1 DEF Adopt, Wait, RunRecord
<1>2. ASSUME NEW d \in Driver, Review(d) PROVE Kept
  <2>. DEFINE b == IF my[d][3] = "nothing" THEN os.blame ELSE os.blame + 1
              after == [os EXCEPT !.current = 0, !.blame = b]
  <2>1. DOMAIN after = DOMAIN os /\ after.gate = os.gate
    BY <1>0 DEF RunRecord
  <2>2. \/ os' = [after EXCEPT !.status = "active"]
        \/ os' = Asking(after, <<os.cycle, my[d]>>)
        \/ os' = [after EXCEPT !.status = "failed"]
    BY <1>2 DEF Review
  <2>3. {"status", "gate", "asked", "pending"} \subseteq DOMAIN after
    BY <1>0, <2>1 DEF RunRecord
  <2>. HIDE DEF after, b
  <2>4. CASE os' = Asking(after, <<os.cycle, my[d]>>)
    BY <2>1, <2>3, <2>4 DEF Asking
  <2>5. CASE os' = [after EXCEPT !.status = "active"] \/ os' = [after EXCEPT !.status = "failed"]
    BY <2>1, <2>3, <2>5
  <2>. QED
    BY <2>2, <2>4, <2>5
<1>3. ASSUME NEW r \in Request, ResolveOSApproval(r), os' # os PROVE Kept
  <2>1. PICK id \in os.pending :
          \/ os' = [os EXCEPT !.pending = os.pending \ {id},
                              !.status = IF os.cycle < MaxCycles THEN "active" ELSE "failed"]
          \/ os' = [os EXCEPT !.pending = os.pending \ {id}, !.status = "failed"]
    BY <1>3 DEF ResolveOSApproval, Refuse
  <2>. QED
    BY <1>0, <2>1 DEF RunRecord
<1>4. ASSUME NEW r \in Request, AbortRun(r) \/ SettleRun(r) PROVE Kept
  BY <1>0, <1>4 DEF AbortRun, SettleRun, RunRecord
<1>5. ASSUME NEW d \in Driver, Launch(d) \/ Drive(d) \/ RunThrows(d) \/ DriverDies(d)
      PROVE  Kept \/ at[d] = "complete"
  <2>1. Adopt(d) \/ Wait(d) \/ Complete(d) \/ Review(d) \/ UNCHANGED os
    BY <1>5 DEF Launch, Drive, RunThrows, DriverDies, Look, LeaveRun, Plan, Create, Read, Start, Run, Report
  <2>2. Complete(d) => at[d] = "complete"
    BY DEF Complete
  <2>3. UNCHANGED os => Kept
    OBVIOUS
  <2>. HIDE DEF Kept
  <2>. QED
    BY <1>1, <1>2, <2>1, <2>2, <2>3
<1>6. ASSUME NEW n \in DOMAIN missions, Mission(n) PROVE Kept
  BY <1>6 DEF Mission, MissionAsks, MissionEnds, RunnerLeaves
<1>7. ASSUME NEW r \in Request, Serve(r) \/ RequestDies(r) \/ \E order \in Orders, c \in Command : Submit(r, order, c)
      PROVE  Kept
  <2>1. ResolveOSApproval(r) \/ AbortRun(r) \/ SettleRun(r) \/ UNCHANGED os
    BY <1>7 DEF Serve, Begin, RecordOutcome, AbortMission, ResolveMission, RequestDies, Submit,
                CarryOut, Refuse, DecideMission, Pause, Resume, Retry
  <2>2. UNCHANGED os => Kept
    OBVIOUS
  <2>. HIDE DEF Kept
  <2>. QED
    BY <1>3, <1>4, <2>1, <2>2
<1>8. UNCHANGED osVars => Kept
  BY DEF osVars
<1>. QED
  BY <1>5, <1>6, <1>7, <1>8 DEF OSNext

\* Who comes to complete the run has just looked at its mission.
LEMMA Completers ==
  ASSUME IInv, [OSNext]_osVars, NEW d \in Driver, at'[d] = "complete"
  PROVE  \/ at[d] = "complete" /\ my'[d] = my[d]
         \/ \E n \in DOMAIN missions : /\ my'[d][1] = n /\ missions[n].status = "completed"
                                       /\ UNCHANGED missions
<1>0. at \in [Driver -> Step] /\ DOMAIN my = Driver
  BY DEF IInv, TypeInv
<1>1. ASSUME NEW e \in Driver, NEW step, NEW what, GoesTo(e, step, what), step # "complete"
      PROVE  at[d] = "complete" /\ my'[d] = my[d]
  BY <1>0, <1>1 DEF GoesTo
<1>2. ASSUME NEW e \in Driver, Report(e)
      PROVE  \/ at[d] = "complete" /\ my'[d] = my[d]
             \/ \E n \in DOMAIN missions : /\ my'[d][1] = n /\ missions[n].status = "completed"
                                           /\ UNCHANGED missions
  <2>1. PICK n \in DOMAIN missions : my[e] = <<n>>
    BY <1>2 DEF IInv, DriverInv, Report
  <2>2. /\ UNCHANGED missions
        /\ at' = [at EXCEPT ![e] = IF missions[n].status = "completed" THEN "complete" ELSE "review"]
        /\ my' = [my EXCEPT ![e] = <<n, missions[n].status, missions[n].found>>]
    BY <1>2, <2>1 DEF Report, GoesTo, Succeeded
  <2>3. CASE e = d
    <3>1. missions[n].status = "completed"
      BY <1>0, <2>2, <2>3
    <3>2. my'[d][1] = n
      BY <1>0, <2>2, <2>3
    <3>. QED
      BY <2>2, <3>1, <3>2
  <2>4. CASE e # d
    BY <1>0, <2>2, <2>4
  <2>. QED
    BY <2>3, <2>4
<1>3. UNCHANGED <<at, my>> => at[d] = "complete" /\ my'[d] = my[d]
  OBVIOUS
<1>4. ASSUME NEW e \in Driver, Launch(e) \/ Drive(e) \/ RunThrows(e) \/ DriverDies(e), ~Report(e)
      PROVE  \E step \in Step \ {"complete"}, what \in {my'[e]} : GoesTo(e, step, what)
  <2>1. ASSUME NEW step \in Step \ {"complete"}, NEW what, GoesTo(e, step, what)
        PROVE  \E s \in Step \ {"complete"}, w \in {my'[e]} : GoesTo(e, s, w)
    <3>1. my'[e] = what
      BY <1>0, <2>1 DEF GoesTo
    <3>. QED
      BY <2>1, <3>1
  <2>2. {"off", "look", "leave", "plan", "create", "adopt", "read", "start", "run", "wait", "report", "review"}
           \subseteq Step \ {"complete"}
    BY DEF Step
  <2>3. CASE Launch(e) \/ Look(e) \/ LeaveRun(e) \/ Plan(e) \/ RunThrows(e) \/ DriverDies(e)
    BY <2>1, <2>2, <2>3 DEF Launch, Look, LeaveRun, Plan, RunThrows, DriverDies, Stop
  <2>4. CASE Create(e) \/ Adopt(e) \/ Start(e) \/ Run(e) \/ Wait(e) \/ Complete(e) \/ Review(e)
    BY <2>1, <2>2, <2>4 DEF Create, Adopt, Start, Run, Wait, Complete, Review, Stop
  <2>5. CASE Read(e)
    BY <2>1, <2>2, <2>5 DEF Read, Stop
  <2>. QED
    BY <1>4, <2>3, <2>4, <2>5 DEF Drive
<1>5. CASE \E e \in Driver : Launch(e) \/ Drive(e) \/ RunThrows(e) \/ DriverDies(e)
  BY <1>1, <1>2, <1>4, <1>5
<1>6. CASE \E n \in DOMAIN missions : Mission(n)
  BY <1>3, <1>6 DEF Mission, MissionAsks, MissionEnds, RunnerLeaves
<1>7. CASE \E r \in Request : Serve(r) \/ RequestDies(r) \/ \E order \in Orders, c \in Command : Submit(r, order, c)
  BY <1>3, <1>7 DEF Serve, Begin, RecordOutcome, CarryOut, AbortMission, AbortRun, ResolveMission, SettleRun,
                    RequestDies, Submit
<1>8. CASE UNCHANGED osVars
  BY <1>3, <1>8 DEF osVars
<1>. QED
  BY <1>5, <1>6, <1>7, <1>8 DEF OSNext

LEMMA DoneNext == IInv /\ DoneInv /\ [OSNext]_osVars => DoneInv'
<1>. SUFFICES ASSUME IInv, DoneInv, [OSNext]_osVars PROVE DoneInv'
  OBVIOUS
<1>1. DoneStays
  <2>1. UNCHANGED osVars => missions' = missions
    BY DEF osVars
  <2>. QED
    BY <2>1, DoneUnchanged, DoneByDrivers, DoneByMissions, DoneByRequests DEF OSNext
<1>2. ASSUME NEW n \in DOMAIN missions, missions[n].status = "completed"
      PROVE  n \in DOMAIN missions' /\ missions'[n].status = "completed"
  BY <1>1, <1>2 DEF DoneStays
<1>3. ASSUME NEW d \in Driver, at'[d] = "complete"
      PROVE  \E n \in DOMAIN missions' : my'[d][1] = n /\ missions'[n].status = "completed"
  <2>1. \E n \in DOMAIN missions : my'[d][1] = n /\ missions[n].status = "completed"
    BY <1>3, Completers DEF DoneInv
  <2>. QED
    BY <1>2, <2>1
<1>4. GateIsEarned'
  <2>. SUFFICES ASSUME os'.status = "completed" \/ os'.gate
                PROVE  \E n \in DOMAIN missions' : missions'[n].status = "completed"
    BY DEF GateIsEarned
  <2>1. \E n \in DOMAIN missions : missions[n].status = "completed"
    BY RunKeeps DEF DoneInv, GateIsEarned
  <2>. QED
    BY <1>2, <2>1
<1>. QED
  BY <1>1, <1>3, <1>4 DEF DoneInv, DoneStays

\* An organization run that is completed, or has its quality gate passed, has a
\* mission that was completed and is so still, whatever its operators and its other
\* drivers have done since (autonomous-os.mjs: reconcile).
THEOREM RunGate == OSSpec => []GateIsEarned
<1>1. OSInit => DoneInv
  BY DEF OSInit, DoneInv, GateIsEarned
<1>2. DoneInv => GateIsEarned
  BY DEF DoneInv
<1>. QED
  BY Initially, OSInvariance, <1>1, <1>2, DoneNext, PTL DEF OSSpec
=============================================================================

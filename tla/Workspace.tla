------------------------------ MODULE Workspace -------------------------------
(***************************************************************************)
(* The worktree of a run and its record: runtime/workspace/engine.mjs, with  *)
(* the calls that executeNode of runtime/kernel.mjs makes around an adapter   *)
(* and those of the operator (MCP tools and command line).                    *)
(*                                                                           *)
(* An invoker is a kernel's invocation of an adapter, one after the other.    *)
(* An adapter must not touch the worktree: it proposes actions, an operator   *)
(* approves and executes them.  Nobody locks anything: a call reads the       *)
(* record, works in the tree, and writes the record back.                     *)
(*                                                                           *)
(* The content of the tree is the set of edits that were made since it was    *)
(* checked out: <<0, i>> by the adapter of invoker i, <<p, k>> by the k-th    *)
(* action of proposal p.  Different adapters make different edits.            *)
(***************************************************************************)
EXTENDS Naturals, FiniteSets

CONSTANTS
  Invoker, Operator,
  ActionCount,     \* the actions of a proposal
  MaxProposals,    \* bound on the proposals
  MaxCalls,        \* bound on the calls of operators
  MaxFaults        \* bound on the processes that die

ASSUME WorkspaceAssumption ==
  /\ ActionCount \in Nat \ {0} /\ MaxProposals \in Nat /\ MaxCalls \in Nat
  /\ MaxFaults \in Nat
  /\ Invoker \cap Operator = {}

Actor == Invoker \cup Operator

VARIABLES
  present,     \* the worktree exists
  edits,       \* what was changed in it
  record,      \* state.json
  pc,          \* pc[a]: the step that a is at, or "idle"
  seen,        \* seen[i]: the edits that invoker i saw before its adapter ran
  read,        \* read[o]: the pending proposal of the record that operator o has read
  applied,     \* applied[o]: the actions that o has applied
  proposals,   \* how many proposals were made
  approved,    \* the proposals that an operator approved (history)
  executed,    \* those with a receipt (history)
  repeated,    \* a proposal was executed once more (history)
  excused,     \* two operators worked at the same time, or one died (history)
  abandoned,   \* invokers that died and left their edits (history)
  calls, faults

tree == <<present, edits>>
counters == <<calls, faults>>
history == <<approved, executed, repeated, excused, abandoned>>
vars == <<tree, record, pc, seen, read, applied, proposals, history, counters>>

Adapters(i) == <<0, i>>
Edit == {Adapters(i) : i \in Invoker} \cup ((1..MaxProposals) \X (1..ActionCount))

Status == {"none", "ready", "waiting_approval", "approved", "executed", "closed"}
Record == [status : Status, pending : 0..MaxProposals]

\* pending is 0 where the code has null.  That its decision is "approved" is
\* written with the status of that name, and with no other.
State(status, pending) == [status |-> status, pending |-> pending]
Missing == State("none", 0)
Ready == State("ready", 0)

InvokerStep == {"add", "record", "work", "rollback", "ready", "propose", "write proposal"}
OperatorStep == {"decide", "apply", "written", "rollback", "ready", "remove", "closed"}

TypeOK ==
  /\ present \in BOOLEAN /\ edits \subseteq Edit /\ record \in Record
  /\ pc \in [Actor -> {"idle"} \cup InvokerStep \cup OperatorStep]
  /\ seen \in [Invoker -> SUBSET Edit]
  /\ read \in [Operator -> 0..MaxProposals] /\ applied \in [Operator -> 0..ActionCount]
  /\ proposals \in 0..MaxProposals
  /\ approved \subseteq 1..MaxProposals /\ executed \subseteq 1..MaxProposals
  /\ repeated \in BOOLEAN /\ excused \in BOOLEAN /\ abandoned \subseteq Invoker
  /\ calls \in 0..MaxCalls /\ faults \in 0..MaxFaults

Init ==
  /\ present = FALSE /\ edits = {} /\ record = Missing
  /\ pc = [a \in Actor |-> "idle"] /\ seen = [i \in Invoker |-> {}]
  /\ read = [o \in Operator |-> 0] /\ applied = [o \in Operator |-> 0]
  /\ proposals = 0 /\ approved = {} /\ executed = {}
  /\ repeated = FALSE /\ excused = FALSE /\ abandoned = {} /\ calls = 0 /\ faults = 0

Goto(a, step) == pc' = [pc EXCEPT ![a] = step]

\* What a call has kept in its local variables is gone with it.
Forget(a) ==
  /\ seen' = IF a \in Invoker THEN [seen EXCEPT ![a] = {}] ELSE seen
  /\ read' = IF a \in Operator THEN [read EXCEPT ![a] = 0] ELSE read
  /\ applied' = IF a \in Operator THEN [applied EXCEPT ![a] = 0] ELSE applied

Leave(a) == Goto(a, "idle") /\ Forget(a)

-----------------------------------------------------------------------------
(* prepare: the worktree first, its record second *)

Prepare(i) ==
  /\ pc[i] = "idle" /\ record = Missing
  /\ Goto(i, "add")
  /\ UNCHANGED <<tree, record, seen, read, applied, proposals, history, counters>>

\* A worktree without a record is somebody else's, or what a crash has left.
AddWorktree(i) ==
  /\ pc[i] = "add"
  /\ IF present THEN Goto(i, "idle") /\ UNCHANGED tree
     ELSE present' = TRUE /\ edits' = {} /\ Goto(i, "record")
  /\ UNCHANGED <<record, seen, read, applied, proposals, history, counters>>

WriteRecord(i) ==
  /\ pc[i] = "record"
  /\ record' = Ready
  /\ Goto(i, "idle")
  /\ UNCHANGED <<tree, seen, read, applied, proposals, history, counters>>

-----------------------------------------------------------------------------
(* executeNode: where there is a record, prepare changes nothing.  If the node *)
(* can then not be claimed, nothing has happened.                              *)

BeforeInvocation(i) ==
  /\ pc[i] = "idle" /\ record # Missing /\ present
  /\ seen' = [seen EXCEPT ![i] = edits]
  /\ Goto(i, "work")
  /\ UNCHANGED <<tree, record, read, applied, proposals, history, counters>>

\* The adapter does what it must not, and what was not there before.
Mutate(i) ==
  /\ pc[i] = "work" /\ present
  /\ Adapters(i) \notin edits \cup seen[i]
  /\ edits' = edits \cup {Adapters(i)}
  /\ UNCHANGED <<present, record, pc, seen, read, applied, proposals, history, counters>>

\* Mutant of Unchanged: that there are changes is compared, not which.
SameStatus(i) == (edits = {}) <=> (seen[i] = {})

Unchanged(i) == edits = seen[i]

\* A result without actions, and an adapter that threw, end here too.
AfterInvocation(i) ==
  /\ pc[i] = "work"
  /\ \/ ~present /\ Goto(i, "idle")
     \/ present /\ Unchanged(i) /\ (Goto(i, "propose") \/ Goto(i, "idle"))
     \/ present /\ ~Unchanged(i) /\ Goto(i, "rollback")
  /\ Forget(i)
  /\ UNCHANGED <<tree, record, proposals, history, counters>>

ProposeActions(i) ==
  /\ pc[i] = "propose"
  /\ Goto(i, IF present /\ record.pending = 0 THEN "write proposal" ELSE "idle")
  /\ UNCHANGED <<tree, record, seen, read, applied, proposals, history, counters>>

\* What was written since the record was read is written over.
WriteProposal(i) ==
  /\ pc[i] = "write proposal" /\ proposals < MaxProposals
  /\ proposals' = proposals + 1
  /\ record' = State("waiting_approval", proposals')
  /\ Goto(i, "idle")
  /\ UNCHANGED <<tree, seen, read, applied, history, counters>>

-----------------------------------------------------------------------------
(* rollback: of an invocation that has changed something, of an execution that *)
(* has failed, or because the operator wants it                                *)

Reset(a) ==
  /\ pc[a] = "rollback"
  /\ IF present
     THEN edits' = {} /\ abandoned' = {} /\ Goto(a, "ready")
     ELSE Goto(a, "idle") /\ UNCHANGED <<edits, abandoned>>
  /\ Forget(a)
  /\ UNCHANGED <<present, record, proposals, approved, executed, repeated, excused, counters>>

WriteReady(a) ==
  /\ pc[a] = "ready"
  /\ record' = Ready
  /\ Leave(a)
  /\ UNCHANGED <<tree, proposals, history, counters>>

-----------------------------------------------------------------------------
(* The operator *)

\* o makes a call, and has read the record.
Call(o, step) ==
  /\ pc[o] = "idle" /\ record # Missing /\ calls < MaxCalls
  /\ calls' = calls + 1
  /\ read' = [read EXCEPT ![o] = record.pending]
  /\ excused' = (excused \/ \E other \in Operator \ {o} : pc[other] # "idle")
  /\ Goto(o, step)
  /\ UNCHANGED <<tree, record, seen, applied, proposals, approved, executed, repeated,
                 abandoned, faults>>

Decide(o) == record.pending # 0 /\ Call(o, "decide")

WriteDecision(o) ==
  /\ pc[o] = "decide"
  /\ \/ record' = State("approved", read[o]) /\ approved' = approved \cup {read[o]}
     \/ record' = Ready /\ UNCHANGED approved
  /\ Leave(o)
  /\ UNCHANGED <<tree, proposals, executed, repeated, excused, abandoned, counters>>

\* Mutant of MayExecute: any proposal that is there.
MayExecutePending == record.pending # 0

MayExecute == record.status = "approved"

ExecuteApproved(o) == MayExecute /\ present /\ Call(o, "apply")

ApplyAction(o) ==
  /\ pc[o] = "apply" /\ applied[o] < ActionCount
  /\ \/ /\ present
        /\ edits' = edits \cup {<<read[o], applied[o] + 1>>}
        /\ applied' = [applied EXCEPT ![o] = applied[o] + 1]
        /\ UNCHANGED pc
     \/ Goto(o, "rollback") /\ UNCHANGED <<edits, applied>>
  /\ UNCHANGED <<present, record, seen, read, proposals, history, counters>>

WriteReceipt(o) ==
  /\ pc[o] = "apply" /\ applied[o] = ActionCount
  /\ IF present
     THEN /\ executed' = executed \cup {read[o]}
          /\ repeated' = (repeated \/ read[o] \in executed)
          /\ Goto(o, "written")
          /\ UNCHANGED <<seen, read, applied>>
     ELSE Leave(o) /\ UNCHANGED <<executed, repeated>>
  /\ UNCHANGED <<tree, record, proposals, approved, excused, abandoned, counters>>

\* Mutant of Settled: pending is not reset.
StillPending(p) == State("approved", p)

Settled(p) == State("executed", 0)

WriteExecuted(o) ==
  /\ pc[o] = "written"
  /\ record' = Settled(read[o])
  /\ Leave(o)
  /\ UNCHANGED <<tree, proposals, history, counters>>

Rollback(o) == Call(o, "rollback")

\* With force, or if there is nothing to lose.
Close(o) == present /\ Call(o, "remove")

RemoveWorktree(o) ==
  /\ pc[o] = "remove"
  /\ \/ /\ present
        /\ present' = FALSE /\ edits' = {} /\ abandoned' = {}
        /\ Goto(o, "closed") /\ UNCHANGED <<seen, read, applied>>
     \/ (~present \/ edits # {}) /\ Leave(o) /\ UNCHANGED <<tree, abandoned>>
  /\ UNCHANGED <<record, proposals, approved, executed, repeated, excused, counters>>

WriteClosed(o) ==
  /\ pc[o] = "closed"
  /\ record' = State("closed", read[o])
  /\ Leave(o)
  /\ UNCHANGED <<tree, proposals, history, counters>>

-----------------------------------------------------------------------------
Die(a) ==
  /\ pc[a] # "idle" /\ faults < MaxFaults
  /\ faults' = faults + 1
  /\ excused' = (excused \/ a \in Operator)
  /\ abandoned' = abandoned \cup {i \in Invoker \cap {a} : Adapters(i) \in edits}
  /\ Leave(a)
  /\ UNCHANGED <<tree, record, proposals, approved, executed, repeated, calls>>

Invoke(i) ==
  \/ Prepare(i) \/ AddWorktree(i) \/ WriteRecord(i)
  \/ BeforeInvocation(i) \/ Mutate(i) \/ AfterInvocation(i)
  \/ ProposeActions(i) \/ WriteProposal(i)

Operate(o) ==
  \/ Decide(o) \/ WriteDecision(o)
  \/ ExecuteApproved(o) \/ ApplyAction(o) \/ WriteReceipt(o) \/ WriteExecuted(o)
  \/ Rollback(o) \/ Close(o) \/ RemoveWorktree(o) \/ WriteClosed(o)

Next ==
  \/ \E i \in Invoker : Invoke(i)
  \/ \E o \in Operator : Operate(o)
  \/ \E a \in Actor : Reset(a) \/ WriteReady(a) \/ Die(a)

Spec == Init /\ [][Next]_vars

-----------------------------------------------------------------------------
(* What makes a workspace trustworthy *)

\* Whatever is written over whose record, only actions that an operator has
\* approved are ever in the tree, or have a receipt.
OnlyApprovedIsApplied ==
  /\ \A p \in 1..MaxProposals, k \in 1..ActionCount : <<p, k>> \in edits => p \in approved
  /\ executed \subseteq approved

\* An edit of an adapter does not outlive its invocation, though other
\* invocations roll back and operators execute in between: either it is still at
\* work, or about to roll back, or it died.
AdaptersLeaveNothing ==
  \A i \in Invoker :
    Adapters(i) \in edits => pc[i] \in {"work", "rollback"} \/ i \in abandoned

\* An approval is good for one execution, unless two operators work at the same
\* time or one dies: whatever invocations write in between, nothing brings back
\* a proposal that was executed.
ExecutedOnce == repeated => excused
===============================================================================

-------------------------------- MODULE Kernel --------------------------------
(***************************************************************************)
(* The kernel that drives a graph run, runtime/kernel.mjs, the debugger that *)
(* it asks before and tells after every node, runtime/debugger/              *)
(* controller.mjs, and the operator who gives the debugger commands.         *)
(*                                                                           *)
(* Several processes may be in resume() for the same run: a CLI, an MCP      *)
(* host, the TUI.  Each works in rounds: it takes a snapshot of the run,     *)
(* starts an invocation for every node of a batch, and waits until all of    *)
(* them have settled.  Everything it knows may be outdated by then.          *)
(*                                                                           *)
(* The run is what GraphRuntime makes of it for a simple kind of graphs: a   *)
(* node is ready when all nodes before it have succeeded, a failure leads    *)
(* back to the node itself until its attempts are used up, and ends the run  *)
(* then.  A call of the graph runtime is one step.  The debugger's locked    *)
(* sections are one step each; its unlocked reads are not.                   *)
(***************************************************************************)
EXTENDS Naturals, FiniteSets

CONSTANTS
  Kernels,      \* processes that may call resume
  Node,
  NoNode,
  Graphs,       \* the graphs that the run may have, see GraphType
  Parallel,     \* max_parallel_nodes
  Attempts,     \* max_attempts
  MaxCommands,  \* bound on the operator's pauses, steps, breakpoints and aborts
  MaxFaults     \* bound on crashes and on errors around an invocation

GraphType ==
  [before : [Node -> SUBSET Node],  \* the nodes that lead to a node
   human : SUBSET Node,             \* the human_approval nodes
   last : Node]                     \* leads to the success terminal

ASSUME KernelAssumption ==
  /\ Graphs \subseteq GraphType /\ NoNode \notin Node /\ IsFiniteSet(Node)
  /\ Parallel \in Nat \ {0} /\ Attempts \in Nat \ {0}
  /\ MaxCommands \in Nat /\ MaxFaults \in Nat

VARIABLES
  graph,
  status,    \* the run's status
  node,      \* node[n]: its status
  tries,     \* tries[n]: attempts so far
  debug,     \* debug.json
  exists,    \* there is a debug.json
  allowed,   \* what the last command allows: "none", "one" or "all" (history)
  overrun,   \* a node was let through against it (history)
  erased,    \* an initial debug.json was written over another one (history)
  pc,        \* pc[k]: where resume() of kernel k is
  snap,      \* snap[k]: the status it has read
  inv,       \* inv[k][n]: how far its invocation of node n is
  lost,      \* nodes that were given up while they were running (history)
  stray,     \* a kernel has completed a node that it had completed before (history)
  commands, faults

run == <<graph, status, node, tries>>
debugger == <<debug, exists, allowed, overrun, erased>>
kernel == <<pc, snap, inv, lost, stray>>
vars == <<graph, status, node, tries, debug, exists, allowed, overrun, erased,
          pc, snap, inv, lost, stray, commands, faults>>

NodeStatus == {"pending", "ready", "waiting_approval", "running", "succeeded", "failed"}
Ended == {"finalized", "aborted"}
RunStatus == {"active", "waiting_approval"} \cup Ended
Working == {"invoke", "answer", "fallback"}  \* has claimed the node
Told == {"after", "afterFallback"}           \* has completed it, in the try block or its catch
Settled == {"settled", "paused"}        \* returned or thrown, or thrown a DebugPauseError
Stages == {"before", "claim", "late"} \cup Working \cup Told \cup Settled

DebugState == [mode : {"running", "paused", "step"}, budget : 0..1,
               breaks : SUBSET Node, skip : Node \cup {NoNode}]
InitialDebug == [mode |-> "running", budget |-> 0, breaks |-> {}, skip |-> NoNode]
Snap == [status : RunStatus, ready : SUBSET Node, running : SUBSET Node]
NoSnap == [status |-> "active", ready |-> {}, running |-> {}]

In(st) == {n \in Node : node[n] = st}
-------------------------------------------------------------------------------
(* The graph runtime *)

\* The nodes that become ready, or wait for approval, once those in D are done.
Woken(D) == {m \in In("pending") : graph.before[m] \subseteq D}

\* Node n succeeds, and routes to its successors.
Succeed(n) ==
  LET woken == Woken(In("succeeded") \cup {n})
  IN  /\ node' = [m \in Node |->
                    IF m = n THEN "succeeded"
                    ELSE IF m \notin woken THEN node[m]
                    ELSE IF m \in graph.human THEN "waiting_approval" ELSE "ready"]
      /\ status' = IF n = graph.last THEN "finalized"
                   ELSE IF woken \cap graph.human # {} THEN "waiting_approval" ELSE "active"

\* Node n fails: it is tried again, or a terminal ends the run.
FailNode(n) ==
  IF tries[n] < Attempts
  THEN node' = [node EXCEPT ![n] = "ready"] /\ UNCHANGED status
  ELSE node' = [node EXCEPT ![n] = "failed"] /\ status' = "finalized"

MayComplete(n) == status = "active" /\ node[n] = "running"

\* The human's answer to the approval of n.
Resolve(n) ==
  /\ status = "waiting_approval" /\ node[n] = "waiting_approval"
  /\ \/ Succeed(n)
     \/ node' = [node EXCEPT ![n] = "failed"] /\ status' = "finalized"
  /\ UNCHANGED <<graph, tries, debugger, kernel, commands, faults>>

Init ==
  /\ graph \in Graphs
  /\ status = "active"
  /\ node = [n \in Node |-> IF graph.before[n] = {} THEN "ready" ELSE "pending"]
  /\ tries = [n \in Node |-> 0]
  /\ debug = InitialDebug /\ exists \in BOOLEAN
  /\ allowed = "all" /\ overrun = FALSE /\ erased = FALSE
  /\ pc = [k \in Kernels |-> "idle"] /\ snap = [k \in Kernels |-> NoSnap]
  /\ inv = [k \in Kernels |-> [n \in Node |-> "settled"]]
  /\ lost = {} /\ stray = FALSE /\ commands = 0 /\ faults = 0
-------------------------------------------------------------------------------
(* resume *)

Goto(k, step) == pc' = [pc EXCEPT ![k] = step]

Return(k) ==
  /\ Goto(k, "idle")
  /\ snap' = [snap EXCEPT ![k] = NoSnap]
  /\ inv' = [inv EXCEPT ![k] = [n \in Node |-> "settled"]]

Resume(k) ==
  /\ pc[k] = "idle" /\ status \notin Ended
  /\ Goto(k, "status")
  /\ UNCHANGED <<run, debugger, snap, inv, lost, stray, commands, faults>>

Status(k) ==
  /\ pc[k] = "status"
  /\ snap' = [snap EXCEPT ![k] = [status |-> status, ready |-> In("ready"),
                                  running |-> In("running")]]
  /\ Goto(k, "debugger")
  /\ UNCHANGED <<run, debugger, inv, lost, stray, commands, faults>>

\* onStatus reads debug.json without its lock.
OnStatus(k) ==
  /\ pc[k] = "debugger"
  /\ Goto(k, IF exists THEN "decide" ELSE "create")
  /\ UNCHANGED <<run, debugger, snap, inv, lost, stray, commands, faults>>

\* There was none when it was read, so the initial one is written.
CreateDebug(k) ==
  /\ pc[k] = "create"
  /\ debug' = InitialDebug /\ exists' = TRUE /\ erased' = (erased \/ exists)
  /\ Goto(k, "decide")
  /\ UNCHANGED <<run, allowed, overrun, snap, inv, lost, stray, commands, faults>>

\* The run has ended or waits for a human, or its running nodes are nobody's, as
\* far as the snapshot tells.
NothingToDo(k) ==
  /\ pc[k] = "decide"
  /\ \/ snap[k].status # "active"
     \/ snap[k].ready = {} /\ snap[k].running # {}
  /\ Return(k)
  /\ UNCHANGED <<run, debugger, lost, stray, commands, faults>>

\* The kernel takes the run for deadlocked; a run that has ended stays as it is.
AbortDeadlock(k) ==
  /\ pc[k] = "decide" /\ snap[k].status = "active"
  /\ snap[k].ready \cup snap[k].running = {}
  /\ status' = IF status \in Ended THEN status ELSE "aborted"
  /\ Return(k)
  /\ UNCHANGED <<graph, node, tries, debugger, lost, stray, commands, faults>>

\* The batch is as large as the limit and the snapshot allow.
Batch(k) ==
  /\ pc[k] = "decide" /\ snap[k].status = "active" /\ snap[k].ready # {}
  /\ LET limit == IF debug.mode = "step" THEN 1 ELSE Parallel IN
     \E batch \in SUBSET snap[k].ready :
       /\ IF Cardinality(snap[k].ready) <= limit THEN batch = snap[k].ready
          ELSE Cardinality(batch) = limit
       /\ inv' = [inv EXCEPT ![k] = [n \in Node |-> IF n \in batch THEN "before" ELSE "settled"]]
  /\ Goto(k, "wait") /\ snap' = [snap EXCEPT ![k] = NoSnap]
  /\ UNCHANGED <<run, debugger, lost, stray, commands, faults>>

\* All invocations have settled, and none has met a pause.
NextRound(k) ==
  /\ pc[k] = "wait" /\ \A n \in Node : inv[k][n] = "settled"
  /\ Goto(k, "status")
  /\ UNCHANGED <<run, debugger, snap, inv, lost, stray, commands, faults>>

\* A pause, an error with fail_fast set, or max_orchestration_rounds (which this
\* may be, as rounds are not counted).
LastRound(k) ==
  /\ pc[k] = "wait" /\ \A n \in Node : inv[k][n] \in Settled
  /\ Return(k)
  /\ UNCHANGED <<run, debugger, lost, stray, commands, faults>>
-------------------------------------------------------------------------------
(* executeNode *)

Stage(k, n, stage) == inv' = [inv EXCEPT ![k][n] = stage]

Fault == faults < MaxFaults /\ faults' = faults + 1

\* Mutant of LetThrough: a step does not use up its budget.
LetThroughFreely(n) ==
  /\ debug.mode = "running" \/ (debug.mode = "step" /\ debug.budget > 0)
  /\ n \notin debug.breaks \/ debug.skip = n
  /\ UNCHANGED debug

LetThrough(n) ==
  /\ debug.mode = "running" \/ (debug.mode = "step" /\ debug.budget > 0)
  /\ n \notin debug.breaks \/ debug.skip = n
  /\ debug' = IF debug.mode = "step" THEN [debug EXCEPT !.budget = @ - 1] ELSE debug

\* A pause, a breakpoint or an exhausted step: the run is paused, or stays so.
Stops(n) ==
  \/ debug.mode = "paused"
  \/ n \in debug.breaks /\ debug.skip # n
  \/ debug.mode = "step" /\ debug.budget = 0

\* beforeNode.
BeforeNode(k, n) ==
  /\ inv[k][n] = "before" /\ exists' = TRUE
  /\ \/ /\ LetThrough(n) /\ Stage(k, n, "claim")
        /\ overrun' = (overrun \/ allowed = "none")
        /\ allowed' = IF allowed = "one" THEN "none" ELSE allowed
     \/ /\ Stops(n) /\ Stage(k, n, "paused")
        /\ debug' = [debug EXCEPT !.mode = "paused"] /\ allowed' = "none"
        /\ UNCHANGED overrun
  /\ UNCHANGED <<run, erased, pc, snap, lost, stray, commands, faults>>

MayClaim(n) ==
  /\ status = "active" /\ node[n] = "ready" /\ tries[n] < Attempts
  /\ Cardinality(In("running")) < Parallel

\* Mutant of Claim: what the snapshot said is not checked again.
ClaimBlindly(k, n) ==
  /\ inv[k][n] = "claim" /\ status = "active"
  /\ node' = [node EXCEPT ![n] = "running"] /\ tries' = [tries EXCEPT ![n] = @ + 1]
  /\ Stage(k, n, "invoke")
  /\ UNCHANGED <<graph, status, debugger, pc, snap, lost, stray, commands, faults>>

Claim(k, n) ==
  /\ inv[k][n] = "claim" /\ MayClaim(n)
  /\ node' = [node EXCEPT ![n] = "running"] /\ tries' = [tries EXCEPT ![n] = @ + 1]
  /\ Stage(k, n, "invoke")
  /\ UNCHANGED <<graph, status, debugger, pc, snap, lost, stray, commands, faults>>

\* The node is not to be had any more, or the workspace cannot be prepared.
ClaimFails(k, n) ==
  /\ inv[k][n] = "claim"
  /\ (~MayClaim(n) /\ UNCHANGED faults) \/ Fault
  /\ Stage(k, n, "settled")
  /\ UNCHANGED <<run, debugger, pc, snap, lost, stray, commands>>

\* The router has no adapter for the node, or the request cannot be built.
CannotStart(k, n) ==
  /\ inv[k][n] = "invoke" /\ Fault
  /\ Stage(k, n, "settled") /\ lost' = lost \cup {n}
  /\ UNCHANGED <<run, debugger, pc, snap, stray, commands>>

\* The adapter answers, or throws.
Invoke(k, n) ==
  /\ inv[k][n] = "invoke"
  /\ Stage(k, n, "answer") \/ Stage(k, n, "fallback")
  /\ UNCHANGED <<run, debugger, pc, snap, lost, stray, commands, faults>>

\* The answer, a success or a failure, is handed to the graph.
Complete(k, n) ==
  /\ inv[k][n] = "answer"
  /\ \/ /\ MayComplete(n)
        /\ Succeed(n) \/ FailNode(n)
        /\ Stage(k, n, "after")
     \/ /\ ~MayComplete(n)
        /\ Stage(k, n, "fallback") /\ UNCHANGED <<node, status>>
  /\ UNCHANGED <<graph, tries, debugger, pc, snap, lost, stray, commands, faults>>

\* Mutant of Fallback: an error of the adapter is passed on.
FallbackThrows(k, n) ==
  /\ inv[k][n] \in {"fallback", "late"}
  /\ Stage(k, n, "settled")
  /\ UNCHANGED <<run, debugger, pc, snap, lost, stray, commands, faults>>

\* Whatever went wrong becomes a failure of the node, if the run takes it.  A run
\* that waits for an approval does not: the node stays running, and is given up.
Fallback(k, n) ==
  /\ inv[k][n] \in {"fallback", "late"}
  /\ \/ /\ MayComplete(n)
        /\ FailNode(n)
        /\ Stage(k, n, "afterFallback") /\ stray' = (stray \/ inv[k][n] = "late")
        /\ UNCHANGED lost
     \/ /\ ~MayComplete(n)
        /\ lost' = IF status = "waiting_approval" /\ inv[k][n] = "fallback"
                   THEN lost \cup ({n} \cap In("running")) ELSE lost
        /\ Stage(k, n, "settled") /\ UNCHANGED <<node, status, stray>>
  /\ UNCHANGED <<graph, tries, debugger, pc, snap, commands, faults>>

\* afterNode: a step ends in a pause.
AfterNode(k, n) ==
  /\ inv[k][n] \in Told
  /\ debug' = [debug EXCEPT !.mode = IF @ = "step" THEN "paused" ELSE @,
                            !.budget = IF debug.mode = "step" THEN 0 ELSE @,
                            !.skip = IF @ = n THEN NoNode ELSE @]
  /\ exists' = TRUE
  /\ Stage(k, n, "settled")
  /\ UNCHANGED <<run, allowed, overrun, erased, pc, snap, lost, stray, commands, faults>>

\* The debugger's lock or file fails.  In the try block that looks as if the node
\* had failed, although it is completed.
AfterNodeFails(k, n) ==
  /\ inv[k][n] \in Told /\ Fault
  /\ Stage(k, n, IF inv[k][n] = "after" THEN "late" ELSE "settled")
  /\ UNCHANGED <<run, debugger, pc, snap, lost, stray, commands>>

\* The process dies, and what it had claimed stays running.
Crash(k) ==
  /\ pc[k] # "idle" /\ Fault
  /\ lost' = lost \cup {n \in Node : inv[k][n] \in Working}
  /\ Return(k)
  /\ UNCHANGED <<run, debugger, stray, commands>>
-------------------------------------------------------------------------------
(* The operator: command and bypassBreakpointOnce *)

Command(d, a) ==
  /\ debug' = d /\ allowed' = a /\ exists' = TRUE
  /\ UNCHANGED <<run, overrun, erased, kernel, faults>>

Counted == commands < MaxCommands /\ commands' = commands + 1

Pause == Counted /\ Command([debug EXCEPT !.mode = "paused", !.budget = 0], "none")
Step == Counted /\ Command([debug EXCEPT !.mode = "step", !.budget = 1], "one")

\* A breakpoint at a node of a human, which no kernel executes, has no effect.
Break(n) ==
  /\ n \notin graph.human \cup debug.breaks
  /\ Counted /\ Command([debug EXCEPT !.breaks = @ \cup {n}], allowed)

\* resume or retry.
Continue ==
  /\ debug.mode # "running"
  /\ Command([debug EXCEPT !.mode = "running", !.budget = 0], "all")
  /\ UNCHANGED commands

Clear ==
  /\ debug.breaks # {}
  /\ Command([debug EXCEPT !.breaks = {}], allowed)
  /\ UNCHANGED commands

BypassBreakpointOnce(n) ==
  /\ n \in debug.breaks
  /\ Command([debug EXCEPT !.skip = n, !.mode = "running"], "all")
  /\ UNCHANGED commands

Abort ==
  /\ status \notin Ended /\ Counted
  /\ status' = "aborted"
  /\ UNCHANGED <<graph, node, tries, debugger, kernel, faults>>
-------------------------------------------------------------------------------
Round(k) ==
  \/ Status(k) \/ OnStatus(k) \/ CreateDebug(k) \/ NothingToDo(k)
  \/ AbortDeadlock(k) \/ Batch(k) \/ NextRound(k) \/ LastRound(k)

Invocation(k, n) ==
  \/ BeforeNode(k, n) \/ Claim(k, n) \/ ClaimFails(k, n) \/ CannotStart(k, n) \/ Invoke(k, n)
  \/ Complete(k, n) \/ Fallback(k, n) \/ AfterNode(k, n) \/ AfterNodeFails(k, n)

Operator ==
  \/ Pause \/ Step \/ Continue \/ Clear \/ Abort
  \/ \E n \in Node : Break(n) \/ BypassBreakpointOnce(n)

Next ==
  \/ \E k \in Kernels : \/ Resume(k) \/ Round(k) \/ Crash(k)
                        \/ \E n \in Node : Invocation(k, n)
  \/ \E n \in Node : Resolve(n)
  \/ Operator

Spec == Init /\ [][Next]_vars

\* A process that is not killed runs on, and adapters answer (or time out); a
\* human answers, and an operator continues what is paused, clears breakpoints
\* some day, and calls resume again when it has returned.
FairSpec ==
  /\ Spec
  /\ \A k \in Kernels : /\ WF_vars(Resume(k)) /\ WF_vars(Round(k))
                        /\ \A n \in Node : WF_vars(Invocation(k, n))
  /\ \A n \in Node : WF_vars(Resolve(n))
  /\ WF_vars(Continue) /\ WF_vars(Clear)
-------------------------------------------------------------------------------
TypeOK ==
  /\ graph \in Graphs /\ status \in RunStatus
  /\ node \in [Node -> NodeStatus] /\ tries \in [Node -> 0..Attempts]
  /\ debug \in DebugState
  /\ exists \in BOOLEAN /\ allowed \in {"none", "one", "all"} /\ overrun \in BOOLEAN
  /\ erased \in BOOLEAN
  /\ pc \in [Kernels -> {"idle", "status", "debugger", "create", "decide", "wait"}]
  /\ snap \in [Kernels -> Snap]
  /\ inv \in [Kernels -> [Node -> Stages]]
  /\ lost \subseteq Node /\ stray \in BOOLEAN /\ commands \in Nat /\ faults \in Nat

\* However many processes resume the same run, at most one of them is executing a
\* node, and the graph knows that it is running.  (Unless one of them, told by a
\* failing debugger that its node had failed, has completed somebody else's.)
OneWorker ==
  stray \/ \A k \in Kernels, n \in Node :
    inv[k][n] \in Working =>
      /\ node[n] = "running"
      /\ \A j \in Kernels \ {k} : inv[j][n] \notin Working

\* A claimed node does not disappear: unless the process died that had claimed
\* it, or could not even start, or had its result while the run was waiting for
\* an approval, somebody is going to complete it or let it fail.
NoOrphans ==
  \A n \in In("running") :
    status \notin Ended => n \in lost \/ \E k \in Kernels : inv[k][n] \in Working

\* The operator is in control: after a pause no node is let through to execution
\* until the run is continued, and after a step command at most one.  (Unless
\* the command was the first thing in debug.json and is written over.)
OperatorIsObeyed == overrun => erased

\* Driven on, every run ends, unless a running node was given up.
RunEnds == <>(status \in Ended \/ lost # {})
===============================================================================

------------------------------ MODULE KernelProofs ------------------------------
(***************************************************************************)
(* For any number of processes that resume the same run, any graph of the    *)
(* kind and any number of commands and faults: one process at a time         *)
(* executes a node, no running node is forgotten, and the debugger lets no   *)
(* node through against the operator.                                        *)
(***************************************************************************)
EXTENDS Kernel, TLAPS

\* What resume keeps in memory is reset when it returns.
LEMMA Returned ==
  ASSUME TypeOK, NEW k \in Kernels, Return(k)
  PROVE  /\ pc' \in [Kernels -> {"idle", "status", "debugger", "create", "decide", "wait"}]
         /\ snap' \in [Kernels -> Snap] /\ inv' \in [Kernels -> [Node -> Stages]]
         /\ pc'[k] = "idle" /\ \A n \in Node : inv'[k][n] = "settled"
         /\ \A j \in Kernels \ {k} : pc'[j] = pc[j] /\ inv'[j] = inv[j]
<1>1. NoSnap \in Snap
  BY DEF NoSnap, Snap, RunStatus
<1>2. [n \in Node |-> "settled"] \in [Node -> Stages]
  BY DEF Stages, Settled
<1>. QED
  BY <1>1, <1>2 DEF TypeOK, Return, Goto

\* An invocation moves on, and no other one.
LEMMA Moved ==
  ASSUME TypeOK, NEW k \in Kernels, NEW n \in Node, NEW stage \in Stages, Stage(k, n, stage)
  PROVE  /\ inv' \in [Kernels -> [Node -> Stages]]
         /\ inv'[k][n] = stage
         /\ \A j \in Kernels, m \in Node : j # k \/ m # n => inv'[j][m] = inv[j][m]
  BY DEF TypeOK, Stage

\* The new statuses are statuses.
LEMMA GraphSteps ==
  ASSUME TypeOK, NEW n \in Node
  PROVE  /\ Succeed(n) => node' \in [Node -> NodeStatus] /\ status' \in RunStatus
         /\ FailNode(n) => node' \in [Node -> NodeStatus] /\ status' \in RunStatus
<1>1. ASSUME Succeed(n) PROVE node' \in [Node -> NodeStatus] /\ status' \in RunStatus
  BY <1>1 DEF TypeOK, Succeed, NodeStatus, RunStatus, Ended
<1>2. ASSUME FailNode(n) PROVE node' \in [Node -> NodeStatus] /\ status' \in RunStatus
  BY <1>2 DEF TypeOK, FailNode, NodeStatus, RunStatus, Ended
<1>. QED
  BY <1>1, <1>2

\* The steps that change debug.json, by the fields that decide about nodes.
LEMMA DebuggerSteps ==
  ASSUME TypeOK
  PROVE  /\ \A n \in Node : LetThrough(n) =>
              /\ debug' \in DebugState /\ debug'.mode = debug.mode
              /\ debug.mode = "running" \/ (debug.mode = "step" /\ debug.budget = 1)
              /\ debug.mode = "step" => debug'.budget = 0
         /\ debug' = [debug EXCEPT !.mode = "paused"] =>
              debug' \in DebugState /\ debug'.mode = "paused"
         /\ \A k \in Kernels, n \in Node : AfterNode(k, n) =>
              /\ debug' \in DebugState
              /\ debug'.mode = IF debug.mode = "step" THEN "paused" ELSE debug.mode
              /\ debug.mode # "step" => debug'.budget = debug.budget
         /\ Pause => debug' \in DebugState /\ debug'.mode = "paused"
         /\ Step => debug' \in DebugState /\ debug'.mode = "step"
         /\ Continue => debug' \in DebugState
         /\ \A n \in Node : BypassBreakpointOnce(n) => debug' \in DebugState
         /\ Clear \/ (\E n \in Node : Break(n)) =>
              /\ debug' \in DebugState
              /\ debug'.mode = debug.mode /\ debug'.budget = debug.budget
<1>0. debug \in DebugState /\ TypeOK
  BY DEF TypeOK
<1>1. ASSUME NEW n \in Node, LetThrough(n)
      PROVE  /\ debug' \in DebugState /\ debug'.mode = debug.mode
             /\ debug.mode = "running" \/ (debug.mode = "step" /\ debug.budget = 1)
             /\ debug.mode = "step" => debug'.budget = 0
  <2>. DEFINE less == debug.budget - 1
  <2>1. debug.budget \in 0..1
    BY <1>0 DEF DebugState
  <2>2. debug.mode = "running" \/ (debug.mode = "step" /\ debug.budget = 1)
    BY <1>1, <2>1 DEF LetThrough
  <2>3. CASE debug.mode = "step"
    <3>1. less = 0 /\ debug.budget = 1
      BY <2>2, <2>3
    <3>2. debug' = [debug EXCEPT !.budget = less]
      BY <1>1, <2>3 DEF LetThrough
    <3>3. less \in 0..1
      BY <3>1
    <3>. HIDE DEF less
    <3>4. debug' \in DebugState /\ debug'.mode = debug.mode /\ debug'.budget = less
      BY <1>0, <3>2, <3>3 DEF DebugState
    <3>. QED
      BY <2>2, <3>1, <3>4
  <2>4. CASE debug.mode # "step"
    BY <1>0, <1>1, <2>2, <2>4 DEF LetThrough
  <2>. QED
    BY <2>3, <2>4
<1>2. ASSUME debug' = [debug EXCEPT !.mode = "paused"]
      PROVE  debug' \in DebugState /\ debug'.mode = "paused"
  <2>. DEFINE m == "paused"
  <2>1. m \in {"running", "paused", "step"}
    OBVIOUS
  <2>2. debug' = [debug EXCEPT !.mode = m]
    BY <1>2
  <2>. HIDE DEF m
  <2>3. debug' \in DebugState /\ debug'.mode = m
    BY <1>0, <2>1, <2>2 DEF DebugState
  <2>. QED
    BY <2>3 DEF m
<1>3. ASSUME NEW k \in Kernels, NEW n \in Node, AfterNode(k, n)
      PROVE  /\ debug' \in DebugState
             /\ debug'.mode = IF debug.mode = "step" THEN "paused" ELSE debug.mode
             /\ debug.mode # "step" => debug'.budget = debug.budget
  <2>. DEFINE m == IF debug.mode = "step" THEN "paused" ELSE debug.mode
              b == IF debug.mode = "step" THEN 0 ELSE debug.budget
              s == IF debug.skip = n THEN NoNode ELSE debug.skip
  <2>1. debug' = [debug EXCEPT !.mode = m, !.budget = b, !.skip = s]
    BY <1>3 DEF AfterNode
  <2>2. m \in {"running", "paused", "step"} /\ b \in 0..1 /\ s \in Node \cup {NoNode}
    BY <1>0 DEF DebugState
  <2>3. debug.mode # "step" => b = debug.budget
    OBVIOUS
  <2>. HIDE DEF m, b, s
  <2>4. debug' \in DebugState /\ debug'.mode = m /\ debug'.budget = b
    BY <1>0, <2>1, <2>2 DEF DebugState
  <2>. QED
    BY <2>3, <2>4 DEF m
<1>4. ASSUME Pause PROVE debug' \in DebugState /\ debug'.mode = "paused"
  <2>. DEFINE m == "paused"
              b == 0
  <2>1. m \in {"running", "paused", "step"} /\ b \in 0..1
    OBVIOUS
  <2>2. debug' = [debug EXCEPT !.mode = m, !.budget = b]
    BY <1>4 DEF Pause, Command
  <2>. HIDE DEF m, b
  <2>3. debug' \in DebugState /\ debug'.mode = m
    BY <1>0, <2>1, <2>2 DEF DebugState
  <2>. QED
    BY <2>3 DEF m
<1>5. ASSUME Step PROVE debug' \in DebugState /\ debug'.mode = "step"
  <2>. DEFINE m == "step"
              b == 1
  <2>1. m \in {"running", "paused", "step"} /\ b \in 0..1
    OBVIOUS
  <2>2. debug' = [debug EXCEPT !.mode = m, !.budget = b]
    BY <1>5 DEF Step, Command
  <2>. HIDE DEF m, b
  <2>3. debug' \in DebugState /\ debug'.mode = m
    BY <1>0, <2>1, <2>2 DEF DebugState
  <2>. QED
    BY <2>3 DEF m
<1>6. ASSUME Continue PROVE debug' \in DebugState
  <2>. DEFINE m == "running"
              b == 0
  <2>1. m \in {"running", "paused", "step"} /\ b \in 0..1
    OBVIOUS
  <2>2. debug' = [debug EXCEPT !.mode = m, !.budget = b]
    BY <1>6 DEF Continue, Command
  <2>. HIDE DEF m, b
  <2>3. debug' \in DebugState /\ debug'.mode = m
    BY <1>0, <2>1, <2>2 DEF DebugState
  <2>. QED
    BY <2>3 DEF m
<1>7. ASSUME NEW n \in Node, BypassBreakpointOnce(n) PROVE debug' \in DebugState
  <2>. DEFINE m == "running"
  <2>1. m \in {"running", "paused", "step"}
    OBVIOUS
  <2>2. debug' = [debug EXCEPT !.skip = n, !.mode = m]
    BY <1>7 DEF BypassBreakpointOnce, Command
  <2>. HIDE DEF m
  <2>. QED
    BY <1>0, <2>1, <2>2 DEF DebugState
<1>8. ASSUME Clear \/ (\E n \in Node : Break(n))
      PROVE  /\ debug' \in DebugState
             /\ debug'.mode = debug.mode /\ debug'.budget = debug.budget
  <2>1. PICK B \in SUBSET Node : debug' = [debug EXCEPT !.breaks = B]
    BY <1>0, <1>8 DEF Clear, Break, Command, DebugState
  <2>. QED
    BY <1>0, <2>1 DEF DebugState
<1>. QED
  BY <1>1, <1>2, <1>3, <1>4, <1>5, <1>6, <1>7, <1>8

\* Every step preserves the types.
LEMMA TypeStep ==
  ASSUME TypeOK, [Next]_vars
  PROVE  TypeOK'
<1>. USE KernelAssumption DEF TypeOK, vars, run, debugger, kernel, Goto, Fault, Counted, Command
<1>1. ASSUME NEW k \in Kernels, Resume(k) PROVE TypeOK'
  BY <1>1 DEF Resume
<1>2. ASSUME NEW k \in Kernels, Status(k) PROVE TypeOK'
  BY <1>2 DEF Status, In, Snap
<1>3. ASSUME NEW k \in Kernels, OnStatus(k) PROVE TypeOK'
  BY <1>3 DEF OnStatus
<1>4. ASSUME NEW k \in Kernels, CreateDebug(k) PROVE TypeOK'
  BY <1>4 DEF CreateDebug, InitialDebug, DebugState
<1>5. ASSUME NEW k \in Kernels, NothingToDo(k) PROVE TypeOK'
  BY <1>5, Returned DEF NothingToDo
<1>6. ASSUME NEW k \in Kernels, AbortDeadlock(k) PROVE TypeOK'
  BY <1>6, Returned DEF AbortDeadlock, RunStatus, Ended
<1>7. ASSUME NEW k \in Kernels, Batch(k) PROVE TypeOK'
  BY <1>7 DEF Batch, NoSnap, Snap, RunStatus, Stages, Settled
<1>8. ASSUME NEW k \in Kernels, NextRound(k) PROVE TypeOK'
  BY <1>8 DEF NextRound
<1>9. ASSUME NEW k \in Kernels, LastRound(k) PROVE TypeOK'
  BY <1>9, Returned DEF LastRound
<1>10. ASSUME NEW k \in Kernels, Crash(k) PROVE TypeOK'
  BY <1>10, Returned DEF Crash
<1>11. ASSUME NEW k \in Kernels, NEW n \in Node, BeforeNode(k, n) PROVE TypeOK'
  <2>1. debug' \in DebugState
    BY <1>11, DebuggerSteps DEF BeforeNode
  <2>2. inv' \in [Kernels -> [Node -> Stages]]
    BY <1>11, Moved DEF BeforeNode, Stages, Settled
  <2>. QED
    BY <1>11, <2>1, <2>2 DEF BeforeNode
<1>12. ASSUME NEW k \in Kernels, NEW n \in Node, Claim(k, n) PROVE TypeOK'
  <2>1. inv' \in [Kernels -> [Node -> Stages]]
    BY <1>12, Moved DEF Claim, Stages, Settled, Working, Told
  <2>. QED
    BY <1>12, <2>1 DEF Claim, MayClaim, NodeStatus
<1>13. ASSUME NEW k \in Kernels, NEW n \in Node, ClaimFails(k, n) PROVE TypeOK'
  <2>1. inv' \in [Kernels -> [Node -> Stages]]
    BY <1>13, Moved DEF ClaimFails, Stages, Settled, Working, Told
  <2>. QED
    BY <1>13, <2>1 DEF ClaimFails
<1>14. ASSUME NEW k \in Kernels, NEW n \in Node, CannotStart(k, n) PROVE TypeOK'
  <2>1. inv' \in [Kernels -> [Node -> Stages]]
    BY <1>14, Moved DEF CannotStart, Stages, Settled, Working, Told
  <2>. QED
    BY <1>14, <2>1 DEF CannotStart
<1>15. ASSUME NEW k \in Kernels, NEW n \in Node, Invoke(k, n) PROVE TypeOK'
  <2>1. inv' \in [Kernels -> [Node -> Stages]]
    BY <1>15, Moved DEF Invoke, Stages, Settled, Working, Told
  <2>. QED
    BY <1>15, <2>1 DEF Invoke
<1>16. ASSUME NEW k \in Kernels, NEW n \in Node, Complete(k, n) PROVE TypeOK'
  <2>1. inv' \in [Kernels -> [Node -> Stages]]
    BY <1>16, Moved DEF Complete, Stages, Settled, Working, Told
  <2>. QED
    BY <1>16, <2>1, GraphSteps DEF Complete
<1>17. ASSUME NEW k \in Kernels, NEW n \in Node, Fallback(k, n) PROVE TypeOK'
  <2>1. inv' \in [Kernels -> [Node -> Stages]]
    BY <1>17, Moved DEF Fallback, Stages, Settled, Working, Told
  <2>. QED
    BY <1>17, <2>1, GraphSteps DEF Fallback
<1>18. ASSUME NEW k \in Kernels, NEW n \in Node, AfterNode(k, n) PROVE TypeOK'
  <2>1. inv' \in [Kernels -> [Node -> Stages]]
    BY <1>18, Moved DEF AfterNode, Stages, Settled, Working, Told
  <2>. QED
    BY <1>18, <2>1, DebuggerSteps DEF AfterNode
<1>19. ASSUME NEW k \in Kernels, NEW n \in Node, AfterNodeFails(k, n) PROVE TypeOK'
  <2>1. inv' \in [Kernels -> [Node -> Stages]]
    BY <1>19, Moved DEF AfterNodeFails, Stages, Settled, Working, Told
  <2>. QED
    BY <1>19, <2>1 DEF AfterNodeFails
<1>20. ASSUME NEW n \in Node, Resolve(n) PROVE TypeOK'
  BY <1>20, GraphSteps DEF Resolve, NodeStatus, RunStatus, Ended
<1>21. ASSUME NEW n \in Node, Break(n) PROVE TypeOK'
  <2>1. debug' \in DebugState
    BY <1>21, DebuggerSteps
  <2>. QED
    BY <1>21, <2>1 DEF Break
<1>22. ASSUME NEW n \in Node, BypassBreakpointOnce(n) PROVE TypeOK'
  BY <1>22, DebuggerSteps DEF BypassBreakpointOnce
<1>23. ASSUME Pause PROVE TypeOK'
  BY <1>23, DebuggerSteps DEF Pause
<1>24. ASSUME Step PROVE TypeOK'
  BY <1>24, DebuggerSteps DEF Step
<1>25. ASSUME Continue PROVE TypeOK'
  BY <1>25, DebuggerSteps DEF Continue
<1>26. ASSUME Clear PROVE TypeOK'
  <2>1. debug' \in DebugState
    BY <1>26, DebuggerSteps
  <2>. QED
    BY <1>26, <2>1 DEF Clear
<1>27. ASSUME Abort PROVE TypeOK'
  BY <1>27 DEF Abort, RunStatus, Ended
<1>28. CASE UNCHANGED vars
  BY <1>28
<1>. QED
  BY <1>1, <1>2, <1>3, <1>4, <1>5, <1>6, <1>7, <1>8, <1>9, <1>10, <1>11, <1>12, <1>13, <1>14, <1>15, <1>16, <1>17, <1>18, <1>19, <1>20, <1>21, <1>22, <1>23, <1>24, <1>25, <1>26, <1>27, <1>28 DEF Next, Round, Invocation, Operator

\* The initial state is well typed.
LEMMA TypeInit == Init => TypeOK
<1>. SUFFICES ASSUME Init PROVE TypeOK
  OBVIOUS
<1>. USE KernelAssumption DEF Init
<1>1. graph \in Graphs /\ status \in RunStatus
  BY DEF RunStatus
<1>2. node \in [Node -> NodeStatus] /\ tries \in [Node -> 0..Attempts]
  BY DEF NodeStatus
<1>3. debug \in DebugState
  BY DEF DebugState, InitialDebug
<1>4. snap \in [Kernels -> Snap] /\ inv \in [Kernels -> [Node -> Stages]]
  BY DEF Snap, NoSnap, RunStatus, Stages, Settled
<1>. QED
  BY <1>1, <1>2, <1>3, <1>4 DEF TypeOK

\* A run, debug.json and the kernels keep their types.
THEOREM TypeCorrect == Spec => []TypeOK
<1>1. Init => TypeOK
  BY TypeInit
<1>2. TypeOK /\ [Next]_vars => TypeOK'
  BY TypeStep
<1>. QED
  BY <1>1, <1>2, PTL DEF Spec

-------------------------------------------------------------------------------
\* What debug.json says agrees with the operator's last command, unless it was
\* written over: after a pause, a stop or a step that is used up it lets nothing
\* through, and a step that is not used up is still one, or has become a pause.
ControlInv ==
  /\ TypeOK /\ OperatorIsObeyed
  /\ ~exists => debug.mode = "running" /\ allowed = "all"
  /\ erased \/ /\ allowed = "none" => \/ debug.mode = "paused"
                                      \/ debug.mode = "step" /\ debug.budget = 0
               /\ allowed = "one" => debug.mode \in {"paused", "step"}

\* Every step preserves it.
LEMMA ControlStep ==
  ASSUME ControlInv, [Next]_vars
  PROVE  ControlInv'
<1>0. TypeOK /\ TypeOK'
  BY TypeStep DEF ControlInv
<1>. USE DEF ControlInv, OperatorIsObeyed, vars, run, debugger, kernel, Fault, Counted, Command
<1>1. ASSUME NEW k \in Kernels, Resume(k) PROVE ControlInv'
  BY <1>0, <1>1 DEF Resume
<1>2. ASSUME NEW k \in Kernels, Status(k) PROVE ControlInv'
  BY <1>0, <1>2 DEF Status
<1>3. ASSUME NEW k \in Kernels, OnStatus(k) PROVE ControlInv'
  BY <1>0, <1>3 DEF OnStatus
<1>4. ASSUME NEW k \in Kernels, CreateDebug(k) PROVE ControlInv'
  <2>1. CASE exists
    BY <1>0, <1>4, <2>1 DEF CreateDebug
  <2>2. CASE ~exists
    <3>1. debug'.mode = "running" /\ allowed' = "all"
      BY <1>4, <2>2 DEF CreateDebug, InitialDebug
    <3>. QED
      BY <1>0, <1>4, <2>2, <3>1 DEF CreateDebug
  <2>. QED
    BY <2>1, <2>2
<1>5. ASSUME NEW k \in Kernels, NothingToDo(k) PROVE ControlInv'
  BY <1>0, <1>5 DEF NothingToDo
<1>6. ASSUME NEW k \in Kernels, AbortDeadlock(k) PROVE ControlInv'
  BY <1>0, <1>6 DEF AbortDeadlock
<1>7. ASSUME NEW k \in Kernels, Batch(k) PROVE ControlInv'
  BY <1>0, <1>7 DEF Batch
<1>8. ASSUME NEW k \in Kernels, NextRound(k) PROVE ControlInv'
  BY <1>0, <1>8 DEF NextRound
<1>9. ASSUME NEW k \in Kernels, LastRound(k) PROVE ControlInv'
  BY <1>0, <1>9 DEF LastRound
<1>10. ASSUME NEW k \in Kernels, Crash(k) PROVE ControlInv'
  BY <1>0, <1>10 DEF Crash
<1>11. ASSUME NEW k \in Kernels, NEW n \in Node, BeforeNode(k, n) PROVE ControlInv'
  <2>1. CASE LetThrough(n)
    <3>1. allowed # "none" \/ erased
      BY <2>1, <1>0, DebuggerSteps
    <3>2. /\ exists' = TRUE
          /\ \/ allowed' = "none" /\ debug' = [debug EXCEPT !.mode = "paused"]
             \/ allowed' = (IF allowed = "one" THEN "none" ELSE allowed)
      BY <1>11 DEF BeforeNode
    <3>11. (overrun' => overrun \/ allowed = "none") /\ (erased <=> erased')
      <4>1. erased' = erased
        BY <1>11 DEF BeforeNode
      <4>2. (overrun' = (overrun \/ allowed = "none")) \/ (overrun' = overrun)
        BY <1>11 DEF BeforeNode
      <4>. QED
        BY <1>0, <4>1, <4>2 DEF TypeOK
    <3>3. /\ debug'.mode = debug.mode \/ (debug'.mode = "paused" /\ allowed' = "none")
          /\ debug.mode = "step" => debug'.budget = 0
          /\ debug.mode \in {"running", "step"}
      BY <1>0, <2>1, <3>2, DebuggerSteps
    <3>4. allowed = "one" => debug.mode = "step" \/ erased
      BY <3>3
    <3>5. OperatorIsObeyed'
      BY <3>1, <3>11
    <3>6. allowed \in {"none", "one", "all"}
      BY <1>0 DEF TypeOK
    <3>7. allowed' # "one"
      BY <3>2, <3>6
    <3>8. CASE allowed = "none"
      BY <1>0, <3>1, <3>2, <3>5, <3>7, <3>8, <3>11
    <3>9. CASE allowed = "one"
      <4>1. debug'.mode = "paused" \/ (debug'.mode = "step" /\ debug'.budget = 0) \/ erased
        BY <3>3, <3>4, <3>9
      <4>. QED
        BY <1>0, <3>2, <3>5, <3>7, <3>11, <4>1
    <3>10. CASE allowed = "all"
      <4>1. debug'.mode = "paused" \/ allowed' = "all"
        BY <1>0, <3>2, <3>10, DebuggerSteps
      <4>. QED
        BY <1>0, <3>2, <3>5, <3>7, <3>11, <4>1
    <3>. QED
      BY <3>6, <3>8, <3>9, <3>10
  <2>2. CASE ~LetThrough(n)
    <3>1. debug' = [debug EXCEPT !.mode = "paused"] /\ allowed' = "none"
      BY <1>11, <2>2 DEF BeforeNode
    <3>2. debug'.mode = "paused"
      BY <1>0, <3>1, DebuggerSteps
    <3>. QED
      BY <1>0, <1>11, <2>2, <3>1, <3>2 DEF BeforeNode
  <2>. QED
    BY <2>1, <2>2
<1>12. ASSUME NEW k \in Kernels, NEW n \in Node, Claim(k, n) PROVE ControlInv'
  BY <1>0, <1>12 DEF Claim
<1>13. ASSUME NEW k \in Kernels, NEW n \in Node, ClaimFails(k, n) PROVE ControlInv'
  BY <1>0, <1>13 DEF ClaimFails
<1>14. ASSUME NEW k \in Kernels, NEW n \in Node, CannotStart(k, n) PROVE ControlInv'
  BY <1>0, <1>14 DEF CannotStart
<1>15. ASSUME NEW k \in Kernels, NEW n \in Node, Invoke(k, n) PROVE ControlInv'
  BY <1>0, <1>15 DEF Invoke
<1>16. ASSUME NEW k \in Kernels, NEW n \in Node, Complete(k, n) PROVE ControlInv'
  BY <1>0, <1>16 DEF Complete
<1>17. ASSUME NEW k \in Kernels, NEW n \in Node, Fallback(k, n) PROVE ControlInv'
  BY <1>0, <1>17 DEF Fallback
<1>18. ASSUME NEW k \in Kernels, NEW n \in Node, AfterNode(k, n) PROVE ControlInv'
  BY <1>0, <1>18, DebuggerSteps DEF AfterNode
<1>19. ASSUME NEW k \in Kernels, NEW n \in Node, AfterNodeFails(k, n) PROVE ControlInv'
  BY <1>0, <1>19 DEF AfterNodeFails
<1>20. ASSUME NEW n \in Node, Resolve(n) PROVE ControlInv'
  BY <1>0, <1>20 DEF Resolve
<1>21. ASSUME NEW n \in Node, Break(n) PROVE ControlInv'
  BY <1>0, <1>21, DebuggerSteps DEF Break
<1>22. ASSUME NEW n \in Node, BypassBreakpointOnce(n) PROVE ControlInv'
  BY <1>0, <1>22, DebuggerSteps DEF BypassBreakpointOnce
<1>23. ASSUME Pause PROVE ControlInv'
  BY <1>0, <1>23, DebuggerSteps DEF Pause
<1>24. ASSUME Step PROVE ControlInv'
  BY <1>0, <1>24, DebuggerSteps DEF Step
<1>25. ASSUME Continue PROVE ControlInv'
  BY <1>0, <1>25, DebuggerSteps DEF Continue
<1>26. ASSUME Clear PROVE ControlInv'
  BY <1>0, <1>26, DebuggerSteps DEF Clear
<1>27. ASSUME Abort PROVE ControlInv'
  BY <1>0, <1>27 DEF Abort
<1>28. CASE UNCHANGED vars
  BY <1>0, <1>28
<1>. QED
  BY <1>1, <1>2, <1>3, <1>4, <1>5, <1>6, <1>7, <1>8, <1>9, <1>10, <1>11, <1>12, <1>13, <1>14, <1>15, <1>16, <1>17, <1>18, <1>19, <1>20, <1>21, <1>22, <1>23, <1>24, <1>25, <1>26, <1>27, <1>28 DEF Next, Round, Invocation, Operator

\* The debugger lets no node through against the operator, unless the command is
\* written over.
THEOREM Obedience == Spec => []OperatorIsObeyed
<1>1. Init => ControlInv
  <2>1. ASSUME Init PROVE ControlInv
    <3>1. TypeOK
      BY <2>1, TypeInit
    <3>2. debug.mode = "running" /\ allowed = "all" /\ ~overrun
      BY <2>1 DEF Init, InitialDebug
    <3>. QED
      BY <3>1, <3>2 DEF ControlInv, OperatorIsObeyed
  <2>. QED
    BY <2>1
<1>2. ControlInv /\ [Next]_vars => ControlInv'
  BY ControlStep
<1>3. ControlInv => OperatorIsObeyed
  BY DEF ControlInv
<1>. QED
  BY <1>1, <1>2, <1>3, PTL DEF Spec

-------------------------------------------------------------------------------
\* What a step of the graph does to nodes that are running.
LEMMA RunningSteps ==
  ASSUME TypeOK, NEW n \in Node, Succeed(n) \/ FailNode(n)
  PROVE  /\ \A m \in Node \ {n} : (node[m] = "running") <=> (node'[m] = "running")
         /\ node'[n] # "running"
         /\ ~Succeed(n) => status' = status \/ status' = "finalized"
<1>1. CASE Succeed(n)
  BY <1>1 DEF TypeOK, Succeed, Woken, In
<1>2. CASE FailNode(n) /\ ~Succeed(n)
  BY <1>2 DEF TypeOK, FailNode
<1>. QED
  BY <1>1, <1>2

WorkerInv == TypeOK /\ OneWorker

\* Every step preserves it: who claims a node finds it ready, so that nobody is
\* executing it, and only a worker of a node ends its running.
LEMMA WorkerStep ==
  ASSUME WorkerInv, [Next]_vars
  PROVE  WorkerInv'
<1>0. TypeOK /\ TypeOK'
  BY TypeStep DEF WorkerInv
<1>. USE DEF WorkerInv, OneWorker, vars, run, debugger, kernel, Goto, Fault, Counted, Command, Working
<1>1. ASSUME NEW k \in Kernels, Resume(k) PROVE WorkerInv'
  BY <1>0, <1>1 DEF Resume
<1>2. ASSUME NEW k \in Kernels, Status(k) PROVE WorkerInv'
  BY <1>0, <1>2 DEF Status
<1>3. ASSUME NEW k \in Kernels, OnStatus(k) PROVE WorkerInv'
  BY <1>0, <1>3 DEF OnStatus
<1>4. ASSUME NEW k \in Kernels, CreateDebug(k) PROVE WorkerInv'
  BY <1>0, <1>4 DEF CreateDebug
<1>5. ASSUME NEW k \in Kernels, NothingToDo(k) PROVE WorkerInv'
  BY <1>0, <1>5, Returned DEF NothingToDo
<1>6. ASSUME NEW k \in Kernels, AbortDeadlock(k) PROVE WorkerInv'
  <2>1. /\ \A m \in Node : inv'[k][m] = "settled" /\ stray' = stray /\ node' = node
        /\ \A j \in Kernels \ {k} : inv'[j] = inv[j]
    BY <1>0, <1>6, Returned DEF AbortDeadlock
  <2>. QED
    BY <1>0, <2>1
<1>7. ASSUME NEW k \in Kernels, Batch(k) PROVE WorkerInv'
  <2>1. \A j \in Kernels, m \in Node : inv'[j][m] \in Working => inv[j][m] \in Working
    BY <1>0, <1>7 DEF Batch, TypeOK
  <2>. QED
    BY <1>0, <1>7, <2>1 DEF Batch
<1>8. ASSUME NEW k \in Kernels, NextRound(k) PROVE WorkerInv'
  BY <1>0, <1>8 DEF NextRound
<1>9. ASSUME NEW k \in Kernels, LastRound(k) PROVE WorkerInv'
  BY <1>0, <1>9, Returned DEF LastRound
<1>10. ASSUME NEW k \in Kernels, Crash(k) PROVE WorkerInv'
  BY <1>0, <1>10, Returned DEF Crash
<1>11. ASSUME NEW k \in Kernels, NEW n \in Node, BeforeNode(k, n) PROVE WorkerInv'
  <2>1. /\ inv'[k][n] \in Working => inv[k][n] \in Working
        /\ \A j \in Kernels, m \in Node : j # k \/ m # n => inv'[j][m] = inv[j][m]
    BY <1>0, <1>11, Moved DEF BeforeNode, Stages, Settled, Told
  <2>. QED
    BY <1>0, <1>11, <2>1 DEF BeforeNode
<1>12. ASSUME NEW k \in Kernels, NEW n \in Node, Claim(k, n) PROVE WorkerInv'
  <2>1. node[n] = "ready"
    BY <1>12 DEF Claim, MayClaim
  <2>2. \A j \in Kernels, m \in Node : j # k \/ m # n => inv'[j][m] = inv[j][m]
    BY <1>0, <1>12, Moved DEF Claim, Stages
  <2>3. node' = [node EXCEPT ![n] = "running"] /\ stray' = stray
    BY <1>12 DEF Claim
  <2>. QED
    BY <1>0, <2>1, <2>2, <2>3 DEF TypeOK
<1>13. ASSUME NEW k \in Kernels, NEW n \in Node, ClaimFails(k, n) PROVE WorkerInv'
  <2>1. /\ inv'[k][n] \in Working => inv[k][n] \in Working
        /\ \A j \in Kernels, m \in Node : j # k \/ m # n => inv'[j][m] = inv[j][m]
    BY <1>0, <1>13, Moved DEF ClaimFails, Stages, Settled, Told
  <2>. QED
    BY <1>0, <1>13, <2>1 DEF ClaimFails
<1>14. ASSUME NEW k \in Kernels, NEW n \in Node, CannotStart(k, n) PROVE WorkerInv'
  <2>1. /\ inv'[k][n] \in Working => inv[k][n] \in Working
        /\ \A j \in Kernels, m \in Node : j # k \/ m # n => inv'[j][m] = inv[j][m]
    BY <1>0, <1>14, Moved DEF CannotStart, Stages, Settled, Told
  <2>. QED
    BY <1>0, <1>14, <2>1 DEF CannotStart
<1>15. ASSUME NEW k \in Kernels, NEW n \in Node, Invoke(k, n) PROVE WorkerInv'
  <2>1. /\ inv'[k][n] \in Working => inv[k][n] \in Working
        /\ \A j \in Kernels, m \in Node : j # k \/ m # n => inv'[j][m] = inv[j][m]
    BY <1>0, <1>15, Moved DEF Invoke, Stages, Settled, Told
  <2>. QED
    BY <1>0, <1>15, <2>1 DEF Invoke
<1>16. ASSUME NEW k \in Kernels, NEW n \in Node, Complete(k, n) PROVE WorkerInv'
  <2>1. CASE MayComplete(n) /\ ~stray'
    <3>1. inv[k][n] \in Working /\ ~stray
      BY <1>16, <2>1 DEF Complete
    <3>2. \A m \in Node \ {n} : node[m] = "running" => node'[m] = "running"
      BY <1>0, <1>16, <2>1, RunningSteps DEF Complete
    <3>3. /\ inv'[k][n] \notin Working
          /\ \A j \in Kernels, m \in Node : j # k \/ m # n => inv'[j][m] = inv[j][m]
      BY <1>0, <1>16, <2>1, Moved DEF Complete, Stages, Told
    <3>. QED
      BY <1>0, <3>1, <3>2, <3>3
  <2>2. CASE ~MayComplete(n)
    <3>1. /\ inv'[k][n] \in Working => inv[k][n] \in Working
          /\ \A j \in Kernels, m \in Node : j # k \/ m # n => inv'[j][m] = inv[j][m]
      BY <1>0, <1>16, <2>2, Moved DEF Complete, Stages, Settled
    <3>. QED
      BY <1>0, <1>16, <2>2, <3>1 DEF Complete
  <2>3. CASE stray'
    BY <1>0, <2>3
  <2>. QED
    BY <2>1, <2>2, <2>3
<1>17. ASSUME NEW k \in Kernels, NEW n \in Node, Fallback(k, n) PROVE WorkerInv'
  <2>1. CASE MayComplete(n) /\ ~stray'
    <3>1. inv[k][n] \in Working /\ ~stray
      BY <1>17, <2>1 DEF Fallback
    <3>2. \A m \in Node \ {n} : node[m] = "running" => node'[m] = "running"
      BY <1>0, <1>17, <2>1, RunningSteps DEF Fallback
    <3>3. /\ inv'[k][n] \notin Working
          /\ \A j \in Kernels, m \in Node : j # k \/ m # n => inv'[j][m] = inv[j][m]
      BY <1>0, <1>17, <2>1, Moved DEF Fallback, Stages, Told
    <3>. QED
      BY <1>0, <3>1, <3>2, <3>3
  <2>2. CASE ~MayComplete(n)
    <3>1. /\ inv'[k][n] \in Working => inv[k][n] \in Working
          /\ \A j \in Kernels, m \in Node : j # k \/ m # n => inv'[j][m] = inv[j][m]
      BY <1>0, <1>17, <2>2, Moved DEF Fallback, Stages, Settled
    <3>. QED
      BY <1>0, <1>17, <2>2, <3>1 DEF Fallback
  <2>3. CASE stray'
    BY <1>0, <2>3
  <2>. QED
    BY <2>1, <2>2, <2>3
<1>18. ASSUME NEW k \in Kernels, NEW n \in Node, AfterNode(k, n) PROVE WorkerInv'
  <2>1. /\ inv'[k][n] \in Working => inv[k][n] \in Working
        /\ \A j \in Kernels, m \in Node : j # k \/ m # n => inv'[j][m] = inv[j][m]
    BY <1>0, <1>18, Moved DEF AfterNode, Stages, Settled, Told
  <2>. QED
    BY <1>0, <1>18, <2>1 DEF AfterNode
<1>19. ASSUME NEW k \in Kernels, NEW n \in Node, AfterNodeFails(k, n) PROVE WorkerInv'
  <2>1. /\ inv'[k][n] \in Working => inv[k][n] \in Working
        /\ \A j \in Kernels, m \in Node : j # k \/ m # n => inv'[j][m] = inv[j][m]
    BY <1>0, <1>19, Moved DEF AfterNodeFails, Stages, Settled, Told
  <2>. QED
    BY <1>0, <1>19, <2>1 DEF AfterNodeFails
<1>20. ASSUME NEW n \in Node, Resolve(n) PROVE WorkerInv'
  <2>1. \A m \in Node : node[m] = "running" => node'[m] = "running"
    BY <1>0, <1>20, RunningSteps DEF Resolve, TypeOK
  <2>. QED
    BY <1>0, <1>20, <2>1 DEF Resolve
<1>21. ASSUME NEW n \in Node, Break(n) PROVE WorkerInv'
  BY <1>0, <1>21 DEF Break
<1>22. ASSUME NEW n \in Node, BypassBreakpointOnce(n) PROVE WorkerInv'
  BY <1>0, <1>22 DEF BypassBreakpointOnce
<1>23. ASSUME Pause PROVE WorkerInv'
  BY <1>0, <1>23 DEF Pause
<1>24. ASSUME Step PROVE WorkerInv'
  BY <1>0, <1>24 DEF Step
<1>25. ASSUME Continue PROVE WorkerInv'
  BY <1>0, <1>25 DEF Continue
<1>26. ASSUME Clear PROVE WorkerInv'
  BY <1>0, <1>26 DEF Clear
<1>27. ASSUME Abort PROVE WorkerInv'
  BY <1>0, <1>27 DEF Abort
<1>28. CASE UNCHANGED vars
  BY <1>0, <1>28
<1>. QED
  BY <1>1, <1>2, <1>3, <1>4, <1>5, <1>6, <1>7, <1>8, <1>9, <1>10, <1>11, <1>12, <1>13, <1>14, <1>15, <1>16, <1>17, <1>18, <1>19, <1>20, <1>21, <1>22, <1>23, <1>24, <1>25, <1>26, <1>27, <1>28 DEF Next, Round, Invocation, Operator

\* At most one process executes a node, and the graph knows that it is running.
THEOREM SingleWorker == Spec => []OneWorker
<1>1. Init => WorkerInv
  BY TypeInit DEF Init, WorkerInv, OneWorker, Working
<1>2. WorkerInv /\ [Next]_vars => WorkerInv'
  BY WorkerStep
<1>3. WorkerInv => OneWorker
  BY DEF WorkerInv
<1>. QED
  BY <1>1, <1>2, <1>3, PTL DEF Spec

-------------------------------------------------------------------------------
\* A kernel has invocations only while it waits for them.
OrphanInv ==
  /\ TypeOK /\ NoOrphans
  /\ \A k \in Kernels : pc[k] # "wait" => \A n \in Node : inv[k][n] = "settled"

\* Every step preserves it: a kernel lets go of a running node by completing it,
\* by dying, or when the run does not take its result.
LEMMA OrphanStep ==
  ASSUME OrphanInv, [Next]_vars
  PROVE  OrphanInv'
<1>0. TypeOK /\ TypeOK'
  BY TypeStep DEF OrphanInv
<1>. USE DEF OrphanInv, NoOrphans, In, vars, run, debugger, kernel, Goto, Fault, Counted, Command, Working
<1>1. ASSUME NEW k \in Kernels, Resume(k) PROVE OrphanInv'
  BY <1>0, <1>1 DEF Resume, TypeOK
<1>2. ASSUME NEW k \in Kernels, Status(k) PROVE OrphanInv'
  BY <1>0, <1>2 DEF Status, TypeOK
<1>3. ASSUME NEW k \in Kernels, OnStatus(k) PROVE OrphanInv'
  BY <1>0, <1>3 DEF OnStatus, TypeOK
<1>4. ASSUME NEW k \in Kernels, CreateDebug(k) PROVE OrphanInv'
  BY <1>0, <1>4 DEF CreateDebug, TypeOK
<1>5. ASSUME NEW k \in Kernels, NothingToDo(k) PROVE OrphanInv'
  <2>1. /\ \A m \in Node : inv[k][m] = "settled" /\ inv'[k][m] = "settled"
        /\ pc'[k] # "wait" /\ \A j \in Kernels \ {k} : pc'[j] = pc[j] /\ inv'[j] = inv[j]
    BY <1>0, <1>5, Returned DEF NothingToDo
  <2>2. node' = node /\ status' = status /\ lost' = lost
    BY <1>5 DEF NothingToDo
  <2>. QED
    BY <1>0, <2>1, <2>2
<1>6. ASSUME NEW k \in Kernels, AbortDeadlock(k) PROVE OrphanInv'
  <2>1. \A j \in Kernels : pc'[j] # "wait" => \A n \in Node : inv'[j][n] = "settled"
    BY <1>0, <1>6, Returned DEF AbortDeadlock
  <2>2. NoOrphans'
    BY <1>0, <1>6, Returned DEF AbortDeadlock, Settled, TypeOK, Ended
  <2>. QED
    BY <1>0, <2>1, <2>2
<1>7. ASSUME NEW k \in Kernels, Batch(k) PROVE OrphanInv'
  <2>1. \A j \in Kernels, m \in Node : inv[j][m] \in Working => inv'[j][m] = inv[j][m]
    BY <1>0, <1>7 DEF Batch, TypeOK
  <2>2. \A j \in Kernels : pc'[j] # "wait" => \A n \in Node : inv'[j][n] = "settled"
    BY <1>0, <1>7 DEF Batch, TypeOK
  <2>. QED
    BY <1>0, <1>7, <2>1, <2>2 DEF Batch
<1>8. ASSUME NEW k \in Kernels, NextRound(k) PROVE OrphanInv'
  BY <1>0, <1>8 DEF NextRound, TypeOK
<1>9. ASSUME NEW k \in Kernels, LastRound(k) PROVE OrphanInv'
  <2>1. \A j \in Kernels : pc'[j] # "wait" => \A n \in Node : inv'[j][n] = "settled"
    BY <1>0, <1>9, Returned DEF LastRound
  <2>2. NoOrphans'
    BY <1>0, <1>9, Returned DEF LastRound, Settled, TypeOK, Ended
  <2>. QED
    BY <1>0, <2>1, <2>2
<1>10. ASSUME NEW k \in Kernels, Crash(k) PROVE OrphanInv'
  <2>1. \A j \in Kernels : pc'[j] # "wait" => \A n \in Node : inv'[j][n] = "settled"
    BY <1>0, <1>10, Returned DEF Crash
  <2>2. NoOrphans'
    BY <1>0, <1>10, Returned DEF Crash, Settled, TypeOK, Ended
  <2>. QED
    BY <1>0, <2>1, <2>2
<1>11. ASSUME NEW k \in Kernels, NEW n \in Node, BeforeNode(k, n) PROVE OrphanInv'
  <2>1. /\ inv[k][n] # "settled" /\ pc' = pc
        /\ \A j \in Kernels, m \in Node : j # k \/ m # n => inv'[j][m] = inv[j][m]
    BY <1>0, <1>11, Moved DEF BeforeNode, Stages, Settled, Told
  <2>2. \A j \in Kernels : pc'[j] # "wait" => \A m \in Node : inv'[j][m] = "settled"
    BY <1>0, <2>1
  <2>3. inv[k][n] \in Working => inv'[k][n] \in Working
    BY <1>0, <1>11, Moved DEF BeforeNode, Stages, Told
  <2>. QED
    BY <1>0, <1>11, <2>1, <2>2, <2>3 DEF BeforeNode
<1>12. ASSUME NEW k \in Kernels, NEW n \in Node, Claim(k, n) PROVE OrphanInv'
  <2>1. /\ inv[k][n] # "settled" /\ pc' = pc
        /\ \A j \in Kernels, m \in Node : j # k \/ m # n => inv'[j][m] = inv[j][m]
    BY <1>0, <1>12, Moved DEF Claim, Stages, Settled, Told
  <2>2. \A j \in Kernels : pc'[j] # "wait" => \A m \in Node : inv'[j][m] = "settled"
    BY <1>0, <2>1
  <2>3. inv'[k][n] \in Working
    BY <1>0, <1>12, Moved DEF Claim, Stages
  <2>4. \A m \in Node \ {n} : node'[m] = node[m]
    BY <1>0, <1>12 DEF Claim, TypeOK
  <2>. QED
    BY <1>0, <1>12, <2>1, <2>2, <2>3, <2>4 DEF Claim
<1>13. ASSUME NEW k \in Kernels, NEW n \in Node, ClaimFails(k, n) PROVE OrphanInv'
  <2>1. /\ inv[k][n] # "settled" /\ pc' = pc
        /\ \A j \in Kernels, m \in Node : j # k \/ m # n => inv'[j][m] = inv[j][m]
    BY <1>0, <1>13, Moved DEF ClaimFails, Stages, Settled, Told
  <2>2. \A j \in Kernels : pc'[j] # "wait" => \A m \in Node : inv'[j][m] = "settled"
    BY <1>0, <2>1
  <2>3. inv[k][n] \in Working => inv'[k][n] \in Working
    BY <1>0, <1>13, Moved DEF ClaimFails, Stages, Told
  <2>. QED
    BY <1>0, <1>13, <2>1, <2>2, <2>3 DEF ClaimFails
<1>14. ASSUME NEW k \in Kernels, NEW n \in Node, CannotStart(k, n) PROVE OrphanInv'
  <2>1. /\ inv[k][n] # "settled" /\ pc' = pc
        /\ \A j \in Kernels, m \in Node : j # k \/ m # n => inv'[j][m] = inv[j][m]
    BY <1>0, <1>14, Moved DEF CannotStart, Stages, Settled, Told
  <2>2. \A j \in Kernels : pc'[j] # "wait" => \A m \in Node : inv'[j][m] = "settled"
    BY <1>0, <2>1
  <2>. QED
    BY <1>0, <1>14, <2>1, <2>2 DEF CannotStart
<1>15. ASSUME NEW k \in Kernels, NEW n \in Node, Invoke(k, n) PROVE OrphanInv'
  <2>1. /\ inv[k][n] # "settled" /\ pc' = pc
        /\ \A j \in Kernels, m \in Node : j # k \/ m # n => inv'[j][m] = inv[j][m]
    BY <1>0, <1>15, Moved DEF Invoke, Stages, Settled, Told
  <2>2. \A j \in Kernels : pc'[j] # "wait" => \A m \in Node : inv'[j][m] = "settled"
    BY <1>0, <2>1
  <2>3. inv[k][n] \in Working => inv'[k][n] \in Working
    BY <1>0, <1>15, Moved DEF Invoke, Stages, Told
  <2>. QED
    BY <1>0, <1>15, <2>1, <2>2, <2>3 DEF Invoke
<1>16. ASSUME NEW k \in Kernels, NEW n \in Node, Complete(k, n) PROVE OrphanInv'
  <2>1. /\ inv[k][n] # "settled" /\ pc' = pc
        /\ \A j \in Kernels, m \in Node : j # k \/ m # n => inv'[j][m] = inv[j][m]
    BY <1>0, <1>16, Moved DEF Complete, Stages, Settled, Told
  <2>2. \A j \in Kernels : pc'[j] # "wait" => \A m \in Node : inv'[j][m] = "settled"
    BY <1>0, <2>1
  <2>3. CASE MayComplete(n)
    <3>1. \A m \in Node : node'[m] = "running" => m # n /\ node[m] = "running"
      BY <1>0, <1>16, <2>3, RunningSteps DEF Complete
    <3>2. status \notin Ended /\ lost' = lost
      BY <1>16, <2>3 DEF Complete, MayComplete, Ended
    <3>. QED
      BY <1>0, <2>1, <2>2, <3>1, <3>2
  <2>4. CASE ~MayComplete(n)
    <3>1. inv'[k][n] \in Working
      BY <1>0, <1>16, <2>4, Moved DEF Complete, Stages
    <3>. QED
      BY <1>0, <1>16, <2>1, <2>2, <2>4, <3>1 DEF Complete
  <2>. QED
    BY <2>3, <2>4
<1>17. ASSUME NEW k \in Kernels, NEW n \in Node, Fallback(k, n) PROVE OrphanInv'
  <2>1. /\ inv[k][n] # "settled" /\ pc' = pc
        /\ \A j \in Kernels, m \in Node : j # k \/ m # n => inv'[j][m] = inv[j][m]
    BY <1>0, <1>17, Moved DEF Fallback, Stages, Settled, Told
  <2>2. \A j \in Kernels : pc'[j] # "wait" => \A m \in Node : inv'[j][m] = "settled"
    BY <1>0, <2>1
  <2>3. CASE MayComplete(n)
    <3>1. \A m \in Node : node'[m] = "running" => m # n /\ node[m] = "running"
      BY <1>0, <1>17, <2>3, RunningSteps DEF Fallback
    <3>2. status \notin Ended /\ lost' = lost
      BY <1>17, <2>3 DEF Fallback, MayComplete, Ended
    <3>. QED
      BY <1>0, <2>1, <2>2, <3>1, <3>2
  <2>4. CASE ~MayComplete(n)
    <3>1. inv[k][n] \in {"fallback", "late"} /\ lost \subseteq lost'
      BY <1>17, <2>4 DEF Fallback
    <3>2. node[n] = "running" /\ status \notin Ended /\ inv[k][n] = "fallback" => n \in lost'
      BY <1>0, <1>17, <2>4 DEF Fallback, MayComplete, TypeOK, RunStatus
    <3>. QED
      BY <1>0, <1>17, <2>1, <2>2, <2>4, <3>1, <3>2 DEF Fallback
  <2>. QED
    BY <2>3, <2>4
<1>18. ASSUME NEW k \in Kernels, NEW n \in Node, AfterNode(k, n) PROVE OrphanInv'
  <2>1. /\ inv[k][n] # "settled" /\ pc' = pc
        /\ \A j \in Kernels, m \in Node : j # k \/ m # n => inv'[j][m] = inv[j][m]
    BY <1>0, <1>18, Moved DEF AfterNode, Stages, Settled, Told
  <2>2. \A j \in Kernels : pc'[j] # "wait" => \A m \in Node : inv'[j][m] = "settled"
    BY <1>0, <2>1
  <2>3. inv[k][n] \in Working => inv'[k][n] \in Working
    BY <1>0, <1>18, Moved DEF AfterNode, Stages, Told
  <2>. QED
    BY <1>0, <1>18, <2>1, <2>2, <2>3 DEF AfterNode
<1>19. ASSUME NEW k \in Kernels, NEW n \in Node, AfterNodeFails(k, n) PROVE OrphanInv'
  <2>1. /\ inv[k][n] # "settled" /\ pc' = pc
        /\ \A j \in Kernels, m \in Node : j # k \/ m # n => inv'[j][m] = inv[j][m]
    BY <1>0, <1>19, Moved DEF AfterNodeFails, Stages, Settled, Told
  <2>2. \A j \in Kernels : pc'[j] # "wait" => \A m \in Node : inv'[j][m] = "settled"
    BY <1>0, <2>1
  <2>3. inv[k][n] \in Working => inv'[k][n] \in Working
    BY <1>0, <1>19, Moved DEF AfterNodeFails, Stages, Told
  <2>. QED
    BY <1>0, <1>19, <2>1, <2>2, <2>3 DEF AfterNodeFails
<1>20. ASSUME NEW n \in Node, Resolve(n) PROVE OrphanInv'
  <2>1. \A m \in Node : node'[m] = "running" => node[m] = "running"
    BY <1>0, <1>20, RunningSteps DEF Resolve, TypeOK
  <2>2. status \notin Ended /\ lost' = lost
    BY <1>20 DEF Resolve, Ended
  <2>. QED
    BY <1>0, <1>20, <2>1, <2>2 DEF Resolve
<1>21. ASSUME NEW n \in Node, Break(n) PROVE OrphanInv'
  BY <1>0, <1>21 DEF Break
<1>22. ASSUME NEW n \in Node, BypassBreakpointOnce(n) PROVE OrphanInv'
  BY <1>0, <1>22 DEF BypassBreakpointOnce
<1>23. ASSUME Pause PROVE OrphanInv'
  BY <1>0, <1>23 DEF Pause
<1>24. ASSUME Step PROVE OrphanInv'
  BY <1>0, <1>24 DEF Step
<1>25. ASSUME Continue PROVE OrphanInv'
  BY <1>0, <1>25 DEF Continue
<1>26. ASSUME Clear PROVE OrphanInv'
  BY <1>0, <1>26 DEF Clear
<1>27. ASSUME Abort PROVE OrphanInv'
  BY <1>0, <1>27 DEF Abort, Ended
<1>28. CASE UNCHANGED vars
  BY <1>0, <1>28
<1>. QED
  BY <1>1, <1>2, <1>3, <1>4, <1>5, <1>6, <1>7, <1>8, <1>9, <1>10, <1>11, <1>12, <1>13, <1>14, <1>15, <1>16, <1>17, <1>18, <1>19, <1>20, <1>21, <1>22, <1>23, <1>24, <1>25, <1>26, <1>27, <1>28 DEF Next, Round, Invocation, Operator

\* No running node is forgotten, unless it was given up in a way that NoOrphans
\* names.
THEOREM Attended == Spec => []NoOrphans
<1>1. Init => OrphanInv
  BY TypeInit DEF Init, OrphanInv, NoOrphans, In
<1>2. OrphanInv /\ [Next]_vars => OrphanInv'
  BY OrphanStep
<1>3. OrphanInv => NoOrphans
  BY DEF OrphanInv
<1>. QED
  BY <1>1, <1>2, <1>3, PTL DEF Spec
===============================================================================

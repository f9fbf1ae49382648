------------------------------- MODULE Workers --------------------------------
(***************************************************************************)
(* The worker adapters of runtime/adapters and runtime/hosts: one promise    *)
(* for each invocation of a node, around a child process (runProcess), a Pi  *)
(* RPC child, a task dispatched to Orca or a session of an OpenCode server.  *)
(*                                                                           *)
(* The timers, the events of the child and the steps of the adapter come in  *)
(* any order.  A child may hang for ever.  What a worker writes is reduced   *)
(* to whose result it is and whether it can be parsed.  The abort signal of  *)
(* the caller is left out: nobody in src/ passes one to the kernel.          *)
(***************************************************************************)
EXTENDS Naturals, FiniteSets

CONSTANTS
  Invocation,      \* the invocations, in any order and overlapping
  Adapter,         \* Adapter[i]: what may carry invocation i out
  MaxCheckpoints,  \* adapters.orca.max_checkpoints
  MaxMail,         \* bound on the messages of Orca's workers
  AllowInline,     \* adapters.orca.allow_inline_result
  CancelsUi        \* uiPolicy of the Pi adapter is "cancel"

ASSUME WorkersAssumption ==
  /\ Adapter \in [Invocation -> SUBSET {"process", "pi", "orca", "opencode"}]
  /\ MaxCheckpoints \in Nat /\ MaxMail \in Nat
  /\ {AllowInline, CancelsUi} \subseteq BOOLEAN

None == "none"
NothingYet == <<>>

VARIABLES
  inv,    \* inv[i]: the promise of invocation i
  child,  \* child[i]: its process, its session or its terminal
  mail,   \* what the workers have sent to Orca's coordinator
  fault   \* those that timed out, overflowed or failed (history)

workerVars == <<inv, child, mail, fault>>

Settled == {"resolved", "rejected"}

(* What a worker may send: "other" is a dispatch that is not this one, the     *)
(* second copy a worker_done sent twice, and Elsewhere the task of another run *)
(* whose workers report to the same coordinator.                               *)
Elsewhere == "elsewhere"
Message ==
  {[type |-> t, task |-> i, dispatch |-> "own", copy |-> 1] :
     t \in {"worker_done", "escalation", "decision_gate"}, i \in Invocation}
  \cup {[type |-> "worker_done", task |-> i, dispatch |-> "other", copy |-> 1] : i \in Invocation}
  \cup {[type |-> "worker_done", task |-> i, dispatch |-> "own", copy |-> 2] : i \in Invocation}
Foreign == [type : {"worker_done"}, task : {Elsewhere}, dispatch : {"own"}, copy : {1}]

WorkersTypeOK ==
  /\ inv \in [Invocation ->
               [pc : {"idle", "running", "aborted", "dispatching", "checking",
                      "reading", "aborting", "lost"} \cup Settled,
                via : {"process", "pi", "orca", "opencode", None},
                checks : 0..MaxCheckpoints,
                result : ((Invocation \cup {Elsewhere}) \X {"own", "other"}) \cup {NothingYet}]]
  /\ child \in [Invocation -> {"none", "alive", "gone"}]
  /\ mail \subseteq Message \cup Foreign
  /\ fault \subseteq Invocation

WorkersInit ==
  /\ inv = [i \in Invocation |-> [pc |-> "idle", via |-> None, checks |-> 0, result |-> NothingYet]]
  /\ child = [i \in Invocation |-> "none"]
  /\ mail = {} /\ fault = {}

At(i, p) == inv[i].pc = p
Goes(i, p) == inv' = [inv EXCEPT ![i].pc = p]
ChildIs(i, s) == child' = [child EXCEPT ![i] = s]
Uses(i, a) == inv[i].via \in a

Resolve(i, r) == inv' = [inv EXCEPT ![i].pc = "resolved", ![i].result = r]
Own(i) == <<i, "own">>
Reject(i) == Goes(i, "rejected")
Blame(i) == fault' = fault \cup {i}

-----------------------------------------------------------------------------
(* A child that is told to stop with SIGKILL stops; with SIGTERM, as finish  *)
(* of the Pi adapter does it, it need not.                                   *)
Sigkill(i) == ChildIs(i, "gone")
Sigterm(i) == UNCHANGED child \/ ChildIs(i, "gone")

(* invoke: the child is spawned, the session created or the task admitted, or *)
(* it cannot be.                                                              *)
Begins(i, a, p) == inv' = [inv EXCEPT ![i].via = a, ![i].pc = p]
SpawnProcess(i) == Begins(i, "process", "running") /\ ChildIs(i, "alive")
SpawnPi(i) == Begins(i, "pi", "running") /\ ChildIs(i, "alive")
CreateSession(i) == Begins(i, "opencode", "running") /\ ChildIs(i, "alive")
Admit(i) == Begins(i, "orca", "dispatching") /\ UNCHANGED child
Refuse(i, a) == Begins(i, a, "rejected") /\ UNCHANGED child

Invoke(i) ==
  /\ At(i, "idle")
  /\ \/ "process" \in Adapter[i] /\ SpawnProcess(i)
     \/ "pi" \in Adapter[i] /\ SpawnPi(i)
     \/ "opencode" \in Adapter[i] /\ CreateSession(i)
     \/ "orca" \in Adapter[i] /\ Admit(i)
     \/ \E a \in Adapter[i] : Refuse(i, a)
  /\ UNCHANGED <<mail, fault>>

(* The child ends; what it has written, and its exit code, may be no good. *)
Exit(i) ==
  /\ Uses(i, {"process", "pi"}) /\ child[i] = "alive" /\ ChildIs(i, "gone")
  /\ UNCHANGED fault \/ (Uses(i, {"process"}) /\ Blame(i))
  /\ UNCHANGED <<inv, mail>>

(* More on stdout or stderr than the limit allows, or the timer: runProcess     *)
(* aborts its controller and kills, and settles when the child has closed; the  *)
(* Pi adapter settles at once; an HTTP request to OpenCode fails.               *)
TerminateProcess(i) == Uses(i, {"process"}) /\ Goes(i, "aborted") /\ Sigkill(i)
FinishPi(i) == Uses(i, {"pi"}) /\ Reject(i) /\ Sigterm(i)
RequestFails(i) == Uses(i, {"opencode"}) /\ Goes(i, "aborting") /\ UNCHANGED child

Overflow(i) ==
  /\ At(i, "running") /\ child[i] = "alive" /\ Blame(i)
  /\ TerminateProcess(i) \/ FinishPi(i)
  /\ UNCHANGED mail

TimesOutPolitely(i) ==
  /\ At(i, "running") /\ Blame(i)
  /\ TerminateProcess(i) \/ (Uses(i, {"pi"}) /\ UNCHANGED <<inv, child>>) \/ RequestFails(i)
  /\ UNCHANGED mail

TimesOut(i) ==
  /\ At(i, "running") /\ Blame(i)
  /\ TerminateProcess(i) \/ FinishPi(i) \/ RequestFails(i)
  /\ UNCHANGED mail

(* The handlers of "close": of a process an overflow and an abort win over an  *)
(* exit code, and stdout must hold an AgentResult; of Pi it is too early.      *)
ProcessCloses(i) ==
  /\ Uses(i, {"process"}) /\ child[i] = "gone"
  /\ inv[i].pc \in {"running", "aborted"}
  /\ IF At(i, "running") /\ i \notin fault THEN Resolve(i, Own(i)) ELSE Reject(i)
  /\ UNCHANGED <<child, mail, fault>>

PiCloses(i) ==
  /\ Uses(i, {"pi"}) /\ child[i] = "gone" /\ At(i, "running")
  /\ Reject(i)
  /\ UNCHANGED <<child, mail, fault>>

(* A line of Pi's stdout, the last of which may come after its end: what is  *)
(* malformed or refused settles the promise, as does agent_settled.          *)
Line(i) ==
  /\ Uses(i, {"pi"}) /\ At(i, "running") /\ child[i] \in {"alive", "gone"}
  /\ \/ /\ Reject(i) /\ Blame(i) /\ Sigterm(i)      \* malformed, prompt refused, extension error
     \/ /\ ~CancelsUi /\ Reject(i) /\ Sigterm(i)    \* a blocking UI request
        /\ UNCHANGED fault
     \/ /\ Resolve(i, Own(i)) \/ Reject(i)               \* agent_settled: parsePiResult
        /\ Sigterm(i) /\ UNCHANGED fault
  /\ UNCHANGED mail

-----------------------------------------------------------------------------
(* OrcaExecutionHost.execute: task-create, worktree create, terminal list and *)
(* wait, dispatch.  Each call may fail, and what was made is left there; when *)
(* the dispatch fails by its timeout the worker may have got it all the same. *)
Dispatch(i) ==
  /\ Uses(i, {"orca"}) /\ At(i, "dispatching")
  /\ \/ Goes(i, "checking") /\ ChildIs(i, "alive")
     \/ Reject(i) /\ (UNCHANGED child \/ ChildIs(i, "alive"))
  /\ UNCHANGED <<mail, fault>>

(* The worker reports, escalates or asks, perhaps twice, perhaps for a dispatch *)
(* that Orca has replaced.                                                      *)
Says(i) ==
  /\ Uses(i, {"orca"}) /\ child[i] = "alive" /\ Cardinality(mail) < MaxMail
  /\ \E m \in (Message \cup Foreign) \ mail :
       /\ m.task \in {i, Elsewhere}
       /\ m.copy = 2 => [m EXCEPT !.copy = 1] \in mail
       /\ mail' = mail \cup {m}
       /\ IF m.type = "worker_done" /\ m.task = i THEN ChildIs(i, "alive") \/ ChildIs(i, "gone")
                                    ELSE UNCHANGED child
  /\ UNCHANGED <<inv, fault>>

OfAnyTask(i, batch) == {m \in batch : m.dispatch = "own"}

(* The messages of a check that are for this task and this dispatch. *)
Matching(i, batch) == {m \in batch : m.task = i /\ m.dispatch = "own"}
OfType(ms, t) == {m \in ms : m.type = t}

(* What the adapter takes from a worker_done: the report at the agreed path, *)
(* or, when that is allowed, the body of the message itself.                 *)
Report(i, m) == IF m.task = i \/ AllowInline THEN {<<m.task, m.dispatch>>, NothingYet} ELSE {NothingYet}

CheckAgain(i) == inv[i].checks < MaxCheckpoints /\ inv' = [inv EXCEPT ![i].checks = inv[i].checks + 1]
GiveUpChecking(i) == inv[i].checks >= MaxCheckpoints /\ Reject(i)

(* What a worker reports counts before what it asks. *)
Takes(i, ms) ==
  LET done == OfType(ms, "worker_done")
      calls == OfType(ms, "escalation")
      gates == OfType(ms, "decision_gate")
  IN \/ Cardinality(done) > 1 /\ Reject(i)
     \/ /\ Cardinality(done) = 1
        /\ \E m \in done : \E r \in Report(i, m) :
             IF r = NothingYet THEN Reject(i) ELSE Resolve(i, r)
     \/ done = {} /\ \E m \in calls : Resolve(i, <<m.task, m.dispatch>>)
     \/ /\ done = {} /\ calls = {} /\ inv[i].checks >= MaxCheckpoints
        /\ \E m \in gates : Resolve(i, <<m.task, m.dispatch>>)
     \/ done = {} /\ calls = {} /\ gates = {} /\ GiveUpChecking(i)
     \/ done = {} /\ calls = {} /\ CheckAgain(i)
     \/ done = {} /\ calls = {} /\ inv[i].checks < MaxCheckpoints /\ Reject(i)   \* task-list failed

(* One round of awaitResult: the check waits and times out, or brings some of *)
(* the mail.  Messages for others spend a checkpoint as well.                 *)
CheckMail(i) ==
  /\ At(i, "checking")
  /\ CheckAgain(i) \/ GiveUpChecking(i) \/ \E batch \in SUBSET mail \ {{}} : Takes(i, Matching(i, batch))
  /\ UNCHANGED <<child, mail, fault>>

-----------------------------------------------------------------------------
(* OpenCodeExecutionHost.execute: the session answers, with a result that can *)
(* be used or not; on any error the session is aborted before the promise is  *)
(* rejected, and either call to the server may fail unnoticed.                *)
Reply(i) ==
  /\ Uses(i, {"opencode"}) /\ At(i, "running") /\ child[i] = "alive"
  /\ \/ Resolve(i, Own(i)) /\ UNCHANGED fault
     \/ Goes(i, "aborting") /\ Blame(i)
  /\ ChildIs(i, "gone")
  /\ UNCHANGED mail

AbortSession(i) ==
  /\ At(i, "aborting") /\ Reject(i)
  /\ UNCHANGED child \/ ChildIs(i, "gone")
  /\ UNCHANGED <<mail, fault>>

-----------------------------------------------------------------------------
(* What the adapter does of itself, and what the workers do if they like. *)
AdapterStep(i) == ProcessCloses(i) \/ PiCloses(i) \/ TimesOut(i) \/ Dispatch(i) \/ CheckMail(i) \/ AbortSession(i)
ChildStep(i) == Exit(i) \/ Overflow(i) \/ Line(i) \/ Says(i) \/ Reply(i)

(* The process with the adapters has died: its promises are gone, its *)
(* children need not be.                                              *)
Lose(S) == inv' = [i \in Invocation |->
                     IF i \in S /\ inv[i].pc \notin Settled THEN [inv[i] EXCEPT !.pc = "lost"] ELSE inv[i]]

-----------------------------------------------------------------------------
(* The kernel is given the result of the worker it has called, and none that *)
(* was cut off by a timeout, a limit, a failing exit code or an error line.  *)
ResultIsOwn ==
  \A i \in Invocation : At(i, "resolved") => inv[i].result = Own(i) /\ i \notin fault
=============================================================================

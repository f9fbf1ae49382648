------------------------------- MODULE ActiveRun -------------------------------
(***************************************************************************)
(* The guard of a project: the file active/<project>.json names the one run  *)
(* that the project is working on.  startRun and startGraphRun set it,       *)
(* whoever ends the run clears it, and the hooks of the host, which read it  *)
(* before every tool call, clear it if a run has ended and still has it.     *)
(*                                                                           *)
(* The file and the runs are different files with different locks: between   *)
(* the check, the setting of the guard, the creation of the run and its      *)
(* first advance other processes come in, and a crash leaves some of it      *)
(* behind.  Each access to a file is a step of its own here; a run is only   *)
(* its status (RunStore and GraphRuntime say what happens inside of it).     *)
(*                                                                           *)
(* A hook decides on a tool call by the run that it finds open (HookGuard    *)
(* says how), and if the call is to be paid for, looks for the run again.    *)
(***************************************************************************)
EXTENDS Naturals, FiniteSets

CONSTANTS
  Clients,    \* processes that start, end and abort runs
  Hooks,      \* processes that run a hook of the host
  Runs,       \* the run ids, each started at most once
  NoRun,
  MaxFaults,  \* bound on the failures of a behaviour
  Faults      \* the failures the environment may produce

(***************************************************************************)
(*   crash           a process dies between two of its steps                 *)
(*   crash_in_start  it dies while the guard names a run it has not created  *)
(*   error           createRun throws                                        *)
(*   advance_error   the first advance of a new graph run throws             *)
(***************************************************************************)
AllFaults == {"crash", "crash_in_start", "error", "advance_error"}

Procs == Clients \cup Hooks

ASSUME GuardAssumption ==
  /\ NoRun \notin Runs /\ Clients \cap Hooks = {}
  /\ MaxFaults \in Nat /\ Faults \subseteq AllFaults

VARIABLES
  active,  \* the run named by the file, NoRun if there is no file
  run,     \* run[r]: see Statuses
  pc,      \* pc[p]: the step process p is about to take
  mine,    \* mine[p]: the run it is working on
  decided, \* decided[h]: the run by which h decided on the tool call it handles
  faults

vars == <<active, run, pc, mine, decided, faults>>

Open == {"active", "stopped"}
Over == {"finalized", "aborted"}

(***************************************************************************)
(*   none      no such run                                                   *)
(*   dir       its directory exists, but no state in it                      *)
(*   active    active or waiting_approval                                    *)
(*   stopped   failed or budget_exceeded: it may only be aborted             *)
(*   orphan    like active or stopped, but its start ended in an error: the  *)
(*             guard is released and nobody has been given the run's id      *)
(***************************************************************************)
Statuses == {"none", "dir", "orphan"} \cup Open \cup Over
Starting == {"set", "create", "advance", "undo"}
Paying == {"ask", "look", "unset", "reserve", "let"}
Steps == {"idle", "hook", "clear"} \cup Starting \cup Paying

Init ==
  /\ active = NoRun
  /\ run = [r \in Runs |-> "none"]
  /\ pc = [p \in Procs |-> "idle"] /\ mine = [p \in Procs |-> NoRun]
  /\ decided = [p \in Procs |-> NoRun]
  /\ faults = 0

Move(p, step, r) == pc' = [pc EXCEPT ![p] = step] /\ mine' = [mine EXCEPT ![p] = r]
Goto(p, step) == pc' = [pc EXCEPT ![p] = step] /\ UNCHANGED <<mine, decided>>
Work(p, step, r) == Move(p, step, r) /\ UNCHANGED decided
Return(p) == Move(p, "idle", NoRun) /\ decided' = [decided EXCEPT ![p] = NoRun]

Becomes(r, status) == run' = [run EXCEPT ![r] = status]

Fault(kind) ==
  /\ kind \in Faults /\ faults < MaxFaults
  /\ faults' = faults + 1
-------------------------------------------------------------------------------
(* startRun, startGraphRun *)

\* There is no active run: a fresh id is drawn.
Check(p) ==
  /\ pc[p] = "idle" /\ active = NoRun
  /\ \E r \in Runs : /\ run[r] = "none" /\ \A q \in Procs : mine[q] # r
                     /\ Work(p, "set", r)
  /\ UNCHANGED <<active, run, faults>>

\* Mutant of SetActive: the file is written without another look at it.
SetActiveAnyway(p) ==
  /\ pc[p] = "set"
  /\ active' = mine[p] /\ Goto(p, "create")
  /\ UNCHANGED <<run, faults>>

\* Under the lock of the file; throws if another run got there first.
SetActive(p) ==
  /\ pc[p] = "set"
  /\ \/ active \in {NoRun, mine[p]} /\ active' = mine[p] /\ Goto(p, "create")
     \/ active \notin {NoRun, mine[p]} /\ Return(p) /\ UNCHANGED active
  /\ UNCHANGED <<run, faults>>

\* startRun is done, startGraphRun advances the run.
Create(p) ==
  /\ pc[p] = "create" /\ run[mine[p]] = "none"
  /\ Becomes(mine[p], "active")
  /\ Return(p) \/ Goto(p, "advance")
  /\ UNCHANGED <<active, faults>>

\* The directory already exists, or a file operation throws.
CreateFails(p) ==
  /\ pc[p] = "create"
  /\ (run[mine[p]] = "dir" /\ UNCHANGED faults) \/ Fault("error")
  /\ Becomes(mine[p], "dir") /\ Goto(p, "undo")
  /\ UNCHANGED active

\* autoAdvance; only a finalized run lets go of the guard.
Advance(p) ==
  /\ pc[p] = "advance"
  /\ \/ \E status \in Open : Becomes(mine[p], status) /\ Return(p)
     \/ Becomes(mine[p], "finalized") /\ Goto(p, "clear")
  /\ UNCHANGED <<active, faults>>

\* The run was created, but the caller gets an error and no run id.
AdvanceFails(p) ==
  /\ pc[p] = "advance" /\ Fault("advance_error")
  /\ Becomes(mine[p], "orphan") /\ Goto(p, "undo")
  /\ UNCHANGED active
-------------------------------------------------------------------------------
(* clearActiveRun(..., expectedRunId), after a failed start or an end *)

\* Mutant of Clear: the file is removed whatever run it names.
ClearWhatever(p) ==
  /\ pc[p] \in {"undo", "clear"}
  /\ active' = NoRun
  /\ Return(p)
  /\ UNCHANGED <<run, faults>>

Clear(p) ==
  /\ pc[p] \in {"undo", "clear"}
  /\ active' = IF active = mine[p] THEN NoRun ELSE active
  /\ Return(p)
  /\ UNCHANGED <<run, faults>>

\* Whoever calls about a run has its id from the start that returned it.
Known(r) == \A p \in Procs : mine[p] = r => pc[p] # "advance"

\* The transaction of completeGraphNode, resolveGraphApproval or finalizeRun
\* that finalizes the run.
Finish(p, r) ==
  /\ pc[p] = "idle" /\ run[r] \in {"active", "orphan"} /\ Known(r)
  /\ Becomes(r, "finalized") /\ Work(p, "clear", r)
  /\ UNCHANGED <<active, faults>>

\* The transaction of abortRun or abortGraphRun.
Abort(p, r) ==
  /\ pc[p] = "idle" /\ run[r] \in Open \cup {"orphan"} /\ Known(r)
  /\ Becomes(r, "aborted") /\ Work(p, "clear", r)
  /\ UNCHANGED <<active, faults>>

\* A call finds a budget exhausted or a route without an end: the guard stays.
Stop(r) ==
  /\ run[r] = "active" /\ Known(r)
  /\ Becomes(r, "stopped")
  /\ UNCHANGED <<active, pc, mine, decided, faults>>
-------------------------------------------------------------------------------
(* getActiveState of the hooks *)

HookReads(h) ==
  /\ pc[h] = "idle" /\ active # NoRun
  /\ Work(h, "hook", active)
  /\ UNCHANGED <<active, run, faults>>

\* Mutant of HookLooks: a hook thinks of finalized runs only.
HookLooksForFinal(h) ==
  /\ pc[h] = "hook"
  /\ IF run[mine[h]] = "finalized" THEN Goto(h, "clear") ELSE Return(h)
  /\ UNCHANGED <<active, run, faults>>

\* The run has a state that says it is not over.
Readable(r) == run[r] \in Open \cup {"orphan"}

\* A lock file needs a directory, which is made if there is none.
MakesDirectory(r) == IF run[r] = "none" THEN Becomes(r, "dir") ELSE UNCHANGED run

\* readVerifiedRun.  A hook that finds the run open decides at once, or decides
\* to let the call through if the run pays for it.
HookLooks(h) ==
  /\ pc[h] = "hook"
  /\ \/ run[mine[h]] \in Over /\ Goto(h, "clear")
     \/ run[mine[h]] \notin Over /\ Return(h)
     \/ /\ Readable(mine[h])
        /\ Move(h, "ask", NoRun) /\ decided' = [decided EXCEPT ![h] = mine[h]]
  /\ MakesDirectory(mine[h])
  /\ UNCHANGED <<active, faults>>
-------------------------------------------------------------------------------
(* reserveAllowedAgent, reserveAllowedTool *)

\* getActiveState is called again.  Without an active run there is nothing to
\* pay for, and the call is let through.
HookAsks(h) ==
  /\ pc[h] = "ask"
  /\ IF active = NoRun THEN Goto(h, "let") ELSE Work(h, "look", active)
  /\ UNCHANGED <<active, run, faults>>

HookLooksAgain(h) ==
  /\ pc[h] = "look"
  /\ \/ run[mine[h]] \in Over /\ Goto(h, "unset")
     \/ Readable(mine[h]) /\ Goto(h, "reserve")
     \/ run[mine[h]] \in {"none", "dir"} /\ Return(h)
  /\ MakesDirectory(mine[h])
  /\ UNCHANGED <<active, faults>>

HookUnsets(h) ==
  /\ pc[h] = "unset"
  /\ active' = IF active = mine[h] THEN NoRun ELSE active
  /\ Work(h, "let", NoRun)
  /\ UNCHANGED <<run, faults>>

\* reserveAgentSpawn, reserveBudget: paid, or exhausted, or not active any more.
\* A run that was just created is not exhausted.
HookReserves(h) ==
  /\ pc[h] = "reserve"
  /\ \/ run[mine[h]] \in {"active", "orphan"} /\ Goto(h, "let") /\ UNCHANGED run
     \/ /\ run[mine[h]] = "active" /\ Known(mine[h])
        /\ Becomes(mine[h], "stopped") /\ Return(h)
     \/ Return(h) /\ UNCHANGED run
  /\ UNCHANGED <<active, faults>>

\* The hook writes "allow", which lets the call through.
HookLets(h) ==
  /\ pc[h] = "let"
  /\ Return(h)
  /\ UNCHANGED <<active, run, faults>>
-------------------------------------------------------------------------------
Crash(p) ==
  /\ pc[p] # "idle"
  /\ Fault(IF pc[p] \in {"create", "undo"} THEN "crash_in_start" ELSE "crash")
  /\ Return(p)
  /\ UNCHANGED <<active, run>>

\* What a process does once it has started something.
Continue(p) ==
  \/ SetActive(p) \/ Create(p) \/ CreateFails(p) \/ Advance(p) \/ Clear(p)
  \/ HookLooks(p) \/ HookAsks(p) \/ HookLooksAgain(p) \/ HookUnsets(p)
  \/ HookReserves(p) \/ HookLets(p)

Begin(p) == Check(p) \/ \E r \in Runs : Finish(p, r) \/ Abort(p, r)

Next ==
  \/ \E p \in Clients : Begin(p) \/ AdvanceFails(p)
  \/ \E h \in Hooks : HookReads(h)
  \/ \E p \in Procs : Continue(p) \/ Crash(p)
  \/ \E r \in Runs : Stop(r)

Spec == Init /\ [][Next]_vars

\* A process that is not killed keeps running, and the host keeps calling its
\* hooks: before every tool call and at every attempt to stop.
FairSpec ==
  /\ Spec
  /\ \A p \in Procs : WF_vars(Continue(p))
  /\ \A h \in Hooks : WF_vars(HookReads(h))
-------------------------------------------------------------------------------
\* A process that is doing something is doing it to a run.
TypeOK ==
  /\ active \in Runs \cup {NoRun}
  /\ run \in [Runs -> Statuses]
  /\ pc \in [Procs -> Steps]
  /\ mine \in [Procs -> Runs \cup {NoRun}]
  /\ \A p \in Procs : pc[p] \notin {"idle", "ask", "let"} => mine[p] \in Runs
  /\ decided \in [Procs -> Runs \cup {NoRun}]
  /\ faults \in Nat

\* However starts, ends, aborts and hooks interleave, the guard names every run
\* that is open and whose start did not end in an error: the hooks enforce its
\* policy, and no other run can be started.
OpenRunHoldsGuard == \A r \in Runs : run[r] \in Open => active = r

\* Only one active run per project, orphans not counted.
OneOpenRun == \A r, s \in Runs : run[r] \in Open /\ run[s] \in Open => r = s

\* A tool call that is let through on a decision to be paid for was paid by the
\* run by which it was decided, unless that run was over in the meantime, or its
\* start has failed: then another run may have paid, or none.
LetThroughIsPaid ==
  \A h \in Hooks :
    (pc[h] = "let" /\ mine[h] # decided[h]) => run[decided[h]] \in Over \cup {"orphan"}

\* The guard does not outlive its run: once the run is not open, or if it was
\* never created, another one can be started some day.
Released ==
  \A r \in Runs : active = r ~> active # r \/ run[r] \in Open
===============================================================================

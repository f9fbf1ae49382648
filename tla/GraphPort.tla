------------------------------- MODULE GraphPort --------------------------------
(***************************************************************************)
(* The ports through which a mission has its work items done, and what the   *)
(* reports they return say (standalone/runtime/company/graph-port.mjs and    *)
(* execution-mode.mjs).  A report is reduced to what completeClaim looks at. *)
(***************************************************************************)
LOCAL INSTANCE Naturals
LOCAL INSTANCE Sequences
LOCAL INSTANCE SequencesExt

RealModes == {"hosted", "native_cloud", "native_local"}
Modes == {"simulation"} \cup RealModes

NoFailure == [type |-> "none"]

\* ReferenceGraphKernelPort: the next of the failures planned for the stage or,
\* if there is no plan for it, for the kind of the item; a success is a
\* simulated one unless PROOFGRAPH_ALLOW_SIMULATION_PROMOTION is set.  Its output
\* is the one it makes up itself.
PlannedFailure(plan, item) ==
  LET planned == IF item.stage \in DOMAIN plan THEN plan[item.stage]
                 ELSE IF item.kind \in DOMAIN plan THEN plan[item.kind] ELSE << >>
  IN  IF planned = << >> THEN NoFailure ELSE Head(planned)

PlanLeft(plan, item) ==
  LET used == IF item.stage \in DOMAIN plan THEN item.stage ELSE item.kind IN
  [key \in DOMAIN plan |->
     IF key = used /\ plan[key] # << >> THEN Tail(plan[key]) ELSE plan[key]]

ReferenceReport(plan, item, promotion) ==
  LET failure == PlannedFailure(plan, item)
      verified == failure = NoFailure /\ promotion /\ item.kind = "verify"
  IN  [mode |-> "simulation", model |-> FALSE, tools |-> FALSE,
       status |-> IF failure # NoFailure THEN "failed"
                  ELSE IF promotion THEN "success" ELSE "simulated",
       delivers |-> failure = NoFailure /\ item.kind # "verify",
       passed |-> verified, independent |-> promotion /\ item.kind = "verify",
       evidence |-> verified, failure |-> failure]

\* NativeAgentGraphPort: commands is which of the commands the agent has asked
\* for have passed, if tools are executed at all.  Nothing is known of a
\* verification but what the agent says of it.
NativeReport(item, payload, executes, local) ==
  LET receipts == IF executes THEN payload.commands ELSE << >>
      verified == /\ item.kind = "verify"
                  /\ payload.passed /\ payload.independent /\ payload.evidence
      tool_failed == \E k \in DOMAIN receipts : ~receipts[k]
      failed == tool_failed \/ (item.kind = "verify" /\ ~verified)
  IN  [mode |-> IF local THEN "native_local" ELSE "native_cloud",
       model |-> TRUE, tools |-> receipts # << >> \/ (executes /\ payload.files),
       status |-> IF failed THEN "failed" ELSE "success",
       delivers |-> ~failed /\ payload.delivers,
       passed |-> verified, independent |-> item.kind = "verify" /\ payload.independent,
       evidence |-> payload.evidence,
       failure |-> IF ~failed THEN NoFailure
                   ELSE [type |-> IF tool_failed THEN "tool_failure" ELSE "verification_failure"]]

\* HostBridgeGraphPort: the bridges it may be given, and what it asks them for.
\* A report comes from the command "run" and is believed by the command
\* "integrity"; one without a run, or an answer that fails, is not.
BridgeIsAllowed(url, remote) ==
  IF remote THEN url.https \/ url.loopback ELSE url.loopback /\ ~url.https

HostedCommands == {"run", "integrity"}
PortMaySend(command) == command \notin {"approve", "deny", "abort", "apply_policy", "modify_runtime"}
ReportIsBelieved(run, answer) == run # "none" /\ answer = "ok"

-----------------------------------------------------------------------------
(* completeClaim *)

Completes(report) == report.status \in {"success", "simulated"}

\* A result of a simulation is no candidate, unless its promotion is allowed.
IsSimulated(report, promotion) ==
  (report.status = "simulated" \/ report.mode = "simulation") /\ ~promotion

Promotes(item, report, promotion) ==
  /\ Completes(report) /\ ~IsSimulated(report, promotion)
  /\ item.kind = "verify" /\ report.passed /\ report.independent
================================================================================

------------------------------ MODULE Operations ------------------------------
(***************************************************************************)
(* An organization run of standalone/runtime/os/autonomous-os.mjs, which      *)
(* drives one mission after another until one of them succeeds, and the       *)
(* control plane (standalone/runtime/control-plane/control-plane.mjs), whose  *)
(* operators start, steer and stop both, each by a command that has an id.    *)
(*                                                                           *)
(* A mission is what Company says of it: its status, whether it is paused,    *)
(* whether an approval is pending, what its failures amount to.  Every        *)
(* transaction is one step; what was read before it is kept in my and ask,    *)
(* and most transactions do not look again.  A driver is the runner of the    *)
(* control plane or the command os-run, in a process of its own.              *)
(***************************************************************************)
EXTENDS Naturals, Sequences, FiniteSets

CONSTANTS
  Driver,       \* those who run the loop of the organization
  Request,      \* requests to the control plane
  Command,      \* the ids of commands
  Orders,       \* what the requests ask for
  Risks,        \* what the risk of the task may be
  Findings,     \* what the failures of a mission may amount to
  AllowMedium,  \* policy.allow_medium_risk_retry
  MaxCycles,    \* max_cycles
  MaxAsks,      \* bound on the approvals a mission asks for
  MaxAtOnce,    \* bound on the drivers and requests at work at a time
  MaxDeaths     \* bound on the drivers and requests that die

ASSUME OperationsAssumption ==
  /\ Risks \subseteq {"low", "medium", "high"} /\ AllowMedium \in BOOLEAN
  /\ Findings \subseteq {"nothing", "failures", "critical"}
  /\ MaxCycles \in 1..20 /\ MaxAsks \in Nat /\ MaxAtOnce \in Nat
  /\ MaxDeaths \in Nat
  /\ IsFiniteSet(Driver)

VARIABLES
  os,        \* the record of the organization run
  missions,  \* the missions, in the order of their creation
  at, my,    \* the step a driver is at, and what it has read
  runners,   \* the missions with a runner of their own
  commands,  \* commands[c]: the status of the command
  ask,       \* ask[r]: the request in progress
  runs,      \* how often the operation of a command was begun (history)
  deaths

osVars == <<os, missions, at, my, runners, commands, ask, runs, deaths>>

Final == {"completed", "failed", "aborted"}
SettledRun == Final \cup {"waiting_approval"}
\* "completed" has passed its quality gate; "ended" is one that has not, or was
\* simulated, or is partial, or has failed.
Ended == {"completed", "ended", "aborted"}
Idle == [step |-> "idle", order |-> "none", command |-> "none", mission |-> 0]

OSInit ==
  /\ \E risk \in Risks :
       os = [status |-> "planned", risk |-> risk, cycle |-> 0, current |-> 0, gate |-> FALSE,
             blame |-> 0, asked |-> {}, pending |-> {}]
  /\ missions = << >>
  /\ at = [d \in Driver |-> "off"] /\ my = [d \in Driver |-> << >>]
  /\ runners = {}
  /\ commands = [c \in Command |-> "unknown"]
  /\ ask = [r \in Request |-> Idle]
  /\ runs = [c \in Command |-> 0]
  /\ deaths = 0

GoesTo(d, step, what) == at' = [at EXCEPT ![d] = step] /\ my' = [my EXCEPT ![d] = what]
Stop(d) == GoesTo(d, "off", << >>)

-----------------------------------------------------------------------------
(* The mission of a cycle *)

\* Its id follows from the objective, the cycle and the failures so far.
MissionId(cycle, blame) == <<cycle, blame>>
NewMission(id) ==
  [id |-> id, status |-> "planned", paused |-> FALSE, pending |-> FALSE,
   found |-> "nothing", asks |-> 0]

MayBegin ==
  Cardinality({d \in Driver : at[d] # "off"})
    + Cardinality({r \in Request : ask[r].step # "idle"}) < MaxAtOnce

Launch(d) ==
  /\ at[d] = "off" /\ MayBegin
  /\ GoesTo(d, "look", << >>)
  /\ UNCHANGED <<os, missions, runners, commands, ask, runs, deaths>>

\* runCycle.  A runner that is about to leave is still in the map of runners,
\* and a launch that finds it there does nothing.
Look(d) ==
  /\ at[d] = "look"
  /\ IF os.status \in SettledRun THEN GoesTo(d, "leave", << >>)
     ELSE IF os.current = 0 THEN GoesTo(d, "plan", << >>)
     ELSE GoesTo(d, "read", << >>)
  /\ UNCHANGED <<os, missions, runners, commands, ask, runs, deaths>>

LeaveRun(d) ==
  /\ at[d] = "leave"
  /\ Stop(d)
  /\ UNCHANGED <<os, missions, runners, commands, ask, runs, deaths>>

Plan(d) ==
  /\ at[d] = "plan"
  /\ IF os.cycle >= MaxCycles THEN Stop(d)
     ELSE GoesTo(d, "create", MissionId(os.cycle + 1, os.blame))
  /\ UNCHANGED <<os, missions, runners, commands, ask, runs, deaths>>

Exists(id) == \E n \in DOMAIN missions : missions[n].id = id

\* A mission that exists is a Conflict, which ends the driver.
Create(d) ==
  /\ at[d] = "create"
  /\ IF Exists(my[d]) THEN Stop(d) /\ UNCHANGED missions
     ELSE /\ missions' = Append(missions, NewMission(my[d]))
          /\ GoesTo(d, "adopt", <<Len(missions) + 1>>)
  /\ UNCHANGED <<os, runners, commands, ask, runs, deaths>>

\* Mutant of Adopt: the cycle is not counted.
AdoptUncounted(d) ==
  /\ at[d] = "adopt"
  /\ os' = [os EXCEPT !.status = "active", !.current = my[d][1]]
  /\ GoesTo(d, "read", << >>)
  /\ UNCHANGED <<missions, runners, commands, ask, runs, deaths>>

\* The status of the run is not looked at.
Adopt(d) ==
  /\ at[d] = "adopt"
  /\ os' = [os EXCEPT !.cycle = os.cycle + 1, !.status = "active", !.current = my[d][1]]
  /\ GoesTo(d, "read", << >>)
  /\ UNCHANGED <<missions, runners, commands, ask, runs, deaths>>

\* Another driver may have put the mission aside: there is no status to read.
Read(d) ==
  /\ at[d] = "read"
  /\ IF os.current = 0 THEN Stop(d)
     ELSE GoesTo(d, IF missions[os.current].status = "planned" THEN "start" ELSE "run",
               <<os.current>>)
  /\ UNCHANGED <<os, missions, runners, commands, ask, runs, deaths>>

Start(d) ==
  /\ at[d] = "start"
  /\ LET n == my[d][1] IN
     IF missions[n].status = "planned"
     THEN missions' = [missions EXCEPT ![n].status = "active"] /\ GoesTo(d, "run", my[d])
     ELSE Stop(d) /\ UNCHANGED missions
  /\ UNCHANGED <<os, runners, commands, ask, runs, deaths>>

\* company.run returns when the mission has ended, waits, or is paused.
Run(d) ==
  /\ at[d] = "run"
  /\ LET m == missions[my[d][1]] IN
     \/ m.status = "waiting_approval" /\ GoesTo(d, "wait", my[d])
     \/ m.status # "waiting_approval" /\ (m.status \in Ended \/ m.paused) /\ GoesTo(d, "report", my[d])
  /\ UNCHANGED <<os, missions, runners, commands, ask, runs, deaths>>

\* It throws when another driver has got ahead of it.
RunThrows(d) ==
  /\ at[d] = "run" /\ missions[my[d][1]].status = "active"
  /\ ~missions[my[d][1]].paused
  /\ my[d][1] \in runners \/ \E e \in Driver \ {d} : at[e] = "run" /\ my[e] = my[d]
  /\ Stop(d)
  /\ UNCHANGED <<os, missions, runners, commands, ask, runs, deaths>>

Wait(d) ==
  /\ at[d] = "wait"
  /\ os' = [os EXCEPT !.status = "waiting_approval"]
  /\ GoesTo(d, "look", << >>)
  /\ UNCHANGED <<missions, runners, commands, ask, runs, deaths>>

\* Mutant of Succeeded: the mission has ended.
Over(m) == m.status \in Ended

Succeeded(m) == m.status = "completed"

Report(d) ==
  /\ at[d] = "report"
  /\ LET n == my[d][1] IN
     GoesTo(d, IF Succeeded(missions[n]) THEN "complete" ELSE "review",
          <<n, missions[n].status, missions[n].found>>)
  /\ UNCHANGED <<os, missions, runners, commands, ask, runs, deaths>>

Complete(d) ==
  /\ at[d] = "complete"
  /\ os' = [os EXCEPT !.status = "completed", !.gate = TRUE]
  /\ GoesTo(d, "look", << >>)
  /\ UNCHANGED <<missions, runners, commands, ask, runs, deaths>>

-----------------------------------------------------------------------------
(* The review of a mission that did not succeed *)

\* CouncilRuntime.convene: what most of the independent groups recommend, if
\* there is evidence.
Convene(proposals, evidence) ==
  LET support(r) == Cardinality({g \in DOMAIN proposals : proposals[g] = r})
      backed == {r \in {"retry", "escalate"} : support(r) >= 2}
  IN IF evidence /\ backed # {} THEN CHOOSE r \in backed : TRUE ELSE "unresolved"

CouncilForFailure(found) ==
  Convene([executive |-> "retry",
           quality |-> IF found = "critical" THEN "escalate" ELSE "retry",
           risk |-> IF os.risk = "low" THEN "retry" ELSE "escalate"],
          found # "nothing")

\* GovernancePolicyEngine.evaluate, of an autonomous retry
RetryAllowed == os.risk = "low" \/ (os.risk = "medium" /\ AllowMedium)

\* Mutant of MayRetry: the cycles left are not looked at.
RetryAnyway(decision) == decision = "retry" /\ RetryAllowed

MayRetry(decision) == decision = "retry" /\ RetryAllowed /\ os.cycle < MaxCycles

\* An approval has the id of its cycle and council: asked again, it is the same.
Asking(run, id) ==
  [run EXCEPT !.status = "waiting_approval", !.asked = run.asked \cup {id},
              !.pending = run.pending \cup ({id} \ run.asked)]

Review(d) ==
  /\ at[d] = "review"
  /\ LET found == my[d][3]
         decision == CouncilForFailure(found)
         after == [os EXCEPT !.current = 0,
                             !.blame = IF found = "nothing" THEN os.blame ELSE os.blame + 1]
     IN \/ MayRetry(decision) /\ os' = [after EXCEPT !.status = "active"]
        \/ /\ ~MayRetry(decision) /\ (~RetryAllowed \/ decision = "escalate")
           /\ os' = Asking(after, <<os.cycle, my[d]>>)
        \/ /\ ~MayRetry(decision) /\ RetryAllowed /\ decision # "escalate"
           /\ os' = [after EXCEPT !.status = "failed"]
  /\ GoesTo(d, "look", << >>)
  /\ UNCHANGED <<missions, runners, commands, ask, runs, deaths>>

-----------------------------------------------------------------------------
(* Missions, as Company has them *)

Worked(n) == n \in runners \/ \E d \in Driver : at[d] = "run" /\ my[d] = <<n>>

MissionAsks(n) ==
  /\ Worked(n) /\ missions[n].status = "active" /\ ~missions[n].paused
  /\ missions[n].asks < MaxAsks /\ ~missions[n].pending
  /\ missions' = [missions EXCEPT ![n].status = "waiting_approval", ![n].pending = TRUE,
                                  ![n].asks = missions[n].asks + 1]
  /\ UNCHANGED <<os, at, my, runners, commands, ask, runs, deaths>>

MissionEnds(n) ==
  /\ Worked(n) /\ missions[n].status = "active" /\ ~missions[n].paused
  /\ \/ /\ ~missions[n].pending
        /\ missions' = [missions EXCEPT ![n].status = "completed"]
     \/ \E found \in Findings :
          /\ missions[n].found # "nothing" => found # "nothing"
          /\ missions' = [missions EXCEPT ![n].status = "ended", ![n].found = found]
  /\ UNCHANGED <<os, at, my, runners, commands, ask, runs, deaths>>

RunnerLeaves(n) ==
  /\ n \in runners
  /\ missions[n].status \in Ended \cup {"waiting_approval"} \/ missions[n].paused
  /\ runners' = runners \ {n}
  /\ UNCHANGED <<os, missions, at, my, commands, ask, runs, deaths>>

-----------------------------------------------------------------------------
(* Commands.  A request reads the record of its command, creates it, carries  *)
(* out the operation and completes the record.                                *)

Set(r, step) == ask' = [ask EXCEPT ![r].step = step]
Done(r) == ask' = [ask EXCEPT ![r] = Idle]

\* A record that is there answers the request, or is a Conflict.
Submit(r, order, c) ==
  /\ ask[r].step = "idle" /\ MayBegin
  /\ commands[c] = "unknown"
  /\ ask' = [ask EXCEPT ![r] = [step |-> "create", order |-> order, command |-> c, mission |-> 0]]
  /\ UNCHANGED <<os, missions, at, my, runners, commands, runs, deaths>>

\* Mutant of Begin: a record that is there is written over.
BeginAnyway(r) ==
  /\ ask[r].step = "create"
  /\ commands' = [commands EXCEPT ![ask[r].command] = "running"]
  /\ runs' = [runs EXCEPT ![ask[r].command] = runs[ask[r].command] + 1]
  /\ Set(r, "operate")
  /\ UNCHANGED <<os, missions, at, my, runners, deaths>>

Begin(r) ==
  /\ ask[r].step = "create"
  /\ IF commands[ask[r].command] = "unknown"
     THEN /\ commands' = [commands EXCEPT ![ask[r].command] = "running"]
          /\ runs' = [runs EXCEPT ![ask[r].command] = runs[ask[r].command] + 1]
          /\ Set(r, "operate")
     ELSE Done(r) /\ UNCHANGED <<commands, runs>>
  /\ UNCHANGED <<os, missions, at, my, runners, deaths>>

RecordOutcome(r) ==
  /\ ask[r].step \in {"completed", "failed"}
  /\ commands' = [commands EXCEPT ![ask[r].command] = ask[r].step]
  /\ Done(r)
  /\ UNCHANGED <<os, missions, at, my, runners, runs, deaths>>

Refuse(r) ==
  Set(r, "failed") /\ UNCHANGED <<os, missions, runners>>

\* decideApproval of the organization run
ResolveOSApproval(r) ==
  \/ /\ os.pending = {} /\ Refuse(r)
  \/ /\ \E id \in os.pending :
          \/ os' = [os EXCEPT !.pending = os.pending \ {id},
                              !.status = IF os.cycle < MaxCycles THEN "active" ELSE "failed"]
          \/ os' = [os EXCEPT !.pending = os.pending \ {id}, !.status = "failed"]
     /\ Set(r, "completed")
     /\ UNCHANGED <<missions, runners>>

\* What a decision makes of a mission, whatever its status
Decided(n, approved) ==
  [missions EXCEPT ![n].pending = FALSE,
                   ![n].status = IF approved THEN "active" ELSE "ended",
                   ![n].found = IF approved \/ missions[n].found = "critical"
                                THEN missions[n].found ELSE "failures"]

\* decideApproval of a mission: the organization run is left alone.
DecideMission(r, n, approved) ==
  IF missions[n].pending
  THEN /\ missions' = Decided(n, approved)
       /\ runners' = IF approved THEN runners \cup {n} ELSE runners
       /\ Set(r, "completed")
       /\ UNCHANGED os
  ELSE Refuse(r)

Pause(r, n) ==
  /\ missions' = [missions EXCEPT ![n].paused = (missions[n].status \notin Ended \/ missions[n].paused)]
  /\ Set(r, "completed")
  /\ UNCHANGED <<os, runners>>

Resume(r, n) ==
  /\ missions' = IF missions[n].status \in Ended THEN missions
                 ELSE [missions EXCEPT ![n].paused = FALSE,
                                       ![n].status = IF missions[n].status = "planned" THEN "active"
                                                     ELSE missions[n].status]
  /\ runners' = runners \cup {n}
  /\ Set(r, "completed")
  /\ UNCHANGED os

Retry(r, n) ==
  IF missions[n].status \in {"completed", "aborted"} THEN Refuse(r)
  ELSE /\ missions' = [missions EXCEPT ![n].status = "active", ![n].paused = FALSE]
       /\ runners' = runners \cup {n}
       /\ Set(r, "completed")
       /\ UNCHANGED os

Aborted(n) == IF missions[n].status \in Ended THEN missions
              ELSE [missions EXCEPT ![n].status = "aborted"]

\* The first step of an order, which is the whole of most.
CarryOut(r) ==
  /\ ask[r].step = "operate"
  /\ \/ ask[r].order = "resolve" /\ ResolveOSApproval(r)
     \/ ask[r].order \in {"decide", "pause", "resume", "retry"} /\ missions = << >> /\ Refuse(r)
     \/ \E n \in DOMAIN missions :
          \/ ask[r].order = "decide" /\ \E approved \in BOOLEAN : DecideMission(r, n, approved)
          \/ ask[r].order = "pause" /\ Pause(r, n)
          \/ ask[r].order = "resume" /\ Resume(r, n)
          \/ ask[r].order = "retry" /\ Retry(r, n)
     \/ /\ ask[r].order = "abort"
        /\ ask' = [ask EXCEPT ![r].step = IF os.status \in Final THEN "completed"
                                          ELSE IF os.current = 0 THEN "abort run"
                                          ELSE "abort mission",
                              ![r].mission = os.current]
        /\ UNCHANGED <<os, missions, runners>>
     \/ /\ ask[r].order = "resolve mission"
        /\ IF os.status = "waiting_approval" /\ os.current # 0 /\ missions[os.current].pending
           THEN ask' = [ask EXCEPT ![r].step = "decide", ![r].mission = os.current]
           ELSE Set(r, "failed")
        /\ UNCHANGED <<os, missions, runners>>
  /\ UNCHANGED <<at, my, commands, runs, deaths>>

AbortMission(r) ==
  /\ ask[r].step = "abort mission"
  /\ missions' = Aborted(ask[r].mission)
  /\ Set(r, "abort run")
  /\ UNCHANGED <<os, at, my, runners, commands, runs, deaths>>

\* The status of the run is not looked at again.
AbortRun(r) ==
  /\ ask[r].step = "abort run"
  /\ os' = [os EXCEPT !.status = "aborted"]
  /\ Set(r, "completed")
  /\ UNCHANGED <<missions, at, my, runners, commands, runs, deaths>>

\* resolveMissionApproval: the decision, and then the status of the run.
ResolveMission(r) ==
  /\ ask[r].step = "decide"
  /\ IF missions[ask[r].mission].pending
     THEN \E approved \in BOOLEAN :
            /\ missions' = Decided(ask[r].mission, approved)
            /\ Set(r, IF approved THEN "approved" ELSE "denied")
     ELSE Set(r, "failed") /\ UNCHANGED missions
  /\ UNCHANGED <<os, at, my, runners, commands, runs, deaths>>

SettleRun(r) ==
  /\ ask[r].step \in {"approved", "denied"}
  /\ os' = [os EXCEPT !.status = IF ask[r].step = "approved" THEN "active" ELSE "failed"]
  /\ Set(r, "completed")
  /\ UNCHANGED <<missions, at, my, runners, commands, runs, deaths>>

-----------------------------------------------------------------------------
DriverDies(d) ==
  /\ at[d] # "off" /\ deaths < MaxDeaths
  /\ deaths' = deaths + 1 /\ Stop(d)
  /\ UNCHANGED <<os, missions, runners, commands, ask, runs>>

RequestDies(r) ==
  /\ ask[r].step # "idle" /\ deaths < MaxDeaths
  /\ deaths' = deaths + 1 /\ Done(r)
  /\ UNCHANGED <<os, missions, at, my, runners, commands, runs>>

Drive(d) ==
  \/ Look(d) \/ LeaveRun(d) \/ Plan(d) \/ Create(d) \/ Adopt(d) \/ Read(d) \/ Start(d)
  \/ Run(d) \/ Wait(d) \/ Report(d) \/ Complete(d) \/ Review(d)

Mission(n) == MissionAsks(n) \/ MissionEnds(n) \/ RunnerLeaves(n)

Serve(r) ==
  \/ Begin(r) \/ RecordOutcome(r) \/ CarryOut(r) \/ AbortMission(r) \/ AbortRun(r)
  \/ ResolveMission(r) \/ SettleRun(r)

OSNext ==
  \/ \E d \in Driver : Launch(d) \/ Drive(d) \/ RunThrows(d) \/ DriverDies(d)
  \/ \E n \in DOMAIN missions : Mission(n)
  \/ \E r \in Request :
       Serve(r) \/ RequestDies(r) \/ \E order \in Orders, c \in Command : Submit(r, order, c)

OSSpec == OSInit /\ [][OSNext]_osVars

-----------------------------------------------------------------------------
(* What makes an organization run correct *)

Step == {"off", "look", "leave", "plan", "create", "adopt", "read", "start", "run", "wait",
         "report", "complete", "review"}

\* The shape of the variables.  max_cycles is compared with a cycle that is
\* counted later: each driver but one may go beyond it by one.
OSTypeOK ==
  /\ os.status \in {"planned", "active"} \cup SettledRun
  /\ os.cycle < MaxCycles + Cardinality(Driver) /\ os.current \in 0..Len(missions) /\ os.gate \in BOOLEAN
  /\ os.pending \subseteq os.asked
  /\ \A n \in DOMAIN missions :
       /\ missions[n].status \in {"planned", "active", "waiting_approval"} \cup Ended
       /\ missions[n].paused \in BOOLEAN /\ missions[n].pending \in BOOLEAN
  /\ at \in [Driver -> Step]
  /\ runners \subseteq DOMAIN missions
  /\ commands \in [Command -> {"unknown", "running", "completed", "failed"}]

\* No review and no decision leaves a run active that has neither a mission nor
\* a cycle left, which no driver could end: not even a review of a mission that
\* another driver has reviewed and replaced.  (What resolveMissionApproval writes
\* last can: it looks at nothing.)
NobodyIsStranded ==
  [][(os'.status = "active" /\ os'.current = 0 /\ os'.cycle >= MaxCycles) =>
       (os = os' \/ \E r \in Request : ask[r].step = "approved")]_osVars

\* Whenever a run is active and has no mission, and no driver has died, the id
\* of its next mission is free or its creator is about to adopt it: nobody is
\* refused a mission for ever.
NextMissionIsFree ==
  (os.status \in {"planned", "active"} /\ os.current = 0 /\ deaths = 0)
    => \/ ~Exists(MissionId(os.cycle + 1, os.blame))
       \/ \E d \in Driver : at[d] = "adopt"

\* The quality gate of a run is passed by a mission of it that was completed,
\* and is completed still.
GateIsEarned ==
  (os.status = "completed" \/ os.gate) =>
    \E n \in DOMAIN missions : missions[n].status = "completed"

\* However often a command is sent, its operation is carried out once.
CommandsRunOnce == \A c \in Command : runs[c] <= 1
===============================================================================

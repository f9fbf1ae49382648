------------------------------- MODULE MCCompany -------------------------------
(***************************************************************************)
(* A mission of four items for the run of Company, and what holds of every   *)
(* mission and organization that Organization compiles.                      *)
(***************************************************************************)
EXTENDS Company, Organization, GraphPort, TLC

\* The middle of a compiled mission: an approval, development, a join and the
\* verification, in a row.
FourKinds == <<"human_approval", "develop", "join", "verify">>
Chain == [i \in 1..4 |-> IF i = 1 THEN {} ELSE {i - 1}]
Joins == {3}
FourRoles == [i \in 1..4 |-> IF i = 4 THEN "qa" ELSE "staff"]
Attempts == [i \in 1..4 |-> IF i = 2 \/ i = 4 THEN 2 ELSE 1]
Symmetric == Permutations(Driver) \cup Permutations(Courier)

-----------------------------------------------------------------------------
(* A grid of tasks *)

Goals ==
  {[archetype |-> archetype, words |-> words, lists |-> words \div 10, unknown |-> unknown,
    grave |-> grave, destructive |-> publishes, irrevocable |-> grave,
    publishes |-> publishes, external |-> publishes, builds |-> FALSE] :
     archetype \in Archetypes, words \in {3, 200}, unknown \in BOOLEAN, grave \in BOOLEAN,
     publishes \in BOOLEAN}

Hints ==
  {[field \in {} |-> 0], [risk |-> "low", reversibility |-> "reversible"],
   [archetype |-> "bugfix", requires_research |-> TRUE, estimated_subtasks |-> 100],
   [external_effects |-> TRUE, complexity |-> 80]}

TaskGrid == {ClassifyTask(g, h) : g \in Goals, h \in Hints}

\* The names of TaskIntelligence's roles and those of the organization's groups.
GroupNamed ==
  [coordinator |-> "executive", researcher |-> "research", planner |-> "planning",
   developer |-> "engineering", verifier |-> "quality", synthesizer |-> "executive",
   direct |-> "executive", human |-> "human", system |-> "executive"]

\* compileTaskSpec never refuses its own blueprint.
ASSUME BlueprintsAreAdequate ==
  \A t \in TaskGrid : Adequate(t, Stages(t), Links(t))

\* Without the approval of a human, if one is asked for, no stage behind the
\* approval is ever reached.
ASSUME ApprovalIsOnTheWay ==
  \A t \in TaskGrid :
    AsksHuman(t) =>
      LET before == {e \in Links(t) : e.from # "human-approval"} IN
      LedTo(before, "triage", Len(Stages(t)))
        \cap {"plan", "develop", "direct", "verify", "synthesize", "terminal-success"} = {}

\* A mission can run to its end: dependencies lead backwards, every item but the
\* triage has one, and the ticks are enough for one attempt of each.
ASSUME MissionsCanEnd ==
  \A t \in TaskGrid :
    LET m == Mission(t) IN
    /\ \A i \in DOMAIN m.kind :
         /\ \A j \in m.dependencies[i] : j < i
         /\ m.kind[i] = "triage" <=> m.dependencies[i] = {}
    /\ Len(m.kind) <= m.ticks

\* Nobody who makes something verifies it, and every item has somebody of the
\* group that its stage names, none of whom could approve it.
ASSUME DutiesAreSeparate ==
  \A t \in TaskGrid :
    LET m == Mission(t)  roles == Roles(t) IN
    /\ ValidOrganization(roles)
    /\ \A i, j \in DOMAIN m.kind :
         (m.kind[i] = "verify" /\ m.kind[j] # "verify") => m.role[i] # m.role[j]
    /\ \A i \in DOMAIN m.kind :
         m.kind[i] # "human_approval" => roles[m.role[i]].eligible
    /\ \A i \in {k \in DOMAIN Stages(t) : Stages(t)[k].kind # "terminal"} :
         roles[m.role[i]].group = GroupNamed[Stages(t)[i].role]

\* Who gets a token, directly or through the token of another role, gets nothing
\* that its organization keeps for humans, and no more than its own budget; but
\* a token may outlive the one it was issued from.
ASSUME DelegationAttenuates ==
  \A t \in {ClassifyTask(g, [external_effects |-> TRUE]) : g \in {h \in Goals : h.words = 3}} :
    LET roles == Roles(t)
        leads == {r \in DOMAIN roles : roles[r].delegates}
        given(r, expires) == Token(r, "run", roles[r].capabilities, roles[r].budget, expires)
    IN  \A a, b \in leads, c \in DOMAIN roles :
          (/\ MayIssue(roles, a, given(b, 5), {}, 0)
           /\ MayIssue(roles, b, given(c, 9), {given(b, 5)}, 0)) =>
             /\ roles[c].capabilities \subseteq roles[a].delegable
             /\ roles[c].capabilities \cap HumanOnly = {}
             /\ roles[c].budget <= roles[a].budget
             /\ Verifies(roles, given(c, 9), "run", c, 7)

\* A direct task has no item that failures of its verification lead back to: it
\* fails at the first one, whatever attempts are left.
ASSUME DirectWorkIsNotRepaired ==
  \A t \in TaskGrid :
    ~t.requires_implementation =>
      ~\E i \in DOMAIN Mission(t).kind : Mission(t).kind[i] \in {"plan", "develop"}

-----------------------------------------------------------------------------
(* What agents report *)

Work == {[kind |-> k, stage |-> "first"] : k \in {"develop", "verify"}}
Payloads ==
  [passed : BOOLEAN, independent : BOOLEAN, evidence : BOOLEAN, delivers : BOOLEAN,
   files : BOOLEAN, commands : {<< >>, <<TRUE>>, <<TRUE, FALSE>>}]
Gap == [type |-> "evidence_gap"]
Plans == {[s \in {} |-> << >>], [first |-> <<Gap>>], [verify |-> <<Gap, Gap>>],
          [first |-> << >>, verify |-> <<Gap>>]}

Reports(item) ==
  {NativeReport(item, p, tools, TRUE) : p \in Payloads, tools \in BOOLEAN}
  \cup {ReferenceReport(plan, item, promotion) : plan \in Plans, promotion \in BOOLEAN}

\* A report promotes what others have made only as an independent verification
\* that has passed, with evidence and with every command that it ran; one that
\* failed says why and delivers nothing, whatever else it says; and nothing that
\* was only simulated is promoted or kept, whatever its port was told.
ASSUME ReportsEarnTheirPromotion ==
  \A item \in Work, allowed \in BOOLEAN : \A r \in Reports(item) :
    /\ Promotes(item, r, allowed) => r.passed /\ r.independent /\ r.evidence
    /\ Completes(r) <=> r.failure = NoFailure
    /\ r.delivers => Completes(r)
    /\ r.tools => r.mode # "simulation"
    /\ r.mode = "simulation" /\ ~allowed => ~Promotes(item, r, allowed)

\* A verifier whose verification has passed but whose command has failed is sent
\* back to development, which is where its mission routes such a failure.
ASSUME FailedCommandsOutweighVerdicts ==
  \A p \in Payloads :
    LET r == NativeReport([kind |-> "verify", stage |-> "first"], p, TRUE, FALSE) IN
    FALSE \in {p.commands[k] : k \in DOMAIN p.commands} =>
      /\ r.status = "failed" /\ RepairKind(r.failure.type) = "develop"
      /\ r.passed <=> p.passed /\ p.independent /\ p.evidence

\* A planned failure happens once, and what is planned for the stage of an item
\* hides what is planned for its kind.
ASSUME PlansAreUsedUp ==
  \A plan \in Plans, item \in Work :
    LET once == PlanLeft(plan, item)  twice == PlanLeft(once, item) IN
    /\ PlannedFailure(twice, item) = NoFailure
    /\ "first" \in DOMAIN plan => \A k \in DOMAIN plan \ {"first"} : once[k] = plan[k]

-----------------------------------------------------------------------------
(* What is shown of a mission of the run's four items *)

View == INSTANCE Projection

Denied == [item |-> 1, attempt |-> 0, type |-> "approval_denied", status |-> "unresolved"]
MadeGood == [item |-> 2, attempt |-> 1, type |-> "implementation_error", status |-> "resolved"]

Recorded(its, st, stopped, failed) ==
  [status |-> st, paused |-> stopped, gate |-> FALSE, failures |-> failed, routes |-> << >>,
   approvals |-> << >>,
   items |-> [i \in Item |->
     [kind |-> Kind[i], role |-> Role[i], status |-> its[i].status, attempts |-> its[i].attempts,
      max_attempts |-> MaxAttempts[i], dependencies |-> DependsOn[i],
      join |-> IF i \in JoinsAll THEN "all" ELSE "any"]]]

AllItems(S, n) == {[i \in Item |-> [status |-> s[i], attempts |-> n]] : s \in [Item -> S]}

\* The next nodes shown are those that the next claim chooses from, the nodes
\* shown at work are none of them, and a mission is shown to be done by 100
\* percent only if every item is completed.
ASSUME NextIsWhatIsClaimed ==
  \A its \in AllItems(ItemStatus, 1) :
    LET view == View!MissionView(Recorded(its, "active", FALSE, << >>)) IN
    /\ view.graph.next = {i \in Item : Ready(its, i)}
    /\ view.graph.next \cap view.graph.current = {}
    /\ view.progress.percent = 100 <=> \A i \in Item : Done(its, i)

\* Of an approval that was denied, asked for again and given, the dashboard shows
\* a failure made good where the gate counts one that is not: the mission is
\* shown as completed with recovery, with no failure left, and without the gate.
ASSUME DenialIsShownAsMadeGood ==
  LET its == [i \in Item |-> [status |-> "completed", attempts |-> Attempts[i]]]
      view == View!MissionView(Recorded(its, "completed", FALSE, <<Denied, MadeGood>>))
  IN  /\ view.status = "completed_with_recovery" /\ ~view.gate
      /\ view.failures.unresolved = << >> /\ view.failures.resolved = <<Denied, MadeGood>>

\* A mission that is shown as paused may be over.
ASSUME PauseHidesTheEnd ==
  \A st \in Terminal, its \in AllItems({"running", "failed"}, 1) :
    View!MissionView(Recorded(its, st, TRUE, << >>)).status = "paused"

\* A repair loop is one line, however often it has gone round, and it is active
\* until its item has succeeded: nothing ever says that it is exhausted.
Rounds(n, over) ==
  [k \in 1..n |-> [loop |-> "verify to develop", from |-> 4, to |-> 2, at |-> k, iteration |-> k,
                   failure_type |-> "implementation_error", max_iterations |-> 1,
                   status |-> IF over THEN "exited" ELSE "active"]]
ASSUME LoopsAreNeverExhausted ==
  \A n \in 1..3, over \in BOOLEAN, st \in {"active", "failed"}, its \in AllItems({"failed"}, 2) :
    LET view == View!MissionView([Recorded(its, st, FALSE, << >>) EXCEPT !.routes = Rounds(n, over)])
        loop == view.loops["verify to develop"]
    IN  /\ DOMAIN view.loops = {"verify to develop"}
        /\ loop.entered_at = 1 /\ loop.last_at = n /\ loop.iteration = n
        /\ view.active_loops = (IF over THEN 0 ELSE 1) /\ view.exhausted_loops = 0
        /\ Cardinality({e \in view.graph.edges : e.kind = "retry"}) = n

\* An organization's run shows a denial of its own only if it has failed, and of
\* its missions what they show, the pause of one that is over included.
ASSUME CyclesShowTheirMissions ==
  \A st \in {"active", "completed", "failed"}, answer \in {"denied", "approved"}, stopped \in BOOLEAN :
    LET its == [i \in Item |-> [status |-> "failed", attempts |-> 1]]
        missions == <<View!MissionView(Recorded(its, "failed", stopped, <<Denied>>))>>
        view == View!OsView([status |-> st, gate |-> st = "completed",
                             approvals |-> {[status |-> answer, challenge |-> "secret"]}], missions)
    IN  /\ view.status = "denied" <=> (st = "failed" /\ answer = "denied")
        /\ view.cycles[1].failures = 1
        /\ view.cycles[1].status = IF stopped THEN "paused" ELSE "denied"
        /\ \A a \in view.approvals : DOMAIN a = {"status"}
===============================================================================

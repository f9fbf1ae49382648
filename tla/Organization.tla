----------------------------- MODULE Organization -----------------------------
(***************************************************************************)
(* standalone/runtime/organization and company/mission-compiler.mjs: the     *)
(* departments and roles for a task, who may delegate what to whom, and the  *)
(* mission, a list of work items with roles and dependencies.                *)
(*                                                                           *)
(* Roles are named without the id of their organization.  A budget is one    *)
(* number of calls; tokens, cost and time are split and compared alike.      *)
(* Signatures are taken to be unforgeable: a token is one that was issued.   *)
(***************************************************************************)
EXTENDS TaskIntelligence

Budget(task) == Most(20, task.estimated_subtasks * 10)

\* A share of a budget, which is never less than one call.
Share(total, weight, of) == Most(1, (total * weight) \div of)

Weight == [executive |-> 1, research |-> 2, product |-> 2, engineering |-> 4, quality |-> 2,
           risk |-> 2, delivery |-> 2]

Departments(task) ==
  {"executive", "quality"}
  \cup (IF task.requires_research THEN {"research"} ELSE {})
  \cup (IF task.requires_implementation \/ task.archetype = "product" THEN {"product"} ELSE {})
  \cup (IF task.requires_implementation THEN {"engineering"} ELSE {})
  \cup (IF task.risk \in {"medium", "high", "critical"} THEN {"risk"} ELSE {})
  \cup (IF task.external_effects THEN {"delivery"} ELSE {})

LeadOf == [research |-> "research-lead", product |-> "product-lead",
           engineering |-> "engineering-lead", quality |-> "quality-lead",
           risk |-> "risk-lead", delivery |-> "delivery-lead"]
SpecialistOf == [research |-> "research-specialist", product |-> "product-specialist",
                 engineering |-> "engineering-specialist", quality |-> "quality-specialist",
                 risk |-> "risk-specialist", delivery |-> "delivery-specialist"]

DepartmentBudget(task, d) ==
  Share(Budget(task), Weight[d], MapThenSumSet(LAMBDA e : Weight[e], Departments(task)))

-----------------------------------------------------------------------------
(* capabilities.mjs and buildOrganization *)

HumanOnly == {"policy.apply", "approval.decide", "run.abort"}

Capabilities ==
  HumanOnly \cup
  {"proofgraph.control", "workspace.read", "workspace.propose", "workspace.mutate",
   "web.research", "artifact.read", "artifact.write", "verification.execute", "risk.review",
   "delivery.propose", "delivery.execute", "organization.plan", "organization.delegate",
   "budget.allocate", "policy.propose"}

Delegable == Capabilities \ HumanOnly

\* What a lead may do, and which part of it the specialists of the team may not.
LeadCapabilities(d) ==
  {"proofgraph.control", "artifact.read", "artifact.write"}
  \cup (IF d = "delivery" THEN {} ELSE {"workspace.read"})
  \cup CASE d = "research" -> {"web.research"}
         [] d = "product" -> {"organization.plan"}
         [] d = "engineering" -> {"workspace.propose"}
         [] d = "quality" -> {"verification.execute"}
         [] d = "risk" -> {"risk.review"}
         [] d = "delivery" -> {"delivery.propose"}

Reserved(d) ==
  {"proofgraph.control"}
  \cup (IF d = "product" THEN {"organization.plan"} ELSE {})
  \cup (IF d \in {"risk", "delivery"} THEN {"artifact.write"} ELSE {})

Member(department, group, type, manager, capabilities, budget) ==
  [department |-> department, group |-> group, type |-> type, manager |-> manager,
   capabilities |-> capabilities, budget |-> budget,
   delegable |-> IF type = "human" THEN {} ELSE capabilities \cap Delegable,
   delegates |-> type \notin {"human", "specialist"}, eligible |-> type # "human"]

Executive(task) ==
  Member("executive", "executive", "executive", "none",
         Delegable \ {"workspace.mutate", "delivery.execute"}, Budget(task))

GroupOf(d) == IF d = "product" THEN "planning" ELSE d

\* Both members of the quality team are verifiers; its specialist does not
\* delegate either.
Lead(task, d) ==
  Member(d, GroupOf(d), IF d = "quality" THEN "verifier" ELSE "manager", "executive-manager",
         LeadCapabilities(d), DepartmentBudget(task, d))

Specialist(task, d) ==
  [Member(d, GroupOf(d), IF d = "quality" THEN "verifier" ELSE "specialist", LeadOf[d],
          LeadCapabilities(d) \ Reserved(d), Share(DepartmentBudget(task, d), 3, 4))
   EXCEPT !.delegates = FALSE]

Roles(task) ==
  LET teams == Departments(task) \ {"executive"} IN
  [id \in {"executive-manager", "human-approver"}
          \cup {LeadOf[d] : d \in teams} \cup {SpecialistOf[d] : d \in teams} |->
     CASE id = "executive-manager" -> Executive(task)
       [] id = "human-approver" -> Member("external-governance", "human", "human", "none",
                                          HumanOnly, 0)
       [] \E d \in teams : id = LeadOf[d] -> Lead(task, CHOOSE d \in teams : id = LeadOf[d])
       [] OTHER -> Specialist(task, CHOOSE d \in teams : id = SpecialistOf[d])]

\* validateOrganization.  The chain of managers ends, for it is at most two long.
ValidOrganization(roles) ==
  /\ \A r \in DOMAIN roles :
       /\ roles[r].manager # "none" => roles[r].manager \in DOMAIN roles
       /\ roles[r].eligible => roles[r].capabilities \cap HumanOnly = {}
       /\ roles[r].manager # "none" =>
            LET m == roles[r].manager IN
            roles[m].manager # "none" => roles[roles[m].manager].manager = "none"
  /\ \E r \in DOMAIN roles : roles[r].group = "quality"

\* ExecutiveManager.selectRole: a member of the group who is no manager, the
\* lead of the quality team coming first.
RoleFor(task, name) ==
  CASE name = "researcher" /\ "research" \in Departments(task) -> SpecialistOf["research"]
    [] name = "planner" /\ "product" \in Departments(task) -> SpecialistOf["product"]
    [] name = "developer" /\ "engineering" \in Departments(task) -> SpecialistOf["engineering"]
    [] name = "verifier" -> LeadOf["quality"]
    [] name = "human" -> "human-approver"
    [] OTHER -> "executive-manager"

-----------------------------------------------------------------------------
(* DelegationAuthority *)

Token(subject, run, capabilities, budget, expires) ==
  [subject |-> subject, run |-> run, capabilities |-> capabilities, budget |-> budget,
   expires |-> expires]

\* verify() at time now: the parent that a token was issued from is not asked.
Verifies(roles, token, run, subject, now) ==
  /\ now < token.expires
  /\ token.run = run /\ token.subject = subject
  /\ token.capabilities \subseteq roles[subject].capabilities

\* issue() at time now, by a role from its own rights or from a token (parents
\* is the set of it, or empty).  The expiry is not compared with the parent's,
\* and what the issuer has given to others before is not looked at.
MayIssue(roles, issuer, token, parents, now) ==
  /\ roles[issuer].delegates
  /\ roles[token.subject].type # "human" /\ roles[token.subject].eligible
  /\ \A p \in parents :
       /\ Verifies(roles, p, token.run, issuer, now)
       /\ token.capabilities \subseteq p.capabilities /\ token.budget <= p.budget
  /\ parents = {} => /\ token.capabilities \subseteq roles[issuer].delegable
                     /\ token.budget <= roles[issuer].budget
  /\ token.capabilities \subseteq roles[token.subject].capabilities
  /\ token.budget <= roles[token.subject].budget
  /\ now < token.expires

-----------------------------------------------------------------------------
(* compileMission: the stages but for the terminals are the work items *)

\* Where a repair comes from is no dependency.
Incoming(task, id) ==
  {e.from : e \in {f \in Links(task) : f.to = id /\ f.condition \notin Repairs \cup {"denied"}}}

Mission(task) ==
  LET items == SelectSeq(Stages(task), LAMBDA stage : stage.kind # "terminal")
  IN  [kind |-> [i \in DOMAIN items |-> items[i].kind],
       dependencies |-> [i \in DOMAIN items |->
                           {j \in DOMAIN items : items[j].id \in Incoming(task, items[i].id)}],
       joins |-> {i \in DOMAIN items : items[i].join = "all"},
       role |-> [i \in DOMAIN items |-> RoleFor(task, items[i].role)],
       attempts |-> [i \in DOMAIN items |-> items[i].attempts],
       ticks |-> Least(500, MaxSteps(task) * 2)]
===============================================================================

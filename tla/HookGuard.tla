------------------------------ MODULE HookGuard ------------------------------
(***************************************************************************)
(* hooks/guard.mjs: what the hook of the host says to a tool call while a    *)
(* run is open.  A run is seen as its kind, its status and, in a graph run,  *)
(* its nodes, as records of the contract (role, agent_type, tool_policy) and *)
(* of the state (status, actor) of each.  A call is a record of the tool,    *)
(* the agent that it asks for and the agent that makes it; "own" stands for  *)
(* the tools of the plugin's server, "foreign" for those of other servers.   *)
(*                                                                           *)
(* ActiveRun says what becomes of a call that is to be paid for.             *)
(***************************************************************************)
LOCAL INSTANCE Naturals

LegacyAgents == {"planner", "researcher", "verifier", "synthesizer"}

\* roleForAgentType, of the agents of graph runs.
AgentRole ==
  [direct |-> "direct", researcher |-> "researcher", planner |-> "planner",
   developer |-> "developer", verifier |-> "verifier", verifier_deep |-> "verifier",
   synthesizer |-> "synthesizer"]

GraphAgents == DOMAIN AgentRole

ControlTools == {"TaskOutput", "TaskStop", "AskUserQuestion"}

ReadCapability ==
  [WebSearch |-> "web_search", Read |-> "workspace_read", Glob |-> "workspace_read",
   Grep |-> "workspace_read"]

graphReadyAgentAllowed(run, agent) ==
  \E n \in DOMAIN run.nodes :
    run.nodes[n].agent_type = agent /\ run.nodes[n].status = "ready"

graphReadAllowed(run, caller, capability) ==
  /\ caller \in GraphAgents
  /\ \E n \in DOMAIN run.nodes :
       LET node == run.nodes[n] IN
       /\ node.role = AgentRole[caller] /\ node.agent_type = caller
       /\ node.status = "running" /\ node.actor = AgentRole[caller]
       /\ capability \in node.tool_policy

MayRead(run, call) ==
  IF run.kind = "graph"
  THEN /\ call.tool \in DOMAIN ReadCapability
       /\ graphReadAllowed(run, call.caller, ReadCapability[call.tool])
  ELSE call.tool = "WebSearch"

MaySpawn(run, agent) ==
  IF run.kind = "graph" THEN agent \in GraphAgents /\ graphReadyAgentAllowed(run, agent)
  ELSE agent \in LegacyAgents

\* "spawn" and "read" are let through if the run pays for them.
Decision(run, call) ==
  CASE call.tool = "own" -> "allow"
    [] call.tool = "foreign" -> "deny"
    [] call.tool \notin {"own", "foreign"} /\ run.status = "budget_exceeded" -> "deny"
    [] OTHER ->
         CASE call.tool = "Agent" -> IF MaySpawn(run, call.agent) THEN "spawn" ELSE "deny"
           [] call.tool \in ControlTools -> "allow"
           [] OTHER -> IF MayRead(run, call) THEN "read" ELSE "deny"

\* stop-guard.mjs: what the host is told to do before it may stop, of an open run.
Unfinished(run) ==
  CASE run.status = "budget_exceeded" -> "abort"
    [] run.kind # "graph" -> "continue"
    [] run.status = "waiting_approval" -> "ask"
    [] run.status = "failed" -> "abort"
    [] OTHER -> "continue"
===============================================================================

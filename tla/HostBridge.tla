------------------------------ MODULE HostBridge ------------------------------
(***************************************************************************)
(* The bridge of runtime/hosts/bridge-server.mjs between the kernel and the  *)
(* plugins of its hosts (integrations/opencode and integrations/pi): commands *)
(* and questions whether a tool may run, each a request that the bridge        *)
(* carries out, records and answers in steps of its own, while other requests, *)
(* the command line and the workers of the run go on.                          *)
(*                                                                           *)
(* A bridge serves one host; all of them and the command line share the runs  *)
(* of one data directory.  A run is reduced to its status and its revision    *)
(* (GraphRuntime and Kernel have the rest).  A request may time out at the    *)
(* client while the bridge goes on with it, and a bridge may die.             *)
(***************************************************************************)
EXTENDS Workers, Sequences

CONSTANTS
  Host,            \* those with a bridge and a plugin
  Request,         \* the requests
  Script,          \* Script[c]: what request c may be
  MaxRuns,         \* bound on the runs
  MaxRevision,     \* bound on the revisions: all later ones are alike
  MaxDecisions,    \* bound on the commands of the command line
  MayCrash,        \* the hosts whose bridge may die
  AllowMutation,   \* --allow-isolated-mutation
  Isolated         \* the worker tree of the plugin is an isolated one

Run == 1..MaxRuns
WithoutRun == 0
KnownRun == MaxRuns + 1   \* the one that the plugin remembers
AnyRevision == 0          \* a run that exists has a later one
Terminal == {"finalized", "failed", "aborted", "budget_exceeded"}
Operator == {"approve", "deny", "abort"}
Reads == {"compile", "status", "report", "integrity"}
Commands == {"start", "run", "resume"} \cup Operator \cup Reads
Tools == {"read", "mutate", "external"}

(* What a plugin, or somebody with its token, asks for: a command for a run, *)
(* for the run the plugin remembers or for none, at a revision or at any, or *)
(* a tool that its agent wants to use.                                       *)
Ask == [host : Host, what : Commands \cup Tools, run : Run \cup {WithoutRun, KnownRun}, at : Nat]

ASSUME HostBridgeAssumption ==
  /\ MaxRuns \in Nat /\ MaxRevision \in Nat /\ MaxDecisions \in Nat
  /\ Script \in [Request -> SUBSET Ask]
  /\ {AllowMutation, Isolated} \subseteq BOOLEAN

VARIABLES
  runs,    \* runs[r]: its status and its graph_revision
  req,     \* req[c]: what is asked and where the bridge is with it
  client,  \* client[c]: what the plugin has been told
  known,   \* known[h]: activeRunId
  log,     \* the requests recorded in host-events
  down,    \* the bridges that have died
  decisions, \* decisions made on the command line
  did,     \* the requests that changed a run or read one (history)
  before   \* before[c]: the status of the run when tool c was asked for (history)

bridgeVars == <<runs, req, client, known, log, down, decisions, did, before>>
hostVars == <<bridgeVars, workerVars>>

Nothing == [host |-> None, what |-> None, run |-> WithoutRun, at |-> AnyRevision]

HostTypeOK ==
  /\ WorkersTypeOK
  /\ runs \in [Run -> [status : {"none", "active", "waiting_approval"} \cup Terminal, rev : 0..MaxRevision]]
  /\ req \in [Request -> [pc : {"idle", "sent", "revision", "accepted", "deciding", "executing",
                                "done", "logged", "over"},
                          ask : Ask \cup {Nothing}, nodes : SUBSET Invocation,
                          allow : {"no", "allow", "deny", "require_approval"}]]
  /\ client \in [Request -> {"idle", "waiting", "ok", "refused", "failed", "tool_runs", "tool_blocked"}]
  /\ known \in [Host -> Run \cup {WithoutRun}]
  /\ log \subseteq Request /\ did \subseteq Request
  /\ down \subseteq Host /\ decisions \in 0..MaxDecisions
  /\ before \in [Request -> {"none", "active", "waiting_approval"} \cup Terminal]

HostInit ==
  /\ WorkersInit
  /\ runs = [r \in Run |-> [status |-> "none", rev |-> 0]]
  /\ req = [c \in Request |-> [pc |-> "idle", ask |-> Nothing, nodes |-> {}, allow |-> "no"]]
  /\ client = [c \in Request |-> "idle"]
  /\ known = [h \in Host |-> WithoutRun]
  /\ log = {} /\ down = {} /\ decisions = 0 /\ did = {}
  /\ before = [c \in Request |-> "none"]

-----------------------------------------------------------------------------
Of(c) == req[c].ask
HostOf(c) == Of(c).host
Serves(c, p) == req[c].pc = p /\ HostOf(c) \notin down
IsTool(a) == a.what \in Tools
Step(c, p) == req' = [req EXCEPT ![c].pc = p]
Status(r) == IF r = WithoutRun THEN "none" ELSE runs[r].status
OpenRuns == {r \in Run : runs[r].status \in {"active", "waiting_approval"}}

(* The client hears of it if it has not given up: a refusal is a 4xx, a *)
(* failure everything else that is not a 200.                           *)
Tell(c, what) == client' = [client EXCEPT ![c] = IF @ = "waiting" THEN what ELSE @]
Blocked(c, what) == IF IsTool(Of(c)) THEN "tool_blocked" ELSE what

Ends(c, what) == Step(c, "over") /\ Tell(c, Blocked(c, what))

Unchanged == UNCHANGED workerVars

-----------------------------------------------------------------------------
(* The plugin.  A tool of an agent is checked only while the plugin knows of a *)
(* run; otherwise it runs without a question.                                  *)
AskBridge(c) ==
  /\ req[c].pc = "idle" /\ client[c] = "idle"
  /\ \E a \in Script[c] :
       LET h == a.host
           r == IF a.run = KnownRun THEN known[h] ELSE a.run
       IN  /\ before' = [before EXCEPT ![c] = IF IsTool(a) THEN Status(r) ELSE @]
           /\ IF IsTool(a) /\ r = WithoutRun
                THEN /\ client' = [client EXCEPT ![c] = "tool_runs"]
                     /\ req' = [req EXCEPT ![c].ask = [a EXCEPT !.run = r], ![c].pc = "over"]
                ELSE /\ client' = [client EXCEPT ![c] = IF h \in down THEN
                                     IF IsTool(a) THEN "tool_blocked" ELSE "failed" ELSE "waiting"]
                     /\ req' = [req EXCEPT ![c].ask = [a EXCEPT !.run = r],
                                           ![c].pc = IF h \in down THEN "over" ELSE "sent"]
  /\ UNCHANGED <<runs, known, log, down, decisions, did>> /\ Unchanged

(* request(): the timer of the client.  The bridge does not hear of it. *)
GiveUp(c) ==
  /\ client[c] = "waiting" /\ Tell(c, Blocked(c, "failed"))
  /\ UNCHANGED <<runs, req, known, log, down, decisions, did, before>> /\ Unchanged

-----------------------------------------------------------------------------
(* readJson, the normalisation, the host and the authority: a body that is not *)
(* valid, and the commands of an operator from OpenCode, are refused.          *)
MayCommand(a) == ~(a.host = "opencode" /\ a.what \in Operator)

Receive(c) ==
  /\ Serves(c, "sent")
  /\ \/ Ends(c, "refused")
     \/ /\ IsTool(Of(c)) \/ MayCommand(Of(c))
        /\ Step(c, IF IsTool(Of(c)) THEN "deciding"
                   ELSE IF Of(c).run # WithoutRun /\ Of(c).at # AnyRevision THEN "revision"
                   ELSE "accepted")
        /\ UNCHANGED client
  /\ UNCHANGED <<runs, known, log, down, decisions, did, before>> /\ Unchanged

(* requireRevision: the run is read, and the command is carried out later. *)
RequireRevision(c) ==
  /\ Serves(c, "revision")
  /\ IF runs[Of(c).run].status = "none" THEN Ends(c, "failed")
     ELSE IF runs[Of(c).run].rev # Of(c).at THEN Ends(c, "refused")
     ELSE Step(c, "accepted") /\ UNCHANGED client
  /\ UNCHANGED <<runs, known, log, down, decisions, did, before>> /\ Unchanged

-----------------------------------------------------------------------------
Changes(r, s) == runs' = [runs EXCEPT ![r].status = s, ![r].rev = IF @ < MaxRevision THEN @ + 1 ELSE @]

(* kernel.start: one run is open at a time. *)
Starts(c) ==
  /\ Of(c).what \in {"start", "run"} /\ OpenRuns = {}
  /\ \E r \in Run :
       /\ runs[r].status = "none" /\ \A q \in Run : runs[q].status = "none" => r <= q
       /\ Changes(r, "active")
       /\ req' = [req EXCEPT ![c].ask.run = r,
                             ![c].pc = IF Of(c).what = "run" THEN "executing" ELSE "done"]

(* kernel.resume, and the commands that only read. *)
Continues(c) ==
  /\ Of(c).what \in {"resume"} \cup Reads
  /\ Status(Of(c).run) # "none" \/ Of(c).what = "compile"
  /\ Step(c, IF Of(c).what = "resume" THEN "executing" ELSE "done")
  /\ UNCHANGED runs

(* kernel.approve with the challenge of the approval, and kernel.abort. *)
Decides(c) ==
  LET r == Of(c).run IN
  /\ \/ /\ Of(c).what \in {"approve", "deny"} /\ Status(r) = "waiting_approval"
        /\ \E s \in {"active", "waiting_approval"} \cup
                    (IF Of(c).what = "deny" THEN {"finalized", "failed"} ELSE {}) : Changes(r, s)
     \/ /\ Of(c).what = "abort" /\ Status(r) \notin {"none"} \cup Terminal
        /\ Changes(r, "aborted")
  /\ Step(c, "done")

(* executeHostCommand: what the kernel does not accept is a 400 or a 500. *)
Carry(c) ==
  /\ Serves(c, "accepted")
  /\ \/ (Starts(c) \/ Continues(c) \/ Decides(c)) /\ did' = did \cup {c} /\ UNCHANGED client
     \/ (Ends(c, "refused") \/ Ends(c, "failed")) /\ UNCHANGED <<runs, did>>
  /\ UNCHANGED <<known, log, down, decisions, before>> /\ Unchanged

(* kernel.run and kernel.resume call the workers of a batch while the run is *)
(* active ...                                                               *)
StartNode(c) ==
  /\ Serves(c, "executing") /\ Status(Of(c).run) = "active"
  /\ \E i \in Invocation : Invoke(i) /\ req' = [req EXCEPT ![c].nodes = @ \cup {i}]
  /\ UNCHANGED <<runs, client, known, log, down, decisions, did, before>>

(* ... complete their nodes, which may end the run or stop it at a gate; a run *)
(* that is over meanwhile takes no more results ...                            *)
NodeEnds(c) ==
  /\ Serves(c, "executing")
  /\ \E i \in req[c].nodes :
       /\ inv[i].pc \in Settled
       /\ req' = [req EXCEPT ![c].nodes = @ \ {i}]
  /\ IF Status(Of(c).run) = "active"
       THEN \E s \in {"active", "waiting_approval", "finalized", "failed"} : Changes(Of(c).run, s)
       ELSE UNCHANGED runs
  /\ UNCHANGED <<client, known, log, down, decisions, did, before>> /\ Unchanged

(* ... and return, or fail, when it is not active or max_rounds is reached. *)
Returns(c) ==
  /\ Serves(c, "executing") /\ req[c].nodes = {}
  /\ Status(Of(c).run) # "active" \/ \A i \in Invocation : ~At(i, "idle")
  /\ (Step(c, "done") /\ UNCHANGED client) \/ Ends(c, "failed")
  /\ UNCHANGED <<runs, known, log, down, decisions, did, before>> /\ Unchanged

-----------------------------------------------------------------------------
PolicyOfAnyRun(a) ==
  IF a.what = "read" THEN "allow"
  ELSE IF Status(a.run) = "none" THEN "deny"
  ELSE IF a.what = "external" THEN "require_approval"
  ELSE IF ~Isolated THEN "deny"
  ELSE IF AllowMutation THEN "allow"
  ELSE "require_approval"

(* defaultToolPolicy: what is allowed, on the status read now. *)
Policy(a) ==
  IF a.what = "read" THEN "allow"
  ELSE IF Status(a.run) \in {"none"} \cup Terminal THEN "deny"
  ELSE IF a.what = "external" THEN "require_approval"
  ELSE IF ~Isolated THEN "deny"
  ELSE IF AllowMutation THEN "allow"
  ELSE "require_approval"

Decide(c) ==
  /\ Serves(c, "deciding")
  /\ req' = [req EXCEPT ![c].allow = Policy(Of(c)), ![c].pc = "done"]
  /\ did' = did \cup {c}
  /\ UNCHANGED <<runs, client, known, log, down, decisions, before>> /\ Unchanged

LogOrGoOn(c) ==
  /\ Serves(c, "done") /\ Step(c, "logged")
  /\ log' = log \cup {c} \/ UNCHANGED log
  /\ UNCHANGED <<runs, client, known, down, decisions, did, before>> /\ Unchanged

(* appendEvent: when it fails the answer is a 500, whatever has been done. *)
LogEvent(c) ==
  /\ Serves(c, "done")
  /\ \/ log' = log \cup {c} /\ Step(c, "logged") /\ UNCHANGED client
     \/ Ends(c, "failed") /\ UNCHANGED log
  /\ UNCHANGED <<runs, known, down, decisions, did, before>> /\ Unchanged

(* The answer: the plugin remembers the run of a command, and lets a tool run *)
(* that was allowed.                                                          *)
Remember(c) == IF client[c] = "waiting" /\ ~IsTool(Of(c)) /\ Of(c).run # WithoutRun
                 THEN known' = [known EXCEPT ![HostOf(c)] = Of(c).run] ELSE UNCHANGED known

Answer(c) ==
  /\ Serves(c, "logged") /\ Step(c, "over") /\ Remember(c)
  /\ Tell(c, IF ~IsTool(Of(c)) THEN "ok" ELSE IF req[c].allow = "allow" THEN "tool_runs" ELSE "tool_blocked")
  /\ UNCHANGED <<runs, log, down, decisions, did, before>> /\ Unchanged

-----------------------------------------------------------------------------
(* The command line: proofgraph approve, deny, abort. *)
Operate(r) ==
  /\ decisions < MaxDecisions /\ decisions' = decisions + 1
  /\ \/ runs[r].status = "waiting_approval" /\ Changes(r, "active")
     \/ runs[r].status \in {"active", "waiting_approval"} /\ Changes(r, "aborted")
  /\ UNCHANGED <<req, client, known, log, down, did, before>> /\ Unchanged

(* A bridge dies: its requests are cut off, its workers may go on. *)
BridgeDies(h) ==
  /\ h \in MayCrash \ down /\ down' = down \cup {h}
  /\ LET mine == {c \in Request : HostOf(c) = h /\ req[c].pc # "over"} IN
       /\ req' = [c \in Request |-> IF c \in mine THEN [req[c] EXCEPT !.pc = "over"] ELSE req[c]]
       /\ client' = [c \in Request |-> IF c \in mine /\ client[c] = "waiting" THEN Blocked(c, "failed") ELSE client[c]]
       /\ Lose(UNION {req[c].nodes : c \in mine})
  /\ UNCHANGED <<runs, known, log, decisions, did, before, child, mail, fault>>

BridgeStep(c) ==
  \/ Receive(c) \/ RequireRevision(c) \/ Carry(c) \/ StartNode(c) \/ NodeEnds(c)
  \/ Returns(c) \/ Decide(c) \/ LogEvent(c) \/ Answer(c)

HostNext ==
  \/ \E c \in Request : AskBridge(c) \/ GiveUp(c) \/ BridgeStep(c)
  \/ \E i \in Invocation : (AdapterStep(i) \/ ChildStep(i)) /\ UNCHANGED bridgeVars
  \/ \E r \in Run : Operate(r)
  \/ \E h \in Host : BridgeDies(h)

(* The bridge goes on with what it has, and the timers of the adapters run; *)
(* no worker has to do anything, and no client has to ask.                  *)
Fairness ==
  /\ \A c \in Request : WF_hostVars(BridgeStep(c))
  /\ \A i \in Invocation : WF_hostVars(AdapterStep(i) /\ UNCHANGED bridgeVars)

HostSpec == HostInit /\ [][HostNext]_hostVars /\ Fairness

-----------------------------------------------------------------------------
(* A command that was answered with success has been carried out and recorded; *)
(* one that was refused (bad request, no authority, an old revision) has       *)
(* touched nothing.  A failure tells the client nothing.                       *)
AnswersAreTrue ==
  \A c \in Request :
    /\ client[c] = "ok" => c \in did \cap log
    /\ client[c] = "refused" => c \notin did \cup log

(* A tool that writes runs in a host that knows of a run only if that run was *)
(* not over when the agent asked, in an isolated tree, and was recorded first. *)
ToolsStayInRuns ==
  \A c \in Request :
    (client[c] = "tool_runs" /\ Of(c).what # "read" /\ Of(c).run # WithoutRun) =>
      /\ Of(c).what = "mutate" /\ Isolated
      /\ before[c] \notin Terminal
      /\ c \in log

(* Every request that the bridge has got comes to its end, whatever the workers *)
(* of its run do, and whether or not its client still waits.                    *)
EveryRequestEnds == \A c \in Request : (req[c].pc # "idle") ~> (req[c].pc = "over")
=============================================================================

# TLA+ models of ProofGraph

Formal models of ProofGraph: the stores and their locks, the graph runtime and
the kernel that drives it, the workspace and the workers, the research workflow,
and the standalone organization with its missions, its queue and its control
plane. Each model is checked with TLC on small instances; the safety properties
and refinements of all stateful components are proved with TLAPS for any number
of callers, any graph and any limits.

    tlc -config RunStore_safety.cfg RunStore.tla         # one run
    tlapm GraphRuntimeProofs.tla                         # one proof module

`PROJECT.json` maps every definition to the lines of source it stands for, and
lists the runs, a mutant of the code for every property, the hazards and the
theorems. Paths below are relative to the repository; `standalone/` is short for
`packages/standalone/`.

## 1. The system

ProofGraph executes *graphs* of work (research, plan, develop, verify, ask a
human) with external coding agents, and keeps for every run an append-only,
hash-linked event log from which its report can be audited. It comes in two
generations: the plugin and kernel (`server/`, `runtime/`, `hooks/`) and the
standalone organization runtime (`standalone/runtime/`).

| component | state it keeps | operations | who else is involved |
|---|---|---|---|
| Run store (`server/lib/store.mjs`, `lock.mjs`) | `state.json`, `events.jsonl`, `transaction.json`, `.lock` per run | `createRun`, `readRun`, `withRunTransaction`, recovery | every process that knows the run |
| Active-run guard (same file) | `active/<project>.json` | `setActiveRun`, `clearActiveRun`, `readActiveRun` | starts and ends of runs, the hooks |
| Graph specification (`graph-spec.mjs`) | none | `validateGraphSpec` | graph runtime, compiler |
| Graph compiler (`graph-compiler.mjs`) | none | `assessObjective`, `compileDynamicGraph` | graph runtime |
| Graph runtime (`graph-runtime.mjs`) | a run's record: nodes, edges, approvals, counters, budgets | start, claim, complete, resolve, expand, abort, report | kernel, MCP tools, TUI |
| Research workflow (`workflow.mjs`, `source.mjs`) | a research run's record: plan, claims, sources, evidence, verdicts | register, fetch, attach, record, complete, finalize, abort | MCP tools, hooks |
| Hooks (`hooks/`) | audit events in the run | guard, audit, stop-guard | run store, active-run guard |
| Graph kernel (`runtime/kernel.mjs`) | in memory only | run, resume, approve, abort, executeNode | graph runtime, debugger, workspace, adapters |
| Debugger (`runtime/debugger/`) | `debug.json` per run | command, beforeNode, afterNode, onStatus | kernel, TUI, inspector |
| Workspace engine (`runtime/workspace/`) | a git worktree, its record and receipts | prepare, proposeActions, decide, executeApproved, rollback | kernel, git |
| Adapters, hosts, bridge (`runtime/adapters`, `hosts`) | sessions of external agents, the event log of a host | execute; HTTP commands with revisions | kernel, external programs, plugins |
| Hash-chain store (`standalone/runtime/core`) | `state.json`, `events.jsonl`, a lock directory per record | create, read, update, verifyEvents | all standalone components |
| Durable queue (`os/durable-queue.mjs`) | jobs with leases | enqueue, claim, heartbeat, complete, fail | autonomous OS |
| Task intelligence, organization, mission compiler (`intelligence/`, `organization/`) | none | from an objective to roles and work items | company runtime |
| Company runtime (`company/`) | a mission: work items, approvals, deliveries | start, claim, completeClaim, decide, pause, resume, abort, recover | its graph port, OS, control plane |
| Intelligence fabric (`intelligence/`) | contracts, graph, routes, packets in the mission; the memory of the organization | prepareExecution, processReport, terminal verification | company runtime |
| Autonomous OS (`os/autonomous-os.mjs`) | cycles, councils, improvements | runCycle, resolve approvals, abort | queue, company runtime |
| Control plane (`control-plane/`) | commands by idempotency key, runners, projections | command, views, host events | HTTP clients, all of the above |
| Observability (`observability/`) | none | projections for dashboards | control plane, TUI |
| MCP servers, CLI, TUI, templates | none of their own | framing and presentation | — |

### How they interact

Everything durable goes through a store. A *transaction* of the run store takes
the run's lock file, finishes what a crash left in the journal, verifies the
event chain, lets a *mutator* change a copy of the record, and writes journal,
events and state in this order. The graph runtime is a set of mutators. A call
of a client is not one transaction but two: `reserve` checks the status and pays
for the call, then the call itself runs; other clients come in between. Starting
a run touches three files (guard, run directory, run record) one after the other.
The kernel drives a run: it reads the status, claims a batch of ready nodes,
asks the debugger before each of them, lets an adapter work in a workspace, and
completes the nodes. Hosts (OpenCode, Pi, Orca) ask the kernel through a bridge,
and are asked by it as workers.

The standalone components repeat this architecture over the second store, whose
commit is two file writes under a lock directory and without a journal. A mission
is ticked by any number of drivers; what a driver does between two transactions
rests on what it has read. An organization run creates one mission after another
until one succeeds, reviews each, and asks a human in between. The control plane
starts drivers and carries out the operator's commands on both.

### What is hard about it

* **Processes that only meet in files.** A lock is a file created exclusively,
  considered stale by its age, and removed by whoever finds it old.
* **Crashes** between any two file operations, in a store, in a start, in the
  kernel between a claim and its completion, in a command of the control plane.
* **Check-then-act over two transactions**: reserve and mutate, check the guard
  and set it, decide on a tool call and pay for it, read a workspace and write it
  back, read a mission and conclude it.
* **Graphs are data**: loops, fan-outs, joins, retries, expansions at run time,
  a fallback when no route matches. Does every run end? Can it get stuck?
* **Approvals** that are requested and answered while other work goes on.
* **Leases, retries, timeouts**: a worker taken for dead that reports after all,
  a request whose client has given up, a command that is sent again.

### What makes each component correct

* Stores: no lost update, atomic and recoverable transactions, an event log that
  always verifies, no caller that hangs.
* Guard and hooks: one open run per project, an open run is never without its
  guard, the guard of a run that is over is released, tool calls are paid for.
* Graph runtime: approvals are answered by exactly the nodes that wait, gated
  nodes are not entered without approval, a success terminal is behind a
  verifier, joins wait, no run is wedged, an outcome is final, every run ends.
* Compiler: its graphs are valid, gated where they have to be, and can be worked.
* Research workflow: a report rests on verified quotes of sources that were
  fetched; it stands.
* Kernel and debugger: one worker per node, none forgotten, the operator is obeyed.
* Workspace: only approved actions are applied, once; adapters leave nothing.
* Workers and bridge: a node gets its own worker's result; an answer is true.
* Queue: the lease holder completes a job, attempts are limited, settled is final.
* Company, fabric, OS, control plane: late workers are not heard, the quality gate
  is earned, what was completed stays so, no run is stranded, a command is
  executed once.

## 2. The modules

| module | what it is |
|---|---|
| `CommitLog` | abstract specification of a store: a log of transactions and who has been told |
| `RunStore` | one run directory and its lock file, step by step; implements `CommitLog` |
| `GraphSpec` | what `validateGraphSpec` checks and normalises, as operators on graphs |
| `GraphCompiler` | `assessObjective` and `compileDynamicGraph` as functions of an objective |
| `GraphRuntime` | the record of a graph run and every call that changes it |
| `ActiveRun` | the guard of a project, its runs' statuses, the clients and the hooks |
| `HookGuard` | what the hook of the host says to a tool call |
| `Kernel` | the processes that resume a run, the debugger they ask, the operator |
| `Workspace` | the worktree of a run, the invocations that use it, the operators that approve |
| `Workers` | the worker adapters: a promise around a child process, a session or a task |
| `HostBridge` | the bridge, its requests and the plugins; extends `Workers` |
| `ResearchRun` | a research run: plan, claims, sources, evidence, verdicts, report |
| `ChainStore` | one record of the hash-chain store, step by step |
| `DurableQueue` | abstract specification of the job queue: one step per operation |
| `QueueStore` | the queue on the hash-chain store; extends `ChainStore`, implements `DurableQueue` |
| `QueueParameters` | the constants that both queues share |
| `TaskIntelligence` | from an objective to a task specification and its blueprint |
| `Organization` | from a task to departments, roles, delegation and the work items of a mission |
| `GraphPort` | the ports that have work items done, and what their reports say |
| `Company` | a mission |
| `Collaboration` | the contracts between the roles of a mission |
| `KnowledgeGraph`, `ModelRouter`, `ContextPacket` | the parts of the fabric that compute: impacts, routes of models, packets |
| `Intelligence` | the fabric of a mission and the memory of its organization |
| `Operations` | an organization run and the control plane |
| `Projection` | what dashboards show of missions, organizations and the fabric |
| `GraphRuntimeProofs`, `KernelProofs`, `CompanyProofs`, `QueueStoreProofs`, `ResearchRunProofs` | theorems about the module of that name (and what it extends) |
| `HostProofs` | theorems about `ActiveRun`, `Workers` and `HostBridge` |
| `ControlProofs` | theorems about `Workspace` and `Operations` |
| `RecordProofs` | theorems about `RunStore` and `Intelligence` |
| `MC*` | instances for TLC, symmetry, and assumptions that TLC evaluates over grids of inputs |

The modules form layers rather than one product. `RunStore` shows that a
transaction is atomic and that transactions of one run are serialized; that is
what lets `GraphRuntime` run a mutator without interleaving (`phase`) and lets
`ActiveRun` and `ResearchRun` treat a transaction as one step. `Kernel` stands on
top: it treats a call of the graph runtime as one step and keeps of the graph
only what a kernel notices. `HostBridge` in turn keeps of a run its status and
its revision. Likewise `ChainStore` for `QueueStore`, `Company`, `Intelligence`
and `Operations`; `Operations` keeps of a mission what an organization notices.
Where a component computes and keeps nothing, its module has operators only, and
what must hold of them is an `ASSUME` of an `MC*` module over a grid of inputs.

Three proof modules extend two components each, which share no state and no
definition. So that they can, the second one prefixes what every module has:
`HostSpec`, `HostTypeOK` in `HostBridge`, `OSSpec`, `OSTypeOK` in `Operations`,
`FabricSpec`, `FabricTypeOK` in `Intelligence`.

History variables are marked `(history)` where they are declared. They record
what happened, are read by no guard, and serve to state a property.

### RunStore

One action per file operation. `pc[p]` says which line of
`withRunTransaction`/`acquireFileLock` caller p is about to execute, `buf[p]`
what it holds in local variables. The hash of an event is modelled by the pair
that identifies the event, the digest of a state by the list of the transactions
in it: both are collision-free, as the code assumes of SHA-256. Every transaction
has two events, one of its mutator and `state.committed`. A lock file is free,
fresh or stale; `Age` makes it stale, `SeeStale` and `BreakStale` are the `stat`
and the `rm` of two different moments. `createRun` is what the code does: a
directory, a state file, an event file, no lock, no journal.

`Faults` chooses what the environment may do, so that the run and each theorem
say exactly under which failures a property holds: `crash`, `io_error` (a file
operation throws, the `finally` block releases the lock), `broken_create` (either
of these between `createRun`'s two files), `torn_append` (an append cut after its
first line), `racing_breakers` (two callers remove the same stale lock) and
`slow_holder` (a live caller exceeds `staleMs`).

### GraphSpec and GraphCompiler

`GraphSpec` has the checks of single nodes, edges and limits (`NodeIsAdmitted`,
`EdgeIsAdmitted`, `LimitsAreAdmitted`), the defaults that normalisation puts in,
and the checks of the whole graph (`ValidGraphSpec`: reachability, terminals,
cycles with an exit, a verifier on the way to success). `GraphCompiler` takes an
objective as what the word lists find in it and computes signals, route, fan-out,
limits, nodes and edges. `MCGraphRuntime` evaluates, over a grid of assessments,
that every compiled graph is valid (`CompiledGraphsAreValid`), that normalisation
is idempotent and mutating nodes need approval (`NormalizedNodesStay`), that
risky work is behind the human gate and security risks lead back to it
(`RiskyWorkIsGated`), that the step limit leaves all attempts (`StepsSuffice`),
and when the fan-out fits the parallel limit (`FanOutFits`). `GraphsAreThreaded`
says of the same graphs, and of the graphs of the runs, what the proof that no run is
wedged asks of a graph (section 4).

### GraphRuntime

A graph is a constant record, `Graph`, whose assumption is that it passed
validation. `disk` is the committed record, `run` the copy a mutator works on.
Claiming, reserving, expanding and aborting are single steps. A mutator that
routes is a small program of its own: `activate` steps follow the selected edges
(in any order; the code's order is one of them), `AutoTriage` and
`FinalizeTerminal` are the iterations of `autoAdvance` in list order, `SweepEnds`
its outer loop, `Commit` the write. `route`'s specific-over-`always` rule, the
priority rule, the fan-out exception, the fallback to a failed terminal, the
synthetic edges, the reset of nodes that are entered again and the three ways
in which a join is satisfied are kept. Left out: the texts of outputs, actors and
roles (any client may do what another may), timestamps except the deadline, cost
accounting (tool calls stand for the budgets that are counted the same way).

A client reserves only calls that could succeed at that moment (`Useful`); by the
time the second transaction runs they may be useless, and then `Reject` is the
thrown error. `EarlyCalls` says whether others may already call while
`startGraphRun` is between `createRun` and its first advance. They can, because
the guard already names the run.

### ActiveRun and HookGuard

One action per access to a file of `startRun`, `startGraphRun`, `clearActiveRun`,
the calls that end a run, and `getActiveState` of the hooks, which itself writes:
it clears the guard of a run that is over. A run whose start throws after it was
created is an `orphan`: the guard is released, the run stays, and nobody was told
of it. A hook that is asked about a tool call looks at the active run twice, once
to decide (`HookAsks`) and once to pay (`HookLooksAgain`, `HookReserves`); what it
decides is `HookGuard`'s `Decision`, evaluated in `MCGraphRuntime` with the graphs
of the compiler: the agents a graph names can be started and can read what their
contract says, nobody writes or runs commands (`AgentsCanDoTheirWork`), and a run
out of budget can still be aborted (`ExhaustedRunsCanBeEnded`).

### Kernel

`pc[k]` is where `resume()` of process k is, `snap[k]` the status it has read and
will act upon, `inv[k][n]` the line of `executeNode` its invocation of node n has
reached: before the debugger, before the claim, in the adapter, before the
completion, in the catch block, before `afterNode`. Invocations of a batch
interleave freely with each other, with other processes and with the operator.
The debugger's locked sections (`mutate`, `beforeNode`) are one step; its unlocked
`read`, which creates `debug.json` where there is none, is two (`OnStatus`,
`CreateDebug`), and so is the catch block that follows a failing `afterNode`
(`AfterNodeFails`, `Fallback`). `Continue` is `resume` and `retry`, which do alike.

Of the graph a kernel sees which nodes are ready, running, done or waiting for a
human: a node becomes ready when the nodes before it have succeeded, a failure
retries the node until its attempts are used up and then ends the run, an
approval makes the run wait. `Graphs` is the set of such graphs. Left out: the
workspace (below; an error of its `prepare` is one of the faults), dynamic tasks,
manual triage nodes, breakpoints on kinds, and the round counter (a kernel may
give up after any round).

### Workspace

The tree is the set of edits made since it was checked out: by the adapter of an
invocation, or by an action of a proposal. Nobody locks anything: every call reads
the record, works in the tree, and writes the record back in a later step, in
which it overwrites what others have written. Invocations take their snapshots
(`BeforeInvocation`, `AfterInvocation`) around an adapter that may change the tree
although it must not; operators decide, execute, roll back and close. That
different adapters make different edits is an assumption: the code compares
`git status` and hashes, so two adapters with byte-identical edits would look like
none. What one action does to a file (patch, write, command) is one edit.

### Workers and HostBridge

An invocation is a promise: running, resolved with a result, or rejected. Timers,
output limits, exits, error lines, messages and the death of the process come in
any order; `child[i]` may stay alive after its promise is settled (SIGTERM is only
a request), `mail` holds the messages of Orca's workers, with those of other
tasks, of replaced dispatches and second copies. The abort signal is left out:
nobody in `src/` passes one to the kernel.

A request at the bridge is read, checked against the revision, carried out,
recorded in the host's event log and answered in steps of its own; a client may
give up in between, and a bridge may die. Of a run there are the status and the
revision; the workers a command starts are those of `Workers`.

### ResearchRun

A call is several transactions: it reserves its budget, reads, and commits, and
other calls come in between (`call[c].at`). `finalize` writes the report files
inside its transaction (`Publish`, while `lock` names the caller). Fetches follow
redirects, each checked against the policy (`Fetched`); quotes are found or not;
`content` says whether a stored text is still what was fetched. Claims are
classified as the code does it: by the last verdicts, by enough different hosts,
without suspect sources. Left out: sizes, types and timeouts of fetches, prompts,
formats of the report; the budget and the deadline are "a reservation may find
the budget exceeded".

### ChainStore, DurableQueue, QueueStore

`ChainStore` has one action per file operation of `create`, `read` and `update`.
The events of one update are one line, identified by its number. `DurableQueue`
is the queue as its callers would like to see it: `Effect` is the mutator of each
operation, and time is the set of the deadlines that have passed. `QueueStore`
takes each operation apart into the calls of the store (`initialize` reads and
perhaps creates, then an update) and is shown to implement `DurableQueue`, with a
lease running out at any time and callers dying anywhere.

### TaskIntelligence, Organization, GraphPort, Company

`TaskIntelligence` is what `classifyTask`, the specification and the blueprint of
a task compute, `Organization` the departments, roles, capabilities, delegation
tokens and the work items of the compiled mission, `GraphPort` what the ports make
of an agent's answer. `MCCompany` relates them over a grid of tasks and reports:
blueprints are adequate, an approval that is needed is on the way, missions can
end within their ticks, duties are separate, delegation attenuates, a report earns
its promotion (see the comments of its assumptions).

`Company` is the mission's record with every transaction of `tick()` as a step:
`at[d]` is where driver d is in it, `work[d]` the item and attempt it works on. The
operator pauses, resumes, retries, recovers, decides and aborts at any time;
couriers deliver what is approved. A result is the number of the attempt that made
it. What the fabric will say at the end is chosen at the start, because it no
longer changes once every item is completed; whether a mission that cannot be
repaired ends as failed or partial depends on numbers that are not modelled, so
both may happen.

### Collaboration, KnowledgeGraph, ModelRouter, ContextPacket, Intelligence

The fabric never changes a record in place: a driver computes a new one from a
copy it has read, and the transaction that stores it overwrites what the other
driver has stored (`behind`, `overwritten`). Of the mission there is what the
fabric reads. The parts that compute are operators of their own, related in
`MCIntelligence`: impacts follow the shortest paths, packets are bounded and drop
only what does not fit, routes are monotone in what is asked and are the best of
those possible, summaries of observations lose nothing, percentiles are the
nearest rank, contracts are settled by others than their producers. Left out:
lists that are only kept, scores (any order of the models), digests, redaction,
validity dates.

### Operations

Every transaction of an organization run and of the control plane is one step;
what was read before it is kept in `my` and `ask`, and most transactions do not
look again. Drivers are the runners of the control plane or `os-run` in another
process. A mission is its status, whether it is paused, whether an approval is
pending and what its failures amount to. A command has an id, and the record of it
is what makes it idempotent. Left out: improvement proposals, texts of councils,
views, host connections and tokens.

### Projection

What the dashboards show is computed from the records of `Company`, `Intelligence`
and `Operations`; `MCCompany` and `MCIntelligence` state what the view has to do
with the runtime: the next nodes are those that the next claim chooses from, 100
percent means every item is completed, summaries account for every contract.

## 3. The runs

| run | question | instance |
|---|---|---|
| `RunStore_safety` | Is the store atomic, durable and serialized, does it implement `CommitLog`, and does every call return? | 3 callers, 4 transactions, 3 failures of any kind but the two that break the lock |
| `GraphRuntime_loop` | Approvals, wedging, finality and termination of a develop–verify loop with a human | 2 racing clients, deadline, abort, a client that dies |
| `GraphRuntime_compiled` | Are joins and verification kept through retries and an expansion, with callers that do not wait for the start? | a graph of `GraphCompiler`: 2 shards, one dynamic task; 2 clients |
| `ActiveRun_guard` | Does the guard name every open run, is it released, is a tool call paid by the run that decided it? | 2 clients, 1 hook, 3 runs, 2 failures |
| `Kernel_control` | One worker per node, no forgotten node, an operator who is obeyed | 2 processes, 3 nodes, 2 attempts, a counted command, a fault |
| `Workspace_approval` | Is only applied what was approved, once, and do adapters leave nothing? | 2 invocations, 2 operators, 2 proposals of 2 actions, a death |
| `Hosts_commands` | Are answers of the bridge true, tools kept in runs, results one's own, and does every request end? | 2 hosts, 2 requests, one run, a worker of any adapter, a bridge that dies |
| `ResearchRun_report` | Is evidence grounded, is the report sound, does it stand? | 2 calls in flight, 3 pages on 2 hosts with a redirect, a claim, a changed text or a crash |
| `QueueStore_calls` | Is the queue on the store the abstract queue, and does every call return? | 2 callers, one job of 2 attempts, heartbeats, a failure |
| `Company_mission` | Who is heard, are approvals matched, is the gate earned, is what is completed final, are deliveries approved? | 2 drivers, 2 couriers, approval–develop–join–verify with repair, a death |
| `Intelligence_gate` | Does the gate mean that contracts are closed and impacts reviewed; is verified memory earned? | 2 drivers, two developments and a verification, a curator |
| `Operations_cycles` | Is no run stranded, is the next mission free, is a command carried out once? | 2 drivers, 2 requests with the same command, 2 cycles, a death |

### Properties and what they rely on

Each property is stated above its definition. Some have exceptions, which are part
of what the models show: `QuietRunVerifies` excuses a run whose `createRun` was
interrupted; `OneWorker` a stray completion; `NoOrphans` names the ways in which a
running node is given up; `OperatorIsObeyed` a command that was written over;
`LetThroughIsPaid` a run that is over or whose start failed; `ExecutedOnce` two
operators at the same time or one that died; `OpenContractsHaveWork` a record that
was overwritten; `NextMissionIsFree` a driver that died; `NobodyIsStranded` the
write of `resolveMissionApproval`.

### What the models show beyond the runs

None of the following has a run of its own; each can be seen by letting the model
do it (a fault, a larger constant, an exception dropped).

*Run store and guard.*
Two callers that find the same stale lock can both enter: the first removes it and
takes the lock, the second removes that one (`lock.mjs:54`, `racing_breakers`); an
acknowledged transaction is then lost. A holder slower than `staleMs` has the same
effect (`slow_holder`, `lock.mjs:53`). After a torn append recovery refuses to go
on for ever, and a crash between `createRun`'s two files leaves a run that never
verifies; nothing acknowledged is lost in either case, and every call returns.
`verifyRun` reads the events without the lock, so a transaction in between looks
like tampering (`store.mjs:398`). A crash between setting the guard and creating
the run leaves a guard that nothing releases: the run it names does not exist and
cannot be aborted (`graph-runtime.mjs:477`). If the first advance throws, the guard
is released and the run stays open (`orphan`).

*Graphs.* `expandGraph` validates the expanded graph from its entry
(`graph-runtime.mjs:636`), not from where the run already is. A task of kind
`verify` that an earlier pass has added can make a later expansion across the real
verifier look verified: after two expansions and a retry that wakes a join of plan
nodes, a run that requires verification succeeds with no verifier attempted. That
is why `Verified` assumes that no task is a verifier; the graphs of the compiler
and the instances of the runs have none.
Validation does not keep a run from being wedged: active, with nothing ready or
running. `Wedges` (section 4) leaves these ways, and each can happen. An all-join
(`graph-runtime.mjs:135`) is reached from some of its sources and the others are never
taken. The same after an expansion: `expandGraph` makes the join wait for the tasks
(`graph-runtime.mjs:664`) and leaves the edges by which a plan that fails may reach it,
and then no task is started. Two approvals are pending and one is answered (below).
Finally, without a partial or failed terminal a node out of attempts leads nowhere
(`graph-runtime.mjs:206`).
When two approvals are pending and one is answered, the run is active
again and the other can no longer be answered while it is, as
`resolveGraphApproval` wants `waiting_approval` (`graph-runtime.mjs:609`); nothing
is lost if the rest of the run leads to another approval. A run that is aborted
between `createRun` and its first advance comes back to life
(`graph-runtime.mjs:497`). The entry node gets ready without the approval it may
require (`graph-runtime.mjs:480`). `expandGraph`'s mutator does not look at the
status, so an expansion reserved before an abort adds nodes to the aborted run; its
outcome does not change. Validation wants a verify node on every path to success,
not an edge on its passing (`graph-spec.mjs:217`). With `max_parallel_nodes` of 1 a
research objective still fans out to 2, and the compiled run fails at its first
advance (`graph-compiler.mjs:115`; `docs/GRAPH_ENGINEERING_KO.md:128` allows 1).

*Hooks.* A hook looks twice at the active run (`hook-lib.mjs:81`): a call decided by
a run that has ended in between may be paid by its successor or by nobody. The
guard lets no writing or shell tool through, whatever an explicit graph's policy
grants.

*Kernel and debugger.* A node stays running for good if the router or the request
throws between the claim and the `try` (`kernel.mjs:184`), or if it is done while
another node has made the run wait for an approval; every later resume throws until
the run is aborted or its time is up. If `afterNode` throws, the node may be failed
again although another process is at it. A pause that is the first thing in
`debug.json` can be written over by a kernel that found none (`controller.mjs:57`).

*Workspace.* A proposal can be lost when two invocations write the record; a receipt
may stand for a tree that another one's rollback has reset; two operators may
execute one approval twice; a crash between `git worktree add` and the record wedges
the workspace.

*Hosts.* A client that gives up after 30 seconds leaves the run going on and does
not learn its id, so that its tools are not asked about. A request may answer 500
though it was carried out. The expected revision is compared with one read and the
command applied later (`bridge-server.mjs:126`). A Pi child told to stop may go on
writing; Orca worktrees and tasks are left behind when a later step fails. The
status of an older run switches the run a plugin remembers, which fails closed.

*Research.* Verdicts and claims that were reserved before `finalize` may be added
after it; the report stands.

*Company and organization.* A driver that has read "all completed or failed, one
failed" gives the mission up later (`company-runtime.mjs`, `reconcile`). If the
operator retries the item in between and another driver completes the mission, the
late write ends it as failed with the quality gate still passed: `GateIsEarned` and
`CompletedIsFinal` allow for it, and it takes seven ticks and three attempts of a
verification to see it. Two couriers may both deliver (`company-runtime.mjs:511`).
If `prepareExecution` throws, the item stays claimed until it is recovered. Direct
missions are never repaired after a failed verification, although attempts remain.
A delegated token may outlive its parent and budgets handed out are not summed
(`delegation.mjs`). A verifier's failed command outweighs its passed verdict. A
crash between creating a mission and adopting it takes the id of the next mission
for ever (`autonomous-os.mjs:74`); `resolveMissionApproval` writes whatever it finds
(`autonomous-os.mjs:165`); a launch while a runner leaves does nothing.

*Fabric.* A contract that was written over is open again for good and the gate then
fails. A blocked contract is open again when acknowledged; one of several consumers
suffices to complete it; an artifact counts as verified memory for every candidate,
the verifier's own role included; memory rejected after its recall is not noticed
at the end. Routes made with observations do not verify against the registry they
were made from (`model-router.mjs`). The memory's `promote`, `reject` and
`supersede` have no caller outside the tests.

*Dashboards.* A paused mission that is over is still shown as paused
(`contracts.mjs:60`). A denied approval that was retried and approved is shown as
made good, while the gate counts it (`contracts.mjs:48`,
`company-runtime.mjs:131,368`). `evidence_count` of a completed contract is always 0
(`projection.mjs:163`, `collaboration-runtime.mjs:90`). No loop is ever shown as
exhausted, and the loops of failed missions stay active (`projection.mjs:305`).

### Bounds, and why they are enough

* Three callers of the run store allow a holder, one that has seen a stale lock and
  one that takes it in between; four transactions a creation, an interrupted one
  with its recovery, and two that race. Three failures interrupt a recovery that
  itself follows an interrupted recovery.
* Graph instances are small but have every construct: a loop through a verifier,
  a loop through a human, a fan-out, an `all` join, a retry back through the
  fan-out, an expansion, fallbacks. `max_attempts` and `max_route_visits` of 2 let a
  loop be entered, repeated and broken. `MaxTools` is large enough for complete
  runs and small enough that the budget also ends some.
* Three runs of a project let a start overtake an end that overtook another start,
  with a hook that acts on what has just changed.
* Two kernels and three nodes let batches overlap and go stale; the graphs have a
  node of a human after one of two parallel workers, and two approvals at once.
* Two operators and two invocations are every pair that can race in a workspace;
  two proposals let one be written over, two actions let an execution stop halfway,
  three calls of operators are a decision and two executions.
* Two requests at the bridges: one that executes a run, one that meets it (a
  command at a revision, a tool, a decision). Requests of one host and of two hosts
  are not distinguished otherwise. `MaxCheckpoints` of 1 and two messages let a
  foreign message spend the checkpoint that the task needs.
* Two pages on one host and one on another, one redirecting, with two sources per
  supported claim: evidence from different pages of one host must not count twice.
  `Offered` leaves out stances and verdicts that the rules treat like others.
* One job with two attempts is leased, expires, is claimed again and is completed or
  failed by either worker; jobs do not interact but for the order of claims, which
  `QueueStoreProofs` treats for any number.
* Four items in a row are every kind of step of a mission: wait for a human, work,
  join, verify and be sent back. Five ticks are one more than a mission without
  repair takes, so that the bound also ends one.
* Two parallel developments and their verification are the smallest mission in which
  two roles write contracts of one consumer and impacts cross.
* Two cycles are one that is reviewed and one that follows it, with and without
  approval; a request and its repetition race each other and two drivers.

The grids of the `ASSUME`s vary every input that a branch of the code looks at, on
both sides of its boundary.

Symmetry is used for interchangeable actors in runs that check no liveness. Deadlock
is checked for the run store; elsewhere the system may stop (a run that has ended,
callers that have nothing more to ask), so it is off there.

### Fairness

* `RunStore`, `QueueStore`: weak fairness of each caller's own next step. A process
  that is not killed is scheduled; a crashed one has no step left. Nobody has to
  call, and no lock has to age: waiting callers give up on their own (`timeoutMs`,
  the retries of the second store).
* `GraphRuntime`: weak fairness of the mutator (synchronous code) and of each
  client: the kernel's loop, or a host, executes what is ready, and a human
  answers. Without the latter a run waits for ever, which is intended; `RunEnds`
  also counts a passed deadline, since after it the next call ends the run.
* `ActiveRun`: weak fairness of each process once it has started, and of the
  hooks reading the guard, which the host calls before every tool call and at
  every attempt to stop. Nobody has to end a run.
* `HostBridge`: weak fairness of the bridge's steps and of the adapters' timers.
  None for workers, which may hang, nor for clients.
* The other runs check safety only. An actor without fairness may stop anywhere,
  which covers its death wherever nothing else notices it.

## 4. The proofs

TLAPS checks the theorems of eight modules, for every value of the constants that
satisfies the named assumptions (`*Assumption`, at the head of each component).
Every safety invariant, action property and refinement that a run checks is a
theorem. Each proof goes the same way: an inductive
invariant (`IInv` or `Sound`, at the head of the proof module or of its part), one
lemma for each action or group of actions and each part they can disturb, and the
property as a consequence.

**RunStore** (`RecordProofs`). `TypeCorrect` needs nothing. The others assume
`Faults \subseteq {"crash", "io_error"}` (`Benign`). The inductive invariant ties
three things together: who is past the lock (at most one caller, and the lock file
exists), which of the journal, events and state have been written at each step of
the one that is, and what that means for the log: the event file is the chain of
the committed log, or of the log without the journal's transaction. From it follow
`MutualExclusion`, `AckedIsDurable`, `JournalIsRecoverable`, `QuietRunVerifies`
and `ReadsAreCurrent`. `Refinement` (`ImplementsCommitLog`): the step that
writes the journal is `Commit`, the release (and the second file of `createRun`)
is `Acknowledge`, everything else stutters.

**GraphRuntime.** `TypeCorrect`, `Limits`, `Approvals`, `Gates` hold for every
valid graph. The inductive invariants are stated for the copy of the record as
well as for the committed one, because a mutator passes through intermediate
records; limits, for instance, follow from "attempts are only raised where the
guard of the call, or a reset that keeps the counters, has left room". `Finality`
(`OutcomeIsFinal`) assumes `~EarlyCalls`: with early calls it is false.

`Joins` (`JoinsWait`) needs `ShapeInv` besides: a task that is no part of the run
yet is no `all` join and nothing leads to it, so that an expansion adds no source
to a join that has started; and a node that runs has been attempted.

`Verified` (`SuccessWasVerified`) is an argument about paths. `Free` is what the
entry leads to without passing a verifier; validation keeps the success terminals
out of it. `FlowInv`: until a verifier is tried, every node that has started is
free, or a terminal that admits failure; `TodoInv`: so are the ends of the edges
that a mutator has still to follow. That an expansion keeps this needs what
`ReachableIsLeast` says of the search of `validateGraphSpec`: it finds the least
set that contains its start and is closed under edges, so that rounds as many as
there are nodes are enough. The hypothesis that no task is a verifier is needed:
without it the property is false (section 3).

`Wedges` and `Unwedged` are about what keeps a run going; both assume `~EarlyCalls`.
`Wedges` holds of every valid graph with a partial or failed terminal and no approval
at a terminal (`CanEnd`), through all expansions: in an active run a node is ready or
running, or an approval is pending, or a join is `Stalled`, that is, some of its
sources have led to it and not all. Its invariant, `TokenInv`, follows the work as one
would a token: while the run lives, a node is awake, or a join is stalled, or an edge is
still to be activated. A node that is done hands the token on (`route` selects an edge
or a fallback, or the run fails), an edge hands it to its target (`ActivateBusy`) or,
if that is exhausted, to a fallback terminal; and no transaction leaves an active run
with a terminal to finalize, because the last sweep of `autoAdvance` has looked at all
of the list since anything changed.

`Unwedged` (`NeverWedged`, until the run is expanded) excludes the other two ways for
graphs that are `Threaded`: each answer of a node leads to a terminal, to one node, or
to all the sources of one join; sources ask for no approval and lead to their join or
end the run; a join is entered from elsewhere only by nodes that lie behind it. The
loop of the first run and all graphs of the compiler over the grid are
(`GraphsAreThreaded`), and so the theorem extends what the run shows to graphs of any
size, any limits and any number of clients. The invariant, `Course`, says that the work
is about to end, or all at one node, or forked to the sources of one join, each of
which works or has led to the join and not both; and, as an argument about paths again,
that nothing behind a join is reached before the join has been tried (`BeforeInv`, with
`ReachableIsLeast`), which is why a loop back into a join finds it tried and need not
wait for its sources. That the run has not been expanded is needed: see section 3.
`NeverStuck` is the case of a graph that allows no expansion, such as that of the run.
TLC has checked both invariants on the graphs of the two runs.

**ActiveRun** (`HostProofs`). `Guarded`, `Paid` and `Single` hold under all faults.
The invariant says that the guard is held by whoever is between `SetActive` and the
end of its start, that everyone who is about to clear it works on a run that is
over, orphaned or was never created, and that a hook that has read the guard twice
has seen the same run, unless the first one is over. `Single` follows from
`Guarded`: there is one guard.

**Kernel.** All four need nothing but the types of the constants. `SingleWorker`:
a claim finds the node ready, hence without a worker, and only its worker (or a
stray completion) ends its running. `Attended`: a kernel has invocations only
while it waits for them, so that none is lost when it returns. `Obedience`: what
`debug.json` allows is never more than what the last command allows, as long as
the file was not written over.

**Workers and HostBridge** (`HostProofs`). `WInv` says what each kind of worker can
be at and with which faults: a child that has timed out or said too much can no
longer resolve, and what was resolved is the invocation's own. `Results` needs no
more than that the mail is filtered by task and dispatch, whatever else is in it.
`BInv` says what has been done and recorded at each step of a request; what makes
`Answers` hold is that a refusal comes before anything is done, and a success after
it is recorded. For `ToolsAreChecked` a run that was over when a tool was asked for
must still be over when the policy looks, so the invariant says that it is. Both
invariants survive the death of a bridge at any step.

**Workspace** (`ControlProofs`). `OnlyApproved`: whoever has read an approved record
keeps what was approved, although the record is written over. `AdaptersLeave`: an
edit of its own that an invocation has found in its first snapshot is the rest of
an invocation that died, so that a difference of snapshots is noticed. For
`OneExecution` the invariant `Alone` says that an executed proposal is out of the
record before anybody else reads it; it holds until two operators work at the same
time or one dies.

**Operations** (`ControlProofs`). `CommandsOnce`: the record of a command is created
before its operation begins. `MissionsFree`: a mission of a cycle that has not been
counted has its creator about to adopt it (`MissionInv`). `OSTypeCorrect` contains
the bound on cycles: `CyclesInv` counts the drivers that have found a cycle left and
have not counted theirs, so that `max_cycles` is overrun by less than the number of
drivers. `RunGate` (`GateIsEarned` of `Operations`) says that an organization run that
is completed, or has its gate passed, has a mission that is completed still: only a
mission that waits for no approval completes, nothing decides about one that asks for
nothing (`DoneStays`), and a driver completes the run on what it has just read.
`NobodyStranded` looks at every transaction that writes the run.

**ResearchRun.** `RunIsSound` says what a call that is under way may rest on: only a
fetch gets a page, what it commits is on the disk, and every text on the disk is
paid for, those of the fetches under way included (`FetchesArePaid`, which counts
both). Whoever publishes has the lock, and while there is a lock the report written
is the one of the run's state (`Publishing`); therefore late calls cannot change
what was reported. `ReportSound` and `ReportFinal` are action properties.

**QueueStore.** Of a record, for any number of callers, crashes and I/O errors:
`UpdatesAreKept` (every state is written on top of the one before) and
`TearsAreFinal` (a record whose update stopped in between is never changed again).
The invariant says what the holder of the lock knows of the files at each of its
steps, and that an unlocked creator has found the directory missing. Of the abstract
queue: `JobsStaySound` (attempts are limited, a key has one job, a result is of the
last claim) and `SettledStays`; the invariant adds the leases given out: no two of
one job have the same number. `Refinement` puts the two together: whoever is about
to write has computed what its operation makes of the queue as it is (`Pending`),
by a clock that may be late but not before the last write, so that the write is the
step of the operation and every other step none. It assumes `Kept`: the record can
hold every queue, which is how the run instantiates it. `JobsAreKept` and
`SettledIsKept` carry the promises of the abstract queue over to `state.json`.

**Company.** `ApprovalsMatch`: an approval and the status of its item are written
together, whatever the writer has read before. `OneWorker`: an attempt is given to
one driver, and giving an item out again raises its attempts. `GateEarned`: who is
about to conclude has found everything completed, and it stays so
(`ConcludesWhatIsDone`), because a retry needs a failed item and a repair a driver
whose attempt counts; a repair loop is of an item that is not done (`LoopsRunOn`),
and artifacts are promoted by another role than their author's
(`PromotedByOthers`). `DeliveriesApproved`: an approval that a courier has read
stands. `CompletedFinal` is the action property with the exception of section 3.

**Intelligence** (`RecordProofs`). The record of the fabric is written over by
drivers, so the invariant speaks of their copies too. `RecordInv`: as long as no one
has overwritten another's record, an open contract of the record has a consumer with
work left, and one of a copy that is not behind has one among the items other than
the one being completed, whose contracts the copy has settled. `GateInv`: when a
driver concludes all items are completed, which nothing undoes, and the late drivers
that are left find that their work is not claimed any more and store nothing.
`MemoryInv`: what a verification leaves to be remembered names the verification,
and it is remembered as verified only after the mission has accepted it.

`TypeOK` documents types and is proved for every component. Proved but no longer
part of a run: `WithinLimits`, `MutualExclusion`, `JournalIsRecoverable`,
`ReadsAreCurrent`, `OneOpenRun`, `NoUpdateIsLost`, `TornIsFrozen`, `JobsAreSound`,
`SettledIsFinal`, `GateIsEarned` of `Operations`.

Only model-checked:

* liveness (`EveryCallReturns`, `RunEnds`, `Released`, `EveryRequestEnds`), which
  TLAPS does not cover;
* that runs of the compiler's graphs are not wedged after an expansion either, which
  depends on where they are expanded: `NeverWedged` holds of all reachable states of
  `GraphRuntime_compiled`'s graph and its one task when callers wait for the start;
* what operators compute over whole lists and graphs of data (the compiler, the
  classification, impacts, summaries): induction over data is out of the prover's
  reach, and grids of inputs are evaluated instead.

## 5. What is not modelled

`PROJECT.json` names every component with its status and what is left out of it.
Not modelled, and why:

* Plugin MCP server, CLI, TUI, templates, configuration, the debug inspector and the
  standalone operator, providers and MCP server: framing and presentation in front
  of the modelled calls, without state of their own.
* `verification/` and the scripts: programs that audit a finished run or a release.
* Scoring heuristics, word lists, prompts, texts and formats: data that no property
  here tells apart. Where a score decides (routes of models, completion of a
  mission), every order or outcome is considered.
* In partly modelled components: report files of a run store's sources, the parsing
  of agents' outputs, discovery and installation of hosts, the delegation ledger,
  improvement proposals, views and tokens of the control plane.

Cryptography is taken as ideal: hashes do not collide. A file system is taken to
replace a file atomically on rename and to create exclusively.

------------------------------ MODULE ResearchRun ------------------------------
(***************************************************************************)
(* A research run, server/lib/workflow.mjs: tasks, claims, fetched sources,  *)
(* quoted evidence, verdicts, and the report made of them.                   *)
(*                                                                           *)
(* A call is made of several transactions of the run, and reads in between:  *)
(* it reserves its budget first, which is when most operations look whether  *)
(* the run is active, then reads what it needs, and then commits.  Several   *)
(* calls are in flight at a time.  A transaction that only computes is one   *)
(* step here; RunStore takes transactions apart.  finalize writes the report *)
(* inside of its transaction: lock names the caller while it does.           *)
(*                                                                           *)
(* The tool budget and the deadline are left out but for what they do: any   *)
(* reservation may find the budget exceeded.  Source fetches are counted.    *)
(***************************************************************************)
EXTENDS Naturals, FiniteSets

CONSTANTS
  Caller,        \* MCP requests in flight at a time
  Task, RoleOf,  \* the tasks of the plan, and the role of each
  Claim,
  Source,        \* the ids of stored sources
  Page, Host,    \* URLs, and the host of each
  Moved,         \* Moved[p]: where p redirects to, or p
  Suspect,       \* pages whose text looks like a prompt injection
  Allowed,       \* policy.allowed_domains
  MinSources,    \* policy.min_sources_per_supported_claim and .._refuted_claim
  MaxFetches,    \* policy.max_source_fetches
  MaxClaims,     \* policy.max_claims
  MaxRedirects,
  MaxItems,      \* bound on the items of one call
  Offered,       \* bound on the pages, stances, verdicts and outcomes callers give
  MaxFaults,     \* bound on crashes and changed files
  None

ASSUME ResearchAssumption ==
  /\ None \notin Page /\ None \notin Caller
  /\ Host \in [Page -> Allowed \cup {"elsewhere"}]
  /\ Moved \in [Page -> Page]
  /\ MinSources \in Nat \ {0} /\ MaxFetches \in Nat \ {0} /\ MaxClaims \in Nat
  /\ MaxRedirects \in Nat /\ MaxItems \in Nat /\ MaxFaults \in Nat

VARIABLES
  status, tasks, claims, sources, evidence, verdicts, fetches, final,
  content,    \* content[s]: the stored text of s: "none", "intact" or "changed"
  artifacts,  \* report.json and report.md, or None
  lock,       \* who writes the report in its transaction, or None
  call,       \* call[c]: the call c is in and the step it is at, or None
  faults

data == <<tasks, claims, sources, evidence, verdicts>>
vars == <<status, tasks, claims, sources, evidence, verdicts, fetches, final,
          content, artifacts, lock, call, faults>>

Stances == {"supports", "refutes", "context"}
Verdicts == {"supported", "refuted", "insufficient", "mixed"}
Outcomes == {"success", "failed", "blocked"}
Actor == {RoleOf[t] : t \in Task} \cup {"coordinator"}
Evidence == [claim : Claim, source : Source, stance : Stances]
VerdictRecord == [claim : Claim, verdict : Verdicts, cites : SUBSET Evidence]

SmallSets(S) == {T \in SUBSET S : T # {} /\ IsFiniteSet(T) /\ Cardinality(T) <= MaxItems}
Cited == {{}} \cup {{e} : e \in evidence}

\* What may be asked of the server.  Ids that name nothing yet are among them,
\* except in the citations of a verdict, which can only be refused for them.
Requests ==
  [op : {"plan", "finalize", "abort"}]
  \cup [op : {"claims"}, items : SUBSET Claim \ {{}}]
  \cup [op : {"fetch"}, page : Page \cap Offered]
  \cup [op : {"search"}, source : Source]
  \cup [op : {"attach"},
        items : SmallSets([claim : Claim, source : Source, stance : Stances \cap Offered])]
  \cup [op : {"verdict"},
        items : SmallSets([claim : Claim, verdict : Verdicts \cap Offered, cites : Cited])]
  \cup [op : {"task"}, task : Task, outcome : Outcomes \cap Offered, actor : Actor]

\* What a call is about: Requests, but for what bounds them.
Asked ==
  [op : {"plan", "finalize", "abort"}]
  \cup [op : {"claims"}, items : SUBSET Claim]
  \cup [op : {"fetch"}, page : Page]
  \cup [op : {"search"}, source : Source]
  \cup [op : {"attach"}, items : SUBSET Evidence]
  \cup [op : {"verdict"}, items : SUBSET VerdictRecord]
  \cup [op : {"task"}, task : Task, outcome : Outcomes, actor : Actor]

Call == [req : Asked, source : Source \cup {None},
         at : {"check", "reserve", "get", "note", "read", "commit", "finalize", "publish"}]

ASSUME NoneAssumption == None \notin Call

TypeOK ==
  /\ status \in {"active", "finalized", "aborted", "budget_exceeded"}
  /\ tasks = << >> \/ tasks \in [Task -> [status : Outcomes \cup {"pending"},
                                        actor : Actor \cup {"none"}]]
  /\ claims \subseteq Claim
  /\ sources \in [Source -> Page \cup {None}]
  /\ evidence \subseteq Evidence
  /\ verdicts \subseteq VerdictRecord
  /\ fetches \in 0..MaxFetches
  /\ content \in [Source -> {"none", "intact", "changed"}]
  /\ lock \in Caller \cup {None}
  /\ call \in [Caller -> Call \cup {None}]
  /\ faults \in 0..MaxFaults

Init ==
  /\ status = "active" /\ tasks = << >> /\ claims = {} /\ evidence = {} /\ verdicts = {}
  /\ sources = [s \in Source |-> None]
  /\ content = [s \in Source |-> "none"]
  /\ fetches = 0 /\ final = None /\ artifacts = None /\ lock = None
  /\ call = [c \in Caller |-> None]
  /\ faults = 0

-----------------------------------------------------------------------------
(* Sources: what comes of a fetch *)

PageAllowed(p) == Host[p] \in Allowed

\* fetchVerifiedSource: the page at the end of the redirects, each of which is
\* checked like the first, or None.
Fetched(p) ==
  LET walks == {w \in [0..MaxRedirects -> Page] :
                  /\ w[0] = p
                  /\ \A n \in 1..MaxRedirects : w[n] = Moved[w[n - 1]]
                  /\ \A n \in 0..MaxRedirects : PageAllowed(w[n])
                  /\ Moved[w[MaxRedirects]] = w[MaxRedirects]}
  IN IF walks = {} THEN None ELSE (CHOOSE w \in walks : TRUE)[MaxRedirects]

-----------------------------------------------------------------------------
(* The classification of the claims and the report *)

\* Mutant of HostsOf: sources are counted, and not the hosts they came from.
CountSources(E) == {e.source : e \in E}

HostsOf(E) == {Host[sources[e.source]] : e \in E}

Sound(e) == e \in evidence /\ sources[e.source] \notin Suspect

qualifyingEvidence(cl, stance) == {e \in evidence : e.claim = cl /\ e.stance = stance /\ Sound(e)}

validVerdicts(cl, verdict, stance) ==
  {v \in verdicts : /\ v.claim = cl /\ v.verdict = verdict
                    /\ \E e \in v.cites : e.claim = cl /\ e.stance = stance /\ Sound(e)}

Qualified(cl, verdict, stance) ==
  /\ Cardinality(HostsOf(qualifyingEvidence(cl, stance))) >= MinSources
  /\ validVerdicts(cl, verdict, stance) # {}

classifyClaims ==
  [cl \in claims |->
    LET yes == Qualified(cl, "supported", "supports")
        no == Qualified(cl, "refuted", "refutes")
    IN IF yes /\ no THEN "mixed" ELSE IF yes THEN "supported"
       ELSE IF no THEN "refuted" ELSE "unverified"]

buildReport ==
  [classes |-> classifyClaims,
   gate |-> /\ \A t \in DOMAIN tasks : tasks[t].status = "success"
            /\ \A cl \in claims : classifyClaims[cl] \in {"supported", "refuted"}]

-----------------------------------------------------------------------------
(* Calls *)

FirstStep(r) == CASE r.op = "fetch" -> "check" [] r.op = "abort" -> "commit" [] OTHER -> "reserve"

Begin(c, r) ==
  /\ call[c] = None
  /\ call' = [call EXCEPT ![c] = [req |-> r, at |-> FirstStep(r), source |-> None]]
  /\ UNCHANGED <<status, data, fetches, final, content, artifacts, lock, faults>>

At(c, step) == call[c] # None /\ call[c].at = step
Goto(c, step) == call' = [call EXCEPT ![c] = [call[c] EXCEPT !.at = step]]
Finish(c) == call' = [call EXCEPT ![c] = None]

\* fetchSource looks at the URL before it asks for a budget.
Check(c) ==
  /\ At(c, "check")
  /\ IF PageAllowed(call[c].req.page) THEN Goto(c, "reserve") ELSE Finish(c)
  /\ UNCHANGED <<status, data, fetches, final, content, artifacts, lock, faults>>

AfterReserve(op) ==
  CASE op = "fetch" -> "get" [] op \in {"search", "attach"} -> "read"
    [] op = "finalize" -> "finalize" [] OTHER -> "commit"

\* Mutant of Reserve: fetches are not counted against their limit.
ReserveUncounted(c) ==
  /\ At(c, "reserve") /\ lock = None
  /\ \/ status # "active" /\ Finish(c) /\ UNCHANGED <<status, fetches>>
     \/ status = "active" /\ status' = "budget_exceeded" /\ Finish(c) /\ UNCHANGED fetches
     \/ /\ status = "active"
        /\ fetches < MaxFetches
        /\ Goto(c, AfterReserve(call[c].req.op))
        /\ UNCHANGED <<status, fetches>>
  /\ UNCHANGED <<data, final, content, artifacts, lock, faults>>

\* reserveBudget, in a transaction of its own.
Reserve(c) ==
  /\ At(c, "reserve") /\ lock = None
  /\ \/ status # "active" /\ Finish(c) /\ UNCHANGED <<status, fetches>>
     \/ status = "active" /\ status' = "budget_exceeded" /\ Finish(c) /\ UNCHANGED fetches
     \/ /\ status = "active"
        /\ call[c].req.op = "fetch" => fetches < MaxFetches
        /\ fetches' = IF call[c].req.op = "fetch" THEN fetches + 1 ELSE fetches
        /\ Goto(c, AfterReserve(call[c].req.op))
        /\ UNCHANGED status
  /\ UNCHANGED <<data, final, content, artifacts, lock, faults>>

\* The page is fetched, and its text stored under a new id, before the run
\* knows of it.
Get(c) ==
  /\ At(c, "get")
  /\ \/ Goto(c, "note") /\ UNCHANGED content
     \/ /\ Fetched(call[c].req.page) # None
        /\ \E s \in Source :
             /\ content[s] = "none"
             /\ content' = [content EXCEPT ![s] = "intact"]
             /\ call' = [call EXCEPT ![c] = [call[c] EXCEPT !.at = "commit", !.source = s]]
  /\ UNCHANGED <<status, data, fetches, final, artifacts, lock, faults>>

\* source.fetch_failed is an event of the run, whatever its status; that it
\* cannot be written is ignored.
Note(c) ==
  /\ At(c, "note") /\ lock = None
  /\ Finish(c)
  /\ UNCHANGED <<status, data, fetches, final, content, artifacts, lock, faults>>

Stored(s) == sources[s] # None /\ content[s] = "intact"

\* search and attach read the run and the stored texts without the lock.  A
\* quote may not be in the text.
Read(c) ==
  /\ At(c, "read")
  /\ LET r == call[c].req
         good == IF r.op = "search" THEN Stored(r.source)
                 ELSE \A e \in r.items : e.claim \in claims /\ Stored(e.source)
     IN \/ good /\ Goto(c, "commit")
        \/ (r.op = "search" => ~good) /\ Finish(c)
  /\ UNCHANGED <<status, data, fetches, final, content, artifacts, lock, faults>>

-----------------------------------------------------------------------------
(* The transactions.  Each ends its call, whether it throws or not. *)

Commits(c, op) == At(c, "commit") /\ lock = None /\ call[c].req.op = op

RegisterPlan(c) ==
  /\ Commits(c, "plan")
  /\ tasks' = IF status = "active" /\ tasks = << >>
              THEN [t \in Task |-> [status |-> "pending", actor |-> "none"]]
              ELSE tasks
  /\ Finish(c)
  /\ UNCHANGED <<status, claims, sources, evidence, verdicts, fetches, final, content,
                 artifacts, lock, faults>>

\* The status of the run is not looked at again.
RegisterClaims(c) ==
  /\ Commits(c, "claims")
  /\ LET new == call[c].req.items IN
     claims' = IF /\ tasks # << >>
                  /\ Cardinality(claims) + Cardinality(new) <= MaxClaims
                  /\ new \cap claims = {}
               THEN claims \cup new ELSE claims
  /\ Finish(c)
  /\ UNCHANGED <<status, tasks, sources, evidence, verdicts, fetches, final, content,
                 artifacts, lock, faults>>

PersistFetchedSource(c) ==
  /\ Commits(c, "fetch")
  /\ IF status = "active"
     THEN /\ sources' = [sources EXCEPT ![call[c].source] = Fetched(call[c].req.page)]
          /\ Finish(c)
     ELSE Goto(c, "note") /\ UNCHANGED sources
  /\ UNCHANGED <<status, tasks, claims, evidence, verdicts, fetches, final, content,
                 artifacts, lock, faults>>

SearchSource(c) ==
  /\ Commits(c, "search")
  /\ Finish(c)
  /\ UNCHANGED <<status, data, fetches, final, content, artifacts, lock, faults>>

\* The same quote of the same source for the same claim is attached once.
AttachEvidence(c) ==
  /\ Commits(c, "attach")
  /\ LET items == call[c].req.items IN
     evidence' = IF \A e \in items : e.claim \in claims /\ sources[e.source] # None
                 THEN evidence \cup items ELSE evidence
  /\ Finish(c)
  /\ UNCHANGED <<status, tasks, claims, sources, verdicts, fetches, final, content,
                 artifacts, lock, faults>>

Admissible(v) ==
  /\ v.claim \in claims
  /\ v.verdict # "insufficient" => v.cites # {}
  /\ \A e \in v.cites : e \in evidence /\ e.claim = v.claim

RecordVerdicts(c) ==
  /\ Commits(c, "verdict")
  /\ LET items == call[c].req.items IN
     verdicts' = IF \A v \in items : Admissible(v) THEN verdicts \cup items ELSE verdicts
  /\ Finish(c)
  /\ UNCHANGED <<status, tasks, claims, sources, evidence, fetches, final, content,
                 artifacts, lock, faults>>

\* Mutant of CompleteTask: a task that is over may be completed again.
CompleteTaskAgain(c) ==
  /\ Commits(c, "task")
  /\ LET r == call[c].req IN
     tasks' = IF r.task \in DOMAIN tasks
              THEN [tasks EXCEPT ![r.task] = [status |-> r.outcome, actor |-> r.actor]]
              ELSE tasks
  /\ Finish(c)
  /\ UNCHANGED <<status, claims, sources, evidence, verdicts, fetches, final, content,
                 artifacts, lock, faults>>

CompleteTask(c) ==
  /\ Commits(c, "task")
  /\ LET r == call[c].req IN
     tasks' = IF /\ r.task \in DOMAIN tasks
                 /\ tasks[r.task].status = "pending"
                 /\ \/ r.actor = RoleOf[r.task]
                    \/ r.actor = "coordinator" /\ r.outcome # "success"
              THEN [tasks EXCEPT ![r.task] = [status |-> r.outcome, actor |-> r.actor]]
              ELSE tasks
  /\ Finish(c)
  /\ UNCHANGED <<status, claims, sources, evidence, verdicts, fetches, final, content,
                 artifacts, lock, faults>>

assertStoredEvidenceIntegrity == \A s \in Source : sources[s] # None => content[s] = "intact"

MayFinalize ==
  /\ status = "active" /\ tasks # << >> /\ claims # {}
  /\ \A t \in DOMAIN tasks : tasks[t].status # "pending"
  /\ assertStoredEvidenceIntegrity

\* finalizeRun: the report is written before the state that names it.
FinalizeRun(c) ==
  /\ At(c, "finalize") /\ lock = None
  /\ IF MayFinalize
     THEN artifacts' = buildReport /\ lock' = c /\ Goto(c, "publish")
     ELSE Finish(c) /\ UNCHANGED <<artifacts, lock>>
  /\ UNCHANGED <<status, data, fetches, final, content, faults>>

Publish(c) ==
  /\ At(c, "publish")
  /\ status' = "finalized" /\ final' = buildReport /\ lock' = None
  /\ Finish(c)
  /\ UNCHANGED <<data, fetches, content, artifacts, faults>>

AbortRun(c) ==
  /\ Commits(c, "abort")
  /\ status' = IF status \in {"finalized", "aborted"} THEN status ELSE "aborted"
  /\ Finish(c)
  /\ UNCHANGED <<data, fetches, final, content, artifacts, lock, faults>>

-----------------------------------------------------------------------------
(* The environment *)

\* The server dies in a call.  A lock it held is taken over: see RunStore.
Crash(c) ==
  /\ call[c] # None /\ faults < MaxFaults
  /\ faults' = faults + 1
  /\ Finish(c)
  /\ lock' = IF lock = c THEN None ELSE lock
  /\ UNCHANGED <<status, data, fetches, final, content, artifacts>>

\* A stored text is no longer what was fetched.
TextChanges(s) ==
  /\ content[s] = "intact" /\ faults < MaxFaults
  /\ faults' = faults + 1
  /\ content' = [content EXCEPT ![s] = "changed"]
  /\ UNCHANGED <<status, data, fetches, final, artifacts, lock, call>>

Step(c) ==
  \/ Check(c) \/ Reserve(c) \/ Get(c) \/ Note(c) \/ Read(c)
  \/ RegisterPlan(c) \/ RegisterClaims(c) \/ PersistFetchedSource(c) \/ SearchSource(c)
  \/ AttachEvidence(c) \/ RecordVerdicts(c) \/ CompleteTask(c)
  \/ FinalizeRun(c) \/ Publish(c) \/ AbortRun(c)

Next ==
  \/ \E c \in Caller : (\E r \in Requests : Begin(c, r)) \/ Step(c) \/ Crash(c)
  \/ \E s \in Source : TextChanges(s)

Spec == Init /\ [][Next]_vars

-----------------------------------------------------------------------------
(* What makes a run correct *)

\* Every piece of evidence quotes a source the run has stored for a claim it
\* has registered, every verdict rests on evidence for its own claim, and every
\* text that was stored, orphans of a crash or of a late answer too, was paid
\* for.
EvidenceIsGrounded ==
  /\ \A s \in Source : sources[s] # None =>
       content[s] # "none" /\ PageAllowed(sources[s]) /\ Moved[sources[s]] = sources[s]
  /\ \A e \in evidence : e.claim \in claims /\ sources[e.source] # None
  /\ \A v \in verdicts : \A e \in v.cites : e \in evidence /\ e.claim = v.claim
  /\ Cardinality({s \in Source : content[s] # "none"}) <= fetches

\* The report that finalize writes rests on texts that are still what was
\* fetched, and calls a claim supported (or refuted) only on the word of a
\* verdict and on the quotes of enough different hosts; the one that the state
\* publishes is the one that was written.
Backed(cl, stance, verdict) ==
  /\ \E v \in verdicts : v.claim = cl /\ v.verdict = verdict
  /\ \E E \in SUBSET evidence :
       /\ Cardinality(E) = MinSources
       /\ \A e \in E : /\ e.claim = cl /\ e.stance = stance
                       /\ sources[e.source] \notin Suspect
                       /\ content[e.source] = "intact"
       /\ \A e, f \in E : e # f => Host[sources[e.source]] # Host[sources[f.source]]

ReportIsSound ==
  [][/\ artifacts' # artifacts =>
          /\ \A s \in Source : sources[s] # None => content[s] = "intact"
          /\ \A cl \in claims :
               /\ artifacts'.classes[cl] = "supported" => Backed(cl, "supports", "supported")
               /\ artifacts'.classes[cl] = "refuted" => Backed(cl, "refutes", "refuted")
          /\ artifacts'.gate => \A t \in Task : tasks[t].status = "success"
     /\ final' # final => artifacts' = final' /\ status' = "finalized"]_vars

\* What a finalized run has reported stands, whatever calls were in flight
\* when it was finalized: its status, its tasks and both copies of the report.
ReportStands ==
  [][status = "finalized" => UNCHANGED <<status, tasks, final, artifacts, sources>>]_vars

===============================================================================

--------------------------- MODULE ResearchRunProofs ---------------------------
(***************************************************************************)
(* For any plan, web, policy and number of calls in flight: what a run holds *)
(* as evidence is grounded and was paid for, its report is sound, and what a *)
(* finalized run has reported stands.                                        *)
(***************************************************************************)
EXTENDS ResearchRun, FiniteSetTheorems, TLAPS

Stage == {"check", "reserve", "get", "note", "read", "commit", "finalize", "publish"}

Written == {s \in Source : content[s] # "none"}
Paying == {c \in Caller : At(c, "get")}

\* Only a fetch gets a page, only a search or an attachment reads, what is
\* attached is finitely much, and the source a fetch commits is on the disk.
CallIsSound(c) ==
  /\ call[c].at = "get" => call[c].req.op = "fetch"
  /\ call[c].at = "read" => call[c].req.op \in {"search", "attach"}
  /\ call[c].req.op = "attach" => IsFiniteSet(call[c].req.items)
  /\ call[c].at = "commit" /\ call[c].req.op = "fetch" =>
       /\ call[c].source \in Source
       /\ content[call[c].source] # "none"
       /\ Fetched(call[c].req.page) # None

CallsAreSound == \A c \in Caller : call[c] # None => CallIsSound(c)

\* A stored source was put on the disk, and its page is allowed and not moved.
SourcesAreFetched ==
  \A s \in Source : sources[s] # None =>
    content[s] # "none" /\ PageAllowed(sources[s]) /\ Moved[sources[s]] = sources[s]

\* Evidence quotes what is stored for what is registered.
EvidenceIsStored ==
  /\ IsFiniteSet(evidence)
  /\ \A e \in evidence : e.claim \in claims /\ sources[e.source] # None

VerdictsRest == \A v \in verdicts : \A e \in v.cites : e \in evidence /\ e.claim = v.claim

\* Every text on the disk was paid for, and so will be the one of each fetch
\* that is on its way.
FetchesArePaid ==
  /\ IsFiniteSet(Written) /\ IsFiniteSet(Paying)
  /\ Cardinality(Written) + Cardinality(Paying) <= fetches

Settled == \A t \in DOMAIN tasks : tasks[t].status # "pending"

\* Whoever publishes has the lock, and while there is a lock the run is active,
\* its tasks are over and the report written is the one of its state.
Publishing ==
  /\ \A c \in Caller : At(c, "publish") => lock = c
  /\ lock # None => status = "active" /\ Settled /\ artifacts = buildReport
  /\ status = "finalized" => Settled

RunIsSound ==
  /\ TypeOK /\ CallsAreSound
  /\ SourcesAreFetched /\ EvidenceIsStored /\ VerdictsRest
  /\ FetchesArePaid /\ Publishing

-----------------------------------------------------------------------------
(* Requests and calls *)

LEMMA RequestFacts ==
  ASSUME TypeOK, NEW r \in Requests
  PROVE  r \in Asked /\ (r.op = "attach" => IsFiniteSet(r.items))
<1>1. CASE r \in [op : {"plan", "finalize", "abort"}]
  BY <1>1 DEF Asked
<1>2. CASE r \in [op : {"claims"}, items : SUBSET Claim \ {{}}]
  BY <1>2 DEF Asked
<1>3. CASE r \in [op : {"fetch"}, page : Page \cap Offered]
  BY <1>3 DEF Asked
<1>4. CASE r \in [op : {"search"}, source : Source]
  BY <1>4 DEF Asked
<1>5. CASE r \in [op : {"attach"},
                  items : SmallSets([claim : Claim, source : Source,
                                     stance : Stances \cap Offered])]
  <2>1. r.op = "attach" /\ r = [op |-> r.op, items |-> r.items]
    BY <1>5
  <2>2. r.items \subseteq Evidence /\ IsFiniteSet(r.items)
    BY <1>5 DEF SmallSets, Evidence
  <2>3. r \in [op : {"attach"}, items : SUBSET Evidence]
    BY <2>1, <2>2
  <2>. QED
    BY <2>2, <2>3 DEF Asked
<1>6. CASE r \in [op : {"verdict"},
                  items : SmallSets([claim : Claim, verdict : Verdicts \cap Offered,
                                     cites : Cited])]
  <2>1. r.op = "verdict" /\ r = [op |-> r.op, items |-> r.items]
    BY <1>6
  <2>2. Cited \subseteq SUBSET Evidence
    BY DEF TypeOK, Cited
  <2>3. r.items \subseteq VerdictRecord
    BY <1>6, <2>2 DEF SmallSets, VerdictRecord
  <2>4. r \in [op : {"verdict"}, items : SUBSET VerdictRecord]
    BY <2>1, <2>3
  <2>. QED
    BY <2>1, <2>4 DEF Asked
<1>7. CASE r \in [op : {"task"}, task : Task, outcome : Outcomes \cap Offered, actor : Actor]
  BY <1>7 DEF Asked
<1>. QED
  BY <1>1, <1>2, <1>3, <1>4, <1>5, <1>6, <1>7 DEF Requests

\* What a request of each kind carries.
LEMMA AskedFacts ==
  ASSUME NEW r \in Asked
  PROVE  /\ r.op = "claims" => r.items \subseteq Claim
         /\ r.op = "fetch" => r.page \in Page
         /\ r.op = "attach" => r.items \subseteq Evidence
         /\ r.op = "verdict" => r.items \subseteq VerdictRecord
         /\ r.op = "task" => r.task \in Task /\ r.outcome \in Outcomes /\ r.actor \in Actor
  BY DEF Asked

LEMMA CallFacts ==
  ASSUME NEW x \in Call
  PROVE  x.req \in Asked /\ x.source \in Source \cup {None} /\ x.at \in Stage /\ x # None
  BY NoneAssumption DEF Call, Stage

LEMMA CallOf == ASSUME TypeOK, NEW c \in Caller, call[c] # None PROVE call[c] \in Call
  BY DEF TypeOK

LEMMA Gone ==
  ASSUME TypeOK, NEW c \in Caller, call[c] # None, NEW step \in Stage, Goto(c, step)
  PROVE  /\ call' \in [Caller -> Call \cup {None}]
         /\ call'[c] # None
         /\ call'[c].at = step /\ call'[c].req = call[c].req /\ call'[c].source = call[c].source
         /\ \A d \in Caller \ {c} : call'[d] = call[d]
<1>1. call[c] \in Call
  BY CallOf
<1>2. [call[c] EXCEPT !.at = step] \in Call
  BY <1>1 DEF Call, Stage
<1>3. /\ [call[c] EXCEPT !.at = step].at = step
      /\ [call[c] EXCEPT !.at = step].req = call[c].req
      /\ [call[c] EXCEPT !.at = step].source = call[c].source
  BY <1>1 DEF Call
<1>4. call'[c] = [call[c] EXCEPT !.at = step]
  BY DEF TypeOK, Goto
<1>5. call' \in [Caller -> Call \cup {None}] /\ \A d \in Caller \ {c} : call'[d] = call[d]
  BY <1>2 DEF TypeOK, Goto
<1>6. call'[c] # None
  BY <1>2, <1>4, CallFacts
<1>. QED
  BY <1>3, <1>4, <1>5, <1>6

LEMMA Finished ==
  ASSUME TypeOK, NEW c \in Caller, Finish(c)
  PROVE  /\ call' \in [Caller -> Call \cup {None}]
         /\ call'[c] = None
         /\ \A d \in Caller \ {c} : call'[d] = call[d]
  BY DEF TypeOK, Finish

LEMMA Begun ==
  ASSUME TypeOK, NEW c \in Caller, NEW r \in Requests, Begin(c, r)
  PROVE  /\ call' \in [Caller -> Call \cup {None}]
         /\ call'[c] # None
         /\ call'[c].at = FirstStep(r) /\ call'[c].req = r
         /\ \A d \in Caller \ {c} : call'[d] = call[d]
<1>1. FirstStep(r) \in Stage
  BY DEF FirstStep, Stage
<1>2. r \in Asked
  BY RequestFacts
<1>3. [req |-> r, at |-> FirstStep(r), source |-> None] \in Call
  BY <1>1, <1>2 DEF Call, Stage
<1>4. call'[c] = [req |-> r, at |-> FirstStep(r), source |-> None]
  BY DEF TypeOK, Begin
<1>5. call' \in [Caller -> Call \cup {None}] /\ \A d \in Caller \ {c} : call'[d] = call[d]
  BY <1>3 DEF TypeOK, Begin
<1>6. call'[c] # None
  BY <1>3, <1>4, CallFacts
<1>. QED
  BY <1>4, <1>5, <1>6

LEMMA Got ==
  ASSUME TypeOK, NEW c \in Caller, call[c] # None, NEW s \in Source,
         call' = [call EXCEPT ![c] = [call[c] EXCEPT !.at = "commit", !.source = s]]
  PROVE  /\ call' \in [Caller -> Call \cup {None}]
         /\ call'[c] # None
         /\ call'[c].at = "commit" /\ call'[c].req = call[c].req /\ call'[c].source = s
         /\ \A d \in Caller \ {c} : call'[d] = call[d]
<1>. DEFINE new == [call[c] EXCEPT !.at = "commit", !.source = s]
<1>1. call[c] \in Call
  BY CallOf
<1>2. new \in Call
  BY <1>1 DEF Call, Stage
<1>3. new.at = "commit" /\ new.req = call[c].req /\ new.source = s
  BY <1>1 DEF Call
<1>4. call'[c] = new
  BY DEF TypeOK
<1>5. call' \in [Caller -> Call \cup {None}] /\ \A d \in Caller \ {c} : call'[d] = call[d]
  BY <1>2 DEF TypeOK
<1>6. call'[c] # None
  BY <1>2, <1>4, CallFacts
<1>. QED
  BY <1>3, <1>4, <1>5, <1>6

LEMMA AfterFacts ==
  ASSUME NEW op
  PROVE  /\ AfterReserve(op) \in Stage \ {"publish"}
         /\ AfterReserve(op) = "get" <=> op = "fetch"
         /\ AfterReserve(op) = "read" <=> op \in {"search", "attach"}
         /\ AfterReserve(op) = "commit" => op # "fetch"
  BY DEF AfterReserve, Stage

LEMMA FirstFacts ==
  ASSUME NEW r
  PROVE  /\ FirstStep(r) \in {"check", "commit", "reserve"}
         /\ FirstStep(r) = "commit" => r.op = "abort"
  BY DEF FirstStep

\* fetchVerifiedSource returns a page that is allowed, and that moved nowhere.
LEMMA FetchedPage ==
  ASSUME NEW p \in Page, Fetched(p) # None
  PROVE  /\ Fetched(p) \in Page
         /\ PageAllowed(Fetched(p)) /\ Moved[Fetched(p)] = Fetched(p)
<1>. DEFINE walks == {w \in [0..MaxRedirects -> Page] :
                        /\ w[0] = p
                        /\ \A n \in 1..MaxRedirects : w[n] = Moved[w[n - 1]]
                        /\ \A n \in 0..MaxRedirects : PageAllowed(w[n])
                        /\ Moved[w[MaxRedirects]] = w[MaxRedirects]}
<1>. DEFINE w == CHOOSE x \in walks : TRUE
<1>1. walks # {} /\ Fetched(p) = w[MaxRedirects]
  BY DEF Fetched
<1>2. w \in walks
  BY <1>1
<1>3. MaxRedirects \in 0..MaxRedirects
  BY ResearchAssumption
<1>4. /\ w[MaxRedirects] \in Page
      /\ PageAllowed(w[MaxRedirects]) /\ Moved[w[MaxRedirects]] = w[MaxRedirects]
  BY <1>2, <1>3
<1>. QED
  BY <1>1, <1>4

-----------------------------------------------------------------------------
(* What a step does to a call *)

\* The call of d goes on as the code of its operation says.
GoesOn(d) ==
  /\ call[d] # None /\ call'[d] # None
  /\ call'[d].req = call[d].req
  /\ \/ call[d].at = "check" /\ call'[d].at = "reserve"
     \/ /\ call[d].at = "reserve" /\ call'[d].at = AfterReserve(call[d].req.op)
        /\ content' = content
        /\ call[d].req.op = "fetch" => fetches' = fetches + 1
     \/ call'[d].at = "note"
     \/ /\ call[d].at = "get" /\ call'[d].at = "commit"
        /\ call'[d].source \in Source /\ content'[call'[d].source] # "none"
        /\ Fetched(call[d].req.page) # None
     \/ call[d].at = "read" /\ call'[d].at = "commit"
     \/ call[d].at = "finalize" /\ call'[d].at = "publish" /\ lock' = d

Begins(d) == call[d] = None /\ \E r \in Requests : call'[d].at = FirstStep(r) /\ call'[d].req = r

\* Each step is of one call at most, which begins, goes on or ends.
OneCall(c) ==
  /\ call' \in [Caller -> Call \cup {None}]
  /\ \A d \in Caller \ {c} : call'[d] = call[d]
  /\ call'[c] = None \/ Begins(c) \/ GoesOn(c)

LEMMA Steps ==
  ASSUME TypeOK, CallsAreSound, NEW c \in Caller, Step(c)
  PROVE  OneCall(c)
<1>1. ASSUME Check(c) PROVE OneCall(c)
  <2>1. CASE Goto(c, "reserve")
    BY <1>1, <2>1, Gone DEF Check, At, Stage, OneCall, GoesOn
  <2>2. CASE Finish(c)
    BY <2>2, Finished DEF OneCall
  <2>. QED
    BY <1>1, <2>1, <2>2 DEF Check
<1>2. ASSUME Reserve(c) PROVE OneCall(c)
  <2>1. CASE Finish(c)
    BY <2>1, Finished DEF OneCall
  <2>2. CASE Goto(c, AfterReserve(call[c].req.op))
    <3>1. AfterReserve(call[c].req.op) \in Stage
      BY AfterFacts
    <3>2. call[c] # None /\ call[c].at = "reserve"
      BY <1>2 DEF Reserve, At
    <3>3. /\ call' \in [Caller -> Call \cup {None}]
          /\ call'[c] # None
          /\ call'[c].at = AfterReserve(call[c].req.op) /\ call'[c].req = call[c].req
          /\ \A d \in Caller \ {c} : call'[d] = call[d]
      BY <2>2, <3>1, <3>2, Gone
    <3>4. content' = content
      BY <1>2 DEF Reserve
    <3>5. call[c].req.op = "fetch" => fetches' = fetches + 1
      <4>1. call'[c] # None
        BY <3>3
      <4>2. ~Finish(c)
        BY <4>1 DEF Finish, TypeOK
      <4>. QED
        BY <1>2, <4>2 DEF Reserve
    <3>. QED
      BY <3>2, <3>3, <3>4, <3>5 DEF OneCall, GoesOn
  <2>. QED
    BY <1>2, <2>1, <2>2 DEF Reserve
<1>3. ASSUME Get(c) PROVE OneCall(c)
  <2>1. call[c] # None /\ call[c].at = "get"
    BY <1>3 DEF Get, At
  <2>2. CASE Goto(c, "note")
    BY <2>1, <2>2, Gone DEF Stage, OneCall, GoesOn
  <2>3. CASE /\ Fetched(call[c].req.page) # None
             /\ \E s \in Source :
                  /\ content[s] = "none"
                  /\ content' = [content EXCEPT ![s] = "intact"]
                  /\ call' = [call EXCEPT ![c] = [call[c] EXCEPT !.at = "commit", !.source = s]]
    <3>1. PICK s \in Source :
            /\ content' = [content EXCEPT ![s] = "intact"]
            /\ call' = [call EXCEPT ![c] = [call[c] EXCEPT !.at = "commit", !.source = s]]
      BY <2>3
    <3>2. content'[s] # "none"
      BY <3>1 DEF TypeOK
    <3>3. /\ call' \in [Caller -> Call \cup {None}]
          /\ call'[c] # None
          /\ call'[c].at = "commit" /\ call'[c].req = call[c].req /\ call'[c].source = s
          /\ \A d \in Caller \ {c} : call'[d] = call[d]
      BY <2>1, <3>1, Got
    <3>. QED
      BY <2>1, <2>3, <3>2, <3>3 DEF OneCall, GoesOn
  <2>. QED
    BY <1>3, <2>2, <2>3 DEF Get
<1>4. ASSUME Read(c) PROVE OneCall(c)
  <2>1. call[c] # None /\ call[c].at = "read"
    BY <1>4 DEF Read, At
  <2>2. CASE Goto(c, "commit")
    BY <2>1, <2>2, Gone DEF Stage, OneCall, GoesOn
  <2>3. CASE Finish(c)
    BY <2>3, Finished DEF OneCall
  <2>. QED
    BY <1>4, <2>2, <2>3 DEF Read
<1>5. ASSUME PersistFetchedSource(c) PROVE OneCall(c)
  <2>1. call[c] # None
    BY <1>5 DEF PersistFetchedSource, Commits, At
  <2>2. CASE Goto(c, "note")
    BY <2>1, <2>2, Gone DEF Stage, OneCall, GoesOn
  <2>3. CASE Finish(c)
    BY <2>3, Finished DEF OneCall
  <2>. QED
    BY <1>5, <2>2, <2>3 DEF PersistFetchedSource
<1>6. ASSUME FinalizeRun(c) PROVE OneCall(c)
  <2>1. call[c] # None /\ call[c].at = "finalize"
    BY <1>6 DEF FinalizeRun, At
  <2>2. CASE Goto(c, "publish") /\ lock' = c
    BY <2>1, <2>2, Gone DEF Stage, OneCall, GoesOn
  <2>3. CASE Finish(c)
    BY <2>3, Finished DEF OneCall
  <2>. QED
    BY <1>6, <2>2, <2>3 DEF FinalizeRun
<1>7. ASSUME \/ Note(c) \/ RegisterPlan(c) \/ RegisterClaims(c) \/ SearchSource(c)
             \/ AttachEvidence(c) \/ RecordVerdicts(c) \/ CompleteTask(c)
             \/ Publish(c) \/ AbortRun(c)
      PROVE  OneCall(c)
  <2>1. Finish(c)
    BY <1>7
       DEF Note, RegisterPlan, RegisterClaims, SearchSource, AttachEvidence, RecordVerdicts,
           CompleteTask, Publish, AbortRun
  <2>. QED
    BY <2>1, Finished DEF OneCall
<1>. QED
  BY <1>1, <1>2, <1>3, <1>4, <1>5, <1>6, <1>7 DEF Step

LEMMA AnyStep ==
  ASSUME TypeOK, CallsAreSound, [Next]_vars
  PROVE  call' = call \/ \E c \in Caller : OneCall(c)
<1>1. ASSUME NEW c \in Caller, NEW r \in Requests, Begin(c, r) PROVE OneCall(c)
  <2>1. call[c] = None
    BY <1>1 DEF Begin
  <2>. QED
    BY <1>1, <2>1, Begun DEF OneCall, Begins
<1>2. ASSUME NEW c \in Caller, Crash(c) PROVE OneCall(c)
  BY <1>2, Finished DEF Crash, OneCall
<1>3. ASSUME NEW s \in Source, TextChanges(s) PROVE call' = call
  BY <1>3 DEF TextChanges
<1>4. ASSUME UNCHANGED vars PROVE call' = call
  BY <1>4 DEF vars
<1>. QED
  BY <1>1, <1>2, <1>3, <1>4, Steps DEF Next

-----------------------------------------------------------------------------
(* Types *)

\* The steps that change neither the data nor the state of the run.
Quiet(c) ==
  Check(c) \/ Get(c) \/ Note(c) \/ Read(c) \/ SearchSource(c) \/ Crash(c)
  \/ \E r \in Requests : Begin(c, r)

LEMMA QuietFacts ==
  ASSUME NEW c \in Caller, Quiet(c)
  PROVE  /\ UNCHANGED <<status, tasks, claims, sources, evidence, verdicts, fetches, final>>
         /\ artifacts' = artifacts
  BY DEF Quiet, Check, Get, Note, Read, SearchSource, Crash, Begin, data

LEMMA TypesKept == ASSUME TypeOK, CallsAreSound, [Next]_vars PROVE TypeOK'
<1>. USE DEF TypeOK
<1>1. call' \in [Caller -> Call \cup {None}]
  BY AnyStep DEF OneCall
<1>2. status' \in {"active", "finalized", "aborted", "budget_exceeded"}
  <2>1. ASSUME NEW c \in Caller, Step(c) PROVE status' \in {"active", "finalized", "aborted", "budget_exceeded"}
    BY <2>1
       DEF Step, Check, Reserve, Get, Note, Read, RegisterPlan, RegisterClaims,
           PersistFetchedSource, SearchSource, AttachEvidence, RecordVerdicts, CompleteTask,
           FinalizeRun, Publish, AbortRun
  <2>. QED
    BY <2>1 DEF Next, vars, Begin, Crash, TextChanges
<1>3. fetches' \in 0..MaxFetches
  <2>1. ASSUME NEW c \in Caller, Reserve(c) PROVE fetches' \in 0..MaxFetches
    <3>1. CASE fetches' = fetches
      BY <3>1
    <3>2. CASE call[c].req.op = "fetch" /\ fetches < MaxFetches /\ fetches' = fetches + 1
      BY <3>2, ResearchAssumption
    <3>. QED
      BY <2>1, <3>1, <3>2 DEF Reserve
  <2>2. ASSUME NEW c \in Caller, Step(c), ~Reserve(c) PROVE fetches' = fetches
    BY <2>2
       DEF Step, Check, Get, Note, Read, RegisterPlan, RegisterClaims,
           PersistFetchedSource, SearchSource, AttachEvidence, RecordVerdicts, CompleteTask,
           FinalizeRun, Publish, AbortRun
  <2>. QED
    BY <2>1, <2>2 DEF Next, vars, Begin, Crash, TextChanges
<1>4. content' \in [Source -> {"none", "intact", "changed"}]
  <2>1. ASSUME NEW c \in Caller, Step(c) PROVE content' \in [Source -> {"none", "intact", "changed"}]
    BY <2>1
       DEF Step, Check, Reserve, Get, Note, Read, RegisterPlan, RegisterClaims,
           PersistFetchedSource, SearchSource, AttachEvidence, RecordVerdicts, CompleteTask,
           FinalizeRun, Publish, AbortRun
  <2>. QED
    BY <2>1 DEF Next, vars, Begin, Crash, TextChanges
<1>5. lock' \in Caller \cup {None}
  <2>1. ASSUME NEW c \in Caller, Step(c) PROVE lock' \in Caller \cup {None}
    BY <2>1
       DEF Step, Check, Reserve, Get, Note, Read, RegisterPlan, RegisterClaims,
           PersistFetchedSource, SearchSource, AttachEvidence, RecordVerdicts, CompleteTask,
           FinalizeRun, Publish, AbortRun
  <2>. QED
    BY <2>1 DEF Next, vars, Begin, Crash, TextChanges
<1>6. faults' \in 0..MaxFaults
  <2>1. ASSUME NEW c \in Caller, Step(c) PROVE faults' = faults
    BY <2>1
       DEF Step, Check, Reserve, Get, Note, Read, RegisterPlan, RegisterClaims,
           PersistFetchedSource, SearchSource, AttachEvidence, RecordVerdicts, CompleteTask,
           FinalizeRun, Publish, AbortRun
  <2>2. ASSUME faults < MaxFaults, faults' = faults + 1 PROVE faults' \in 0..MaxFaults
    BY <2>2, ResearchAssumption
  <2>. QED
    BY <2>1, <2>2 DEF Next, vars, Begin, Crash, TextChanges
<1>. DEFINE Table(t) == \/ t = << >>
                        \/ t \in [Task -> [status : Outcomes \cup {"pending"},
                                           actor : Actor \cup {"none"}]]
            Data == /\ Table(tasks')
                    /\ claims' \subseteq Claim
                    /\ sources' \in [Source -> Page \cup {None}]
                    /\ evidence' \subseteq Evidence
                    /\ verdicts' \subseteq VerdictRecord
<1>7. Data
  <2>1. ASSUME UNCHANGED <<tasks, claims, sources, evidence, verdicts>> PROVE Data
    BY <2>1
  <2>2. ASSUME NEW c \in Caller, At(c, "commit")
        PROVE  call[c] \in Call /\ call[c].req \in Asked /\ call[c].source \in Source \cup {None}
    BY <2>2, CallOf, CallFacts DEF At
  <2>3. ASSUME NEW c \in Caller, RegisterPlan(c) PROVE Data
    <3>1. Table([t \in Task |-> [status |-> "pending", actor |-> "none"]])
      OBVIOUS
    <3>2. Table(tasks')
      BY <2>3, <3>1 DEF RegisterPlan
    <3>. QED
      BY <2>3, <3>2 DEF RegisterPlan
  <2>4. ASSUME NEW c \in Caller, RegisterClaims(c) PROVE Data
    <3>1. call[c].req.items \subseteq Claim
      BY <2>2, <2>4, AskedFacts DEF RegisterClaims, Commits
    <3>. QED
      BY <2>4, <3>1 DEF RegisterClaims
  <2>5. ASSUME NEW c \in Caller, PersistFetchedSource(c) PROVE Data
    <3>1. call[c].req.page \in Page /\ Fetched(call[c].req.page) # None
      BY <2>2, <2>5, AskedFacts
         DEF PersistFetchedSource, Commits, At, CallsAreSound, CallIsSound
    <3>2. Fetched(call[c].req.page) \in Page
      BY <3>1, FetchedPage
    <3>. QED
      BY <2>5, <3>2 DEF PersistFetchedSource
  <2>6. ASSUME NEW c \in Caller, AttachEvidence(c) PROVE Data
    <3>1. call[c].req.items \subseteq Evidence
      BY <2>2, <2>6, AskedFacts DEF AttachEvidence, Commits
    <3>. QED
      BY <2>6, <3>1 DEF AttachEvidence
  <2>7. ASSUME NEW c \in Caller, RecordVerdicts(c) PROVE Data
    <3>1. call[c].req.items \subseteq VerdictRecord
      BY <2>2, <2>7, AskedFacts DEF RecordVerdicts, Commits
    <3>. QED
      BY <2>7, <3>1 DEF RecordVerdicts
  <2>8. ASSUME NEW c \in Caller, CompleteTask(c) PROVE Data
    <3>. DEFINE r == call[c].req
                done == [status |-> r.outcome, actor |-> r.actor]
    <3>1. r.task \in Task /\ r.outcome \in Outcomes /\ r.actor \in Actor
      BY <2>2, <2>8, AskedFacts DEF CompleteTask, Commits
    <3>2. done \in [status : Outcomes \cup {"pending"}, actor : Actor \cup {"none"}]
      BY <3>1
    <3>3. CASE tasks' = tasks
      BY <2>8, <3>3 DEF CompleteTask
    <3>4. CASE r.task \in DOMAIN tasks /\ tasks' = [tasks EXCEPT ![r.task] = done]
      <4>1. tasks \in [Task -> [status : Outcomes \cup {"pending"}, actor : Actor \cup {"none"}]]
        BY <3>4
      <4>2. Table(tasks')
        BY <3>2, <3>4, <4>1
      <4>. QED
        BY <2>8, <4>2 DEF CompleteTask
    <3>. QED
      BY <2>8, <3>3, <3>4 DEF CompleteTask
  <2>9. ASSUME NEW c \in Caller,
               Reserve(c) \/ FinalizeRun(c) \/ Publish(c) \/ AbortRun(c) \/ Quiet(c)
        PROVE  Data
    <3>1. UNCHANGED <<tasks, claims, sources, evidence, verdicts>>
      BY <2>9, QuietFacts DEF Reserve, FinalizeRun, Publish, AbortRun, data
    <3>. QED
      BY <2>1, <3>1
  <2>10. ASSUME NEW s \in Source, TextChanges(s) PROVE Data
    BY <2>1, <2>10 DEF TextChanges, data
  <2>11. ASSUME UNCHANGED vars PROVE Data
    BY <2>1, <2>11 DEF vars
  <2>. QED
    BY <2>3, <2>4, <2>5, <2>6, <2>7, <2>8, <2>9, <2>10, <2>11 DEF Next, Step, Quiet
<1>. QED
  BY <1>1, <1>2, <1>3, <1>4, <1>5, <1>6, <1>7

-----------------------------------------------------------------------------
(* The texts on the disk, and what was paid for them *)

LEMMA OneMore ==
  ASSUME NEW S, IsFiniteSet(S), NEW x
  PROVE  IsFiniteSet(S \cup {x}) /\ Cardinality(S \cup {x}) <= Cardinality(S) + 1
<1>1. IsFiniteSet(S \cup {x})
      /\ Cardinality(S \cup {x}) = IF x \in S THEN Cardinality(S) ELSE Cardinality(S) + 1
  BY FS_AddElement
<1>2. Cardinality(S) \in Nat
  BY FS_CardinalityType
<1>. QED
  BY <1>1, <1>2

\* A step leaves the texts there are, or fetches one more.
LEMMA DiskGrows ==
  ASSUME TypeOK, [Next]_vars
  PROVE  \/ Written' = Written
         \/ \E c \in Caller, s \in Source : Get(c) /\ call'[c] # None /\ call'[c].at = "commit"
                                            /\ Written' = Written \cup {s}
<1>1. ASSUME content' = content PROVE Written' = Written
  BY <1>1 DEF Written
<1>2. ASSUME NEW c \in Caller, NEW s \in Source, content' = [content EXCEPT ![s] = "intact"],
             Get(c),
             call' = [call EXCEPT ![c] = [call[c] EXCEPT !.at = "commit", !.source = s]]
      PROVE  call'[c] # None /\ call'[c].at = "commit" /\ Written' = Written \cup {s}
  <2>1. Written' = Written \cup {s}
    BY <1>2 DEF Written, TypeOK
  <2>2. call[c] # None
    BY <1>2 DEF Get, At
  <2>. QED
    BY <1>2, <2>1, <2>2, Got
<1>3. ASSUME NEW c \in Caller, Step(c), ~Get(c) PROVE content' = content
  BY <1>3
     DEF Step, Check, Reserve, Note, Read, RegisterPlan, RegisterClaims,
         PersistFetchedSource, SearchSource, AttachEvidence, RecordVerdicts, CompleteTask,
         FinalizeRun, Publish, AbortRun
<1>4. ASSUME NEW s \in Source, TextChanges(s) PROVE Written' = Written
  BY <1>4 DEF TextChanges, Written, TypeOK
<1>5. ASSUME NEW c \in Caller, Get(c)
      PROVE  \/ Written' = Written
             \/ \E s \in Source : call'[c] # None /\ call'[c].at = "commit"
                                  /\ Written' = Written \cup {s}
  <2>1. CASE content' = content
    BY <1>1, <2>1
  <2>2. CASE \E s \in Source :
               /\ content' = [content EXCEPT ![s] = "intact"]
               /\ call' = [call EXCEPT ![c] = [call[c] EXCEPT !.at = "commit", !.source = s]]
    BY <1>2, <1>5, <2>2
  <2>. QED
    BY <1>5, <2>1, <2>2 DEF Get
<1>. QED
  BY <1>1, <1>3, <1>4, <1>5 DEF Next, vars, Begin, Crash

LEMMA TextsStay ==
  ASSUME TypeOK, [Next]_vars, NEW s \in Source, content[s] # "none"
  PROVE  content'[s] # "none"
  BY DiskGrows DEF Written

LEMMA FetchesGrow ==
  ASSUME TypeOK, [Next]_vars
  PROVE  fetches' >= fetches
<1>1. fetches \in Nat
  BY DEF TypeOK
<1>2. ASSUME NEW c \in Caller, Step(c) PROVE fetches' = fetches \/ fetches' = fetches + 1
  BY <1>2
     DEF Step, Check, Reserve, Get, Note, Read, RegisterPlan, RegisterClaims,
         PersistFetchedSource, SearchSource, AttachEvidence, RecordVerdicts, CompleteTask,
         FinalizeRun, Publish, AbortRun
<1>3. fetches' = fetches \/ fetches' = fetches + 1
  BY <1>2 DEF Next, vars, Begin, Crash, TextChanges
<1>. QED
  BY <1>1, <1>3

LEMMA CallsKept == ASSUME TypeOK, CallsAreSound, [Next]_vars PROVE CallsAreSound'
<1>1. ASSUME NEW d \in Caller, call'[d] # None, call'[d] = call[d] PROVE CallIsSound(d)'
  <2>1. CallIsSound(d)
    BY <1>1 DEF CallsAreSound
  <2>. QED
    BY <1>1, <2>1, TextsStay DEF CallIsSound
<1>2. ASSUME NEW d \in Caller, Begins(d) PROVE CallIsSound(d)'
  <2>1. PICK r \in Requests : call'[d].at = FirstStep(r) /\ call'[d].req = r
    BY <1>2 DEF Begins
  <2>. QED
    BY <2>1, FirstFacts, RequestFacts DEF CallIsSound
<1>3. ASSUME NEW d \in Caller, GoesOn(d) PROVE CallIsSound(d)'
  <2>1. CallIsSound(d)
    BY <1>3 DEF CallsAreSound, GoesOn
  <2>2. call'[d].req = call[d].req
    BY <1>3 DEF GoesOn
  <2>3. CASE call'[d].at \in {"reserve", "note", "publish"}
    BY <2>1, <2>2, <2>3 DEF CallIsSound
  <2>4. CASE call'[d].at = AfterReserve(call[d].req.op)
    BY <2>1, <2>2, <2>4, AfterFacts DEF CallIsSound
  <2>5. CASE /\ call'[d].at = "commit"
             /\ call'[d].source \in Source /\ content'[call'[d].source] # "none"
             /\ Fetched(call[d].req.page) # None
    BY <2>1, <2>2, <2>5 DEF CallIsSound
  <2>6. CASE call[d].at = "read" /\ call'[d].at = "commit"
    BY <2>1, <2>2, <2>6 DEF CallIsSound
  <2>. QED
    BY <1>3, <2>3, <2>4, <2>5, <2>6 DEF GoesOn
<1>. QED
  BY <1>1, <1>2, <1>3, AnyStep DEF CallsAreSound, OneCall

\* A caller comes to the step that gets a page by paying for it.
LEMMA Payers ==
  ASSUME TypeOK, CallsAreSound, [Next]_vars
  PROVE  \/ Paying' \subseteq Paying
         \/ /\ \E c \in Caller : Paying' \subseteq Paying \cup {c}
            /\ Written' = Written /\ fetches' = fetches + 1
<1>1. ASSUME call' = call PROVE Paying' \subseteq Paying
  BY <1>1 DEF Paying, At
<1>2. ASSUME NEW c \in Caller, OneCall(c)
      PROVE  \/ Paying' \subseteq Paying
             \/ Paying' \subseteq Paying \cup {c} /\ Written' = Written /\ fetches' = fetches + 1
  <2>1. Paying' \subseteq Paying \cup {c}
    BY <1>2 DEF Paying, At, OneCall
  <2>2. CASE c \notin Paying'
    BY <2>1, <2>2
  <2>3. CASE c \in Paying'
    <3>1. call'[c] # None /\ call'[c].at = "get"
      BY <2>3 DEF Paying, At
    <3>2. CASE Begins(c)
      BY <3>1, <3>2, FirstFacts DEF Begins
    <3>3. CASE GoesOn(c)
      BY <2>1, <3>1, <3>3, AfterFacts DEF GoesOn, Written
    <3>. QED
      BY <1>2, <3>1, <3>2, <3>3 DEF OneCall
  <2>. QED
    BY <2>2, <2>3
<1>. QED
  BY <1>1, <1>2, AnyStep

LEMMA PaidKept ==
  ASSUME TypeOK, CallsAreSound, FetchesArePaid, [Next]_vars
  PROVE  FetchesArePaid'
<1>1. /\ IsFiniteSet(Written) /\ IsFiniteSet(Paying)
      /\ Cardinality(Written) \in Nat /\ Cardinality(Paying) \in Nat
      /\ Cardinality(Written) + Cardinality(Paying) <= fetches
  BY FS_CardinalityType DEF FetchesArePaid
<1>2. fetches \in Nat /\ fetches' \in Nat
  <2>1. TypeOK'
    BY TypesKept
  <2>. QED
    BY <2>1 DEF TypeOK
<1>3. CASE /\ \E c \in Caller : Paying' \subseteq Paying \cup {c}
           /\ Written' = Written /\ fetches' = fetches + 1
  <2>1. PICK c \in Caller : Paying' \subseteq Paying \cup {c}
    BY <1>3
  <2>2. IsFiniteSet(Paying \cup {c}) /\ Cardinality(Paying \cup {c}) <= Cardinality(Paying) + 1
    BY <1>1, OneMore
  <2>3. Cardinality(Paying \cup {c}) \in Nat
    BY <2>2, FS_CardinalityType
  <2>4. IsFiniteSet(Paying') /\ Cardinality(Paying') <= Cardinality(Paying \cup {c})
    BY <2>1, <2>2, FS_Subset
  <2>5. Cardinality(Paying') \in Nat
    BY <2>4, FS_CardinalityType
  <2>6. Cardinality(Written') + Cardinality(Paying') <= fetches'
    BY <1>1, <1>2, <1>3, <2>2, <2>3, <2>4, <2>5
  <2>. QED
    BY <1>1, <1>3, <2>4, <2>6 DEF FetchesArePaid
<1>4. CASE Paying' \subseteq Paying
  <2>1. IsFiniteSet(Paying') /\ Cardinality(Paying') <= Cardinality(Paying)
    BY <1>1, <1>4, FS_Subset
  <2>2. Cardinality(Paying') \in Nat
    BY <2>1, FS_CardinalityType
  <2>3. CASE Written' = Written
    <3>1. fetches' >= fetches
      BY FetchesGrow
    <3>2. Cardinality(Written') + Cardinality(Paying') <= fetches'
      BY <1>1, <1>2, <2>1, <2>2, <2>3, <3>1
    <3>. QED
      BY <1>1, <2>1, <2>3, <3>2 DEF FetchesArePaid
  <2>4. CASE \E c \in Caller, s \in Source :
               Get(c) /\ call'[c] # None /\ call'[c].at = "commit" /\ Written' = Written \cup {s}
    <3>1. PICK c \in Caller, s \in Source :
                 Get(c) /\ call'[c].at = "commit" /\ Written' = Written \cup {s}
      BY <2>4
    <3>2. c \in Paying /\ c \notin Paying'
      BY <3>1 DEF Get, Paying, At
    <3>3. Paying' \subseteq Paying \ {c}
      BY <1>4, <3>2
    <3>4. IsFiniteSet(Paying \ {c}) /\ Cardinality(Paying \ {c}) = Cardinality(Paying) - 1
      BY <1>1, <3>2, FS_RemoveElement
    <3>5. Cardinality(Paying') <= Cardinality(Paying) - 1
      BY <3>3, <3>4, FS_Subset
    <3>6. IsFiniteSet(Written') /\ Cardinality(Written') <= Cardinality(Written) + 1
      BY <1>1, <3>1, OneMore
    <3>7. Cardinality(Written') \in Nat
      BY <3>6, FS_CardinalityType
    <3>8. fetches' = fetches
      BY <3>1 DEF Get
    <3>9. Cardinality(Written') + Cardinality(Paying') <= fetches'
      BY <1>1, <1>2, <2>2, <3>5, <3>6, <3>7, <3>8
    <3>. QED
      BY <2>1, <3>6, <3>9 DEF FetchesArePaid
  <2>. QED
    BY <2>3, <2>4, DiskGrows
<1>. QED
  BY <1>3, <1>4, Payers

-----------------------------------------------------------------------------
(* What is in the run *)

\* Claims and sources are registered once and for all.
LEMMA DataGrows ==
  ASSUME TypeOK, CallsAreSound, [Next]_vars
  PROVE  /\ claims \subseteq claims' /\ evidence \subseteq evidence'
         /\ \A s \in Source : sources[s] # None => sources'[s] # None
<1>. DEFINE Grows == /\ claims \subseteq claims' /\ evidence \subseteq evidence'
                     /\ \A s \in Source : sources[s] # None => sources'[s] # None
<1>1. ASSUME NEW c \in Caller, PersistFetchedSource(c) PROVE Grows
  <2>1. Fetched(call[c].req.page) # None
    BY <1>1 DEF PersistFetchedSource, Commits, At, CallsAreSound, CallIsSound
  <2>. QED
    BY <1>1, <2>1 DEF PersistFetchedSource, TypeOK
<1>2. ASSUME NEW c \in Caller, Step(c), ~PersistFetchedSource(c) PROVE Grows
  BY <1>2
     DEF Step, Check, Reserve, Get, Note, Read, RegisterPlan, RegisterClaims,
         SearchSource, AttachEvidence, RecordVerdicts, CompleteTask,
         FinalizeRun, Publish, AbortRun, data
<1>. QED
  BY <1>1, <1>2 DEF Next, vars, Begin, Crash, TextChanges, data

LEMMA SourcesKept ==
  ASSUME TypeOK, CallsAreSound, SourcesAreFetched, [Next]_vars
  PROVE  SourcesAreFetched'
<1>1. ASSUME sources' = sources PROVE SourcesAreFetched'
  BY <1>1, TextsStay DEF SourcesAreFetched, PageAllowed
<1>2. ASSUME NEW c \in Caller, PersistFetchedSource(c) PROVE SourcesAreFetched'
  <2>1. CASE sources' = sources
    BY <1>1, <2>1
  <2>2. CASE sources' = [sources EXCEPT ![call[c].source] = Fetched(call[c].req.page)]
    <3>1. call[c] # None /\ CallIsSound(c) /\ call[c].at = "commit" /\ call[c].req.op = "fetch"
      BY <1>2 DEF PersistFetchedSource, Commits, At, CallsAreSound
    <3>2. /\ content[call[c].source] # "none" /\ call[c].source \in Source
          /\ Fetched(call[c].req.page) # None
      BY <3>1 DEF CallIsSound
    <3>3. call[c].req.page \in Page
      BY <3>1, CallOf, CallFacts, AskedFacts
    <3>4. /\ PageAllowed(Fetched(call[c].req.page))
          /\ Moved[Fetched(call[c].req.page)] = Fetched(call[c].req.page)
      BY <3>2, <3>3, FetchedPage
    <3>5. ASSUME NEW s \in Source, sources'[s] # None
          PROVE  content'[s] # "none" /\ PageAllowed(sources'[s]) /\ Moved[sources'[s]] = sources'[s]
      <4>1. CASE s = call[c].source
        BY <2>2, <3>2, <3>4, <4>1, TextsStay DEF TypeOK
      <4>2. CASE s # call[c].source
        BY <2>2, <3>5, <4>2, TextsStay DEF TypeOK, SourcesAreFetched
      <4>. QED
        BY <4>1, <4>2
    <3>. QED
      BY <3>5 DEF SourcesAreFetched, PageAllowed
  <2>. QED
    BY <1>2, <2>1, <2>2 DEF PersistFetchedSource
<1>3. ASSUME NEW c \in Caller, Step(c), ~PersistFetchedSource(c) PROVE sources' = sources
  BY <1>3
     DEF Step, Check, Reserve, Get, Note, Read, RegisterPlan, RegisterClaims,
         SearchSource, AttachEvidence, RecordVerdicts, CompleteTask,
         FinalizeRun, Publish, AbortRun, data
<1>. QED
  BY <1>1, <1>2, <1>3 DEF Next, vars, Begin, Crash, TextChanges, data

LEMMA EvidenceKept ==
  ASSUME TypeOK, CallsAreSound, EvidenceIsStored, [Next]_vars
  PROVE  EvidenceIsStored'
<1>0. \A e \in evidence : e.claim \in Claim /\ e.source \in Source
  BY DEF TypeOK, Evidence
<1>1. \A e \in evidence : e.claim \in claims' /\ sources'[e.source] # None
  BY <1>0, DataGrows DEF EvidenceIsStored
<1>2. ASSUME evidence' = evidence PROVE EvidenceIsStored'
  BY <1>1, <1>2 DEF EvidenceIsStored
<1>3. ASSUME NEW c \in Caller, AttachEvidence(c) PROVE EvidenceIsStored'
  <2>. DEFINE items == call[c].req.items
  <2>1. CASE evidence' = evidence
    BY <1>2, <2>1
  <2>2. CASE /\ \A e \in items : e.claim \in claims /\ sources[e.source] # None
             /\ evidence' = evidence \cup items
    <3>1. IsFiniteSet(items)
      BY <1>3 DEF AttachEvidence, Commits, At, CallsAreSound, CallIsSound
    <3>2. IsFiniteSet(evidence')
      BY <2>2, <3>1, FS_Union DEF EvidenceIsStored
    <3>3. claims' = claims /\ sources' = sources
      BY <1>3 DEF AttachEvidence
    <3>4. \A e \in items : e.claim \in claims' /\ sources'[e.source] # None
      BY <2>2, <3>3
    <3>5. \A e \in evidence' : e.claim \in claims' /\ sources'[e.source] # None
      BY <1>1, <2>2, <3>4
    <3>. QED
      BY <3>2, <3>5 DEF EvidenceIsStored
  <2>. QED
    BY <1>3, <2>1, <2>2 DEF AttachEvidence
<1>4. ASSUME NEW c \in Caller, Step(c), ~AttachEvidence(c) PROVE evidence' = evidence
  BY <1>4
     DEF Step, Check, Reserve, Get, Note, Read, RegisterPlan, RegisterClaims,
         SearchSource, PersistFetchedSource, RecordVerdicts, CompleteTask,
         FinalizeRun, Publish, AbortRun, data
<1>. QED
  BY <1>2, <1>3, <1>4 DEF Next, vars, Begin, Crash, TextChanges, data

LEMMA VerdictsKept ==
  ASSUME TypeOK, CallsAreSound, VerdictsRest, [Next]_vars
  PROVE  VerdictsRest'
<1>1. ASSUME verdicts' = verdicts PROVE VerdictsRest'
  BY <1>1, DataGrows DEF VerdictsRest
<1>2. ASSUME NEW c \in Caller, RecordVerdicts(c) PROVE VerdictsRest'
  <2>. DEFINE items == call[c].req.items
  <2>1. CASE verdicts' = verdicts
    BY <1>1, <2>1
  <2>2. CASE (\A v \in items : Admissible(v)) /\ verdicts' = verdicts \cup items
    <3>1. evidence' = evidence
      BY <1>2 DEF RecordVerdicts
    <3>2. \A v \in items : \A e \in v.cites : e \in evidence /\ e.claim = v.claim
      BY <2>2 DEF Admissible
    <3>. QED
      BY <2>2, <3>1, <3>2 DEF VerdictsRest
  <2>. QED
    BY <1>2, <2>1, <2>2 DEF RecordVerdicts
<1>3. ASSUME NEW c \in Caller, Step(c), ~RecordVerdicts(c) PROVE verdicts' = verdicts
  BY <1>3
     DEF Step, Check, Reserve, Get, Note, Read, RegisterPlan, RegisterClaims,
         SearchSource, PersistFetchedSource, AttachEvidence, CompleteTask,
         FinalizeRun, Publish, AbortRun, data
<1>. QED
  BY <1>1, <1>2, <1>3 DEF Next, vars, Begin, Crash, TextChanges, data

-----------------------------------------------------------------------------
(* The lock of the report *)

LEMMA SameReport ==
  ASSUME UNCHANGED <<tasks, claims, sources, evidence, verdicts>>
  PROVE  buildReport' = buildReport
  BY DEF buildReport, classifyClaims, Qualified, validVerdicts, qualifyingEvidence, HostsOf, Sound

\* While somebody has the lock nothing of the run changes but for its end, and
\* who takes it has written the report.
LEMMA Locked ==
  ASSUME [Next]_vars
  PROVE  \/ /\ lock' = lock
            /\ lock # None => UNCHANGED <<status, data, artifacts>>
         \/ lock' = None
         \/ /\ lock = None /\ MayFinalize
            /\ artifacts' = buildReport /\ UNCHANGED <<status, data>>
<1>1. ASSUME NEW c \in Caller, Step(c), ~FinalizeRun(c), ~Publish(c)
      PROVE  lock' = lock /\ (lock # None => UNCHANGED <<status, data, artifacts>>)
  BY <1>1
     DEF Step, Check, Reserve, Get, Note, Read, RegisterPlan, RegisterClaims, Commits,
         SearchSource, PersistFetchedSource, AttachEvidence, RecordVerdicts, CompleteTask,
         AbortRun, data
<1>2. ASSUME NEW c \in Caller, FinalizeRun(c)
      PROVE  \/ lock' = None
             \/ lock = None /\ MayFinalize /\ artifacts' = buildReport /\ UNCHANGED <<status, data>>
  BY <1>2 DEF FinalizeRun
<1>3. ASSUME NEW c \in Caller, Publish(c) PROVE lock' = None
  BY <1>3 DEF Publish
<1>4. ASSUME NEW c \in Caller, Crash(c)
      PROVE  lock' = None \/ (lock' = lock /\ UNCHANGED <<status, data, artifacts>>)
  BY <1>4 DEF Crash
<1>5. ASSUME \/ UNCHANGED vars
             \/ \E s \in Source : TextChanges(s)
             \/ \E c \in Caller, r \in Requests : Begin(c, r)
      PROVE  lock' = lock /\ UNCHANGED <<status, data, artifacts>>
  BY <1>5 DEF vars, TextChanges, Begin, data
<1>. QED
  BY <1>1, <1>2, <1>3, <1>4, <1>5 DEF Next

\* The lock moves only from its holder, by the publication or a crash.
LEMMA Unlocked ==
  ASSUME TypeOK, [Next]_vars, lock # None, lock' # lock
  PROVE  \E c \in Caller : (lock = c \/ Publish(c)) /\ Finish(c)
<1>1. ASSUME NEW c \in Caller, Step(c), ~Publish(c) PROVE lock' = lock
  BY <1>1
     DEF Step, Check, Reserve, Get, Note, Read, RegisterPlan, RegisterClaims, Commits,
         SearchSource, PersistFetchedSource, AttachEvidence, RecordVerdicts, CompleteTask,
         AbortRun, FinalizeRun
<1>. QED
  BY <1>1 DEF Next, vars, Begin, Crash, TextChanges, Publish

LEMMA SettledStays ==
  ASSUME TypeOK, [Next]_vars, status = "finalized", Settled, lock = None \/ status = "active"
  PROVE  tasks' = tasks
<1>1. ASSUME NEW c \in Caller, CompleteTask(c) PROVE tasks' = tasks
  BY <1>1 DEF CompleteTask, Settled
<1>2. ASSUME NEW c \in Caller, RegisterPlan(c) PROVE tasks' = tasks
  BY <1>2 DEF RegisterPlan
<1>3. ASSUME NEW c \in Caller, Step(c), ~CompleteTask(c), ~RegisterPlan(c) PROVE tasks' = tasks
  BY <1>3
     DEF Step, Check, Reserve, Get, Note, Read, RegisterClaims,
         SearchSource, PersistFetchedSource, AttachEvidence, RecordVerdicts,
         AbortRun, FinalizeRun, Publish, data
<1>. QED
  BY <1>1, <1>2, <1>3 DEF Next, vars, Begin, Crash, TextChanges, data

LEMMA PublishingKept ==
  ASSUME TypeOK, CallsAreSound, Publishing, [Next]_vars
  PROVE  Publishing'
<1>1. ASSUME NEW d \in Caller, At(d, "publish")' PROVE lock' = d
  <2>1. CASE call'[d] = call[d]
    <3>1. At(d, "publish") /\ lock = d
      BY <1>1, <2>1 DEF At, Publishing
    <3>2. lock # None
      BY <3>1, ResearchAssumption
    <3>3. CASE lock' # lock
      <4>1. PICK c \in Caller : (lock = c \/ Publish(c)) /\ Finish(c)
        BY <3>2, <3>3, Unlocked
      <4>2. lock = c
        BY <4>1 DEF Publish, Publishing
      <4>3. call'[d] = None
        BY <3>1, <4>1, <4>2, Finished
      <4>. QED
        BY <1>1, <4>3 DEF At
    <3>. QED
      BY <3>1, <3>3
  <2>2. CASE Begins(d)
    BY <1>1, <2>2, FirstFacts DEF At, Begins
  <2>3. CASE GoesOn(d)
    BY <1>1, <2>3, AfterFacts DEF At, GoesOn
  <2>. QED
    BY <1>1, <2>1, <2>2, <2>3, AnyStep DEF At, OneCall
<1>2. ASSUME lock' # None
      PROVE  status' = "active" /\ Settled' /\ artifacts' = buildReport'
  <2>1. CASE lock' = lock /\ UNCHANGED <<status, data, artifacts>>
    <3>1. tasks' = tasks /\ status' = status /\ artifacts' = artifacts /\ buildReport' = buildReport
      BY <2>1, SameReport DEF data
    <3>. QED
      BY <1>2, <2>1, <3>1 DEF Publishing, Settled
  <2>2. CASE MayFinalize /\ artifacts' = buildReport /\ UNCHANGED <<status, data>>
    <3>1. tasks' = tasks /\ status' = status /\ buildReport' = buildReport
      BY <2>2, SameReport DEF data
    <3>. QED
      BY <2>2, <3>1 DEF MayFinalize, Settled
  <2>. QED
    BY <1>2, <2>1, <2>2, Locked
<1>3. ASSUME status' = "finalized" PROVE Settled'
  <2>1. CASE status = "finalized"
    <3>1. Settled /\ lock = None
      BY <2>1 DEF Publishing
    <3>2. tasks' = tasks
      BY <2>1, <3>1, SettledStays
    <3>. QED
      BY <3>1, <3>2 DEF Settled
  <2>2. ASSUME NEW c \in Caller, Publish(c) PROVE Settled'
    <3>1. lock = c /\ lock # None
      BY <2>2, ResearchAssumption DEF Publish, Publishing
    <3>2. tasks' = tasks
      BY <2>2 DEF Publish, data
    <3>. QED
      BY <3>1, <3>2 DEF Publishing, Settled
  <2>3. ASSUME NEW c \in Caller, Step(c), ~Publish(c) PROVE status = "finalized"
    BY <1>3, <2>3
       DEF Step, Check, Reserve, Get, Note, Read, RegisterPlan, RegisterClaims, CompleteTask,
           SearchSource, PersistFetchedSource, AttachEvidence, RecordVerdicts,
           AbortRun, FinalizeRun
  <2>. QED
    BY <1>3, <2>1, <2>2, <2>3 DEF Next, vars, Begin, Crash, TextChanges
<1>. QED
  BY <1>1, <1>2, <1>3 DEF Publishing

-----------------------------------------------------------------------------
(* The invariant *)

LEMMA Starts == Init => RunIsSound
<1>. SUFFICES ASSUME Init PROVE RunIsSound
  OBVIOUS
<1>. USE DEF Init
<1>1. TypeOK
  <2>1. 0 \in 0..MaxFetches /\ 0 \in 0..MaxFaults
    BY ResearchAssumption
  <2>. QED
    BY <2>1 DEF TypeOK
<1>2. \A c \in Caller : call[c] = None
  OBVIOUS
<1>3. CallsAreSound /\ SourcesAreFetched /\ EvidenceIsStored /\ VerdictsRest
  BY <1>2, FS_EmptySet DEF CallsAreSound, SourcesAreFetched, EvidenceIsStored, VerdictsRest
<1>4. Written = {} /\ Paying = {}
  BY <1>2 DEF Written, Paying, At
<1>5. FetchesArePaid
  BY <1>4, FS_EmptySet DEF FetchesArePaid
<1>6. Publishing
  BY <1>2 DEF Publishing, At
<1>. QED
  BY <1>1, <1>3, <1>5, <1>6 DEF RunIsSound

LEMMA Inductive == RunIsSound /\ [Next]_vars => RunIsSound'
<1>. SUFFICES ASSUME RunIsSound, [Next]_vars PROVE RunIsSound'
  OBVIOUS
<1>1. /\ TypeOK /\ CallsAreSound /\ SourcesAreFetched /\ EvidenceIsStored
      /\ VerdictsRest /\ FetchesArePaid /\ Publishing
  BY DEF RunIsSound
<1>2. TypeOK' /\ CallsAreSound'
  BY <1>1, TypesKept, CallsKept
<1>3. SourcesAreFetched' /\ EvidenceIsStored' /\ VerdictsRest'
  BY <1>1, SourcesKept, EvidenceKept, VerdictsKept
<1>4. FetchesArePaid' /\ Publishing'
  BY <1>1, PaidKept, PublishingKept
<1>. QED
  BY <1>2, <1>3, <1>4 DEF RunIsSound

\* The inductive invariant: what calls hold, what is stored, what was paid and
\* who publishes, in every state of every run (workflow.mjs).
THEOREM Invariance == Spec => []RunIsSound
<1>. QED
  BY Starts, Inductive, PTL DEF Spec

\* Type correctness of the run, its calls and what they ask for.
THEOREM TypeCorrect == Spec => []TypeOK
<1>1. RunIsSound => TypeOK
  BY DEF RunIsSound
<1>. QED
  BY <1>1, Invariance, PTL

\* Evidence quotes stored sources for registered claims, verdicts rest on
\* evidence for their own claim, and every stored text was paid for out of the
\* budget of fetches, with any number of calls in flight and of crashes.
THEOREM Grounded == Spec => []EvidenceIsGrounded
<1>1. RunIsSound => EvidenceIsGrounded
  <2>. SUFFICES ASSUME RunIsSound PROVE EvidenceIsGrounded
    OBVIOUS
  <2>1. SourcesAreFetched /\ EvidenceIsStored /\ VerdictsRest /\ FetchesArePaid /\ TypeOK
    BY DEF RunIsSound
  <2>2. Cardinality(Written) \in Nat /\ Cardinality(Paying) \in Nat /\ fetches \in Nat
    BY <2>1, FS_CardinalityType DEF FetchesArePaid, TypeOK
  <2>3. Cardinality(Written) <= fetches
    BY <2>1, <2>2 DEF FetchesArePaid
  <2>. QED
    BY <2>1, <2>3 DEF EvidenceIsGrounded, SourcesAreFetched, EvidenceIsStored, VerdictsRest, Written
<1>. QED
  BY <1>1, Invariance, PTL

-----------------------------------------------------------------------------
(* The report *)

\* Of a finite set of evidence from n hosts or more, n pieces have hosts that
\* differ.
LEMMA Representatives ==
  ASSUME NEW Q, IsFiniteSet(HostsOf(Q)), NEW n \in Nat, Cardinality(HostsOf(Q)) >= n
  PROVE  \E E \in SUBSET Q :
           /\ Cardinality(E) = n
           /\ \A e, f \in E : e # f => Host[sources[e.source]] # Host[sources[f.source]]
<1>. DEFINE H == HostsOf(Q)
            m == Cardinality(H)
            Of(e) == Host[sources[e.source]]
            rep == [h \in H |-> CHOOSE e \in Q : Of(e) = h]
<1>1. m \in Nat /\ ExistsBijection(1..m, H)
  BY FS_CardinalityType
<1>2. PICK g \in Bijection(1..m, H) : TRUE
  BY <1>1 DEF ExistsBijection
<1>3. \A h \in H : rep[h] \in Q /\ Of(rep[h]) = h
  BY DEF HostsOf
<1>4. /\ \A i \in 1..m : g[i] \in H
      /\ \A i, j \in 1..m : g[i] = g[j] => i = j
  BY <1>2 DEF Bijection, Injection, IsInjective, Surjection
<1>5. \A i \in 1..n : i \in 1..m
  BY <1>1
<1>. DEFINE E == {rep[g[i]] : i \in 1..n}
            b == [i \in 1..n |-> rep[g[i]]]
<1>. HIDE DEF rep, H, m
<1>6. E \in SUBSET Q
  BY <1>3, <1>4, <1>5
<1>7. \A i, j \in 1..n : Of(rep[g[i]]) = Of(rep[g[j]]) => i = j
  BY <1>3, <1>4, <1>5
<1>8. b \in Bijection(1..n, E)
  <2>1. b \in [1..n -> E] /\ \A e \in E : \E i \in 1..n : b[i] = e
    OBVIOUS
  <2>2. \A i, j \in 1..n : b[i] = b[j] => i = j
    BY <1>7
  <2>. QED
    BY <2>1, <2>2 DEF Bijection, Injection, IsInjective, Surjection
<1>9. Cardinality(E) = n
  BY <1>8, FS_CountingElements DEF ExistsBijection
<1>10. \A e, f \in E : e # f => Of(e) # Of(f)
  BY <1>7
<1>. QED
  BY <1>6, <1>9, <1>10

\* What qualifies a claim for a class backs it, where the texts are intact.
LEMMA QualifiedIsBacked ==
  ASSUME TypeOK, EvidenceIsStored, assertStoredEvidenceIntegrity,
         NEW cl, NEW verdict, NEW stance, Qualified(cl, verdict, stance)
  PROVE  Backed(cl, stance, verdict)
<1>. DEFINE Q == qualifyingEvidence(cl, stance)
<1>1. PICK v \in verdicts : v.claim = cl /\ v.verdict = verdict
  BY DEF Qualified, validVerdicts
<1>2. Q \subseteq evidence /\ IsFiniteSet(Q)
  <2>1. Q \in SUBSET evidence
    BY DEF qualifyingEvidence
  <2>. QED
    BY <2>1, FS_Subset DEF EvidenceIsStored
<1>3. IsFiniteSet(HostsOf(Q))
  <2>. DEFINE f == [e \in Q |-> Host[sources[e.source]]]
  <2>1. f \in Surjection(Q, HostsOf(Q))
    BY DEF Surjection, HostsOf
  <2>. QED
    BY <1>2, <2>1, FS_Surjection
<1>4. PICK E \in SUBSET Q :
        /\ Cardinality(E) = MinSources
        /\ \A e, f \in E : e # f => Host[sources[e.source]] # Host[sources[f.source]]
  BY <1>3, Representatives, ResearchAssumption DEF Qualified
<1>5. \A e \in E : /\ e.claim = cl /\ e.stance = stance
                   /\ sources[e.source] \notin Suspect
                   /\ content[e.source] = "intact"
  <2>1. \A e \in E : e \in Q
    OBVIOUS
  <2>2. \A e \in Q : /\ e \in evidence /\ e.claim = cl /\ e.stance = stance
                     /\ sources[e.source] \notin Suspect
    BY DEF qualifyingEvidence, Sound
  <2>3. \A e \in evidence : e.source \in Source /\ sources[e.source] # None
    BY DEF TypeOK, Evidence, EvidenceIsStored
  <2>4. \A e \in evidence : content[e.source] = "intact"
    BY <2>3 DEF assertStoredEvidenceIntegrity
  <2>. QED
    BY <2>1, <2>2, <2>4
<1>6. E \in SUBSET evidence
  BY <1>2
<1>. QED
  BY <1>1, <1>4, <1>5, <1>6 DEF Backed

\* What finalize writes and what the state publishes.
Reports ==
  /\ artifacts' # artifacts =>
       /\ \A s \in Source : sources[s] # None => content[s] = "intact"
       /\ \A cl \in claims :
            /\ artifacts'.classes[cl] = "supported" => Backed(cl, "supports", "supported")
            /\ artifacts'.classes[cl] = "refuted" => Backed(cl, "refutes", "refuted")
       /\ artifacts'.gate => \A t \in Task : tasks[t].status = "success"
  /\ final' # final => artifacts' = final' /\ status' = "finalized"

LEMMA ReportsAreSound == RunIsSound /\ [Next]_vars => Reports
<1>. SUFFICES ASSUME RunIsSound, [Next]_vars PROVE Reports
  OBVIOUS
<1>1. TypeOK /\ EvidenceIsStored /\ Publishing
  BY DEF RunIsSound
<1>2. ASSUME artifacts' = artifacts, final' = final PROVE Reports
  BY <1>2 DEF Reports
<1>3. ASSUME NEW c \in Caller, FinalizeRun(c) PROVE Reports
  <2>1. CASE artifacts' = artifacts
    BY <1>2, <1>3, <2>1 DEF FinalizeRun
  <2>2. CASE MayFinalize /\ artifacts' = buildReport
    <3>1. assertStoredEvidenceIntegrity /\ tasks # << >>
      BY <2>2 DEF MayFinalize
    <3>2. ASSUME NEW cl \in claims
          PROVE  /\ artifacts'.classes[cl] = "supported" => Qualified(cl, "supported", "supports")
                 /\ artifacts'.classes[cl] = "refuted" => Qualified(cl, "refuted", "refutes")
      <4>1. artifacts'.classes[cl] = classifyClaims[cl]
        BY <2>2 DEF buildReport
      <4>. QED
        BY <4>1 DEF classifyClaims
    <3>3. ASSUME NEW cl \in claims
          PROVE  /\ artifacts'.classes[cl] = "supported" => Backed(cl, "supports", "supported")
                 /\ artifacts'.classes[cl] = "refuted" => Backed(cl, "refutes", "refuted")
      BY <1>1, <3>1, <3>2, QualifiedIsBacked
    <3>4. artifacts'.gate => \A t \in Task : tasks[t].status = "success"
      <4>1. DOMAIN tasks = Task
        BY <1>1, <3>1 DEF TypeOK
      <4>. QED
        BY <2>2, <4>1 DEF buildReport
    <3>5. final' = final
      BY <1>3 DEF FinalizeRun
    <3>. QED
      BY <3>1, <3>3, <3>4, <3>5 DEF Reports, assertStoredEvidenceIntegrity
  <2>. QED
    BY <1>3, <2>1, <2>2 DEF FinalizeRun
<1>4. ASSUME NEW c \in Caller, Publish(c) PROVE Reports
  <2>1. lock = c /\ lock # None
    BY <1>1, <1>4, ResearchAssumption DEF Publish, Publishing
  <2>2. artifacts = buildReport
    BY <1>1, <2>1 DEF Publishing
  <2>. QED
    BY <1>4, <2>2 DEF Publish, Reports
<1>5. ASSUME NEW c \in Caller, Step(c), ~FinalizeRun(c), ~Publish(c) PROVE Reports
  <2>1. artifacts' = artifacts /\ final' = final
    BY <1>5
       DEF Step, Check, Reserve, Get, Note, Read, RegisterPlan, RegisterClaims, CompleteTask,
           SearchSource, PersistFetchedSource, AttachEvidence, RecordVerdicts, AbortRun
  <2>. QED
    BY <1>2, <2>1
<1>6. ASSUME \/ UNCHANGED vars
             \/ \E s \in Source : TextChanges(s)
             \/ \E c \in Caller : Crash(c) \/ \E r \in Requests : Begin(c, r)
      PROVE  Reports
  <2>1. artifacts' = artifacts /\ final' = final
    BY <1>6 DEF vars, TextChanges, Begin, Crash
  <2>. QED
    BY <1>2, <2>1
<1>. QED
  BY <1>3, <1>4, <1>5, <1>6 DEF Next

\* finalizeRun reports a claim as supported or refuted only on intact texts, on
\* the word of a verdict and on quotes of as many hosts as the policy asks for,
\* and what it publishes is what it wrote.
THEOREM ReportSound == Spec => ReportIsSound
<1>1. RunIsSound /\ [Next]_vars
        => [/\ artifacts' # artifacts =>
                 /\ \A s \in Source : sources[s] # None => content[s] = "intact"
                 /\ \A cl \in claims :
                      /\ artifacts'.classes[cl] = "supported" => Backed(cl, "supports", "supported")
                      /\ artifacts'.classes[cl] = "refuted" => Backed(cl, "refutes", "refuted")
                 /\ artifacts'.gate => \A t \in Task : tasks[t].status = "success"
            /\ final' # final => artifacts' = final' /\ status' = "finalized"]_vars
  BY ReportsAreSound DEF Reports
<1>. QED
  BY <1>1, Invariance, PTL DEF Spec, ReportIsSound

LEMMA FinalStays ==
  RunIsSound /\ [Next]_vars /\ status = "finalized"
    => UNCHANGED <<status, tasks, final, artifacts, sources>>
<1>. SUFFICES ASSUME RunIsSound, [Next]_vars, status = "finalized"
              PROVE  UNCHANGED <<status, tasks, final, artifacts, sources>>
  OBVIOUS
<1>1. TypeOK /\ Publishing
  BY DEF RunIsSound
<1>2. lock = None /\ Settled
  BY <1>1 DEF Publishing
<1>3. tasks' = tasks
  BY <1>1, <1>2, SettledStays
<1>4. \A c \in Caller : ~Publish(c)
  BY <1>1, <1>2, ResearchAssumption DEF Publish, Publishing
<1>5. ASSUME NEW c \in Caller, Step(c) PROVE UNCHANGED <<status, final, artifacts, sources>>
  BY <1>4, <1>5
     DEF Step, Check, Reserve, Get, Note, Read, RegisterPlan, RegisterClaims, CompleteTask,
         SearchSource, PersistFetchedSource, AttachEvidence, RecordVerdicts, AbortRun,
         FinalizeRun, MayFinalize, data
<1>6. UNCHANGED <<status, final, artifacts, sources>>
  BY <1>5 DEF Next, vars, Begin, Crash, TextChanges, data
<1>. QED
  BY <1>3, <1>6

\* What a finalized run has reported stands, whatever was in flight.
THEOREM ReportFinal == Spec => ReportStands
<1>1. RunIsSound /\ [Next]_vars
        => [status = "finalized" => UNCHANGED <<status, tasks, final, artifacts, sources>>]_vars
  BY FinalStays
<1>. QED
  BY <1>1, Invariance, PTL DEF Spec, ReportStands
===============================================================================

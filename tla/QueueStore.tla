------------------------------ MODULE QueueStore ------------------------------
(***************************************************************************)
(* The durable queue on the hash-chain store: each operation is the calls    *)
(* that durable-queue.mjs makes of atomic-store.mjs.  enqueue and claim      *)
(* first initialize(): they read the record, and create it if there is none. *)
(* Then the operation is the mutator of an update.  state() and              *)
(* verifyIntegrity() are the initialize() of a claim without the claim.      *)
(***************************************************************************)
EXTENDS ChainStore, QueueParameters

CONSTANTS
  MaxJobs,   \* bound on the jobs of a behaviour
  MaxBeats,  \* bound on the heartbeats of an attempt
  Offered,   \* the jobs that may be enqueued: their keys and delays
  MaxRev     \* bound on the revisions of the record

VARIABLES
  req,     \* req[c]: the operation that c is in, or None
  stage,   \* stage[c]: the call of the store it is making for it
  held,    \* held[c]: the leases it was given and has not lost by dying
  passed, known, issued  \* as in DurableQueue

queue == IF file = Absent THEN [jobs |-> << >>, completed_keys |-> {}] ELSE file.data

Q == INSTANCE DurableQueue WITH Worker <- Caller

\* A new record holds ChainStore's Initial, and null is no lease.
ASSUME RecordAssumption == Initial = Q!EmptyQueue /\ None \notin Q!Lease

queueVars == <<req, stage, held, passed, known, issued>>
vars == <<dir, file, events, lock, pc, buf, expected, tries, outcome, faults,
          req, stage, held, passed, known, issued>>

Stages == {"none", "init", "create", "apply"}

TypeOK ==
  /\ StoreTypeOK
  /\ \A c \in Caller : stage[c] \in Stages
  /\ \A c \in Caller : stage[c] = "none" <=> req[c] = None
  /\ issued \subseteq Caller \X Nat \X Nat

Init ==
  /\ StoreInit
  /\ req = [c \in Caller |-> None]
  /\ stage = [c \in Caller |-> "none"]
  /\ held = [c \in Caller |-> {}]
  /\ passed = {} /\ known = {} /\ issued = {}

\* The bounds: no more jobs, heartbeats and revisions than these.
WithinBounds(c, r) ==
  /\ r.op = "enqueue" => Len(queue.jobs) < MaxJobs
  /\ r.op = "enqueue" => <<r.key, r.delayed>> \in Offered
  /\ r.op = "heartbeat" =>
       \A j \in DOMAIN queue.jobs : queue.jobs[j].lease # None =>
         queue.jobs[j].lease.beat <= MaxBeats
  /\ file # Absent => file.rev < MaxRev

FirstStep == [init |-> "peek", create |-> "exists", apply |-> "lock"]

\* The lease operations skip initialize().
Begin(c, r) ==
  /\ req[c] = None
  /\ WithinBounds(c, r)
  /\ LET first == IF r.op \in {"enqueue", "claim"} THEN "init" ELSE "apply" IN
     /\ Start(c, FirstStep[first])
     /\ req' = [req EXCEPT ![c] = r]
     /\ stage' = [stage EXCEPT ![c] = first]
  /\ UNCHANGED <<held, passed, known, issued>>

\* The call of the store that follows the one that has returned, if any.
Following(c) ==
  IF stage[c] = "init" /\ outcome[c] = "absent" THEN "create"
  ELSE IF stage[c] \in {"init", "create"} /\ outcome[c] = "ok" THEN "apply"
  ELSE "none"

Continue(c) ==
  /\ req[c] # None /\ pc[c] = "idle"
  /\ Following(c) # "none"
  /\ Start(c, FirstStep[Following(c)])
  /\ stage' = [stage EXCEPT ![c] = Following(c)]
  /\ UNCHANGED <<req, held, passed, known, issued>>

\* The operation is over; a claim that succeeded has told its caller the lease.
Answer(c) ==
  /\ req[c] # None /\ pc[c] = "idle"
  /\ Following(c) = "none"
  /\ req' = [req EXCEPT ![c] = None]
  /\ stage' = [stage EXCEPT ![c] = "none"]
  /\ held' = [held EXCEPT ![c] =
       IF outcome[c] = "ok" /\ req[c].op = "claim" THEN Q!LeasesOf(c) ELSE held[c]]
  /\ outcome' = [outcome EXCEPT ![c] = "none"]
  /\ UNCHANGED <<dir, file, events, lock, pc, buf, expected, tries, faults, passed, known, issued>>

\* The mutator of the operation, or the one of create(), which only emits.
Operate(c) ==
  /\ pc[c] = "mutate"
  /\ LET e == Q!Effect(buf[c].data, c, req[c], passed) IN
     IF stage[c] = "create" THEN Mutate(c, buf[c].data, TRUE)
     ELSE IF e.ok THEN Mutate(c, e.queue, e.emits)
     ELSE Throw(c)
  /\ UNCHANGED queueVars

\* What the answer will say of the job that a claim gave out is fixed here.
Commit(c) ==
  LET new == {j \in DOMAIN buf[c].data.jobs :
                /\ buf[c].data.jobs[j].lease # None
                /\ buf[c].data.jobs[j].attempts > queue.jobs[j].attempts}
  IN
  /\ WriteState(c)
  /\ issued' = issued \cup
       (IF stage[c] = "apply" /\ req[c].op = "claim"
        THEN {<<c, j, buf[c].data.jobs[j].attempts>> : j \in new} ELSE {})
  /\ known' = IF stage[c] = "apply" THEN passed ELSE known
  /\ UNCHANGED <<req, stage, held, passed>>

TimePasses == /\ UNCHANGED <<dir, file, events, lock, pc, buf, expected, tries, outcome,
                             faults, req, stage, held>>
              /\ Q!TimePasses

Die(c) ==
  /\ Crash(c)
  /\ req' = [req EXCEPT ![c] = None]
  /\ stage' = [stage EXCEPT ![c] = "none"]
  /\ held' = [held EXCEPT ![c] = {}]
  /\ UNCHANGED <<passed, known, issued>>

Step(c) == \/ Continue(c) \/ Answer(c)
           \/ Advance(c) /\ UNCHANGED queueVars
           \/ Operate(c)
           \/ Commit(c)

Next ==
  \/ \E c \in Caller : \/ \E r \in Q!RequestsOf(held[c]) : Begin(c, r)
                       \/ Step(c)
                       \/ WriteFails(c) /\ UNCHANGED queueVars
                       \/ Die(c)
  \/ TimePasses

\* A process that made a call goes on with it; time passes as it likes.
Spec == Init /\ [][Next]_vars /\ \A c \in Caller : WF_vars(Step(c))

-----------------------------------------------------------------------------
\* Taken apart into unlocked reads, a lock, and two files that are written one
\* after the other, with crashes in between, the queue is still the queue of
\* DurableQueue, whose operations take one step.
\* (This is Q!Spec; a step that leaves the queue alone is recognised first.)
ImplementsDurableQueue == Q!Init /\ [][UNCHANGED Q!vars \/ Q!Next]_vars

\* The invariants of DurableQueue, about the queue in state.json.
JobsAreSound == Q!JobsAreSound

\* Nobody waits for ever: not for the lock of a caller that died with it, and
\* not for two files to agree that never will.
EveryCallReturns ==
  LET c == CHOOSE x \in Caller : TRUE IN req[c] # None ~> req[c] = None
===============================================================================

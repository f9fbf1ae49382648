----------------------------- MODULE DurableQueue -----------------------------
(***************************************************************************)
(* The job queue of standalone/runtime/os/durable-queue.mjs, one step for    *)
(* each operation: what its users are promised.  QueueStore takes the same   *)
(* operations apart into the steps of the store below them.                  *)
(*                                                                           *)
(* An operation is a mutator of the whole queue.  Here it is a request, and  *)
(* Effect says what the mutator does with it: the queue it leaves, whether   *)
(* it emits events, and whether it throws.                                   *)
(*                                                                           *)
(* Time is the set of the deadlines that have passed.  A deadline is         *)
(* <<job, attempt, beat>>: beat 0 is the available_at of the job after that  *)
(* many attempts, a later beat the expires_at that the claim (1) or a        *)
(* heartbeat wrote.  The random token of a lease is the number of the        *)
(* attempt: a job has one token per attempt.                                 *)
(***************************************************************************)
EXTENDS QueueParameters, Sequences, FiniteSets

CONSTANT Worker  \* whoever calls the queue

VARIABLES
  queue,   \* jobs and completed_keys
  passed,  \* the deadlines that have passed
  known,   \* those that had passed when the queue was last written
  issued   \* <<worker, job, attempt>>: the leases given out (history)

vars == <<queue, passed, known, issued>>

Lease == [worker : Worker, beat : Nat]
Job ==
  [key : Key \cup {None}, status : {"queued", "leased", "completed", "failed"},
   attempts : Nat, delayed : BOOLEAN, lease : Lease \cup {None},
   result : Worker \X Nat \cup {None}]
Queue == [jobs : Seq(Job), completed_keys : SUBSET Key]

EmptyQueue == [jobs |-> << >>, completed_keys |-> {}]

-----------------------------------------------------------------------------
(* The mutators *)

Refused(q) == [queue |-> q, emits |-> FALSE, ok |-> FALSE, claimed |-> 0]
Unchanged(q) == [queue |-> q, emits |-> FALSE, ok |-> TRUE, claimed |-> 0]
Changed(q) == [queue |-> q, emits |-> TRUE, ok |-> TRUE, claimed |-> 0]
WithJob(q, j, job) == [q EXCEPT !.jobs[j] = job]

\* An earlier job with the key answers for the new one, whatever became of it.
KnownKey(q, key) ==
  key # None /\ (key \in q.completed_keys \/ \E j \in DOMAIN q.jobs : q.jobs[j].key = key)

NewJob(key, delayed) ==
  [key |-> key, status |-> "queued", attempts |-> 0, delayed |-> delayed,
   lease |-> None, result |-> None]

Enqueue(q, key, delayed) ==
  IF KnownKey(q, key) THEN Unchanged(q)
  ELSE Changed([q EXCEPT !.jobs = Append(q.jobs, NewJob(key, delayed))])

LeaseExpired(j, job, past) ==
  job.status = "leased" /\ <<j, job.attempts, job.lease.beat>> \in past

\* Mutant of Expire: the attempts are not counted.
ExpireAndRetry(jobs, past) ==
  [j \in DOMAIN jobs |->
    IF LeaseExpired(j, jobs[j], past)
    THEN [jobs[j] EXCEPT !.status = "queued", !.lease = None]
    ELSE jobs[j]]

\* Leases are only taken back here, by the next claim of anybody.
Expire(jobs, past) ==
  [j \in DOMAIN jobs |->
    IF LeaseExpired(j, jobs[j], past)
    THEN [jobs[j] EXCEPT !.status = IF jobs[j].attempts >= MaxAttempts THEN "failed"
                                     ELSE "queued",
                         !.lease = None]
    ELSE jobs[j]]

Available(j, job, past) ==
  job.status = "queued" /\ (~job.delayed \/ <<j, job.attempts, 0>> \in past)

Claim(q, w, past) ==
  LET jobs == Expire(q.jobs, past)
      ready == {j \in DOMAIN jobs : Available(j, jobs[j], past)}
      first == CHOOSE j \in ready : \A k \in ready : j <= k
  IN IF ready = {}
     THEN [Unchanged([q EXCEPT !.jobs = jobs]) EXCEPT !.emits = jobs # q.jobs]
     ELSE [queue |-> [q EXCEPT !.jobs =
                        [jobs EXCEPT ![first] =
                          [jobs[first] EXCEPT !.status = "leased",
                                              !.attempts = jobs[first].attempts + 1,
                                              !.lease = [worker |-> w, beat |-> 1]]]],
           emits |-> TRUE, ok |-> TRUE, claimed |-> first]

\* assertLease: the caller has the lease, and it has not expired.
HasLease(q, w, j, attempt, past) ==
  /\ j \in DOMAIN q.jobs
  /\ q.jobs[j].status = "leased"
  /\ q.jobs[j].lease.worker = w
  /\ q.jobs[j].attempts = attempt
  /\ ~LeaseExpired(j, q.jobs[j], past)

Heartbeat(q, w, j, attempt, past) ==
  IF ~HasLease(q, w, j, attempt, past) THEN Refused(q)
  ELSE Changed(WithJob(q, j,
         [q.jobs[j] EXCEPT !.lease = [worker |-> w, beat |-> q.jobs[j].lease.beat + 1]]))

Complete(q, w, j, attempt, past) ==
  IF ~HasLease(q, w, j, attempt, past) THEN Refused(q)
  ELSE LET done == WithJob(q, j, [q.jobs[j] EXCEPT !.status = "completed", !.lease = None,
                                                    !.result = <<w, attempt>>])
       IN Changed([done EXCEPT !.completed_keys =
                     q.completed_keys \cup ({q.jobs[j].key} \ {None})])

Fail(q, w, j, attempt, retryable, delayed, past) ==
  IF ~HasLease(q, w, j, attempt, past) THEN Refused(q)
  ELSE LET again == retryable /\ q.jobs[j].attempts < MaxAttempts
       IN Changed(WithJob(q, j,
            [q.jobs[j] EXCEPT !.lease = None,
                              !.status = IF again THEN "queued" ELSE "failed",
                              !.delayed = IF again THEN delayed ELSE q.jobs[j].delayed]))

Effect(q, w, r, past) ==
  CASE r.op = "enqueue"   -> Enqueue(q, r.key, r.delayed)
    [] r.op = "claim"     -> Claim(q, w, past)
    [] r.op = "heartbeat" -> Heartbeat(q, w, r.job, r.attempt, past)
    [] r.op = "complete"  -> Complete(q, w, r.job, r.attempt, past)
    [] r.op = "fail"      -> Fail(q, w, r.job, r.attempt, r.retryable, r.delayed, past)

-----------------------------------------------------------------------------
\* The requests of a worker that was given a set of <<job, attempt>>.
RequestsOf(held) ==
  [op : {"enqueue"}, key : Key \cup {None}, delayed : BOOLEAN]
  \cup [op : {"claim"}]
  \cup {[op |-> o, job |-> t[1], attempt |-> t[2]] : o \in {"heartbeat", "complete"}, t \in held}
  \cup {[op |-> "fail", job |-> t[1], attempt |-> t[2], retryable |-> b, delayed |-> d] :
          t \in held, b \in BOOLEAN, d \in BOOLEAN}

LeasesOf(w) == {<<t[2], t[3]>> : t \in {u \in issued : u[1] = w}}

Issue(w, e) ==
  IF e.claimed = 0 THEN {} ELSE {<<w, e.claimed, e.queue.jobs[e.claimed].attempts>>}

\* The mutator reads the clock, and the queue is written some time after that.
Do(w, r) ==
  \E late \in SUBSET (passed \ known) :
    LET e == Effect(queue, w, r, passed \ late) IN
    /\ e.ok
    /\ queue' = e.queue
    /\ issued' = issued \cup Issue(w, e)
    /\ known' = passed
    /\ UNCHANGED passed

\* The deadlines that now() may overtake: those the queue still looks at.
Deadlines ==
  {<<j, queue.jobs[j].attempts,
     IF queue.jobs[j].status = "leased" THEN queue.jobs[j].lease.beat ELSE 0>> :
     j \in {k \in DOMAIN queue.jobs : \/ queue.jobs[k].status = "leased"
                                      \/ queue.jobs[k].status = "queued"
                                         /\ queue.jobs[k].delayed}}

TimePasses ==
  \E d \in Deadlines \ passed : passed' = passed \cup {d} /\ UNCHANGED <<queue, known, issued>>

Init == queue = EmptyQueue /\ passed = {} /\ known = {} /\ issued = {}

Next ==
  \/ \E w \in Worker : \E r \in RequestsOf(LeasesOf(w)) : Do(w, r)
  \/ TimePasses

Spec == Init /\ [][Next]_vars

-----------------------------------------------------------------------------
(* What a user of the queue relies on *)

\* A job is given out at most max_attempts times, and one that waits to be
\* claimed has an attempt left: neither expiry nor failure strands it.
AttemptsAreLimited ==
  \A j \in DOMAIN queue.jobs :
    LET job == queue.jobs[j] IN
    /\ job.attempts <= MaxAttempts
    /\ job.status = "queued" => job.attempts < MaxAttempts
    /\ job.status = "leased" => job.attempts > 0

\* A key has one job: enqueueing again, even after the job failed for good or
\* was completed, adds none.
OneJobPerKey ==
  \A i, j \in DOMAIN queue.jobs :
    queue.jobs[i].key # None /\ queue.jobs[i].key = queue.jobs[j].key => i = j

\* However leases expire and jobs are claimed again, the result of a job is
\* that of the worker to whom it was given out last.
LastClaimDelivers ==
  \A j \in DOMAIN queue.jobs :
    LET job == queue.jobs[j] IN
    job.status = "completed" =>
      /\ <<job.result[1], j, job.result[2]>> \in issued
      /\ \A t \in issued : t[2] = j /\ t[1] # job.result[1] => t[3] < job.result[2]

JobsAreSound == AttemptsAreLimited /\ OneJobPerKey /\ LastClaimDelivers

\* What was settled stays settled, with the result it had, and a worker that
\* comes with a lease that was taken back changes nothing.
SettledIsFinal ==
  [][\A j \in DOMAIN queue.jobs :
       /\ j \in DOMAIN queue'.jobs
       /\ queue.jobs[j].status \in {"completed", "failed"} =>
            queue'.jobs[j] = queue.jobs[j]
       /\ queue'.jobs[j].attempts >= queue.jobs[j].attempts]_vars
===============================================================================

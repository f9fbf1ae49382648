----------------------------- MODULE MCQueueStore -----------------------------
(* The jobs that the run of QueueStore enqueues, and what its record holds. *)
EXTENDS QueueStore

CONSTANT k1

OneKey == {<<k1, FALSE>>}

Queues == Q!Queue
NoJobs == Q!EmptyQueue
===============================================================================

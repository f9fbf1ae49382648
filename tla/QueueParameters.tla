--------------------------- MODULE QueueParameters ---------------------------
(* What the queue and its composition with the store are parameterised by. *)
EXTENDS Naturals

CONSTANTS
  Key,          \* idempotency keys
  None,         \* null: no key, no lease, no result
  MaxAttempts   \* max_attempts of every job

ASSUME QueueAssumption ==
  /\ None \notin Key
  /\ MaxAttempts \in Nat \ {0}
===============================================================================

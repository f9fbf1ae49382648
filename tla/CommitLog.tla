------------------------------ MODULE CommitLog ------------------------------
(***************************************************************************)
(* What server/lib/store.mjs promises to every module built on it: a run is  *)
(* a log of transactions.  A transaction is added to the log as a whole, on  *)
(* top of everything that was there before it, and once its caller has been  *)
(* told that it succeeded it never leaves the log.                           *)
(***************************************************************************)
EXTENDS Sequences

CONSTANT Tx  \* the transactions that may be executed

VARIABLES
  log,    \* the transactions of the run, oldest first
  acked   \* the transactions whose callers have been answered

vars == <<log, acked>>

Logged == {log[i] : i \in DOMAIN log}

Init == log = << >> /\ acked = {}

\* withRunTransaction, seen from outside: one step, from the whole log.
Commit(t) ==
  /\ t \notin Logged
  /\ log' = Append(log, t)
  /\ UNCHANGED acked

\* The caller of a committed transaction learns that it succeeded.
Acknowledge(t) ==
  /\ t \in Logged
  /\ acked' = acked \cup {t}
  /\ UNCHANGED log

Next == \E t \in Tx : Commit(t) \/ Acknowledge(t)

Spec == Init /\ [][Next]_vars
==============================================================================

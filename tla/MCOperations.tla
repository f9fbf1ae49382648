----------------------------- MODULE MCOperations -----------------------------
(* Two drivers of one run, or two requests that may carry the same command. *)
EXTENDS Operations, TLC

Symmetric == Permutations(Driver) \cup Permutations(Request) \cup Permutations(Command)
===============================================================================

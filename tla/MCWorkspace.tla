----------------------------- MODULE MCWorkspace ------------------------------
(* Symmetric invokers and operators for the run of Workspace. *)
EXTENDS Workspace, TLC

Symmetry == Permutations(Invoker) \cup Permutations(Operator)
===============================================================================

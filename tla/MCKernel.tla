------------------------------- MODULE MCKernel -------------------------------
(* Small graphs for the runs of Kernel, and symmetry. *)
EXTENDS Kernel, TLC

Symmetry == Permutations(Kernels)

Nodes == {"a", "b", "c"}

Shape(b, c, human) ==
  [before |-> ("a" :> {}) @@ ("b" :> b) @@ ("c" :> c), human |-> human, last |-> "c"]

\* Two workers side by side, then a human.
Diamond == Shape({}, {"a", "b"}, {"c"})

\* A worker, then two approvals at once.
Gates == Shape({"a"}, {"a"}, {"b", "c"})

\* Two workers side by side, and a human after one of them.
Fork == Shape({}, {"a"}, {"c"})

RacedGraphs == {Gates, Fork}
DrivenGraphs == {Diamond, Gates, Fork}
===============================================================================

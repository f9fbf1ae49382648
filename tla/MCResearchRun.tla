----------------------------- MODULE MCResearchRun -----------------------------
(* The plan and the web of the runs of ResearchRun: two hosts, a page that    *)
(* moved from one to the other, and a page that looks like an injection.      *)
EXTENDS ResearchRun, TLC

OneTask == [t \in Task |-> "verifier"]
PageHost == [p \in Page |-> IF p \in {"a1", "a2"} THEN "a" ELSE "b"]
PageMoved == [p \in Page |-> IF p = "a2" THEN "b1" ELSE p]

Symmetric == Permutations(Caller) \cup Permutations(Source)
===============================================================================

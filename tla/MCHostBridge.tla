----------------------------- MODULE MCHostBridge -----------------------------
(* Two hosts: a run that Pi executes, commands from OpenCode that name it at a *)
(* revision or try to decide its gate, and a tool of Pi's agent.               *)
EXTENDS HostBridge

A(h, w, r, v) == [host |-> h, what |-> w, run |-> r, at |-> v]

MCScript == [c \in {1, 2} |->
  IF c = 1 THEN {A("pi", w, WithoutRun, AnyRevision) : w \in {"run"}}
  ELSE {A("opencode", w, 1, 1) : w \in {"resume", "abort"}}
       \cup {A("pi", w, KnownRun, AnyRevision) : w \in {"status", "deny", "mutate"}}]

MCAdapter == [i \in {"a"} |-> {"orca", "process", "pi", "opencode"}]
=============================================================================

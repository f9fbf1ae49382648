----------------------------- MODULE Collaboration -----------------------------
(***************************************************************************)
(* The contracts between the roles of a mission                              *)
(* (standalone/runtime/intelligence/collaboration-runtime.mjs).              *)
(***************************************************************************)
LOCAL INSTANCE Naturals
LOCAL INSTANCE FiniteSets

Transitions == {"acknowledge", "reject", "block", "complete", "cancel"}

\* What the contracts that the fabric makes ask for when they are completed.
AsksFor(type) ==
  CASE type = "dependency_handoff" -> {"outputs"}
    [] type \in {"verification_request", "impact_followup"} -> {"outputs", "evidence"}

Contract(key, type, producer, consumers, refs) ==
  [key |-> key, type |-> type, producer |-> producer, consumers |-> consumers,
   refs |-> refs, status |-> "proposed", acks |-> {}]

\* create(), without which there is no contract; verify() lets one through
\* whose producer is one of several consumers.
MayCreate(producer, consumers) == consumers # {} /\ producer \notin consumers
IsContract(c) == c.consumers # {} /\ c.consumers # {c.producer}

\* given is what comes with a completion: outputs, evidence.  To cancel takes
\* the producer, everything else a consumer.
MayTransition(c, action, actor, given) ==
  /\ IsContract(c)
  /\ c.status \notin {"completed", "cancelled", "rejected"}
  /\ IF action = "cancel" THEN actor = c.producer ELSE actor \in c.consumers
  /\ action = "complete" => actor # c.producer /\ AsksFor(c.type) \subseteq given

\* A contract that was blocked is proposed again when it is acknowledged.
Transition(c, action, actor) ==
  LET acks == IF action = "acknowledge" THEN c.acks \cup {actor} ELSE c.acks IN
  [c EXCEPT !.acks = acks,
            !.status = CASE action = "acknowledge" ->
                              IF c.consumers \subseteq acks THEN "acknowledged" ELSE "proposed"
                         [] action = "reject" -> "rejected"
                         [] action = "block" -> "blocked"
                         [] action = "cancel" -> "cancelled"
                         [] action = "complete" -> "completed"]

\* What is handed over to the consumers, for a contract that is still open.
MayHandOff(c) == IsContract(c) /\ c.status \in {"acknowledged", "proposed"}
Handoff(c, packet, route) ==
  [contract |-> c.key, producer |-> c.producer, consumers |-> c.consumers,
   packet |-> packet, route |-> route, outputs |-> c.refs]
================================================================================

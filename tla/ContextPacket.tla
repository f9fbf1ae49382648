----------------------------- MODULE ContextPacket -----------------------------
(***************************************************************************)
(* The context that an agent is given                                        *)
(* (standalone/runtime/intelligence/context-runtime.mjs).  The content of a  *)
(* section is its size in bytes.  Redaction and the blinding of verifiers    *)
(* change what a section says and not which sections there are; they are     *)
(* left out.                                                                 *)
(***************************************************************************)
LOCAL INSTANCE Naturals
LOCAL INSTANCE Sequences
LOCAL Seqs == INSTANCE SequencesExt

AllSections == <<"objective", "constraints", "work_item", "dependencies", "artifacts",
                 "contracts", "impacts", "memory">>

\* What the policies of the roles leave out; every other role has everything.
SectionsOf(roleType) ==
  Seqs!ToSet(AllSections) \
    CASE roleType = "researcher" -> {"artifacts", "contracts"}
      [] roleType = "direct" -> {"dependencies", "artifacts", "contracts", "impacts"}
      [] OTHER -> {}

\* The sections that fit, in their order; one that does not is dropped, and
\* smaller ones after it may still fit.
Bounded(sections, size, maxBytes) ==
  Seqs!FoldLeft(LAMBDA kept, s :
             IF s \in sections /\ kept.bytes + size[s] <= maxBytes
             THEN [sections |-> kept.sections \cup {s}, bytes |-> kept.bytes + size[s]]
             ELSE kept,
           [sections |-> {}, bytes |-> 0], AllSections)

\* Sections with a source older than the policy allows.
StaleSections(roleType, aged) == SectionsOf(roleType) \cap aged

\* compile() throws if this does not hold.
Fresh(roleType, policy, aged) ==
  policy.reject_stale_sources => StaleSections(roleType, aged) = {}

Packet(roleType, policy, size, aged) ==
  LET kept == Bounded(SectionsOf(roleType), size, policy.max_bytes) IN
  [sections |-> kept.sections,
   dropped |-> SectionsOf(roleType) \ kept.sections,
   stale |-> StaleSections(roleType, aged),
   tokens |-> (kept.bytes + 3) \div 4]

\* ContextRuntime.verify: what is not about digests and timestamps.
PacketVerifies(packet, policy) ==
  /\ 4 * packet.tokens <= policy.max_bytes + 3
  /\ policy.reject_stale_sources => packet.stale = {}
===============================================================================

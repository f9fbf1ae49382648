----------------------------- MODULE HostProofs -----------------------------
(***************************************************************************)
(* For any number of clients, hooks and runs and any failures, the guard   *)
(* of a project names every open run that is no orphan, so that there is   *)
(* at most one; and for any number of hosts, requests and workers,         *)
(* whatever dies, what the bridge answers is true. The two components      *)
(* share nothing: the names of the second begin with Host where the first  *)
(* has them too.                                                           *)
(***************************************************************************)
EXTENDS ActiveRun, HostBridge, TLAPS

-----------------------------------------------------------------------------
(* The guard of the active run *)

\* The ids of runs that are being started are not shared.
OwnIds ==
  \A p \in Procs : pc[p] \in Starting =>
    \A q \in Procs \ {p} : pc[q] \in Starting => mine[q] # mine[p]

\* What a process knows of its run: nobody else touches a run before it is
\* created, a start that is undone has not created one, and only a run that is
\* over is cleared.  A hook that is to pay has decided by a run that was open; if
\* that run was not named when it asked for it, it is not open any more.
ProcInv(p) ==
  /\ pc[p] = "set" => active # mine[p] /\ run[mine[p]] = "none"
  /\ pc[p] = "create" => active = mine[p] /\ run[mine[p]] \in {"none", "dir"}
  /\ pc[p] = "advance" => active = mine[p] /\ run[mine[p]] = "active"
  /\ pc[p] = "undo" => run[mine[p]] \in {"dir", "orphan"} \cup Over
  /\ pc[p] = "clear" => run[mine[p]] \in Over
  /\ pc[p] \in {"hook", "look"} => run[mine[p]] # "none" \/ active = mine[p]
  /\ pc[p] = "unset" => run[mine[p]] \in Over
  /\ pc[p] \in Paying =>
       decided[p] \in Runs /\ run[decided[p]] \in Open \cup Over \cup {"orphan"}
  /\ pc[p] \in Paying \ {"ask"} /\ mine[p] # decided[p] =>
       run[decided[p]] \in Over \cup {"orphan"}

IInv ==
  /\ TypeOK /\ OwnIds /\ OpenRunHoldsGuard
  /\ \A p \in Procs : ProcInv(p)

\* A new project satisfies the invariant.
LEMMA Initially == Init => IInv
  BY GuardAssumption DEF Init, IInv, TypeOK, OwnIds, OpenRunHoldsGuard, ProcInv, Procs,
    Statuses, Steps, Starting, Paying, Open

\* Every step preserves the invariant.
LEMMA GuardStep ==
  ASSUME IInv, [Next]_vars
  PROVE  IInv'
<1>. USE GuardAssumption DEF IInv, TypeOK, OwnIds, OpenRunHoldsGuard, ProcInv,
  Procs, Statuses, Steps, Starting, Paying, Open, Over, Goto, Move, Work, Return, Becomes, Fault
<1>1. ASSUME NEW p \in Clients, Check(p) PROVE IInv'
  <2>1. TypeOK'
    BY <1>1 DEF Check
  <2>2. OwnIds'
    BY <1>1 DEF Check
  <2>3. OpenRunHoldsGuard'
    BY <1>1 DEF Check
  <2>4. \A q \in Procs : ProcInv(q)'
    BY <1>1 DEF Check
  <2>. QED
    BY <2>1, <2>2, <2>3, <2>4
<1>2. ASSUME NEW p \in Procs, SetActive(p) PROVE IInv'
  <2>1. TypeOK'
    BY <1>2 DEF SetActive
  <2>2. OwnIds'
    BY <1>2 DEF SetActive
  <2>3. OpenRunHoldsGuard'
    BY <1>2 DEF SetActive
  <2>4. \A q \in Procs : ProcInv(q)'
    BY <1>2 DEF SetActive
  <2>. QED
    BY <2>1, <2>2, <2>3, <2>4
<1>3. ASSUME NEW p \in Procs, Create(p) PROVE IInv'
  <2>1. TypeOK'
    BY <1>3 DEF Create
  <2>2. OwnIds'
    BY <1>3 DEF Create
  <2>3. OpenRunHoldsGuard'
    BY <1>3 DEF Create
  <2>4. \A q \in Procs : ProcInv(q)'
    BY <1>3 DEF Create
  <2>. QED
    BY <2>1, <2>2, <2>3, <2>4
<1>4. ASSUME NEW p \in Procs, CreateFails(p) PROVE IInv'
  <2>1. TypeOK'
    BY <1>4 DEF CreateFails
  <2>2. OwnIds'
    BY <1>4 DEF CreateFails
  <2>3. OpenRunHoldsGuard'
    BY <1>4 DEF CreateFails
  <2>4. \A q \in Procs : ProcInv(q)'
    BY <1>4 DEF CreateFails
  <2>. QED
    BY <2>1, <2>2, <2>3, <2>4
<1>5. ASSUME NEW p \in Procs, Advance(p) PROVE IInv'
  <2>1. TypeOK'
    BY <1>5 DEF Advance
  <2>2. OwnIds'
    BY <1>5 DEF Advance
  <2>3. OpenRunHoldsGuard'
    BY <1>5 DEF Advance
  <2>4. \A q \in Procs : ProcInv(q)'
    BY <1>5 DEF Advance
  <2>. QED
    BY <2>1, <2>2, <2>3, <2>4
<1>6. ASSUME NEW p \in Procs, Clear(p) PROVE IInv'
  <2>1. TypeOK'
    BY <1>6 DEF Clear
  <2>2. OwnIds'
    BY <1>6 DEF Clear
  <2>3. OpenRunHoldsGuard'
    BY <1>6 DEF Clear
  <2>4. \A q \in Procs : ProcInv(q)'
    BY <1>6 DEF Clear
  <2>. QED
    BY <2>1, <2>2, <2>3, <2>4
<1>7. ASSUME NEW p \in Clients, NEW r \in Runs, Finish(p, r) PROVE IInv'
  <2>1. TypeOK'
    BY <1>7 DEF Finish, Known
  <2>2. OwnIds'
    BY <1>7 DEF Finish, Known
  <2>3. OpenRunHoldsGuard'
    BY <1>7 DEF Finish, Known
  <2>4. \A q \in Procs : ProcInv(q)'
    BY <1>7 DEF Finish, Known
  <2>. QED
    BY <2>1, <2>2, <2>3, <2>4
<1>8. ASSUME NEW p \in Clients, NEW r \in Runs, Abort(p, r) PROVE IInv'
  <2>1. TypeOK'
    BY <1>8 DEF Abort, Known
  <2>2. OwnIds'
    BY <1>8 DEF Abort, Known
  <2>3. OpenRunHoldsGuard'
    BY <1>8 DEF Abort, Known
  <2>4. \A q \in Procs : ProcInv(q)'
    BY <1>8 DEF Abort, Known
  <2>. QED
    BY <2>1, <2>2, <2>3, <2>4
<1>9. ASSUME NEW p \in Hooks, HookReads(p) PROVE IInv'
  <2>1. TypeOK'
    BY <1>9 DEF HookReads
  <2>2. OwnIds'
    BY <1>9 DEF HookReads
  <2>3. OpenRunHoldsGuard'
    BY <1>9 DEF HookReads
  <2>4. \A q \in Procs : ProcInv(q)'
    BY <1>9 DEF HookReads
  <2>. QED
    BY <2>1, <2>2, <2>3, <2>4
<1>10. ASSUME NEW p \in Procs, HookLooks(p) PROVE IInv'
  <2>1. TypeOK'
    BY <1>10 DEF HookLooks, Readable, MakesDirectory
  <2>2. OwnIds'
    BY <1>10 DEF HookLooks, Readable, MakesDirectory
  <2>3. OpenRunHoldsGuard'
    BY <1>10 DEF HookLooks, Readable, MakesDirectory
  <2>4. \A q \in Procs : ProcInv(q)'
    BY <1>10 DEF HookLooks, Readable, MakesDirectory
  <2>. QED
    BY <2>1, <2>2, <2>3, <2>4
<1>11. ASSUME NEW p \in Procs, Crash(p) PROVE IInv'
  <2>1. TypeOK'
    BY <1>11 DEF Crash
  <2>2. OwnIds'
    BY <1>11 DEF Crash
  <2>3. OpenRunHoldsGuard'
    BY <1>11 DEF Crash
  <2>4. \A q \in Procs : ProcInv(q)'
    BY <1>11 DEF Crash
  <2>. QED
    BY <2>1, <2>2, <2>3, <2>4
<1>12. ASSUME NEW r \in Runs, Stop(r) PROVE IInv'
  BY <1>12 DEF Stop, Known
<1>13. CASE UNCHANGED vars
  BY <1>13 DEF vars
<1>14. ASSUME NEW p \in Clients, AdvanceFails(p) PROVE IInv'
  <2>1. TypeOK'
    BY <1>14 DEF AdvanceFails
  <2>2. OwnIds'
    BY <1>14 DEF AdvanceFails
  <2>3. OpenRunHoldsGuard'
    BY <1>14 DEF AdvanceFails
  <2>4. \A q \in Procs : ProcInv(q)'
    BY <1>14 DEF AdvanceFails
  <2>. QED
    BY <2>1, <2>2, <2>3, <2>4
<1>15. ASSUME NEW p \in Procs, HookAsks(p) PROVE IInv'
  <2>1. TypeOK'
    BY <1>15 DEF HookAsks
  <2>2. OwnIds'
    BY <1>15 DEF HookAsks
  <2>3. OpenRunHoldsGuard'
    BY <1>15 DEF HookAsks
  <2>4. \A q \in Procs : ProcInv(q)'
    BY <1>15 DEF HookAsks
  <2>. QED
    BY <2>1, <2>2, <2>3, <2>4
<1>16. ASSUME NEW p \in Procs, HookLooksAgain(p) PROVE IInv'
  <2>1. TypeOK'
    BY <1>16 DEF HookLooksAgain, Readable, MakesDirectory
  <2>2. OwnIds'
    BY <1>16 DEF HookLooksAgain, Readable, MakesDirectory
  <2>3. OpenRunHoldsGuard'
    BY <1>16 DEF HookLooksAgain, Readable, MakesDirectory
  <2>4. \A q \in Procs : ProcInv(q)'
    BY <1>16 DEF HookLooksAgain, Readable, MakesDirectory
  <2>. QED
    BY <2>1, <2>2, <2>3, <2>4
<1>17. ASSUME NEW p \in Procs, HookUnsets(p) PROVE IInv'
  <2>1. TypeOK'
    BY <1>17 DEF HookUnsets
  <2>2. OwnIds'
    BY <1>17 DEF HookUnsets
  <2>3. OpenRunHoldsGuard'
    BY <1>17 DEF HookUnsets
  <2>4. \A q \in Procs : ProcInv(q)'
    BY <1>17 DEF HookUnsets
  <2>. QED
    BY <2>1, <2>2, <2>3, <2>4
<1>18. ASSUME NEW p \in Procs, HookReserves(p) PROVE IInv'
  <2>1. TypeOK'
    BY <1>18 DEF HookReserves, Known
  <2>2. OwnIds'
    BY <1>18 DEF HookReserves, Known
  <2>3. OpenRunHoldsGuard'
    BY <1>18 DEF HookReserves, Known
  <2>4. \A q \in Procs : ProcInv(q)'
    BY <1>18 DEF HookReserves, Known
  <2>. QED
    BY <2>1, <2>2, <2>3, <2>4
<1>19. ASSUME NEW p \in Procs, HookLets(p) PROVE IInv'
  <2>1. TypeOK'
    BY <1>19 DEF HookLets
  <2>2. OwnIds'
    BY <1>19 DEF HookLets
  <2>3. OpenRunHoldsGuard'
    BY <1>19 DEF HookLets
  <2>4. \A q \in Procs : ProcInv(q)'
    BY <1>19 DEF HookLets
  <2>. QED
    BY <2>1, <2>2, <2>3, <2>4
<1>. QED
  BY <1>1, <1>2, <1>3, <1>4, <1>5, <1>6, <1>7, <1>8, <1>9, <1>10, <1>11, <1>12, <1>13, <1>14,
    <1>15, <1>16, <1>17, <1>18, <1>19
    DEF Next, Begin, Continue

\* The invariant holds of every run.
LEMMA Inductive == Spec => []IInv
<1>1. IInv /\ [Next]_vars => IInv'
  BY GuardStep
<1>. QED
  BY <1>1, Initially, PTL DEF Spec

\* The variables keep their types, and whoever is doing something is doing it to
\* a run, whatever fails.
THEOREM TypeCorrect == Spec => []TypeOK
<1>1. IInv => TypeOK
  BY DEF IInv
<1>. QED
  BY <1>1, Inductive, PTL

\* Whatever the starts, the ends, the hooks and the crashes of a project do to
\* its guard, it names every open run that is no orphan.
THEOREM Guarded == Spec => []OpenRunHoldsGuard
<1>1. IInv => OpenRunHoldsGuard
  BY DEF IInv
<1>. QED
  BY <1>1, Inductive, PTL

\* A tool call that is let through was paid by the run it was decided by, unless
\* that run is over, or its start has failed.
THEOREM Paid == Spec => []LetThroughIsPaid
<1>1. IInv => LetThroughIsPaid
  BY DEF IInv, LetThroughIsPaid, ProcInv, Paying, Procs
<1>. QED
  BY <1>1, Inductive, PTL

\* Only one active run per project, orphans not counted.
THEOREM Single == Spec => []OneOpenRun
<1>1. IInv => OneOpenRun
  BY DEF IInv, OpenRunHoldsGuard, OneOpenRun
<1>. QED
  BY <1>1, Inductive, PTL

-----------------------------------------------------------------------------
(* Workers and host bridge *)

(* Workers *)

InvRecord ==
  [pc : {"idle", "running", "aborted", "dispatching", "checking",
         "reading", "aborting", "lost"} \cup Settled,
   via : {"process", "pi", "orca", "opencode", None},
   checks : 0..MaxCheckpoints,
   result : ((Invocation \cup {Elsewhere}) \X {"own", "other"}) \cup {NothingYet}]

\* What an invocation is doing fits what carries it out, and one that has failed
\* in some way can only be rejected or lost: a process has ended, Orca's
\* failures are no faults.
WorkerInv(i) ==
  /\ inv[i].pc = "idle" => i \notin fault /\ child[i] = "none"
  /\ inv[i].pc = "running" => inv[i].via \in {"process", "pi", "opencode"}
  /\ inv[i].pc \in {"dispatching", "checking"} => inv[i].via = "orca"
  /\ inv[i].via = "orca" => i \notin fault
  /\ inv[i].via = "opencode" /\ i \in fault => inv[i].pc \in {"aborting", "rejected", "lost"}
  /\ inv[i].via = "pi" /\ i \in fault => inv[i].pc \in {"rejected", "lost"}
  /\ inv[i].via = "process" /\ i \in fault /\ inv[i].pc = "running" => child[i] = "gone"
  /\ inv[i].pc = "resolved" =>
       /\ inv[i].result = Own(i) /\ i \notin fault
       /\ inv[i].via = "process" => child[i] = "gone"

WInv == WorkersTypeOK /\ \A i \in Invocation : WorkerInv(i)

LEMMA OwnType == \A i \in Invocation : Own(i) \in ((Invocation \cup {Elsewhere}) \X {"own", "other"}) \cup {NothingYet}
  BY DEF Own

\* The records that Begins and Resolve write.
LEMMA TwoFields ==
  ASSUME inv \in [Invocation -> InvRecord], NEW i \in Invocation
  PROVE  /\ \A a, p : Begins(i, a, p) =>
              inv' = [inv EXCEPT ![i] = [pc |-> p, via |-> a, checks |-> inv[i].checks, result |-> inv[i].result]]
         /\ \A r : Resolve(i, r) =>
              inv' = [inv EXCEPT ![i] = [pc |-> "resolved", via |-> inv[i].via, checks |-> inv[i].checks, result |-> r]]
<1>1. inv[i] = [pc |-> inv[i].pc, via |-> inv[i].via, checks |-> inv[i].checks, result |-> inv[i].result]
  BY DEF InvRecord
<1>2. \A a, p : [inv[i] EXCEPT !.via = a, !.pc = p] = [pc |-> p, via |-> a, checks |-> inv[i].checks, result |-> inv[i].result]
  <2>. TAKE a, p
  <2>. DEFINE mid == [inv[i] EXCEPT !.via = a]
  <2>1. mid = [pc |-> inv[i].pc, via |-> a, checks |-> inv[i].checks, result |-> inv[i].result]
    BY <1>1
  <2>2. [mid EXCEPT !.pc = p] = [pc |-> p, via |-> a, checks |-> inv[i].checks, result |-> inv[i].result]
    <3>. HIDE DEF mid
    <3>. QED
      BY <2>1
  <2>. QED
    BY <2>2
<1>3. \A r : [inv[i] EXCEPT !.pc = "resolved", !.result = r] = [pc |-> "resolved", via |-> inv[i].via, checks |-> inv[i].checks, result |-> r]
  <2>. TAKE r
  <2>. DEFINE mid == [inv[i] EXCEPT !.pc = "resolved"]
  <2>1. mid = [pc |-> "resolved", via |-> inv[i].via, checks |-> inv[i].checks, result |-> inv[i].result]
    BY <1>1
  <2>2. [mid EXCEPT !.result = r] = [pc |-> "resolved", via |-> inv[i].via, checks |-> inv[i].checks, result |-> r]
    <3>. HIDE DEF mid
    <3>. QED
      BY <2>1
  <2>. QED
    BY <2>2
<1>. QED
  BY <1>2, <1>3 DEF Begins, Resolve

LEMMA WorkerSteps ==
  ASSUME WInv, NEW i \in Invocation, Invoke(i) \/ AdapterStep(i) \/ ChildStep(i)
  PROVE  WInv'
<1>. USE WorkersAssumption, OwnType DEF WInv, WorkersTypeOK, WorkerInv, At, Goes, ChildIs, Uses, Resolve, Reject, Blame,
  Sigkill, Sigterm, Settled, Own
<1>1. CASE Invoke(i)
  <2>1. PICK p \in {"running", "dispatching", "rejected"}, a \in {"process", "pi", "orca", "opencode"} :
          /\ Begins(i, a, p)
          /\ p = "running" => a \in {"process", "pi", "opencode"}
          /\ p = "dispatching" => a = "orca"
    BY <1>1 DEF Invoke, SpawnProcess, SpawnPi, CreateSession, Admit, Refuse
  <2>2. child' \in [Invocation -> {"none", "alive", "gone"}] /\ \A j \in Invocation \ {i} : child'[j] = child[j]
    BY <1>1 DEF Invoke, SpawnProcess, SpawnPi, CreateSession, Admit, Refuse
  <2>3. UNCHANGED <<mail, fault>> /\ i \notin fault
    BY <1>1 DEF Invoke
  <2>4. WorkersTypeOK'
    <3>1. inv \in [Invocation -> InvRecord]
      BY DEF InvRecord
    <3>2. [pc |-> p, via |-> a, checks |-> inv[i].checks, result |-> inv[i].result] \in InvRecord
      BY <3>1, <2>1 DEF InvRecord
    <3>3. inv' = [inv EXCEPT ![i] = [pc |-> p, via |-> a, checks |-> inv[i].checks, result |-> inv[i].result]]
      <4>1. Begins(i, a, p)
        BY <2>1
      <4>2. \A b, q : Begins(i, b, q) =>
              inv' = [inv EXCEPT ![i] = [pc |-> q, via |-> b, checks |-> inv[i].checks, result |-> inv[i].result]]
        BY <3>1, TwoFields
      <4>. QED
        BY <4>1, <4>2
    <3>4. inv' \in [Invocation -> InvRecord]
      BY <3>1, <3>2, <3>3
    <3>. QED
      BY <3>4, <2>2, <2>3 DEF InvRecord
  <2>5. \A j \in Invocation : WorkerInv(j)'
    BY <2>1, <2>2, <2>3 DEF Begins
  <2>. QED
    BY <2>4, <2>5
<1>2. CASE Exit(i)
  <2>1. WorkersTypeOK'
    BY <1>2 DEF Exit
  <2>2. \A j \in Invocation : WorkerInv(j)'
    BY <1>2 DEF Exit
  <2>. QED
    BY <2>1, <2>2
<1>3. CASE Overflow(i)
  <2>1. WorkersTypeOK'
    BY <1>3 DEF Overflow, TerminateProcess, FinishPi, RequestFails
  <2>2. \A j \in Invocation : WorkerInv(j)'
    BY <1>3 DEF Overflow, TerminateProcess, FinishPi, RequestFails
  <2>. QED
    BY <2>1, <2>2
<1>4. CASE TimesOut(i)
  <2>1. WorkersTypeOK'
    BY <1>4 DEF TimesOut, TerminateProcess, FinishPi, RequestFails
  <2>2. \A j \in Invocation : WorkerInv(j)'
    BY <1>4 DEF TimesOut, TerminateProcess, FinishPi, RequestFails
  <2>. QED
    BY <2>1, <2>2
<1>5. CASE ProcessCloses(i)
  <2>1. WorkersTypeOK'
    BY <1>5 DEF ProcessCloses
  <2>2. \A j \in Invocation : WorkerInv(j)'
    BY <1>5 DEF ProcessCloses
  <2>. QED
    BY <2>1, <2>2
<1>6. CASE PiCloses(i)
  <2>1. WorkersTypeOK'
    BY <1>6 DEF PiCloses
  <2>2. \A j \in Invocation : WorkerInv(j)'
    BY <1>6 DEF PiCloses
  <2>. QED
    BY <2>1, <2>2
<1>7. CASE Line(i)
  <2>1. WorkersTypeOK'
    BY <1>7 DEF Line
  <2>2. \A j \in Invocation : WorkerInv(j)'
    BY <1>7 DEF Line
  <2>. QED
    BY <2>1, <2>2
<1>8. CASE Dispatch(i)
  <2>1. WorkersTypeOK'
    BY <1>8 DEF Dispatch
  <2>2. \A j \in Invocation : WorkerInv(j)'
    BY <1>8 DEF Dispatch
  <2>. QED
    BY <2>1, <2>2
<1>9. CASE Says(i)
  <2>1. WorkersTypeOK'
    BY <1>9 DEF Says, Message, Foreign
  <2>2. \A j \in Invocation : WorkerInv(j)'
    BY <1>9 DEF Says, Message, Foreign
  <2>. QED
    BY <2>1, <2>2
<1>10. CASE CheckMail(i)
  <2>1. At(i, "checking") /\ UNCHANGED <<child, mail, fault>> /\ i \notin fault /\ inv[i].via = "orca"
    BY <1>10 DEF CheckMail
  <2>2. Reject(i) \/ Resolve(i, Own(i)) \/ CheckAgain(i)
    <3>. HIDE DEF Own, Reject, Resolve
    <3>1. ASSUME NEW batch \in SUBSET mail, Takes(i, Matching(i, batch))
          PROVE  Reject(i) \/ Resolve(i, Own(i)) \/ CheckAgain(i)
      <4>1. ASSUME NEW m \in Matching(i, batch), NEW r \in Report(i, m), r # NothingYet
            PROVE  r = Own(i)
        BY <4>1 DEF Matching, Report, Own
      <4>2. \A m \in Matching(i, batch) : <<m.task, m.dispatch>> = Own(i)
        BY DEF Matching, Own
      <4>3. \A t : OfType(Matching(i, batch), t) \subseteq Matching(i, batch)
        BY DEF OfType
      <4>. QED
        BY <3>1, <4>1, <4>2, <4>3, Zenon DEF Takes, GiveUpChecking
    <3>. QED
      BY <1>10, <3>1 DEF CheckMail, GiveUpChecking
  <2>3. CASE Reject(i)
    <3>1. WorkersTypeOK'
      BY <2>1, <2>3
    <3>2. \A j \in Invocation : WorkerInv(j)'
      BY <2>1, <2>3
    <3>. QED
      BY <3>1, <3>2
  <2>4. CASE Resolve(i, Own(i))
    <3>0. inv \in [Invocation -> InvRecord]
      BY DEF InvRecord
    <3>a. [pc |-> "resolved", via |-> inv[i].via, checks |-> inv[i].checks, result |-> Own(i)] \in InvRecord
      BY <3>0 DEF InvRecord
    <3>b. inv' = [inv EXCEPT ![i] = [pc |-> "resolved", via |-> inv[i].via, checks |-> inv[i].checks, result |-> Own(i)]]
      BY <3>0, <2>4, TwoFields
    <3>c. inv' \in [Invocation -> InvRecord]
      BY <3>0, <3>a, <3>b
    <3>1. WorkersTypeOK'
      BY <2>1, <3>c DEF InvRecord
    <3>2. \A j \in Invocation : WorkerInv(j)'
      BY <2>1, <2>4
    <3>. QED
      BY <3>1, <3>2
  <2>5. CASE CheckAgain(i)
    <3>1. inv[i].checks + 1 \in 0..MaxCheckpoints
      BY <2>5 DEF CheckAgain
    <3>2. WorkersTypeOK'
      BY <2>1, <2>5, <3>1 DEF CheckAgain
    <3>3. \A j \in Invocation : WorkerInv(j)'
      BY <2>1, <2>5, <3>1 DEF CheckAgain
    <3>. QED
      BY <3>2, <3>3
  <2>. QED
    BY <2>2, <2>3, <2>4, <2>5
<1>11. CASE Reply(i)
  <2>1. WorkersTypeOK'
    BY <1>11 DEF Reply
  <2>2. \A j \in Invocation : WorkerInv(j)'
    BY <1>11 DEF Reply
  <2>. QED
    BY <2>1, <2>2
<1>12. CASE AbortSession(i)
  <2>1. WorkersTypeOK'
    BY <1>12 DEF AbortSession
  <2>2. \A j \in Invocation : WorkerInv(j)'
    BY <1>12 DEF AbortSession
  <2>. QED
    BY <2>1, <2>2
<1>. QED
  BY <1>1, <1>2, <1>3, <1>4, <1>5, <1>6, <1>7, <1>8, <1>9, <1>10, <1>11, <1>12 DEF AdapterStep, ChildStep

-----------------------------------------------------------------------------
(* The bridge *)

RunStatus == {"none", "active", "waiting_approval"} \cup Terminal
RunRecord == [status : RunStatus, rev : 0..MaxRevision]
Place == {"idle", "sent", "revision", "accepted", "deciding", "executing", "done", "logged", "over"}
Allowance == {"no", "allow", "deny", "require_approval"}
RequestRecord == [pc : Place, ask : Ask \cup {Nothing}, nodes : SUBSET Invocation, allow : Allowance]
ClientState == {"idle", "waiting", "ok", "refused", "failed", "tool_runs", "tool_blocked"}

BridgeTypeOK ==
  /\ runs \in [Run -> RunRecord]
  /\ req \in [Request -> RequestRecord]
  /\ client \in [Request -> ClientState]
  /\ known \in [Host -> Run \cup {WithoutRun}]
  /\ log \subseteq Request /\ did \subseteq Request
  /\ down \subseteq Host /\ decisions \in 0..MaxDecisions
  /\ before \in [Request -> RunStatus]

\* How far a request is says what has been done and recorded of it.  A tool that
\* was allowed is one that may run, and the run it was asked for in was not over.
RequestInv(c) ==
  /\ req[c].pc = "idle" => client[c] = "idle" /\ req[c].allow = "no" /\ Of(c) = Nothing
  /\ Of(c).run \in Run \cup {WithoutRun}
  /\ req[c].pc \notin {"idle", "over"} => Of(c) \in Ask
  /\ req[c].pc \in {"revision", "accepted", "executing"} => ~IsTool(Of(c))
  /\ req[c].pc = "revision" => Of(c).run # WithoutRun
  /\ req[c].pc = "deciding" => IsTool(Of(c))
  /\ c \in did => req[c].pc \in {"executing", "done", "logged", "over"}
  /\ c \in log => req[c].pc \in {"logged", "over"}
  /\ req[c].pc \in {"executing", "done"} => c \in did
  /\ req[c].pc = "logged" => c \in did \cap log
  /\ client[c] = "ok" => c \in did \cap log
  /\ client[c] = "refused" => c \notin did \cup log /\ req[c].pc = "over"
  /\ req[c].allow = "allow" /\ Of(c).what # "read" =>
       Of(c).what = "mutate" /\ Isolated /\ (Of(c).run # WithoutRun => before[c] \notin Terminal)
  /\ (IsTool(Of(c)) /\ Of(c).run # WithoutRun /\ before[c] \in Terminal) => runs[Of(c).run].status \in Terminal
  /\ client[c] = "tool_runs" =>
       IsTool(Of(c)) /\ (Of(c).run # WithoutRun => c \in log /\ req[c].allow = "allow")

BInv == BridgeTypeOK /\ \A c \in Request : RequestInv(c)

LEMMA Ranges ==
  /\ WithoutRun \notin Run /\ KnownRun \notin Run /\ KnownRun # WithoutRun
  /\ Nothing.run = WithoutRun /\ Nothing.what \notin Tools
  BY HostBridgeAssumption DEF WithoutRun, Run, KnownRun, Nothing, Tools, None

\* What a step of a request, an answer and a change of a run are, field by field.
LEMMA StepFields ==
  ASSUME req \in [Request -> RequestRecord], NEW c \in Request, NEW p \in Place, Step(c, p)
  PROVE  /\ req' \in [Request -> RequestRecord]
         /\ req'[c].pc = p /\ req'[c].ask = req[c].ask /\ req'[c].allow = req[c].allow
         /\ \A q \in Request \ {c} : req'[q] = req[q]
  BY DEF Step, RequestRecord

LEMMA TellFields ==
  ASSUME client \in [Request -> ClientState], NEW c \in Request, NEW w \in ClientState, Tell(c, w)
  PROVE  /\ client' \in [Request -> ClientState]
         /\ client'[c] = IF client[c] = "waiting" THEN w ELSE client[c]
         /\ \A q \in Request \ {c} : client'[q] = client[q]
  BY DEF Tell

LEMMA ChangesFields ==
  ASSUME runs \in [Run -> RunRecord], NEW r \in Run, NEW s \in RunStatus, Changes(r, s)
  PROVE  /\ runs' \in [Run -> RunRecord] /\ runs'[r].status = s
         /\ \A q \in Run \ {r} : runs'[q] = runs[q]
<1>1. MaxRevision \in Nat
  BY HostBridgeAssumption
<1>2. runs[r].rev \in 0..MaxRevision
  BY DEF RunRecord
<1>. DEFINE n == IF runs[r].rev < MaxRevision THEN runs[r].rev + 1 ELSE runs[r].rev
<1>3. n \in 0..MaxRevision
  BY <1>1, <1>2
<1>4. runs' = [runs EXCEPT ![r].status = s, ![r].rev = n]
  BY DEF Changes, RunRecord
<1>. HIDE DEF n
<1>. QED
  BY <1>3, <1>4 DEF RunRecord

\* A step of one request, which leaves the others alone and no run again open.
LEMMA OneRequest ==
  ASSUME BInv, NEW c \in Request, BridgeTypeOK',
         \A q \in Request \ {c} :
            /\ req'[q] = req[q] /\ client'[q] = client[q] /\ before'[q] = before[q]
            /\ (q \in did' <=> q \in did) /\ (q \in log' <=> q \in log),
         \A r \in Run : runs[r].status \in Terminal => runs'[r].status \in Terminal,
         RequestInv(c)'
  PROVE  BInv'
<1>1. ASSUME NEW q \in Request, q # c PROVE RequestInv(q)'
  <2>1. RequestInv(q) /\ (q \in did' <=> q \in did) /\ (q \in log' <=> q \in log)
        /\ req'[q] = req[q] /\ client'[q] = client[q] /\ before'[q] = before[q]
    BY <1>1 DEF BInv
  <2>2. (IsTool(Of(q)) /\ Of(q).run # WithoutRun) => Of(q).run \in Run
    <3>1. req[q].ask \in Ask \cup {Nothing}
      BY DEF BInv, BridgeTypeOK, RequestRecord
    <3>. QED
      BY <2>1, <3>1, Ranges DEF RequestInv, IsTool, Of
  <2>3. Of(q)' = Of(q) /\ IsTool(Of(q))' = IsTool(Of(q))
    BY <2>1 DEF Of, IsTool
  <2>4. (IsTool(Of(q)) /\ Of(q).run # WithoutRun /\ before[q] \in Terminal) => runs'[Of(q).run].status \in Terminal
    BY <2>1, <2>2 DEF RequestInv
  <2>. QED
    BY <2>1, <2>3, <2>4 DEF RequestInv
<1>. QED
  BY <1>1 DEF BInv

LEMMA RequestSteps ==
  ASSUME BInv, NEW c \in Request, AskBridge(c) \/ GiveUp(c) \/ BridgeStep(c)
  PROVE  BInv'
<1>1. BridgeTypeOK /\ RequestInv(c) /\ req \in [Request -> RequestRecord] /\ client \in [Request -> ClientState]
  BY DEF BInv, BridgeTypeOK
<1>2. req[c] \in RequestRecord /\ Of(c) \in Ask \cup {Nothing}
  BY <1>1 DEF RequestRecord, Of
<1>3. \A p \in Place : Step(c, p) =>
         /\ req' \in [Request -> RequestRecord]
         /\ req'[c].pc = p /\ req'[c].ask = req[c].ask /\ req'[c].allow = req[c].allow
         /\ \A q \in Request \ {c} : req'[q] = req[q]
  BY <1>1, StepFields
<1>4. \A w \in ClientState : Tell(c, w) =>
         /\ client' \in [Request -> ClientState]
         /\ client'[c] = IF client[c] = "waiting" THEN w ELSE client[c]
         /\ \A q \in Request \ {c} : client'[q] = client[q]
  BY <1>1, TellFields
<1>5. \A w \in {"refused", "failed"} : Ends(c, w) =>
         /\ req' \in [Request -> RequestRecord]
         /\ req'[c].pc = "over" /\ req'[c].ask = req[c].ask /\ req'[c].allow = req[c].allow
         /\ \A q \in Request \ {c} : req'[q] = req[q]
         /\ client' \in [Request -> ClientState]
         /\ client'[c] = IF client[c] = "waiting" THEN IF IsTool(Of(c)) THEN "tool_blocked" ELSE w ELSE client[c]
         /\ \A q \in Request \ {c} : client'[q] = client[q]
  <2>1. "over" \in Place /\ {"tool_blocked", "refused", "failed"} \subseteq ClientState
    BY DEF Place, ClientState
  <2>. QED
    BY <1>3, <1>4, <2>1 DEF Ends, Blocked
<1>7. CASE GiveUp(c)
  <2>1. /\ BridgeTypeOK' /\ UNCHANGED runs
        /\ \A q \in Request \ {c} : req'[q] = req[q] /\ client'[q] = client[q] /\ before'[q] = before[q]
    BY <1>7, <1>1, <1>3, <1>4, <1>5 DEF GiveUp, Blocked, BridgeTypeOK, Place, ClientState
  <2>2. \A q \in Request \ {c} : (q \in did' <=> q \in did) /\ (q \in log' <=> q \in log)
    BY <1>7 DEF GiveUp, Blocked
  <2>3. RequestInv(c)'
    BY <1>7, <1>1, <1>2, <1>3, <1>4, <1>5 DEF GiveUp, Blocked, RequestInv, Serves, Of, IsTool, Blocked, Place, ClientState
  <2>. QED
    BY <2>1, <2>2, <2>3, OneRequest
<1>8. CASE Receive(c)
  <2>1. /\ BridgeTypeOK' /\ UNCHANGED runs
        /\ \A q \in Request \ {c} : req'[q] = req[q] /\ client'[q] = client[q] /\ before'[q] = before[q]
    BY <1>8, <1>1, <1>3, <1>4, <1>5 DEF Receive, BridgeTypeOK, Place, ClientState
  <2>2. \A q \in Request \ {c} : (q \in did' <=> q \in did) /\ (q \in log' <=> q \in log)
    BY <1>8 DEF Receive
  <2>3. RequestInv(c)'
    BY <1>8, <1>1, <1>2, <1>3, <1>4, <1>5 DEF Receive, RequestInv, Serves, Of, IsTool, Blocked, Place, ClientState
  <2>. QED
    BY <2>1, <2>2, <2>3, OneRequest
<1>9. CASE RequireRevision(c)
  <2>1. /\ BridgeTypeOK' /\ UNCHANGED runs
        /\ \A q \in Request \ {c} : req'[q] = req[q] /\ client'[q] = client[q] /\ before'[q] = before[q]
    BY <1>9, <1>1, <1>3, <1>4, <1>5 DEF RequireRevision, BridgeTypeOK, Place, ClientState
  <2>2. \A q \in Request \ {c} : (q \in did' <=> q \in did) /\ (q \in log' <=> q \in log)
    BY <1>9 DEF RequireRevision
  <2>3. RequestInv(c)'
    BY <1>9, <1>1, <1>2, <1>3, <1>4, <1>5 DEF RequireRevision, RequestInv, Serves, Of, IsTool, Blocked, Place, ClientState
  <2>. QED
    BY <2>1, <2>2, <2>3, OneRequest
<1>10. CASE Returns(c)
  <2>1. /\ BridgeTypeOK' /\ UNCHANGED runs
        /\ \A q \in Request \ {c} : req'[q] = req[q] /\ client'[q] = client[q] /\ before'[q] = before[q]
    BY <1>10, <1>1, <1>3, <1>4, <1>5 DEF Returns, BridgeTypeOK, Place, ClientState
  <2>2. \A q \in Request \ {c} : (q \in did' <=> q \in did) /\ (q \in log' <=> q \in log)
    BY <1>10 DEF Returns
  <2>3. RequestInv(c)'
    BY <1>10, <1>1, <1>2, <1>3, <1>4, <1>5 DEF Returns, RequestInv, Serves, Of, IsTool, Blocked, Place, ClientState
  <2>. QED
    BY <2>1, <2>2, <2>3, OneRequest
<1>11. CASE LogEvent(c)
  <2>1. /\ BridgeTypeOK' /\ UNCHANGED runs
        /\ \A q \in Request \ {c} : req'[q] = req[q] /\ client'[q] = client[q] /\ before'[q] = before[q]
    BY <1>11, <1>1, <1>3, <1>4, <1>5 DEF LogEvent, BridgeTypeOK, Place, ClientState
  <2>2. \A q \in Request \ {c} : (q \in did' <=> q \in did) /\ (q \in log' <=> q \in log)
    BY <1>11 DEF LogEvent
  <2>3. RequestInv(c)'
    BY <1>11, <1>1, <1>2, <1>3, <1>4, <1>5 DEF LogEvent, RequestInv, Serves, Of, IsTool, Blocked, Place, ClientState
  <2>. QED
    BY <2>1, <2>2, <2>3, OneRequest
<1>12. CASE Answer(c)
  <2>1. /\ UNCHANGED <<runs, log, down, decisions, did, before>> /\ Step(c, "over")
        /\ Tell(c, IF ~IsTool(Of(c)) THEN "ok" ELSE IF req[c].allow = "allow" THEN "tool_runs" ELSE "tool_blocked")
        /\ Serves(c, "logged")
    BY <1>12 DEF Answer
  <2>2. known' \in [Host -> Run \cup {WithoutRun}]
    <3>1. Of(c).run \in Run \cup {WithoutRun}
      BY <2>1, <1>1 DEF RequestInv, Serves
    <3>. QED
      BY <1>12, <1>1, <3>1 DEF Answer, Remember, BridgeTypeOK
  <2>3. /\ BridgeTypeOK'
        /\ \A q \in Request \ {c} : req'[q] = req[q] /\ client'[q] = client[q] /\ before'[q] = before[q]
    BY <2>1, <2>2, <1>1, <1>3, <1>4 DEF BridgeTypeOK, Place, ClientState
  <2>4. RequestInv(c)'
    BY <2>1, <1>1, <1>2, <1>3, <1>4 DEF RequestInv, Serves, Of, IsTool, Place, ClientState
  <2>. QED
    BY <2>1, <2>3, <2>4, OneRequest
<1>13. CASE Decide(c)
  <2>1. Policy(Of(c)) \in {"allow", "deny", "require_approval"}
    BY DEF Policy
  <2>2. /\ req' \in [Request -> RequestRecord]
        /\ req'[c].pc = "done" /\ req'[c].ask = req[c].ask /\ req'[c].allow = Policy(Of(c))
        /\ \A q \in Request \ {c} : req'[q] = req[q]
    BY <1>13, <1>1, <2>1 DEF Decide, RequestRecord, Place, Allowance
  <2>3. /\ UNCHANGED <<runs, client, known, log, down, decisions, before>> /\ did' = did \cup {c}
        /\ Serves(c, "deciding")
    BY <1>13 DEF Decide
  <2>4. /\ BridgeTypeOK'
        /\ \A q \in Request \ {c} : req'[q] = req[q] /\ client'[q] = client[q] /\ before'[q] = before[q]
    BY <2>2, <2>3, <1>1 DEF BridgeTypeOK
  <2>5. Policy(Of(c)) = "allow" /\ Of(c).what # "read" =>
          /\ Of(c).what = "mutate" /\ Isolated
          /\ Of(c).run # WithoutRun => before[c] \notin Terminal
    <3>1. IsTool(Of(c)) /\ req[c].pc = "deciding"
      BY <2>3, <1>1 DEF RequestInv, Serves
    <3>2. Policy(Of(c)) = "allow" /\ Of(c).what # "read" =>
            Of(c).what = "mutate" /\ Isolated /\ Status(Of(c).run) \notin Terminal
      BY <3>1 DEF Policy, IsTool, Tools
    <3>. QED
      BY <3>1, <3>2, <1>1 DEF RequestInv, Status
  <2>6. RequestInv(c)'
    BY <2>2, <2>3, <2>5, <1>1 DEF RequestInv, Serves, Of, IsTool
  <2>. QED
    BY <2>2, <2>3, <2>4, <2>6, OneRequest
<1>14. CASE StartNode(c)
  <2>1. PICK i \in Invocation : req' = [req EXCEPT ![c].nodes = req[c].nodes \cup {i}]
    BY <1>14 DEF StartNode
  <2>2. /\ req' \in [Request -> RequestRecord]
        /\ req'[c].pc = req[c].pc /\ req'[c].ask = req[c].ask /\ req'[c].allow = req[c].allow
        /\ \A q \in Request \ {c} : req'[q] = req[q]
    BY <2>1, <1>1 DEF RequestRecord
  <2>3. UNCHANGED <<runs, client, known, log, down, decisions, did, before>>
    BY <1>14 DEF StartNode
  <2>4. BridgeTypeOK'
    BY <2>2, <2>3, <1>1 DEF BridgeTypeOK
  <2>5. RequestInv(c)'
    BY <2>2, <2>3, <1>1 DEF RequestInv, Of, IsTool
  <2>. QED
    BY <2>2, <2>3, <2>4, <2>5, OneRequest
<1>15. CASE NodeEnds(c)
  <2>1. PICK i \in Invocation : req' = [req EXCEPT ![c].nodes = req[c].nodes \ {i}]
    BY <1>15, <1>2 DEF NodeEnds, RequestRecord
  <2>2. /\ req' \in [Request -> RequestRecord]
        /\ req'[c].pc = req[c].pc /\ req'[c].ask = req[c].ask /\ req'[c].allow = req[c].allow
        /\ \A q \in Request \ {c} : req'[q] = req[q]
    BY <2>1, <1>1 DEF RequestRecord
  <2>3. UNCHANGED <<client, known, log, down, decisions, did, before>> /\ req[c].pc = "executing"
    BY <1>15 DEF NodeEnds, Serves
  <2>4. runs' \in [Run -> RunRecord] /\ \A r \in Run : runs[r].status \in Terminal => runs'[r].status \in Terminal
    <3>1. CASE Status(Of(c).run) = "active"
      <4>1. Of(c).run \in Run /\ runs[Of(c).run].status = "active"
        BY <2>3, <3>1, <1>1 DEF RequestInv, Status
      <4>2. PICK s \in RunStatus : Changes(Of(c).run, s)
        BY <1>15, <3>1 DEF NodeEnds, RunStatus, Terminal
      <4>. QED
        BY <4>1, <4>2, <1>1, ChangesFields DEF BridgeTypeOK, Terminal
    <3>2. CASE Status(Of(c).run) # "active"
      BY <1>15, <3>2, <1>1 DEF NodeEnds, BridgeTypeOK
    <3>. QED
      BY <3>1, <3>2
  <2>5. BridgeTypeOK'
    BY <2>2, <2>3, <2>4, <1>1 DEF BridgeTypeOK
  <2>6. RequestInv(c)'
    BY <2>2, <2>3, <1>1 DEF RequestInv, Of, IsTool
  <2>. QED
    BY <2>2, <2>3, <2>4, <2>5, <2>6, OneRequest
<1>16. CASE Carry(c)
  <2>1. UNCHANGED <<known, log, down, decisions, before>> /\ req[c].pc = "accepted" /\ ~IsTool(Of(c))
        /\ Of(c).run \in Run \cup {WithoutRun}
    BY <1>16, <1>1 DEF Carry, Serves, RequestInv
  <2>2. CASE (Ends(c, "refused") \/ Ends(c, "failed")) /\ UNCHANGED <<runs, did>>
    <3>1. BridgeTypeOK' /\ \A q \in Request \ {c} : req'[q] = req[q] /\ client'[q] = client[q]
      BY <2>1, <2>2, <1>1, <1>5 DEF BridgeTypeOK
    <3>2. RequestInv(c)'
      BY <2>1, <2>2, <1>1, <1>2, <1>5 DEF RequestInv, Of, IsTool
    <3>. QED
      BY <2>1, <2>2, <3>1, <3>2, OneRequest
  <2>3. CASE (Starts(c) \/ Continues(c) \/ Decides(c)) /\ did' = did \cup {c} /\ UNCHANGED client
    <3>1. /\ req' \in [Request -> RequestRecord]
          /\ req'[c].pc \in {"executing", "done"} /\ req'[c].allow = req[c].allow
          /\ req'[c].ask \in Ask /\ req'[c].ask.what = Of(c).what /\ req'[c].ask.run \in Run \cup {WithoutRun}
          /\ \A q \in Request \ {c} : req'[q] = req[q]
          /\ runs' \in [Run -> RunRecord] /\ \A r \in Run : runs[r].status \in Terminal => runs'[r].status \in Terminal
      <4>0. Of(c) \in Ask
        BY <2>1, <1>1 DEF RequestInv
      <4>1. CASE Starts(c)
        <5>1. PICK r \in Run :
                /\ runs[r].status = "none" /\ Changes(r, "active")
                /\ req' = [req EXCEPT ![c].ask.run = r, ![c].pc = IF Of(c).what = "run" THEN "executing" ELSE "done"]
          BY <4>1 DEF Starts
        <5>. DEFINE a == [Of(c) EXCEPT !.run = r]
        <5>2. a \in Ask /\ a.what = Of(c).what /\ a.run = r
          BY <4>0 DEF Ask
        <5>3. PICK p \in {"executing", "done"} : p = IF Of(c).what = "run" THEN "executing" ELSE "done"
          OBVIOUS
        <5>4. req' = [req EXCEPT ![c].ask = a, ![c].pc = p]
          BY <5>1, <5>3 DEF Of
        <5>. HIDE DEF a
        <5>5. /\ req' \in [Request -> RequestRecord]
              /\ req'[c].pc = p /\ req'[c].ask = a /\ req'[c].allow = req[c].allow
              /\ \A q \in Request \ {c} : req'[q] = req[q]
          BY <5>2, <5>4, <1>1 DEF RequestRecord, Place
        <5>6. runs' \in [Run -> RunRecord] /\ \A q \in Run : runs[q].status \in Terminal => runs'[q].status \in Terminal
          BY <5>1, <1>1, ChangesFields DEF BridgeTypeOK, RunStatus, Terminal
        <5>. QED
          BY <5>2, <5>5, <5>6
      <4>2. CASE Continues(c)
        <5>1. UNCHANGED runs /\ \E p \in {"executing", "done"} : Step(c, p)
          BY <4>2 DEF Continues
        <5>. QED
          BY <5>1, <4>0, <2>1, <1>1, <1>3 DEF Of, Place, BridgeTypeOK
      <4>3. CASE Decides(c)
        <5>1. PICK s \in RunStatus : Changes(Of(c).run, s) /\ Status(Of(c).run) \notin {"none"} \cup Terminal
          BY <4>3 DEF Decides, RunStatus, Terminal
        <5>2. Of(c).run \in Run /\ runs[Of(c).run].status \notin Terminal /\ Step(c, "done")
          BY <4>3, <5>1, <2>1 DEF Decides, Status
        <5>3. runs' \in [Run -> RunRecord] /\ \A q \in Run : runs[q].status \in Terminal => runs'[q].status \in Terminal
          BY <5>1, <5>2, <1>1, ChangesFields DEF BridgeTypeOK
        <5>. QED
          BY <5>2, <5>3, <4>0, <2>1, <1>1, <1>3 DEF Of, Place
      <4>. QED
        BY <2>3, <4>1, <4>2, <4>3
    <3>2. BridgeTypeOK'
      BY <2>1, <2>3, <3>1, <1>1 DEF BridgeTypeOK
    <3>3. RequestInv(c)'
      BY <2>1, <2>3, <3>1, <1>1 DEF RequestInv, Of, IsTool, Tools
    <3>. QED
      BY <2>1, <2>3, <3>1, <3>2, <3>3, OneRequest
  <2>. QED
    BY <1>16, <2>2, <2>3 DEF Carry
<1>17. CASE AskBridge(c)
  <2>1. PICK a \in Script[c] :
          LET r == IF a.run = KnownRun THEN known[a.host] ELSE a.run
          IN  /\ before' = [before EXCEPT ![c] = IF IsTool(a) THEN Status(r) ELSE before[c]]
              /\ IF IsTool(a) /\ r = WithoutRun
                   THEN /\ client' = [client EXCEPT ![c] = "tool_runs"]
                        /\ req' = [req EXCEPT ![c].ask = [a EXCEPT !.run = r], ![c].pc = "over"]
                   ELSE /\ client' = [client EXCEPT ![c] = IF a.host \in down THEN
                                        IF IsTool(a) THEN "tool_blocked" ELSE "failed" ELSE "waiting"]
                        /\ req' = [req EXCEPT ![c].ask = [a EXCEPT !.run = r],
                                              ![c].pc = IF a.host \in down THEN "over" ELSE "sent"]
    BY <1>17 DEF AskBridge
  <2>. DEFINE r == IF a.run = KnownRun THEN known[a.host] ELSE a.run
              b == [a EXCEPT !.run = r]
              p == IF (IsTool(a) /\ r = WithoutRun) \/ a.host \in down THEN "over" ELSE "sent"
              w == IF IsTool(a) /\ r = WithoutRun THEN "tool_runs"
                   ELSE IF a.host \in down THEN IF IsTool(a) THEN "tool_blocked" ELSE "failed" ELSE "waiting"
  <2>2. a \in Ask
    BY HostBridgeAssumption
  <2>3. r \in Run \cup {WithoutRun}
    BY <2>2, <1>1, Ranges DEF Ask, BridgeTypeOK
  <2>4. b \in Ask /\ b.what = a.what /\ b.run = r
    BY <2>2, <2>3 DEF Ask
  <2>5. p \in {"over", "sent"} /\ w \in {"tool_runs", "tool_blocked", "failed", "waiting"}
        /\ (w = "tool_runs" => IsTool(a) /\ r = WithoutRun)
    OBVIOUS
  <2>6. req' = [req EXCEPT ![c].ask = b, ![c].pc = p] /\ client' = [client EXCEPT ![c] = w]
        /\ before' = [before EXCEPT ![c] = IF IsTool(a) THEN Status(r) ELSE before[c]]
    BY <2>1
  <2>7. UNCHANGED <<runs, known, log, down, decisions, did>> /\ req[c].pc = "idle" /\ client[c] = "idle"
    BY <1>17 DEF AskBridge
  <2>8. Status(r) \in RunStatus /\ (Status(r) \in Terminal /\ r # WithoutRun => runs[r].status \in Terminal)
    BY <2>3, <1>1 DEF Status, BridgeTypeOK, RunRecord, RunStatus
  <2>. HIDE DEF r, b, p, w
  <2>9. /\ req' \in [Request -> RequestRecord]
        /\ req'[c].pc = p /\ req'[c].ask = b /\ req'[c].allow = req[c].allow
        /\ \A q \in Request \ {c} : req'[q] = req[q]
    BY <2>4, <2>5, <2>6, <1>1 DEF RequestRecord, Place
  <2>10. BridgeTypeOK'
         /\ \A q \in Request \ {c} : client'[q] = client[q] /\ before'[q] = before[q]
    BY <2>5, <2>6, <2>7, <2>8, <2>9, <1>1 DEF BridgeTypeOK, ClientState
  <2>11. client'[c] = w /\ before'[c] = IF IsTool(a) THEN Status(r) ELSE before[c]
    BY <2>6, <1>1 DEF BridgeTypeOK
  <2>12. (IsTool(a) /\ r # WithoutRun /\ before'[c] \in Terminal) => runs'[r].status \in Terminal
    BY <2>7, <2>8, <2>11
  <2>13. c \notin did /\ c \notin log /\ req[c].allow = "no"
    BY <2>7, <1>1 DEF RequestInv
  <2>14. RequestInv(c)'
    BY <2>3, <2>4, <2>5, <2>7, <2>9, <2>11, <2>12, <2>13 DEF RequestInv, Of, IsTool
  <2>. QED
    BY <2>7, <2>9, <2>10, <2>14, OneRequest
<1>. QED
  BY <1>7, <1>8, <1>9, <1>10, <1>11, <1>12, <1>13, <1>14, <1>15, <1>16, <1>17 DEF BridgeStep

-----------------------------------------------------------------------------
(* The whole *)

HostIInv == WInv /\ BInv

\* Nothing is asked, nothing runs.
LEMMA HostInitially == HostInit => HostIInv
<1>. SUFFICES ASSUME HostInit PROVE HostIInv
  OBVIOUS
<1>1. WInv
  BY WorkersAssumption DEF HostInit, WorkersInit, WInv, WorkersTypeOK, WorkerInv, Settled
<1>2. BInv
  BY HostBridgeAssumption DEF HostInit, BInv, BridgeTypeOK, RequestInv, RunRecord, RunStatus, RequestRecord, Place,
    Allowance, ClientState, Of, Nothing, Tools, IsTool, WithoutRun, None
<1>. QED
  BY <1>1, <1>2 DEF HostIInv

\* Workers that are left alone stay as they are.
LEMMA WorkersIdle == WInv /\ Unchanged => WInv'
  BY DEF WInv, Unchanged, workerVars, WorkersTypeOK, WorkerInv, Own

LEMMA BridgesIdle == BInv /\ UNCHANGED bridgeVars => BInv'
  BY DEF BInv, bridgeVars, BridgeTypeOK, RequestInv, Of, IsTool

\* The command line never opens a run that is over.
LEMMA OperateKeeps ==
  ASSUME BInv, NEW r \in Run, Operate(r)
  PROVE  BInv'
<1>1. BridgeTypeOK /\ UNCHANGED <<req, client, known, log, down, did, before>>
  BY DEF BInv, Operate
<1>2. PICK s \in RunStatus : Changes(r, s) /\ runs[r].status \notin Terminal
  BY DEF Operate, RunStatus, Terminal
<1>3. runs' \in [Run -> RunRecord] /\ \A q \in Run : runs[q].status \in Terminal => runs'[q].status \in Terminal
  BY <1>1, <1>2, ChangesFields DEF BridgeTypeOK
<1>4. decisions' \in 0..MaxDecisions
  BY <1>1, HostBridgeAssumption DEF Operate, BridgeTypeOK
<1>5. BridgeTypeOK'
  BY <1>1, <1>3, <1>4 DEF BridgeTypeOK
<1>6. ASSUME NEW q \in Request PROVE RequestInv(q)'
  <2>1. RequestInv(q) /\ Of(q) \in Ask \cup {Nothing}
    BY <1>1 DEF BInv, BridgeTypeOK, RequestRecord, Of
  <2>2. IsTool(Of(q)) /\ Of(q).run # WithoutRun => Of(q).run \in Run
    BY <2>1, Ranges DEF RequestInv, IsTool
  <2>. QED
    BY <1>1, <1>3, <2>1, <2>2 DEF RequestInv, Of, IsTool
<1>. QED
  BY <1>5, <1>6 DEF BInv

\* A bridge that dies has told its clients nothing but that it failed.
LEMMA CrashKeeps ==
  ASSUME HostIInv, NEW h \in Host, BridgeDies(h)
  PROVE  HostIInv'
<1>. DEFINE carried == {c \in Request : HostOf(c) = h /\ req[c].pc # "over"}
<1>0. BridgeTypeOK /\ UNCHANGED <<runs, known, log, decisions, did, before, child, mail, fault>>
  BY DEF HostIInv, BInv, BridgeDies
<1>1. /\ req' = [c \in Request |-> IF c \in carried THEN [req[c] EXCEPT !.pc = "over"] ELSE req[c]]
      /\ client' = [c \in Request |-> IF c \in carried /\ client[c] = "waiting" THEN Blocked(c, "failed") ELSE client[c]]
      /\ down' = down \cup {h}
      /\ Lose(UNION {req[c].nodes : c \in carried})
  BY DEF BridgeDies
<1>. DEFINE lost == UNION {req[c].nodes : c \in carried}
<1>2. WInv'
  <2>1. inv' = [i \in Invocation |->
                 IF i \in lost /\ inv[i].pc \notin Settled THEN [inv[i] EXCEPT !.pc = "lost"] ELSE inv[i]]
    BY <1>1 DEF Lose
  <2>. HIDE DEF lost
  <2>2. WInv
    BY DEF HostIInv
  <2>3. WorkersTypeOK'
    BY <1>0, <2>1, <2>2 DEF WInv, WorkersTypeOK, Settled
  <2>4. \A i \in Invocation : WorkerInv(i)'
    BY <1>0, <2>1, <2>2 DEF WInv, WorkersTypeOK, WorkerInv, Settled, Own
  <2>. QED
    BY <2>3, <2>4 DEF WInv
<1>3. BInv'
  <2>. HIDE DEF carried
  <2>1. /\ req' \in [Request -> RequestRecord] /\ client' \in [Request -> ClientState]
        /\ \A c \in Request :
             /\ req'[c].ask = req[c].ask /\ req'[c].allow = req[c].allow
             /\ req'[c].pc \in {req[c].pc, "over"}
             /\ client'[c] \in {client[c], "failed", "tool_blocked"}
    BY <1>0, <1>1 DEF BridgeTypeOK, RequestRecord, Place, ClientState, Blocked
  <2>2. BridgeTypeOK'
    BY <1>0, <1>1, <2>1 DEF BridgeTypeOK
  <2>3. \A c \in Request : req'[c].pc = "idle" => client'[c] = client[c]
    BY <1>0, <1>1, <2>1 DEF BInv, HostIInv, RequestInv, BridgeTypeOK, RequestRecord
  <2>4. \A c \in Request : RequestInv(c)'
    BY <1>0, <2>1, <2>3 DEF HostIInv, BInv, RequestInv, Of, IsTool
  <2>. QED
    BY <2>2, <2>4 DEF BInv
<1>. QED
  BY <1>2, <1>3 DEF HostIInv

\* Every step preserves the invariant.
LEMMA Invariance == HostIInv /\ [HostNext]_hostVars => HostIInv'
<1>. SUFFICES ASSUME HostIInv, [HostNext]_hostVars PROVE HostIInv'
  OBVIOUS
<1>1. WInv /\ BInv
  BY DEF HostIInv
<1>2. CASE \E c \in Request : AskBridge(c) \/ GiveUp(c) \/ BridgeStep(c)
  <2>1. PICK c \in Request : AskBridge(c) \/ GiveUp(c) \/ BridgeStep(c)
    BY <1>2
  <2>2. BInv'
    BY <1>1, <2>1, RequestSteps
  <2>3. Unchanged \/ StartNode(c)
    BY <2>1 DEF AskBridge, GiveUp, BridgeStep, Receive, RequireRevision, Carry, NodeEnds, Returns, Decide, LogEvent, Answer
  <2>4. StartNode(c) => \E i \in Invocation : Invoke(i)
    BY DEF StartNode
  <2>5. WInv'
    BY <1>1, <2>3, <2>4, WorkersIdle, WorkerSteps
  <2>. QED
    BY <2>2, <2>5 DEF HostIInv
<1>3. CASE \E i \in Invocation : (AdapterStep(i) \/ ChildStep(i)) /\ UNCHANGED bridgeVars
  BY <1>1, <1>3, WorkerSteps, BridgesIdle DEF HostIInv
<1>4. CASE \E r \in Run : Operate(r)
  BY <1>1, <1>4, OperateKeeps, WorkersIdle DEF HostIInv, Operate
<1>5. CASE \E h \in Host : BridgeDies(h)
  BY <1>5, CrashKeeps
<1>6. CASE UNCHANGED hostVars
  BY <1>1, <1>6, WorkersIdle, BridgesIdle DEF HostIInv, hostVars, Unchanged
<1>. QED
  BY <1>2, <1>3, <1>4, <1>5, <1>6 DEF HostNext

\* What the workers, the bridges and the plugins keep has its types.
THEOREM HostTypeCorrect == HostSpec => []HostTypeOK
<1>1. HostIInv => HostTypeOK
  BY DEF HostIInv, WInv, BInv, HostTypeOK, BridgeTypeOK, RunRecord, RunStatus, RequestRecord, Place, Allowance, ClientState
<1>. QED
  BY HostInitially, Invariance, <1>1, PTL DEF HostSpec

\* An answer says what has been done and recorded (bridge-server.mjs: carry out,
\* record, answer), whatever else goes on and whoever dies.
THEOREM Answers == HostSpec => []AnswersAreTrue
<1>1. HostIInv => AnswersAreTrue
  BY DEF HostIInv, BInv, RequestInv, AnswersAreTrue
<1>. QED
  BY HostInitially, Invariance, <1>1, PTL DEF HostSpec

\* A tool that writes runs, in a host that knows of a run, only if that run was not
\* over when it was asked for (bridge-server.mjs: defaultToolPolicy).
THEOREM ToolsAreChecked == HostSpec => []ToolsStayInRuns
<1>1. HostIInv => ToolsStayInRuns
  BY DEF HostIInv, BInv, RequestInv, ToolsStayInRuns
<1>. QED
  BY HostInitially, Invariance, <1>1, PTL DEF HostSpec

\* An invocation that resolves has its own result (adapters; the mail of Orca is
\* shared, the other workers have a stream each).
THEOREM Results == HostSpec => []ResultIsOwn
<1>1. HostIInv => ResultIsOwn
  BY DEF HostIInv, WInv, WorkerInv, ResultIsOwn, At
<1>. QED
  BY HostInitially, Invariance, <1>1, PTL DEF HostSpec

=============================================================================

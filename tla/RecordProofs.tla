---------------------------- MODULE RecordProofs ----------------------------
(***************************************************************************)
(* For any number of callers, transactions and faults, what the run store  *)
(* has acknowledged is durable; and for any number of drivers, items,      *)
(* roles and memories, whatever drivers overwrite of each other, the       *)
(* record of the intelligence fabric keeps what its gate lets through. The *)
(* two components share nothing: the names of the second begin with Fabric *)
(* where the first has them too.                                           *)
(***************************************************************************)
EXTENDS RunStore, Intelligence, FiniteSetTheorems, WellFoundedInduction, TLAPS

-----------------------------------------------------------------------------
(* Run store *)

\* A transaction built on a state is one.
LEMMA BuildType ==
  ASSUME NEW s \in State, NEW t \in Tx
  PROVE  BuildTransaction(s, t) \in Transaction
<1>1. Append(s.hist, t) \in Seq(Tx)
  BY DEF State
<1>2. /\ s.seq + 1 \in Nat /\ s.seq + 2 \in Nat
      /\ s.head \in Hash /\ <<t, "op">> \in Hash /\ <<t, "commit">> \in Hash
  BY DEF State, Hash
<1>3. << >> \in Seq(Tx)
  OBVIOUS
<1> QED
  BY <1>1, <1>2, <1>3 DEF BuildTransaction, BuildEvents, Transaction, State, Event

\* The state before any transaction, and the placeholder of buf.
LEMMA BlankType == Blank \in State /\ NoTransaction \in Transaction
<1>1. Blank \in State
  BY DEF Blank, State, ZeroHash, Hash, Tx
<1> QED
  BY <1>1, BuildType DEF NoTransaction, Tx

\* Appending the events of a transaction keeps the event log one.
LEMMA AppendAllType ==
  ASSUME NEW evs \in Seq(Event), NEW t \in Transaction
  PROVE  AppendAll(evs, t.events) \in Seq(Event)
BY DEF AppendAll, Transaction

\* The initial state has the shape TypeOK gives it.
LEMMA InitTypeOK == Init => TypeOK
<1>1. << >> \in Seq(Event) /\ NoTransaction \in Transaction
  BY BlankType
<1> SUFFICES ASSUME Init PROVE TypeOK
  OBVIOUS
<1>2. dir \in BOOLEAN /\ lock \in {"free", "fresh", "stale"}
  BY DEF Init
<1>3. pc \in [Procs -> Steps] /\ op \in [Procs -> Ops]
  BY DEF Init, Steps, Ops
<1>4. buf \in [Procs -> Transaction]
  BY <1>1 DEF Init
<1>5. outcome \in [Procs -> {"pending", "done", "error"}]
  BY DEF Init
<1>6. stateFile = NoFile /\ journal = NoFile /\ events \in Seq(Event)
  BY <1>1 DEF Init
<1>7. nextTx \in Nat /\ acked \subseteq Tx /\ faults \in Nat
  BY DEF Init
<1> QED
  BY <1>2, <1>3, <1>4, <1>5, <1>6, <1>7 DEF TypeOK

\* Every step keeps the shape.
LEMMA StepTypeOK == TypeOK /\ [Next]_vars => TypeOK'
<1> SUFFICES ASSUME TypeOK, [Next]_vars PROVE TypeOK'
  OBVIOUS
<1> USE DEF TypeOK, Goto, Forget, Throw, disk, local, Fault
<1>1. CASE UNCHANGED vars
  BY <1>1 DEF vars
<1>2. CASE Age
  BY <1>2 DEF Age
<1>3. ASSUME NEW p \in Procs, CreateDir(p) PROVE TypeOK'
  BY <1>3 DEF CreateDir, Steps, Creating
<1>4. ASSUME NEW p \in Procs, CreateState(p) PROVE TypeOK'
  <2>1. BuildTransaction(Blank, nextTx) \in Transaction
    BY BuildType, BlankType DEF Tx
  <2> QED
    BY <1>4, <2>1 DEF CreateState, Steps, Creating, Transaction
<1>5. ASSUME NEW p \in Procs, CreateEvents(p) PROVE TypeOK'
  <2>1. buf[p] \in Transaction
    OBVIOUS
  <2>2. AppendAll(events, buf[p].events) \in Seq(Event) /\ buf[p].events[2].tx \in Tx
    BY <2>1, AppendAllType DEF Transaction, Event
  <2> QED
    BY <1>5, <2>2, BlankType DEF CreateEvents, Steps, Ops
<1>6. ASSUME NEW p \in Procs, NEW o \in Ops, Call(p, o) PROVE TypeOK'
  BY <1>6 DEF Call, Steps
<1>7. ASSUME NEW p \in Procs, Acquire(p) \/ SeeStale(p) \/ BreakStale(p) PROVE TypeOK'
  BY <1>7 DEF Acquire, SeeStale, BreakStale, Steps, Holding
<1>8. ASSUME NEW p \in Procs, TimeOut(p) PROVE TypeOK'
  BY <1>8, BlankType DEF TimeOut, Steps, Ops
<1>9. ASSUME NEW p \in Procs, NoJournal(p) \/ ReadJournal(p) PROVE TypeOK'
  BY <1>9 DEF NoJournal, ReadJournal, Steps, Holding
<1>10. ASSUME NEW p \in Procs, Load(p) PROVE TypeOK'
  <2>1. stateFile \in State
    BY <1>10 DEF Load, Readable
  <2>2. [buf[p] EXCEPT !.state = stateFile] \in Transaction
    BY <2>1 DEF Transaction
  <2> QED
    BY <1>10, <2>2 DEF Load, Steps, Holding
<1>11. ASSUME NEW p \in Procs, LoadFails(p) \/ MutatorThrows(p) PROVE TypeOK'
  BY <1>11 DEF LoadFails, MutatorThrows, Steps, Holding
<1>12. ASSUME NEW p \in Procs, Mutate(p) PROVE TypeOK'
  <2>1. BuildTransaction(buf[p].state, nextTx) \in Transaction
    BY BuildType DEF Tx, Transaction
  <2> QED
    BY <1>12, <2>1 DEF Mutate, Steps, Holding
<1>13. ASSUME NEW p \in Procs, AppendEvents(p) PROVE TypeOK'
  BY <1>13, AppendAllType DEF AppendEvents, Steps, Holding
<1>14. ASSUME NEW p \in Procs, WriteState(p) \/ RemoveJournal(p) PROVE TypeOK'
  BY <1>14 DEF WriteState, RemoveJournal, Steps, Holding, Transaction
<1>15. ASSUME NEW p \in Procs, Release(p) PROVE TypeOK'
  <2>1. buf[p].events[2].tx \in Tx
    BY DEF Transaction, Event
  <2> QED
    BY <1>15, <2>1, BlankType DEF Release, Steps, Ops
<1>16. ASSUME NEW p \in Procs, Crash(p) PROVE TypeOK'
  BY <1>16, BlankType DEF Crash, Steps, Ops
<1>17. ASSUME NEW p \in Procs, IoError(p) PROVE TypeOK'
  BY <1>17 DEF IoError, Steps, Holding
<1>18. ASSUME NEW p \in Procs, TornAppend(p) PROVE TypeOK'
  <2>1. Append(events, buf[p].events[1]) \in Seq(Event)
    BY DEF Transaction
  <2> QED
    BY <1>18, <2>1 DEF TornAppend, Steps, Holding
<1> QED
  BY <1>1, <1>2, <1>3, <1>4, <1>5, <1>6, <1>7, <1>8, <1>9, <1>10, <1>11,
     <1>12, <1>13, <1>14, <1>15, <1>16, <1>17, <1>18
     DEF Next, Begin, Step, Fail
\* Every reachable state has the shape TypeOK gives it, whatever fails.
THEOREM TypeCorrect == Spec => []TypeOK
  BY InitTypeOK, StepTypeOK, PTL DEF Spec
-------------------------------------------------------------------------------
(* The event chain *)

Linked(s, evs) ==
  /\ \A i \in 1..Len(evs) :
       /\ evs[i].seq = i
       /\ evs[i].prev = IF i = 1 THEN ZeroHash ELSE EventHash(evs[i - 1])
  /\ s.seq = Len(evs)
  /\ s.head = LastHash(evs)

\* What InspectEventChain says of the log as a whole is what Linked names.
LEMMA InspectLinked ==
  ASSUME NEW s \in State, NEW evs \in Seq(Event), InspectEventChain(s, evs)
  PROVE  Linked(s, evs) /\ evs # << >>
BY DEF InspectEventChain, Linked

\* Appending the two events of a transaction extends a good chain to a good chain.
LEMMA InspectNext ==
  ASSUME NEW s \in State, NEW evs \in Seq(Event), NEW t \in Tx, Linked(s, evs)
  PROVE  InspectEventChain(BuildTransaction(s, t).state,
                           AppendAll(evs, BuildTransaction(s, t).events))
<1> DEFINE new == BuildTransaction(s, t)
           e1 == new.events[1]
           e2 == new.events[2]
           all == AppendAll(evs, new.events)
           n == Len(evs)
<1>0. new \in Transaction /\ e1 \in Event /\ e2 \in Event /\ n \in Nat /\ s.seq = n
  BY BuildType DEF Transaction, Linked
<1>1. /\ e1.seq = n + 1 /\ e1.prev = LastHash(evs) /\ EventHash(e1) = <<t, "op">>
      /\ e2.seq = n + 2 /\ e2.prev = <<t, "op">> /\ EventHash(e2) = <<t, "commit">>
      /\ e2.kind = "commit" /\ e2.digest = new.state.hist
      /\ new.state.seq = n + 2 /\ new.state.head = <<t, "commit">>
  BY DEF BuildTransaction, BuildEvents, Linked, EventHash
<1> HIDE DEF new, e1, e2
<1>2. all = Append(Append(evs, e1), e2)
  BY DEF AppendAll, e1, e2
<1>3. /\ all \in Seq(Event) /\ Len(all) = n + 2
      /\ \A i \in 1..n : all[i] = evs[i]
      /\ all[n + 1] = e1 /\ all[n + 2] = e2
  BY <1>0, <1>2
<1> HIDE DEF all, n
<1>4. LastHash(all) = <<t, "commit">>
  BY <1>0, <1>1, <1>3 DEF LastHash
<1>5. n # 0 => LastHash(evs) = EventHash(evs[n])
  BY DEF LastHash, n
<1>6. n = 0 => LastHash(evs) = ZeroHash
  BY DEF LastHash, n
<1>7. ASSUME NEW i \in 1..Len(all)
      PROVE  /\ all[i].seq = i
             /\ all[i].prev = IF i = 1 THEN ZeroHash ELSE EventHash(all[i - 1])
  <2>1. CASE i \in 1..n
    <3>1. evs[i].seq = i /\ evs[i].prev = IF i = 1 THEN ZeroHash ELSE EventHash(evs[i - 1])
      BY <2>1 DEF Linked, n
    <3>2. i # 1 => i - 1 \in 1..n
      BY <2>1, <1>0
    <3> QED
      BY <2>1, <3>1, <3>2, <1>3
  <2>2. CASE i = n + 1
    <3>1. i # 1 => n \in 1..n /\ n # 0
      BY <2>2, <1>0
    <3>2. i = 1 => n = 0
      BY <2>2, <1>0
    <3>3. all[i] = e1 /\ (i # 1 => i - 1 = n)
      BY <2>2, <1>3, <1>0
    <3> QED
      BY <2>2, <3>1, <3>2, <3>3, <1>1, <1>3, <1>5, <1>6
  <2>3. CASE i = n + 2
    <3>1. i # 1 /\ i - 1 = n + 1 /\ all[i] = e2 /\ all[i - 1] = e1
      BY <2>3, <1>0, <1>3
    <3> QED
      BY <2>3, <3>1, <1>1
  <2> QED
    BY <2>1, <2>2, <2>3, <1>0, <1>3
<1>8. /\ n + 2 \in 1..Len(all) /\ all[n + 2].kind = "commit"
      /\ all[n + 2].digest = new.state.hist
      /\ \A j \in (n + 2 + 1)..Len(all) : all[j].kind # "commit"
  BY <1>0, <1>1, <1>3
<1> QED
  BY <1>0, <1>1, <1>3, <1>4, <1>7, <1>8 DEF InspectEventChain, all, new
-------------------------------------------------------------------------------
(* The inductive invariant.  It holds as long as the environment only crashes *)
(* callers and makes their file operations fail cleanly. *)

Benign == Faults \subseteq {"crash", "io_error"}

\* The contents of a state file that createRun or a transaction has written.
Written(s) ==
  /\ Len(s.hist) # 0
  /\ s.head = <<s.hist[Len(s.hist)], "commit">>
  /\ \A i \in 1..Len(s.hist) : s.hist[i] \in 1..(nextTx - 1)

\* The journal has been written and its events have not.
Pending ==
  /\ InspectEventChain(stateFile, events)
  /\ \E t \in 1..(nextTx - 1) :
       /\ journal = BuildTransaction(stateFile, t)
       /\ \A i \in 1..Len(stateFile.hist) : stateFile.hist[i] # t

\* The journal's events are in the log; the state may or may not be.
Applied == InspectEventChain(journal.state, events)

LockInv ==
  /\ MutualExclusion
  /\ \A p \in Procs : pc[p] \in Holding => lock = "fresh"
  /\ \A p, q \in Procs : pc[p] = "breaking" /\ pc[q] = "breaking" => p = q
  /\ \A p \in Procs : pc[p] = "breaking" => lock = "stale"

CreateInv ==
  /\ \A p, q \in Procs : pc[p] \in Creating /\ pc[q] \in Creating => p = q
  /\ \A p \in Procs : pc[p] \in Creating => dir
  /\ ~dir => stateFile = NoFile
  /\ stateFile = NoFile => journal = NoFile /\ events = << >> /\ nextTx = 1
  /\ \A p \in Procs : pc[p] = "cstate" => stateFile = NoFile
  /\ \A p \in Procs : pc[p] = "cevents" =>
       /\ stateFile # NoFile /\ journal = NoFile /\ events = << >>
       /\ buf[p] = BuildTransaction(Blank, 1) /\ stateFile = buf[p].state

DiskInv ==
  /\ QuietRunVerifies
  /\ stateFile # NoFile => Written(stateFile)
  /\ journal # NoFile =>
       /\ stateFile # NoFile
       /\ Written(journal.state)
       /\ journal.state.head = EventHash(journal.events[2])
       /\ Pending \/ Applied

CallerInv(p) ==
  /\ pc[p] \in {"idle", "acquire", "breaking", "recover", "load", "mutate"} \cup Creating
       => outcome[p] = "pending"
  /\ outcome[p] = "error" => pc[p] = "release"
  /\ pc[p] = "load" => journal = NoFile
  /\ pc[p] = "mutate" =>
       /\ journal = NoFile /\ stateFile # NoFile
       /\ buf[p].state = stateFile /\ InspectEventChain(stateFile, events)
  /\ pc[p] = "append" => journal # NoFile /\ journal = buf[p] /\ Pending
  /\ pc[p] = "write" => journal # NoFile /\ journal = buf[p] /\ Applied
  /\ pc[p] = "unlink" =>
       /\ journal # NoFile /\ journal = buf[p] /\ Applied
       /\ stateFile = journal.state
  /\ pc[p] = "release" /\ outcome[p] = "done" =>
       /\ stateFile # NoFile
       /\ buf[p].state.hist = Committed
       /\ op[p] = "txn" => \E i \in 1..Len(Committed) : Committed[i] = buf[p].events[2].tx

AckInv == \A t \in acked : \E i \in 1..Len(Committed) : Committed[i] = t

\* The inductive invariant.
IInv ==
  /\ TypeOK
  /\ nextTx \in 1..(MaxTxn + 1)
  /\ LockInv /\ CreateInv /\ DiskInv /\ AckInv
  /\ \A p \in Procs : CallerInv(p)

\* The fields of a transaction that the invariant talks about.
LEMMA BuiltWritten ==
  ASSUME NEW s \in State, NEW t \in Tx
  PROVE  /\ BuildTransaction(s, t).state.hist = Append(s.hist, t)
         /\ BuildTransaction(s, t).state.head = <<t, "commit">>
         /\ EventHash(BuildTransaction(s, t).events[2]) = <<t, "commit">>
         /\ BuildTransaction(s, t).events[2].tx = t
BY DEF BuildTransaction, BuildEvents, EventHash

\* The operators on the files do not change while the files do not.
LEMMA SameDisk ==
  ASSUME UNCHANGED <<stateFile, events, journal, nextTx>>
  PROVE  /\ Committed' = Committed
         /\ Pending' = Pending
         /\ Applied' = Applied
         /\ \A s : Written(s)' = Written(s)
BY DEF Committed, Pending, Applied, Written

\* Recovery can tell from the last event whether the journal was applied.
LEMMA PendingLast ==
  ASSUME TypeOK, journal # NoFile, stateFile # NoFile, Written(stateFile), Pending
  PROVE  LastHash(events) # EventHash(journal.events[2])
<1>1. PICK t \in 1..(nextTx - 1) :
         /\ journal = BuildTransaction(stateFile, t)
         /\ \A i \in 1..Len(stateFile.hist) : stateFile.hist[i] # t
  BY DEF Pending
<1>2. stateFile \in State /\ t \in Tx
  BY DEF TypeOK, Tx
<1>3. EventHash(journal.events[2]) = <<t, "commit">>
  BY <1>1, <1>2, BuiltWritten
<1>4. LastHash(events) = stateFile.head
  BY <1>2, InspectLinked DEF Pending, TypeOK, Linked
<1>5. Len(stateFile.hist) \in 1..Len(stateFile.hist)
  BY <1>2 DEF Written, State
<1>6. stateFile.hist[Len(stateFile.hist)] # t
  BY <1>1, <1>5
<1>7. \A a, b : a # b => <<a, "commit">> # <<b, "commit">>
  OBVIOUS
<1> QED
  BY <1>3, <1>4, <1>6, <1>7 DEF Written

\* A transaction whose events are all in the log is its last one.
LEMMA AppliedLast ==
  ASSUME TypeOK, journal # NoFile, Applied,
         journal.state.head = EventHash(journal.events[2])
  PROVE  LastHash(events) = EventHash(journal.events[2])
<1>1. journal.state \in State /\ events \in Seq(Event)
  BY DEF TypeOK, Transaction
<1> QED
  BY <1>1, InspectLinked DEF Applied, Linked

\* A directory that does not exist yet satisfies the invariant.
LEMMA IInvInit == Init => IInv
<1> SUFFICES ASSUME Init PROVE IInv
  OBVIOUS
<1>1. TypeOK
  BY InitTypeOK
<1>2. nextTx \in 1..(MaxTxn + 1)
  BY StoreAssumption DEF Init
<1>3. LockInv /\ CreateInv
  BY DEF Init, LockInv, MutualExclusion, Holding, CreateInv, Creating
<1>4. DiskInv /\ AckInv
  BY DEF Init, DiskInv, AckInv, QuietRunVerifies
<1>5. \A p \in Procs : CallerInv(p)
  BY DEF Init, CallerInv, Creating
<1> QED
  BY <1>1, <1>2, <1>3, <1>4, <1>5 DEF IInv

\* Every step of a caller, and every failure, preserves the invariant.
LEMMA IInvStep ==
  ASSUME Benign, IInv, TypeOK', [Next]_vars
  PROVE  IInv'
<1> USE DEF IInv, Goto, disk, local
<1>1. CASE UNCHANGED vars
  <2>1. UNCHANGED <<dir, lock, stateFile, events, journal, pc, op, buf, outcome, nextTx, acked, faults>>
    BY <1>1 DEF vars
  <2> QED
    BY <2>1, SameDisk DEF LockInv, MutualExclusion, CreateInv, DiskInv, QuietRunVerifies,
                   AckInv, CallerInv
<1>2. CASE Age
  <2>1. UNCHANGED <<dir, stateFile, events, journal, pc, op, buf, outcome, nextTx, acked>>
    BY <1>2 DEF Age
  <2>2. LockInv'
    BY <1>2 DEF Age, LockInv, MutualExclusion, Benign
  <2> QED
    BY <2>1, <2>2, SameDisk DEF CreateInv, DiskInv, QuietRunVerifies, AckInv, CallerInv
<1>3. ASSUME NEW p \in Procs, NEW o \in Ops, Call(p, o) PROVE IInv'
  <2>1. UNCHANGED <<lock, stateFile, events, journal, buf, outcome, nextTx, acked>> /\ dir'
    BY <1>3 DEF Call
  <2>2. pc[p] = "idle" /\ pc' = [pc EXCEPT ![p] = "acquire"]
    BY <1>3 DEF Call
  <2>3. \A q \in Procs : q # p => pc'[q] = pc[q] /\ op'[q] = op[q]
    BY <1>3 DEF Call, TypeOK
  <2>4. pc'[p] = "acquire"
    BY <2>2 DEF TypeOK
  <2>5. LockInv'
    BY <2>1, <2>3, <2>4 DEF LockInv, MutualExclusion, Holding
  <2>6. CreateInv'
    BY <2>1, <2>3, <2>4 DEF CreateInv, Creating
  <2>7. DiskInv' /\ AckInv'
    BY <2>1, <2>2, <2>3, <2>4, SameDisk DEF DiskInv, QuietRunVerifies, AckInv
  <2>8. ASSUME NEW q \in Procs PROVE CallerInv(q)'
    BY <2>1, <2>2, <2>3, <2>4, SameDisk DEF CallerInv, Creating
  <2> QED
    BY <2>1, <2>5, <2>6, <2>7, <2>8
<1>4. ASSUME NEW p \in Procs, CreateDir(p) PROVE IInv'
  <2>1. UNCHANGED <<lock, stateFile, events, journal, op, buf, outcome, nextTx, acked>> /\ dir' /\ ~dir
    BY <1>4 DEF CreateDir
  <2>2. pc[p] = "idle" /\ pc'[p] = "cstate" /\ \A q \in Procs : q # p => pc'[q] = pc[q]
    BY <1>4 DEF CreateDir, TypeOK
  <2>3. LockInv'
    BY <2>1, <2>2 DEF LockInv, MutualExclusion, Holding
  <2>4. CreateInv'
    BY <2>1, <2>2 DEF CreateInv, Creating
  <2>5. DiskInv' /\ AckInv'
    BY <2>1, <2>2, SameDisk DEF DiskInv, QuietRunVerifies, AckInv
  <2>6. ASSUME NEW q \in Procs PROVE CallerInv(q)'
    BY <2>1, <2>2, SameDisk DEF CallerInv, Creating
  <2> QED
    BY <2>1, <2>3, <2>4, <2>5, <2>6
<1>5. ASSUME NEW p \in Procs, CreateState(p) PROVE IInv'
  <2> DEFINE new == BuildTransaction(Blank, 1)
  <2>1. /\ UNCHANGED <<dir, lock, events, journal, op, outcome, acked>>
        /\ pc[p] = "cstate" /\ pc'[p] = "cevents" /\ \A q \in Procs : q # p => pc'[q] = pc[q]
    BY <1>5 DEF CreateState, TypeOK
  <2>2. stateFile = NoFile /\ nextTx = 1 /\ nextTx' = 2 /\ journal = NoFile /\ events = << >> /\ dir
    BY <1>5 DEF CreateInv, CreateState, Creating
  <2>3. stateFile' = new.state /\ buf'[p] = new /\ \A q \in Procs : q # p => buf'[q] = buf[q]
    BY <1>5, <2>2 DEF CreateState, TypeOK
  <2>4. new \in Transaction /\ new.state # NoFile
    <3>1. new \in Transaction
      BY BlankType, BuildType DEF Tx
    <3>2. new.state \in State
      BY <3>1 DEF Transaction
    <3> QED
      BY <3>1, <3>2, StoreAssumption
  <2>5. new.state.hist = <<1>> /\ new.state.head = <<1, "commit">>
    BY BlankType, BuiltWritten DEF Tx, Blank
  <2> HIDE DEF new
  <2>6. Committed = << >> /\ Committed' = <<1>>
    BY <2>1, <2>2, <2>3, <2>4, <2>5 DEF Committed
  <2>7. LockInv'
    BY <2>1 DEF LockInv, MutualExclusion, Holding
  <2>8. CreateInv'
    BY <2>1, <2>2, <2>3, <2>4 DEF CreateInv, Creating, new
  <2>9. DiskInv'
    BY <2>1, <2>2, <2>3, <2>4, <2>5 DEF DiskInv, QuietRunVerifies, Written
  <2>10. AckInv'
    BY <2>1, <2>6 DEF AckInv
  <2>11. ASSUME NEW q \in Procs PROVE CallerInv(q)'
    BY <2>1, <2>2, <2>3 DEF CallerInv, Creating
  <2>12. nextTx' \in 1..(MaxTxn + 1)
    BY <2>2, StoreAssumption
  <2> QED
    BY <2>7, <2>8, <2>9, <2>10, <2>11, <2>12
<1>6. ASSUME NEW p \in Procs, CreateEvents(p) PROVE IInv'
  <2> DEFINE new == BuildTransaction(Blank, 1)
  <2>1. /\ UNCHANGED <<dir, lock, stateFile, journal, nextTx>>
        /\ pc[p] = "cevents" /\ pc'[p] = "idle" /\ outcome'[p] = "pending"
        /\ \A q \in Procs : q # p => /\ pc'[q] = pc[q] /\ op'[q] = op[q]
                                     /\ buf'[q] = buf[q] /\ outcome'[q] = outcome[q]
    BY <1>6 DEF CreateEvents, Forget, TypeOK
  <2>2. /\ stateFile # NoFile /\ journal = NoFile /\ events = << >>
        /\ buf[p] = new /\ stateFile = new.state /\ dir
    BY <2>1 DEF CreateInv, Creating
  <2>3. /\ events' = AppendAll(<< >>, new.events)
        /\ acked' = acked \cup {1}
    BY <1>6, <2>2, BuiltWritten, BlankType DEF CreateEvents, Tx
  <2>4. Linked(Blank, << >>)
    BY DEF Linked, Blank, LastHash
  <2>5. InspectEventChain(stateFile, events)'
    <3>1. << >> \in Seq(Event) /\ Blank \in State /\ 1 \in Tx
      BY BlankType DEF Tx
    <3>2. InspectEventChain(new.state, AppendAll(<< >>, new.events))
      BY <3>1, <2>4, InspectNext
    <3> QED
      BY <2>1, <2>2, <2>3, <3>2
  <2>6. stateFile.hist = <<1>>
    BY <2>2, BuiltWritten, BlankType DEF Tx, Blank
  <2>7. Committed' = Committed /\ Committed = <<1>> /\ \A s : Written(s)' = Written(s)
    BY <2>1, <2>2, <2>6 DEF Committed, Written
  <2>8. \A q \in Procs : pc[q] # "mutate"
    <3> SUFFICES ASSUME NEW q \in Procs, pc[q] = "mutate" PROVE FALSE
      OBVIOUS
    <3>1. InspectEventChain(stateFile, events) /\ stateFile \in State
      BY <2>2 DEF CallerInv, TypeOK
    <3> QED
      BY <3>1, <2>2, InspectLinked DEF TypeOK
  <2>9. LockInv'
    BY <2>1 DEF LockInv, MutualExclusion, Holding
  <2>10. CreateInv'
    BY <2>1, <2>2 DEF CreateInv, Creating
  <2>11. DiskInv'
    BY <2>1, <2>2, <2>5, <2>7 DEF DiskInv, QuietRunVerifies
  <2>12. AckInv'
    BY <2>3, <2>7 DEF AckInv
  <2>13. ASSUME NEW q \in Procs PROVE CallerInv(q)'
    <3>1. CASE q = p
      BY <2>1, <3>1 DEF CallerInv
    <3>2. CASE q # p
      BY <2>1, <2>2, <2>7, <2>8, <3>2 DEF CallerInv, Creating
    <3> QED
      BY <3>1, <3>2
  <2> QED
    BY <2>1, <2>9, <2>10, <2>11, <2>12, <2>13
<1>7. ASSUME NEW p \in Procs, Acquire(p) \/ SeeStale(p) \/ BreakStale(p) PROVE IInv'
  <2>1. /\ UNCHANGED <<dir, stateFile, events, journal, op, buf, outcome, nextTx, acked>>
        /\ pc[p] \in {"acquire", "breaking"}
        /\ pc'[p] \in {"acquire", "breaking", "recover"}
        /\ \A q \in Procs : q # p => pc'[q] = pc[q]
    BY <1>7 DEF Acquire, SeeStale, BreakStale, TypeOK
  <2>2. LockInv'
    <3>1. CASE Acquire(p)
      BY <3>1, <2>1 DEF Acquire, LockInv, MutualExclusion, Holding, TypeOK
    <3>2. CASE SeeStale(p)
      BY <3>2, <2>1 DEF SeeStale, LockInv, MutualExclusion, Holding, TypeOK, Benign
    <3>3. CASE BreakStale(p)
      BY <3>3, <2>1 DEF BreakStale, LockInv, MutualExclusion, Holding, TypeOK
    <3> QED
      BY <1>7, <3>1, <3>2, <3>3
  <2>3. CreateInv'
    BY <2>1 DEF CreateInv, Creating
  <2>4. DiskInv' /\ AckInv'
    BY <2>1, SameDisk DEF DiskInv, QuietRunVerifies, AckInv
  <2>5. ASSUME NEW q \in Procs PROVE CallerInv(q)'
    BY <2>1, SameDisk DEF CallerInv, Creating
  <2> QED
    BY <2>1, <2>2, <2>3, <2>4, <2>5
<1>8. ASSUME NEW p \in Procs, TimeOut(p) \/ (Crash(p) /\ pc[p] # "cevents") PROVE IInv'
  <2>1. /\ UNCHANGED <<dir, lock, stateFile, events, journal, nextTx, acked>>
        /\ pc[p] # "cevents" /\ pc'[p] = "idle" /\ outcome'[p] = "pending"
        /\ \A q \in Procs : q # p => /\ pc'[q] = pc[q] /\ op'[q] = op[q]
                                     /\ buf'[q] = buf[q] /\ outcome'[q] = outcome[q]
    BY <1>8 DEF TimeOut, Crash, Forget, TypeOK
  <2>2. LockInv'
    BY <2>1 DEF LockInv, MutualExclusion, Holding
  <2>3. CreateInv'
    BY <2>1 DEF CreateInv, Creating
  <2>4. DiskInv' /\ AckInv'
    BY <2>1, SameDisk DEF DiskInv, QuietRunVerifies, AckInv
  <2>5. ASSUME NEW q \in Procs PROVE CallerInv(q)'
    <3>1. CASE q = p
      BY <2>1, <3>1 DEF CallerInv
    <3>2. CASE q # p
      BY <2>1, <3>2, SameDisk DEF CallerInv, Creating
    <3> QED
      BY <3>1, <3>2
  <2> QED
    BY <2>1, <2>2, <2>3, <2>4, <2>5
<1>9. ASSUME NEW p \in Procs, NoJournal(p) PROVE IInv'
  <2>1. /\ UNCHANGED <<dir, lock, stateFile, events, journal, op, buf, outcome, nextTx, acked>>
        /\ pc[p] = "recover" /\ pc'[p] = "load" /\ journal = NoFile
        /\ \A q \in Procs : q # p => pc'[q] = pc[q]
    BY <1>9 DEF NoJournal, TypeOK
  <2>2. LockInv'
    BY <2>1 DEF LockInv, MutualExclusion, Holding
  <2>3. CreateInv'
    BY <2>1 DEF CreateInv, Creating
  <2>4. DiskInv' /\ AckInv'
    BY <2>1, SameDisk DEF DiskInv, QuietRunVerifies, AckInv
  <2>5. ASSUME NEW q \in Procs PROVE CallerInv(q)'
    BY <2>1, SameDisk DEF CallerInv, Creating
  <2> QED
    BY <2>1, <2>2, <2>3, <2>4, <2>5
<1>10. ASSUME NEW p \in Procs, ReadJournal(p) PROVE IInv'
  <2>1. /\ UNCHANGED <<dir, lock, stateFile, events, journal, op, nextTx, acked>>
        /\ pc[p] = "recover" /\ journal # NoFile /\ buf'[p] = journal
        /\ pc'[p] \in {"write", "append", "release"}
        /\ \A q \in Procs : q # p => /\ pc'[q] = pc[q] /\ buf'[q] = buf[q]
                                     /\ outcome'[q] = outcome[q]
    BY <1>10 DEF ReadJournal, Throw, TypeOK
  <2>2. /\ pc'[p] = "write" => LastHash(events) = EventHash(journal.events[2])
        /\ pc'[p] = "append" => LastHash(events) # EventHash(journal.events[2])
        /\ outcome'[p] = (IF pc'[p] = "release" THEN "error" ELSE outcome[p])
        /\ outcome[p] = "pending"
    BY <1>10, <2>1 DEF ReadJournal, Throw, TypeOK, CallerInv
  <2>3. LockInv'
    BY <2>1 DEF LockInv, MutualExclusion, Holding
  <2>4. CreateInv'
    BY <2>1 DEF CreateInv, Creating
  <2>5. DiskInv' /\ AckInv'
    BY <2>1, SameDisk DEF DiskInv, QuietRunVerifies, AckInv
  <2>6. Pending => LastHash(events) # EventHash(journal.events[2])
    BY <2>1, PendingLast DEF DiskInv
  <2>7. Applied => LastHash(events) = EventHash(journal.events[2])
    BY <2>1, AppliedLast DEF DiskInv
  <2>8. Pending \/ Applied
    BY <2>1 DEF DiskInv
  <2>9. ASSUME NEW q \in Procs PROVE CallerInv(q)'
    <3>1. CASE q = p
      BY <2>1, <2>2, <2>6, <2>7, <2>8, <3>1, SameDisk DEF CallerInv, Creating
    <3>2. CASE q # p
      BY <2>1, <3>2, SameDisk DEF CallerInv, Creating
    <3> QED
      BY <3>1, <3>2
  <2> QED
    BY <2>1, <2>3, <2>4, <2>5, <2>9
<1>11. ASSUME NEW p \in Procs, Load(p) PROVE IInv'
  <2>1. /\ UNCHANGED <<dir, lock, stateFile, events, journal, op, nextTx, acked>>
        /\ pc[p] = "load" /\ stateFile # NoFile
        /\ op[p] # "read" => InspectEventChain(stateFile, events)
        /\ buf'[p].state = stateFile
        /\ pc'[p] = (IF op[p] = "txn" THEN "mutate" ELSE "release")
        /\ outcome'[p] = (IF op[p] = "txn" THEN outcome[p] ELSE "done")
        /\ \A q \in Procs : q # p => /\ pc'[q] = pc[q] /\ buf'[q] = buf[q]
                                     /\ outcome'[q] = outcome[q]
    BY <1>11 DEF Load, Readable, TypeOK, Transaction
  <2>2. journal = NoFile /\ outcome[p] = "pending" /\ Committed = stateFile.hist
    BY <2>1 DEF CallerInv, Committed
  <2>3. LockInv'
    BY <2>1 DEF LockInv, MutualExclusion, Holding
  <2>4. CreateInv'
    BY <2>1 DEF CreateInv, Creating
  <2>5. DiskInv' /\ AckInv'
    BY <2>1, SameDisk DEF DiskInv, QuietRunVerifies, AckInv
  <2>6. ASSUME NEW q \in Procs PROVE CallerInv(q)'
    <3>1. CASE q = p
      BY <2>1, <2>2, <3>1, SameDisk DEF CallerInv, Creating, TypeOK
    <3>2. CASE q # p
      BY <2>1, <3>2, SameDisk DEF CallerInv, Creating
    <3> QED
      BY <3>1, <3>2
  <2> QED
    BY <2>1, <2>3, <2>4, <2>5, <2>6
<1>12. ASSUME NEW p \in Procs, LoadFails(p) \/ MutatorThrows(p) \/ IoError(p) PROVE IInv'
  <2>1. /\ UNCHANGED <<dir, lock, stateFile, events, journal, op, buf, nextTx, acked>>
        /\ pc[p] \in Holding /\ pc'[p] = "release" /\ outcome'[p] = "error"
        /\ \A q \in Procs : q # p => pc'[q] = pc[q] /\ outcome'[q] = outcome[q]
    BY <1>12 DEF LoadFails, MutatorThrows, IoError, Throw, TypeOK, Holding
  <2>2. LockInv'
    BY <2>1 DEF LockInv, MutualExclusion, Holding
  <2>3. CreateInv'
    BY <2>1 DEF CreateInv, Creating, Holding
  <2>4. DiskInv' /\ AckInv'
    BY <2>1, SameDisk DEF DiskInv, QuietRunVerifies, AckInv, Holding
  <2>5. ASSUME NEW q \in Procs PROVE CallerInv(q)'
    <3>1. CASE q = p
      BY <2>1, <3>1, SameDisk DEF CallerInv, Creating
    <3>2. CASE q # p
      BY <2>1, <3>2, SameDisk DEF CallerInv, Creating
    <3> QED
      BY <3>1, <3>2
  <2> QED
    BY <2>1, <2>2, <2>3, <2>4, <2>5
<1>13. ASSUME NEW p \in Procs, Mutate(p) PROVE IInv'
  <2> DEFINE new == BuildTransaction(stateFile, nextTx)
  <2>1. /\ UNCHANGED <<dir, lock, stateFile, events, op, acked>>
        /\ pc[p] = "mutate" /\ pc'[p] = "append" /\ nextTx <= MaxTxn /\ nextTx' = nextTx + 1
        /\ outcome'[p] = "done"
        /\ \A q \in Procs : q # p => /\ pc'[q] = pc[q] /\ buf'[q] = buf[q]
                                     /\ outcome'[q] = outcome[q]
    BY <1>13 DEF Mutate, TypeOK
  <2>2. /\ journal = NoFile /\ stateFile # NoFile /\ stateFile \in State
        /\ buf[p].state = stateFile /\ InspectEventChain(stateFile, events)
    BY <2>1 DEF CallerInv, TypeOK
  <2>3. journal' = new /\ buf'[p] = new
    BY <1>13, <2>2 DEF Mutate, TypeOK
  <2>4. new \in Transaction /\ new # NoFile /\ nextTx \in Tx
    <3>1. nextTx \in Tx
      BY DEF TypeOK, Tx
    <3>2. new \in Transaction
      BY <3>1, <2>2, BuildType
    <3> QED
      BY <3>1, <3>2, StoreAssumption
  <2>5. /\ new.state.hist = Append(stateFile.hist, nextTx)
        /\ new.state.head = <<nextTx, "commit">>
        /\ new.state.head = EventHash(new.events[2])
    <3>1. stateFile \in State /\ nextTx \in Tx
      BY <2>2, <2>4
    <3>2. /\ new.state.hist = Append(stateFile.hist, nextTx)
          /\ new.state.head = <<nextTx, "commit">>
          /\ EventHash(new.events[2]) = <<nextTx, "commit">>
      BY <3>1, BuiltWritten, Zenon
    <3> QED
      BY <3>2, Zenon
  <2>6. nextTx \in Nat /\ nextTx \in 1..(nextTx' - 1) /\ nextTx' \in 1..(MaxTxn + 1)
    BY <2>1, StoreAssumption DEF TypeOK
  <2>7. Written(stateFile) /\ stateFile.hist \in Seq(Tx)
    BY <2>2 DEF DiskInv, State
  <2>8. Written(stateFile)' /\ \A i \in 1..Len(stateFile.hist) : stateFile.hist[i] # nextTx
    <3>1. \A i \in 1..Len(stateFile.hist) :
             stateFile.hist[i] \in 1..(nextTx' - 1) /\ stateFile.hist[i] # nextTx
      BY <2>1, <2>6, <2>7 DEF Written
    <3> QED
      BY <2>1, <2>7, <3>1 DEF Written
  <2>9. Pending'
    <3>1. InspectEventChain(stateFile', events')
      BY <2>1, <2>2
    <3>2. journal' = BuildTransaction(stateFile', nextTx)
      BY <2>1, <2>3
    <3>3. \A i \in 1..Len(stateFile'.hist) : stateFile'.hist[i] # nextTx
      BY <2>1, <2>8
    <3> HIDE DEF new
    <3> QED
      BY <3>1, <3>2, <3>3, <2>6 DEF Pending
  <2> HIDE DEF new
  <2>10. Written(journal.state)'
    <3>1. /\ Len(new.state.hist) = Len(stateFile.hist) + 1
          /\ Len(stateFile.hist) \in Nat
          /\ new.state.hist[Len(stateFile.hist) + 1] = nextTx
          /\ \A i \in 1..Len(stateFile.hist) : new.state.hist[i] = stateFile.hist[i]
      BY <2>5, <2>7, <2>6 DEF Tx
    <3>2. ASSUME NEW i \in 1..Len(new.state.hist)
          PROVE  new.state.hist[i] \in 1..(nextTx' - 1)
      <4>1. \A j \in 1..Len(stateFile.hist) : stateFile.hist[j] \in 1..(nextTx' - 1)
        BY <2>1, <2>8 DEF Written
      <4>2. i \in 1..Len(stateFile.hist) \/ i = Len(stateFile.hist) + 1
        BY <3>1
      <4> QED
        BY <3>1, <4>1, <4>2, <2>6
    <3> QED
      BY <3>1, <3>2, <2>3, <2>5 DEF Written
  <2>11. Committed = stateFile.hist /\ Committed' = Append(Committed, nextTx)
    BY <2>1, <2>2, <2>3, <2>4, <2>5 DEF Committed
  <2>12. LockInv'
    BY <2>1 DEF LockInv, MutualExclusion, Holding
  <2>13. CreateInv'
    <3>1. \A q \in Procs : pc[q] # "cevents"
      <4> SUFFICES ASSUME NEW q \in Procs, pc[q] = "cevents" PROVE FALSE
        OBVIOUS
      <4> QED
        BY <2>2, InspectLinked DEF CreateInv, TypeOK
    <3> QED
      BY <2>1, <2>2, <3>1 DEF CreateInv, Creating
  <2>14. DiskInv'
    BY <2>1, <2>2, <2>3, <2>4, <2>5, <2>8, <2>9, <2>10 DEF DiskInv, QuietRunVerifies
  <2>15. AckInv'
    <3>1. \A i \in 1..Len(Committed) : i \in 1..Len(Committed') /\ Committed'[i] = Committed[i]
      BY <2>4, <2>7, <2>11
    <3> QED
      BY <2>1, <3>1 DEF AckInv
  <2>16. ASSUME NEW q \in Procs PROVE CallerInv(q)'
    <3>1. CASE q = p
      BY <2>1, <2>3, <2>4, <2>9, <3>1 DEF CallerInv, Creating
    <3>2. CASE q # p
      <4>1. pc[q] \notin Holding
        BY <2>1, <3>2 DEF LockInv, MutualExclusion, Holding
      <4> QED
        BY <2>1, <3>2, <4>1 DEF CallerInv, Creating, Holding
    <3> QED
      BY <3>1, <3>2
  <2> QED
    BY <2>6, <2>12, <2>13, <2>14, <2>15, <2>16
<1>14. ASSUME NEW p \in Procs, AppendEvents(p) PROVE IInv'
  <2>1. /\ UNCHANGED <<dir, lock, stateFile, journal, op, buf, outcome, nextTx, acked>>
        /\ pc[p] = "append" /\ pc'[p] = "write"
        /\ events' = AppendAll(events, buf[p].events)
        /\ \A q \in Procs : q # p => pc'[q] = pc[q]
    BY <1>14 DEF AppendEvents, TypeOK
  <2>2. journal # NoFile /\ journal = buf[p] /\ Pending /\ stateFile # NoFile
    BY <2>1 DEF CallerInv, DiskInv
  <2>3. Applied'
    <3>1. PICK t \in 1..(nextTx - 1) : journal = BuildTransaction(stateFile, t)
      BY <2>2 DEF Pending
    <3>2. t \in Tx /\ stateFile \in State /\ events \in Seq(Event)
      BY <2>2 DEF TypeOK, Tx
    <3>3. Linked(stateFile, events)
      BY <2>2, <3>2, InspectLinked DEF Pending
    <3>4. InspectEventChain(journal.state, AppendAll(events, journal.events))
      BY <3>1, <3>2, <3>3, InspectNext
    <3> QED
      BY <2>1, <2>2, <3>4 DEF Applied
  <2>4. Committed' = Committed /\ \A s : Written(s)' = Written(s)
    BY <2>1 DEF Committed, Written
  <2>5. \A q \in Procs : q # p => pc[q] \notin Holding
    BY <2>1 DEF LockInv, MutualExclusion, Holding
  <2>6. LockInv'
    BY <2>1 DEF LockInv, MutualExclusion, Holding
  <2>7. CreateInv'
    BY <2>1, <2>2 DEF CreateInv, Creating
  <2>8. DiskInv'
    BY <2>1, <2>2, <2>3, <2>4 DEF DiskInv, QuietRunVerifies
  <2>9. AckInv'
    BY <2>1, <2>4 DEF AckInv
  <2>10. ASSUME NEW q \in Procs PROVE CallerInv(q)'
    <3>1. CASE q = p
      <4>1. outcome[p] # "error"
        BY <2>1 DEF CallerInv
      <4> QED
        BY <2>1, <2>2, <2>3, <3>1, <4>1 DEF CallerInv, Creating
    <3>2. CASE q # p
      BY <2>1, <2>5, <3>2 DEF CallerInv, Creating, Holding
    <3> QED
      BY <3>1, <3>2
  <2> QED
    BY <2>1, <2>6, <2>7, <2>8, <2>9, <2>10
<1>15. ASSUME NEW p \in Procs, WriteState(p) PROVE IInv'
  <2>1. /\ UNCHANGED <<dir, lock, events, journal, op, buf, outcome, nextTx, acked>>
        /\ pc[p] = "write" /\ pc'[p] = "unlink" /\ stateFile' = buf[p].state
        /\ \A q \in Procs : q # p => pc'[q] = pc[q]
    BY <1>15 DEF WriteState, TypeOK
  <2>2. /\ journal # NoFile /\ journal = buf[p] /\ Applied /\ stateFile # NoFile
        /\ Written(journal.state) /\ journal.state.head = EventHash(journal.events[2])
    BY <2>1 DEF CallerInv, DiskInv
  <2>3. journal.state # NoFile
    BY <2>2, StoreAssumption DEF TypeOK, Transaction
  <2>4. Applied' = Applied /\ Committed' = Committed /\ \A s : Written(s)' = Written(s)
    BY <2>1, <2>2 DEF Applied, Committed, Written
  <2>5. \A q \in Procs : q # p => pc[q] \notin Holding
    BY <2>1 DEF LockInv, MutualExclusion, Holding
  <2>6. LockInv'
    BY <2>1 DEF LockInv, MutualExclusion, Holding
  <2>7. CreateInv'
    BY <2>1, <2>2, <2>3 DEF CreateInv, Creating
  <2>8. DiskInv'
    BY <2>1, <2>2, <2>3, <2>4 DEF DiskInv, QuietRunVerifies
  <2>9. AckInv'
    BY <2>1, <2>4 DEF AckInv
  <2>10. ASSUME NEW q \in Procs PROVE CallerInv(q)'
    <3>1. CASE q = p
      BY <2>1, <2>2, <2>4, <3>1 DEF CallerInv, Creating
    <3>2. CASE q # p
      BY <2>1, <2>5, <3>2 DEF CallerInv, Creating, Holding
    <3> QED
      BY <3>1, <3>2
  <2> QED
    BY <2>1, <2>6, <2>7, <2>8, <2>9, <2>10
<1>16. ASSUME NEW p \in Procs, RemoveJournal(p) PROVE IInv'
  <2>1. /\ UNCHANGED <<dir, lock, stateFile, events, op, buf, outcome, nextTx, acked>>
        /\ pc[p] = "unlink" /\ journal' = NoFile
        /\ pc'[p] = (IF outcome[p] = "done" THEN "release" ELSE "load")
        /\ \A q \in Procs : q # p => pc'[q] = pc[q]
    BY <1>16 DEF RemoveJournal, TypeOK
  <2>2. /\ journal # NoFile /\ journal = buf[p] /\ Applied /\ stateFile # NoFile
        /\ stateFile = journal.state
        /\ Written(journal.state) /\ journal.state.head = EventHash(journal.events[2])
    BY <2>1 DEF CallerInv, DiskInv
  <2>3. Committed' = Committed /\ Committed = stateFile.hist /\ \A s : Written(s)' = Written(s)
    BY <2>1, <2>2 DEF Committed, Written
  <2>4. \A q \in Procs : q # p => pc[q] \notin Holding
    BY <2>1 DEF LockInv, MutualExclusion, Holding
  <2>5. stateFile.hist \in Seq(Tx) /\ stateFile.hist[Len(stateFile.hist)] = buf[p].events[2].tx
    <3>1. stateFile.head = <<stateFile.hist[Len(stateFile.hist)], "commit">>
      BY <2>2 DEF Written
    <3>2. stateFile.head = <<buf[p].events[2].tx, buf[p].events[2].kind>>
      BY <2>2 DEF EventHash
    <3>3. \A a, b, c, d : <<a, b>> = <<c, d>> => a = c
      OBVIOUS
    <3>4. stateFile \in State
      BY <2>2 DEF TypeOK
    <3> QED
      BY <3>1, <3>2, <3>3, <3>4 DEF State
  <2>6. Len(stateFile.hist) \in 1..Len(stateFile.hist)
    BY <2>2, <2>5 DEF Written
  <2>7. LockInv'
    BY <2>1 DEF LockInv, MutualExclusion, Holding
  <2>8. CreateInv'
    BY <2>1, <2>2 DEF CreateInv, Creating
  <2>9. DiskInv'
    BY <2>1, <2>2, <2>3 DEF DiskInv, QuietRunVerifies, Applied
  <2>10. AckInv'
    BY <2>1, <2>3 DEF AckInv
  <2>11. ASSUME NEW q \in Procs PROVE CallerInv(q)'
    <3>1. CASE q = p
      <4>1. outcome[p] # "done" => CallerInv(p)'
        <5>1. outcome[p] # "done" => outcome[p] = "pending"
          BY <2>1 DEF CallerInv, TypeOK
        <5> QED
          BY <2>1, <5>1 DEF CallerInv, Creating
      <4>2. outcome[p] = "done" => CallerInv(p)'
        <5> SUFFICES ASSUME outcome[p] = "done" PROVE CallerInv(p)'
          OBVIOUS
        <5>1. pc'[p] = "release" /\ buf'[p] = buf[p] /\ outcome'[p] = "done"
          BY <2>1
        <5>2. stateFile' # NoFile /\ buf'[p].state.hist = Committed'
          BY <2>1, <2>2, <2>3
        <5>3. \E i \in 1..Len(Committed') : Committed'[i] = buf'[p].events[2].tx
          BY <2>3, <2>5, <2>6, <5>1
        <5> QED
          BY <5>1, <5>2, <5>3 DEF CallerInv, Creating
      <4> QED
        BY <3>1, <4>1, <4>2
    <3>2. CASE q # p
      BY <2>1, <2>4, <3>2 DEF CallerInv, Creating, Holding
    <3> QED
      BY <3>1, <3>2
  <2> QED
    BY <2>1, <2>7, <2>8, <2>9, <2>10, <2>11
<1>17. ASSUME NEW p \in Procs, Release(p) PROVE IInv'
  <2>1. /\ UNCHANGED <<dir, stateFile, events, journal, nextTx>>
        /\ pc[p] = "release" /\ pc'[p] = "idle" /\ outcome'[p] = "pending" /\ lock' = "free"
        /\ \A q \in Procs : q # p => /\ pc'[q] = pc[q] /\ op'[q] = op[q]
                                     /\ buf'[q] = buf[q] /\ outcome'[q] = outcome[q]
        /\ acked' = IF op[p] = "txn" /\ outcome[p] = "done"
                    THEN acked \cup {buf[p].events[2].tx} ELSE acked
    BY <1>17 DEF Release, Forget, TypeOK
  <2>2. LockInv'
    BY <2>1 DEF LockInv, MutualExclusion, Holding
  <2>3. CreateInv'
    BY <2>1 DEF CreateInv, Creating
  <2>4. DiskInv'
    BY <2>1, SameDisk DEF DiskInv, QuietRunVerifies
  <2>5. AckInv'
    BY <2>1, SameDisk DEF AckInv, CallerInv
  <2>6. ASSUME NEW q \in Procs PROVE CallerInv(q)'
    <3>1. CASE q = p
      BY <2>1, <3>1 DEF CallerInv
    <3>2. CASE q # p
      BY <2>1, <3>2, SameDisk DEF CallerInv, Creating
    <3> QED
      BY <3>1, <3>2
  <2> QED
    BY <2>1, <2>2, <2>3, <2>4, <2>5, <2>6
<1>18. \A p \in Procs : ~TornAppend(p) /\ (Crash(p) => pc[p] # "cevents")
  BY DEF TornAppend, Crash, Fault, Benign
<1> QED
  BY <1>1, <1>2, <1>3, <1>4, <1>5, <1>6, <1>7, <1>8, <1>9, <1>10, <1>11, <1>12,
     <1>13, <1>14, <1>15, <1>16, <1>17, <1>18
     DEF Next, Begin, Step, Fail

\* The invariant holds as long as the failures are crashes and I/O errors.
LEMMA Inductive == ASSUME Benign PROVE Spec => []IInv
<1>1. IInv /\ TypeOK' /\ [Next]_vars => IInv'
  BY IInvStep
<1> QED
  BY <1>1, IInvInit, TypeCorrect, PTL DEF Spec
-------------------------------------------------------------------------------
\* At most one caller is in the locked section, crashes and stale locks included.
THEOREM Exclusion == ASSUME Benign PROVE Spec => []MutualExclusion
<1>1. IInv => MutualExclusion
  BY DEF IInv, LockInv
<1> QED
  BY <1>1, Inductive, PTL

\* No acknowledged transaction is ever lost.
THEOREM Durability == ASSUME Benign PROVE Spec => []AckedIsDurable
<1>1. IInv => AckedIsDurable
  <2> SUFFICES ASSUME IInv, NEW t \in acked
               PROVE  t \in {Committed[i] : i \in DOMAIN Committed}
    BY DEF AckedIsDurable
  <2>1. Committed \in Seq(Tx)
    BY DEF IInv, TypeOK, Committed, State, Transaction
  <2>2. PICK i \in 1..Len(Committed) : Committed[i] = t
    BY DEF IInv, AckInv
  <2> QED
    BY <2>1, <2>2
<1> QED
  BY <1>1, Inductive, PTL

\* A crash never leaves a journal that recovery refuses.
THEOREM Recoverability == ASSUME Benign PROVE Spec => []JournalIsRecoverable
<1>1. IInv => JournalIsRecoverable
  <2> SUFFICES ASSUME IInv, journal # NoFile PROVE JournalIsRecoverable
    BY DEF JournalIsRecoverable
  <2> USE DEF IInv, DiskInv
  <2>1. CASE Applied
    BY <2>1, AppliedLast DEF JournalIsRecoverable
  <2>2. CASE Pending
    <3>1. PICK t \in 1..(nextTx - 1) : journal = BuildTransaction(stateFile, t)
      BY <2>2 DEF Pending
    <3>2. stateFile \in State /\ events \in Seq(Event)
      BY DEF TypeOK
    <3>3. stateFile.seq = Len(events) /\ stateFile.head = LastHash(events)
      BY <2>2, <3>2, InspectLinked DEF Pending, Linked
    <3>4. /\ journal.events[1].seq = stateFile.seq + 1
          /\ journal.events[1].prev = stateFile.head
      BY <3>1 DEF BuildTransaction, BuildEvents
    <3> QED
      BY <3>3, <3>4 DEF JournalIsRecoverable
  <2> QED
    BY <2>1, <2>2
<1> QED
  BY <1>1, Inductive, PTL

\* An undisturbed run always passes its own integrity check.
THEOREM Integrity == ASSUME Benign PROVE Spec => []QuietRunVerifies
<1>1. IInv => QuietRunVerifies
  BY DEF IInv, DiskInv
<1> QED
  BY <1>1, Inductive, PTL

\* A locked read is current when it returns.
THEOREM Currency == ASSUME Benign PROVE Spec => []ReadsAreCurrent
<1>1. IInv => ReadsAreCurrent
  BY DEF IInv, CallerInv, ReadsAreCurrent
<1> QED
  BY <1>1, Inductive, PTL
-------------------------------------------------------------------------------
\* The committed transactions have been started before.
LEMMA CommittedRange ==
  ASSUME IInv
  PROVE  /\ Committed \in Seq(Tx)
         /\ \A i \in 1..Len(Committed) : Committed[i] \in 1..(nextTx - 1)
<1>1. Committed \in Seq(Tx)
  BY DEF IInv, TypeOK, Committed, State, Transaction
<1>2. \A i \in 1..Len(Committed) : Committed[i] \in 1..(nextTx - 1)
  BY DEF IInv, DiskInv, Committed, Written
<1> QED
  BY <1>1, <1>2

\* A step of the store is a step of the log, or leaves the log alone.
LEMMA RefinementStep ==
  ASSUME Benign, IInv, TypeOK', [Next]_vars
  PROVE  [Log!Next]_(Log!vars)
<1> USE DEF Goto, disk, local, Throw, Forget
<1>1. Committed \in Seq(Tx) /\ \A i \in 1..Len(Committed) : Committed[i] \in 1..(nextTx - 1)
  BY CommittedRange
<1>2. nextTx \in 1..(MaxTxn + 1) /\ MaxTxn \in Nat
  BY StoreAssumption DEF IInv
<1>3. ASSUME UNCHANGED <<stateFile, journal, acked>> PROVE [Log!Next]_(Log!vars)
  BY <1>3 DEF Committed, Log!vars
<1>4. CASE UNCHANGED vars
  BY <1>3, <1>4 DEF vars
<1>5. CASE Age
  BY <1>3, <1>5 DEF Age
<1>6. ASSUME NEW p \in Procs, Begin(p) PROVE UNCHANGED <<stateFile, journal, acked>>
  BY <1>6 DEF Begin, CreateDir, Call
<1>7. ASSUME NEW p \in Procs,
             \/ Acquire(p) \/ SeeStale(p) \/ BreakStale(p) \/ TimeOut(p)
             \/ NoJournal(p) \/ ReadJournal(p) \/ Load(p) \/ LoadFails(p)
             \/ MutatorThrows(p) \/ AppendEvents(p) \/ Fail(p)
      PROVE  UNCHANGED <<stateFile, journal, acked>>
  <2>1. CASE Acquire(p) \/ SeeStale(p) \/ BreakStale(p) \/ TimeOut(p)
    BY <2>1 DEF Acquire, SeeStale, BreakStale, TimeOut
  <2>2. CASE NoJournal(p) \/ ReadJournal(p) \/ Load(p) \/ LoadFails(p)
    BY <2>2 DEF NoJournal, ReadJournal, Load, LoadFails
  <2>3. CASE MutatorThrows(p) \/ AppendEvents(p) \/ Fail(p)
    BY <2>3 DEF MutatorThrows, AppendEvents, Fail, Crash, IoError, TornAppend
  <2> QED
    BY <1>7, <2>1, <2>2, <2>3
<1>8. ASSUME NEW t \in 1..MaxTxn, t = nextTx, Committed' = Append(Committed, t), acked' = acked
      PROVE  Log!Next
  <2>1. t \notin Log!Logged
    BY <1>1, <1>8 DEF Log!Logged
  <2> QED
    BY <1>8, <2>1 DEF Log!Next, Log!Commit
<1>9. ASSUME NEW t \in Nat, NEW i \in 1..Len(Committed), Committed[i] = t,
             Committed' = Committed, acked' = acked \cup {t}
      PROVE  Log!Next
  <2>1. t \in 1..MaxTxn
    BY <1>1, <1>2, <1>9
  <2>2. t \in Log!Logged
    BY <1>1, <1>9 DEF Log!Logged
  <2> QED
    BY <1>9, <2>1, <2>2 DEF Log!Next, Log!Acknowledge
<1>10. ASSUME NEW p \in Procs, CreateState(p) PROVE Log!Next
  <2>1. stateFile = NoFile /\ nextTx = 1 /\ journal = NoFile
    BY <1>10 DEF IInv, CreateInv, CreateState
  <2>2. stateFile' = BuildTransaction(Blank, 1).state /\ journal' = NoFile /\ acked' = acked
    BY <1>10, <2>1 DEF CreateState
  <2>3. BuildTransaction(Blank, 1).state \in State /\ Blank.hist = << >>
    BY BlankType, BuildType DEF Tx, Transaction, Blank
  <2>4. BuildTransaction(Blank, 1).state.hist = Append(<< >>, 1)
    BY <2>3, BlankType, BuiltWritten DEF Tx
  <2>5. Committed = << >> /\ Committed' = Append(<< >>, 1)
    BY <2>1, <2>2, <2>3, <2>4, StoreAssumption DEF Committed
  <2> QED
    BY <1>2, <1>8, <2>1, <2>2, <2>5, StoreAssumption
<1>11. ASSUME NEW p \in Procs, CreateEvents(p) PROVE Log!Next
  <2>1. /\ stateFile # NoFile /\ journal = NoFile
        /\ buf[p] = BuildTransaction(Blank, 1) /\ stateFile = buf[p].state
    BY <1>11 DEF IInv, CreateInv, CreateEvents, Creating
  <2>2. UNCHANGED <<stateFile, journal>> /\ acked' = acked \cup {buf[p].events[2].tx}
    BY <1>11 DEF CreateEvents
  <2>3. buf[p].events[2].tx = 1 /\ stateFile.hist = Append(<< >>, 1)
    BY <2>1, BlankType, BuiltWritten DEF Tx, Blank
  <2>4. Committed' = Committed /\ Committed = Append(<< >>, 1)
    BY <2>1, <2>2, <2>3 DEF Committed
  <2>5. 1 \in 1..Len(Committed) /\ Committed[1] = 1
    BY <2>4
  <2> QED
    BY <1>9, <2>2, <2>3, <2>4, <2>5
<1>12. ASSUME NEW p \in Procs, Mutate(p) PROVE Log!Next
  <2>1. journal = NoFile /\ stateFile # NoFile /\ buf[p].state = stateFile /\ stateFile \in State
    BY <1>12 DEF IInv, CallerInv, Mutate, TypeOK
  <2>2. /\ journal' = BuildTransaction(stateFile, nextTx)
        /\ nextTx <= MaxTxn /\ UNCHANGED <<stateFile, acked>>
    BY <1>12, <2>1 DEF Mutate
  <2>3. nextTx \in Tx /\ nextTx \in 1..MaxTxn
    BY <1>2, <2>2 DEF Tx
  <2>4. journal' # NoFile /\ journal'.state.hist = Append(stateFile.hist, nextTx)
    BY <2>1, <2>2, <2>3, BuildType, BuiltWritten, StoreAssumption
  <2>5. Committed' = Append(Committed, nextTx)
    BY <2>1, <2>2, <2>4 DEF Committed
  <2> QED
    BY <1>8, <2>2, <2>3, <2>5
<1>13. ASSUME NEW p \in Procs, WriteState(p) \/ RemoveJournal(p)
       PROVE  Committed' = Committed /\ acked' = acked
  <2>1. /\ journal # NoFile /\ journal = buf[p]
        /\ pc[p] = "unlink" => stateFile = journal.state
        /\ stateFile # NoFile
    BY <1>13 DEF IInv, CallerInv, DiskInv, WriteState, RemoveJournal
  <2> QED
    BY <1>13, <2>1 DEF WriteState, RemoveJournal, Committed
<1>14. ASSUME NEW p \in Procs, Release(p) PROVE [Log!Next]_(Log!vars)
  <2>1. UNCHANGED <<stateFile, journal>> /\ Committed' = Committed
    BY <1>14 DEF Release, Committed
  <2>2. CASE op[p] = "txn" /\ outcome[p] = "done"
    <3>1. PICK i \in 1..Len(Committed) : Committed[i] = buf[p].events[2].tx
      BY <1>14, <2>2 DEF IInv, CallerInv, Release
    <3>2. acked' = acked \cup {buf[p].events[2].tx}
      BY <1>14, <2>2 DEF Release
    <3>3. Committed[i] \in Nat
      BY <1>1, <1>2
    <3> QED
      BY <1>9, <2>1, <3>1, <3>2, <3>3
  <2>3. CASE ~(op[p] = "txn" /\ outcome[p] = "done")
    BY <1>14, <2>1, <2>3 DEF Release, Log!vars
  <2> QED
    BY <2>2, <2>3
<1> QED
  BY <1>3, <1>4, <1>5, <1>6, <1>7, <1>10, <1>11, <1>12, <1>13, <1>14
     DEF Next, Step, Begin, Fail, Log!vars

\* The run directory implements the log of transactions: every operation is
\* committed as a whole on top of all earlier ones, and stays.
THEOREM Refinement == ASSUME Benign PROVE Spec => ImplementsCommitLog
<1>1. Init => Log!Init
  BY DEF Init, Log!Init, Committed
<1>2. IInv /\ TypeOK' /\ [Next]_vars => [Log!Next]_(Log!vars)
  BY RefinementStep
<1> QED
  BY <1>1, <1>2, Inductive, TypeCorrect, PTL DEF Spec, Log!Spec, ImplementsCommitLog

-----------------------------------------------------------------------------
(* Intelligence fabric *)

ItemRecord == [status : {"pending", "running", "completed", "failed"}, attempts : Nat]

\* Where a driver is at work, where it has a copy to store, and where it has
\* captured what it verified.
Working == {"prepare", "execute", "verified", "success", "failure", "remember", "remember verified"}
Copying == {"prepare", "verified", "success", "failure", "conclude"}
Verifying == {"verified", "remember verified"}

\* Candidates are finitely many: one for each report so far.
TypeInv ==
  /\ status \in {"active"} \cup Ended
  /\ items \in [Item -> ItemRecord]
  /\ candidates \subseteq Result /\ IsFiniteSet(candidates) /\ artifacts \subseteq Result
  /\ at \in [Driver -> {"off", "conclude"} \cup Working]
  /\ work \in [Driver -> Result \cup {None}]
  /\ DOMAIN copy = Driver /\ DOMAIN todo = Driver
  /\ \A d \in Driver : at[d] \in Working => work[d] \in Result
  /\ behind \subseteq Driver /\ overwritten \in BOOLEAN
  /\ earned \subseteq Result

IsContractRecord(c) == "status" \in DOMAIN c /\ "consumers" \in DOMAIN c /\ "acks" \in DOMAIN c
WellFormed(int) == "contracts" \in DOMAIN int /\ \A c \in int.contracts : IsContractRecord(c)

\* Every open contract of a record has a consumer with work among some items.
HasWork(cs, its, among) ==
  \A c \in cs : Open(c) =>
    \E i \in among : RoleOf[i] \in c.consumers /\ its[i].status # "completed"

\* The item that is about to be completed does not count: its contracts are
\* settled in the copy that is stored with it.
Among(d) == IF at[d] \in {"verified", "success"} THEN Item \ {work[d][1]} ELSE Item

\* So the record has it, and a copy that is not behind.
CopyHasWork(d) ==
  at[d] \in Copying /\ d \notin behind => HasWork(copy[d].contracts, items, Among(d))
RecordInv ==
  /\ WellFormed(intel)
  /\ \A d \in Driver : at[d] \in Copying => WellFormed(copy[d])
  /\ ~overwritten => HasWork(intel.contracts, items, Item) /\ \A d \in Driver : CopyHasWork(d)

\* When a driver concludes all is done, and stays done; a mission was completed
\* with a record that passed the gate.
AllDone == \A i \in Item : items[i].status = "completed"
GateInv ==
  /\ status = "completed" \/ (\E d \in Driver : at[d] = "conclude") => AllDone
  /\ status = "completed" => TerminalPassed(intel)

\* What a verification leaves behind names the verification.
Captures(w) == ({"verification"} \X {w} \X {w}) \cup ({"artifact"} \X {w} \X Result)
HasCaptured(step, w, mem) == step \in Verifying => mem \in Seq(Captures(w)) /\ mem # << >>
IsEntry(e) ==
  /\ {"status", "role", "verified_by"} \subseteq DOMAIN e
  /\ e.status \in {"proposed", "verified", "rejected", "superseded"}
MemoryInv ==
  /\ \A m \in DOMAIN memory : IsEntry(memory[m])
  /\ VerifiedMemoryIsEarned
  /\ \A d \in Driver : HasCaptured(at[d], work[d], todo[d])
  /\ \A d \in Driver : at[d] = "remember verified" => work[d] \in earned

FabricIInv == TypeInv /\ RecordInv /\ GateInv /\ MemoryInv

-----------------------------------------------------------------------------
(* What the operators of the model give *)

LEMMA LeastNumber ==
  ASSUME NEW S \in SUBSET Nat, S # {}
  PROVE  \E j \in S : \A k \in S : j <= k
<1>. DEFINE L == OpToRel(<, Nat)
<1>1. \A i, j \in Nat : i < j => <<i, j>> \in L
  BY DEF OpToRel
<1>2. IsWellFoundedOn(L, Nat)
  BY NatLessThanWellFounded, Zenon
<1>. HIDE DEF L
<1>3. PICK j \in S : \A k \in S : ~(<<k, j>> \in L)
  BY <1>2, WFMin
<1>4. ASSUME NEW k \in S PROVE j <= k
  <2>1. j \in Nat /\ k \in Nat /\ ~(k < j)
    BY <1>1, <1>3
  <2>. QED
    BY <2>1
<1>. QED
  BY <1>4

\* The first item of the sequence is one of them.
LEMMA EarliestIsIn ==
  ASSUME NEW S \in SUBSET Item, S # {}
  PROVE  Earliest(S) \in S
<1>1. ASSUME NEW i \in Item PROVE OrderOf(i) \in Nat
  BY IntelligenceAssumption DEF OrderOf
<1>. DEFINE N == {OrderOf(i) : i \in S}
<1>2. N \in SUBSET Nat /\ N # {}
  BY <1>1
<1>. HIDE DEF N
<1>3. PICK n \in N : \A k \in N : n <= k
  BY <1>2, LeastNumber
<1>4. \E i \in S : \A j \in S : OrderOf(i) <= OrderOf(j)
  BY <1>3 DEF N
<1>. QED
  BY <1>4 DEF Earliest

\* The sequence of a finite set has its members only.
LEMMA Sequenced ==
  ASSUME NEW S, IsFiniteSet(S)
  PROVE  Seqs!SetToSeq(S) \in Seq(S)
<1>1. Cardinality(S) \in Nat /\ ExistsBijection(1..Cardinality(S), S)
  BY FS_CardinalityType
<1>2. PICK f \in [1..Cardinality(S) -> S] : \A a, b \in 1..Cardinality(S) : f[a] = f[b] => a = b
  BY <1>1 DEF ExistsBijection, Bijection, Injection, IsInjective
<1>3. Seqs!Cardinality(S) = Cardinality(S)
  BY Zenon DEF Seqs!Cardinality, Cardinality
<1>4. f \in [1..Seqs!Cardinality(S) -> S] /\ Seqs!IsInjective(f)
  BY <1>2, <1>3 DEF Seqs!IsInjective
<1>5. Seqs!SetToSeq(S) \in [1..Seqs!Cardinality(S) -> S]
  BY <1>4 DEF Seqs!SetToSeq
<1>. QED
  BY <1>1, <1>3, <1>5

\* What a driver goes to concerns that driver only.
LEMMA GotoFields ==
  ASSUME TypeInv, NEW d \in Driver, NEW step, NEW w, NEW c, NEW mem, GoesTo(d, step, w, c, mem)
  PROVE  /\ at'[d] = step /\ work'[d] = w /\ copy'[d] = c /\ todo'[d] = mem
         /\ \A e \in Driver \ {d} : /\ at'[e] = at[e] /\ work'[e] = work[e]
                                    /\ copy'[e] = copy[e] /\ todo'[e] = todo[e]
         /\ DOMAIN copy' = Driver /\ DOMAIN todo' = Driver
         /\ at' = [at EXCEPT ![d] = step] /\ work' = [work EXCEPT ![d] = w]
<1>1. at \in [Driver -> {"off", "conclude"} \cup Working] /\ work \in [Driver -> Result \cup {None}]
  BY DEF TypeInv
<1>2. DOMAIN copy = Driver /\ DOMAIN todo = Driver
  BY DEF TypeInv
<1>. QED
  BY <1>1, <1>2 DEF GoesTo

\* A driver that is at work has its item and attempt.
LEMMA AtWork ==
  ASSUME TypeInv, NEW d \in Driver, at[d] \in Working
  PROVE  work[d] \in Result /\ work[d][1] \in Item /\ work[d][2] \in Nat
  BY DEF TypeInv, Result

\* What is written of an item.
LEMMA ItemFields ==
  ASSUME TypeInv, NEW i \in Item, NEW s \in {"pending", "running", "completed", "failed"}
  PROVE  /\ WithStatus(i, s) \in [Item -> ItemRecord]
         /\ WithStatus(i, s)[i].status = s
         /\ \A j \in Item \ {i} : WithStatus(i, s)[j] = items[j]
<1>1. items \in [Item -> ItemRecord] /\ items[i].attempts \in Nat
  BY DEF TypeInv, ItemRecord
<1>. QED
  BY <1>1 DEF WithStatus, ItemRecord

LEMMA TriedFields ==
  ASSUME TypeInv, NEW i \in Item
  PROVE  /\ Tried(i) \in [Item -> ItemRecord]
         /\ Tried(i)[i].status = "running"
         /\ \A j \in Item \ {i} : Tried(i)[j] = items[j]
         /\ items[i].attempts + 1 \in Nat
<1>1. items \in [Item -> ItemRecord] /\ items[i].attempts \in Nat
  BY DEF TypeInv, ItemRecord
<1>. QED
  BY <1>1 DEF Tried, ItemRecord

\* What CompleteFailure makes of the items: of those that were not completed none is.
FailItems(d) ==
  LET i == work[d][1]
      retried == WithStatus(i, "pending")
      repairs == {j \in Item : KindOf[j] = "develop"}
  IN \/ /\ repairs # {} /\ items' = retried
     \/ /\ repairs # {} /\ items' = [retried EXCEPT ![Earliest(repairs)].status = "pending"]
     \/ items' = WithStatus(i, "failed")

LEMMA FailFields ==
  ASSUME TypeInv, NEW d \in Driver, at[d] \in Working, FailItems(d)
  PROVE  /\ items' \in [Item -> ItemRecord]
         /\ \A j \in Item : items'[j].status = "completed" => items[j].status = "completed"
<1>. DEFINE i == work[d][1]
            repairs == {j \in Item : KindOf[j] = "develop"}
<1>1. i \in Item
  BY AtWork
<1>2. repairs \in SUBSET Item /\ (repairs # {} => Earliest(repairs) \in Item)
  <2>1. repairs \in SUBSET Item
    OBVIOUS
  <2>. HIDE DEF repairs
  <2>. QED
    BY <2>1, EarliestIsIn
<1>3. \/ repairs # {} /\ items' = WithStatus(i, "pending")
      \/ repairs # {} /\ items' = [WithStatus(i, "pending") EXCEPT ![Earliest(repairs)].status = "pending"]
      \/ items' = WithStatus(i, "failed")
  BY DEF FailItems
<1>. HIDE DEF i, repairs
<1>4. ASSUME NEW s \in {"pending", "failed"}
      PROVE  /\ WithStatus(i, s) \in [Item -> ItemRecord]
             /\ \A j \in Item : WithStatus(i, s)[j].status = "completed" => items[j].status = "completed"
  <2>1. /\ WithStatus(i, s) \in [Item -> ItemRecord] /\ WithStatus(i, s)[i].status = s
        /\ \A j \in Item \ {i} : WithStatus(i, s)[j] = items[j]
    BY <1>1, <1>4, ItemFields
  <2>. QED
    BY <1>4, <2>1
<1>5. CASE items' = WithStatus(i, "pending") \/ items' = WithStatus(i, "failed")
  BY <1>4, <1>5
<1>6. ASSUME NEW k \in Item, items' = [WithStatus(i, "pending") EXCEPT ![k].status = "pending"]
      PROVE  /\ items' \in [Item -> ItemRecord]
             /\ \A j \in Item : items'[j].status = "completed" => items[j].status = "completed"
  <2>. DEFINE its == WithStatus(i, "pending")
  <2>1. its \in [Item -> ItemRecord] /\ \A j \in Item : its[j].status = "completed" => items[j].status = "completed"
    BY <1>4
  <2>2. items' = [its EXCEPT ![k].status = "pending"]
    BY <1>6
  <2>. HIDE DEF its
  <2>. QED
    BY <2>1, <2>2 DEF ItemRecord
<1>. QED
  BY <1>2, <1>3, <1>5, <1>6

-----------------------------------------------------------------------------
(* Types *)

LEMMA DriverTyped ==
  ASSUME TypeInv, NEW d \in Driver, NEW step \in {"off", "conclude"} \cup Working,
         NEW w \in Result \cup {None}, NEW c, NEW mem, GoesTo(d, step, w, c, mem),
         step \in Working => w \in Result
  PROVE  /\ at' \in [Driver -> {"off", "conclude"} \cup Working]
         /\ work' \in [Driver -> Result \cup {None}]
         /\ DOMAIN copy' = Driver /\ DOMAIN todo' = Driver
         /\ \A e \in Driver : at'[e] \in Working => work'[e] \in Result
<1>1. /\ at'[d] = step /\ work'[d] = w
      /\ \A e \in Driver \ {d} : at'[e] = at[e] /\ work'[e] = work[e]
      /\ DOMAIN copy' = Driver /\ DOMAIN todo' = Driver
      /\ at' = [at EXCEPT ![d] = step] /\ work' = [work EXCEPT ![d] = w]
  BY GotoFields
<1>2. /\ at \in [Driver -> {"off", "conclude"} \cup Working] /\ work \in [Driver -> Result \cup {None}]
      /\ \A e \in Driver : at[e] \in Working => work[e] \in Result
  BY DEF TypeInv
<1>. QED
  BY <1>1, <1>2

LEMMA StopTyped ==
  ASSUME TypeInv, NEW d \in Driver, Stop(d)
  PROVE  /\ at' \in [Driver -> {"off", "conclude"} \cup Working]
         /\ work' \in [Driver -> Result \cup {None}]
         /\ DOMAIN copy' = Driver /\ DOMAIN todo' = Driver
         /\ \A e \in Driver : at'[e] \in Working => work'[e] \in Result
<1>1. GoesTo(d, "off", None, None, << >>)
  BY DEF Stop
<1>. QED
  BY <1>1, DriverTyped DEF Working

LEMMA MarksTyped ==
  ASSUME TypeInv, NEW d \in Driver, (Reads(d) /\ UNCHANGED overwritten) \/ Stores(d)
  PROVE  behind' \subseteq Driver /\ overwritten' \in BOOLEAN
<1>1. behind \subseteq Driver /\ overwritten \in BOOLEAN
  BY DEF TypeInv
<1>2. CASE Reads(d) /\ UNCHANGED overwritten
  BY <1>1, <1>2 DEF Reads
<1>3. CASE Stores(d)
  <2>1. behind' = Driver \ {d} /\ overwritten' = (overwritten \/ d \in behind)
    BY <1>3 DEF Stores
  <2>. QED
    BY <2>1
<1>. QED
  BY <1>2, <1>3

\* What is left of the types, of the mission and of its history.
MissionTyped ==
  /\ status \in {"active"} \cup Ended
  /\ items \in [Item -> ItemRecord]
  /\ candidates \subseteq Result /\ IsFiniteSet(candidates) /\ artifacts \subseteq Result
  /\ behind \subseteq Driver /\ overwritten \in BOOLEAN
  /\ earned \subseteq Result

LEMMA Together ==
  ASSUME MissionTyped',
         at' \in [Driver -> {"off", "conclude"} \cup Working],
         work' \in [Driver -> Result \cup {None}],
         DOMAIN copy' = Driver, DOMAIN todo' = Driver,
         \A e \in Driver : at'[e] \in Working => work'[e] \in Result
  PROVE  TypeInv'
  BY DEF TypeInv, MissionTyped

LEMMA TypeSteps ==
  ASSUME TypeInv, [FabricNext]_fabricVars
  PROVE  TypeInv'
<1>0. MissionTyped
  BY DEF TypeInv, MissionTyped
<1>1. ASSUME NEW d \in Driver, Claim(d) PROVE TypeInv'
  <2>. DEFINE S == {j \in Item : Ready(j)}
              i == Earliest(S)
  <2>1. S \in SUBSET Item /\ S # {}
    BY <1>1 DEF Claim
  <2>2. i \in Item
    <3>. HIDE DEF S
    <3>. QED
      BY <2>1, EarliestIsIn
  <2>3. /\ items' = Tried(i) /\ GoesTo(d, "prepare", <<i, items[i].attempts + 1>>, Contracted(intel, items', i), << >>)
        /\ Reads(d) /\ UNCHANGED <<status, candidates, artifacts, overwritten, earned>>
    BY <1>1 DEF Claim, history
  <2>. HIDE DEF i, S
  <2>4. items' \in [Item -> ItemRecord] /\ <<i, items[i].attempts + 1>> \in Result
    BY <2>2, <2>3, TriedFields DEF Result
  <2>5. MissionTyped'
    BY <1>0, <2>3, <2>4, MarksTyped DEF MissionTyped
  <2>. QED
    BY <2>3, <2>4, <2>5, DriverTyped, Together DEF Working
<1>2. ASSUME NEW d \in Driver, PrepareFails(d) \/ Unprocessable(d) \/ Stale(d) PROVE TypeInv'
  <2>1. Stop(d) /\ UNCHANGED <<status, items, candidates, artifacts, behind, overwritten, earned>>
    BY <1>2 DEF PrepareFails, Unprocessable, Stale, mission, history
  <2>2. MissionTyped'
    BY <1>0, <2>1 DEF MissionTyped
  <2>. QED
    BY <2>1, <2>2, StopTyped, Together
<1>3. ASSUME NEW d \in Driver, Prepare(d) PROVE TypeInv'
  <2>1. work[d] \in Result
    BY <1>3, AtWork DEF Prepare, Working
  <2>2. UNCHANGED <<status, items, candidates, artifacts, earned>>
    BY <1>3 DEF Prepare, mission
  <2>3. CASE Stores(d) /\ GoesTo(d, "execute", work[d], None, << >>)
    <3>1. MissionTyped'
      BY <1>0, <2>2, <2>3, MarksTyped DEF MissionTyped
    <3>. QED
      BY <2>1, <2>3, <3>1, DriverTyped, Together DEF Working
  <2>4. CASE Stop(d) /\ UNCHANGED <<intel, behind, overwritten>>
    <3>1. MissionTyped'
      BY <1>0, <2>2, <2>4 DEF MissionTyped
    <3>. QED
      BY <2>4, <3>1, StopTyped, Together
  <2>. QED
    BY <1>3, <2>3, <2>4 DEF Prepare
<1>4. ASSUME NEW d \in Driver, NEW success \in BOOLEAN, NEW verified \in BOOLEAN, NEW files,
             Report(d, success, verified, files)
      PROVE  TypeInv'
  <2>1. work[d] \in Result
    BY <1>4, AtWork DEF Report, Working
  <2>2. Reads(d) /\ UNCHANGED <<status, items, candidates, artifacts, overwritten, earned>>
    BY <1>4 DEF Report, mission, history
  <2>3. MissionTyped'
    BY <1>0, <2>2, MarksTyped DEF MissionTyped
  <2>4. Stop(d) \/ \E c, mem : \E s \in {"verified", "success", "failure"} :
                      s \in Working /\ GoesTo(d, s, work[d], c, mem)
    <3>1. CASE Stop(d)
      BY <3>1
    <3>2. CASE ~Stop(d)
      <4>. DEFINE s == IF success THEN IF verified THEN "verified" ELSE "success" ELSE "failure"
                  c == Processed(intel, items, work[d], success, files)
                  mem == IF success THEN MemoriesOf(work[d], verified) ELSE << >>
      <4>1. GoesTo(d, s, work[d], c, mem)
        BY <1>4, <3>2 DEF Report
      <4>2. s \in {"verified", "success", "failure"} /\ s \in Working
        BY DEF Working
      <4>. HIDE DEF s, c, mem
      <4>. QED
        BY <4>1, <4>2
    <3>. QED
      BY <3>1, <3>2
  <2>. QED
    BY <2>1, <2>3, <2>4, DriverTyped, StopTyped, Together
<1>5. ASSUME NEW d \in Driver, Complete(d) PROVE TypeInv'
  <2>1. work[d] \in Result /\ work[d][1] \in Item
    BY <1>5, AtWork DEF Complete, Working
  <2>2. PICK step \in {"remember verified", "remember"} : GoesTo(d, step, work[d], None, todo[d])
    BY <1>5 DEF Complete
  <2>3. PICK made \in SUBSET ({work[d]} \cap (Makes \X Nat)), promoted \in SUBSET candidates :
          candidates' = (candidates \cup made) \ promoted /\ artifacts' = artifacts \cup promoted
    <3>. DEFINE p == IF at[d] = "verified" THEN {c \in candidates : RoleOf[c[1]] # RoleOf[work[d][1]]} ELSE {}
    <3>1. p \in SUBSET candidates
      OBVIOUS
    <3>2. \E made \in SUBSET ({work[d]} \cap (Makes \X Nat)) :
            candidates' = (candidates \cup made) \ p /\ artifacts' = artifacts \cup p
      BY <1>5 DEF Complete
    <3>. HIDE DEF p
    <3>. QED
      BY <3>1, <3>2
  <2>4. /\ items' = WithStatus(work[d][1], "completed") /\ Stores(d) /\ UNCHANGED status
        /\ earned' \in {earned, earned \cup {work[d]}}
    BY <1>5 DEF Complete
  <2>5. items' \in [Item -> ItemRecord]
    BY <2>1, <2>4, ItemFields
  <2>6. candidates' \subseteq Result /\ artifacts' \subseteq Result /\ earned' \subseteq Result
    BY <1>0, <2>1, <2>3, <2>4 DEF MissionTyped
  <2>7. IsFiniteSet(candidates')
    <3>1. IsFiniteSet({work[d]}) /\ IsFiniteSet(candidates)
      BY <1>0, FS_Singleton DEF MissionTyped
    <3>2. IsFiniteSet(candidates \cup {work[d]})
      BY <3>1, FS_Union
    <3>3. candidates' \subseteq candidates \cup {work[d]}
      BY <2>3
    <3>. QED
      BY <3>2, <3>3, FS_Subset
  <2>8. MissionTyped'
    BY <1>0, <2>4, <2>5, <2>6, <2>7, MarksTyped DEF MissionTyped
  <2>9. step \in {"off", "conclude"} \cup Working
    BY <2>2 DEF Working
  <2>. QED
    BY <2>1, <2>2, <2>8, <2>9, DriverTyped, Together
<1>6. ASSUME NEW d \in Driver, CompleteFailure(d) PROVE TypeInv'
  <2>1. at[d] \in Working
    BY <1>6 DEF CompleteFailure, Working
  <2>2. FailItems(d)
    BY <1>6 DEF CompleteFailure, FailItems
  <2>3. items' \in [Item -> ItemRecord]
    BY <2>1, <2>2, FailFields
  <2>4. /\ status' = status \/ status' \in {"failed", "partial"}
        /\ Stores(d) /\ Stop(d) /\ UNCHANGED <<candidates, artifacts, earned>>
    BY <1>6 DEF CompleteFailure
  <2>5. MissionTyped'
    BY <1>0, <2>3, <2>4, MarksTyped DEF MissionTyped, Ended
  <2>. QED
    BY <2>4, <2>5, StopTyped, Together
<1>7. ASSUME NEW d \in Driver, Remember(d) PROVE TypeInv'
  <2>1. work[d] \in Result /\ at[d] \in Working
    BY <1>7, AtWork DEF Remember, Working
  <2>2. UNCHANGED <<status, items, candidates, artifacts, behind, overwritten, earned>>
    BY <1>7 DEF Remember, mission, history
  <2>3. MissionTyped'
    BY <1>0, <2>2 DEF MissionTyped
  <2>4. Stop(d) \/ GoesTo(d, at[d], work[d], None, Tail(todo[d]))
    BY <1>7 DEF Remember
  <2>. QED
    BY <2>1, <2>3, <2>4, DriverTyped, StopTyped, Together
<1>8. ASSUME NEW d \in Driver, Gather(d) PROVE TypeInv'
  <2>1. /\ GoesTo(d, "conclude", None, intel, << >>) /\ Reads(d)
        /\ UNCHANGED <<status, items, candidates, artifacts, overwritten, earned>>
    BY <1>8 DEF Gather, mission, history
  <2>2. MissionTyped'
    BY <1>0, <2>1, MarksTyped DEF MissionTyped
  <2>3. "conclude" \notin Working
    BY DEF Working
  <2>. QED
    BY <2>1, <2>2, <2>3, DriverTyped, Together
<1>9. ASSUME NEW d \in Driver, Conclude(d) PROVE TypeInv'
  <2>1. /\ status' \in {"completed", "partial"}
        /\ Stores(d) /\ Stop(d) /\ UNCHANGED <<items, candidates, artifacts, earned>>
    BY <1>9 DEF Conclude
  <2>2. MissionTyped'
    BY <1>0, <2>1, MarksTyped DEF MissionTyped, Ended
  <2>. QED
    BY <2>1, <2>2, StopTyped, Together
<1>10. CASE OutOfTicks
  <2>1. status' \in Ended
    BY <1>10 DEF OutOfTicks, Ended
  <2>. QED
    BY <1>10, <2>1 DEF OutOfTicks, TypeInv, driver, history
<1>11. ASSUME NEW i \in Item, Recover(i) PROVE TypeInv'
  <2>1. items' \in [Item -> ItemRecord]
    BY <1>11, ItemFields DEF Recover
  <2>. QED
    BY <1>11, <2>1 DEF Recover, TypeInv, driver, history
<1>12. CASE Curate
  BY <1>12 DEF Curate, TypeInv, driver, mission
<1>13. CASE UNCHANGED fabricVars
  BY <1>13 DEF fabricVars, TypeInv
<1>. QED
  BY <1>1, <1>2, <1>3, <1>4, <1>5, <1>6, <1>7, <1>8, <1>9, <1>10, <1>11, <1>12, <1>13 DEF FabricNext, Reports

-----------------------------------------------------------------------------
(* Contracts *)

\* Work that stays undone stays somebody's.
LEMMA StillWork ==
  ASSUME NEW cs, NEW its, NEW new, NEW among, HasWork(cs, its, among),
         \A i \in among : new[i].status = "completed" => its[i].status = "completed"
  PROVE  HasWork(cs, new, among)
  BY DEF HasWork

LEMMA AmongAll ==
  ASSUME NEW cs, NEW its, NEW among \in SUBSET Item, HasWork(cs, its, among)
  PROVE  HasWork(cs, its, Item)
  BY DEF HasWork

LEMMA Acknowledged ==
  ASSUME NEW c, IsContractRecord(c), NEW role
  PROVE  /\ IsContractRecord(Transition(c, "acknowledge", role))
         /\ Transition(c, "acknowledge", role).consumers = c.consumers
  BY DEF Transition, IsContractRecord

LEMMA Settled ==
  ASSUME NEW c, IsContractRecord(c), NEW role, NEW action \in {"complete", "block"}
  PROVE  /\ IsContractRecord(Transition(c, action, role))
         /\ ~Open(Transition(c, action, role))
<1>1. Transition(c, action, role).status \in {"completed", "blocked"}
  BY DEF Transition, IsContractRecord
<1>2. IsContractRecord(Transition(c, action, role))
  BY DEF Transition, IsContractRecord
<1>. QED
  BY <1>1, <1>2 DEF Open

\* Preparing an item that is not completed leaves no contract without work.
LEMMA ContractedWork ==
  ASSUME NEW int, WellFormed(int), NEW its, NEW i \in Item
  PROVE  /\ WellFormed(Contracted(int, its, i))
         /\ (HasWork(int.contracts, its, Item) /\ its[i].status # "completed") =>
              HasWork(Contracted(int, its, i).contracts, its, Item)
<1>. DEFINE before == AddContracts(int.contracts, DependencyContracts(its, i))
            role == RoleOf[i]
            after == {IF Open(c) /\ role \in c.consumers THEN Transition(c, "acknowledge", role) ELSE c : c \in before}
<1>1. Contracted(int, its, i) = [int EXCEPT !.contracts = after]
  BY DEF Contracted, ForConsumer
<1>2. \A c \in DependencyContracts(its, i) : IsContractRecord(c) /\ c.consumers = {role}
  BY DEF DependencyContracts, Contract, IsContractRecord
<1>3. \A c \in before : IsContractRecord(c) /\ (c \in int.contracts \/ c.consumers = {role})
  BY <1>2 DEF AddContracts, WellFormed
<1>4. "contracts" \in DOMAIN int
  BY DEF WellFormed
<1>. HIDE DEF before, after, role
<1>5. \A c \in after : IsContractRecord(c) /\
        \E b \in before : c.consumers = b.consumers /\ (Open(c) => Open(b))
  <2>. SUFFICES ASSUME NEW c \in after
                PROVE  IsContractRecord(c) /\ \E b \in before : c.consumers = b.consumers /\ (Open(c) => Open(b))
    OBVIOUS
  <2>1. PICK b \in before : c = IF Open(b) /\ role \in b.consumers THEN Transition(b, "acknowledge", role) ELSE b
    BY DEF after
  <2>2. IsContractRecord(b)
    BY <1>3
  <2>3. CASE Open(b) /\ role \in b.consumers
    BY <2>1, <2>2, <2>3, Acknowledged
  <2>4. CASE ~(Open(b) /\ role \in b.consumers)
    BY <2>1, <2>2, <2>4
  <2>. QED
    BY <2>3, <2>4
<1>6. Contracted(int, its, i).contracts = after /\ "contracts" \in DOMAIN Contracted(int, its, i)
  BY <1>1, <1>4
<1>7. WellFormed(Contracted(int, its, i))
  BY <1>5, <1>6 DEF WellFormed
<1>8. ASSUME HasWork(int.contracts, its, Item), its[i].status # "completed", NEW c \in after, Open(c)
      PROVE  \E j \in Item : RoleOf[j] \in c.consumers /\ its[j].status # "completed"
  <2>1. PICK b \in before : c.consumers = b.consumers /\ Open(b)
    BY <1>5, <1>8
  <2>2. CASE b \in int.contracts
    BY <1>8, <2>1, <2>2 DEF HasWork
  <2>3. CASE b.consumers = {role}
    BY <1>8, <2>1, <2>3 DEF role
  <2>. QED
    BY <1>3, <2>1, <2>2, <2>3
<1>. QED
  BY <1>6, <1>7, <1>8 DEF HasWork

\* A report settles what its role consumes, and what it asks of others is asked
\* of somebody else with work to do.
LEMMA ProcessedWork ==
  ASSUME NEW int, WellFormed(int), NEW its, NEW w, NEW success, NEW files
  PROVE  /\ WellFormed(Processed(int, its, w, success, files))
         /\ HasWork(int.contracts, its, Item) =>
              HasWork(Processed(int, its, w, success, files).contracts, its, Item \ {w[1]})
<1>. DEFINE role == RoleOf[w[1]]
            impacts == ImpactsOf(Ingested(int, w, files), w, files)
            asked == FollowUps(its, w[1], impacts)
            step(c) == IF success /\ MayTransition(c, "complete", role, {"outputs", "evidence"})
                       THEN Transition(c, "complete", role) ELSE Transition(c, "block", role)
            settled == {IF Open(c) /\ role \in c.consumers THEN step(c) ELSE c : c \in int.contracts}
            P == Processed(int, its, w, success, files)
<1>1. P.contracts = AddContracts(settled, asked) /\ "contracts" \in DOMAIN P
  BY DEF Processed, Settle, ForConsumer
<1>2. ASSUME NEW c \in int.contracts PROVE IsContractRecord(step(c)) /\ ~Open(step(c))
  <2>1. IsContractRecord(c)
    BY DEF WellFormed
  <2>. QED
    BY <2>1, Settled
<1>3. ASSUME NEW c \in settled
      PROVE  IsContractRecord(c) /\ (Open(c) => c \in int.contracts /\ role \notin c.consumers)
  <2>1. PICK b \in int.contracts : c = IF Open(b) /\ role \in b.consumers THEN step(b) ELSE b
    BY DEF settled
  <2>2. IsContractRecord(b)
    BY DEF WellFormed
  <2>. HIDE DEF step, settled, P
  <2>. QED
    BY <1>2, <2>1, <2>2
<1>4. ASSUME NEW c \in asked
      PROVE  IsContractRecord(c) /\ \E r \in c.consumers : r # role /\ r \in Future(its)
  <2>. HIDE DEF impacts, settled, P, step
  <2>1. PICK m \in impacts : /\ Consumers(its, m) \notin {{}, {role}}
                             /\ c = Contract(<<"impact", m.id, Consumers(its, m), 0>>, "impact_followup", RoleOf[w[1]],
                                             Consumers(its, m), {m.id})
    BY DEF FollowUps
  <2>2. c.consumers = Consumers(its, m) /\ IsContractRecord(c)
    BY <2>1 DEF Contract, IsContractRecord
  <2>3. Consumers(its, m) \subseteq Future(its)
    BY DEF Consumers, FutureRole
  <2>4. \E r \in Consumers(its, m) : r # role
    BY <2>1
  <2>. QED
    BY <2>2, <2>3, <2>4
<1>5. P.contracts \subseteq settled \cup asked
  BY <1>1 DEF AddContracts
<1>. HIDE DEF role, impacts, asked, settled, step, P
<1>6. WellFormed(P)
  BY <1>1, <1>3, <1>4, <1>5 DEF WellFormed
<1>7. ASSUME HasWork(int.contracts, its, Item), NEW c \in P.contracts, Open(c)
      PROVE  \E i \in Item \ {w[1]} : RoleOf[i] \in c.consumers /\ its[i].status # "completed"
  <2>1. CASE c \in settled
    <3>1. c \in int.contracts /\ role \notin c.consumers
      BY <1>3, <1>7, <2>1
    <3>2. PICK i \in Item : RoleOf[i] \in c.consumers /\ its[i].status # "completed"
      BY <1>7, <3>1 DEF HasWork
    <3>3. i # w[1]
      BY <3>1, <3>2 DEF role
    <3>. QED
      BY <3>2, <3>3
  <2>2. CASE c \in asked
    <3>1. PICK r \in c.consumers : r # role /\ r \in Future(its)
      BY <1>4, <2>2
    <3>2. PICK i \in Item : RoleOf[i] = r /\ its[i].status \in {"pending", "running"}
      BY <3>1 DEF Future
    <3>3. i # w[1]
      BY <3>1, <3>2 DEF role
    <3>. QED
      BY <3>1, <3>2, <3>3
  <2>. QED
    BY <1>5, <1>7, <2>1, <2>2
<1>8. HasWork(int.contracts, its, Item) => HasWork(P.contracts, its, Item \ {w[1]})
  BY <1>7 DEF HasWork
<1>. QED
  BY <1>6, <1>8 DEF P

-----------------------------------------------------------------------------
(* The record and the copies of it *)

\* The copies of the drivers that did not move.
LEMMA OtherCopies ==
  ASSUME TypeInv, RecordInv, NEW d \in Driver, NEW step, NEW w, NEW c, NEW mem, GoesTo(d, step, w, c, mem),
         \/ behind' = Driver \ {d}
         \/ /\ Driver \ behind' \subseteq (Driver \ behind) \cup {d}
            /\ \A i \in Item : items'[i].status = "completed" => items[i].status = "completed"
  PROVE  \A e \in Driver \ {d} : /\ at'[e] \in Copying => WellFormed(copy'[e])
                                 /\ ~overwritten => CopyHasWork(e)'
<1>. SUFFICES ASSUME NEW e \in Driver \ {d}
              PROVE  /\ at'[e] \in Copying => WellFormed(copy'[e])
                     /\ ~overwritten => CopyHasWork(e)'
  OBVIOUS
<1>1. at'[e] = at[e] /\ work'[e] = work[e] /\ copy'[e] = copy[e]
  BY GotoFields
<1>2. (at[e] \in Copying => WellFormed(copy[e])) /\ (~overwritten => CopyHasWork(e))
  BY DEF RecordInv
<1>3. Among(e)' = Among(e) /\ Among(e) \in SUBSET Item
  BY <1>1 DEF Among
<1>4. ASSUME ~overwritten, at[e] \in Copying, e \notin behind' PROVE HasWork(copy[e].contracts, items', Among(e))
  <2>1. e \notin behind /\ \A i \in Item : items'[i].status = "completed" => items[i].status = "completed"
    BY <1>4
  <2>2. HasWork(copy[e].contracts, items, Among(e))
    BY <1>2, <1>4, <2>1 DEF CopyHasWork
  <2>. QED
    BY <1>3, <2>1, <2>2, StillWork
<1>. QED
  BY <1>1, <1>2, <1>3, <1>4 DEF CopyHasWork

\* A driver that stops or goes on without a copy
LEMMA NoCopy ==
  ASSUME TypeInv, RecordInv, NEW d \in Driver, NEW step, step \notin Copying, NEW w, NEW c, NEW mem,
         GoesTo(d, step, w, c, mem), UNCHANGED <<intel, items, overwritten>>,
         Driver \ behind' \subseteq (Driver \ behind) \cup {d}
  PROVE  RecordInv'
<1>1. at'[d] = step
  BY GotoFields
<1>2. \A e \in Driver \ {d} : /\ at'[e] \in Copying => WellFormed(copy'[e])
                              /\ ~overwritten => CopyHasWork(e)'
  BY OtherCopies
<1>3. ~overwritten => HasWork(intel.contracts, items, Item)
  BY DEF RecordInv
<1>. QED
  BY <1>1, <1>2, <1>3 DEF RecordInv, CopyHasWork

\* A driver that stores its copy
LEMMA StoresCopy ==
  ASSUME TypeInv, RecordInv, NEW d \in Driver, NEW step, step \notin Copying, NEW w, NEW mem,
         at[d] \in Copying, Stores(d), GoesTo(d, step, w, None, mem),
         HasWork(copy[d].contracts, items, Among(d)) => HasWork(copy[d].contracts, items', Item)
  PROVE  RecordInv'
<1>1. at'[d] = step /\ intel' = copy[d] /\ behind' = Driver \ {d} /\ overwritten' = (overwritten \/ d \in behind)
  BY GotoFields DEF Stores
<1>2. \A e \in Driver \ {d} : /\ at'[e] \in Copying => WellFormed(copy'[e])
                              /\ ~overwritten => CopyHasWork(e)'
  BY <1>1, OtherCopies
<1>3. WellFormed(intel')
  BY <1>1 DEF RecordInv
<1>4. ASSUME ~overwritten' PROVE HasWork(intel'.contracts, items', Item)
  <2>1. ~overwritten /\ d \notin behind
    BY <1>1, <1>4
  <2>2. HasWork(copy[d].contracts, items, Among(d))
    BY <2>1 DEF RecordInv, CopyHasWork
  <2>. QED
    BY <1>1, <2>2
<1>5. ~overwritten' => ~overwritten
  BY <1>1
<1>. QED
  BY <1>1, <1>2, <1>3, <1>4, <1>5 DEF RecordInv, CopyHasWork

\* A driver that takes a copy
LEMMA TakesCopy ==
  ASSUME TypeInv, RecordInv, NEW d \in Driver, NEW step, NEW w, NEW c, NEW mem,
         Reads(d), GoesTo(d, step, w, c, mem), UNCHANGED <<intel, overwritten>>,
         \A i \in Item : items'[i].status = "completed" => items[i].status = "completed",
         WellFormed(c), 
         HasWork(intel.contracts, items', Item) => HasWork(c.contracts, items', Among(d)')
  PROVE  RecordInv'
<1>1. at'[d] = step /\ copy'[d] = c /\ behind' = behind \ {d}
  BY GotoFields DEF Reads
<1>2. \A e \in Driver \ {d} : /\ at'[e] \in Copying => WellFormed(copy'[e])
                              /\ ~overwritten => CopyHasWork(e)'
  BY <1>1, OtherCopies
<1>3. ~overwritten => HasWork(intel.contracts, items', Item)
  <2>1. ~overwritten => HasWork(intel.contracts, items, Item)
    BY DEF RecordInv
  <2>. QED
    BY <2>1, StillWork
<1>4. ~overwritten => CopyHasWork(d)'
  BY <1>1, <1>3 DEF CopyHasWork
<1>. QED
  BY <1>1, <1>2, <1>3, <1>4 DEF RecordInv

\* Nobody moves, and what is taken back is not completed.
LEMMA NobodyMoves ==
  ASSUME TypeInv, RecordInv, UNCHANGED <<intel, at, work, copy, behind, overwritten>>,
         \A i \in Item : items'[i].status = "completed" => items[i].status = "completed"
  PROVE  RecordInv'
<1>1. ASSUME NEW e \in Driver, ~overwritten PROVE CopyHasWork(e)'
  <2>1. CopyHasWork(e) /\ Among(e) \in SUBSET Item /\ Among(e)' = Among(e)
    BY <1>1 DEF RecordInv, Among
  <2>2. HasWork(copy[e].contracts, items, Among(e)) => HasWork(copy[e].contracts, items', Among(e))
    BY <2>1, StillWork
  <2>. QED
    BY <2>1, <2>2 DEF CopyHasWork
<1>2. ~overwritten => HasWork(intel.contracts, items', Item)
  <2>1. ~overwritten => HasWork(intel.contracts, items, Item)
    BY DEF RecordInv
  <2>. QED
    BY <2>1, StillWork
<1>. QED
  BY <1>1, <1>2 DEF RecordInv

LEMMA RecordSteps ==
  ASSUME TypeInv, RecordInv, [FabricNext]_fabricVars
  PROVE  RecordInv'
<1>0. WellFormed(intel)
  BY DEF RecordInv
<1>1. ASSUME NEW d \in Driver, Claim(d) PROVE RecordInv'
  <2>. DEFINE S == {j \in Item : Ready(j)}
              i == Earliest(S)
              w == <<i, items[i].attempts + 1>>
              c == Contracted(intel, items', i)
  <2>1. S \in SUBSET Item /\ S # {}
    BY <1>1 DEF Claim
  <2>2. i \in Item
    <3>. HIDE DEF S
    <3>. QED
      BY <2>1, EarliestIsIn
  <2>3. /\ items' = Tried(i) /\ GoesTo(d, "prepare", w, c, << >>)
        /\ Reads(d) /\ UNCHANGED <<intel, overwritten>>
    BY <1>1 DEF Claim, history
  <2>. HIDE DEF S, i
  <2>4. /\ items'[i].status = "running" /\ \A j \in Item \ {i} : items'[j] = items[j]
    BY <2>2, <2>3, TriedFields
  <2>5. \A j \in Item : items'[j].status = "completed" => items[j].status = "completed"
    BY <2>2, <2>4
  <2>6. WellFormed(c) /\ (HasWork(intel.contracts, items', Item) => HasWork(c.contracts, items', Item))
    BY <1>0, <2>2, <2>4, ContractedWork
  <2>7. Among(d)' = Item
    <3>1. at'[d] = "prepare"
      BY <2>3, GotoFields
    <3>. QED
      BY <3>1 DEF Among
  <2>. HIDE DEF w, c
  <2>. QED
    BY <2>3, <2>5, <2>6, <2>7, TakesCopy
<1>2. ASSUME NEW d \in Driver, PrepareFails(d) \/ Unprocessable(d) \/ Stale(d) PROVE RecordInv'
  <2>1. GoesTo(d, "off", None, None, << >>) /\ UNCHANGED <<intel, items, behind, overwritten>>
    BY <1>2 DEF PrepareFails, Unprocessable, Stale, mission, history, Stop
  <2>2. "off" \notin Copying
    BY DEF Copying
  <2>. QED
    BY <2>1, <2>2, NoCopy
<1>3. ASSUME NEW d \in Driver, Prepare(d) PROVE RecordInv'
  <2>1. "off" \notin Copying /\ "execute" \notin Copying /\ at[d] \in Copying /\ UNCHANGED items
    BY <1>3 DEF Copying, Prepare, mission
  <2>2. CASE Stores(d) /\ GoesTo(d, "execute", work[d], None, << >>)
    <3>1. Among(d) = Item
      BY <1>3 DEF Among, Prepare
    <3>. QED
      BY <2>1, <2>2, <3>1, StoresCopy
  <2>3. CASE GoesTo(d, "off", None, None, << >>) /\ UNCHANGED <<intel, behind, overwritten>>
    BY <2>1, <2>3, NoCopy
  <2>. QED
    BY <1>3, <2>2, <2>3 DEF Prepare, Stop
<1>4. ASSUME NEW d \in Driver, NEW success \in BOOLEAN, NEW verified \in BOOLEAN, NEW files,
             Report(d, success, verified, files)
      PROVE  RecordInv'
  <2>. DEFINE s == IF success THEN IF verified THEN "verified" ELSE "success" ELSE "failure"
              c == Processed(intel, items, work[d], success, files)
              mem == IF success THEN MemoriesOf(work[d], verified) ELSE << >>
  <2>1. Reads(d) /\ UNCHANGED <<intel, items, overwritten>>
    BY <1>4 DEF Report, mission, history
  <2>2. CASE GoesTo(d, s, work[d], c, mem)
    <3>1. /\ WellFormed(c)
          /\ HasWork(intel.contracts, items, Item) => HasWork(c.contracts, items, Item \ {work[d][1]})
      BY <1>0, ProcessedWork
    <3>. HIDE DEF c, s, mem
    <3>2. at'[d] = s /\ work'[d] = work[d]
      BY <2>2, GotoFields
    <3>3. Among(d)' \in {Item, Item \ {work[d][1]}}
      BY <3>2 DEF Among
    <3>4. HasWork(c.contracts, items, Item \ {work[d][1]}) => HasWork(c.contracts, items, Item)
      BY AmongAll
    <3>5. HasWork(intel.contracts, items', Item) => HasWork(c.contracts, items', Among(d)')
      BY <2>1, <3>1, <3>3, <3>4
    <3>. QED
      BY <2>1, <2>2, <3>1, <3>5, TakesCopy
  <2>3. CASE Stop(d)
    <3>1. GoesTo(d, "off", None, None, << >>) /\ "off" \notin Copying /\ behind' = behind \ {d}
      BY <2>1, <2>3 DEF Stop, Copying, Reads
    <3>. HIDE DEF c, s, mem
    <3>. QED
      BY <2>1, <3>1, NoCopy
  <2>. QED
    BY <1>4, <2>2, <2>3 DEF Report
<1>5. ASSUME NEW d \in Driver, Complete(d) PROVE RecordInv'
  <2>1. /\ at[d] \in {"verified", "success"} /\ Stores(d) /\ items' = WithStatus(work[d][1], "completed")
        /\ \E step \in {"remember verified", "remember"} : GoesTo(d, step, work[d], None, todo[d])
    BY <1>5 DEF Complete
  <2>2. at[d] \in Working /\ at[d] \in Copying /\ {"remember verified", "remember"} \cap Copying = {}
    BY <2>1 DEF Working, Copying
  <2>3. work[d][1] \in Item
    BY <2>2, AtWork
  <2>4. \A j \in Item \ {work[d][1]} : items'[j] = items[j]
    BY <2>1, <2>3, ItemFields
  <2>5. Among(d) = Item \ {work[d][1]}
    BY <2>1 DEF Among
  <2>6. HasWork(copy[d].contracts, items, Among(d)) => HasWork(copy[d].contracts, items', Item)
    BY <2>4, <2>5 DEF HasWork
  <2>. QED
    BY <2>1, <2>2, <2>6, StoresCopy
<1>6. ASSUME NEW d \in Driver, CompleteFailure(d) PROVE RecordInv'
  <2>1. at[d] = "failure" /\ Stores(d) /\ GoesTo(d, "off", None, None, << >>) /\ FailItems(d)
    BY <1>6 DEF CompleteFailure, FailItems, Stop
  <2>2. at[d] \in Working /\ at[d] \in Copying /\ "off" \notin Copying /\ Among(d) = Item
    BY <2>1 DEF Working, Copying, Among
  <2>3. \A j \in Item : items'[j].status = "completed" => items[j].status = "completed"
    BY <2>1, <2>2, FailFields
  <2>4. HasWork(copy[d].contracts, items, Item) => HasWork(copy[d].contracts, items', Item)
    BY <2>3, StillWork
  <2>. QED
    BY <2>1, <2>2, <2>4, StoresCopy
<1>7. ASSUME NEW d \in Driver, Remember(d) PROVE RecordInv'
  <2>1. /\ at[d] \in {"remember", "remember verified"} /\ UNCHANGED <<intel, items, behind, overwritten>>
        /\ GoesTo(d, "off", None, None, << >>) \/ GoesTo(d, at[d], work[d], None, Tail(todo[d]))
    BY <1>7 DEF Remember, mission, history, Stop
  <2>2. at[d] \notin Copying /\ "off" \notin Copying
    BY <2>1 DEF Copying
  <2>. QED
    BY <2>1, <2>2, NoCopy
<1>8. ASSUME NEW d \in Driver, Gather(d) PROVE RecordInv'
  <2>1. /\ GoesTo(d, "conclude", None, intel, << >>) /\ Reads(d) /\ UNCHANGED <<intel, items, overwritten>>
    BY <1>8 DEF Gather, mission, history
  <2>2. at'[d] = "conclude"
    BY <2>1, GotoFields
  <2>3. Among(d)' = Item
    BY <2>2 DEF Among
  <2>. QED
    BY <1>0, <2>1, <2>3, TakesCopy
<1>9. ASSUME NEW d \in Driver, Conclude(d) PROVE RecordInv'
  <2>1. at[d] = "conclude" /\ Stores(d) /\ GoesTo(d, "off", None, None, << >>) /\ UNCHANGED items
    BY <1>9 DEF Conclude, Stop
  <2>2. at[d] \in Copying /\ "off" \notin Copying /\ Among(d) = Item
    BY <2>1 DEF Copying, Among
  <2>. QED
    BY <2>1, <2>2, StoresCopy
<1>10. CASE OutOfTicks
  BY <1>10, NobodyMoves DEF OutOfTicks, driver, history
<1>11. ASSUME NEW i \in Item, Recover(i) PROVE RecordInv'
  <2>1. items'[i].status = "pending" /\ \A j \in Item \ {i} : items'[j] = items[j]
    BY <1>11, ItemFields DEF Recover
  <2>2. \A j \in Item : items'[j].status = "completed" => items[j].status = "completed"
    BY <2>1
  <2>. QED
    BY <1>11, <2>2, NobodyMoves DEF Recover, driver, history
<1>12. CASE Curate
  BY <1>12, NobodyMoves DEF Curate, driver, mission
<1>13. CASE UNCHANGED fabricVars
  BY <1>13, NobodyMoves DEF fabricVars
<1>. QED
  BY <1>1, <1>2, <1>3, <1>4, <1>5, <1>6, <1>7, <1>8, <1>9, <1>10, <1>11, <1>12, <1>13 DEF FabricNext, Reports

-----------------------------------------------------------------------------
(* The gate *)

\* While something runs or waits, nobody concludes and nothing is completed.
LEMMA Undone ==
  ASSUME GateInv, NEW i \in Item, items[i].status # "completed"
  PROVE  status # "completed" /\ \A d \in Driver : at[d] # "conclude"
  BY DEF GateInv, AllDone

\* A step that starts nothing new at the gate.
LEMMA NotAtTheGate ==
  ASSUME TypeInv, GateInv, NEW d \in Driver, NEW step, step # "conclude", NEW w, NEW c, NEW mem,
         GoesTo(d, step, w, c, mem), UNCHANGED <<status, items, intel>>
  PROVE  GateInv'
<1>1. at'[d] = step /\ \A e \in Driver \ {d} : at'[e] = at[e]
  BY GotoFields
<1>2. (\E e \in Driver : at'[e] = "conclude") => \E e \in Driver : at[e] = "conclude"
  BY <1>1
<1>. QED
  BY <1>2 DEF GateInv, AllDone, TerminalPassed, ImpactsAddressed, Open

LEMMA Unfinished ==
  ASSUME TypeInv, GateInv, NEW i \in Item, items[i].status # "completed", NEW d \in Driver,
         NEW step, step # "conclude", NEW w, NEW c, NEW mem, GoesTo(d, step, w, c, mem),
         status' # "completed" \/ UNCHANGED status
  PROVE  GateInv'
<1>1. at'[d] = step /\ \A e \in Driver \ {d} : at'[e] = at[e]
  BY GotoFields
<1>2. status # "completed" /\ \A e \in Driver : at[e] # "conclude"
  BY Undone
<1>. QED
  BY <1>1, <1>2 DEF GateInv

LEMMA GateSteps ==
  ASSUME TypeInv, GateInv, [FabricNext]_fabricVars
  PROVE  GateInv'
<1>1. ASSUME NEW d \in Driver, Claim(d) PROVE GateInv'
  <2>1. PICK i \in Item : items[i].status = "pending"
    BY <1>1 DEF Claim, Ready
  <2>2. PICK w, c : GoesTo(d, "prepare", w, c, << >>)
    BY <1>1 DEF Claim
  <2>. QED
    BY <1>1, <2>1, <2>2, Unfinished DEF Claim
<1>2. ASSUME NEW d \in Driver,
             PrepareFails(d) \/ Unprocessable(d) \/ Stale(d) \/ Remember(d) \/ Reports(d)
      PROVE  GateInv'
  <2>1. UNCHANGED <<status, items, intel>>
    BY <1>2 DEF PrepareFails, Unprocessable, Stale, Remember, Reports, Report, mission
  <2>2. \E step, w, c, mem : step # "conclude" /\ GoesTo(d, step, w, c, mem)
    <3>1. CASE Stop(d)
      BY <3>1 DEF Stop
    <3>2. CASE Remember(d)
      BY <3>2 DEF Remember, Stop
    <3>3. CASE Reports(d)
      <4>0. PICK files : \E success, verified \in BOOLEAN : Report(d, success, verified, files)
        BY <3>3 DEF Reports
      <4>1. PICK success, verified \in BOOLEAN : Report(d, success, verified, files)
        BY <4>0
      <4>2. Stop(d) \/ \E c, mem :
              GoesTo(d, IF success THEN IF verified THEN "verified" ELSE "success" ELSE "failure", work[d], c, mem)
        BY <4>1 DEF Report
      <4>. QED
        BY <3>1, <4>2
    <3>. QED
      BY <1>2, <3>1, <3>2, <3>3 DEF PrepareFails, Unprocessable, Stale
  <2>. QED
    BY <2>1, <2>2, NotAtTheGate
<1>3. ASSUME NEW d \in Driver, Prepare(d) PROVE GateInv'
  <2>1. work[d][1] \in Item /\ UNCHANGED <<status, items>>
    BY <1>3, AtWork DEF Prepare, Working, mission
  <2>2. CASE StillClaimed(work[d]) /\ GoesTo(d, "execute", work[d], None, << >>)
    BY <2>1, <2>2, Unfinished DEF StillClaimed, Current
  <2>3. CASE GoesTo(d, "off", None, None, << >>) /\ UNCHANGED intel
    BY <2>1, <2>3, NotAtTheGate
  <2>. QED
    BY <1>3, <2>2, <2>3 DEF Prepare, Stop
<1>4. ASSUME NEW d \in Driver, Complete(d) PROVE GateInv'
  <2>1. work[d][1] \in Item /\ items[work[d][1]].status = "running" /\ UNCHANGED status
    BY <1>4, AtWork DEF Complete, Working, Current
  <2>2. PICK step \in {"remember verified", "remember"} : GoesTo(d, step, work[d], None, todo[d])
    BY <1>4 DEF Complete
  <2>. QED
    BY <2>1, <2>2, Unfinished
<1>5. ASSUME NEW d \in Driver, CompleteFailure(d) PROVE GateInv'
  <2>1. work[d][1] \in Item /\ items[work[d][1]].status = "running"
    BY <1>5, AtWork DEF CompleteFailure, Working, Current
  <2>2. GoesTo(d, "off", None, None, << >>) /\ (status' # "completed" \/ UNCHANGED status)
    BY <1>5 DEF CompleteFailure, Stop
  <2>. QED
    BY <2>1, <2>2, Unfinished
<1>6. ASSUME NEW d \in Driver, Gather(d) PROVE GateInv'
  <2>1. AllDone' /\ status' # "completed"
    BY <1>6 DEF Gather, AllDone, mission
  <2>. QED
    BY <2>1 DEF GateInv
<1>7. ASSUME NEW d \in Driver, Conclude(d) PROVE GateInv'
  <2>1. AllDone
    BY <1>7 DEF GateInv, Conclude
  <2>2. AllDone'
    BY <1>7, <2>1 DEF AllDone, Conclude
  <2>3. intel' = copy[d]
    BY <1>7 DEF Conclude, Stores
  <2>4. status' = "completed" => TerminalPassed(copy[d])
    BY <1>7 DEF Conclude
  <2>5. status' = "completed" => TerminalPassed(intel)'
    BY <2>3, <2>4 DEF TerminalPassed, ImpactsAddressed, Open
  <2>. QED
    BY <2>2, <2>5 DEF GateInv
<1>8. CASE OutOfTicks
  <2>1. status' = "partial" /\ UNCHANGED <<items, at>>
    BY <1>8 DEF OutOfTicks, driver
  <2>. QED
    BY <2>1 DEF GateInv, AllDone
<1>9. ASSUME NEW i \in Item, Recover(i) PROVE GateInv'
  <2>1. items[i].status = "running" /\ UNCHANGED <<status, at>>
    BY <1>9 DEF Recover, driver
  <2>2. status # "completed" /\ \A d \in Driver : at[d] # "conclude"
    BY <2>1, Undone
  <2>. QED
    BY <2>1, <2>2 DEF GateInv
<1>10. CASE Curate \/ UNCHANGED fabricVars
  <2>1. UNCHANGED <<status, items, intel, at>>
    BY <1>10 DEF Curate, mission, driver, fabricVars
  <2>. QED
    BY <2>1 DEF GateInv, AllDone, TerminalPassed, ImpactsAddressed, Open
<1>. QED
  BY <1>1, <1>2, <1>3, <1>4, <1>5, <1>6, <1>7, <1>8, <1>9, <1>10 DEF FabricNext

-----------------------------------------------------------------------------
(* The memory *)

\* A verification captures itself, and what was made.
LEMMA Captured ==
  ASSUME TypeInv, NEW w
  PROVE  MemoriesOf(w, TRUE) \in Seq(Captures(w)) /\ MemoriesOf(w, TRUE) # << >>
<1>. DEFINE made == {<<"artifact", w, c>> : c \in candidates}
            first == <<"verification", w, w>>
<1>1. IsFiniteSet(made)
  <2>1. IsFiniteSet(candidates)
    BY DEF TypeInv
  <2>2. [c \in candidates |-> <<"artifact", w, c>>] \in Surjection(candidates, made)
    BY DEF Surjection
  <2>. QED
    BY <2>1, <2>2, FS_Surjection
<1>2. made \subseteq Captures(w) /\ first \in Captures(w)
  BY DEF TypeInv, Captures
<1>. HIDE DEF made, first
<1>3. Seqs!SetToSeq(made) \in Seq(made)
  BY <1>1, Sequenced
<1>4. Seqs!SetToSeq(made) \in Seq(Captures(w))
  BY <1>2, <1>3
<1>5. <<first>> \o Seqs!SetToSeq(made) \in Seq(Captures(w)) /\ <<first>> \o Seqs!SetToSeq(made) # << >>
  BY <1>2, <1>4
<1>. QED
  BY <1>5 DEF MemoriesOf, made, first

LEMMA Rest ==
  ASSUME NEW S, NEW s \in Seq(S), s # << >>
  PROVE  Tail(s) \in Seq(S) /\ Len(Tail(s)) = Len(s) - 1
  OBVIOUS

\* A driver that goes elsewhere than to what it verified, and memories that stay.
LEMMA NothingRemembered ==
  ASSUME TypeInv, MemoryInv, NEW d \in Driver, NEW step, NEW w, NEW c, NEW mem,
         GoesTo(d, step, w, c, mem), UNCHANGED memory, earned \subseteq earned',
         HasCaptured(step, w, mem), step = "remember verified" => w \in earned'
  PROVE  MemoryInv'
<1>1. /\ at'[d] = step /\ work'[d] = w /\ todo'[d] = mem
      /\ \A e \in Driver \ {d} : at'[e] = at[e] /\ work'[e] = work[e] /\ todo'[e] = todo[e]
  BY ONLY GotoFields, TypeInv, GoesTo(d, step, w, c, mem)
<1>2. \A m \in DOMAIN memory : IsEntry(memory[m])
  BY DEF MemoryInv
<1>3. VerifiedMemoryIsEarned'
  BY DEF MemoryInv, VerifiedMemoryIsEarned
<1>4. \A e \in Driver : HasCaptured(at'[e], work'[e], todo'[e])
  BY <1>1 DEF MemoryInv
<1>5. \A e \in Driver : at'[e] = "remember verified" => work'[e] \in earned'
  BY <1>1 DEF MemoryInv
<1>. QED
  BY <1>2, <1>3, <1>4, <1>5 DEF MemoryInv

LEMMA MemorySteps ==
  ASSUME TypeInv, MemoryInv, [FabricNext]_fabricVars
  PROVE  MemoryInv'
<1>1. ASSUME NEW d \in Driver, Stop(d), UNCHANGED <<memory, earned>> PROVE MemoryInv'
  BY <1>1, NothingRemembered DEF Stop, Verifying, HasCaptured
<1>2. ASSUME NEW d \in Driver, Claim(d) PROVE MemoryInv'
  <2>1. PICK w, c : GoesTo(d, "prepare", w, c, << >>)
    BY <1>2 DEF Claim
  <2>. QED
    BY <1>2, <2>1, NothingRemembered DEF Claim, history, Verifying, HasCaptured
<1>3. ASSUME NEW d \in Driver, PrepareFails(d) \/ Unprocessable(d) \/ Stale(d) PROVE MemoryInv'
  BY <1>1, <1>3 DEF PrepareFails, Unprocessable, Stale, history
<1>4. ASSUME NEW d \in Driver, Prepare(d) PROVE MemoryInv'
  <2>1. UNCHANGED <<memory, earned>> /\ (Stop(d) \/ GoesTo(d, "execute", work[d], None, << >>))
    BY <1>4 DEF Prepare
  <2>2. "execute" \notin Verifying /\ "execute" # "remember verified"
    BY DEF Verifying
  <2>. QED
    BY <1>1, <2>1, <2>2, NothingRemembered DEF HasCaptured
<1>5. ASSUME NEW d \in Driver, NEW success \in BOOLEAN, NEW verified \in BOOLEAN, NEW files,
             Report(d, success, verified, files)
      PROVE  MemoryInv'
  <2>. DEFINE s == IF success THEN IF verified THEN "verified" ELSE "success" ELSE "failure"
              mem == IF success THEN MemoriesOf(work[d], verified) ELSE << >>
  <2>1. UNCHANGED <<memory, earned>> /\ (verified => success)
    BY <1>5 DEF Report, history
  <2>2. Stop(d) \/ \E c : GoesTo(d, s, work[d], c, mem)
    BY <1>5 DEF Report
  <2>3. s # "remember verified" /\ (s \in Verifying => success /\ verified)
    BY DEF Verifying
  <2>4. success /\ verified => mem = MemoriesOf(work[d], TRUE)
    BY <2>1
  <2>5. HasCaptured(s, work[d], mem)
    <3>. HIDE DEF mem, s
    <3>. QED
      BY <2>3, <2>4, Captured DEF HasCaptured
  <2>. HIDE DEF mem, s
  <2>. QED
    BY <1>1, <2>1, <2>2, <2>3, <2>5, NothingRemembered
<1>6. ASSUME NEW d \in Driver, Complete(d) PROVE MemoryInv'
  <2>1. UNCHANGED memory /\ at[d] \in {"verified", "success"}
    BY <1>6 DEF Complete
  <2>2. CASE at[d] = "verified"
    <3>1. GoesTo(d, "remember verified", work[d], None, todo[d]) /\ earned' = earned \cup {work[d]}
      BY <1>6, <2>2 DEF Complete
    <3>2. todo[d] \in Seq(Captures(work[d])) /\ todo[d] # << >>
      BY <2>2 DEF MemoryInv, Verifying, HasCaptured
    <3>. QED
      BY <2>1, <3>1, <3>2, NothingRemembered DEF HasCaptured
  <2>3. CASE at[d] # "verified"
    <3>1. GoesTo(d, "remember", work[d], None, todo[d]) /\ UNCHANGED earned
      BY <1>6, <2>3 DEF Complete
    <3>2. "remember" \notin Verifying /\ "remember" # "remember verified"
      BY DEF Verifying
    <3>. QED
      BY <2>1, <3>1, <3>2, NothingRemembered DEF HasCaptured
  <2>. QED
    BY <2>2, <2>3
<1>7. ASSUME NEW d \in Driver, CompleteFailure(d) PROVE MemoryInv'
  BY <1>1, <1>7 DEF CompleteFailure
<1>8. ASSUME NEW d \in Driver, Remember(d) PROVE MemoryInv'
  <2>. DEFINE verified == at[d] = "remember verified"
              m == Head(todo[d])
              entry == CapturedEntry(work[d], verified)
  <2>1. /\ memory' = [n \in DOMAIN memory \cup {m} |-> IF n \in DOMAIN memory THEN memory[n] ELSE entry]
        /\ UNCHANGED earned
    BY <1>8 DEF Remember, With, history
  <2>2. IsEntry(entry) /\ (entry.status = "verified" <=> verified)
    BY DEF IsEntry, CapturedEntry
  <2>3. at[d] \in Verifying => verified
    BY <1>8 DEF Remember, Verifying
  <2>4. verified => todo[d] \in Seq(Captures(work[d])) /\ todo[d] # << >> /\ work[d] \in earned
    BY DEF MemoryInv, Verifying, HasCaptured
  <2>5. verified => m \in Captures(work[d])
    <3>. HIDE DEF verified
    <3>. QED
      BY <2>4
  <2>6. verified => m[1] \in {"verification", "artifact"} /\ m[2] \in earned
    <3>. HIDE DEF verified, m
    <3>. QED
      BY <2>4, <2>5 DEF Captures
  <2>7. ASSUME verified, Len(todo[d]) # 1
        PROVE  Tail(todo[d]) \in Seq(Captures(work[d])) /\ Tail(todo[d]) # << >>
    <3>1. todo[d] \in Seq(Captures(work[d])) /\ todo[d] # << >>
      BY <2>4, <2>7
    <3>. HIDE DEF verified, m
    <3>2. PICK s \in Seq(Captures(work[d])) : s = todo[d] /\ s # << >> /\ Len(s) # 1
      BY <2>7, <3>1
    <3>3. Len(s) \in Nat /\ Len(s) # 0
      BY <3>2
    <3>4. Tail(s) \in Seq(Captures(work[d])) /\ Len(Tail(s)) = Len(s) - 1
      BY <3>2, Rest
    <3>5. Len(Tail(s)) # 0
      BY <3>2, <3>3, <3>4
    <3>. QED
      BY <3>2, <3>4, <3>5
  <2>8. \E step, w, mem : /\ GoesTo(d, step, w, None, mem)
                          /\ step \in Verifying => verified /\ w = work[d] /\ mem = Tail(todo[d]) /\ Len(todo[d]) # 1
    <3>1. CASE Stop(d)
      <4>1. GoesTo(d, "off", None, None, << >>) /\ "off" \notin Verifying
        BY <3>1 DEF Stop, Verifying
      <4>. HIDE DEF verified, m, entry
      <4>. QED
        BY <4>1
    <3>2. CASE Len(todo[d]) # 1 /\ GoesTo(d, at[d], work[d], None, Tail(todo[d]))
      BY <2>3, <3>2
    <3>. QED
      BY <1>8, <3>1, <3>2 DEF Remember
  <2>. HIDE DEF verified, m, entry
  <2>9. PICK step, w, mem : /\ GoesTo(d, step, w, None, mem)
                            /\ step \in Verifying => verified /\ w = work[d] /\ mem = Tail(todo[d]) /\ Len(todo[d]) # 1
    BY <2>8
  <2>10. /\ at'[d] = step /\ work'[d] = w /\ todo'[d] = mem
         /\ \A e \in Driver \ {d} : at'[e] = at[e] /\ work'[e] = work[e] /\ todo'[e] = todo[e]
    BY <2>9, GotoFields
  <2>11. \A n \in DOMAIN memory' : IsEntry(memory'[n])
    BY <2>1, <2>2 DEF MemoryInv
  <2>12. VerifiedMemoryIsEarned'
    BY <2>1, <2>2, <2>6 DEF MemoryInv, VerifiedMemoryIsEarned
  <2>13. \A e \in Driver : HasCaptured(at'[e], work'[e], todo'[e])
    BY <2>7, <2>9, <2>10 DEF MemoryInv, HasCaptured
  <2>14. \A e \in Driver : at'[e] = "remember verified" => work'[e] \in earned'
    <3>1. "remember verified" \in Verifying
      BY DEF Verifying
    <3>. QED
      BY <2>1, <2>4, <2>9, <2>10, <3>1 DEF MemoryInv
  <2>. QED
    BY <2>11, <2>12, <2>13, <2>14 DEF MemoryInv
<1>9. ASSUME NEW d \in Driver, Gather(d) PROVE MemoryInv'
  BY <1>9, NothingRemembered DEF Gather, history, Verifying, HasCaptured
<1>10. ASSUME NEW d \in Driver, Conclude(d) PROVE MemoryInv'
  BY <1>1, <1>10 DEF Conclude
<1>11. CASE OutOfTicks \/ \E i \in Item : Recover(i)
  BY <1>11 DEF OutOfTicks, Recover, MemoryInv, VerifiedMemoryIsEarned, driver, history
<1>12. CASE Curate
  <2>1. UNCHANGED <<at, work, todo, earned>>
    BY <1>12 DEF Curate, driver
  <2>2. \A m \in DOMAIN memory : IsEntry(memory[m])
    BY DEF MemoryInv
  <2>3. ASSUME NEW m, NEW role, NEW s, RememberThat(m, role, s)
        PROVE  (\A n \in DOMAIN memory' : IsEntry(memory'[n])) /\ VerifiedMemoryIsEarned'
    <3>. DEFINE entry == [status |-> "proposed", role |-> role, verified_by |-> None, sensitivity |-> s]
    <3>1. memory' = [n \in DOMAIN memory \cup {m} |-> IF n \in DOMAIN memory THEN memory[n] ELSE entry]
      BY <2>3 DEF RememberThat, With
    <3>2. IsEntry(entry) /\ entry.status # "verified"
      BY DEF IsEntry
    <3>. HIDE DEF entry
    <3>. QED
      BY <2>1, <2>2, <3>1, <3>2 DEF MemoryInv, VerifiedMemoryIsEarned
  <2>4. ASSUME NEW m \in DOMAIN memory, NEW role, Promote(m, role)
        PROVE  (\A n \in DOMAIN memory' : IsEntry(memory'[n])) /\ VerifiedMemoryIsEarned'
    <3>. DEFINE entry == [memory[m] EXCEPT !.status = "verified", !.verified_by = role]
    <3>1. IsEntry(memory[m])
      BY <2>2
    <3>2. IsEntry(entry) /\ entry.verified_by = role /\ entry.role = memory[m].role
      BY <3>1 DEF IsEntry
    <3>3. memory' = [memory EXCEPT ![m] = entry] /\ role # memory[m].role
      BY <2>4 DEF Promote
    <3>. HIDE DEF entry
    <3>4. DOMAIN memory' = DOMAIN memory /\ memory'[m] = entry /\ \A n \in DOMAIN memory \ {m} : memory'[n] = memory[n]
      BY <3>3
    <3>5. \A n \in DOMAIN memory' : IsEntry(memory'[n])
      BY <2>2, <3>2, <3>4
    <3>. QED
      BY <2>1, <3>2, <3>3, <3>4, <3>5 DEF MemoryInv, VerifiedMemoryIsEarned
  <2>5. ASSUME NEW m \in DOMAIN memory, NEW s \in {"rejected", "superseded"}, Retire(m, s)
        PROVE  (\A n \in DOMAIN memory' : IsEntry(memory'[n])) /\ VerifiedMemoryIsEarned'
    <3>. DEFINE entry == [memory[m] EXCEPT !.status = s]
    <3>1. IsEntry(memory[m])
      BY <2>2
    <3>2. IsEntry(entry) /\ entry.status # "verified"
      BY <3>1 DEF IsEntry
    <3>3. memory' = [memory EXCEPT ![m] = entry]
      BY <2>5 DEF Retire
    <3>. HIDE DEF entry
    <3>4. DOMAIN memory' = DOMAIN memory /\ memory'[m] = entry /\ \A n \in DOMAIN memory \ {m} : memory'[n] = memory[n]
      BY <3>3
    <3>5. \A n \in DOMAIN memory' : IsEntry(memory'[n])
      BY <2>2, <3>2, <3>4
    <3>. QED
      BY <2>1, <3>2, <3>4, <3>5 DEF MemoryInv, VerifiedMemoryIsEarned
  <2>6. (\A n \in DOMAIN memory' : IsEntry(memory'[n])) /\ VerifiedMemoryIsEarned'
    BY <1>12, <2>3, <2>4, <2>5 DEF Curate
  <2>. QED
    BY <2>1, <2>6 DEF MemoryInv
<1>13. CASE UNCHANGED fabricVars
  BY <1>13 DEF fabricVars, MemoryInv, VerifiedMemoryIsEarned
<1>. QED
  BY <1>2, <1>3, <1>4, <1>5, <1>6, <1>7, <1>8, <1>9, <1>10, <1>11, <1>12, <1>13 DEF FabricNext, Reports

-----------------------------------------------------------------------------
(* The whole *)

\* Nothing has begun.
LEMMA Initially == FabricInit => FabricIInv
<1>. SUFFICES ASSUME FabricInit PROVE FabricIInv
  OBVIOUS
<1>1. items \in [Item -> ItemRecord] /\ IsFiniteSet({})
  BY FS_EmptySet DEF FabricInit, ItemRecord
<1>2. TypeInv
  BY <1>1 DEF FabricInit, TypeInv, Working
<1>3. RecordInv
  <2>1. intel.contracts = {} /\ "contracts" \in DOMAIN intel /\ \A d \in Driver : at[d] = "off"
    BY DEF FabricInit
  <2>. QED
    BY <2>1 DEF RecordInv, WellFormed, HasWork, CopyHasWork, Copying
<1>4. GateInv
  BY DEF FabricInit, GateInv
<1>5. MemoryInv
  BY DEF FabricInit, MemoryInv, VerifiedMemoryIsEarned, Verifying, HasCaptured
<1>. QED
  BY <1>2, <1>3, <1>4, <1>5 DEF FabricIInv

\* Every step preserves the invariant.
LEMMA Invariance == FabricIInv /\ [FabricNext]_fabricVars => FabricIInv'
  BY TypeSteps, RecordSteps, GateSteps, MemorySteps DEF FabricIInv

\* What is kept has its types.
THEOREM FabricTypeCorrect == FabricSpec => []FabricTypeOK
<1>1. FabricIInv => FabricTypeOK
  BY DEF FabricIInv, TypeInv, MemoryInv, IsEntry, ItemRecord, FabricTypeOK
<1>. QED
  BY Initially, Invariance, <1>1, PTL DEF FabricSpec

\* A mission that the terminal gate has let through (verification-runtime.mjs: verifyTerminal)
\* keeps its contracts closed and its severe impacts reviewed, whoever comes late.
THEOREM Gate == FabricSpec => []GateMeansClosed
<1>1. FabricIInv => GateMeansClosed
  BY DEF FabricIInv, GateInv, GateMeansClosed
<1>. QED
  BY Initially, Invariance, <1>1, PTL DEF FabricSpec

\* While no driver has overwritten the record of another, a contract that is
\* open (collaboration-runtime.mjs) has a consumer with work left.
THEOREM OpenContracts == FabricSpec => []OpenContractsHaveWork
<1>1. FabricIInv => OpenContractsHaveWork
  BY DEF FabricIInv, TypeInv, RecordInv, HasWork, OpenContractsHaveWork
<1>. QED
  BY Initially, Invariance, <1>1, PTL DEF FabricSpec

\* What memory-runtime.mjs gives out as verified was confirmed by another role or
\* captured of a verification that the mission has accepted.
THEOREM VerifiedMemory == FabricSpec => []VerifiedMemoryIsEarned
<1>1. FabricIInv => VerifiedMemoryIsEarned
  BY DEF FabricIInv, MemoryInv
<1>. QED
  BY Initially, Invariance, <1>1, PTL DEF FabricSpec

=============================================================================

------------------------------- MODULE RunStore -------------------------------
(***************************************************************************)
(* One run directory of the store, server/lib/store.mjs, and the lock file   *)
(* of server/lib/lock.mjs that its callers share.                            *)
(*                                                                           *)
(*   state.json        stateFile   the last state written                    *)
(*   events.jsonl      events      the append-only, hash-linked event log    *)
(*   transaction.json  journal     a transaction that is being applied       *)
(*   .lock             lock        "free" (no file), "fresh" or "stale"      *)
(*                                                                           *)
(* A caller is a process, or one of several asynchronous calls of a process: *)
(* both meet only in these files.  A transaction writes the journal, then    *)
(* the events, then the state, then removes the journal; the next caller     *)
(* that gets the lock finishes whatever a crash interrupted.                 *)
(*                                                                           *)
(* A transaction is known by a number, the digest of a state by the list of  *)
(* the transactions it contains, and every transaction writes two events:    *)
(* what its mutator emitted and the closing state.committed.                 *)
(***************************************************************************)
EXTENDS Naturals, Sequences, FiniteSets

CONSTANTS
  Procs,      \* the callers
  NoFile,     \* a file that does not exist
  MaxTxn,     \* bound on the transactions of a behaviour
  MaxFaults,  \* bound on the crashes and I/O errors of a behaviour
  Faults      \* the failures the environment may produce, see AllFaults

(***************************************************************************)
(*   crash            a caller dies between two of its steps                 *)
(*   io_error         a file operation of a caller throws                    *)
(*   broken_create    either of those between the two files createRun writes *)
(*   torn_append      the append to events.jsonl is cut after its first line *)
(*   racing_breakers  two callers remove the same stale lock file            *)
(*   slow_holder      a live caller keeps the lock for more than staleMs     *)
(***************************************************************************)
AllFaults == {"crash", "io_error", "broken_create", "torn_append",
              "racing_breakers", "slow_holder"}

Tx == Nat
Hash == Tx \X {"zero", "op", "commit"}
State == [hist : Seq(Tx), seq : Nat, head : Hash]
Event == [seq : Nat, prev : Hash, tx : Tx, kind : {"op", "commit"}, digest : Seq(Tx)]
Transaction == [state : State, events : Event \X Event]

ASSUME StoreAssumption ==
  /\ NoFile \notin State
  /\ NoFile \notin Transaction
  /\ MaxTxn \in Nat \ {0} /\ MaxFaults \in Nat
  /\ Faults \subseteq AllFaults

VARIABLES
  dir,        \* the run directory exists
  lock,
  stateFile,
  events,
  journal,
  pc,         \* pc[p]: the step caller p is about to take
  op,         \* op[p]: the function it called
  buf,        \* buf[p]: what it has read, or is about to write
  outcome,    \* outcome[p]: "pending", then "done" or "error"
  nextTx,
  acked,      \* transactions whose callers have been answered (history)
  faults      \* crashes and I/O errors so far

disk == <<dir, stateFile, events, journal>>
local == <<op, buf, outcome>>
vars == <<dir, lock, stateFile, events, journal, pc, op, buf, outcome,
          nextTx, acked, faults>>

Ops == {"read", "verify", "txn"}

\* Steps taken while the lock file is believed to be one's own.
Holding == {"recover", "load", "mutate", "append", "write", "unlink", "release"}
Creating == {"cstate", "cevents"}
Steps == {"idle", "acquire", "breaking"} \cup Holding \cup Creating

ZeroHash == <<0, "zero">>
EventHash(e) == <<e.tx, e.kind>>
LastHash(evs) == IF evs = << >> THEN ZeroHash ELSE EventHash(evs[Len(evs)])
Blank == [hist |-> << >>, seq |-> 0, head |-> ZeroHash]
-------------------------------------------------------------------------------
(* Transactions and the event chain *)

\* buildEvents: the two events of transaction t on top of state s.
BuildEvents(s, t) ==
  << [seq |-> s.seq + 1, prev |-> s.head, tx |-> t, kind |-> "op",
      digest |-> << >>],
     [seq |-> s.seq + 2, prev |-> <<t, "op">>, tx |-> t, kind |-> "commit",
      digest |-> Append(s.hist, t)] >>

\* The journal entry of transaction t computed from state s.
BuildTransaction(s, t) ==
  [state  |-> [hist |-> Append(s.hist, t), seq |-> s.seq + 2,
               head |-> <<t, "commit">>],
   events |-> BuildEvents(s, t)]

NoTransaction == BuildTransaction(Blank, 0)

AppendAll(evs, new) == Append(Append(evs, new[1]), new[2])

\* inspectEventChain: sequence numbers, links, head and digest all agree.
InspectEventChain(s, evs) ==
  /\ \A i \in 1..Len(evs) :
       /\ evs[i].seq = i
       /\ evs[i].prev = IF i = 1 THEN ZeroHash ELSE EventHash(evs[i - 1])
  /\ s.seq = Len(evs)
  /\ s.head = LastHash(evs)
  /\ \E i \in 1..Len(evs) :
       /\ evs[i].kind = "commit" /\ evs[i].digest = s.hist
       /\ \A j \in (i + 1)..Len(evs) : evs[j].kind # "commit"

\* The state a caller would see now: an unfinished transaction counts.
Committed ==
  IF journal # NoFile THEN journal.state.hist
  ELSE IF stateFile # NoFile THEN stateFile.hist ELSE << >>
-------------------------------------------------------------------------------
Init ==
  /\ dir = FALSE /\ lock = "free"
  /\ stateFile = NoFile /\ events = << >> /\ journal = NoFile
  /\ pc = [p \in Procs |-> "idle"]
  /\ op = [p \in Procs |-> "read"]
  /\ buf = [p \in Procs |-> NoTransaction]
  /\ outcome = [p \in Procs |-> "pending"]
  /\ nextTx = 1 /\ acked = {} /\ faults = 0

Goto(p, step) == pc' = [pc EXCEPT ![p] = step]

\* An exception: the finally block still releases the lock.
Throw(p) ==
  /\ Goto(p, "release")
  /\ outcome' = [outcome EXCEPT ![p] = "error"]

Forget(p) ==
  /\ buf' = [buf EXCEPT ![p] = NoTransaction]
  /\ outcome' = [outcome EXCEPT ![p] = "pending"]
  /\ op' = [op EXCEPT ![p] = "read"]
-------------------------------------------------------------------------------
(* createRun: neither locked nor journalled *)

CreateDir(p) ==
  /\ pc[p] = "idle" /\ ~dir
  /\ dir' = TRUE
  /\ Goto(p, "cstate")
  /\ UNCHANGED <<lock, stateFile, events, journal, local, nextTx, acked, faults>>

CreateState(p) ==
  /\ pc[p] = "cstate"
  /\ stateFile' = BuildTransaction(Blank, nextTx).state
  /\ buf' = [buf EXCEPT ![p] = BuildTransaction(Blank, nextTx)]
  /\ nextTx' = nextTx + 1
  /\ Goto(p, "cevents")
  /\ UNCHANGED <<dir, lock, events, journal, op, outcome, acked, faults>>

CreateEvents(p) ==
  /\ pc[p] = "cevents"
  /\ events' = AppendAll(events, buf[p].events)
  /\ acked' = acked \cup {buf[p].events[2].tx}
  /\ Goto(p, "idle")
  /\ Forget(p)
  /\ UNCHANGED <<dir, lock, stateFile, journal, nextTx, faults>>
-------------------------------------------------------------------------------
(* acquireFileLock *)

\* readRun, readVerifiedRun or withRunTransaction is called; the directory of
\* the lock file is created if it is missing.
Call(p, o) ==
  /\ pc[p] = "idle"
  /\ op' = [op EXCEPT ![p] = o]
  /\ dir' = TRUE
  /\ Goto(p, "acquire")
  /\ UNCHANGED <<lock, stateFile, events, journal, buf, outcome, nextTx, acked, faults>>

\* Mutant of Acquire: the lock file is opened without the exclusive flag.
AcquireAnyway(p) ==
  /\ pc[p] = "acquire"
  /\ lock' = "fresh"
  /\ Goto(p, "recover")
  /\ UNCHANGED <<disk, local, nextTx, acked, faults>>

Acquire(p) ==
  /\ pc[p] = "acquire" /\ lock = "free"
  /\ lock' = "fresh"
  /\ Goto(p, "recover")
  /\ UNCHANGED <<disk, local, nextTx, acked, faults>>

\* Mutant of SeeStale: the age of the file is not looked at.
SeeAnyLock(p) ==
  /\ pc[p] = "acquire" /\ lock # "free"
  /\ Goto(p, "breaking")
  /\ UNCHANGED <<lock, disk, local, nextTx, acked, faults>>

\* stat finds an old file; the removal is a step of its own.
SeeStale(p) ==
  /\ pc[p] = "acquire" /\ lock = "stale"
  /\ "racing_breakers" \in Faults \/ \A q \in Procs : pc[q] # "breaking"
  /\ Goto(p, "breaking")
  /\ UNCHANGED <<lock, disk, local, nextTx, acked, faults>>

BreakStale(p) ==
  /\ pc[p] = "breaking"
  /\ lock' = "free"
  /\ Goto(p, "acquire")
  /\ UNCHANGED <<disk, local, nextTx, acked, faults>>

\* Mutant of TimeOut: there is none.
WaitForever(p) == pc[p] = "gone"

\* timeoutMs passes while somebody else's file is in the way.
TimeOut(p) ==
  /\ pc[p] = "acquire" /\ lock # "free"
  /\ Goto(p, "idle")
  /\ Forget(p)
  /\ UNCHANGED <<lock, disk, nextTx, acked, faults>>

\* The lock file gets older than staleMs.
Age ==
  /\ lock = "fresh"
  /\ "slow_holder" \in Faults \/ \A p \in Procs : pc[p] \notin Holding
  /\ lock' = "stale"
  /\ UNCHANGED <<disk, pc, local, nextTx, acked, faults>>
-------------------------------------------------------------------------------
(* recoverRunUnlocked *)

\* Mutant of NoJournal: the caller goes on without looking for a journal.
IgnoreJournal(p) ==
  /\ pc[p] = "recover"
  /\ Goto(p, "load")
  /\ UNCHANGED <<lock, disk, local, nextTx, acked, faults>>

NoJournal(p) ==
  /\ pc[p] = "recover" /\ journal = NoFile
  /\ Goto(p, "load")
  /\ UNCHANGED <<lock, disk, local, nextTx, acked, faults>>

\* Mutant of ReadJournal: events that reached the log are appended again.
AlwaysAppend(p) ==
  /\ pc[p] = "recover" /\ journal # NoFile
  /\ buf' = [buf EXCEPT ![p] = journal]
  /\ Goto(p, "append")
  /\ UNCHANGED <<lock, disk, op, outcome, nextTx, acked, faults>>

ReadJournal(p) ==
  /\ pc[p] = "recover" /\ journal # NoFile
  /\ buf' = [buf EXCEPT ![p] = journal]
  /\ LET first == journal.events[1]
         last  == journal.events[2]
     IN  \/ /\ LastHash(events) = EventHash(last)      \* already appended
            /\ Goto(p, "write")
            /\ UNCHANGED outcome
         \/ /\ LastHash(events) # EventHash(last)
            /\ first.seq = Len(events) + 1 /\ first.prev = LastHash(events)
            /\ Goto(p, "append")
            /\ UNCHANGED outcome
         \/ /\ LastHash(events) # EventHash(last)
            /\ first.seq # Len(events) + 1 \/ first.prev # LastHash(events)
            /\ Throw(p)                                \* "the event log diverged"
  /\ UNCHANGED <<lock, disk, op, nextTx, acked, faults>>
-------------------------------------------------------------------------------
(* The locked section *)

\* Reads the state; readVerifiedRun and withRunTransaction also read the events
\* and compare the two.
Readable(p) ==
  /\ stateFile # NoFile
  /\ op[p] # "read" => InspectEventChain(stateFile, events)

Load(p) ==
  /\ pc[p] = "load" /\ Readable(p)
  /\ buf' = [buf EXCEPT ![p].state = stateFile]
  /\ Goto(p, IF op[p] = "txn" THEN "mutate" ELSE "release")
  /\ outcome' = [outcome EXCEPT ![p] = IF op[p] = "txn" THEN @ ELSE "done"]
  /\ UNCHANGED <<lock, disk, op, nextTx, acked, faults>>

LoadFails(p) ==
  /\ pc[p] = "load" /\ ~Readable(p)
  /\ Throw(p)
  /\ UNCHANGED <<lock, disk, op, buf, nextTx, acked, faults>>

\* The mutator runs on a copy; the result is written to the journal.
Mutate(p) ==
  /\ pc[p] = "mutate" /\ nextTx <= MaxTxn
  /\ journal' = BuildTransaction(buf[p].state, nextTx)
  /\ buf' = [buf EXCEPT ![p] = BuildTransaction(buf[p].state, nextTx)]
  /\ outcome' = [outcome EXCEPT ![p] = "done"]
  /\ nextTx' = nextTx + 1
  /\ Goto(p, "append")
  /\ UNCHANGED <<dir, lock, stateFile, events, op, acked, faults>>

\* The mutator rejects the operation: nothing is written.
MutatorThrows(p) ==
  /\ pc[p] = "mutate"
  /\ Throw(p)
  /\ UNCHANGED <<lock, disk, op, buf, nextTx, acked, faults>>

\* Mutant of AppendEvents: the events are appended in two writes.
AppendOneByOne(p) ==
  /\ pc[p] = "append"
  /\ LET first == LastHash(events) # EventHash(buf[p].events[1]) IN
     /\ events' = Append(events, buf[p].events[IF first THEN 1 ELSE 2])
     /\ Goto(p, IF first THEN "append" ELSE "write")
  /\ UNCHANGED <<dir, lock, stateFile, journal, local, nextTx, acked, faults>>

AppendEvents(p) ==
  /\ pc[p] = "append"
  /\ events' = AppendAll(events, buf[p].events)
  /\ Goto(p, "write")
  /\ UNCHANGED <<dir, lock, stateFile, journal, local, nextTx, acked, faults>>

\* Mutant of WriteState: the state is not written.
SkipStateWrite(p) ==
  /\ pc[p] = "write"
  /\ Goto(p, "unlink")
  /\ UNCHANGED <<dir, lock, stateFile, events, journal, local, nextTx, acked, faults>>

WriteState(p) ==
  /\ pc[p] = "write"
  /\ stateFile' = buf[p].state
  /\ Goto(p, "unlink")
  /\ UNCHANGED <<dir, lock, events, journal, local, nextTx, acked, faults>>

\* After a recovery the call goes on; after its own transaction it is done.
RemoveJournal(p) ==
  /\ pc[p] = "unlink"
  /\ journal' = NoFile
  /\ Goto(p, IF outcome[p] = "done" THEN "release" ELSE "load")
  /\ UNCHANGED <<dir, lock, stateFile, events, local, nextTx, acked, faults>>

\* Removes the lock file, whoever created it, and answers the caller.
Release(p) ==
  /\ pc[p] = "release"
  /\ lock' = "free"
  /\ acked' = IF op[p] = "txn" /\ outcome[p] = "done"
              THEN acked \cup {buf[p].events[2].tx} ELSE acked
  /\ Goto(p, "idle")
  /\ Forget(p)
  /\ UNCHANGED <<disk, nextTx, faults>>
-------------------------------------------------------------------------------
(* Failures *)

Fault(kind) ==
  /\ kind \in Faults /\ faults < MaxFaults
  /\ faults' = faults + 1

\* The process dies: its lock file stays behind.
Crash(p) ==
  /\ Fault(IF pc[p] = "cevents" THEN "broken_create" ELSE "crash")
  /\ pc[p] # "idle"
  /\ Goto(p, "idle")
  /\ Forget(p)
  /\ UNCHANGED <<lock, disk, nextTx, acked>>

\* The next file operation throws before it has any effect.
IoError(p) ==
  /\ Fault("io_error")
  /\ pc[p] \in Holding \ {"release"}
  /\ Throw(p)
  /\ UNCHANGED <<lock, disk, op, buf, nextTx, acked>>

\* Only the first line of an append reaches the file.
TornAppend(p) ==
  /\ Fault("torn_append")
  /\ pc[p] = "append"
  /\ events' = Append(events, buf[p].events[1])
  /\ Throw(p)
  /\ UNCHANGED <<dir, lock, stateFile, journal, op, buf, nextTx, acked>>
-------------------------------------------------------------------------------
Step(p) ==
  \/ CreateState(p) \/ CreateEvents(p)
  \/ Acquire(p) \/ SeeStale(p) \/ BreakStale(p) \/ TimeOut(p)
  \/ NoJournal(p) \/ ReadJournal(p)
  \/ Load(p) \/ LoadFails(p) \/ Mutate(p) \/ MutatorThrows(p)
  \/ AppendEvents(p) \/ WriteState(p) \/ RemoveJournal(p)
  \/ Release(p)

Begin(p) == CreateDir(p) \/ \E o \in Ops : Call(p, o)

Fail(p) == Crash(p) \/ IoError(p) \/ TornAppend(p)

Next == Age \/ \E p \in Procs : Begin(p) \/ Step(p) \/ Fail(p)

Spec == Init /\ [][Next]_vars

\* A caller that is not killed keeps running; nobody has to call.
FairSpec == Spec /\ \A p \in Procs : WF_vars(Step(p))
-------------------------------------------------------------------------------
TypeOK ==
  /\ dir \in BOOLEAN
  /\ lock \in {"free", "fresh", "stale"}
  /\ stateFile \in State \cup {NoFile}
  /\ events \in Seq(Event)
  /\ journal \in Transaction \cup {NoFile}
  /\ pc \in [Procs -> Steps]
  /\ op \in [Procs -> Ops]
  /\ buf \in [Procs -> Transaction]
  /\ outcome \in [Procs -> {"pending", "done", "error"}]
  /\ nextTx \in Nat /\ acked \subseteq Tx /\ faults \in Nat

\* The lock file of lock.mjs gives one caller at a time the locked section,
\* crashes and stale locks included.
MutualExclusion ==
  \A p, q \in Procs : pc[p] \in Holding /\ pc[q] \in Holding => p = q

\* No lost update: a transaction whose caller was told that it succeeded is in
\* the state that every later caller starts from.
AckedIsDurable ==
  acked \subseteq {Committed[i] : i \in DOMAIN Committed}

\* A journal left by a crash belongs to the event log: recoverRunUnlocked can
\* apply it, unless the append was cut after its first line.
JournalIsRecoverable ==
  journal # NoFile =>
    \/ LastHash(events) = EventHash(journal.events[2])
    \/ LastHash(events) = EventHash(journal.events[1])
    \/ /\ journal.events[1].seq = Len(events) + 1
       /\ journal.events[1].prev = LastHash(events)

\* When nothing is left to recover, state and event log agree: the integrity
\* check of readVerifiedRun never fails on a run that was created to the end
\* and that nobody tampered with.
QuietRunVerifies ==
  /\ stateFile # NoFile /\ journal = NoFile
  /\ \A p \in Procs : pc[p] # "cevents"
  /\ events # << >>
  => InspectEventChain(stateFile, events)

\* A locked read returns everything that was committed when it returns, what an
\* interrupted transaction left in the journal included.
ReadsAreCurrent ==
  \A p \in Procs :
    pc[p] = "release" /\ outcome[p] = "done" => buf[p].state.hist = Committed

\* No call hangs: behind a lock left by a crash it gives up, or breaks it.
EveryCallReturns ==
  \A p \in Procs : pc[p] = "acquire" ~> pc[p] = "idle"

Log == INSTANCE CommitLog WITH Tx <- 1..MaxTxn, log <- Committed

\* The store implements the log of transactions it promises.
ImplementsCommitLog == Log!Spec
===============================================================================

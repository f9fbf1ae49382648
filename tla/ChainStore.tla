------------------------------ MODULE ChainStore ------------------------------
(***************************************************************************)
(* One record of the hash-chain store, standalone/runtime/core/              *)
(* atomic-store.mjs, on which the queue, the missions, the objectives and    *)
(* the commands of the standalone runtime are kept.                          *)
(*                                                                           *)
(*   <record>/               dir     the directory                           *)
(*   <record>/state.json     file    the last state written                  *)
(*   <record>/events.jsonl   events  the hash-linked event log               *)
(*   <record>.lock/          lock    a directory: whoever makes it has it    *)
(*                                                                           *)
(* An update appends its events and then replaces the state, and nothing     *)
(* repairs a record whose update stopped in between.  What a state holds is  *)
(* the business of the caller, whose mutator gives the next one.             *)
(*                                                                           *)
(* The events of one update are one line here, and the hash of a line is its *)
(* number: lines are written by the holder of the lock on top of a log it    *)
(* has verified, so a log is right when its numbers are.                     *)
(***************************************************************************)
EXTENDS Naturals, Sequences, FiniteSets

CONSTANTS
  Caller,       \* processes, and the calls of one process that overlap
  Absent,       \* no such file, nobody, nothing expected
  Data,         \* what a state may hold
  Initial,      \* what a new record holds
  LockRetries,  \* how often a caller tries again to make the lock directory
  ReadRetries,  \* how often read() tries again while the files disagree
  MaxFaults     \* bound on the crashes and I/O errors of a behaviour

ASSUME ChainAssumption ==
  /\ Initial \in Data
  /\ Absent \notin Caller /\ Absent \notin Nat
  /\ Absent \notin [rev : Nat, seq : Nat, data : Data]
  /\ LockRetries \in Nat /\ ReadRetries \in Nat /\ MaxFaults \in Nat

VARIABLES
  dir, file, events, lock,
  pc,        \* pc[c]: the step caller c is about to take
  buf,       \* buf[c]: the state it has read, or is about to write
  expected,  \* expected[c]: the revision that its update is for, or Absent
  tries,     \* tries[c]: how often it has tried again
  outcome,   \* outcome[c]: what its last call returned or threw
  faults

disk == <<dir, file, events, lock>>
storeVars == <<dir, file, events, lock, pc, buf, expected, tries, outcome, faults>>

State == [rev : Nat, seq : Nat, data : Data]
Holding == {"load", "mutate", "append", "write", "unlock"}
Creating == {"exists", "mkdir", "seed"}
Steps == {"idle", "peek", "verify", "lock"} \cup Holding \cup Creating
Outcomes == {"none", "ok", "absent", "conflict", "integrity", "io", "refused"}

StoreTypeOK ==
  /\ dir \in BOOLEAN
  /\ file \in State \cup {Absent}
  /\ events \in Seq(Nat)
  /\ lock \in Caller \cup {Absent}
  /\ pc \in [Caller -> Steps]
  /\ buf \in [Caller -> State \cup {Absent}]
  /\ expected \in [Caller -> Nat \cup {Absent}]
  /\ tries \in [Caller -> Nat]
  /\ outcome \in [Caller -> Outcomes]
  /\ faults \in Nat

StoreInit ==
  /\ dir = FALSE /\ file = Absent /\ events = << >> /\ lock = Absent
  /\ pc = [c \in Caller |-> "idle"]
  /\ buf = [c \in Caller |-> Absent]
  /\ expected = [c \in Caller |-> Absent]
  /\ tries = [c \in Caller |-> 0]
  /\ outcome = [c \in Caller |-> "none"]
  /\ faults = 0

-----------------------------------------------------------------------------
Goto(c, step) == pc' = [pc EXCEPT ![c] = step]

\* The call of c is over: its result or error is all that is left of it.
Return(c, result) ==
  /\ Goto(c, "idle")
  /\ outcome' = [outcome EXCEPT ![c] = result]
  /\ buf' = [buf EXCEPT ![c] = Absent]
  /\ expected' = [expected EXCEPT ![c] = Absent]
  /\ tries' = [tries EXCEPT ![c] = 0]

\* An error, or the end, inside the try of update(): finally releases the lock.
Release(c, result) ==
  /\ Goto(c, "unlock")
  /\ outcome' = [outcome EXCEPT ![c] = result]
  /\ buf' = [buf EXCEPT ![c] = Absent]
  /\ UNCHANGED <<expected, tries>>

Start(c, step) ==
  /\ pc[c] = "idle"
  /\ Goto(c, step)
  /\ outcome' = [outcome EXCEPT ![c] = "none"]
  /\ UNCHANGED <<disk, buf, expected, tries, faults>>

Verified(state) == /\ events = [i \in 1..Len(events) |-> i]
                   /\ Len(events) = state.seq

(* read: the two files, one after the other and without the lock *)

ReadState(c) ==
  /\ pc[c] = "peek"
  /\ IF file = Absent
     THEN Return(c, "absent")
     ELSE /\ buf' = [buf EXCEPT ![c] = file]
          /\ Goto(c, "verify")
          /\ UNCHANGED <<expected, tries, outcome>>
  /\ UNCHANGED <<disk, faults>>

VerifyEvents(c) ==
  /\ pc[c] = "verify"
  /\ \/ Verified(buf[c]) /\ Return(c, "ok")
     \/ /\ ~Verified(buf[c]) /\ tries[c] < ReadRetries
        /\ tries' = [tries EXCEPT ![c] = tries[c] + 1]
        /\ buf' = [buf EXCEPT ![c] = Absent]
        /\ Goto(c, "peek")
        /\ UNCHANGED <<expected, outcome>>
     \/ ~Verified(buf[c]) /\ tries[c] >= ReadRetries /\ Return(c, "integrity")
  /\ UNCHANGED <<disk, faults>>

(* create: the directory, a state without events, then an update *)

Exists(c) ==
  /\ pc[c] = "exists"
  /\ IF dir THEN Return(c, "conflict")
     ELSE Goto(c, "mkdir") /\ UNCHANGED <<buf, expected, tries, outcome>>
  /\ UNCHANGED <<disk, faults>>

MakeDir(c) ==
  /\ pc[c] = "mkdir"
  /\ dir' = TRUE
  /\ IF dir THEN Return(c, "io")
     ELSE Goto(c, "seed") /\ UNCHANGED <<buf, expected, tries, outcome>>
  /\ UNCHANGED <<file, events, lock, faults>>

Seed(c) ==
  /\ pc[c] = "seed"
  /\ file' = [rev |-> 0, seq |-> 0, data |-> Initial]
  /\ expected' = [expected EXCEPT ![c] = 0]
  /\ Goto(c, "lock")
  /\ UNCHANGED <<dir, events, lock, buf, tries, outcome, faults>>

(* update *)

\* Mutant of Acquire: a lock that is there is taken over.
AcquireAnyway(c) ==
  /\ pc[c] = "lock"
  /\ lock' = c
  /\ tries' = [tries EXCEPT ![c] = 0]
  /\ Goto(c, "load")
  /\ UNCHANGED <<dir, file, events, buf, expected, outcome, faults>>

Acquire(c) ==
  /\ pc[c] = "lock"
  /\ lock = Absent
  /\ lock' = c
  /\ tries' = [tries EXCEPT ![c] = 0]
  /\ Goto(c, "load")
  /\ UNCHANGED <<dir, file, events, buf, expected, outcome, faults>>

\* Mutant of LockBusy: without a limit.
WaitForLock(c) ==
  /\ pc[c] = "lock"
  /\ lock # Absent
  /\ tries' = [tries EXCEPT ![c] = (tries[c] + 1) % 2]
  /\ UNCHANGED <<pc, buf, expected, outcome>>
  /\ UNCHANGED <<disk, faults>>

LockBusy(c) ==
  /\ pc[c] = "lock"
  /\ lock # Absent
  /\ IF tries[c] < LockRetries
     THEN /\ tries' = [tries EXCEPT ![c] = tries[c] + 1]
          /\ UNCHANGED <<pc, buf, expected, outcome>>
     ELSE Return(c, "conflict")
  /\ UNCHANGED <<disk, faults>>

\* Mutant of Load: the events are not verified.
LoadStateOnly(c) ==
  /\ pc[c] = "load" /\ file # Absent
  /\ IF expected[c] \notin {Absent, file.rev} THEN Release(c, "conflict")
     ELSE /\ buf' = [buf EXCEPT ![c] = file]
          /\ Goto(c, "mutate")
          /\ UNCHANGED <<expected, tries, outcome>>
  /\ UNCHANGED <<disk, faults>>

\* The read of update(): trying again changes nothing for the holder of the
\* lock.
Load(c) ==
  /\ pc[c] = "load"
  /\ \/ file = Absent /\ Release(c, "absent")
     \/ file # Absent /\ ~Verified(file) /\ Release(c, "integrity")
     \/ /\ file # Absent /\ Verified(file)
        /\ expected[c] \notin {Absent, file.rev}
        /\ Release(c, "conflict")
     \/ /\ file # Absent /\ Verified(file)
        /\ expected[c] \in {Absent, file.rev}
        /\ buf' = [buf EXCEPT ![c] = file]
        /\ Goto(c, "mutate")
        /\ UNCHANGED <<expected, tries, outcome>>
  /\ UNCHANGED <<disk, faults>>

\* The mutator gives the next content, and says whether it emitted events.
Mutate(c, next, emits) ==
  /\ pc[c] = "mutate"
  /\ buf' = [buf EXCEPT ![c] = [rev |-> buf[c].rev + 1, data |-> next,
                                seq |-> buf[c].seq + (IF emits THEN 1 ELSE 0)]]
  /\ Goto(c, IF emits THEN "append" ELSE "write")
  /\ UNCHANGED <<disk, expected, tries, outcome, faults>>

Throw(c) ==
  /\ pc[c] = "mutate"
  /\ Release(c, "refused")
  /\ UNCHANGED <<disk, faults>>

AppendEvents(c) ==
  /\ pc[c] = "append"
  /\ events' = Append(events, buf[c].seq)
  /\ Goto(c, "write")
  /\ UNCHANGED <<dir, file, lock, buf, expected, tries, outcome, faults>>

WriteState(c) ==
  /\ pc[c] = "write"
  /\ file' = buf[c]
  /\ Release(c, "ok")
  /\ UNCHANGED <<dir, events, lock, faults>>

Unlock(c) ==
  /\ pc[c] = "unlock"
  /\ lock' = Absent
  /\ Return(c, outcome[c])
  /\ UNCHANGED <<dir, file, events, faults>>

(* The environment *)

\* The disk is full, say, or a file was replaced by a link.
WriteFails(c) ==
  /\ pc[c] \in {"append", "write"}
  /\ faults < MaxFaults
  /\ faults' = faults + 1
  /\ Release(c, "io")
  /\ UNCHANGED disk

\* The process dies, and what it had made on the disk stays: the lock too.
Crash(c) ==
  /\ pc[c] # "idle"
  /\ faults < MaxFaults
  /\ faults' = faults + 1
  /\ Return(c, "none")
  /\ UNCHANGED disk

\* One step of the call that c has made.
Advance(c) ==
  \/ ReadState(c) \/ VerifyEvents(c)
  \/ Exists(c) \/ MakeDir(c) \/ Seed(c)
  \/ Acquire(c) \/ LockBusy(c) \/ Load(c) \/ AppendEvents(c) \/ Unlock(c)

StoreNext ==
  \E c \in Caller :
    \/ \E step \in {"peek", "exists", "lock"} : Start(c, step)
    \/ Advance(c)
    \/ \E next \in Data, emits \in BOOLEAN : Mutate(c, next, emits)
    \/ Throw(c) \/ WriteState(c) \/ WriteFails(c) \/ Crash(c)

StoreSpec == StoreInit /\ [][StoreNext]_storeVars

-----------------------------------------------------------------------------
(* What a record promises *)

\* The events of an update are in the log and nobody is about to write the
\* state that goes with them.
Torn ==
  /\ file # Absent
  /\ ~Verified(file)
  /\ \A c \in Caller : pc[c] # "write"

\* A record that an interrupted update has left torn is never changed again:
\* no state is built on events that belong to none.
TornIsFrozen == [][Torn => UNCHANGED <<file, events>>]_storeVars

\* Every state is written on top of the one it replaces: no update is lost, by
\* whatever interleaving of callers, creators and crashes.
NoUpdateIsLost ==
  [][file # Absent => file' = file \/ file'.rev = file.rev + 1]_storeVars
===============================================================================

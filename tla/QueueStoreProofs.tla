--------------------------- MODULE QueueStoreProofs ---------------------------
(***************************************************************************)
(* For any number of callers, any content, any retries and any number of     *)
(* crashes and I/O errors: no update of a record is lost, a record that an   *)
(* interrupted update has left torn is never changed again, and a queue that *)
(* is kept in a record is the queue of DurableQueue.  Of that queue, for any *)
(* number of jobs and course of time: attempts stay within their limit, a    *)
(* key has one job, the result of a job comes from whoever it was given to   *)
(* last, and what is settled stays as it is.                                 *)
(***************************************************************************)
EXTENDS QueueStore, WellFoundedInduction, TLAPS

-----------------------------------------------------------------------------
(* The record: whoever calls the store, and whatever it keeps *)

\* What a caller knows at each of its steps.  The lock of a caller that died
\* names it for ever, but it is at no step where that matters.
CallInv(c) ==
  /\ pc[c] \in Holding => lock = c
  /\ pc[c] = "seed" => file = Absent /\ dir
  /\ pc[c] = "mutate" => file # Absent /\ buf[c] = file /\ Verified(file)
  /\ pc[c] = "append" => /\ file # Absent /\ Verified(file) /\ buf[c] \in State
                         /\ buf[c].rev = file.rev + 1 /\ buf[c].seq = file.seq + 1
  /\ pc[c] = "write" => /\ file # Absent /\ buf[c] \in State
                        /\ buf[c].rev = file.rev + 1 /\ Verified(buf[c])

\* Only whoever made the directory writes the first state.
OneSeeder ==
  /\ ~dir => file = Absent
  /\ \A c, d \in Caller : pc[c] = "seed" /\ pc[d] = "seed" => c = d

RecordInv == StoreTypeOK /\ OneSeeder /\ \A c \in Caller : CallInv(c)

\* One more line with the next number keeps the log in order.
LEMMA AppendVerifies ==
  ASSUME NEW n \in Nat, events = [i \in 1..Len(events) |-> i], events \in Seq(Nat),
         Len(events) = n, events' = Append(events, n + 1)
  PROVE  events' = [i \in 1..Len(events') |-> i] /\ Len(events') = n + 1
<1>1. Len(events') = n + 1 /\ DOMAIN events' = 1..(n + 1)
  OBVIOUS
<1>2. ASSUME NEW i \in 1..(n + 1) PROVE events'[i] = i
  <2>1. CASE i = n + 1
    BY <2>1
  <2>2. CASE i \in 1..n
    BY <2>2
  <2>. QED
    BY <2>1, <2>2
<1>3. events' \in Seq(Nat)
  OBVIOUS
<1>. QED
  BY <1>1, <1>2, <1>3

\* So does the end of a call, for those it has.
LEMMA ReturnTypes ==
  ASSUME StoreTypeOK, NEW c \in Caller, NEW result \in Outcomes, Return(c, result)
  PROVE  /\ pc' \in [Caller -> Steps]
         /\ buf' \in [Caller -> State \cup {Absent}]
         /\ expected' \in [Caller -> Nat \cup {Absent}]
         /\ tries' \in [Caller -> Nat]
         /\ outcome' \in [Caller -> Outcomes]
  BY DEF StoreTypeOK, Return, Goto, Steps

\* Every step keeps the types.
LEMMA TypeStep ==
  ASSUME RecordInv, [StoreNext]_storeVars
  PROVE  StoreTypeOK'
<1>0. StoreTypeOK /\ \A c \in Caller : CallInv(c)
  BY DEF RecordInv
<1>. USE <1>0, ChainAssumption DEF StoreTypeOK, Goto, disk, Steps, Holding, Creating, Outcomes
<1>1. ASSUME NEW c \in Caller, NEW step \in {"peek", "exists", "lock"}, Start(c, step) PROVE StoreTypeOK'
  BY <1>1 DEF Start
<1>2. ASSUME NEW c \in Caller, ReadState(c) PROVE StoreTypeOK'
  <2>1. CASE Return(c, "absent")
    BY <1>2, <2>1, ReturnTypes DEF ReadState
  <2>2. CASE ~(Return(c, "absent"))
    BY <1>2, <2>2 DEF ReadState
  <2>. QED
    BY <2>1, <2>2
<1>3. ASSUME NEW c \in Caller, VerifyEvents(c) PROVE StoreTypeOK'
  <2>1. CASE Return(c, "ok") \/ Return(c, "integrity")
    BY <1>3, <2>1, ReturnTypes DEF VerifyEvents
  <2>2. CASE ~(Return(c, "ok") \/ Return(c, "integrity"))
    <3>1. /\ tries' = [tries EXCEPT ![c] = tries[c] + 1]
          /\ buf' = [buf EXCEPT ![c] = Absent] /\ pc' = [pc EXCEPT ![c] = "peek"]
          /\ UNCHANGED <<disk, expected, outcome, faults>>
      BY <1>3, <2>2 DEF VerifyEvents
    <3>2. tries' \in [Caller -> Nat] /\ buf' \in [Caller -> State \cup {Absent}]
      BY <3>1
    <3>. QED
      BY <3>1, <3>2
  <2>. QED
    BY <2>1, <2>2
<1>4. ASSUME NEW c \in Caller, Exists(c) PROVE StoreTypeOK'
  <2>1. CASE Return(c, "conflict")
    BY <1>4, <2>1, ReturnTypes DEF Exists
  <2>2. CASE ~(Return(c, "conflict"))
    BY <1>4, <2>2 DEF Exists
  <2>. QED
    BY <2>1, <2>2
<1>5. ASSUME NEW c \in Caller, MakeDir(c) PROVE StoreTypeOK'
  <2>1. CASE Return(c, "io")
    BY <1>5, <2>1, ReturnTypes DEF MakeDir
  <2>2. CASE ~(Return(c, "io"))
    BY <1>5, <2>2 DEF MakeDir
  <2>. QED
    BY <2>1, <2>2
<1>6. ASSUME NEW c \in Caller, Seed(c) PROVE StoreTypeOK'
  <2>1. [rev |-> 0, seq |-> 0, data |-> Initial] \in State
    BY DEF State
  <2>. QED
    BY <1>6, <2>1 DEF Seed
<1>7. ASSUME NEW c \in Caller, Acquire(c) PROVE StoreTypeOK'
  BY <1>7 DEF Acquire
<1>8. ASSUME NEW c \in Caller, LockBusy(c) PROVE StoreTypeOK'
  <2>1. CASE Return(c, "conflict")
    BY <1>8, <2>1, ReturnTypes DEF LockBusy
  <2>2. CASE ~(Return(c, "conflict"))
    <3>1. /\ tries[c] + 1 \in Nat /\ tries' = [tries EXCEPT ![c] = tries[c] + 1]
          /\ UNCHANGED <<pc, buf, expected, outcome, disk, faults>>
      BY <1>8, <2>2 DEF LockBusy
    <3>. QED
      BY <3>1
  <2>. QED
    BY <2>1, <2>2
<1>9. ASSUME NEW c \in Caller, Load(c) PROVE StoreTypeOK'
  <2>1. ASSUME NEW result \in {"absent", "integrity", "conflict"}, Release(c, result) PROVE StoreTypeOK'
    BY <1>9, <2>1 DEF Load, Release
  <2>2. CASE buf' = [buf EXCEPT ![c] = file] /\ file # Absent /\ pc' = [pc EXCEPT ![c] = "mutate"]
             /\ UNCHANGED <<expected, tries, outcome>>
    BY <1>9, <2>2 DEF Load
  <2>. QED
    BY <1>9, <2>1, <2>2 DEF Load
<1>10. ASSUME NEW c \in Caller, buf[c] \in State, AppendEvents(c) PROVE StoreTypeOK'
  <2>1. buf[c].seq \in Nat
    BY <1>10 DEF State
  <2>2. events' \in Seq(Nat)
    BY <1>10, <2>1 DEF AppendEvents
  <2>. QED
    BY <1>10, <2>2 DEF AppendEvents
<1>11. ASSUME NEW c \in Caller, Unlock(c) PROVE StoreTypeOK'
  BY <1>11 DEF Unlock, Return
<1>12. ASSUME NEW c \in Caller, NEW next \in Data, NEW emits \in BOOLEAN, buf[c] \in State, Mutate(c, next, emits) PROVE StoreTypeOK'
  <2>1. /\ [rev |-> buf[c].rev + 1, data |-> next, seq |-> buf[c].seq + 1] \in State
        /\ [rev |-> buf[c].rev + 1, data |-> next, seq |-> buf[c].seq + 0] \in State
    BY <1>12 DEF State
  <2>2. buf' \in [Caller -> State \cup {Absent}]
    BY <1>12, <2>1 DEF Mutate
  <2>. QED
    BY <1>12, <2>2 DEF Mutate
<1>13. ASSUME NEW c \in Caller, Throw(c) PROVE StoreTypeOK'
  BY <1>13 DEF Throw, Release
<1>14. ASSUME NEW c \in Caller, buf[c] \in State, WriteState(c) PROVE StoreTypeOK'
  BY <1>14 DEF WriteState, Release
<1>15. ASSUME NEW c \in Caller, WriteFails(c) PROVE StoreTypeOK'
  BY <1>15 DEF WriteFails, Release
<1>16. ASSUME NEW c \in Caller, Crash(c) PROVE StoreTypeOK'
  BY <1>16 DEF Crash, Return
<1>17. ASSUME UNCHANGED storeVars PROVE StoreTypeOK'
  BY <1>17 DEF storeVars
<1>18. \A c \in Caller : pc[c] \in {"mutate", "append", "write"} => buf[c] \in State
  BY DEF CallInv
<1>. QED
  BY <1>1, <1>2, <1>3, <1>4, <1>5, <1>6, <1>7, <1>8, <1>9, <1>10, <1>11, <1>12, <1>13, <1>14, <1>15, <1>16, <1>17, <1>18
    DEF StoreNext, Advance, Mutate, AppendEvents, WriteState

\* What a caller knows stays true, whatever another one does.
LEMMA CallStep ==
  ASSUME RecordInv, [StoreNext]_storeVars
  PROVE  OneSeeder' /\ \A d \in Caller : CallInv(d)'
<1>0. StoreTypeOK /\ OneSeeder /\ \A c \in Caller : CallInv(c)
  BY DEF RecordInv
<1>. USE <1>0, ChainAssumption DEF StoreTypeOK, OneSeeder, CallInv, Goto, disk, Steps, Holding, Creating, Verified
<1>1. ASSUME NEW c \in Caller, NEW step \in {"peek", "exists", "lock"}, Start(c, step) PROVE OneSeeder' /\ \A d \in Caller : CallInv(d)'
  <2>1. CallInv(c)'
    BY <1>1 DEF Start
  <2>2. ASSUME NEW d \in Caller, d # c PROVE CallInv(d)'
    BY <1>1, <2>2 DEF Start
  <2>3. OneSeeder'
    BY <1>1 DEF Start
  <2>. QED
    BY <2>1, <2>2, <2>3
<1>2. ASSUME NEW c \in Caller, ReadState(c) PROVE OneSeeder' /\ \A d \in Caller : CallInv(d)'
  <2>1. CallInv(c)'
    BY <1>2 DEF ReadState, Return
  <2>2. ASSUME NEW d \in Caller, d # c PROVE CallInv(d)'
    BY <1>2, <2>2 DEF ReadState, Return
  <2>3. OneSeeder'
    BY <1>2 DEF ReadState, Return
  <2>. QED
    BY <2>1, <2>2, <2>3
<1>3. ASSUME NEW c \in Caller, VerifyEvents(c) PROVE OneSeeder' /\ \A d \in Caller : CallInv(d)'
  <2>1. CallInv(c)'
    BY <1>3 DEF VerifyEvents, Return
  <2>2. ASSUME NEW d \in Caller, d # c PROVE CallInv(d)'
    BY <1>3, <2>2 DEF VerifyEvents, Return
  <2>3. OneSeeder'
    BY <1>3 DEF VerifyEvents, Return
  <2>. QED
    BY <2>1, <2>2, <2>3
<1>4. ASSUME NEW c \in Caller, Exists(c) PROVE OneSeeder' /\ \A d \in Caller : CallInv(d)'
  <2>1. CallInv(c)'
    BY <1>4 DEF Exists, Return
  <2>2. ASSUME NEW d \in Caller, d # c PROVE CallInv(d)'
    BY <1>4, <2>2 DEF Exists, Return
  <2>3. OneSeeder'
    BY <1>4 DEF Exists, Return
  <2>. QED
    BY <2>1, <2>2, <2>3
<1>5. ASSUME NEW c \in Caller, MakeDir(c) PROVE OneSeeder' /\ \A d \in Caller : CallInv(d)'
  <2>1. CallInv(c)'
    BY <1>5 DEF MakeDir, Return
  <2>2. ASSUME NEW d \in Caller, d # c PROVE CallInv(d)'
    BY <1>5, <2>2 DEF MakeDir, Return
  <2>3. OneSeeder'
    BY <1>5 DEF MakeDir, Return
  <2>. QED
    BY <2>1, <2>2, <2>3
<1>6. ASSUME NEW c \in Caller, Seed(c) PROVE OneSeeder' /\ \A d \in Caller : CallInv(d)'
  <2>1. CallInv(c)'
    BY <1>6 DEF Seed
  <2>2. ASSUME NEW d \in Caller, d # c PROVE CallInv(d)'
    BY <1>6, <2>2 DEF Seed
  <2>3. OneSeeder'
    BY <1>6 DEF Seed
  <2>. QED
    BY <2>1, <2>2, <2>3
<1>7. ASSUME NEW c \in Caller, Acquire(c) PROVE OneSeeder' /\ \A d \in Caller : CallInv(d)'
  <2>1. CallInv(c)'
    BY <1>7 DEF Acquire
  <2>2. ASSUME NEW d \in Caller, d # c PROVE CallInv(d)'
    BY <1>7, <2>2 DEF Acquire
  <2>3. OneSeeder'
    BY <1>7 DEF Acquire
  <2>. QED
    BY <2>1, <2>2, <2>3
<1>8. ASSUME NEW c \in Caller, LockBusy(c) PROVE OneSeeder' /\ \A d \in Caller : CallInv(d)'
  <2>1. CallInv(c)'
    BY <1>8 DEF LockBusy, Return
  <2>2. ASSUME NEW d \in Caller, d # c PROVE CallInv(d)'
    BY <1>8, <2>2 DEF LockBusy, Return
  <2>3. OneSeeder'
    BY <1>8 DEF LockBusy, Return
  <2>. QED
    BY <2>1, <2>2, <2>3
<1>9. ASSUME NEW c \in Caller, Load(c) PROVE OneSeeder' /\ \A d \in Caller : CallInv(d)'
  <2>1. CallInv(c)'
    BY <1>9 DEF Load, Release
  <2>2. ASSUME NEW d \in Caller, d # c PROVE CallInv(d)'
    BY <1>9, <2>2 DEF Load, Release
  <2>3. OneSeeder'
    BY <1>9 DEF Load, Release
  <2>. QED
    BY <2>1, <2>2, <2>3
<1>10. ASSUME NEW c \in Caller, AppendEvents(c) PROVE OneSeeder' /\ \A d \in Caller : CallInv(d)'
  <2>1. pc[c] = "append" /\ file # Absent /\ lock = c /\ buf[c] \in State /\ buf[c].seq = file.seq + 1
    BY <1>10 DEF AppendEvents
  <2>2. file.seq \in Nat /\ Len(events) = file.seq
    BY <2>1 DEF State
  <2>3. events' = Append(events, file.seq + 1)
    BY <1>10, <2>1 DEF AppendEvents
  <2>4. events' = [k \in 1..Len(events') |-> k] /\ Len(events') = file.seq + 1
    <3>1. events = [k \in 1..Len(events) |-> k] /\ events \in Seq(Nat)
      BY <2>1
    <3>. QED
      BY <2>2, <2>3, <3>1, AppendVerifies
  <2>5. CallInv(c)'
    BY <1>10, <2>1, <2>4 DEF AppendEvents
  <2>6. ASSUME NEW d \in Caller, d # c PROVE CallInv(d)'
    BY <1>10, <2>1, <2>6 DEF AppendEvents
  <2>7. OneSeeder'
    BY <1>10 DEF AppendEvents
  <2>. QED
    BY <2>5, <2>6, <2>7
<1>11. ASSUME NEW c \in Caller, Unlock(c) PROVE OneSeeder' /\ \A d \in Caller : CallInv(d)'
  <2>1. CallInv(c)'
    BY <1>11 DEF Unlock, Return
  <2>2. ASSUME NEW d \in Caller, d # c PROVE CallInv(d)'
    BY <1>11, <2>2 DEF Unlock, Return
  <2>3. OneSeeder'
    BY <1>11 DEF Unlock, Return
  <2>. QED
    BY <2>1, <2>2, <2>3
<1>12. ASSUME NEW c \in Caller, NEW next \in Data, NEW emits \in BOOLEAN, Mutate(c, next, emits) PROVE OneSeeder' /\ \A d \in Caller : CallInv(d)'
  <2>1. pc[c] = "mutate" /\ file # Absent /\ lock = c /\ buf[c] = file /\ file \in State /\ Verified(file)
    BY <1>12 DEF Mutate
  <2>2. file.seq \in Nat /\ file.rev \in Nat
    BY <2>1 DEF State
  <2>3. buf'[c] = [rev |-> file.rev + 1, data |-> next, seq |-> file.seq + (IF emits THEN 1 ELSE 0)]
    BY <1>12, <2>1 DEF Mutate
  <2>4. buf'[c] \in State /\ buf'[c].rev = file.rev + 1
        /\ buf'[c].seq = (IF emits THEN file.seq + 1 ELSE file.seq)
    BY <2>2, <2>3 DEF State
  <2>5. CallInv(c)'
    BY <1>12, <2>1, <2>4 DEF Mutate
  <2>6. ASSUME NEW d \in Caller, d # c PROVE CallInv(d)'
    BY <1>12, <2>1, <2>6 DEF Mutate
  <2>7. OneSeeder'
    BY <1>12 DEF Mutate
  <2>. QED
    BY <2>5, <2>6, <2>7
<1>13. ASSUME NEW c \in Caller, Throw(c) PROVE OneSeeder' /\ \A d \in Caller : CallInv(d)'
  <2>1. CallInv(c)'
    BY <1>13 DEF Throw, Release
  <2>2. ASSUME NEW d \in Caller, d # c PROVE CallInv(d)'
    BY <1>13, <2>2 DEF Throw, Release
  <2>3. OneSeeder'
    BY <1>13 DEF Throw, Release
  <2>. QED
    BY <2>1, <2>2, <2>3
<1>14. ASSUME NEW c \in Caller, WriteState(c) PROVE OneSeeder' /\ \A d \in Caller : CallInv(d)'
  <2>1. CallInv(c)'
    BY <1>14 DEF WriteState, Release
  <2>2. ASSUME NEW d \in Caller, d # c PROVE CallInv(d)'
    BY <1>14, <2>2 DEF WriteState, Release
  <2>3. OneSeeder'
    BY <1>14 DEF WriteState, Release
  <2>. QED
    BY <2>1, <2>2, <2>3
<1>15. ASSUME NEW c \in Caller, WriteFails(c) PROVE OneSeeder' /\ \A d \in Caller : CallInv(d)'
  <2>1. CallInv(c)'
    BY <1>15 DEF WriteFails, Release
  <2>2. ASSUME NEW d \in Caller, d # c PROVE CallInv(d)'
    BY <1>15, <2>2 DEF WriteFails, Release
  <2>3. OneSeeder'
    BY <1>15 DEF WriteFails, Release
  <2>. QED
    BY <2>1, <2>2, <2>3
<1>16. ASSUME NEW c \in Caller, Crash(c) PROVE OneSeeder' /\ \A d \in Caller : CallInv(d)'
  <2>1. CallInv(c)'
    BY <1>16 DEF Crash, Return
  <2>2. ASSUME NEW d \in Caller, d # c PROVE CallInv(d)'
    BY <1>16, <2>2 DEF Crash, Return
  <2>3. OneSeeder'
    BY <1>16 DEF Crash, Return
  <2>. QED
    BY <2>1, <2>2, <2>3
<1>17. ASSUME UNCHANGED storeVars PROVE OneSeeder' /\ \A d \in Caller : CallInv(d)'
  BY <1>17 DEF storeVars
<1>. HIDE DEF StoreTypeOK, OneSeeder, CallInv
<1>. QED
  BY <1>1, <1>2, <1>3, <1>4, <1>5, <1>6, <1>7, <1>8, <1>9, <1>10, <1>11, <1>12, <1>13, <1>14, <1>15, <1>16, <1>17 DEF StoreNext, Advance

LEMMA RecordBegins == StoreInit => RecordInv
<1>. SUFFICES ASSUME StoreInit PROVE RecordInv
  OBVIOUS
<1>1. events \in Seq(Nat)
  BY DEF StoreInit
<1>2. StoreTypeOK
  BY <1>1, ChainAssumption DEF StoreInit, StoreTypeOK, Steps, Outcomes
<1>3. OneSeeder /\ \A c \in Caller : CallInv(c)
  BY DEF StoreInit, OneSeeder, CallInv, Holding
<1>. QED
  BY <1>2, <1>3 DEF RecordInv

LEMMA RecordHolds == StoreSpec => []RecordInv
<1>1. ASSUME RecordInv, [StoreNext]_storeVars PROVE RecordInv'
  BY <1>1, TypeStep, CallStep DEF RecordInv
<1>. QED
  BY RecordBegins, <1>1, PTL DEF StoreSpec

\* The variables of the store keep their types.
THEOREM RecordTypes == StoreSpec => []StoreTypeOK
<1>1. RecordInv => StoreTypeOK
  BY DEF RecordInv
<1>. QED
  BY RecordHolds, <1>1, PTL

\* Every state is written on top of the one it replaces, whoever else creates,
\* reads, updates or dies meanwhile.
THEOREM UpdatesAreKept == StoreSpec => NoUpdateIsLost
<1>1. ASSUME RecordInv, [StoreNext]_storeVars
      PROVE  file # Absent => file' = file \/ file'.rev = file.rev + 1
  <2>1. CASE UNCHANGED storeVars
    BY <2>1 DEF storeVars
  <2>2. CASE StoreNext
    <3>1. PICK c \in Caller :
            \/ \E step \in {"peek", "exists", "lock"} : Start(c, step)
            \/ Advance(c)
            \/ \E next \in Data, emits \in BOOLEAN : Mutate(c, next, emits)
            \/ Throw(c) \/ WriteState(c) \/ WriteFails(c) \/ Crash(c)
      BY <2>2 DEF StoreNext
    <3>2. CallInv(c)
      BY <1>1 DEF RecordInv
    <3>3. file' = file \/ Seed(c) \/ WriteState(c)
      BY <3>1 DEF Start, Advance, ReadState, VerifyEvents, Exists, MakeDir, Acquire, LockBusy,
        Load, AppendEvents, Unlock, Mutate, Throw, WriteFails, Crash, disk
    <3>. QED
      BY <3>2, <3>3 DEF CallInv, Seed, WriteState
  <2>. QED
    BY <1>1, <2>1, <2>2
<1>2. RecordInv /\ [StoreNext]_storeVars
      => [file # Absent => file' = file \/ file'.rev = file.rev + 1]_storeVars
  BY <1>1
<1>. QED
  BY RecordHolds, <1>2, PTL DEF StoreSpec, NoUpdateIsLost

\* Nobody writes on after a tear: whoever has the lock verifies first.
THEOREM TearsAreFinal == StoreSpec => TornIsFrozen
<1>1. ASSUME RecordInv, [StoreNext]_storeVars
      PROVE  Torn => UNCHANGED <<file, events>>
  <2>1. CASE UNCHANGED storeVars
    BY <2>1 DEF storeVars
  <2>2. CASE StoreNext
    <3>1. PICK c \in Caller :
            \/ \E step \in {"peek", "exists", "lock"} : Start(c, step)
            \/ Advance(c)
            \/ \E next \in Data, emits \in BOOLEAN : Mutate(c, next, emits)
            \/ Throw(c) \/ WriteState(c) \/ WriteFails(c) \/ Crash(c)
      BY <2>2 DEF StoreNext
    <3>2. CallInv(c)
      BY <1>1 DEF RecordInv
    <3>3. UNCHANGED <<file, events>> \/ Seed(c) \/ WriteState(c) \/ AppendEvents(c)
      BY <3>1 DEF Start, Advance, ReadState, VerifyEvents, Exists, MakeDir, Acquire, LockBusy,
        Load, Unlock, Mutate, Throw, WriteFails, Crash, disk
    <3>. QED
      BY <3>2, <3>3 DEF CallInv, Seed, WriteState, AppendEvents, Torn
  <2>. QED
    BY <1>1, <2>1, <2>2
<1>2. RecordInv /\ [StoreNext]_storeVars => [Torn => UNCHANGED <<file, events>>]_storeVars
  BY <1>1
<1>. QED
  BY RecordHolds, <1>2, PTL DEF StoreSpec, TornIsFrozen

-----------------------------------------------------------------------------
(* The queue: any workers, one step for each operation *)

\* What the status of a job says of its attempts and of the leases given out.
JobInv(j, job, iss) ==
  /\ job.attempts <= MaxAttempts
  /\ job.status = "queued" => job.attempts < MaxAttempts
  /\ job.status = "leased" => /\ job.attempts > 0
                              /\ job.lease \in Q!Lease
                              /\ <<job.lease.worker, j, job.attempts>> \in iss
  /\ job.status = "completed" => /\ job.result \in Caller \X Nat
                                 /\ job.result[2] = job.attempts
                                 /\ <<job.result[1], j, job.attempts>> \in iss

\* A lease is of an attempt that the job has had, and an attempt had one lease.
IssuedInv(q, iss) ==
  /\ iss \subseteq Caller \X Nat \X Nat
  /\ \A t \in iss : t[2] \in DOMAIN q.jobs /\ t[3] <= q.jobs[t[2]].attempts
  /\ \A t, u \in iss : t[2] = u[2] /\ t[3] = u[3] => t = u

UniqueKeys(q) ==
  \A i, j \in DOMAIN q.jobs :
    q.jobs[i].key # None /\ q.jobs[i].key = q.jobs[j].key => i = j

QInv(q, iss) ==
  /\ q \in Q!Queue
  /\ \A j \in DOMAIN q.jobs : JobInv(j, q.jobs[j], iss)
  /\ IssuedInv(q, iss)
  /\ UniqueKeys(q)

\* From one queue to a later one.
Grows(q, r) ==
  \A j \in DOMAIN q.jobs :
    /\ j \in DOMAIN r.jobs
    /\ q.jobs[j].status \in {"completed", "failed"} => r.jobs[j] = q.jobs[j]
    /\ r.jobs[j].attempts >= q.jobs[j].attempts

LEMMA JobAt ==
  ASSUME NEW jobs \in Seq(Q!Job), NEW j \in DOMAIN jobs
  PROVE  jobs[j] \in Q!Job /\ jobs[j].attempts \in Nat
<1>1. jobs[j] \in Q!Job
  OBVIOUS
<1>. QED
  BY <1>1 DEF Q!Job

\* A queue whose jobs are replaced one by one, with the same keys, no fewer
\* attempts, and leases that agree.
LEMMA ReplaceJobs ==
  ASSUME NEW q, NEW iss, QInv(q, iss),
         NEW jobs \in Seq(Q!Job), DOMAIN jobs = DOMAIN q.jobs,
         NEW keys \in SUBSET Key,
         NEW iss2, iss \subseteq iss2,
         \A j \in DOMAIN jobs : /\ jobs[j].key = q.jobs[j].key
                                /\ jobs[j].attempts >= q.jobs[j].attempts
                                /\ JobInv(j, jobs[j], iss2),
         iss2 \subseteq Caller \X Nat \X Nat,
         \A t \in iss2 \ iss : t[2] \in DOMAIN jobs /\ t[3] = jobs[t[2]].attempts
                               /\ t[3] > q.jobs[t[2]].attempts,
         \A t, u \in iss2 \ iss : t = u
  PROVE  QInv([jobs |-> jobs, completed_keys |-> keys], iss2)
<1>. DEFINE r == [jobs |-> jobs, completed_keys |-> keys]
<1>1. r \in Q!Queue /\ r.jobs = jobs
  BY DEF Q!Queue
<1>2. UniqueKeys(r)
  BY <1>1 DEF QInv, UniqueKeys
<1>3. \A j \in DOMAIN jobs : jobs[j].attempts \in Nat /\ q.jobs[j].attempts \in Nat
  <2>1. q.jobs \in Seq(Q!Job)
    BY DEF QInv, Q!Queue
  <2>. QED
    BY <2>1, JobAt
<1>4. ASSUME NEW t \in iss2 PROVE t[2] \in DOMAIN jobs /\ t[3] <= jobs[t[2]].attempts
  <2>1. t[3] \in Nat
    OBVIOUS
  <2>2. CASE t \in iss
    <3>1. t[2] \in DOMAIN q.jobs /\ t[3] <= q.jobs[t[2]].attempts
      BY <2>2 DEF QInv, IssuedInv
    <3>. QED
      BY <2>1, <3>1, <1>3
  <2>. QED
    BY <2>1, <2>2, <1>3
<1>5. ASSUME NEW t \in iss2, NEW u \in iss2, t[2] = u[2], t[3] = u[3] PROVE t = u
  <2>1. CASE t \in iss /\ u \in iss
    BY <1>5, <2>1 DEF QInv, IssuedInv
  <2>2. ASSUME NEW x \in iss, NEW y \in iss2 \ iss, x[2] = y[2], x[3] = y[3] PROVE FALSE
    <3>1. x[3] <= q.jobs[x[2]].attempts /\ x[2] \in DOMAIN q.jobs
      BY DEF QInv, IssuedInv
    <3>2. y[3] > q.jobs[y[2]].attempts
      OBVIOUS
    <3>3. x[3] \in Nat /\ q.jobs[x[2]].attempts \in Nat
      BY <1>3, <3>1
    <3>. QED
      BY <2>2, <3>1, <3>2, <3>3
  <2>. QED
    BY <1>5, <2>1, <2>2
<1>6. IssuedInv(r, iss2)
  BY <1>1, <1>4, <1>5 DEF IssuedInv
<1>. QED
  BY <1>1, <1>2, <1>6 DEF QInv

\* One job is replaced, no lease is given out.
LEMMA ReplaceJob ==
  ASSUME NEW q, NEW iss, QInv(q, iss), NEW j \in DOMAIN q.jobs, NEW job \in Q!Job,
         job.key = q.jobs[j].key, job.attempts = q.jobs[j].attempts, JobInv(j, job, iss),
         q.jobs[j].status \notin {"completed", "failed"},
         NEW keys \in SUBSET Key
  PROVE  /\ QInv([Q!WithJob(q, j, job) EXCEPT !.completed_keys = keys], iss)
         /\ Grows(q, [Q!WithJob(q, j, job) EXCEPT !.completed_keys = keys])
<1>. DEFINE jobs == [q.jobs EXCEPT ![j] = job]
<1>1. q.jobs \in Seq(Q!Job) /\ q = [jobs |-> q.jobs, completed_keys |-> q.completed_keys]
  BY DEF QInv, Q!Queue
<1>2. jobs \in Seq(Q!Job) /\ DOMAIN jobs = DOMAIN q.jobs
  BY <1>1
<1>3. [Q!WithJob(q, j, job) EXCEPT !.completed_keys = keys]
        = [jobs |-> jobs, completed_keys |-> keys]
  <2>. DEFINE c == q.completed_keys
  <2>1. q = [jobs |-> q.jobs, completed_keys |-> c]
    BY <1>1
  <2>. HIDE DEF c
  <2>2. Q!WithJob(q, j, job) = [jobs |-> jobs, completed_keys |-> c]
    BY <2>1 DEF Q!WithJob
  <2>. QED
    BY <2>2
<1>4. \A k \in DOMAIN q.jobs : q.jobs[k].attempts \in Nat /\ JobInv(k, q.jobs[k], iss)
  BY <1>1, JobAt DEF QInv
<1>5. \A k \in DOMAIN jobs : /\ jobs[k].key = q.jobs[k].key
                             /\ jobs[k].attempts >= q.jobs[k].attempts
                             /\ JobInv(k, jobs[k], iss)
  BY <1>4
<1>6. iss \subseteq Caller \X Nat \X Nat
  BY DEF QInv, IssuedInv
<1>7. QInv([jobs |-> jobs, completed_keys |-> keys], iss)
  <2>. HIDE DEF jobs
  <2>. QED
    BY <1>2, <1>5, <1>6, ReplaceJobs
<1>8. Grows(q, [jobs |-> jobs, completed_keys |-> keys])
  BY <1>4 DEF Grows
<1>. QED
  BY <1>3, <1>7, <1>8

\* Taking leases back keeps the queue in order.
LEMMA ExpireIsSound ==
  ASSUME NEW q, NEW iss, QInv(q, iss), NEW past
  PROVE  LET r == [q EXCEPT !.jobs = Q!Expire(q.jobs, past)] IN QInv(r, iss) /\ Grows(q, r)
<1>. DEFINE jobs == Q!Expire(q.jobs, past)
<1>1. q.jobs \in Seq(Q!Job) /\ q = [jobs |-> q.jobs, completed_keys |-> q.completed_keys]
      /\ q.completed_keys \in SUBSET Key
  BY DEF QInv, Q!Queue
<1>2. ASSUME NEW j \in DOMAIN q.jobs
      PROVE  /\ jobs[j] \in Q!Job /\ jobs[j].key = q.jobs[j].key
             /\ jobs[j].attempts = q.jobs[j].attempts /\ JobInv(j, jobs[j], iss)
             /\ q.jobs[j].status # "leased" => jobs[j] = q.jobs[j]
  <2>1. q.jobs[j] \in Q!Job /\ JobInv(j, q.jobs[j], iss)
    BY <1>1 DEF QInv
  <2>2. CASE ~Q!LeaseExpired(j, q.jobs[j], past)
    BY <2>1, <2>2 DEF Q!Expire
  <2>3. CASE Q!LeaseExpired(j, q.jobs[j], past)
    <3>1. jobs[j] = [q.jobs[j] EXCEPT
             !.status = IF q.jobs[j].attempts >= MaxAttempts THEN "failed" ELSE "queued",
             !.lease = None]
      BY <2>3 DEF Q!Expire
    <3>2. jobs[j] \in Q!Job /\ jobs[j].key = q.jobs[j].key /\ jobs[j].attempts = q.jobs[j].attempts
          /\ jobs[j].status = IF q.jobs[j].attempts >= MaxAttempts THEN "failed" ELSE "queued"
      BY <2>1, <3>1 DEF Q!Job
    <3>3. q.jobs[j].attempts \in Nat
      BY <2>1 DEF Q!Job
    <3>. QED
      BY <2>1, <2>3, <3>2, <3>3, QueueAssumption DEF JobInv, Q!LeaseExpired
  <2>. QED
    BY <2>2, <2>3
<1>3. jobs \in Seq(Q!Job) /\ DOMAIN jobs = DOMAIN q.jobs
  <2>1. DOMAIN jobs = DOMAIN q.jobs /\ DOMAIN q.jobs = 1..Len(q.jobs) /\ Len(q.jobs) \in Nat
    BY <1>1 DEF Q!Expire
  <2>2. jobs = [j \in 1..Len(q.jobs) |-> jobs[j]]
    BY <2>1 DEF Q!Expire
  <2>3. \A j \in 1..Len(q.jobs) : jobs[j] \in Q!Job
    BY <1>2, <2>1
  <2>. HIDE DEF jobs
  <2>. QED
    BY <2>1, <2>2, <2>3
<1>4. [q EXCEPT !.jobs = jobs] = [jobs |-> jobs, completed_keys |-> q.completed_keys]
  BY <1>1
<1>5. \A j \in DOMAIN jobs : q.jobs[j].attempts \in Nat
  BY <1>1, <1>3, JobAt
<1>6. iss \subseteq Caller \X Nat \X Nat
  BY DEF QInv, IssuedInv
<1>7. QInv([jobs |-> jobs, completed_keys |-> q.completed_keys], iss)
  <2>. HIDE DEF jobs
  <2>1. \A j \in DOMAIN jobs : /\ jobs[j].key = q.jobs[j].key
                               /\ jobs[j].attempts >= q.jobs[j].attempts
                               /\ JobInv(j, jobs[j], iss)
    BY <1>2, <1>3, <1>5
  <2>. QED
    BY <1>1, <1>3, <1>6, <2>1, ReplaceJobs
<1>8. Grows(q, [jobs |-> jobs, completed_keys |-> q.completed_keys])
  <2>. HIDE DEF jobs
  <2>. QED
    BY <1>2, <1>3, <1>5 DEF Grows
<1>. QED
  BY <1>4, <1>7, <1>8

LEMMA GrowsOn ==
  ASSUME NEW q, NEW r, NEW s, q.jobs \in Seq(Q!Job), r.jobs \in Seq(Q!Job), s.jobs \in Seq(Q!Job),
         Grows(q, r), Grows(r, s)
  PROVE  Grows(q, s)
<1>. SUFFICES ASSUME NEW j \in DOMAIN q.jobs
     PROVE  /\ j \in DOMAIN s.jobs
            /\ q.jobs[j].status \in {"completed", "failed"} => s.jobs[j] = q.jobs[j]
            /\ s.jobs[j].attempts >= q.jobs[j].attempts
  BY DEF Grows
<1>1. j \in DOMAIN r.jobs /\ j \in DOMAIN s.jobs
  BY DEF Grows
<1>2. q.jobs[j].attempts \in Nat /\ r.jobs[j].attempts \in Nat /\ s.jobs[j].attempts \in Nat
  BY <1>1, JobAt
<1>. QED
  BY <1>1, <1>2 DEF Grows

\* A job with a key that the queue knows is not added.
LEMMA EnqueueIsSound ==
  ASSUME NEW q, NEW iss, QInv(q, iss), NEW key \in Key \cup {None}, NEW delayed \in BOOLEAN
  PROVE  LET r == Q!Enqueue(q, key, delayed).queue IN QInv(r, iss) /\ Grows(q, r)
<1>. DEFINE job == Q!NewJob(key, delayed)
            jobs == Append(q.jobs, job)
            c == q.completed_keys
            r == [jobs |-> jobs, completed_keys |-> c]
<1>1. q.jobs \in Seq(Q!Job) /\ q = [jobs |-> q.jobs, completed_keys |-> c] /\ c \in SUBSET Key
  BY DEF QInv, Q!Queue
<1>2. CASE Q!KnownKey(q, key)
  <2>1. Q!Enqueue(q, key, delayed).queue = q
    BY <1>2 DEF Q!Enqueue, Q!Unchanged
  <2>2. Grows(q, q)
    BY <1>1, JobAt DEF Grows
  <2>. QED
    BY <2>1, <2>2
<1>3. CASE ~Q!KnownKey(q, key)
  <2>1. Q!Enqueue(q, key, delayed).queue = r
    <3>1. [q EXCEPT !.jobs = jobs] = r
      <4>. HIDE DEF jobs, c
      <4>. QED
        BY <1>1
    <3>. QED
      BY <1>3, <3>1 DEF Q!Enqueue, Q!Changed
  <2>2. job \in Q!Job /\ job.key = key /\ job.status = "queued" /\ job.attempts = 0
    BY DEF Q!NewJob, Q!Job
  <2>3. /\ jobs \in Seq(Q!Job) /\ DOMAIN jobs = 1..(Len(q.jobs) + 1)
        /\ DOMAIN q.jobs = 1..Len(q.jobs) /\ Len(q.jobs) \in Nat
        /\ \A j \in DOMAIN q.jobs : jobs[j] = q.jobs[j]
        /\ jobs[Len(q.jobs) + 1] = job
    <3>. HIDE DEF job
    <3>. QED
      BY <1>1, <2>2
  <2>. DEFINE n == Len(q.jobs) + 1
  <2>4. DOMAIN jobs = DOMAIN q.jobs \cup {n} /\ n \notin DOMAIN q.jobs
    BY <2>3
  <2>. HIDE DEF jobs, job, n, c
  <2>5. r \in Q!Queue /\ r.jobs = jobs
    BY <1>1, <2>3 DEF Q!Queue
  <2>6. ASSUME NEW j \in DOMAIN jobs PROVE JobInv(j, jobs[j], iss)
    <3>1. CASE j \in DOMAIN q.jobs
      BY <2>3, <3>1 DEF QInv
    <3>2. CASE j = n
      <4>1. jobs[j] = job
        BY <2>3, <3>2 DEF n
      <4>. QED
        BY <4>1, <2>2, QueueAssumption DEF JobInv
    <3>. QED
      BY <2>4, <3>1, <3>2
  <2>7. IssuedInv(r, iss)
    BY <2>3, <2>4, <2>5 DEF QInv, IssuedInv
  <2>8. \A j \in DOMAIN q.jobs : q.jobs[j].key # None => q.jobs[j].key # key
    BY <1>3 DEF Q!KnownKey
  <2>9. jobs[n].key = key
    BY <2>2, <2>3 DEF n
  <2>10. UniqueKeys(r)
    <3>. SUFFICES ASSUME NEW i \in DOMAIN jobs, NEW j \in DOMAIN jobs,
                         jobs[i].key # None, jobs[i].key = jobs[j].key
         PROVE  i = j
      BY <2>5 DEF UniqueKeys
    <3>1. CASE i \in DOMAIN q.jobs /\ j \in DOMAIN q.jobs
      BY <2>3, <3>1 DEF QInv, UniqueKeys
    <3>2. CASE i = n \/ j = n
      BY <2>3, <2>4, <2>8, <2>9, <3>2
    <3>. QED
      BY <2>4, <3>1, <3>2
  <2>11. Grows(q, r)
    <3>1. \A j \in DOMAIN q.jobs : q.jobs[j].attempts \in Nat
      BY <1>1, JobAt
    <3>. QED
      BY <2>3, <2>4, <2>5, <3>1 DEF Grows
  <2>. QED
    BY <2>1, <2>5, <2>6, <2>7, <2>10, <2>11 DEF QInv
<1>. QED
  BY <1>2, <1>3

LEMMA Least ==
  ASSUME NEW S \in SUBSET Nat, S # {}
  PROVE  (CHOOSE j \in S : \A k \in S : j <= k) \in S
<1>1. \E j \in S : \A k \in S : j <= k
  <2>. DEFINE L == OpToRel(<, Nat)
  <2>1. \A i, j \in Nat : i < j => <<i, j>> \in L
    BY DEF OpToRel
  <2>2. IsWellFoundedOn(L, Nat)
    BY NatLessThanWellFounded
  <2>. HIDE DEF L
  <2>3. PICK j \in S : \A k \in S : ~(<<k, j>> \in L)
    BY <2>2, WFMin
  <2>4. ASSUME NEW k \in S PROVE j <= k
    <3>1. j \in Nat /\ k \in Nat /\ ~(k < j)
      BY <2>1, <2>3
    <3>. QED
      BY <3>1
  <2>. QED
    BY <2>4
<1>. QED
  BY <1>1

\* A claim gives out one job, and the lease is the first of its attempt.
LEMMA ClaimIsSound ==
  ASSUME NEW q, NEW iss, QInv(q, iss), NEW w \in Caller, NEW past
  PROVE  LET e == Q!Claim(q, w, past) IN
         QInv(e.queue, iss \cup Q!Issue(w, e)) /\ Grows(q, e.queue)
<1>. DEFINE x == [q EXCEPT !.jobs = Q!Expire(q.jobs, past)]
            ready == {j \in DOMAIN x.jobs : Q!Available(j, x.jobs[j], past)}
            f == CHOOSE j \in ready : \A k \in ready : j <= k
            e == Q!Claim(q, w, past)
            job == [x.jobs[f] EXCEPT !.status = "leased",
                                     !.attempts = x.jobs[f].attempts + 1,
                                     !.lease = [worker |-> w, beat |-> 1]]
            jobs == [x.jobs EXCEPT ![f] = job]
            c == q.completed_keys
            r == [jobs |-> jobs, completed_keys |-> c]
<1>1. q.jobs \in Seq(Q!Job) /\ q = [jobs |-> q.jobs, completed_keys |-> c] /\ c \in SUBSET Key
  BY DEF QInv, Q!Queue
<1>2. QInv(x, iss) /\ Grows(q, x)
  BY ExpireIsSound
<1>3. x.jobs = Q!Expire(q.jobs, past) /\ x = [jobs |-> x.jobs, completed_keys |-> c]
      /\ x.jobs \in Seq(Q!Job)
  BY <1>1, <1>2 DEF QInv, Q!Queue
<1>4. CASE ready = {}
  <2>1. e.queue = x /\ e.claimed = 0
    BY <1>3, <1>4 DEF Q!Claim, Q!Unchanged
  <2>. QED
    BY <1>2, <2>1 DEF Q!Issue
<1>5. CASE ready # {}
  <2>1. e.queue = [q EXCEPT !.jobs = jobs] /\ e.claimed = f
    BY <1>3, <1>5 DEF Q!Claim
  <2>2. e.queue = r
    BY <1>1, <2>1
  <2>3. f \in ready
    <3>1. ready \subseteq Nat
      BY <1>3
    <3>. HIDE DEF ready
    <3>. QED
      BY <1>5, <3>1, Least
  <2>. HIDE DEF ready, e
  <2>4. f \in DOMAIN x.jobs /\ x.jobs[f].status = "queued"
    BY <2>3 DEF ready, Q!Available
  <2>5. x.jobs[f] \in Q!Job /\ x.jobs[f].attempts \in Nat /\ JobInv(f, x.jobs[f], iss)
    BY <1>2, <1>3, <2>4, JobAt DEF QInv
  <2>. DEFINE y == x.jobs
              a == x.jobs[f].attempts
  <2>6. job \in Q!Job /\ job.key = y[f].key /\ job.attempts = a + 1 /\ job.status = "leased"
        /\ job.lease = [worker |-> w, beat |-> 1]
    <3>1. [worker |-> w, beat |-> 1] \in Q!Lease /\ a + 1 \in Nat
      BY <2>5 DEF Q!Lease
    <3>. QED
      BY <2>5, <3>1 DEF Q!Job
  <2>. HIDE DEF x, f, job
  <2>7. jobs \in Seq(Q!Job) /\ DOMAIN jobs = DOMAIN y /\ jobs[f] = job
        /\ \A j \in DOMAIN y : j # f => jobs[j] = y[j]
    BY <1>3, <2>4, <2>6
  <2>. DEFINE t0 == <<w, f, a + 1>>
              iss2 == iss \cup {t0}
  <2>8. iss \cup Q!Issue(w, e) = iss2
    <3>1. f \in Nat \ {0}
      BY <1>3, <2>4
    <3>2. e.queue.jobs[f].attempts = a + 1
      BY <2>2, <2>6, <2>7
    <3>. QED
      BY <2>1, <3>1, <3>2 DEF Q!Issue
  <2>9. f \in Nat
    BY <1>3, <2>4
  <2>10. iss2 \subseteq Caller \X Nat \X Nat
    BY <1>2, <2>5, <2>9 DEF QInv, IssuedInv
  <2>11. ASSUME NEW j \in DOMAIN jobs
         PROVE  /\ jobs[j].key = y[j].key
                /\ jobs[j].attempts >= y[j].attempts
                /\ JobInv(j, jobs[j], iss2)
    <3>1. CASE j = f
      <4>1. a < MaxAttempts
        BY <2>4, <2>5 DEF JobInv
      <4>2. job.lease \in Q!Lease /\ job.lease.worker = w
        BY <2>6 DEF Q!Lease
      <4>3. JobInv(j, job, iss2)
        BY <2>5, <2>6, <3>1, <4>1, <4>2, QueueAssumption DEF JobInv
      <4>. QED
        BY <2>5, <2>6, <2>7, <3>1, <4>3
    <3>2. CASE j # f
      <4>1. jobs[j] = y[j] /\ y[j].attempts \in Nat /\ JobInv(j, y[j], iss)
        BY <1>2, <1>3, <2>7, <3>2, JobAt DEF QInv
      <4>. QED
        BY <4>1 DEF JobInv
    <3>. QED
      BY <3>1, <3>2
  <2>12. \A t \in iss2 \ iss : t = t0
    OBVIOUS
  <2>13. \A t \in iss2 \ iss : t[2] \in DOMAIN jobs /\ t[3] = jobs[t[2]].attempts
                               /\ t[3] > y[t[2]].attempts
    BY <2>4, <2>5, <2>6, <2>7, <2>12
  <2>14. QInv(r, iss2)
    <3>. HIDE DEF jobs, iss2, c
    <3>1. iss \subseteq iss2
      BY DEF iss2
    <3>2. \A t, u \in iss2 \ iss : t = u
      BY <2>12
    <3>. QED
      BY <1>1, <1>2, <2>7, <2>10, <2>11, <2>13, <3>1, <3>2, ReplaceJobs
  <2>15. Grows(x, r)
    <3>1. \A j \in DOMAIN y : j \in DOMAIN jobs /\ jobs[j].attempts >= y[j].attempts
      BY <2>7, <2>11
    <3>2. r.jobs = jobs
      OBVIOUS
    <3>. QED
      BY <2>4, <2>7, <3>1, <3>2 DEF Grows
  <2>16. Grows(q, r)
    BY <1>1, <1>2, <1>3, <2>7, <2>15, GrowsOn
  <2>. QED
    BY <2>2, <2>8, <2>14, <2>16 DEF e
<1>. QED
  BY <1>4, <1>5

\* The operations on a lease replace the job whose lease it is.
LEMMA LeaseOpsAreSound ==
  ASSUME NEW q, NEW iss, QInv(q, iss), NEW w \in Caller, NEW past,
         NEW j, NEW attempt, Q!HasLease(q, w, j, attempt, past)
  PROVE  /\ LET r == Q!Heartbeat(q, w, j, attempt, past).queue IN QInv(r, iss) /\ Grows(q, r)
         /\ LET r == Q!Complete(q, w, j, attempt, past).queue IN QInv(r, iss) /\ Grows(q, r)
         /\ \A b, d \in BOOLEAN :
              LET r == Q!Fail(q, w, j, attempt, b, d, past).queue IN QInv(r, iss) /\ Grows(q, r)
<1>. DEFINE old == q.jobs[j]
            c == q.completed_keys
<1>1. q.jobs \in Seq(Q!Job) /\ q = [jobs |-> q.jobs, completed_keys |-> c] /\ c \in SUBSET Key
  BY DEF QInv, Q!Queue
<1>2. j \in DOMAIN q.jobs /\ old.status = "leased" /\ old.lease.worker = w
      /\ old.attempts = attempt
  BY DEF Q!HasLease
<1>3. old \in Q!Job /\ old.attempts \in Nat /\ JobInv(j, old, iss) /\ old.lease \in Q!Lease
  BY <1>1, <1>2, JobAt DEF QInv, JobInv
<1>4. <<w, j, old.attempts>> \in iss /\ old.attempts <= MaxAttempts
  BY <1>2, <1>3 DEF JobInv
<1>5. ASSUME NEW job PROVE Q!WithJob(q, j, job) = [Q!WithJob(q, j, job) EXCEPT !.completed_keys = c]
  BY <1>1 DEF Q!WithJob
<1>6. ASSUME NEW job \in Q!Job, job.key = old.key, job.attempts = old.attempts,
             JobInv(j, job, iss), NEW keys \in SUBSET Key
      PROVE  /\ QInv([Q!WithJob(q, j, job) EXCEPT !.completed_keys = keys], iss)
             /\ Grows(q, [Q!WithJob(q, j, job) EXCEPT !.completed_keys = keys])
  BY <1>2, <1>6, ReplaceJob
<1>. HIDE DEF old, c
<1>7. LET r == Q!Heartbeat(q, w, j, attempt, past).queue IN QInv(r, iss) /\ Grows(q, r)
  <2>. DEFINE lease == [worker |-> w, beat |-> old.lease.beat + 1]
              job == [old EXCEPT !.lease = lease]
  <2>1. lease \in Q!Lease /\ lease.worker = w
    BY <1>3 DEF Q!Lease
  <2>2. Q!Heartbeat(q, w, j, attempt, past).queue = Q!WithJob(q, j, job)
    BY DEF Q!Heartbeat, Q!Changed, old
  <2>. HIDE DEF lease
  <2>3. job \in Q!Job /\ job.key = old.key /\ job.attempts = old.attempts
        /\ job.status = "leased" /\ job.lease = lease
    BY <1>2, <1>3, <2>1 DEF Q!Job
  <2>. HIDE DEF job
  <2>4. JobInv(j, job, iss)
    BY <1>2, <1>3, <1>4, <2>1, <2>3 DEF JobInv
  <2>. QED
    BY <1>1, <1>5, <1>6, <2>2, <2>3, <2>4
<1>8. LET r == Q!Complete(q, w, j, attempt, past).queue IN QInv(r, iss) /\ Grows(q, r)
  <2>. DEFINE job == [old EXCEPT !.status = "completed", !.lease = None,
                                 !.result = <<w, attempt>>]
              keys == c \cup ({old.key} \ {None})
  <2>1. Q!Complete(q, w, j, attempt, past).queue
          = [Q!WithJob(q, j, job) EXCEPT !.completed_keys = keys]
    BY DEF Q!Complete, Q!Changed, old, c
  <2>2. job \in Q!Job /\ job.key = old.key /\ job.attempts = old.attempts
        /\ job.status = "completed" /\ job.result = <<w, old.attempts>>
    BY <1>2, <1>3 DEF Q!Job
  <2>3. keys \in SUBSET Key
    BY <1>1, <1>3 DEF Q!Job
  <2>. HIDE DEF job, keys
  <2>4. JobInv(j, job, iss)
    BY <1>3, <1>4, <2>2 DEF JobInv
  <2>. QED
    BY <1>6, <2>1, <2>2, <2>3, <2>4
<1>9. ASSUME NEW b \in BOOLEAN, NEW d \in BOOLEAN
      PROVE  LET r == Q!Fail(q, w, j, attempt, b, d, past).queue IN QInv(r, iss) /\ Grows(q, r)
  <2>. DEFINE again == b /\ old.attempts < MaxAttempts
              job == [old EXCEPT !.lease = None,
                                 !.status = IF again THEN "queued" ELSE "failed",
                                 !.delayed = IF again THEN d ELSE old.delayed]
  <2>1. Q!Fail(q, w, j, attempt, b, d, past).queue = Q!WithJob(q, j, job)
    BY DEF Q!Fail, Q!Changed, old
  <2>2. job \in Q!Job /\ job.key = old.key /\ job.attempts = old.attempts
        /\ job.status = IF again THEN "queued" ELSE "failed"
    BY <1>3 DEF Q!Job
  <2>. HIDE DEF job
  <2>3. JobInv(j, job, iss)
    BY <1>3, <1>4, <2>2 DEF JobInv
  <2>. QED
    BY <1>1, <1>5, <1>6, <2>1, <2>2, <2>3
<1>. QED
  BY <1>7, <1>8, <1>9

LEMMA QueueBegins == Q!Init => QInv(queue, issued)
<1>. SUFFICES ASSUME Q!Init PROVE QInv(queue, issued)
  OBVIOUS
<1>1. queue.jobs = << >> /\ queue.completed_keys = {} /\ queue \in Q!Queue /\ issued = {}
  BY DEF Q!Init, Q!EmptyQueue, Q!Queue
<1>2. DOMAIN queue.jobs = {}
  BY <1>1
<1>. QED
  BY <1>1, <1>2 DEF QInv, IssuedInv, UniqueKeys

\* Whatever is asked of the queue, by whoever was given whatever leases.
LEMMA EffectIsSound ==
  ASSUME NEW q, NEW iss, QInv(q, iss), NEW w \in Caller, NEW leases,
         NEW r \in Q!RequestsOf(leases), NEW past, Q!Effect(q, w, r, past).ok
  PROVE  LET e == Q!Effect(q, w, r, past) IN
         /\ QInv(e.queue, iss \cup Q!Issue(w, e)) /\ Grows(q, e.queue)
         /\ r.op # "claim" => Q!Issue(w, e) = {}
<1>. DEFINE e == Q!Effect(q, w, r, past)
<1>1. e.ok
  OBVIOUS
<1>. HIDE DEF e
<1>2. CASE r.op = "enqueue"
  <2>1. r.key \in Key \cup {None} /\ r.delayed \in BOOLEAN
    BY <1>2 DEF Q!RequestsOf
  <2>2. e = Q!Enqueue(q, r.key, r.delayed) /\ e.claimed = 0
    BY <1>2 DEF e, Q!Effect, Q!Enqueue, Q!Unchanged, Q!Changed
  <2>3. Q!Issue(w, e) = {}
    BY <2>2 DEF Q!Issue
  <2>4. QInv(e.queue, iss) /\ Grows(q, e.queue)
    BY <2>1, <2>2, EnqueueIsSound
  <2>5. iss \cup Q!Issue(w, e) = iss
    BY <2>3
  <2>. QED
    BY <2>3, <2>4, <2>5 DEF e
<1>3. CASE r.op = "claim"
  <2>1. e = Q!Claim(q, w, past)
    BY <1>3 DEF e, Q!Effect
  <2>2. QInv(e.queue, iss \cup Q!Issue(w, e)) /\ Grows(q, e.queue)
    BY <2>1, ClaimIsSound
  <2>. QED
    BY <1>3, <2>2 DEF e
<1>4. CASE r.op \in {"heartbeat", "complete", "fail"}
  <2>1. Q!HasLease(q, w, r.job, r.attempt, past)
    BY <1>1, <1>4 DEF e, Q!Effect, Q!Heartbeat, Q!Complete, Q!Fail, Q!Refused
  <2>2. e.claimed = 0
    BY <1>4, <2>1 DEF e, Q!Effect, Q!Heartbeat, Q!Complete, Q!Fail, Q!Changed, Q!WithJob
  <2>3. Q!Issue(w, e) = {} /\ iss \cup Q!Issue(w, e) = iss
    BY <2>2 DEF Q!Issue
  <2>4. QInv(e.queue, iss) /\ Grows(q, e.queue)
    <3>1. CASE r.op = "heartbeat"
      BY <2>1, <3>1, LeaseOpsAreSound DEF e, Q!Effect
    <3>2. CASE r.op = "complete"
      BY <2>1, <3>2, LeaseOpsAreSound DEF e, Q!Effect
    <3>3. CASE r.op = "fail"
      <4>1. r.retryable \in BOOLEAN /\ r.delayed \in BOOLEAN
        BY <3>3 DEF Q!RequestsOf
      <4>. QED
        BY <2>1, <3>3, <4>1, LeaseOpsAreSound DEF e, Q!Effect
    <3>. QED
      BY <1>4, <3>1, <3>2, <3>3
  <2>. QED
    BY <2>3, <2>4 DEF e
<1>. QED
  BY <1>2, <1>3, <1>4 DEF Q!RequestsOf

\* Every operation keeps the queue in order, at whatever time it reads the clock.
LEMMA QueueStep ==
  ASSUME QInv(queue, issued), [Q!Next]_(Q!vars)
  PROVE  QInv(queue, issued)' /\ Grows(queue, queue')
<1>1. Grows(queue, queue)
  <2>1. queue.jobs \in Seq(Q!Job)
    BY DEF QInv, Q!Queue
  <2>. QED
    BY <2>1, JobAt DEF Grows
<1>2. CASE UNCHANGED <<queue, issued>>
  BY <1>1, <1>2
<1>3. ASSUME NEW w \in Caller, NEW r \in Q!RequestsOf(Q!LeasesOf(w)), Q!Do(w, r)
      PROVE  QInv(queue, issued)' /\ Grows(queue, queue')
  <2>1. PICK late \in SUBSET (passed \ known) :
          LET e == Q!Effect(queue, w, r, passed \ late) IN
          e.ok /\ queue' = e.queue /\ issued' = issued \cup Q!Issue(w, e)
    BY <1>3 DEF Q!Do
  <2>. QED
    BY <2>1, EffectIsSound
<1>. QED
  BY <1>2, <1>3 DEF Q!Next, Q!TimePasses, Q!vars

LEMMA QueueHolds == Q!Spec => []QInv(queue, issued)
<1>1. QInv(queue, issued) /\ [Q!Next]_(Q!vars) => QInv(queue, issued)'
  BY QueueStep
<1>. QED
  BY QueueBegins, <1>1, PTL DEF Q!Spec

\* The queue only ever holds jobs and keys, and the leases are of its workers.
THEOREM QueueTypes == Q!Spec => [](queue \in Q!Queue /\ issued \subseteq Caller \X Nat \X Nat)
<1>1. QInv(queue, issued) => queue \in Q!Queue /\ issued \subseteq Caller \X Nat \X Nat
  BY DEF QInv, IssuedInv
<1>. QED
  BY QueueHolds, <1>1, PTL

LEMMA JobsSound ==
  ASSUME QInv(queue, issued)
  PROVE  Q!JobsAreSound
<1>1. queue.jobs \in Seq(Q!Job)
  BY DEF QInv, Q!Queue
<1>2. Q!AttemptsAreLimited
  BY DEF QInv, JobInv, Q!AttemptsAreLimited
<1>3. Q!OneJobPerKey
  BY DEF QInv, UniqueKeys, Q!OneJobPerKey
<1>4. Q!LastClaimDelivers
  <2>. SUFFICES ASSUME NEW j \in DOMAIN queue.jobs, queue.jobs[j].status = "completed",
                       NEW t \in issued, t[2] = j, t[1] # queue.jobs[j].result[1]
       PROVE  t[3] < queue.jobs[j].result[2]
    BY DEF QInv, JobInv, Q!LastClaimDelivers
  <2>. DEFINE job == queue.jobs[j]
  <2>1. JobInv(j, job, issued) /\ job.attempts \in Nat
    BY <1>1, JobAt DEF QInv
  <2>2. <<job.result[1], j, job.attempts>> \in issued /\ job.result[2] = job.attempts
    BY <2>1 DEF JobInv
  <2>3. t \in Caller \X Nat \X Nat /\ t[3] <= job.attempts
    BY DEF QInv, IssuedInv
  <2>4. t[3] # job.attempts
    BY <2>2 DEF QInv, IssuedInv
  <2>. QED
    BY <2>1, <2>2, <2>3, <2>4
<1>. QED
  BY <1>2, <1>3, <1>4 DEF Q!JobsAreSound

\* Attempts, keys and results are right in every state of the queue.
THEOREM JobsStaySound == Q!Spec => []Q!JobsAreSound
<1>1. QInv(queue, issued) => Q!JobsAreSound
  BY JobsSound
<1>. QED
  BY QueueHolds, <1>1, PTL

\* A settled job is never touched again, least of all by the holder of an old lease.
THEOREM SettledStays == Q!Spec => Q!SettledIsFinal
<1>1. QInv(queue, issued) /\ [Q!Next]_(Q!vars) =>
        [\A j \in DOMAIN queue.jobs :
           /\ j \in DOMAIN queue'.jobs
           /\ queue.jobs[j].status \in {"completed", "failed"} =>
                queue'.jobs[j] = queue.jobs[j]
           /\ queue'.jobs[j].attempts >= queue.jobs[j].attempts]_(Q!vars)
  BY QueueStep DEF Grows
<1>. QED
  BY QueueHolds, <1>1, PTL DEF Q!Spec, Q!SettledIsFinal

-----------------------------------------------------------------------------
(* The queue on the record *)

\* The record may hold every queue (ChainStore does not say what Data is; the
\* run gives it the set of queues).
Kept == Q!Queue \subseteq Data

QueueSound == QInv(queue, issued)

\* The call of the store that a caller is in is one of those its operation
\* makes, and it has only been told of leases that were given to it.
Calls(c) ==
  /\ stage[c] # "none" => req[c] \in Q!RequestsOf(Q!LeasesOf(c))
  /\ held[c] \subseteq Q!LeasesOf(c)
  /\ pc[c] \in Creating => stage[c] = "create"
  /\ pc[c] \in {"peek", "verify"} => stage[c] = "init"
  /\ pc[c] \in {"lock"} \cup Holding => stage[c] \in {"create", "apply"}

\* What a caller is about to write is what its operation makes of the queue as
\* it is, by a clock that may be late, but not before the last write.
Pending(c) ==
  pc[c] \in {"append", "write"} =>
    /\ stage[c] = "create" => buf[c].data = queue
    /\ stage[c] = "apply" =>
         \E late \in SUBSET (passed \ known) :
           LET e == Q!Effect(queue, c, req[c], passed \ late) IN
           e.ok /\ e.queue = buf[c].data

Shape ==
  /\ stage \in [Caller -> Stages]
  /\ req = [c \in Caller |-> req[c]]
  /\ held = [c \in Caller |-> held[c]]
  /\ known \subseteq passed

Sound ==
  /\ RecordInv /\ QueueSound /\ Shape
  /\ \A c \in Caller : Calls(c)
  /\ \A c \in Caller : Pending(c)

\* Only a claim raises the attempts of a job, and only of the one it gives out.
LEMMA ClaimTells ==
  ASSUME NEW q, NEW iss, QInv(q, iss), NEW w \in Caller, NEW past
  PROVE  LET e == Q!Claim(q, w, past)
             new == {j \in DOMAIN e.queue.jobs : /\ e.queue.jobs[j].lease # None
                                                 /\ e.queue.jobs[j].attempts > q.jobs[j].attempts}
         IN {<<w, j, e.queue.jobs[j].attempts>> : j \in new} = Q!Issue(w, e)
<1>. DEFINE jobs == Q!Expire(q.jobs, past)
            ready == {j \in DOMAIN jobs : Q!Available(j, jobs[j], past)}
            f == CHOOSE j \in ready : \A k \in ready : j <= k
            e == Q!Claim(q, w, past)
            a == jobs[f].attempts
            new == {j \in DOMAIN e.queue.jobs : /\ e.queue.jobs[j].lease # None
                                                /\ e.queue.jobs[j].attempts > q.jobs[j].attempts}
<1>1. q.jobs \in Seq(Q!Job) /\ q = [jobs |-> q.jobs, completed_keys |-> q.completed_keys]
  BY DEF QInv, Q!Queue
<1>2. /\ DOMAIN jobs = DOMAIN q.jobs
      /\ \A j \in DOMAIN q.jobs : jobs[j].attempts = q.jobs[j].attempts /\ q.jobs[j].attempts \in Nat
  <2>1. DOMAIN jobs = DOMAIN q.jobs
    BY DEF Q!Expire
  <2>2. ASSUME NEW j \in DOMAIN q.jobs
        PROVE jobs[j].attempts = q.jobs[j].attempts /\ q.jobs[j].attempts \in Nat
    <3>1. q.jobs[j] \in Q!Job /\ q.jobs[j].attempts \in Nat
      BY <1>1, JobAt
    <3>2. jobs[j].attempts = q.jobs[j].attempts
      BY <3>1 DEF Q!Expire, Q!Job
    <3>. QED
      BY <3>1, <3>2
  <2>. QED
    BY <2>1, <2>2
<1>3. CASE ready = {}
  <2>1. e.queue.jobs = jobs /\ e.claimed = 0
    BY <1>1, <1>3 DEF Q!Claim, Q!Unchanged
  <2>. HIDE DEF jobs, e
  <2>2. new = {}
    BY <1>2, <2>1
  <2>3. Q!Issue(w, e) = {}
    BY <2>1 DEF Q!Issue
  <2>. QED
    BY <2>2, <2>3 DEF e
<1>4. CASE ready # {}
  <2>. DEFINE job == [jobs[f] EXCEPT !.status = "leased", !.attempts = jobs[f].attempts + 1,
                                     !.lease = [worker |-> w, beat |-> 1]]
              later == [jobs EXCEPT ![f] = job]
  <2>1. e.queue.jobs = later /\ e.claimed = f
    BY <1>1, <1>4 DEF Q!Claim
  <2>2. QInv([q EXCEPT !.jobs = jobs], iss)
    BY ExpireIsSound
  <2>3. jobs \in Seq(Q!Job)
    <3>1. [q EXCEPT !.jobs = jobs].jobs = jobs
      BY <1>1
    <3>. HIDE DEF jobs
    <3>. QED
      BY <2>2, <3>1 DEF QInv, Q!Queue
  <2>4. f \in ready
    <3>1. ready \subseteq Nat
      <4>. HIDE DEF jobs
      <4>. QED
        BY <2>3
    <3>. HIDE DEF ready
    <3>. QED
      BY <1>4, <3>1, Least
  <2>. HIDE DEF jobs, e
  <2>5. f \in DOMAIN jobs /\ jobs[f] \in Q!Job /\ a \in Nat
    BY <2>3, <2>4, JobAt
  <2>. HIDE DEF f, ready
  <2>6. job.attempts = a + 1 /\ job.lease = [worker |-> w, beat |-> 1]
    BY <2>5 DEF Q!Job
  <2>7. job.lease # None
    BY <2>6, RecordAssumption DEF Q!Lease
  <2>. HIDE DEF job
  <2>8. DOMAIN later = DOMAIN jobs /\ later[f] = job /\ \A j \in DOMAIN jobs \ {f} : later[j] = jobs[j]
    BY <2>5
  <2>9. new = {f}
    <3>1. ASSUME NEW j \in DOMAIN jobs, j # f PROVE ~(later[j].attempts > q.jobs[j].attempts)
      BY <1>2, <2>8, <3>1
    <3>2. later[f].attempts > q.jobs[f].attempts
      BY <1>2, <2>5, <2>6, <2>8
    <3>. HIDE DEF later
    <3>. QED
      BY <2>1, <2>5, <2>7, <2>8, <3>1, <3>2
  <2>10. f # 0
    BY <2>3, <2>5
  <2>11. Q!Issue(w, e) = {<<w, f, e.queue.jobs[f].attempts>>}
    BY <2>1, <2>10 DEF Q!Issue
  <2>. HIDE DEF later
  <2>. QED
    BY <2>9, <2>11 DEF e, new
<1>. QED
  BY <1>3, <1>4

LEMMA EmitsIsBoolean ==
  ASSUME NEW q, NEW w \in Caller, NEW leases, NEW r \in Q!RequestsOf(leases), NEW past
  PROVE  Q!Effect(q, w, r, past).emits \in BOOLEAN
<1>1. CASE r.op = "enqueue"
  BY <1>1 DEF Q!Effect, Q!Enqueue, Q!Unchanged, Q!Changed
<1>2. CASE r.op = "claim"
  <2>1. Q!Claim(q, w, past).emits \in BOOLEAN
    BY DEF Q!Claim, Q!Unchanged
  <2>. QED
    BY <1>2, <2>1 DEF Q!Effect
<1>3. CASE r.op = "heartbeat"
  BY <1>3 DEF Q!Effect, Q!Heartbeat, Q!Refused, Q!Changed
<1>4. CASE r.op = "complete"
  BY <1>4 DEF Q!Effect, Q!Complete, Q!Refused, Q!Changed
<1>5. CASE r.op = "fail"
  BY <1>5 DEF Q!Effect, Q!Fail, Q!Refused, Q!Changed
<1>. QED
  BY <1>1, <1>2, <1>3, <1>4, <1>5 DEF Q!RequestsOf

\* Every step is one of the store, but that an answer is forgotten when it has
\* been given.
LEMMA StepOfStore ==
  ASSUME Kept, Sound, [Next]_vars
  PROVE  \/ [StoreNext]_storeVars
         \/ outcome' \in [Caller -> Outcomes]
            /\ UNCHANGED <<dir, file, events, lock, pc, buf, expected, tries, faults>>
<1>1. ASSUME NEW c \in Caller, NEW r \in Q!RequestsOf(held[c]), Begin(c, r) PROVE StoreNext
  <2>1. \E step \in {"peek", "exists", "lock"} : Start(c, step)
    BY <1>1 DEF Begin, FirstStep
  <2>. QED
    BY <2>1 DEF StoreNext
<1>2. ASSUME NEW c \in Caller, Continue(c) PROVE StoreNext
  <2>1. \E step \in {"peek", "exists", "lock"} : Start(c, step)
    BY <1>2 DEF Continue, Following, FirstStep
  <2>. QED
    BY <2>1 DEF StoreNext
<1>3. ASSUME NEW c \in Caller, Answer(c)
      PROVE  /\ outcome' \in [Caller -> Outcomes]
             /\ UNCHANGED <<dir, file, events, lock, pc, buf, expected, tries, faults>>
  BY <1>3 DEF Answer, Sound, RecordInv, StoreTypeOK, Outcomes
<1>4. ASSUME NEW c \in Caller, Operate(c) PROVE StoreNext
  <2>. DEFINE e == Q!Effect(buf[c].data, c, req[c], passed)
  <2>1. CASE stage[c] = "create"
    <3>1. pc[c] = "mutate" /\ Mutate(c, buf[c].data, TRUE)
      BY <1>4, <2>1 DEF Operate
    <3>2. buf[c] = file /\ file \in State
      BY <3>1 DEF Sound, RecordInv, CallInv, StoreTypeOK
    <3>3. buf[c].data \in Data
      BY <3>2 DEF State
    <3>. QED
      BY <3>1, <3>3 DEF StoreNext
  <2>2. CASE stage[c] # "create" /\ e.ok
    <3>1. pc[c] = "mutate" /\ Mutate(c, e.queue, e.emits)
      BY <1>4, <2>2 DEF Operate
    <3>2. buf[c].data = queue /\ req[c] \in Q!RequestsOf(Q!LeasesOf(c))
      BY <2>2, <3>1 DEF Sound, RecordInv, CallInv, Calls, Holding, queue
    <3>3. e.queue \in Q!Queue
      BY <2>2, <3>2, EffectIsSound DEF Sound, QueueSound, QInv
    <3>4. e.emits \in BOOLEAN
      <4>. QED
        BY <2>2, <3>2, EmitsIsBoolean
    <3>. HIDE DEF e
    <3>. QED
      BY <3>1, <3>3, <3>4 DEF StoreNext, Kept
  <2>3. CASE stage[c] # "create" /\ ~e.ok
    BY <1>4, <2>3 DEF Operate, StoreNext
  <2>. QED
    BY <2>1, <2>2, <2>3
<1>. QED
  BY <1>1, <1>2, <1>3, <1>4 DEF Next, Step, Commit, Die, TimePasses, StoreNext, vars, storeVars

\* Only the write of the state changes the queue: the first state of a record
\* holds what a queue that is not there yet is taken to hold.
LEMMA Quiet ==
  ASSUME Sound, NEW c \in Caller,
         \/ \E r \in Q!RequestsOf(held[c]) : Begin(c, r)
         \/ Continue(c) \/ Answer(c) \/ Operate(c) \/ Die(c)
         \/ Advance(c) /\ UNCHANGED queueVars
         \/ WriteFails(c) /\ UNCHANGED queueVars
  PROVE  UNCHANGED <<queue, passed, known, issued>>
<1>1. UNCHANGED <<passed, known, issued>>
  BY DEF Begin, Continue, Answer, Operate, Die, queueVars
<1>2. file' = file \/ Seed(c)
  BY DEF Begin, Continue, Answer, Operate, Die, Start, Mutate, Throw, Advance, ReadState,
    VerifyEvents, Exists, MakeDir, Acquire, LockBusy, Load, AppendEvents, Unlock, WriteFails,
    Crash, disk
<1>3. CASE file' = file
  BY <1>1, <1>3 DEF queue
<1>4. CASE Seed(c)
  <2>1. file = Absent /\ file' = [rev |-> 0, seq |-> 0, data |-> Initial]
    BY <1>4 DEF Seed, Sound, RecordInv, CallInv
  <2>2. file' # Absent
    <3>1. [rev |-> 0, seq |-> 0, data |-> Initial] \in [rev : Nat, seq : Nat, data : Data]
      BY ChainAssumption
    <3>. QED
      BY <2>1, <3>1, ChainAssumption
  <2>3. queue = Q!EmptyQueue /\ queue' = Initial
    BY <2>1, <2>2 DEF queue, Q!EmptyQueue
  <2>. QED
    BY <1>1, <2>3, RecordAssumption
<1>. QED
  BY <1>2, <1>3, <1>4

\* The write of the state is the step of the queue that its caller asked for,
\* or, when a record is created, none at all.
LEMMA Commits ==
  ASSUME Sound, NEW c \in Caller, Commit(c)
  PROVE  \/ UNCHANGED <<queue, passed, known, issued>>
         \/ Q!Do(c, req[c]) /\ req[c] \in Q!RequestsOf(Q!LeasesOf(c))
<1>1. pc[c] = "write" /\ file' = buf[c] /\ passed' = passed
  BY DEF Commit, WriteState
<1>2. file # Absent /\ buf[c] \in State /\ Calls(c) /\ Pending(c)
  BY <1>1 DEF Sound, RecordInv, CallInv
<1>3. buf[c] # Absent
  BY <1>2, ChainAssumption DEF State
<1>4. queue' = buf[c].data
  BY <1>1, <1>3 DEF queue
<1>5. CASE stage[c] = "create"
  <2>1. buf[c].data = queue
    BY <1>1, <1>2, <1>5 DEF Pending
  <2>2. known' = known /\ issued' = issued
    BY <1>5 DEF Commit
  <2>. QED
    BY <1>1, <1>4, <2>1, <2>2
<1>6. CASE stage[c] = "apply"
  <2>1. req[c] \in Q!RequestsOf(Q!LeasesOf(c))
    BY <1>2, <1>6 DEF Calls
  <2>2. PICK late \in SUBSET (passed \ known) :
          LET e == Q!Effect(queue, c, req[c], passed \ late) IN e.ok /\ e.queue = buf[c].data
    BY <1>1, <1>2, <1>6 DEF Pending
  <2>. DEFINE e == Q!Effect(queue, c, req[c], passed \ late)
              new == {j \in DOMAIN buf[c].data.jobs :
                        /\ buf[c].data.jobs[j].lease # None
                        /\ buf[c].data.jobs[j].attempts > queue.jobs[j].attempts}
              told == {<<c, j, buf[c].data.jobs[j].attempts>> : j \in new}
  <2>3. e.ok /\ e.queue = buf[c].data
    BY <2>2
  <2>4. known' = passed /\ issued' = issued \cup (IF req[c].op = "claim" THEN told ELSE {})
    BY <1>6 DEF Commit
  <2>5. CASE req[c].op = "claim"
    <3>1. e = Q!Claim(queue, c, passed \ late)
      BY <2>5 DEF Q!Effect
    <3>. HIDE DEF e
    <3>2. told = Q!Issue(c, e)
      BY <2>3, <3>1, ClaimTells DEF Sound, QueueSound
    <3>. HIDE DEF told
    <3>3. issued' = issued \cup Q!Issue(c, e)
      BY <2>4, <2>5, <3>2
    <3>. QED
      BY <1>1, <1>4, <2>1, <2>3, <2>4, <3>3 DEF Q!Do, e
  <2>6. CASE req[c].op # "claim"
    <3>1. Q!Issue(c, e) = {}
      BY <2>1, <2>3, <2>6, EffectIsSound DEF Sound, QueueSound
    <3>. HIDE DEF e, told
    <3>2. issued' = issued \cup Q!Issue(c, e)
      BY <2>4, <2>6, <3>1
    <3>. QED
      BY <1>1, <1>4, <2>1, <2>3, <2>4, <3>2 DEF Q!Do, e
  <2>. QED
    BY <2>5, <2>6
<1>. QED
  BY <1>1, <1>2, <1>5, <1>6 DEF Calls, Holding

\* Every step is a step of the queue of DurableQueue, or none.
LEMMA StepOfQueue ==
  ASSUME Sound, [Next]_vars
  PROVE  UNCHANGED Q!vars \/ Q!Next
<1>1. CASE UNCHANGED vars
  BY <1>1 DEF vars, Q!vars, queue
<1>2. ASSUME NEW c \in Caller, Commit(c) PROVE UNCHANGED Q!vars \/ Q!Next
  BY <1>2, Commits DEF Q!vars, Q!Next
<1>3. ASSUME TimePasses PROVE UNCHANGED Q!vars \/ Q!Next
  BY <1>3 DEF TimePasses, Q!Next
<1>4. CASE Next /\ ~TimePasses /\ \A c \in Caller : ~Commit(c)
  <2>1. PICK c \in Caller :
         \/ \E r \in Q!RequestsOf(held[c]) : Begin(c, r)
         \/ Continue(c) \/ Answer(c) \/ Operate(c) \/ Die(c)
         \/ Advance(c) /\ UNCHANGED queueVars
         \/ WriteFails(c) /\ UNCHANGED queueVars
    BY <1>4 DEF Next, Step
  <2>2. UNCHANGED <<queue, passed, known, issued>>
    BY <2>1, Quiet
  <2>. QED
    BY <2>2 DEF Q!vars
<1>. QED
  BY <1>1, <1>2, <1>3, <1>4

LEMMA RecordStep ==
  ASSUME Kept, Sound, [Next]_vars
  PROVE  RecordInv'
<1>1. CASE [StoreNext]_storeVars
  BY <1>1, TypeStep, CallStep DEF Sound, RecordInv
<1>2. CASE outcome' \in [Caller -> Outcomes]
           /\ UNCHANGED <<dir, file, events, lock, pc, buf, expected, tries, faults>>
  BY <1>2 DEF Sound, RecordInv, StoreTypeOK, OneSeeder, CallInv, Verified
<1>. QED
  BY <1>1, <1>2, StepOfStore

LEMMA MoreRequests ==
  ASSUME NEW A, NEW B, A \subseteq B
  PROVE  Q!RequestsOf(A) \subseteq Q!RequestsOf(B)
  BY DEF Q!RequestsOf

\* Leases are only ever added, so a request stays one that may be made.
LEMMA LeasesGrow ==
  ASSUME Sound, [Next]_vars, NEW c \in Caller
  PROVE  /\ Q!LeasesOf(c) \subseteq Q!LeasesOf(c)'
         /\ Q!RequestsOf(Q!LeasesOf(c)) \subseteq Q!RequestsOf(Q!LeasesOf(c)')
<1>1. issued \subseteq issued'
  BY StepOfQueue DEF Q!vars, Q!Next, Q!Do, Q!TimePasses
<1>2. Q!LeasesOf(c) \subseteq Q!LeasesOf(c)'
  BY <1>1 DEF Q!LeasesOf
<1>. QED
  BY <1>2, MoreRequests

LEMMA ShapeStep ==
  ASSUME Sound, [Next]_vars
  PROVE  Shape'
<1>. USE DEF Sound, Shape
<1>1. known' \subseteq passed'
  BY StepOfQueue DEF Q!vars, Q!Next, Q!Do, Q!TimePasses
<1>. DEFINE Tables == /\ stage \in [Caller -> Stages]
                      /\ req = [c \in Caller |-> req[c]]
                      /\ held = [c \in Caller |-> held[c]]
<1>2. Tables'
  <2>1. ASSUME NEW c \in Caller, NEW r \in Q!RequestsOf(held[c]), Begin(c, r) PROVE Tables'
    BY <2>1 DEF Begin, Stages
  <2>2. ASSUME NEW c \in Caller, Continue(c) PROVE Tables'
    BY <2>2 DEF Continue, Following, Stages
  <2>3. ASSUME NEW c \in Caller, Answer(c) PROVE Tables'
    BY <2>3 DEF Answer, Stages
  <2>4. ASSUME NEW c \in Caller, Die(c) PROVE Tables'
    BY <2>4 DEF Die, Stages
  <2>5. CASE UNCHANGED <<stage, req, held>>
    BY <2>5
  <2>. QED
    BY <2>1, <2>2, <2>3, <2>4, <2>5
      DEF Next, Step, Operate, Commit, TimePasses, queueVars, vars
<1>. QED
  BY <1>1, <1>2

\* A caller goes from one call of its operation to the next, as the last one
\* has come out.
LEMMA CallsStep ==
  ASSUME Sound, [Next]_vars, NEW d \in Caller
  PROVE  Calls(d)'
<1>1. /\ Q!LeasesOf(d) \subseteq Q!LeasesOf(d)'
      /\ Q!RequestsOf(Q!LeasesOf(d)) \subseteq Q!RequestsOf(Q!LeasesOf(d)')
  BY LeasesGrow
<1>2. Calls(d) /\ Shape /\ pc \in [Caller -> Steps]
  BY DEF Sound, RecordInv, StoreTypeOK
<1>3. Q!RequestsOf(held[d]) \subseteq Q!RequestsOf(Q!LeasesOf(d))
  BY <1>2, MoreRequests DEF Calls
<1>. USE <1>1, <1>2 DEF Calls, Shape, Stages
<1>4. ASSUME NEW c \in Caller, NEW r \in Q!RequestsOf(held[c]), Begin(c, r) PROVE Calls(d)'
  BY <1>3, <1>4 DEF Begin, Start, Goto, FirstStep, Creating, Holding
<1>5. ASSUME NEW c \in Caller, Continue(c) PROVE Calls(d)'
  <2>1. stage[c] # "none" /\ Following(c) \in {"create", "apply"}
    BY <1>5 DEF Continue, Following
  <2>. QED
    BY <1>5, <2>1 DEF Continue, Start, Goto, FirstStep, Creating, Holding
<1>6. ASSUME NEW c \in Caller, Answer(c) PROVE Calls(d)'
  BY <1>6 DEF Answer, Creating, Holding
<1>7. ASSUME NEW c \in Caller, Die(c) PROVE Calls(d)'
  BY <1>7 DEF Die, Crash, Return, Goto, Creating, Holding
<1>8. ASSUME NEW c \in Caller, UNCHANGED <<stage, req, held>>,
             \/ pc' = pc
             \/ pc' = [pc EXCEPT ![c] = "idle"]
             \/ pc[c] \in {"peek", "verify"} /\ \E s \in {"peek", "verify"} : pc' = [pc EXCEPT ![c] = s]
             \/ pc[c] \in {"exists", "mkdir"} /\ \E s \in Creating : pc' = [pc EXCEPT ![c] = s]
             \/ pc[c] \in {"seed"} \cup {"lock"} \cup Holding
                /\ \E s \in {"lock"} \cup Holding : pc' = [pc EXCEPT ![c] = s]
      PROVE  Calls(d)'
  BY <1>8 DEF Creating, Holding
<1>9. ASSUME NEW c \in Caller, Advance(c), UNCHANGED queueVars PROVE Calls(d)'
  BY <1>8, <1>9 DEF Advance, ReadState, VerifyEvents, Exists, MakeDir, Seed, Acquire, LockBusy,
    Load, AppendEvents, Unlock, Return, Release, Goto, Creating, Holding, queueVars
<1>10. ASSUME NEW c \in Caller,
              Operate(c) \/ Commit(c) \/ (WriteFails(c) /\ UNCHANGED queueVars)
       PROVE  Calls(d)'
  BY <1>8, <1>10 DEF Operate, Commit, Mutate, Throw, WriteState, WriteFails, Release, Goto,
    Holding, queueVars
<1>11. CASE UNCHANGED <<pc, stage, req, held>>
  BY <1>11 DEF Creating, Holding
<1>. HIDE DEF Calls, Shape
<1>12. CASE TimePasses \/ UNCHANGED vars
  BY <1>11, <1>12 DEF TimePasses, vars
<1>13. CASE Next /\ ~TimePasses
  <2>1. PICK c \in Caller :
         \/ \E r \in Q!RequestsOf(held[c]) : Begin(c, r)
         \/ Step(c)
         \/ WriteFails(c) /\ UNCHANGED queueVars
         \/ Die(c)
    BY <1>13 DEF Next
  <2>. QED
    <3>1. CASE \E r \in Q!RequestsOf(held[c]) : Begin(c, r)
      BY <1>4, <3>1
    <3>2. CASE Continue(c) \/ Answer(c) \/ Die(c)
      BY <1>5, <1>6, <1>7, <3>2
    <3>3. CASE Advance(c) /\ UNCHANGED queueVars
      BY <1>9, <3>3
    <3>4. CASE Operate(c) \/ Commit(c) \/ (WriteFails(c) /\ UNCHANGED queueVars)
      BY <1>10, <3>4
    <3>. QED
      BY <2>1, <3>1, <3>2, <3>3, <3>4 DEF Step
<1>. QED
  BY <1>12, <1>13

\* While a caller has something to write nobody else changes the queue, and the
\* clock it has read only gets later.
LEMMA PendingStep ==
  ASSUME Sound, [Next]_vars, NEW d \in Caller
  PROVE  Pending(d)'
<1>1. Pending(d) /\ CallInv(d) /\ Calls(d) /\ pc \in [Caller -> Steps] /\ Shape
      /\ buf \in [Caller -> State \cup {Absent}]
  BY DEF Sound, RecordInv, StoreTypeOK
<1>2. ASSUME pc[d] \in {"append", "write"},
             UNCHANGED <<queue, known>>, passed \subseteq passed',
             buf'[d] = buf[d], stage'[d] = stage[d], req'[d] = req[d]
      PROVE  Pending(d)'
  <2>1. CASE stage[d] = "apply"
    <3>1. PICK late \in SUBSET (passed \ known) :
            LET e == Q!Effect(queue, d, req[d], passed \ late) IN e.ok /\ e.queue = buf[d].data
      BY <1>1, <1>2, <2>1 DEF Pending
    <3>. DEFINE later == late \cup (passed' \ passed)
    <3>2. later \in SUBSET (passed' \ known') /\ passed' \ later = passed \ late
      BY <1>1, <1>2 DEF Shape
    <3>. HIDE DEF later
    <3>. QED
      BY <1>2, <2>1, <3>1, <3>2 DEF Pending
  <2>2. CASE stage[d] # "apply"
    BY <1>1, <1>2, <2>2 DEF Pending
  <2>. QED
    BY <2>1, <2>2
<1>3. ASSUME pc'[d] \notin {"append", "write"} PROVE Pending(d)'
  BY <1>3 DEF Pending
<1>4. ASSUME NEW c \in Caller, Commit(c) PROVE Pending(d)'
  <2>1. pc[c] = "write" /\ lock = c
    BY <1>4 DEF Commit, WriteState, Sound, RecordInv, CallInv, Holding
  <2>2. pc[d] \in {"append", "write"} => d = c
    BY <1>1, <2>1 DEF CallInv, Holding
  <2>3. pc'[d] \notin {"append", "write"}
    BY <1>1, <1>4, <2>2 DEF Commit, WriteState, Release, Goto
  <2>. QED
    BY <1>3, <2>3
<1>5. ASSUME NEW c \in Caller, Operate(c) PROVE Pending(d)'
  <2>1. UNCHANGED <<queue, passed, known, issued>> /\ UNCHANGED <<stage, req>>
    BY <1>5, Quiet DEF Operate, queueVars
  <2>2. CASE c # d
    <3>1. pc'[d] = pc[d] /\ buf'[d] = buf[d]
      BY <1>1, <1>5, <2>2 DEF Operate, Mutate, Throw, Release, Goto
    <3>. QED
      BY <1>2, <1>3, <2>1, <3>1
  <2>3. CASE c = d
    <3>. DEFINE e == Q!Effect(buf[c].data, c, req[c], passed)
    <3>1. pc[c] = "mutate" /\ buf[c].data = queue
      BY <1>1, <1>5, <2>3 DEF Operate, CallInv, queue
    <3>2. CASE stage[c] = "create"
      <4>1. buf'[c].data = buf[c].data
        BY <1>1, <1>5, <3>2 DEF Operate, Mutate
      <4>. QED
        BY <2>1, <2>3, <3>1, <3>2, <4>1 DEF Pending
    <3>3. CASE stage[c] # "create" /\ e.ok
      <4>1. buf'[c].data = e.queue
        BY <1>1, <1>5, <3>3 DEF Operate, Mutate
      <4>. HIDE DEF e
      <4>2. e = Q!Effect(queue, c, req[c], passed)
        BY <3>1 DEF e
      <4>3. {} \in SUBSET (passed \ known) /\ passed \ {} = passed
        OBVIOUS
      <4>. QED
        BY <2>1, <2>3, <3>3, <4>1, <4>2, <4>3 DEF Pending
    <3>4. CASE stage[c] # "create" /\ ~e.ok
      BY <1>1, <1>3, <1>5, <2>3, <3>4 DEF Operate, Throw, Release, Goto
    <3>. QED
      BY <3>2, <3>3, <3>4
  <2>. QED
    BY <2>2, <2>3
<1>6. ASSUME NEW c \in Caller,
             \/ \E r \in Q!RequestsOf(held[c]) : Begin(c, r)
             \/ Continue(c) \/ Answer(c) \/ Die(c)
             \/ Advance(c) /\ UNCHANGED queueVars
             \/ WriteFails(c) /\ UNCHANGED queueVars
      PROVE  Pending(d)'
  <2>1. UNCHANGED <<queue, passed, known, issued>>
    BY <1>6, Quiet
  <2>. DEFINE Stays == \/ pc'[d] \notin {"append", "write"}
                       \/ /\ pc[d] \in {"append", "write"} /\ buf'[d] = buf[d]
                          /\ stage'[d] = stage[d] /\ req'[d] = req[d]
  <2>2. Stays
    <3>1. ASSUME NEW r \in Q!RequestsOf(held[c]), Begin(c, r) PROVE Stays
      BY <1>1, <3>1 DEF Begin, Start, Goto, FirstStep, Shape
    <3>2. ASSUME Continue(c) PROVE Stays
      <4>1. Following(c) \in {"create", "apply"}
        BY <3>2 DEF Continue, Following
      <4>. QED
        BY <1>1, <3>2, <4>1 DEF Continue, Start, Goto, FirstStep, Shape
    <3>3. ASSUME Answer(c) PROVE Stays
      BY <1>1, <3>3 DEF Answer, Shape
    <3>4. ASSUME Die(c) PROVE Stays
      BY <1>1, <3>4 DEF Die, Crash, Return, Goto, Shape
    <3>5. ASSUME Advance(c), UNCHANGED queueVars PROVE Stays
      BY <1>1, <3>5 DEF Advance, ReadState, VerifyEvents, Exists, MakeDir, Seed, Acquire, LockBusy,
        Load, AppendEvents, Unlock, Return, Release, Goto, queueVars
    <3>6. ASSUME WriteFails(c), UNCHANGED queueVars PROVE Stays
      BY <1>1, <3>6 DEF WriteFails, Release, Goto, queueVars
    <3>. QED
      BY <1>6, <3>1, <3>2, <3>3, <3>4, <3>5, <3>6
  <2>. QED
    BY <1>2, <1>3, <2>1, <2>2
<1>7. ASSUME TimePasses PROVE Pending(d)'
  BY <1>2, <1>3, <1>7 DEF TimePasses, Q!TimePasses
<1>8. CASE UNCHANGED vars
  BY <1>2, <1>3, <1>8 DEF vars, queue
<1>. QED
  BY <1>4, <1>5, <1>6, <1>7, <1>8 DEF Next, Step

LEMMA Begun == Init => Sound
<1>. SUFFICES ASSUME Init PROVE Sound
  OBVIOUS
<1>1. StoreInit /\ RecordInv
  BY RecordBegins DEF Init
<1>2. QueueSound
  <2>1. Q!Init
    BY DEF Init, StoreInit, queue, Q!Init, Q!EmptyQueue
  <2>. QED
    BY <2>1, QueueBegins DEF QueueSound
<1>3. Shape /\ \A c \in Caller : Calls(c) /\ Pending(c)
  BY <1>1 DEF Init, StoreInit, Shape, Stages, Calls, Pending, Creating, Holding
<1>. QED
  BY <1>1, <1>2, <1>3 DEF Sound

LEMMA Soundness == ASSUME Kept PROVE Spec => []Sound
<1>1. ASSUME Sound, [Next]_vars PROVE Sound'
  <2>1. QueueSound'
    BY <1>1, StepOfQueue, QueueStep DEF Sound, QueueSound
  <2>. QED
    BY <1>1, <2>1, RecordStep, ShapeStep, CallsStep, PendingStep DEF Sound
<1>. QED
  BY Begun, <1>1, PTL DEF Spec

\* Whatever its callers do at the same time, and wherever they die, the queue
\* that is kept in a record does what DurableQueue promises: the write of the
\* state is the step of an operation, and every other step is none.
THEOREM Refinement == ASSUME Kept PROVE Spec => ImplementsDurableQueue
<1>1. Init => Q!Init
  BY DEF Init, StoreInit, queue, Q!Init, Q!EmptyQueue
<1>2. Sound /\ [Next]_vars => [UNCHANGED Q!vars \/ Q!Next]_vars
  BY StepOfQueue
<1>3. Spec => []Sound
  BY Soundness
<1>. QED
  BY <1>1, <1>2, <1>3, PTL DEF Spec, ImplementsDurableQueue

\* In state.json attempts are within their limit, a key has one job, and a
\* result is that of the last claim.
THEOREM JobsAreKept == ASSUME Kept PROVE Spec => []JobsAreSound
<1>1. Sound => JobsAreSound
  BY JobsSound DEF Sound, QueueSound, JobsAreSound
<1>2. Spec => []Sound
  BY Soundness
<1>. QED
  BY <1>1, <1>2, PTL

\* In state.json, too, a settled job is never touched again.
THEOREM SettledIsKept == ASSUME Kept PROVE Spec => Q!SettledIsFinal
<1>1. Sound /\ [Next]_vars =>
        [\A j \in DOMAIN queue.jobs :
           /\ j \in DOMAIN queue'.jobs
           /\ queue.jobs[j].status \in {"completed", "failed"} =>
                queue'.jobs[j] = queue.jobs[j]
           /\ queue'.jobs[j].attempts >= queue.jobs[j].attempts]_(Q!vars)
  BY StepOfQueue, QueueStep DEF Sound, QueueSound, Grows
<1>2. Spec => []Sound
  BY Soundness
<1>. QED
  BY <1>1, <1>2, PTL DEF Spec, Q!SettledIsFinal
===============================================================================

---------------------------- MODULE ImportJobsProofs ----------------------------
(***************************************************************************)
(* The safety of the import jobs, for any number of uploads, failures and  *)
(* deaths of the process.                                                  *)
(***************************************************************************)
EXTENDS ImportJobs, TLAPS

\* A job that does not exist yet has left nothing anywhere, and nobody discards it.
NoJobYet(j) ==
  run[j] = "none" => /\ jobs[j] = "absent" /\ rows[j] = "absent"
                     /\ j \notin data /\ j \notin discarded /\ discarding # j

\* A running task has its job, and its row from the first write on.
RunningHasJob(j) ==
  /\ Running(j) => jobs[j] # "absent"
  /\ run[j] \in {"waiting", "start", "reading", "closing"} => rows[j] # "absent"

\* Only running tasks are cancelled.
CancelledRuns(j) == j \in cancelled => Running(j)

\* A queued task is marked before its job can be deleted, so that it will end
\* as soon as it starts.
QueuedIsMarked(j) ==
  run[j] = "queued" => /\ jobs[j] = "pending" \/ j \in gone
                       /\ discarding = j \/ j \in gone => j \in discarded

\* What is gone stays gone: nothing is left of it that could write.
GoneForGood(j) ==
  j \in gone => /\ run[j] \in {"queued", "done"}
                /\ jobs[j] = "absent" /\ rows[j] = "absent" /\ j \notin data

\* Until something fails, a job is marked or cancelled by a discard that goes
\* on, or that has succeeded, and a job at rest has the row it left.
CalmJob(j) ==
  faults = 0 /\ discardFaults = 0 =>
    /\ j \in cancelled \union discarded => discarding = j \/ j \in gone
    /\ run[j] = "done" /\ discarding # j => rows[j] = jobs[j]

JobInv(j) ==
  /\ NoJobYet(j)
  /\ RunningHasJob(j)
  /\ j \in data => rows[j] # "absent"
  /\ CancelledRuns(j)
  /\ QueuedIsMarked(j)
  /\ GoneForGood(j)
  /\ CalmJob(j)

\* The inductive invariant.
IInv ==
  /\ TypeOK
  /\ LockIsTheReaders
  /\ \A j \in Job : JobInv(j)

USE DEF memory, counts, vars, Active, Status, Point, Running

LEMMA InitInv == Init => IInv
BY ImportAssumption
   DEF ImportAssumption, Init, IInv, TypeOK, LockIsTheReaders, JobInv, NoJobYet,
       RunningHasJob, CancelledRuns, QueuedIsMarked, GoneForGood, CalmJob

--------------------------------------------------------------------------------
\* Every step preserves the types.
LEMMA NextType == TypeOK /\ [Next]_vars => TypeOK'
<1> SUFFICES ASSUME TypeOK, [Next]_vars PROVE TypeOK'
  OBVIOUS
<1> USE ImportAssumption DEF TypeOK, ImportAssumption, SetRun, Release, End, Fails,
        Fault, NoFault, Proceeds, Persisted, MayPersist, MayWrite
<1>1. ASSUME NEW j \in Job, CreateJob(j) \/ Begin(j) \/ Persist(j) PROVE TypeOK'
  BY <1>1 DEF CreateJob, Begin, Persist
<1>2. ASSUME NEW j \in Job, Acquire(j) \/ PersistStart(j) \/ ReadLines(j) PROVE TypeOK'
  BY <1>2 DEF Acquire, PersistStart, ReadLines
<1>3. ASSUME NEW j \in Job, EndRead(j) \/ Close(j) \/ PersistFinal(j) PROVE TypeOK'
  BY <1>3 DEF EndRead, Close, PersistFinal
<1>4. ASSUME NEW j \in Job, Cancelled(j) PROVE TypeOK'
  BY <1>4 DEF Cancelled, CancelBusy, CancelReading, CancelFinal
<1>5. ASSUME NEW j \in Job, BeginDiscard(j) PROVE TypeOK'
  BY <1>5 DEF BeginDiscard
<1>6. CASE Delete
  BY <1>6 DEF Delete, Forget
<1>7. CASE Restart
  BY <1>7 DEF Restart, Loaded
<1>8. CASE UNCHANGED vars
  BY <1>8
<1> QED
  BY <1>1, <1>2, <1>3, <1>4, <1>5, <1>6, <1>7, <1>8 DEF Next, RunStep

\* Every step leaves the lock with the one job that reads.
LEMMA NextLock == TypeOK /\ LockIsTheReaders /\ [Next]_vars => LockIsTheReaders'
<1> SUFFICES ASSUME TypeOK, LockIsTheReaders, [Next]_vars PROVE LockIsTheReaders'
  OBVIOUS
<1> USE ImportAssumption DEF TypeOK, LockIsTheReaders, ImportAssumption, SetRun, Release,
        End, Fails, Proceeds
<1>1. ASSUME NEW j \in Job, CreateJob(j) \/ Begin(j) \/ Persist(j) PROVE LockIsTheReaders'
  BY <1>1 DEF CreateJob, Begin, Persist
<1>2. ASSUME NEW j \in Job, Acquire(j) \/ PersistStart(j) \/ ReadLines(j)
      PROVE  LockIsTheReaders'
  BY <1>2 DEF Acquire, PersistStart, ReadLines
<1>3. ASSUME NEW j \in Job, EndRead(j) \/ Close(j) \/ PersistFinal(j) PROVE LockIsTheReaders'
  BY <1>3 DEF EndRead, Close, PersistFinal
<1>4. ASSUME NEW j \in Job, Cancelled(j) PROVE LockIsTheReaders'
  BY <1>4 DEF Cancelled, CancelBusy, CancelReading, CancelFinal
<1>5. CASE Delete \/ Restart \/ \E j \in Job : BeginDiscard(j)
  BY <1>5 DEF BeginDiscard, Delete, Restart
<1>6. CASE UNCHANGED vars
  BY <1>6
<1> QED
  BY <1>1, <1>2, <1>3, <1>4, <1>5, <1>6 DEF Next, RunStep

--------------------------------------------------------------------------------
\* Every step preserves what the invariant says of one job.
LEMMA NextJob ==
  ASSUME IInv, [Next]_vars, NEW k \in Job PROVE JobInv(k)'
<1> USE ImportAssumption
    DEF IInv, TypeOK, ImportAssumption, SetRun, End, Fails, Fault, NoFault, Proceeds,
        Persisted, MayPersist, MayWrite, JobInv, NoJobYet, RunningHasJob, CancelledRuns,
        QueuedIsMarked, GoneForGood, CalmJob
<1>1. ASSUME NEW j \in Job, CreateJob(j) PROVE JobInv(k)'
  BY <1>1 DEF CreateJob
<1>2. ASSUME NEW j \in Job, Begin(j) PROVE JobInv(k)'
  BY <1>2 DEF Begin
<1>3. ASSUME NEW j \in Job, Persist(j) PROVE JobInv(k)'
  BY <1>3 DEF Persist
<1>4. ASSUME NEW j \in Job, Acquire(j) PROVE JobInv(k)'
  BY <1>4 DEF Acquire
<1>5. ASSUME NEW j \in Job, PersistStart(j) PROVE JobInv(k)'
  BY <1>5 DEF PersistStart
<1>6. ASSUME NEW j \in Job, ReadLines(j) PROVE JobInv(k)'
  BY <1>6 DEF ReadLines
<1>7. ASSUME NEW j \in Job, EndRead(j) PROVE JobInv(k)'
  BY <1>7 DEF EndRead
<1>8. ASSUME NEW j \in Job, Close(j) PROVE JobInv(k)'
  BY <1>8 DEF Close
<1>9. ASSUME NEW j \in Job, PersistFinal(j) PROVE JobInv(k)'
  BY <1>9 DEF PersistFinal
<1>10. ASSUME NEW j \in Job, Cancelled(j) PROVE JobInv(k)'
  <2>1. CASE CancelBusy(j)
    BY <1>10, <2>1 DEF Cancelled, CancelBusy
  <2>2. CASE CancelReading(j)
    BY <1>10, <2>2 DEF Cancelled, CancelReading
  <2>3. CASE CancelFinal(j)
    BY <1>10, <2>3 DEF Cancelled, CancelFinal
  <2> QED
    BY <1>10, <2>1, <2>2, <2>3 DEF Cancelled
<1>11. ASSUME NEW j \in Job, BeginDiscard(j) PROVE JobInv(k)'
  BY <1>11 DEF BeginDiscard
<1>12. CASE Delete
  BY <1>12 DEF Delete, Forget, DiscardWaits
<1>13. CASE Restart
  BY <1>13 DEF Restart, Loaded
<1>14. CASE UNCHANGED vars
  BY <1>14
<1> QED
  BY <1>1, <1>2, <1>3, <1>4, <1>5, <1>6, <1>7, <1>8, <1>9, <1>10, <1>11, <1>12, <1>13,
     <1>14 DEF Next, RunStep

LEMMA NextInv == IInv /\ [Next]_vars => IInv'
BY NextType, NextLock, NextJob DEF IInv

\* The invariant holds of every behaviour.
THEOREM Inductive == Spec => []IInv
BY InitInv, NextInv, PTL DEF Spec

\* Every variable keeps its type.
THEOREM TypeCorrect == Spec => []TypeOK
<1>1. IInv => TypeOK
  BY DEF IInv
<1> QED
  BY <1>1, Inductive, PTL

\* No job, no job row and no data of a discarded upload ever comes back.
THEOREM DiscardIsFinal == Spec => []NothingComesBack
<1>1. IInv => NothingComesBack
  BY DEF IInv, TypeOK, JobInv, GoneForGood, NothingComesBack
<1> QED
  BY <1>1, Inductive, PTL

\* Scratch data always has the job row a restart finds it by.
THEOREM DataIsListed == Spec => []DataHasRow
<1>1. IInv => DataHasRow
  BY DEF IInv, TypeOK, JobInv, DataHasRow
<1> QED
  BY <1>1, Inductive, PTL

\* No discarded upload comes back, and no scratch data is out of a discard's reach.
THEOREM DiscardsWhole == Spec => []DiscardsAreWhole
<1>1. NothingComesBack /\ DataHasRow => DiscardsAreWhole
  BY DEF DiscardsAreWhole
<1> QED
  BY <1>1, DiscardIsFinal, DataIsListed, PTL

\* The reader's lock is held by the one job that reads.
THEOREM OneReader == Spec => []LockIsTheReaders
<1>1. IInv => LockIsTheReaders
  BY DEF IInv
<1> QED
  BY <1>1, Inductive, PTL

\* Until something fails, a job at rest is listed as the table has it.
THEOREM ListedAsStored == Spec => []RowMatchesJob
<1>1. IInv => RowMatchesJob
  BY DEF IInv, JobInv, CalmJob, RowMatchesJob
<1> QED
  BY <1>1, Inductive, PTL

--------------------------------------------------------------------------------
(***************************************************************************)
(* The jobs implement ImportLifecycle. Besides the invariant, the mapping  *)
(* needs what a job's status says of its task and of its row.              *)
(***************************************************************************)
\* A task that waits has a pending job, one that reads has it processing; what
\* has no job has no row, and no job is recorded as completed that is not.
StatusIsTrue(j) ==
  /\ run[j] = "queued" => jobs[j] \in {"pending", "absent"}
  /\ run[j] \in {"persist", "waiting"} => jobs[j] = "pending"
  /\ run[j] \in {"start", "reading", "closing"} => jobs[j] = "processing"
  /\ jobs[j] = "absent" => rows[j] = "absent"
  /\ rows[j] = "completed" => jobs[j] = "completed"

MapInv == IInv /\ \A j \in Job : StatusIsTrue(j)

LEMMA NextStatus ==
  ASSUME MapInv, [Next]_vars, NEW k \in Job PROVE StatusIsTrue(k)'
<1> USE ImportAssumption
    DEF MapInv, IInv, TypeOK, ImportAssumption, SetRun, End, Fails, Fault, NoFault, Proceeds,
        Persisted, MayPersist, MayWrite, StatusIsTrue
<1>1. ASSUME NEW j \in Job, CreateJob(j) \/ Begin(j) \/ Persist(j) PROVE StatusIsTrue(k)'
  BY <1>1 DEF CreateJob, Begin, Persist, JobInv, NoJobYet, QueuedIsMarked, GoneForGood
<1>2. ASSUME NEW j \in Job, Acquire(j) \/ PersistStart(j) \/ ReadLines(j)
      PROVE  StatusIsTrue(k)'
  BY <1>2 DEF Acquire, PersistStart, ReadLines
<1>3. ASSUME NEW j \in Job, EndRead(j) \/ Close(j) \/ PersistFinal(j)
      PROVE  StatusIsTrue(k)'
  BY <1>3 DEF EndRead, Close, PersistFinal, JobInv, RunningHasJob
<1>4. ASSUME NEW j \in Job, Cancelled(j) PROVE StatusIsTrue(k)'
  BY <1>4 DEF Cancelled, CancelBusy, CancelReading, CancelFinal, JobInv, RunningHasJob
<1>5. ASSUME NEW j \in Job, BeginDiscard(j) PROVE StatusIsTrue(k)'
  BY <1>5 DEF BeginDiscard
<1>6. CASE Delete
  BY <1>6 DEF Delete, Forget, DiscardWaits
<1>7. CASE Restart
  BY <1>7 DEF Restart, Loaded
<1>8. CASE UNCHANGED vars
  BY <1>8
<1> QED
  BY <1>1, <1>2, <1>3, <1>4, <1>5, <1>6, <1>7, <1>8 DEF Next, RunStep

LEMMA MapInductive == Spec => []MapInv
<1>1. Init => MapInv
  BY InitInv DEF Init, MapInv, StatusIsTrue
<1>2. MapInv /\ [Next]_vars => MapInv'
  BY NextInv, NextStatus DEF MapInv
<1> QED
  BY <1>1, <1>2, PTL DEF Spec

\* The mapped variables.
Statuses == [j \in Job |-> StatusOf(j)]
Progress == <<Statuses, data, lock>>

LEMMA StatusesAre ==
  /\ \A j \in Job : Statuses[j] = StatusOf(j)
  /\ \A j \in Job : Statuses'[j] = StatusOf(j)'
BY DEF Statuses

\* A step that changes the status of one job at most, as the map sees it.
LEMMA OneStatus ==
  ASSUME NEW j \in Job, \A k \in Job \ {j} : StatusOf(k)' = StatusOf(k)
  PROVE  Statuses' = [Statuses EXCEPT ![j] = StatusOf(j)']
BY DEF Statuses

\* Steps the client sees nothing of.
LEMMA Unseen ==
  ASSUME UNCHANGED <<Statuses, data, lock>>
  PROVE  [Lifecycle!Next]_Progress
BY DEF Progress

\* What the reader does, and what a restart leaves, as the map sees it.
LEMMA Writes ==
  ASSUME NEW j \in Job, lock = j, data' = data \union {j}, UNCHANGED <<Statuses, lock>>
  PROVE  [Lifecycle!Next]_Progress
<1>1. Lifecycle!Write(j)
  BY DEF Lifecycle!Write, Statuses
<1> QED
  BY <1>1 DEF Lifecycle!Next

LEMMA Stops ==
  ASSUME NEW j \in Job, lock = j, lock' = NoJob, data' \in {data, data \union {j}},
         NEW s \in {"completed", "failed", "processing"},
         Statuses' = [Statuses EXCEPT ![j] = s]
  PROVE  [Lifecycle!Next]_Progress
<1>1. Lifecycle!Becomes(j, s)
  BY DEF Lifecycle!Becomes, Statuses
<1>2. Lifecycle!Stop(j)
  BY <1>1 DEF Lifecycle!Stop
<1> QED
  BY <1>2 DEF Lifecycle!Next

LEMMA Restarts ==
  ASSUME \A j \in Job : Statuses'[j] \in Lifecycle!Left(Statuses[j]),
         data' = {j \in data : Statuses'[j] # "absent"},
         data \subseteq Job, lock' = NoJob
  PROVE  [Lifecycle!Next]_Progress
<1>1. Lifecycle!Restart
  BY DEF Lifecycle!Restart, Statuses
<1> QED
  BY <1>1 DEF Lifecycle!Next

\* run(), until it holds the lock: the upload waits.
LEMMA WaitingRefines ==
  ASSUME MapInv, NEW j \in Job,
         CreateJob(j) \/ Begin(j) \/ Persist(j) \/ Acquire(j)
  PROVE  [Lifecycle!Next]_Progress
<1> USE ImportAssumption
    DEF MapInv, IInv, TypeOK, ImportAssumption, SetRun, End, Fails, Proceeds, StatusIsTrue,
        StatusOf
<1>1. CASE CreateJob(j)
  <2>1. Lifecycle!Accept(j)
    BY <1>1, StatusesAre, OneStatus DEF CreateJob, Lifecycle!Accept, Lifecycle!Becomes, Statuses
  <2> QED
    BY <2>1 DEF Lifecycle!Next
<1>2. CASE Begin(j)
  BY <1>2, Unseen DEF Begin, Statuses
<1>3. CASE Persist(j) /\ jobs' = jobs
  <2>1. lock' = lock
    BY <1>3 DEF Persist, Release, LockIsTheReaders
  <2> QED
    BY <1>3, <2>1, Unseen DEF Persist, Statuses
<1>4. CASE Persist(j) /\ jobs' # jobs
  <2>1. Lifecycle!Refuse(j)
    BY <1>4, StatusesAre, OneStatus
       DEF Persist, Release, LockIsTheReaders, Lifecycle!Refuse, Lifecycle!Becomes, Statuses
  <2> QED
    BY <2>1 DEF Lifecycle!Next
<1>5. CASE Acquire(j)
  <2>1. Lifecycle!Start(j)
    BY <1>5, StatusesAre, OneStatus DEF Acquire, Lifecycle!Start, Lifecycle!Becomes, Statuses
  <2> QED
    BY <2>1 DEF Lifecycle!Next
<1> QED
  BY <1>1, <1>2, <1>3, <1>4, <1>5

\* run(), while it holds the lock: the upload is read.
LEMMA ReadingRefines ==
  ASSUME MapInv, NEW j \in Job,
         PersistStart(j) \/ ReadLines(j) \/ EndRead(j) \/ Close(j) \/ PersistFinal(j)
  PROVE  [Lifecycle!Next]_Progress
<1> USE ImportAssumption
    DEF MapInv, IInv, TypeOK, ImportAssumption, SetRun, End, Fails, Proceeds, StatusIsTrue,
        StatusOf
<1>1. CASE ReadLines(j)
  BY <1>1, Writes DEF ReadLines, LockIsTheReaders, Statuses
<1>2. CASE EndRead(j) \/ PersistFinal(j)
  BY <1>2, Unseen DEF EndRead, PersistFinal, Statuses
<1>3. CASE PersistStart(j) /\ lock' = lock
  <2>1. jobs' = jobs
    BY <1>3 DEF PersistStart, Release, LockIsTheReaders
  <2> QED
    BY <1>3, <2>1, Unseen DEF PersistStart, Statuses
<1>4. CASE Close(j) \/ (PersistStart(j) /\ lock' # lock)
  <2>1. lock = j /\ lock' = NoJob /\ data' \in {data, data \union {j}}
    BY <1>4 DEF PersistStart, Close, Release, LockIsTheReaders
  <2>2. /\ StatusOf(j)' \in {"completed", "failed", "processing"}
        /\ \A k \in Job \ {j} : StatusOf(k)' = StatusOf(k)
    <3>1. CASE Close(j)
      <4>1. jobs'[j] \in {"completed", "failed", jobs[j]}
        BY <3>1, Zenon DEF Close
      <4>2. run'[j] # "none" /\ \A k \in Job \ {j} : run'[k] = run[k] /\ jobs'[k] = jobs[k]
        BY <3>1 DEF Close
      <4> QED
        BY <3>1, <4>1, <4>2 DEF Close
    <3>2. CASE PersistStart(j) /\ lock' # lock
      BY <3>2 DEF PersistStart
    <3> QED
      BY <1>4, <3>1, <3>2
  <2> HIDE DEF StatusOf
  <2> QED
    BY <2>1, <2>2, OneStatus, Stops
<1> QED
  BY <1>1, <1>2, <1>3, <1>4

\* The end of a cancelled task.
LEMMA CancelRefines ==
  ASSUME MapInv, NEW j \in Job, Cancelled(j)
  PROVE  [Lifecycle!Next]_Progress
<1> USE ImportAssumption
    DEF MapInv, IInv, TypeOK, ImportAssumption, SetRun, End, StatusIsTrue, StatusOf
<1>1. run[j] # "none" /\ run'[j] # "none" /\ Statuses' = Statuses
  BY DEF Cancelled, CancelBusy, CancelReading, CancelFinal, Statuses
<1>2. CASE lock' = lock
  <2>1. CASE CancelBusy(j)
    BY <1>1, <1>2, <2>1, Unseen DEF CancelBusy, Release, LockIsTheReaders
  <2>2. CASE CancelReading(j)
    <3>1. lock = j
      BY <2>2 DEF CancelReading, LockIsTheReaders
    <3> QED
      BY <1>1, <1>2, <2>2, <3>1, Unseen, Writes DEF CancelReading, MayWrite
  <2>3. CASE CancelFinal(j)
    BY <1>1, <1>2, <2>3, Unseen DEF CancelFinal
  <2> QED
    BY <2>1, <2>2, <2>3 DEF Cancelled
<1>3. CASE lock' # lock
  <2>1. /\ lock = j /\ lock' = NoJob /\ data' \in {data, data \union {j}}
        /\ Statuses[j] = "processing"
    BY <1>3 DEF Cancelled, CancelBusy, CancelReading, CancelFinal, MayWrite, Release,
                LockIsTheReaders, Statuses
  <2>2. Statuses' = [Statuses EXCEPT ![j] = "processing"]
    BY <1>1, <2>1 DEF Statuses
  <2> QED
    BY <2>1, <2>2, Stops
<1> QED
  BY <1>2, <1>3

\* Discards and the death of the process.
LEMMA DiscardRefines ==
  ASSUME MapInv, Delete \/ \E j \in Job : BeginDiscard(j)
  PROVE  [Lifecycle!Next]_Progress
<1> USE ImportAssumption
    DEF MapInv, IInv, TypeOK, ImportAssumption, StatusIsTrue, StatusOf
<1>1. CASE \E j \in Job : BeginDiscard(j)
  BY <1>1, Unseen DEF BeginDiscard, Statuses
<1>2. CASE Delete /\ jobs' = jobs /\ data' = data
  BY <1>2, Unseen DEF Delete, Statuses
<1>3. CASE Delete /\ ~(jobs' = jobs /\ data' = data)
  <2>1. PICK j \in Job : j = discarding /\ run[j] # "none" /\ lock # j
    BY <1>3 DEF Delete, DiscardWaits, LockIsTheReaders, JobInv, NoJobYet
  <2>2. Lifecycle!Remove(j)
    BY <1>3, <2>1, OneStatus
       DEF Delete, Forget, Lifecycle!Remove, Lifecycle!Becomes, Statuses
  <2> QED
    BY <2>2 DEF Lifecycle!Next
<1> QED
  BY <1>1, <1>2, <1>3

LEMMA RestartRefines ==
  ASSUME MapInv, Restart
  PROVE  [Lifecycle!Next]_Progress
<1> USE ImportAssumption
    DEF MapInv, IInv, TypeOK, ImportAssumption, StatusIsTrue, StatusOf
<1>1. PICK old \in SUBSET {j \in Job : rows[j] # "absent" \/ j \in data} :
        /\ jobs' = [j \in Job |-> IF j \in old THEN "absent" ELSE Loaded(j)]
        /\ data' = data \ old
  BY DEF Restart
<1>2. ASSUME NEW j \in Job
      PROVE  /\ Statuses'[j] \in Lifecycle!Left(Statuses[j])
             /\ j \in data => (Statuses'[j] = "absent" <=> j \in old)
  <2>1. run'[j] = IF run[j] = "none" THEN "none" ELSE "done"
    BY DEF Restart
  <2>2. jobs'[j] = IF j \in old THEN "absent" ELSE Loaded(j)
    BY <1>1
  <2>3. CASE run[j] = "none"
    BY <2>1, <2>3 DEF JobInv, NoJobYet, Lifecycle!Left, Statuses
  <2>4. CASE run[j] # "none"
    <3>1. Statuses'[j] = jobs'[j] /\ Statuses[j] = jobs[j]
      BY <2>1, <2>4 DEF Statuses
    <3>2. j \in data => rows[j] # "absent"
      BY DEF JobInv
    <3>3. /\ jobs[j] = "completed" => jobs'[j] \in {"completed", "failed", "absent"}
          /\ jobs[j] = "absent" => jobs'[j] = "absent"
          /\ jobs[j] \notin {"completed", "absent"} => jobs'[j] \in {"failed", "absent"}
          /\ rows[j] # "absent" => (jobs'[j] = "absent" <=> j \in old)
      BY <2>2 DEF Loaded
    <3>4. jobs'[j] \in Lifecycle!Left(jobs[j])
      BY <3>3 DEF Lifecycle!Left
    <3> QED
      BY <3>1, <3>2, <3>3, <3>4
  <2> QED
    BY <2>3, <2>4
<1>3. data' = {j \in data : Statuses'[j] # "absent"}
  BY <1>1, <1>2
<1>4. lock' = NoJob
  BY DEF Restart
<1> QED
  BY <1>2, <1>3, <1>4, Restarts

\* The jobs implement the life cycle they promise the client.
THEOREM ImplementsImports == Spec => ImplementsImportLifecycle
<1>1. Init => Lifecycle!Init
  BY DEF Init, Lifecycle!Init, StatusOf
<1>2. MapInv /\ [Next]_vars => [Lifecycle!Next]_<<[j \in Job |-> StatusOf(j)], data, lock>>
  <2> SUFFICES ASSUME MapInv, [Next]_vars PROVE [Lifecycle!Next]_Progress
    BY DEF Progress, Statuses
  <2>1. CASE UNCHANGED vars
    BY <2>1, Unseen DEF Statuses, StatusOf
  <2> QED
    BY <2>1, WaitingRefines, ReadingRefines, CancelRefines, DiscardRefines, RestartRefines
       DEF Next, RunStep
<1> QED
  BY <1>1, <1>2, MapInductive, PTL
     DEF Spec, ImplementsImportLifecycle, Lifecycle!Spec, Lifecycle!progress
================================================================================

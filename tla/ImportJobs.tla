------------------------------- MODULE ImportJobs -------------------------------
(***************************************************************************)
(* The import jobs (importer.py): each upload is a background task that    *)
(* queues for the one reader, writes scratch data and its own durable      *)
(* job row, and may be discarded at any point, before it starts, while it  *)
(* runs, or after.  One step of the model leads from one await of run() or *)
(* _discard() to the next; the other tasks come in between.                *)
(*                                                                         *)
(* A cancelled task gets its CancelledError at the await it stands at.     *)
(* The database may have done what that await asked for, or not.           *)
(***************************************************************************)
EXTENDS Integers, FiniteSets

CONSTANTS
  Job,                \* ids of the uploads
  NoJob,              \* nobody holds the lock, nothing is being discarded
  MaxFaults,          \* bound: failing database calls of run()
  MaxDiscardFaults,   \* bound: failing deletions of _discard()
  MaxRestarts         \* bound: deaths of the process

ASSUME ImportAssumption ==
  /\ NoJob \notin Job
  /\ MaxFaults \in Nat /\ MaxDiscardFaults \in Nat /\ MaxRestarts \in Nat

VARIABLES
  jobs,         \* status of the job in _jobs, "absent" when it is not there
  rows,         \* status in the import_jobs table, "absent" when it has no row
  data,         \* jobs whose source has committed flights
  run,          \* where the job's run() stands
  outcome,      \* what made run() leave its loop over the lines
  cancelled,    \* tasks cancelled, CancelledError not yet delivered
  lock,         \* holder of _run_lock
  discarded,    \* _discarded
  discarding,   \* job of the _discard() that holds _discard_lock
  gone,         \* history: jobs whose discard or purge has succeeded
  faults, discardFaults, restarts

memory == <<jobs, run, outcome, cancelled, lock, discarded, discarding>>
counts == <<faults, discardFaults, restarts>>
vars == <<memory, rows, data, gone, counts>>

Active == {"pending", "processing"}
Status == Active \union {"completed", "failed", "absent"}
Point  == {"none", "queued", "persist", "waiting", "start", "reading", "closing",
           "final", "done"}

\* Its task is in _tasks and has not ended.
Running(j) == run[j] \notin {"none", "queued", "done"}

Init ==
  /\ jobs = [j \in Job |-> "absent"]
  /\ rows = [j \in Job |-> "absent"]
  /\ data = {}
  /\ run = [j \in Job |-> "none"]
  /\ outcome = [j \in Job |-> "read"]
  /\ cancelled = {}
  /\ lock = NoJob
  /\ discarded = {}
  /\ discarding = NoJob
  /\ gone = {}
  /\ faults = 0 /\ discardFaults = 0 /\ restarts = 0

Fault   == faults < MaxFaults /\ faults' = faults + 1 /\ UNCHANGED <<discardFaults, restarts>>
NoFault == UNCHANGED counts

--------------------------------------------------------------------------------
(***************************************************************************)
(* run()                                                                   *)
(***************************************************************************)
SetRun(j, point) == run' = [run EXCEPT ![j] = point]

\* run() goes from one await to the next, and it has not been cancelled.
Proceeds(j, from) == run[j] = from /\ j \notin cancelled

\* The lock is released on the way out of the async with.
Release(j) == lock' = IF lock = j THEN NoJob ELSE lock

\* The finally block, up to its first await: a discarded job is not persisted
\* any more.
End(j) ==
  IF j \in discarded
  THEN SetRun(j, "done") /\ discarded' = discarded \ {j}
  ELSE SetRun(j, "final") /\ UNCHANGED discarded

\* An exception leaves the block: the job has failed.
Fails(j) ==
  /\ Fault
  /\ jobs' = [jobs EXCEPT ![j] = "failed"]
  /\ Release(j)
  /\ End(j)

\* _persist_job writes the status the job has, in a new row if there is none.
\* As a bug: never then.
MutUpdateOnly(j, status) ==
  rows' = IF rows[j] = "absent" THEN rows ELSE [rows EXCEPT ![j] = status]

Persisted(j, status) == rows' = [rows EXCEPT ![j] = status]

\* The upload is stored and POST /api/import has made the job.
CreateJob(j) ==
  /\ run[j] = "none"
  /\ jobs' = [jobs EXCEPT ![j] = "pending"]
  /\ SetRun(j, "queued")
  /\ UNCHANGED <<outcome, cancelled, lock, discarded, discarding, rows, data, gone, counts>>

\* The background task starts.
Begin(j) ==
  /\ run[j] = "queued"
  /\ IF j \in discarded THEN End(j) ELSE SetRun(j, "persist") /\ UNCHANGED discarded
  /\ UNCHANGED <<jobs, outcome, cancelled, lock, discarding, rows, data, gone, counts>>

\* The job row is written before the job queues for the reader.
Persist(j) ==
  /\ Proceeds(j, "persist")
  /\ \/ /\ Persisted(j, "pending")
        /\ SetRun(j, "waiting")
        /\ NoFault /\ UNCHANGED <<jobs, lock, discarded>>
     \/ Fails(j) /\ UNCHANGED rows
  /\ UNCHANGED <<outcome, cancelled, discarding, data, gone>>

Acquire(j) ==
  /\ Proceeds(j, "waiting")
  /\ lock = NoJob
  /\ lock' = j
  /\ jobs' = [jobs EXCEPT ![j] = "processing"]
  /\ SetRun(j, "start")
  /\ UNCHANGED <<outcome, cancelled, discarded, discarding, rows, data, gone, counts>>

PersistStart(j) ==
  /\ Proceeds(j, "start")
  /\ \/ /\ Persisted(j, "processing")
        /\ SetRun(j, "reading")
        /\ NoFault /\ UNCHANGED <<jobs, lock, discarded>>
     \/ Fails(j) /\ UNCHANGED rows
  /\ UNCHANGED <<outcome, cancelled, discarding, data, gone>>

\* A batch of the recording is committed; its progress may be too.
ReadLines(j) ==
  /\ Proceeds(j, "reading")
  /\ data' = data \union {j}
  /\ UNCHANGED <<memory, rows, gone, counts>>

\* The loop ends, at the end of the file or on an error.
EndRead(j) ==
  /\ Proceeds(j, "reading")
  /\ SetRun(j, "closing")
  /\ \/ outcome' = [outcome EXCEPT ![j] = "read"] /\ NoFault
     \/ outcome' = [outcome EXCEPT ![j] = "error"] /\ Fault
  /\ UNCHANGED <<jobs, cancelled, lock, discarded, discarding, rows, data, gone>>

\* ingestor.close() in the finally of _process writes the last batch; then the
\* job has its final status, unless it is being cancelled.
Close(j) ==
  /\ Proceeds(j, "closing")
  /\ \/ /\ data' \in {data, data \union {j}}
        /\ jobs' = [jobs EXCEPT ![j] = CASE outcome[j] = "read"  -> "completed"
                                         [] outcome[j] = "error" -> "failed"
                                         [] OTHER -> @]
        /\ Release(j) /\ End(j) /\ NoFault
     \/ Fails(j) /\ UNCHANGED data
  /\ UNCHANGED <<outcome, cancelled, discarding, rows, gone>>

\* The final state is persisted, or that failed and was logged; then notified.
PersistFinal(j) ==
  /\ Proceeds(j, "final")
  /\ \/ Persisted(j, jobs[j]) /\ NoFault
     \/ UNCHANGED rows /\ Fault
  /\ SetRun(j, "done")
  /\ discarded' = discarded \ {j}
  /\ UNCHANGED <<jobs, outcome, cancelled, lock, discarding, data, gone>>

--------------------------------------------------------------------------------
(***************************************************************************)
(* The CancelledError is delivered                                         *)
(***************************************************************************)
MayPersist(j) == rows' \in {rows, [rows EXCEPT ![j] = jobs[j]]}
MayWrite(j)   == data' \in {data, data \union {j}}

\* While it persists, queues or closes: it ends.
CancelBusy(j) ==
  /\ run[j] \in {"persist", "waiting", "start", "closing"}
  /\ IF run[j] \in {"persist", "start"} THEN MayPersist(j) ELSE UNCHANGED rows
  /\ IF run[j] = "closing" THEN MayWrite(j) ELSE UNCHANGED data
  /\ Release(j) /\ End(j) /\ UNCHANGED outcome

\* While it reads: the ingestor is closed first.
CancelReading(j) ==
  /\ run[j] = "reading"
  /\ MayWrite(j)
  /\ outcome' = [outcome EXCEPT ![j] = "cancel"]
  /\ SetRun(j, "closing")
  /\ UNCHANGED <<lock, discarded, rows>>

\* In the finally: it ends there.
CancelFinal(j) ==
  /\ run[j] = "final"
  /\ MayPersist(j)
  /\ SetRun(j, "done")
  /\ discarded' = discarded \ {j}
  /\ UNCHANGED <<lock, outcome, data>>

Cancelled(j) ==
  /\ j \in cancelled
  /\ cancelled' = cancelled \ {j}
  /\ CancelBusy(j) \/ CancelReading(j) \/ CancelFinal(j)
  /\ UNCHANGED <<jobs, discarding, gone, counts>>

--------------------------------------------------------------------------------
(***************************************************************************)
(* _discard()                                                              *)
(***************************************************************************)

\* The job is marked, and its task, if it has one, cancelled.  Any id the UI
\* knows may be discarded, more than once.
BeginDiscard(j) ==
  /\ discarding = NoJob
  /\ run[j] # "none"
  /\ discarding' = j
  /\ discarded' = IF jobs[j] \in Active \/ Running(j) THEN discarded \union {j} ELSE discarded
  /\ cancelled' = IF Running(j) THEN cancelled \union {j} ELSE cancelled
  /\ UNCHANGED <<jobs, run, outcome, lock, rows, data, gone, counts>>

Forget(S) ==
  /\ rows' = [j \in Job |-> IF j \in S THEN "absent" ELSE rows[j]]
  /\ data' = data \ S
  /\ gone' = gone \union S

\* The deletion waits for the task it cancelled.  As a bug: it does not.
MutDiscardWaits(j) == TRUE

DiscardWaits(j) == ~Running(j)

Delete ==
  /\ discarding # NoJob
  /\ DiscardWaits(discarding)
  /\ \/ /\ Forget({discarding})
        /\ jobs' = [jobs EXCEPT ![discarding] = "absent"]
        /\ NoFault
     \/ /\ discardFaults < MaxDiscardFaults
        /\ discardFaults' = discardFaults + 1
        /\ UNCHANGED <<jobs, rows, data, gone, faults, restarts>>
  /\ discarding' = NoJob
  /\ UNCHANGED <<run, outcome, cancelled, lock, discarded>>

--------------------------------------------------------------------------------
(***************************************************************************)
(* The process dies and starts again: load_persisted gives the jobs that   *)
(* were active up, then purge_expired discards any old ones.               *)
(***************************************************************************)

\* As a bug: the jobs given up keep their status in the table.
MutLoaded(j) == rows[j]

Loaded(j) == IF rows[j] \in Active THEN "failed" ELSE rows[j]

Restart ==
  /\ restarts < MaxRestarts
  /\ restarts' = restarts + 1
  /\ run' = [j \in Job |-> IF run[j] = "none" THEN "none" ELSE "done"]
  /\ cancelled' = {} /\ discarded' = {}
  /\ lock' = NoJob /\ discarding' = NoJob
  /\ \E old \in SUBSET {j \in Job : rows[j] # "absent" \/ j \in data} :
       /\ jobs' = [j \in Job |-> IF j \in old THEN "absent" ELSE Loaded(j)]
       /\ rows' = [j \in Job |-> IF j \in old THEN "absent" ELSE Loaded(j)]
       /\ data' = data \ old
       /\ gone' = gone \union old
  /\ UNCHANGED <<outcome, faults, discardFaults>>

RunStep(j) ==
  \/ Begin(j) \/ Persist(j) \/ Acquire(j) \/ PersistStart(j) \/ EndRead(j)
  \/ Close(j) \/ PersistFinal(j) \/ Cancelled(j)

Next ==
  \/ \E j \in Job : CreateJob(j) \/ RunStep(j) \/ ReadLines(j) \/ BeginDiscard(j)
  \/ Delete
  \/ Restart

\* A started task is scheduled until it ends, a recording has an end, and a
\* deletion that may run does.
Fairness == (\A j \in Job : WF_vars(RunStep(j))) /\ WF_vars(Delete)

Spec == Init /\ [][Next]_vars /\ Fairness

--------------------------------------------------------------------------------
(***************************************************************************)
(* Properties                                                              *)
(***************************************************************************)

\* Every variable has its type.
TypeOK ==
  /\ jobs \in [Job -> Status] /\ rows \in [Job -> Status]
  /\ data \subseteq Job /\ gone \subseteq Job
  /\ run \in [Job -> Point]
  /\ outcome \in [Job -> {"read", "error", "cancel"}]
  /\ cancelled \subseteq Job /\ discarded \subseteq Job
  /\ lock \in Job \union {NoJob} /\ discarding \in Job \union {NoJob}
  /\ faults \in 0..MaxFaults /\ discardFaults \in 0..MaxDiscardFaults
  /\ restarts \in 0..MaxRestarts

\* What has been discarded never comes back: no job, no job row and no data of
\* it, whenever the discard came and whatever was being written then
\* (_discarded: "a discard cannot be undone by the task it cancelled finishing
\* afterwards").
NothingComesBack ==
  \A j \in gone : jobs[j] = "absent" /\ rows[j] = "absent" /\ j \notin data

\* Scratch data always has a durable job row, so that a restart can list it and
\* the retention sweep or the user can discard it.
DataHasRow == \A j \in data : rows[j] # "absent"

\* A discard leaves nothing behind, and nothing is left that none can reach:
\* NothingComesBack and DataHasRow, which no order of the writes and deletions
\* of one job may break.
DiscardsAreWhole == NothingComesBack /\ DataHasRow

\* The lock is held by the job that reads, and by no dead one: imports never
\* write side by side, and none waits for a reader that is gone (_run_lock).
LockIsTheReaders ==
  \A j \in Job : run[j] \in {"start", "reading", "closing"} <=> lock = j

\* A job at rest is listed as the table has it: what the API says of it now is
\* what it will say after a restart, when no write failed and no discard is
\* taking it away.
RowMatchesJob ==
  faults = 0 /\ discardFaults = 0 =>
    \A j \in Job : run[j] = "done" /\ discarding # j => rows[j] = jobs[j]

\* Every import ends: completed, failed, or discarded; waiting for the reader,
\* being cancelled or the death of the process leave none active for ever, unless
\* a deletion fails, which is the client's to try again.
EventuallySettled ==
  \A j \in Job : jobs[j] \in Active ~> jobs[j] \notin Active \/ discardFaults > 0

\* The tasks, the lock, the table and the discards together do what
\* ImportLifecycle promises the client: an upload that the API does not know
\* yet is unseen, otherwise it has its job's status, and the reader holds the
\* lock.  Whatever a cancelled task still does, it does before its upload goes.
StatusOf(j) == IF run[j] = "none" THEN "unseen" ELSE jobs[j]
Lifecycle == INSTANCE ImportLifecycle WITH status <- [j \in Job |-> StatusOf(j)],
                                           reader <- lock
ImplementsImportLifecycle == Lifecycle!Spec

\* A discard ends: the task it waits for always gives up.
DiscardEnds == discarding # NoJob ~> discarding = NoJob

================================================================================

---------------------------- MODULE ImportLifecycle ----------------------------
(***************************************************************************)
(* What the import jobs promise their client, without the tasks, the locks *)
(* and the table that keep the promise: one upload after the other is      *)
(* read, only the one being read leaves data, what has ended neither reads *)
(* nor writes again, and what is discarded goes at once with its data and  *)
(* does not come back.  (importer.py: "a discard cannot be undone by the   *)
(* task it cancelled finishing afterwards".)                               *)
(***************************************************************************)
CONSTANTS Job, NoJob

VARIABLES status,       \* status[j]: what the API says of upload j
          data,         \* uploads that have left flights
          reader        \* the upload being read

progress == <<status, data, reader>>

Init ==
  /\ status = [j \in Job |-> "unseen"]
  /\ data = {}
  /\ reader = NoJob

Becomes(j, s) == status' = [status EXCEPT ![j] = s]

\* The upload has arrived.
Accept(j) ==
  /\ status[j] = "unseen"
  /\ Becomes(j, "pending")
  /\ UNCHANGED <<data, reader>>

\* It could not even be queued.
Refuse(j) ==
  /\ status[j] = "pending"
  /\ Becomes(j, "failed")
  /\ UNCHANGED <<data, reader>>

Start(j) ==
  /\ status[j] = "pending" /\ reader = NoJob
  /\ Becomes(j, "processing")
  /\ reader' = j
  /\ UNCHANGED data

Write(j) ==
  /\ reader = j
  /\ data' = data \union {j}
  /\ UNCHANGED <<status, reader>>

\* The reader ends with one last write; given up in favour of a discard, the
\* upload says processing until it is gone.
Stop(j) ==
  /\ reader = j
  /\ \E s \in {"completed", "failed", "processing"} : Becomes(j, s)
  /\ data' \in {data, data \union {j}}
  /\ reader' = NoJob

Remove(j) ==
  /\ status[j] # "unseen" /\ reader # j
  /\ Becomes(j, "absent")
  /\ data' = data \ {j}
  /\ UNCHANGED reader

\* The process died. Nothing is left active, old uploads are purged, uploads
\* that were not recorded yet are forgotten; what is still listed has its data.
Left(s) == CASE s = "unseen"    -> {"unseen"}
             [] s = "completed" -> {"completed", "failed", "absent"}
             [] s = "absent"    -> {"absent"}
             [] OTHER           -> {"failed", "absent"}

Restart ==
  /\ status' \in [Job -> UNION {Left(status[j]) : j \in Job}]
  /\ \A j \in Job : status'[j] \in Left(status[j])
  /\ data' = {j \in data : status'[j] # "absent"}
  /\ reader' = NoJob

Next ==
  \/ \E j \in Job : Accept(j) \/ Refuse(j) \/ Start(j) \/ Write(j) \/ Stop(j) \/ Remove(j)
  \/ Restart

Spec == Init /\ [][Next]_progress
================================================================================

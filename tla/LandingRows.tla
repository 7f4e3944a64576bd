---------------------------- MODULE LandingRows ----------------------------
(***************************************************************************)
(* The rows of the landings table and everybody who writes them.           *)
(*                                                                         *)
(* Live ingest and the ingest of an uploaded recording store a landing     *)
(* when it is first seen and rewrite its row when its outcome is settled   *)
(* (pipeline.handle_landing, finalize_landing); the importer looks for     *)
(* duplicates first.  The API regrades or rebuilds one row                 *)
(* (pipeline.regrade, rebuild), or searches a flight for landings that     *)
(* were never stored (rescan.py).  A reaper and the start-up settle rows   *)
(* left provisional, and a discarded import takes its rows away.           *)
(*                                                                         *)
(* Every await on the database or on the runway lookup is a place where    *)
(* another writer may run.  A write is two statements: the SELECT that     *)
(* loads the row into a session, and the UPDATE of the columns that then   *)
(* differ from what was loaded, which is what SQLAlchemy sends.            *)
(***************************************************************************)
EXTENDS Integers, Sequences, FiniteSets

CONSTANTS
  Live, Recording,  \* the flight of the live stream, and of an upload of the same session
  Landings,         \* what happens in that session
  Requests,         \* regrade and rebuild requests of the API
  Rescans,          \* rescan requests of the API
  Together,         \* bound: what may happen in one behaviour: requests, "reload", "restart"
  MaxConfig         \* bound: reloads of the grading configuration

Flights == {Live, Recording}
Tasks == Flights \cup Requests \cup Rescans

ASSUME RowsAssumption ==
  /\ Live # Recording /\ Flights \cap (Requests \cup Rescans) = {}
  /\ Requests \cap Rescans = {} /\ MaxConfig \in Nat
  /\ Together \subseteq SUBSET (Requests \cup Rescans \cup {"reload", "restart"})

VARIABLES
  may,       \* what may still happen, of Together
  bouncing,  \* landings that touch down more than once
  config,    \* version of pipeline._config
  rows,      \* the landings table, by id; a deleted row is kept as `gone'
  pending,   \* _provisional_ids of each ingestor: landing -> row id
  reported,  \* _reported_landings of each ingestor
  pc,        \* where each task is waiting
  job,       \* what it carries across the await
  lock,      \* rescan_lock: the rescan that holds it
  torn       \* rows updated between another writer's SELECT and its UPDATE

vars == <<may, bouncing, config, rows, pending, reported, pc, job, lock, torn>>

-----------------------------------------------------------------------------
(* A detection of a landing: the one at its first contact, the one with    *)
(* its outcome settled, or the detector run again on the raw track.        *)
Detections == {"first", "settled", "redone"}
Graded == [det : Detections, config : 0 .. MaxConfig]

(* The columns a write may change: what the detection decides, the status, *)
(* the approach track and the grade.                                       *)
Columns == {"det", "status", "track", "grade"}
Row == [flight : Flights, landing : Landings, by : {"ingest", "rescan"},
        began : Nat, gone : BOOLEAN, det : Detections,
        status : {"provisional", "final"}, track : Graded, grade : Graded]

Ids == 1 .. Len(rows)
Stored == {i \in Ids : ~rows[i].gone}

(* touchdown_time: the last contact of the bounces absorbed so far.        *)
Touchdown(l, det) == IF det # "first" /\ l \in bouncing THEN "last contact" ELSE "first contact"

(* _grade: the approach is cut and graded in one go, with today's config.  *)
GradeOf(det) == [det |-> det, config |-> config]

\* g, with what f says instead.
Over(f, g) == [x \in DOMAIN f \cup DOMAIN g |-> IF x \in DOMAIN f THEN f[x] ELSE g[x]]

Idle == [op |-> "none"]
Free(t) == pc[t] = "idle"
Go(t, where, what) == pc' = [pc EXCEPT ![t] = where] /\ job' = [job EXCEPT ![t] = what]
Done(t) == Go(t, IF t \in Flights THEN "idle" ELSE "done", Idle)

-----------------------------------------------------------------------------
(* The database.                                                           *)

(* INSERT: refused by the foreign key when the flight is gone.             *)
FlightExists(f) == f = Live \/ pc[Recording] # "stopped"
NewRow(j) ==
  [flight |-> j.flight, landing |-> j.landing, by |-> j.by, began |-> j.began,
   gone |-> FALSE, det |-> j.det, status |-> j.status, track |-> j.graded, grade |-> j.graded]

(* What a flush sends: the columns that differ from what was loaded.       *)
Changed(new, loaded) == [c \in {c \in Columns : new[c] # loaded[c]} |-> new[c]]

(* Loading row i for writing, in the session of t; new is what t will make *)
(* of it.                                                                  *)
Load(t, i, new) == Go(t, "writing", [op |-> "update", id |-> i, delta |-> Changed(new, rows[i])])

(* UPDATE of row i by t; whoever else has loaded it now holds a stale copy. *)
Write(t) ==
  LET i == job[t].id
  IN  /\ pc[t] = "writing"
      /\ IF rows[i].gone THEN UNCHANGED <<rows, torn>>
         ELSE /\ rows' = [rows EXCEPT ![i] = Over(job[t].delta, @)]
              /\ torn' = IF \E u \in Tasks \ {t} : pc[u] = "writing" /\ job[u].id = i
                         THEN torn \cup {i} ELSE torn
      /\ Done(t)
      /\ UNCHANGED <<may, bouncing, config, pending, reported, lock>>

-----------------------------------------------------------------------------
(* Ingest: _maybe_detect_landing and the pipeline.                         *)

(* importer._is_duplicate: a row of any flight with this touchdown.        *)
IsDuplicate(l, det) ==
  \E i \in Stored : rows[i].landing = l /\ Touchdown(l, rows[i].det) = Touchdown(l, det)

(* An analysis pass finds l for the first time, or again after the         *)
(* importer skipped it.                                                    *)
Report(f, l, settled) ==
  LET det == IF settled THEN "settled" ELSE "first"
  IN  /\ Free(f) /\ l \notin DOMAIN pending[f] /\ l \notin reported[f]
      /\ reported' = IF settled THEN [reported EXCEPT ![f] = @ \cup {l}] ELSE reported
      /\ IF f = Recording /\ IsDuplicate(l, det)
         THEN settled /\ UNCHANGED <<pc, job>>
         ELSE Go(f, "resolving", [op |-> "insert", flight |-> f, landing |-> l, by |-> "ingest",
                                  began |-> IF f = Recording THEN Len(rows) ELSE 0, det |-> det,
                                  status |-> IF settled THEN "final" ELSE "provisional"])
      /\ UNCHANGED <<may, bouncing, config, rows, pending, lock, torn>>

(* A later pass settles the outcome of a landing that was provisional.     *)
Confirm(f, l) ==
  /\ Free(f) /\ l \in DOMAIN pending[f]
  /\ reported' = [reported EXCEPT ![f] = @ \cup {l}]
  /\ pending' = [pending EXCEPT ![f] = [k \in DOMAIN @ \ {l} |-> @[k]]]
  /\ Go(f, "resolving", [op |-> "finalize", id |-> pending[f][l], det |-> "settled"])
  /\ UNCHANGED <<may, bouncing, config, rows, lock, torn>>

(* The runway is resolved, and the approach graded: live, rescanned or     *)
(* rebuilt.                                                                *)
Grade(t) ==
  /\ pc[t] = "resolving" /\ job[t].op # "regrade"
  /\ Go(t, IF job[t].op = "insert" THEN "storing" ELSE "loading",
        Over(job[t], [graded |-> GradeOf(job[t].det)]))
  /\ UNCHANGED <<may, bouncing, config, rows, pending, reported, lock, torn>>

(* _persist; a provisional row's id is remembered for its confirmation.    *)
Store(f) ==
  /\ f \in Flights /\ pc[f] = "storing"
  /\ rows' = Append(rows, NewRow(job[f]))
  /\ pending' = IF job[f].status = "final" THEN pending
                ELSE [pending EXCEPT ![f] = Over(@, [l \in {job[f].landing} |-> Len(rows')])]
  /\ Done(f)
  /\ UNCHANGED <<may, bouncing, config, reported, lock, torn>>

(* _write_graded_event: a detection rewrites everything it decides.        *)
GradedEvent(base, j) ==
  [base EXCEPT !.det = j.det, !.status = "final", !.track = j.graded, !.grade = j.graded]

(* finalize_landing loads the row; one that disappeared is left alone.     *)
Get(f) ==
  /\ f \in Flights /\ pc[f] = "loading"
  /\ LET i == job[f].id
     IN  IF rows[i].gone THEN Done(f)
         ELSE Load(f, i, GradedEvent(rows[i], job[f]))
  /\ UNCHANGED <<may, bouncing, config, rows, pending, reported, lock, torn>>

-----------------------------------------------------------------------------
(* Regrade and rebuild requests: the row is read in the request's session, *)
(* and merged into another one after the awaits.                           *)
Ask(q, i, op) ==
  /\ q \in Requests \cap may /\ Free(q) /\ i \in Stored
  /\ Go(q, "resolving", [op |-> op, id |-> i, entity |-> rows[i], det |-> "redone",
                         config |-> config])
  /\ UNCHANGED <<may, bouncing, config, rows, pending, reported, lock, torn>>

(* regrade: the stored approach, graded with the config of its start.      *)
Regrade(q) ==
  /\ pc[q] = "resolving" /\ job[q].op = "regrade"
  /\ Go(q, "loading", Over(job[q],
        [graded |-> [det |-> job[q].entity.track.det, config |-> job[q].config]]))
  /\ UNCHANGED <<may, bouncing, config, rows, pending, reported, lock, torn>>

(* rebuild: 409 when the raw track is gone or shows no landing.            *)
Refuse(q) ==
  /\ pc[q] = "resolving" /\ job[q].op = "rebuild"
  /\ Done(q)
  /\ UNCHANGED <<may, bouncing, config, rows, pending, reported, lock, torn>>

(* What a request makes of the entity it read.                             *)
Remade(j) ==
  IF j.op = "rebuild" THEN GradedEvent(j.entity, j)
  ELSE [j.entity EXCEPT !.track = j.graded, !.grade = j.graded]

(* session.merge: the entity the request read replaces every column of the *)
(* row as it is now.  A row that is gone would be inserted again, which    *)
(* the foreign key to its flight refuses.                                  *)
(* Mutant: the row is fetched again instead of merged. *)
MutMerged(j) == [rows[j.id] EXCEPT !.track = j.graded, !.grade = j.graded]
Merged(j) == Remade(j)
(* Mutant: the flight's row outlives its landings. *)
MutReinserts(j) == TRUE
Reinserts(j) == FlightExists(j.entity.flight)
Merge(q) ==
  LET j == job[q]
  IN  /\ q \in Requests /\ pc[q] = "loading"
      /\ IF ~rows[j.id].gone THEN Load(q, j.id, Merged(j)) /\ UNCHANGED rows
         ELSE /\ Done(q)
              /\ rows' = IF Reinserts(j) THEN [rows EXCEPT ![j.id] = Merged(j)] ELSE rows
      /\ UNCHANGED <<may, bouncing, config, pending, reported, lock, torn>>

-----------------------------------------------------------------------------
(* rescan_flight, one at a time.                                           *)

(* Mutant: no lock. *)
MutLockFree == TRUE
LockFree == lock = {}

(* The stored landings are read first, then the raw tracks: those of the   *)
(* landings ingest has come to, and any it missed.                         *)
Begin(s, f, contacts) ==
  /\ s \in Rescans \cap may /\ Free(s) /\ LockFree /\ FlightExists(f)
  /\ lock' = lock \cup {s}
  /\ Go(s, "scanning", [op |-> "rescan", flight |-> f, began |-> Len(rows), contacts |-> contacts,
                        stored |-> {i \in Stored : rows[i].flight = f}])
  /\ UNCHANGED <<may, bouncing, config, rows, pending, reported, torn>>

(* The next contact is detected again; a landing of the list is skipped.   *)
Matches(j, l) == \E i \in j.stored : rows[i].landing = l
Scan(s, l) ==
  LET j == job[s]
      rest == [j EXCEPT !.contacts = @ \ {l}]
  IN  /\ pc[s] = "scanning" /\ l \in j.contacts
      /\ IF Matches(j, l) THEN Go(s, "scanning", rest)
         ELSE Go(s, "resolving", [op |-> "insert", flight |-> j.flight, landing |-> l,
                                  by |-> "rescan", began |-> j.began, det |-> "redone",
                                  status |-> "final", rest |-> rest])
      /\ UNCHANGED <<may, bouncing, config, rows, pending, reported, lock, torn>>

(* record_rescanned_landing; a flight that went away ends the rescan with  *)
(* an error.                                                               *)
Record(s) ==
  /\ s \in Rescans /\ pc[s] = "storing"
  /\ IF FlightExists(job[s].flight)
     THEN /\ rows' = Append(rows, NewRow(job[s]))
          /\ Go(s, "scanning", job[s].rest) /\ UNCHANGED lock
     ELSE /\ Done(s) /\ lock' = lock \ {s} /\ UNCHANGED rows
  /\ UNCHANGED <<may, bouncing, config, pending, reported, torn>>

End(s) ==
  /\ pc[s] = "scanning" /\ job[s].contacts = {}
  /\ Done(s) /\ lock' = lock \ {s}
  /\ UNCHANGED <<may, bouncing, config, rows, pending, reported, torn>>

-----------------------------------------------------------------------------
(* Writers without a row in hand.                                          *)
Settled(is) == [i \in Ids |-> IF i \in is THEN [rows[i] EXCEPT !.status = "final"] ELSE rows[i]]
Provisional == {i \in Stored : rows[i].status = "provisional"}

(* _settle_stale_provisionals: one UPDATE of those created before a cutoff. *)
(* Mutant: the newest row is never old enough. *)
MutStale(n) == {i \in Provisional : i < n}
Stale(n) == {i \in Provisional : i <= n}
Reap(n) ==
  /\ Stale(n) # {}
  /\ rows' = Settled(Stale(n))
  /\ UNCHANGED <<may, bouncing, config, pending, reported, pc, job, lock, torn>>

(* A flight ends: what its ingestor still had to confirm is forgotten.     *)
Finish(f) ==
  /\ Free(f)
  /\ pending' = [pending EXCEPT ![f] = <<>>]
  /\ Go(f, "ended", Idle)
  /\ UNCHANGED <<may, bouncing, config, rows, reported, lock, torn>>

(* The process restarts: what is in memory goes, the imports in progress   *)
(* fail, and what is still provisional is settled.                         *)
AfterRestart(t) ==
  IF t \in Flights /\ pc[t] # "stopped" THEN "ended"
  ELSE IF pc[t] \in {"idle", "stopped"} THEN pc[t] ELSE "done"
Restart ==
  /\ "restart" \in may /\ may' = may \ {"restart"}
  /\ rows' = Settled(Provisional)
  /\ pending' = [f \in Flights |-> <<>>]
  /\ pc' = [t \in Tasks |-> AfterRestart(t)]
  /\ job' = [t \in Tasks |-> Idle]
  /\ lock' = {}
  /\ UNCHANGED <<bouncing, config, reported, torn>>

(* The import is discarded: its task is cancelled and waited for, and its  *)
(* flight's rows go with it.                                               *)
Discard ==
  /\ pc[Recording] # "stopped"
  /\ rows' = [i \in Ids |-> [rows[i] EXCEPT !.gone = @ \/ rows[i].flight = Recording]]
  /\ pending' = [pending EXCEPT ![Recording] = <<>>]
  /\ Go(Recording, "stopped", Idle)
  /\ UNCHANGED <<may, bouncing, config, reported, lock, torn>>

(* reload_config, by the poll of the file or by the API.                   *)
Reload ==
  /\ "reload" \in may /\ config < MaxConfig
  /\ config' = config + 1
  /\ UNCHANGED <<may, bouncing, rows, pending, reported, pc, job, lock, torn>>

-----------------------------------------------------------------------------
Init ==
  /\ bouncing \in SUBSET Landings
  /\ config = 0
  /\ rows = <<>>
  /\ pending = [f \in Flights |-> <<>>]
  /\ reported = [f \in Flights |-> {}]
  /\ may \in Together
  /\ pc = [t \in Tasks |-> "idle"]
  /\ job = [t \in Tasks |-> Idle]
  /\ lock = {}
  /\ torn = {}

Ingest(f) ==
  \/ \E l \in Landings : \/ \E settled \in BOOLEAN : Report(f, l, settled)
                         \/ Confirm(f, l)
  \/ Store(f)
  \/ Get(f)
(* The landings whose raw rows a flight has: those ingest has come to, and *)
(* in the end those it missed.                                             *)
Recorded(f) ==
  {l \in Landings : \/ l \in reported[f] \cup DOMAIN pending[f]
                    \/ job[f].op = "insert" /\ job[f].landing = l
                    \/ pc[f] = "ended"}
Rescan(s) ==
  \/ \E f \in Flights : \E contacts \in SUBSET Recorded(f) : Begin(s, f, contacts)
  \/ \E l \in Landings : Scan(s, l)
  \/ Record(s)
  \/ End(s)
Request(q) ==
  \/ \E i \in Ids, op \in {"regrade", "rebuild"} : Ask(q, i, op)
  \/ Regrade(q)
  \/ Refuse(q)
  \/ Merge(q)

Next ==
  \/ \E f \in Flights : Ingest(f) \/ Finish(f)
  \/ \E s \in Rescans : Rescan(s)
  \/ \E q \in Requests : Request(q)
  \/ \E t \in Tasks : Grade(t) \/ Write(t)
  \/ \E n \in Ids : Reap(n)
  \/ Restart
  \/ Discard
  \/ Reload

(* The reaper's loop never ends and a row only grows older.                *)
Spec == Init /\ [][Next]_vars
FairSpec == Spec /\ WF_vars(Reap(Len(rows)))

-----------------------------------------------------------------------------
(* A row that no two transactions updated at once describes one instant:   *)
(* what the detection decides, the approach track and the grade come from  *)
(* the same detection, track and grade from the same configuration, though *)
(* the entity a request writes back may be long out of date                *)
(* (_write_graded_event "or the row keeps describing a different instant").*)
OneInstant ==
  \A i \in Stored \ torn :
    /\ rows[i].track = rows[i].grade
    /\ rows[i].det = rows[i].track.det

(* Rescans, however they are retried, store a landing at most once, and    *)
(* none that had a row when they began; an import stores none that had a   *)
(* row with its touchdown when it looked.                                  *)
SecondRow(i, j) ==
  i < j /\ rows[i].landing = rows[j].landing /\ rows[j].began >= i
NoSecondRow ==
  \A i, j \in Ids :
    /\ i # j /\ rows[i].by = "rescan" /\ rows[j].by = "rescan" =>
         <<rows[i].flight, rows[i].landing>> # <<rows[j].flight, rows[j].landing>>
    /\ SecondRow(i, j) /\ rows[i].landing \notin bouncing /\ ~rows[i].gone =>
         rows[j].by = "rescan" /\ rows[i].flight # rows[j].flight

(* A row that was discarded with its import never comes back, whatever     *)
(* request still holds it.                                                 *)
GoneStaysGone == [][\A i \in Ids : rows[i].gone => rows'[i].gone]_vars

(* In the end no row is provisional: neither one whose confirmation was    *)
(* forgotten, nor one that a stale write made provisional again.           *)
EverySettles == <>[](Provisional = {})

(* A confirmed landing stays confirmed: the status is flipped to "final"   *)
(* "once the outcome can no longer change" (entities.py).                  *)
FinalStays ==
  [][\A i \in Ids : rows[i].status = "final" => rows'[i].status = "final"]_vars

(* "However many times one imports the same file, landing records are not  *)
(* registered twice" (README.md): an import adds no row for a landing that *)
(* was stored and settled when it looked.                                  *)
ImportSkipsKnown ==
  \A i, j \in Ids :
    ~(SecondRow(i, j) /\ rows[i].flight = Live /\ rows[j].flight = Recording
      /\ rows[j].by = "ingest" /\ rows[i].det = "settled")
=============================================================================

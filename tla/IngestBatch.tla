------------------------------ MODULE IngestBatch ------------------------------
(***************************************************************************)
(* The write batches of one TrackIngestor (ingest.py): the short-lived     *)
(* session that is opened by the first write and committed by size, by age *)
(* or by force; the flight and object row ids cached across batches; the   *)
(* track samples that a failed batch drops and the retained rows that it   *)
(* must not; and the roll-back that every failing write, or a cancelled    *)
(* line, ends in.                                                          *)
(*                                                                         *)
(* A line is handled to its end before the next (handle_line is awaited),  *)
(* one step of the model from one database call to the next.  Which rows   *)
(* of an aircraft or a ship are retained, and when, is any choice here.    *)
(* Row ids are names, <<mission, object>> for an object row: the database  *)
(* never gives an id twice, and refuses a row whose parent is not there.   *)
(***************************************************************************)
EXTENDS Integers, Sequences, SequencesExt, FiniteSets

CONSTANTS
  Vessel,        \* aircraft and carriers: rows held back, some retained
  Static,        \* static objects: every row goes to the batch
  MaxFlight,     \* bound: flight rows asked for
  MaxRows,       \* bound: track rows
  MaxFaults,     \* bound: failing writes and cancelled lines
  BatchSize,     \* _max_batch_size
  Cap,           \* MAX_PENDING_RETAINED_ROWS
  None           \* no row id

ASSUME BatchAssumption ==
  /\ MaxFlight \in Nat \ {0} /\ MaxRows \in Nat /\ MaxFaults \in Nat
  /\ BatchSize \in Nat \ {0} /\ Cap \in Nat \ {0}
  /\ Vessel \intersect Static = {}

Obj    == Vessel \union Static
Flight == 1..MaxFlight
ObjectRow == Flight \X Obj
TrackRow  == [flight : Flight, object : ObjectRow, n : 1..MaxRows]

ASSUME NoneAssumption == None \notin Flight /\ None \notin ObjectRow

VARIABLES
  flightId,         \* _flight_id
  objectRowIds,     \* _object_row_ids
  open,             \* is there a _session?
  addedFlights, addedObjects,   \* rows flushed in it, not committed
  pending,          \* _pending
  pendingTracks,    \* _pending_tracks, as a set
  pendingRetained,  \* _pending_retained
  at,               \* the next step of the line being handled
  last,             \* outcome of the last write: "none", "stored" or "failed"
  flights, objects, tracks,   \* committed rows
  lastFlight,       \* the database's sequence of flight ids
  ambiguous,        \* history: retained rows whose commit was applied and reported as failed
  staged, dropped,  \* history: rows ever retained, rows given up over the cap
  faults            \* number of failures so far

cached   == <<flightId, objectRowIds>>
added    == <<addedFlights, addedObjects>>
batch    == <<open, added, pending, pendingTracks, pendingRetained>>
database == <<flights, objects, tracks, ambiguous>>
history  == <<staged, dropped>>
vars == <<cached, batch, at, last, database, lastFlight, history, faults>>

Step == {"idle", "rotate", "flight", "object", "keep", "batch", "detect",
         "stage", "tail", "close", "closed"}

Init ==
  /\ flightId = None
  /\ objectRowIds = [o \in Obj |-> None]
  /\ open = FALSE
  /\ addedFlights = {} /\ addedObjects = {}
  /\ pending = 0
  /\ pendingTracks = {}
  /\ pendingRetained = <<>>
  /\ at = [step |-> "idle", obj |-> None]
  /\ last = "none"
  /\ flights = {} /\ objects = {} /\ tracks = {}
  /\ lastFlight = 0
  /\ ambiguous = {} /\ staged = {} /\ dropped = {}
  /\ faults = 0

Fault == faults < MaxFaults /\ faults' = faults + 1

At(step) == at.step = step
Go(step) == at' = IF step = "idle" THEN [step |-> "idle", obj |-> None]
                                   ELSE [at EXCEPT !.step = step]

\* The rows that exist for the session.
HasFlight(f)   == f \in flights \union addedFlights
HasObject(row) == row \in objects \union addedObjects

\* The numbers no row has been given.
Fresh == 1..MaxRows \ {r.n : r \in tracks \union pendingTracks \union staged}

RowOf(o, n) == [flight |-> flightId, object |-> objectRowIds[o], n |-> n]

--------------------------------------------------------------------------------
(***************************************************************************)
(* The session                                                             *)
(***************************************************************************)
CloseSession == open' = FALSE /\ addedFlights' = {} /\ addedObjects' = {} /\ pending' = 0

\* _discard_session: the batch's samples go with it, the retained rows do not.
\* As a bug: both go.
MutDiscard ==
  /\ CloseSession
  /\ pendingTracks' = {} /\ pendingRetained' = <<>>

Discard ==
  /\ CloseSession
  /\ pendingTracks' = {} /\ UNCHANGED pendingRetained

Batch == pendingTracks \union ToSet(pendingRetained)

\* Every foreign key of the batch leads to a row.
Storable == \A r \in Batch : HasFlight(r.flight) /\ HasObject(r.object)

Apply ==
  /\ flights' = flights \union addedFlights
  /\ objects' = objects \union addedObjects
  /\ tracks' = tracks \union Batch

\* _flush commits.  As a bug: the samples just stored stay in the list.
MutStore ==
  /\ open /\ Storable
  /\ Apply
  /\ CloseSession
  /\ pendingRetained' = <<>> /\ UNCHANGED pendingTracks
  /\ last' = IF Batch = {} THEN last ELSE "stored"
  /\ UNCHANGED <<ambiguous, faults>>

Store ==
  /\ open /\ Storable
  /\ Apply
  /\ CloseSession
  /\ pendingTracks' = {} /\ pendingRetained' = <<>>
  /\ last' = IF Batch = {} THEN last ELSE "stored"
  /\ UNCHANGED <<ambiguous, faults>>

\* _flush fails: refused by the database, or by a parent row that is missing; or
\* the commit is applied and its answer is lost.
Refuse ==
  /\ open
  /\ \/ Fault
     \/ ~Storable /\ UNCHANGED faults
  /\ \/ UNCHANGED database
     \/ Storable /\ Apply /\ ambiguous' = ambiguous \union ToSet(pendingRetained)
  /\ Discard
  /\ last' = "failed"

\* _flush(force=True) on the way to the step next; there may be no batch.
Flushed(next) ==
  /\ \/ ~open /\ UNCHANGED <<batch, last, database, faults>>
     \/ Store
  /\ Go(next)
  /\ UNCHANGED <<lastFlight, history>>

FlushFails ==
  /\ Refuse
  /\ Go("idle")
  /\ UNCHANGED <<lastFlight, history>>

Flush(next) == Flushed(next) \/ FlushFails

\* _flush(): only when the batch is full, or old enough.
MayFlush(next) ==
  \/ /\ pending < BatchSize
     /\ Go(next)
     /\ UNCHANGED <<batch, last, database, lastFlight, history, faults>>
  \/ Flush(next)

\* A database call inside a line raises, or the line is cancelled in it.
LineFails ==
  /\ Discard
  /\ last' = "failed"
  /\ Go("idle")
  /\ UNCHANGED <<cached, database, lastFlight, history>>

--------------------------------------------------------------------------------
(***************************************************************************)
(* _stage_rows: queue a retained row, in an open batch                     *)
(***************************************************************************)
Newest(s) == IF Len(s) <= Cap THEN s ELSE SubSeq(s, Len(s) - Cap + 1, Len(s))

StageRow(o) ==
  \E n \in Fresh :
    /\ objectRowIds[o] # None
    /\ open' = TRUE
    /\ pending' = pending + 1
    /\ pendingRetained' = Newest(Append(pendingRetained, RowOf(o, n)))
    /\ staged' = staged \union {RowOf(o, n)}
    /\ dropped' = (dropped \union ToSet(pendingRetained)) \ ToSet(pendingRetained')
    /\ UNCHANGED <<added, pendingTracks>>

MayStage(S) ==
  \/ UNCHANGED <<batch, history>>
  \/ \E o \in S : StageRow(o)

--------------------------------------------------------------------------------
(***************************************************************************)
(* A line                                                                  *)
(***************************************************************************)
Idle == At("idle")

\* An update line of o arrives.
Update(o) ==
  /\ Idle
  /\ o \in Static => Fresh # {}
  /\ at' = [step |-> "flight", obj |-> o]
  /\ UNCHANGED <<cached, batch, last, database, lastFlight, history, faults>>

\* _ensure_flight: the flight row is created with the first object.
EnsureFlight ==
  /\ At("flight")
  /\ \/ /\ flightId # None
        /\ Go("object")
        /\ UNCHANGED <<cached, batch, last, database, lastFlight, history, faults>>
     \/ /\ flightId = None /\ lastFlight < MaxFlight
        /\ lastFlight' = lastFlight + 1
        /\ flightId' = lastFlight + 1
        /\ open' = TRUE
        /\ addedFlights' = addedFlights \union {lastFlight + 1}
        /\ pending' = pending + 1
        /\ Go("object")
        /\ UNCHANGED <<objectRowIds, addedObjects, pendingTracks, pendingRetained,
                       last, database, history, faults>>
     \/ /\ flightId = None
        /\ Fault /\ LineFails

\* The row of the object: cached, or created.
FindObject ==
  /\ At("object")
  /\ LET row == <<flightId, at.obj>> IN
     \/ /\ objectRowIds[at.obj] # None
        /\ open' = TRUE
        /\ Go("keep")
        /\ UNCHANGED <<cached, added, pending, pendingTracks, pendingRetained,
                       last, database, lastFlight, history, faults>>
     \/ /\ objectRowIds[at.obj] = None /\ HasFlight(flightId)
        /\ open' = TRUE
        /\ addedObjects' = addedObjects \union {row}
        /\ objectRowIds' = [objectRowIds EXCEPT ![at.obj] = row]
        /\ Go("keep")
        /\ UNCHANGED <<flightId, addedFlights, pending, pendingTracks, pendingRetained, last,
                       database, lastFlight, history, faults>>
     \/ /\ objectRowIds[at.obj] = None /\ ~HasFlight(flightId)
        /\ LineFails /\ UNCHANGED faults
     \/ Fault /\ LineFails

\* _keep_track: a static's row goes to the batch; a vessel's goes to the
\* history, which may push a row of an open window out.
KeepTrack ==
  /\ At("keep")
  /\ Go("batch")
  /\ \/ /\ at.obj \in Static
        /\ \E n \in Fresh :
             pendingTracks' = pendingTracks \union {RowOf(at.obj, n)}
        /\ pending' = pending + 1
        /\ UNCHANGED <<open, added, pendingRetained, history>>
     \/ /\ at.obj \in Vessel
        /\ MayStage({at.obj})
  /\ UNCHANGED <<cached, last, database, lastFlight, faults>>

FlushBatch ==
  /\ At("batch")
  /\ MayFlush("detect")
  /\ UNCHANGED cached

\* The detection pass commits first when it has found a landing.
Detect ==
  /\ At("detect")
  /\ \/ /\ Go("stage")
        /\ UNCHANGED <<batch, last, database, lastFlight, history, faults>>
     \/ at.obj \in Vessel /\ Flush("stage")
  /\ UNCHANGED cached

\* The windows that are due, of whichever object.
Stage ==
  /\ At("stage")
  /\ MayStage(Vessel)
  /\ Go("tail")
  /\ UNCHANGED <<cached, last, database, lastFlight, faults>>

FlushTail ==
  /\ At("tail")
  /\ MayFlush("idle")
  /\ UNCHANGED cached

\* A remove line of an object that has a row: mark it, then go on as an update
\* does.  A cached id whose row is not there is passed over.
RemoveLine(o) ==
  /\ Idle
  /\ flightId # None /\ objectRowIds[o] # None
  /\ \/ /\ open' = TRUE
        /\ pending' = IF HasObject(objectRowIds[o]) THEN pending + 1 ELSE pending
        /\ at' = [step |-> IF HasObject(objectRowIds[o]) THEN "batch" ELSE "stage",
                  obj |-> o]
        /\ UNCHANGED <<cached, added, pendingTracks, pendingRetained, last,
                       database, lastFlight, history, faults>>
     \/ Fault /\ LineFails

\* _rotate_session: what the windows hold is staged, the batch is committed,
\* and only then the ids are forgotten.  The line may be one of the global object,
\* which has no row.  As a bug: the object rows are kept.
BeginRotate(o) ==
  /\ Idle
  /\ flightId # None /\ lastFlight < MaxFlight
  /\ MayStage(Vessel)
  /\ at' = [step |-> "rotate", obj |-> o]
  /\ UNCHANGED <<cached, last, database, lastFlight, faults>>

MutForget == flightId' = None /\ UNCHANGED objectRowIds

Forget == flightId' = None /\ objectRowIds' = [o \in Obj |-> None]

\* As a bug: the old mission's batch is thrown away instead.
MutRotate ==
  /\ At("rotate")
  /\ Discard /\ Forget
  /\ Go(IF at.obj = None THEN "idle" ELSE "flight")
  /\ UNCHANGED <<last, database, lastFlight, history, faults>>

Rotate ==
  /\ At("rotate")
  /\ \/ Flushed(IF at.obj = None THEN "idle" ELSE "flight") /\ Forget
     \/ FlushFails /\ UNCHANGED cached

--------------------------------------------------------------------------------
(***************************************************************************)
(* The calls from outside                                                  *)
(***************************************************************************)

\* flush(): the caller wants the write lock released.
FlushNow ==
  /\ Idle /\ open
  /\ Flush("idle")
  /\ UNCHANGED cached

\* close(): the windows are staged, and rows left over from a failed batch get
\* a session to be retried in.  As a bug: they do not.
MutBeginClose ==
  /\ Idle
  /\ MayStage(Vessel)
  /\ at' = [step |-> "close", obj |-> None]
  /\ UNCHANGED <<cached, last, database, lastFlight, faults>>

BeginClose ==
  /\ Idle
  /\ \/ \E o \in Vessel : StageRow(o)
     \/ /\ open' = (open \/ pendingRetained # <<>>)
        /\ UNCHANGED <<added, pending, pendingTracks, pendingRetained, history>>
  /\ at' = [step |-> "close", obj |-> None]
  /\ UNCHANGED <<cached, last, database, lastFlight, faults>>

Close ==
  /\ At("close")
  /\ \/ ~open /\ UNCHANGED <<batch, last, database, faults>>
     \/ Store
     \/ Refuse
  /\ at' = [step |-> "closed", obj |-> None]
  /\ UNCHANGED <<cached, lastFlight, history>>

Handle ==
  \/ EnsureFlight \/ FindObject \/ KeepTrack \/ FlushBatch \/ Detect \/ Stage
  \/ FlushTail \/ Rotate

Next ==
  \/ \E o \in Obj : Update(o) \/ RemoveLine(o)
  \/ \E o \in Obj \union {None} : BeginRotate(o)
  \/ Handle
  \/ FlushNow \/ BeginClose \/ Close

Spec == Init /\ [][Next]_vars

\* The source keeps sending updates, every line is handled, nobody closes the
\* ingestor.
LiveSpec ==
  /\ Init
  /\ [][Handle \/ \E o \in Obj : Update(o)]_vars
  /\ WF_vars(Handle) /\ WF_vars(\E o \in Obj : Update(o))

--------------------------------------------------------------------------------
(***************************************************************************)
(* Properties                                                              *)
(***************************************************************************)

\* Every variable has its type; the retained rows in memory are bounded.
TypeOK ==
  /\ flightId \in Flight \union {None}
  /\ objectRowIds \in [Obj -> ObjectRow \union {None}]
  /\ open \in BOOLEAN
  /\ addedFlights \subseteq Flight /\ addedObjects \subseteq ObjectRow
  /\ pending \in Nat
  /\ pendingTracks \subseteq TrackRow
  /\ pendingRetained \in Seq(TrackRow) /\ Len(pendingRetained) <= Cap
  /\ at \in [step : Step, obj : Obj \union {None}]
  /\ last \in {"none", "stored", "failed"}
  /\ flights \subseteq Flight /\ objects \subseteq ObjectRow /\ tracks \subseteq TrackRow
  /\ lastFlight \in 0..MaxFlight
  /\ staged \subseteq TrackRow /\ dropped \subseteq TrackRow /\ ambiguous \subseteq staged
  /\ faults \in 0..MaxFaults

\* A retained row is stored or still queued, whatever batches failed since: it
\* is in no window and no history any more, so nothing could bring it back
\* (_stage_rows).  Only the cap gives rows up.
RetainedRowsSurvive == staged \ dropped \subseteq tracks \union ToSet(pendingRetained)

\* A row that waits to be written has not been written: no retry and no
\* overlapping batch stores a sample twice, except the retained rows of a commit
\* that was applied although it was reported as failed, which nothing can tell.
StoredOnce ==
  /\ Batch \intersect tracks \subseteq ambiguous
  /\ IsInjective(pendingRetained)

\* A sample belongs to the mission of its object row: a rotation never lets the
\* recycled id of an object reach the row of the previous mission
\* (_rotate_session: "the new session gets fresh rows").
OwnMission == \A r \in tracks \union Batch : r.object[1] = r.flight

\* What waits to be written has a session that will write it, except the
\* retained rows a failed batch left behind (_stage_rows: "_flush() has
\* nothing to commit into without a session").
BatchHasSession == pending > 0 \/ pendingTracks # {} => open

\* A close that meets no failure leaves no retained row behind, even when the
\* batch before it failed (close: "Left over from a failed batch, with no
\* session open to retry in").
CloseWrites ==
  [][Close /\ Storable /\ UNCHANGED faults => pendingRetained' = <<>>]_vars

\* The cached ids lead to rows, and so do the rows waiting to be written.
Clean ==
  /\ flightId # None => HasFlight(flightId)
  /\ \A o \in Obj : objectRowIds[o] # None => HasObject(objectRowIds[o])
  /\ Storable

\* Lines, rotations, removals and batches keep the cached ids and the waiting
\* rows leading to rows that exist: only a failing write, or a cancelled line,
\* can take those away (_rotate_session: "The pending batch belongs to the
\* previous mission and is committed first").
CleanUntilFailure == [][Clean => Clean' \/ faults' # faults]_vars

\* The bound on rows leaves enough of them to fill a batch, whatever still fails
\* and is stored nevertheless.
RoomForBatch == Cardinality(Fresh) >= BatchSize * (1 + MaxFaults - faults)

\* After any failure a batch is stored again while the source keeps sending
\* (handle_line: otherwise one failure "would otherwise wedge ingestion into a
\* permanent reconnect loop that stores nothing until the container restarts";
\* test_ingest.py: "The ingestor has to be usable again").
Recovers == last = "failed" /\ RoomForBatch ~> last = "stored"

================================================================================

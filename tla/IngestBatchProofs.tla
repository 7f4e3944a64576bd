---------------------------- MODULE IngestBatchProofs ----------------------------
(***************************************************************************)
(* The safety of the write batches, for any number of objects, missions,   *)
(* rows and failures, and for every batch size and cap.                    *)
(***************************************************************************)
EXTENDS IngestBatch, TLAPS, SequenceTheorems

\* The queue holds rows that have been retained, each once.
QueueIsStaged ==
  ToSet(pendingRetained) \subseteq staged /\ IsInjective(pendingRetained)

\* A cached object row belongs to the cached flight.
CachedTogether ==
  \A o \in Obj : objectRowIds[o] # None => flightId # None /\ objectRowIds[o][1] = flightId

\* How far a line has come says what it has found.
LineIsReady ==
  /\ at.step \in {"flight", "object", "keep"} => at.obj \in Obj
  /\ at.step \in {"object", "keep"} => flightId # None
  /\ at.step = "keep" => open /\ objectRowIds[at.obj] # None
  /\ at.step = "close" => open \/ pendingRetained = <<>>

\* What the invariant says of the rows.
RowsInv ==
  /\ QueueIsStaged
  /\ RetainedRowsSurvive
  /\ StoredOnce
  /\ OwnMission
  /\ BatchHasSession

\* The inductive invariant.
IInv ==
  /\ TypeOK
  /\ CachedTogether
  /\ LineIsReady
  /\ RowsInv

\* The types of the batch and the database, and of the line being handled; the
\* one truth value is apart because the provers treat it apart.
BatchTypes ==
  /\ addedFlights \subseteq Flight /\ addedObjects \subseteq ObjectRow
  /\ pending \in Nat
  /\ pendingTracks \subseteq TrackRow
  /\ pendingRetained \in Seq(TrackRow) /\ Len(pendingRetained) <= Cap
  /\ last \in {"none", "stored", "failed"}
  /\ flights \subseteq Flight /\ objects \subseteq ObjectRow /\ tracks \subseteq TrackRow
  /\ staged \subseteq TrackRow /\ dropped \subseteq TrackRow /\ ambiguous \subseteq staged

LineTypes ==
  /\ flightId \in Flight \union {None}
  /\ objectRowIds \in [Obj -> ObjectRow \union {None}]
  /\ at \in [step : Step, obj : Obj \union {None}]
  /\ lastFlight \in 0..MaxFlight
  /\ faults \in 0..MaxFaults

USE DEF cached, added, batch, database, history, vars

LEMMA TypeParts == TypeOK <=> BatchTypes /\ LineTypes /\ open \in BOOLEAN
BY DEF TypeOK, BatchTypes, LineTypes

--------------------------------------------------------------------------------
(***************************************************************************)
(* The queue of retained rows                                              *)
(***************************************************************************)

\* Cutting a queue to the cap keeps its newest row, adds none, and repeats none.
LEMMA NewestProperties ==
  ASSUME NEW S, NEW s \in Seq(S), NEW x \in S
  PROVE  LET q == Newest(Append(s, x)) IN
         /\ q \in Seq(S) /\ Len(q) <= Cap
         /\ x \in ToSet(q)
         /\ ToSet(q) \subseteq ToSet(s) \union {x}
         /\ IsInjective(s) /\ x \notin ToSet(s) => IsInjective(q)
<1> DEFINE t == Append(s, x)
           q == Newest(t)
           m == IF Len(t) <= Cap THEN 0 ELSE Len(t) - Cap
<1>1. /\ t \in Seq(S) /\ Len(t) = Len(s) + 1
      /\ \A i \in 1..Len(s) : t[i] = s[i]
      /\ t[Len(s) + 1] = x
  BY AppendProperties
<1>2. Cap \in Nat \ {0} /\ m \in Nat /\ m < Len(t) /\ Len(t) - m <= Cap
  BY <1>1, BatchAssumption, LenProperties DEF BatchAssumption
<1> HIDE DEF t
<1>3. q \in Seq(S) /\ Len(q) = Len(t) - m /\ \A i \in 1..Len(q) : q[i] = t[m + i]
  <2>1. CASE Len(t) <= Cap
    BY <2>1, <1>1, <1>2 DEF Newest
  <2>2. CASE ~(Len(t) <= Cap)
    <3>1. q = SubSeq(t, m + 1, Len(t))
      BY <2>2, <1>1, <1>2 DEF Newest
    <3>2. \A i \in (m + 1)..Len(t) : t[i] \in S
      BY <1>1, <1>2, ElementOfSeq
    <3> HIDE DEF q, m
    <3>3. /\ q \in Seq(S)
          /\ Len(q) = IF m + 1 <= Len(t) THEN Len(t) - (m + 1) + 1 ELSE 0
          /\ \A i \in 1..(Len(t) - (m + 1) + 1) : q[i] = t[(m + 1) + i - 1]
      BY <1>1, <1>2, <3>1, <3>2, SubSeqProperties
    <3> QED
      BY <1>1, <1>2, <3>3
  <2> QED
    BY <2>1, <2>2
<1> HIDE DEF q, m
<1>4. DOMAIN s = 1..Len(s) /\ DOMAIN q = 1..Len(q) /\ Len(s) \in Nat /\ Len(q) \in Nat
  BY <1>3, LenProperties
<1>5. x \in ToSet(q)
  <2>1. Len(q) \in DOMAIN q /\ q[Len(q)] = x
    BY <1>1, <1>2, <1>3, <1>4
  <2> QED
    BY <2>1 DEF ToSet
<1>6. ToSet(q) \subseteq ToSet(s) \union {x}
  <2> SUFFICES ASSUME NEW i \in DOMAIN q PROVE q[i] \in ToSet(s) \union {x}
    BY DEF ToSet
  <2>1. q[i] = t[m + i] /\ m + i \in 1..(Len(s) + 1)
    BY <1>1, <1>2, <1>3, <1>4
  <2>2. CASE m + i = Len(s) + 1
    BY <2>1, <2>2, <1>1
  <2>3. CASE m + i # Len(s) + 1
    <3>1. m + i \in DOMAIN s /\ q[i] = s[m + i]
      BY <2>1, <2>3, <1>1, <1>4
    <3> QED
      BY <3>1 DEF ToSet
  <2> QED
    BY <2>2, <2>3
<1>7. ASSUME IsInjective(s), x \notin ToSet(s) PROVE IsInjective(q)
  <2> SUFFICES ASSUME NEW i \in DOMAIN q, NEW j \in DOMAIN q, q[i] = q[j] PROVE i = j
    BY DEF IsInjective
  <2>1. \A k \in DOMAIN s : s[k] # x
    BY <1>7 DEF ToSet
  <2>2. \A k, l \in DOMAIN s : s[k] = s[l] => k = l
    BY <1>7 DEF IsInjective
  <2>3. t[m + i] = t[m + j] /\ m + i \in 1..(Len(s) + 1) /\ m + j \in 1..(Len(s) + 1)
    BY <1>1, <1>2, <1>3, <1>4
  <2>4. m + i = m + j
    BY <2>1, <2>2, <2>3, <1>1, <1>4
  <2> QED
    BY <2>4, <1>2, <1>4
<1> QED
  BY <1>2, <1>3, <1>5, <1>6, <1>7 DEF q, t

--------------------------------------------------------------------------------
(***************************************************************************)
(* What the ends of a batch do to the rows                                 *)
(***************************************************************************)

\* A row is retained.
LEMMA StageRowKeeps ==
  ASSUME IInv, NEW o \in Obj, StageRow(o), UNCHANGED database
  PROVE  /\ RowsInv'
         /\ pending' \in Nat
         /\ pendingRetained' \in Seq(TrackRow) /\ Len(pendingRetained') <= Cap
         /\ staged' \subseteq TrackRow /\ dropped' \subseteq TrackRow
         /\ ambiguous' \subseteq staged'
         /\ open'
<1> USE DEF IInv, TypeOK, RowsInv
<1>1. PICK n \in Fresh :
        /\ objectRowIds[o] # None
        /\ open' = TRUE
        /\ pending' = pending + 1
        /\ pendingRetained' = Newest(Append(pendingRetained, RowOf(o, n)))
        /\ staged' = staged \union {RowOf(o, n)}
        /\ dropped' = (dropped \union ToSet(pendingRetained)) \ ToSet(pendingRetained')
        /\ UNCHANGED <<added, pendingTracks>>
  BY DEF StageRow
<1> DEFINE row == RowOf(o, n)
<1>2. row \in TrackRow /\ row.object[1] = row.flight
  BY <1>1, NoneAssumption DEF CachedTogether, RowOf, TrackRow, ObjectRow, Fresh
<1>3. row \notin staged /\ row \notin tracks /\ row \notin pendingTracks
  BY DEF Fresh, RowOf
<1> HIDE DEF row
<1>4. /\ pendingRetained' \in Seq(TrackRow) /\ Len(pendingRetained') <= Cap
      /\ row \in ToSet(pendingRetained')
      /\ ToSet(pendingRetained') \subseteq ToSet(pendingRetained) \union {row}
      /\ IsInjective(pendingRetained) /\ row \notin ToSet(pendingRetained)
            => IsInjective(pendingRetained')
  BY <1>1, <1>2, NewestProperties DEF row
<1>5. /\ staged' = staged \union {row}
      /\ dropped' = (dropped \union ToSet(pendingRetained)) \ ToSet(pendingRetained')
      /\ pendingTracks' = pendingTracks /\ tracks' = tracks /\ ambiguous' = ambiguous
  BY <1>1 DEF row
<1>6. QueueIsStaged'
  BY <1>3, <1>4, <1>5 DEF QueueIsStaged
<1>7. RetainedRowsSurvive'
  BY <1>4, <1>5 DEF RetainedRowsSurvive
<1>8. StoredOnce'
  BY <1>3, <1>4, <1>5, <1>6 DEF StoredOnce, Batch, QueueIsStaged
<1>9. OwnMission'
  BY <1>2, <1>4, <1>5 DEF OwnMission, Batch
<1>10. BatchHasSession' /\ open'
  BY <1>1 DEF BatchHasSession
<1>11. pending' \in Nat
  BY <1>1
<1>12. /\ staged' \subseteq TrackRow /\ dropped' \subseteq TrackRow
       /\ ambiguous' \subseteq staged'
  BY <1>2, <1>5 DEF QueueIsStaged
<1> QED
  BY <1>4, <1>6, <1>7, <1>8, <1>9, <1>10, <1>11, <1>12

\* A batch is committed.
LEMMA StoreKeeps ==
  ASSUME IInv, Store, UNCHANGED history
  PROVE  /\ RowsInv'
         /\ pending' \in Nat /\ pendingTracks' = {} /\ pendingRetained' = <<>>
         /\ addedFlights' = {} /\ addedObjects' = {} /\ ~open'
         /\ tracks' \subseteq TrackRow /\ flights' \subseteq Flight /\ objects' \subseteq ObjectRow
         /\ ambiguous' \subseteq staged' /\ last' \in {"none", "stored", "failed"}
<1> USE DEF IInv, TypeOK, RowsInv
<1>1. /\ pendingTracks' = {} /\ pendingRetained' = <<>> /\ pending' = 0
      /\ tracks' = tracks \union Batch
      /\ UNCHANGED <<ambiguous, staged, dropped>>
  BY DEF Store, CloseSession, Apply
<1>2. ToSet(<<>>) = {} /\ IsInjective(<<>>)
  BY DEF ToSet, IsInjective
<1>3. Batch' = {} /\ Batch \subseteq TrackRow
  <2>1. ToSet(pendingRetained) \subseteq TrackRow
    BY DEF QueueIsStaged
  <2> QED
    BY <1>1, <1>2, <2>1 DEF Batch
<1>4. RowsInv'
  BY <1>1, <1>2, <1>3
     DEF QueueIsStaged, RetainedRowsSurvive, StoredOnce, OwnMission, BatchHasSession, Batch
<1> QED
  BY <1>1, <1>3, <1>4 DEF Store, CloseSession, Apply

\* A batch is dropped, its rows unwritten or, unknown to it, written.
LEMMA DiscardKeeps ==
  ASSUME IInv, Discard, UNCHANGED history,
         UNCHANGED database \/ (Apply /\ ambiguous' = ambiguous \union ToSet(pendingRetained))
  PROVE  /\ RowsInv'
         /\ pending' \in Nat /\ pendingTracks' = {} /\ pendingRetained' = pendingRetained
         /\ addedFlights' = {} /\ addedObjects' = {} /\ ~open'
         /\ tracks' \subseteq TrackRow /\ flights' \subseteq Flight /\ objects' \subseteq ObjectRow
         /\ ambiguous' \subseteq staged'
<1> USE DEF IInv, TypeOK, RowsInv
<1>1. /\ pendingTracks' = {} /\ pendingRetained' = pendingRetained /\ pending' = 0
      /\ addedFlights' = {} /\ addedObjects' = {} /\ ~open'
      /\ UNCHANGED <<staged, dropped>>
  BY DEF Discard, CloseSession
<1>2. /\ Batch' = ToSet(pendingRetained) /\ Batch' \subseteq Batch /\ Batch \subseteq TrackRow
      /\ ToSet(pendingRetained') = ToSet(pendingRetained)
  <2>1. ToSet(pendingRetained) \subseteq TrackRow
    BY DEF QueueIsStaged
  <2> QED
    BY <1>1, <2>1 DEF Batch
<1>3. CASE UNCHANGED database
  BY <1>1, <1>2, <1>3
     DEF QueueIsStaged, RetainedRowsSurvive, StoredOnce, OwnMission, BatchHasSession
<1>4. CASE Apply /\ ambiguous' = ambiguous \union ToSet(pendingRetained)
  <2>1. tracks' = tracks \union Batch
    BY <1>4 DEF Apply
  <2>2. QueueIsStaged' /\ RetainedRowsSurvive' /\ BatchHasSession'
    BY <1>1, <1>2, <2>1 DEF QueueIsStaged, RetainedRowsSurvive, BatchHasSession
  <2>3. StoredOnce' /\ OwnMission'
    BY <1>1, <1>2, <1>4, <2>1 DEF StoredOnce, OwnMission
  <2> QED
    BY <1>1, <1>2, <1>4, <2>1, <2>2, <2>3 DEF Apply, QueueIsStaged
<1> QED
  BY <1>3, <1>4

\* Nothing of the rows changes but the count or the session, which stays open.
LEMMA RowsUntouched ==
  ASSUME IInv, UNCHANGED <<pendingTracks, pendingRetained, database, history>>,
         open' \/ UNCHANGED <<open, pending>>
  PROVE  RowsInv'
BY DEF IInv, RowsInv, QueueIsStaged, RetainedRowsSurvive, StoredOnce, OwnMission,
       BatchHasSession, Batch

LEMMA InitInv == Init => IInv
<1> SUFFICES ASSUME Init PROVE IInv
  OBVIOUS
<1>1. open \in BOOLEAN
  BY Zenon DEF Init
<1>2. BatchTypes /\ LineTypes
  <2>1. <<>> \in Seq(TrackRow) /\ Len(<<>>) = 0
    BY EmptySeq
  <2> QED
    BY <2>1, BatchAssumption DEF BatchAssumption, Init, BatchTypes, LineTypes, Step
<1>3. ToSet(<<>>) = {} /\ IsInjective(<<>>)
  BY DEF ToSet, IsInjective
<1>4. RowsInv
  BY <1>3 DEF Init, RowsInv, QueueIsStaged, RetainedRowsSurvive, StoredOnce, OwnMission,
              BatchHasSession, Batch
<1>5. CachedTogether /\ LineIsReady
  BY DEF Init, CachedTogether, LineIsReady
<1> QED
  BY <1>1, <1>2, <1>4, <1>5, TypeParts DEF IInv

--------------------------------------------------------------------------------
(***************************************************************************)
(* The parts that actions are made of                                      *)
(***************************************************************************)

\* What every one of them gives of the next state.
Kept == RowsInv' /\ BatchTypes'

\* A line goes on, or it is over.
LEMMA GoTo ==
  ASSUME LineTypes, NEW step \in Step, Go(step)
  PROVE  /\ at' \in [step : Step, obj : Obj \union {None}]
         /\ at'.step = step
         /\ step # "idle" => at'.obj = at.obj
BY DEF LineTypes, Go

LEMMA CommitKeeps ==
  ASSUME IInv, NEW next, Flushed(next)
  PROVE  Kept /\ Go(next) /\ UNCHANGED <<faults, lastFlight>>
<1>1. BatchTypes /\ RowsInv
  BY TypeParts DEF IInv
<1>2. CASE ~open /\ UNCHANGED <<batch, last, database, faults>>
  BY <1>1, <1>2, RowsUntouched DEF Flushed, Kept, BatchTypes
<1>3. CASE Store
  <2>1. UNCHANGED history
    BY DEF Flushed
  <2>2. BatchTypes'
    <3>1. <<>> \in Seq(TrackRow) /\ Len(<<>>) = 0
      BY EmptySeq
    <3> QED
      BY <1>1, <1>3, <2>1, <3>1, StoreKeeps, BatchAssumption DEF BatchTypes, BatchAssumption
  <2> QED
    BY <1>3, <2>1, <2>2, StoreKeeps DEF Kept, Store, Flushed
<1> QED
  BY <1>2, <1>3 DEF Flushed

LEMMA RefuseKeeps ==
  ASSUME IInv, Refuse, UNCHANGED history
  PROVE  Kept /\ faults' \in 0..MaxFaults /\ pendingRetained' = pendingRetained
<1>1. BatchTypes /\ LineTypes
  BY TypeParts DEF IInv
<1>2. faults' \in 0..MaxFaults
  BY <1>1, BatchAssumption DEF BatchAssumption, Refuse, Fault, LineTypes
<1>3. UNCHANGED database \/ (Apply /\ ambiguous' = ambiguous \union ToSet(pendingRetained))
  BY DEF Refuse
<1>4. Discard /\ last' = "failed"
  BY DEF Refuse
<1> QED
  BY <1>1, <1>2, <1>3, <1>4, DiscardKeeps DEF Kept, BatchTypes

LEMMA FlushFailsKeeps ==
  ASSUME IInv, FlushFails
  PROVE  Kept /\ Go("idle") /\ faults' \in 0..MaxFaults /\ UNCHANGED lastFlight
BY RefuseKeeps DEF FlushFails

LEMMA FlushKeeps ==
  ASSUME IInv, NEW next, Flush(next)
  PROVE  /\ Kept /\ faults' \in 0..MaxFaults /\ UNCHANGED lastFlight
         /\ Go(next) \/ Go("idle")
<1>1. LineTypes
  BY TypeParts DEF IInv
<1> QED
  BY <1>1, CommitKeeps, FlushFailsKeeps DEF Flush, LineTypes

LEMMA MayFlushKeeps ==
  ASSUME IInv, NEW next, MayFlush(next)
  PROVE  /\ Kept /\ faults' \in 0..MaxFaults /\ UNCHANGED lastFlight
         /\ Go(next) \/ Go("idle")
<1>1. BatchTypes /\ LineTypes
  BY TypeParts DEF IInv
<1>2. CASE Flush(next)
  BY <1>2, FlushKeeps
<1>3. CASE Go(next) /\ UNCHANGED <<batch, last, database, lastFlight, history, faults>>
  BY <1>1, <1>3, RowsUntouched DEF Kept, BatchTypes, LineTypes
<1> QED
  BY <1>2, <1>3 DEF MayFlush

LEMMA LineFailsKeeps ==
  ASSUME IInv, LineFails
  PROVE  Kept /\ Go("idle") /\ UNCHANGED <<cached, lastFlight>>
<1>1. BatchTypes
  BY TypeParts DEF IInv
<1> QED
  BY <1>1, DiscardKeeps DEF LineFails, Kept, BatchTypes

LEMMA StagedKeeps ==
  ASSUME IInv, NEW o \in Obj, StageRow(o), UNCHANGED <<database, last>>
  PROVE  Kept /\ open'
<1>1. BatchTypes
  BY TypeParts DEF IInv
<1>2. UNCHANGED <<added, pendingTracks>>
  BY DEF StageRow
<1> QED
  BY <1>1, <1>2, StageRowKeeps DEF Kept, BatchTypes

LEMMA MayStageKeeps ==
  ASSUME IInv, NEW S \in SUBSET Obj, MayStage(S), UNCHANGED <<database, last>>
  PROVE  Kept /\ (open => open')
<1>1. BatchTypes
  BY TypeParts DEF IInv
<1>2. CASE UNCHANGED <<batch, history>>
  BY <1>1, <1>2, RowsUntouched DEF Kept, BatchTypes
<1>3. CASE \E o \in S : StageRow(o)
  BY <1>3, StagedKeeps
<1> QED
  BY <1>2, <1>3 DEF MayStage

--------------------------------------------------------------------------------
(***************************************************************************)
(* The actions                                                             *)
(***************************************************************************)

\* What an action has to preserve, besides the truth value of open.
Preserved == Kept /\ LineTypes' /\ CachedTogether' /\ LineIsReady'

\* The ids are left alone by the end of a line, whatever ends it, and a step
\* that no fact is needed for is always ready.
LEMMA Onwards ==
  ASSUME IInv, Kept, UNCHANGED <<cached, lastFlight>>, faults' \in 0..MaxFaults,
         NEW step \in Step \ {"flight", "object", "keep", "close"}, Go(step)
  PROVE  Preserved
<1>1. LineTypes /\ CachedTogether
  BY TypeParts DEF IInv
<1>2. at' \in [step : Step, obj : Obj \union {None}] /\ at'.step = step
  BY <1>1, GoTo
<1> QED
  BY <1>1, <1>2 DEF Preserved, LineTypes, CachedTogether, LineIsReady

LEMMA UpdateKeeps == ASSUME IInv, NEW o \in Obj, Update(o) PROVE Preserved
<1>1. BatchTypes /\ LineTypes /\ CachedTogether
  BY TypeParts DEF IInv
<1> QED
  BY <1>1, RowsUntouched
     DEF Update, Preserved, Kept, BatchTypes, LineTypes, CachedTogether, LineIsReady, Step

LEMMA EnsureFlightKeeps == ASSUME IInv, EnsureFlight PROVE Preserved
<1>1. BatchTypes /\ LineTypes /\ CachedTogether /\ at.obj \in Obj
  BY TypeParts DEF IInv, LineIsReady, EnsureFlight, At
<1>2. "object" \in Step /\ "idle" \in Step
  BY DEF Step
<1>3. CASE /\ flightId # None /\ Go("object")
           /\ UNCHANGED <<cached, batch, last, database, lastFlight, history, faults>>
  <2>1. at' \in [step : Step, obj : Obj \union {None}] /\ at'.step = "object" /\ at'.obj = at.obj
    BY <1>1, <1>2, <1>3, GoTo
  <2> QED
    BY <1>1, <1>3, <2>1, RowsUntouched
       DEF Preserved, Kept, BatchTypes, LineTypes, CachedTogether, LineIsReady
<1>4. CASE /\ flightId = None /\ lastFlight < MaxFlight
           /\ lastFlight' = lastFlight + 1
           /\ flightId' = lastFlight + 1
           /\ open' = TRUE
           /\ addedFlights' = addedFlights \union {lastFlight + 1}
           /\ pending' = pending + 1
           /\ Go("object")
           /\ UNCHANGED <<objectRowIds, addedObjects, pendingTracks, pendingRetained,
                          last, database, history, faults>>
  <2>1. at' \in [step : Step, obj : Obj \union {None}] /\ at'.step = "object" /\ at'.obj = at.obj
    BY <1>1, <1>2, <1>4, GoTo
  <2>2. lastFlight + 1 \in Flight /\ lastFlight + 1 # None
    BY <1>1, <1>4, BatchAssumption, NoneAssumption DEF BatchAssumption, LineTypes, Flight
  <2>3. RowsInv'
    BY <1>4, RowsUntouched
  <2>4. CachedTogether'
    BY <1>1, <1>4, <2>2 DEF CachedTogether
  <2> QED
    BY <1>1, <1>4, <2>1, <2>2, <2>3, <2>4, BatchAssumption
       DEF BatchAssumption, Preserved, Kept, BatchTypes, LineTypes, LineIsReady, Flight
<1>5. CASE flightId = None /\ Fault /\ LineFails
  <2>1. faults' \in 0..MaxFaults
    BY <1>1, <1>5, BatchAssumption DEF BatchAssumption, Fault, LineTypes
  <2> QED
    BY <1>2, <1>5, <2>1, LineFailsKeeps, Onwards
<1> QED
  BY <1>3, <1>4, <1>5 DEF EnsureFlight

LEMMA FindObjectKeeps == ASSUME IInv, FindObject PROVE Preserved
<1>1. /\ BatchTypes /\ LineTypes /\ CachedTogether /\ at.obj \in Obj
      /\ flightId # None
  BY TypeParts DEF IInv, LineIsReady, FindObject, At
<1>2. "keep" \in Step /\ "idle" \in Step
  BY DEF Step
<1> DEFINE row == <<flightId, at.obj>>
<1>3. row \in ObjectRow /\ row[1] = flightId /\ row # None
  BY <1>1, NoneAssumption DEF LineTypes, ObjectRow
<1>4. CASE /\ objectRowIds[at.obj] # None
           /\ open' = TRUE
           /\ Go("keep")
           /\ UNCHANGED <<cached, added, pending, pendingTracks, pendingRetained,
                          last, database, lastFlight, history, faults>>
  <2>1. at' \in [step : Step, obj : Obj \union {None}] /\ at'.step = "keep" /\ at'.obj = at.obj
    BY <1>1, <1>2, <1>4, GoTo
  <2> QED
    BY <1>1, <1>4, <2>1, RowsUntouched
       DEF Preserved, Kept, BatchTypes, LineTypes, CachedTogether, LineIsReady
<1>5. CASE /\ objectRowIds[at.obj] = None /\ HasFlight(flightId)
           /\ open' = TRUE
           /\ addedObjects' = addedObjects \union {row}
           /\ objectRowIds' = [objectRowIds EXCEPT ![at.obj] = row]
           /\ Go("keep")
           /\ UNCHANGED <<flightId, addedFlights, pending, pendingTracks, pendingRetained, last,
                          database, lastFlight, history, faults>>
  <2>1. at' \in [step : Step, obj : Obj \union {None}] /\ at'.step = "keep" /\ at'.obj = at.obj
    BY <1>1, <1>2, <1>5, GoTo
  <2>2. RowsInv'
    BY <1>5, RowsUntouched
  <2> HIDE DEF row
  <2>3. /\ objectRowIds' \in [Obj -> ObjectRow \union {None}]
        /\ objectRowIds'[at.obj] = row
        /\ \A o \in Obj \ {at.obj} : objectRowIds'[o] = objectRowIds[o]
    BY <1>1, <1>3, <1>5 DEF LineTypes
  <2>4. CachedTogether'
    BY <1>1, <1>3, <1>5, <2>3 DEF CachedTogether
  <2>5. BatchTypes'
    BY <1>1, <1>3, <1>5 DEF BatchTypes
  <2>6. LineTypes'
    BY <1>1, <1>5, <2>1, <2>3 DEF LineTypes
  <2>7. LineIsReady'
    BY <1>1, <1>3, <1>5, <2>1, <2>3 DEF LineIsReady
  <2> QED
    BY <2>2, <2>4, <2>5, <2>6, <2>7 DEF Preserved, Kept
<1>6. CASE LineFails /\ (UNCHANGED faults \/ Fault)
  <2>1. faults' \in 0..MaxFaults
    BY <1>1, <1>6, BatchAssumption DEF BatchAssumption, Fault, LineTypes
  <2> QED
    BY <1>2, <1>6, <2>1, LineFailsKeeps, Onwards
<1> QED
  BY <1>4, <1>5, <1>6 DEF FindObject

LEMMA KeepTrackKeeps == ASSUME IInv, KeepTrack PROVE Preserved
<1>1. /\ BatchTypes /\ LineTypes /\ CachedTogether /\ RowsInv /\ at.obj \in Obj
      /\ open /\ objectRowIds[at.obj] # None
  BY TypeParts DEF IInv, LineIsReady, KeepTrack, At
<1>2. /\ "batch" \in Step \ {"flight", "object", "keep", "close"} /\ Go("batch")
      /\ UNCHANGED <<cached, last, database, lastFlight, faults>>
  BY DEF Step, KeepTrack
<1>3. faults' \in 0..MaxFaults
  BY <1>1, <1>2 DEF LineTypes
<1>4. CASE /\ \E n \in Fresh :
                pendingTracks' = pendingTracks \union {RowOf(at.obj, n)}
           /\ pending' = pending + 1
           /\ UNCHANGED <<open, added, pendingRetained, history>>
  <2>1. PICK n \in Fresh : pendingTracks' = pendingTracks \union {RowOf(at.obj, n)}
    BY <1>4
  <2> DEFINE row == RowOf(at.obj, n)
  <2>2. row \in TrackRow /\ row.object[1] = row.flight
    BY <1>1, NoneAssumption DEF LineTypes, CachedTogether, RowOf, TrackRow, ObjectRow, Fresh
  <2>3. row \notin tracks
    BY DEF Fresh, RowOf
  <2> HIDE DEF row
  <2>4. Batch' = Batch \union {row} /\ pendingTracks' = pendingTracks \union {row}
    BY <1>4, <2>1 DEF Batch, row
  <2>5. QueueIsStaged' /\ RetainedRowsSurvive' /\ BatchHasSession'
    BY <1>1, <1>2, <1>4
       DEF RowsInv, QueueIsStaged, RetainedRowsSurvive, BatchHasSession
  <2>6. StoredOnce' /\ OwnMission'
    BY <1>1, <1>2, <1>4, <2>2, <2>3, <2>4 DEF RowsInv, StoredOnce, OwnMission
  <2>7. BatchTypes'
    BY <1>1, <1>2, <1>4, <2>2, <2>4 DEF BatchTypes
  <2> QED
    BY <1>2, <1>3, <2>5, <2>6, <2>7, Onwards DEF Kept, RowsInv
<1>5. CASE at.obj \in Vessel /\ MayStage({at.obj})
  BY <1>1, <1>2, <1>3, <1>5, MayStageKeeps, Onwards
<1> QED
  BY <1>4, <1>5 DEF KeepTrack

LEMMA FlushBatchKeeps == ASSUME IInv, FlushBatch PROVE Preserved
<1>1. {"detect", "idle"} \subseteq Step \ {"flight", "object", "keep", "close"}
  BY DEF Step
<1> QED
  BY <1>1, MayFlushKeeps, Onwards DEF FlushBatch

LEMMA DetectKeeps == ASSUME IInv, Detect PROVE Preserved
<1>1. {"stage", "idle"} \subseteq Step \ {"flight", "object", "keep", "close"}
  BY DEF Step
<1>2. BatchTypes /\ LineTypes
  BY TypeParts DEF IInv
<1>3. CASE Flush("stage")
  BY <1>1, <1>3, FlushKeeps, Onwards DEF Detect
<1>4. CASE Go("stage") /\ UNCHANGED <<batch, last, database, lastFlight, history, faults>>
  <2>1. Kept /\ faults' \in 0..MaxFaults
    BY <1>2, <1>4, RowsUntouched DEF Kept, BatchTypes, LineTypes
  <2> QED
    BY <1>1, <1>4, <2>1, Onwards DEF Detect
<1> QED
  BY <1>3, <1>4 DEF Detect

LEMMA StageKeeps == ASSUME IInv, Stage PROVE Preserved
<1>1. "tail" \in Step \ {"flight", "object", "keep", "close"} /\ Vessel \in SUBSET Obj
  BY DEF Step, Obj
<1>2. faults' \in 0..MaxFaults
  BY TypeParts DEF IInv, LineTypes, Stage
<1> QED
  BY <1>1, <1>2, MayStageKeeps, Onwards DEF Stage

LEMMA FlushTailKeeps == ASSUME IInv, FlushTail PROVE Preserved
<1>1. "idle" \in Step \ {"flight", "object", "keep", "close"}
  BY DEF Step
<1> QED
  BY <1>1, MayFlushKeeps, Onwards DEF FlushTail

LEMMA FlushNowKeeps == ASSUME IInv, FlushNow PROVE Preserved
<1>1. "idle" \in Step \ {"flight", "object", "keep", "close"}
  BY DEF Step
<1> QED
  BY <1>1, FlushKeeps, Onwards DEF FlushNow

LEMMA RemoveLineKeeps == ASSUME IInv, NEW o \in Obj, RemoveLine(o) PROVE Preserved
<1>1. BatchTypes /\ LineTypes /\ CachedTogether
  BY TypeParts DEF IInv
<1>2. CASE /\ open' = TRUE
           /\ pending' = IF HasObject(objectRowIds[o]) THEN pending + 1 ELSE pending
           /\ at' = [step |-> IF HasObject(objectRowIds[o]) THEN "batch" ELSE "stage",
                     obj |-> o]
           /\ UNCHANGED <<cached, added, pendingTracks, pendingRetained, last,
                          database, lastFlight, history, faults>>
  <2>1. RowsInv'
    BY <1>2, RowsUntouched
  <2>2. pending' \in Nat
    BY <1>1, <1>2 DEF BatchTypes
  <2>3. /\ at' \in [step : Step, obj : Obj \union {None}]
        /\ at'.step \in {"batch", "stage"}
    BY <1>2 DEF Step
  <2> QED
    BY <1>1, <1>2, <2>1, <2>2, <2>3
       DEF Preserved, Kept, BatchTypes, LineTypes, CachedTogether, LineIsReady
<1>3. CASE Fault /\ LineFails
  <2>1. faults' \in 0..MaxFaults
    BY <1>1, <1>3, BatchAssumption DEF BatchAssumption, Fault, LineTypes
  <2>2. "idle" \in Step
    BY DEF Step
  <2> QED
    BY <1>3, <2>1, <2>2, LineFailsKeeps, Onwards
<1> QED
  BY <1>2, <1>3 DEF RemoveLine

LEMMA BeginRotateKeeps ==
  ASSUME IInv, NEW o \in Obj \union {None}, BeginRotate(o)
  PROVE  Preserved
<1>1. LineTypes /\ CachedTogether
  BY TypeParts DEF IInv
<1>2. Kept
  <2>1. Vessel \in SUBSET Obj
    BY DEF Obj
  <2> QED
    BY <2>1, MayStageKeeps DEF BeginRotate
<1>3. at' \in [step : Step, obj : Obj \union {None}] /\ at'.step = "rotate"
  BY DEF BeginRotate, Step
<1> QED
  BY <1>1, <1>2, <1>3 DEF BeginRotate, Preserved, LineTypes, CachedTogether, LineIsReady

LEMMA RotateKeeps == ASSUME IInv, Rotate PROVE Preserved
<1>1. LineTypes
  BY TypeParts DEF IInv
<1>2. "idle" \in Step /\ "flight" \in Step
  BY DEF Step
<1>3. CASE FlushFails /\ UNCHANGED cached
  BY <1>2, <1>3, FlushFailsKeeps, Onwards
<1>4. CASE Flushed(IF at.obj = None THEN "idle" ELSE "flight") /\ Forget
  <2> DEFINE next == IF at.obj = None THEN "idle" ELSE "flight"
  <2>1. next \in Step /\ (next = "flight" => at.obj \in Obj) /\ next \in {"idle", "flight"}
    BY <1>1, <1>2 DEF LineTypes
  <2> HIDE DEF next
  <2>2. Kept /\ Go(next) /\ UNCHANGED <<faults, lastFlight>>
    BY <1>4, CommitKeeps DEF next
  <2>3. /\ at' \in [step : Step, obj : Obj \union {None}] /\ at'.step = next
        /\ next # "idle" => at'.obj = at.obj
    BY <1>1, <2>1, <2>2, GoTo
  <2>4. flightId' = None /\ objectRowIds' = [o \in Obj |-> None]
    BY <1>4 DEF Forget
  <2> QED
    BY <1>1, <2>1, <2>2, <2>3, <2>4 DEF Preserved, LineTypes, CachedTogether, LineIsReady
<1> QED
  BY <1>3, <1>4 DEF Rotate

LEMMA BeginCloseKeeps == ASSUME IInv, BeginClose PROVE Preserved
<1>1. BatchTypes /\ LineTypes /\ CachedTogether
  BY TypeParts DEF IInv
<1>2. /\ at' \in [step : Step, obj : Obj \union {None}] /\ at'.step = "close"
      /\ UNCHANGED <<cached, last, database, lastFlight, faults>>
  BY DEF BeginClose, Step
<1>3. Kept /\ (open' \/ pendingRetained' = <<>>)
  <2>1. CASE \E o \in Vessel : StageRow(o)
    BY <1>2, <2>1, StagedKeeps DEF Obj
  <2>2. CASE /\ open' = (open \/ pendingRetained # <<>>)
             /\ UNCHANGED <<added, pending, pendingTracks, pendingRetained, history>>
    <3>1. (open => open') /\ (open' \/ pendingRetained' = <<>>)
      BY <2>2
    <3>2. RowsInv'
      BY <1>2, <2>2, <3>1
         DEF IInv, RowsInv, QueueIsStaged, RetainedRowsSurvive, StoredOnce, OwnMission,
             BatchHasSession, Batch
    <3> QED
      BY <1>1, <1>2, <2>2, <3>1, <3>2 DEF Kept, BatchTypes
  <2> QED
    BY <2>1, <2>2 DEF BeginClose
<1> QED
  BY <1>1, <1>2, <1>3 DEF Preserved, LineTypes, CachedTogether, LineIsReady

LEMMA CloseKeeps == ASSUME IInv, Close PROVE Preserved
<1>1. BatchTypes /\ LineTypes /\ CachedTogether
  BY TypeParts DEF IInv
<1>2. /\ at' \in [step : Step, obj : Obj \union {None}] /\ at'.step = "closed"
      /\ UNCHANGED <<cached, lastFlight, history>>
  BY DEF Close, Step
<1>3. Kept /\ faults' \in 0..MaxFaults
  <2>1. CASE UNCHANGED <<batch, last, database, faults>>
    BY <1>1, <1>2, <2>1, RowsUntouched DEF Kept, BatchTypes, LineTypes
  <2>2. CASE Store
    <3>1. <<>> \in Seq(TrackRow) /\ Len(<<>>) = 0
      BY EmptySeq
    <3>2. BatchTypes'
      BY <1>1, <1>2, <2>2, <3>1, StoreKeeps, BatchAssumption DEF BatchTypes, BatchAssumption
    <3> QED
      BY <1>1, <1>2, <2>2, <3>2, StoreKeeps DEF Kept, Store, LineTypes
  <2>3. CASE Refuse
    BY <1>2, <2>3, RefuseKeeps
  <2> QED
    BY <2>1, <2>2, <2>3 DEF Close
<1> QED
  BY <1>1, <1>2, <1>3 DEF Preserved, LineTypes, CachedTogether, LineIsReady

\* Every assignment of open is a truth value.
LEMMA NextOpen == open \in BOOLEAN /\ [Next]_vars => open' \in BOOLEAN
<1> SUFFICES ASSUME open \in BOOLEAN, [Next]_vars PROVE open' \in BOOLEAN
  OBVIOUS
<1>1. ASSUME NEW o, StageRow(o) PROVE open' \in BOOLEAN
  BY <1>1, Zenon DEF StageRow
<1>2. ASSUME NEW S, MayStage(S) PROVE open' \in BOOLEAN
  BY <1>1, <1>2, Zenon DEF MayStage
<1>3. ASSUME Store \/ Refuse PROVE open' \in BOOLEAN
  BY <1>3, Zenon DEF Store, Refuse, Discard, CloseSession
<1>4. ASSUME NEW next, Flush(next) PROVE open' \in BOOLEAN
  BY <1>3, <1>4, Zenon DEF Flush, Flushed, FlushFails
<1>5. ASSUME NEW next, MayFlush(next) PROVE open' \in BOOLEAN
  BY <1>4, <1>5, Zenon DEF MayFlush
<1>6. ASSUME LineFails PROVE open' \in BOOLEAN
  BY <1>6, Zenon DEF LineFails, Discard, CloseSession
<1>7. ASSUME NEW o \in Obj, Update(o) \/ RemoveLine(o) PROVE open' \in BOOLEAN
  BY <1>6, <1>7, Zenon DEF Update, RemoveLine
<1>8. ASSUME EnsureFlight \/ FindObject \/ KeepTrack PROVE open' \in BOOLEAN
  BY <1>2, <1>6, <1>8, Zenon DEF EnsureFlight, FindObject, KeepTrack
<1>9. ASSUME FlushBatch \/ Detect \/ Stage \/ FlushTail \/ Rotate PROVE open' \in BOOLEAN
  BY <1>2, <1>4, <1>5, <1>9, Zenon
     DEF FlushBatch, Detect, Stage, FlushTail, Rotate, Flush
<1>10. ASSUME NEW o, BeginRotate(o) PROVE open' \in BOOLEAN
  BY <1>2, <1>10, Zenon DEF BeginRotate
<1>11. ASSUME FlushNow \/ BeginClose \/ Close PROVE open' \in BOOLEAN
  <2>1. CASE FlushNow
    BY <1>4, <2>1, Zenon DEF FlushNow
  <2>2. CASE BeginClose
    BY <1>1, <2>2, Zenon DEF BeginClose
  <2>3. CASE Close
    BY <1>3, <2>3, Zenon DEF Close
  <2> QED
    BY <1>11, <2>1, <2>2, <2>3
<1>12. ASSUME UNCHANGED vars PROVE open' \in BOOLEAN
  BY <1>12, Zenon
<1> QED
  BY <1>7, <1>8, <1>9, <1>10, <1>11, <1>12, Zenon DEF Next, Handle

\* Every step keeps the invariant.
LEMMA NextInv == IInv /\ [Next]_vars => IInv'
<1> SUFFICES ASSUME IInv, [Next]_vars PROVE IInv'
  OBVIOUS
<1>1. open' \in BOOLEAN
  BY NextOpen, TypeParts DEF IInv
<1>2. Preserved
  <2>1. ASSUME NEW o \in Obj, Update(o) \/ RemoveLine(o) PROVE Preserved
    BY <2>1, UpdateKeeps, RemoveLineKeeps
  <2>2. ASSUME NEW o \in Obj \union {None}, BeginRotate(o) PROVE Preserved
    BY <2>2, BeginRotateKeeps
  <2>3. CASE Handle
    BY <2>3, EnsureFlightKeeps, FindObjectKeeps, KeepTrackKeeps, FlushBatchKeeps,
       DetectKeeps, StageKeeps, FlushTailKeeps, RotateKeeps DEF Handle
  <2>4. CASE FlushNow \/ BeginClose \/ Close
    BY <2>4, FlushNowKeeps, BeginCloseKeeps, CloseKeeps
  <2>5. CASE UNCHANGED vars
    <3>1. BatchTypes /\ LineTypes /\ CachedTogether /\ LineIsReady
      BY TypeParts DEF IInv
    <3> QED
      BY <2>5, <3>1, RowsUntouched
         DEF Preserved, Kept, BatchTypes, LineTypes, CachedTogether, LineIsReady
  <2> QED
    BY <2>1, <2>2, <2>3, <2>4, <2>5 DEF Next
<1>3. TypeOK'
  BY <1>1, <1>2 DEF Preserved, Kept, BatchTypes, LineTypes, TypeOK
<1> QED
  BY <1>2, <1>3 DEF Preserved, Kept, IInv

--------------------------------------------------------------------------------
(***************************************************************************)
(* Which steps keep the cached ids leading to rows                         *)
(***************************************************************************)

\* What a fault is to its counter.
LEMMA FaultsCount == IInv /\ Fault => faults' # faults
BY TypeParts DEF Fault, IInv, LineTypes

\* No row goes, and the ids and the batch are as they were, or forgotten.
LEMMA StaysClean ==
  ASSUME Clean,
         (flights \union addedFlights) \subseteq (flights \union addedFlights)',
         (objects \union addedObjects) \subseteq (objects \union addedObjects)',
         UNCHANGED cached \/ Forget,
         Batch' \subseteq Batch
  PROVE  Clean'
<1>1. \A r \in Batch' : HasFlight(r.flight)' /\ HasObject(r.object)'
  BY DEF Clean, Storable, HasFlight, HasObject
<1>2. /\ flightId' # None => HasFlight(flightId)'
      /\ \A o \in Obj : objectRowIds'[o] # None => HasObject(objectRowIds[o])'
  BY DEF Clean, HasFlight, HasObject, Forget
<1> QED
  BY <1>1, <1>2 DEF Clean, Storable

LEMMA StoreIsClean == ASSUME Clean, Store, UNCHANGED cached \/ Forget PROVE Clean'
<1>1. /\ pendingTracks' = {} /\ pendingRetained' = <<>>
      /\ flights' = flights \union addedFlights /\ objects' = objects \union addedObjects
      /\ addedFlights' = {} /\ addedObjects' = {}
  BY DEF Store, Apply, CloseSession
<1>2. ToSet(<<>>) = {}
  BY DEF ToSet
<1>3. Batch' = {}
  BY <1>1, <1>2 DEF Batch
<1> QED
  BY <1>1, <1>3, StaysClean

LEMMA FlushIsClean ==
  ASSUME IInv, Clean, NEW next, Flush(next), UNCHANGED cached, faults' = faults
  PROVE  Clean'
<1>1. CASE ~open /\ UNCHANGED <<batch, last, database, faults>>
  BY <1>1, StaysClean DEF Batch
<1>2. CASE Store
  BY <1>2, StoreIsClean
<1>3. CASE Refuse
  BY <1>3, FaultsCount DEF Refuse, Clean
<1> QED
  BY <1>1, <1>2, <1>3 DEF Flush, Flushed, FlushFails

LEMMA MayFlushIsClean ==
  ASSUME IInv, Clean, NEW next, MayFlush(next), UNCHANGED cached, faults' = faults
  PROVE  Clean'
<1>1. CASE UNCHANGED <<batch, last, database, lastFlight, history, faults>>
  BY <1>1, StaysClean DEF Batch
<1> QED
  BY <1>1, FlushIsClean DEF MayFlush

\* A row of a cached object leads to its parents.
LEMMA CachedRowIsClean ==
  ASSUME IInv, Clean, NEW o \in Obj, objectRowIds[o] # None, NEW n
  PROVE  HasFlight(RowOf(o, n).flight) /\ HasObject(RowOf(o, n).object)
BY DEF IInv, CachedTogether, Clean, RowOf

LEMMA StageIsClean ==
  ASSUME IInv, Clean, NEW o \in Obj, StageRow(o), UNCHANGED <<cached, database>>
  PROVE  Clean'
<1>1. PICK n \in Fresh :
        /\ objectRowIds[o] # None
        /\ pendingRetained' = Newest(Append(pendingRetained, RowOf(o, n)))
        /\ UNCHANGED <<added, pendingTracks>>
  BY DEF StageRow
<1> DEFINE row == RowOf(o, n)
<1>2. row \in TrackRow /\ pendingRetained \in Seq(TrackRow)
  BY <1>1, NoneAssumption
     DEF IInv, TypeOK, CachedTogether, RowOf, TrackRow, ObjectRow, Fresh
<1>3. HasFlight(row.flight) /\ HasObject(row.object)
  BY <1>1, CachedRowIsClean
<1> HIDE DEF row
<1>4. ToSet(pendingRetained') \subseteq ToSet(pendingRetained) \union {row}
  BY <1>1, <1>2, NewestProperties DEF row
<1>5. Batch' \subseteq Batch \union {row}
  BY <1>1, <1>4 DEF Batch
<1> QED
  BY <1>1, <1>3, <1>5 DEF Clean, Storable, HasFlight, HasObject

LEMMA MayStageIsClean ==
  ASSUME IInv, Clean, NEW S \in SUBSET Obj, MayStage(S), UNCHANGED <<cached, database>>
  PROVE  Clean'
<1>1. CASE UNCHANGED <<batch, history>>
  BY <1>1, StaysClean DEF Batch
<1> QED
  BY <1>1, StageIsClean DEF MayStage

--------------------------------------------------------------------------------
(***************************************************************************)
(* The theorems                                                            *)
(***************************************************************************)

\* What the ingestor knows of the rows it holds stays true, line after line,
\* whatever fails.
THEOREM Inductive == Spec => []IInv
BY InitInv, NextInv, PTL DEF Spec

\* Every variable keeps its type, and the queue of retained rows its bound.
THEOREM TypeCorrect == Spec => []TypeOK
<1>1. IInv => TypeOK
  BY DEF IInv
<1> QED
  BY <1>1, Inductive, PTL

\* No failing batch loses a retained row: it is stored or still queued
\* (_stage_rows, _discard_session), unless the cap gave it up.
THEOREM RetainedSurvive == Spec => []RetainedRowsSurvive
<1>1. IInv => RetainedRowsSurvive
  BY DEF IInv, RowsInv
<1> QED
  BY <1>1, Inductive, PTL

\* No row is written twice, but for those of a commit whose answer was lost.
THEOREM NeverTwice == Spec => []StoredOnce
<1>1. IInv => StoredOnce
  BY DEF IInv, RowsInv
<1> QED
  BY <1>1, Inductive, PTL

\* No sample is written to the object row of another mission (_rotate_session).
THEOREM OwnRows == Spec => []OwnMission
<1>1. IInv => OwnMission
  BY DEF IInv, RowsInv
<1> QED
  BY <1>1, Inductive, PTL

\* A batch that holds anything has a session to commit it.
THEOREM BatchIsOwned == Spec => []BatchHasSession
<1>1. IInv => BatchHasSession
  BY DEF IInv, RowsInv
<1> QED
  BY <1>1, Inductive, PTL

\* A close without a failure leaves nothing queued (close).
THEOREM NothingLeftBehind == Spec => CloseWrites
<1>1. IInv /\ [Next]_vars
        => [Close /\ Storable /\ UNCHANGED faults => pendingRetained' = <<>>]_vars
  <2> SUFFICES ASSUME IInv, Close, Storable, UNCHANGED faults PROVE pendingRetained' = <<>>
    OBVIOUS
  <2>1. CASE ~open /\ UNCHANGED <<batch, last, database, faults>>
    BY <2>1 DEF Close, At, IInv, LineIsReady
  <2>2. CASE Store
    BY <2>2 DEF Store
  <2>3. CASE Refuse
    <3>1. faults \in Nat /\ faults' = faults + 1
      BY <2>3, TypeParts DEF Refuse, Fault, IInv, LineTypes
    <3> QED
      BY <3>1
  <2> QED
    BY <2>1, <2>2, <2>3 DEF Close
<1> QED
  BY <1>1, Inductive, PTL DEF Spec, CloseWrites

\* Only a failing write or a cancelled line can leave a cached id without its row:
\* no order of updates, rotations, removals and flushes does.
THEOREM OnlyFailuresStain == Spec => CleanUntilFailure
<1>1. ASSUME IInv, [Next]_vars, Clean, faults' = faults PROVE Clean'
  <2>1. ASSUME NEW o \in Obj, Update(o) PROVE Clean'
    BY <1>1, <2>1, StaysClean DEF Update, Batch
  <2>2. ASSUME NEW o \in Obj, RemoveLine(o) PROVE Clean'
    BY <1>1, <2>2, StaysClean, FaultsCount DEF RemoveLine, Batch
  <2>3. ASSUME NEW o \in Obj \union {None}, BeginRotate(o) PROVE Clean'
    BY <1>1, <2>3, MayStageIsClean DEF BeginRotate, Obj
  <2>4. CASE EnsureFlight
    <3>1. CASE /\ flightId = None /\ lastFlight < MaxFlight
               /\ flightId' = lastFlight + 1
               /\ addedFlights' = addedFlights \union {lastFlight + 1}
               /\ UNCHANGED <<objectRowIds, addedObjects, pendingTracks, pendingRetained,
                              database>>
      BY <1>1, <3>1 DEF Clean, Storable, HasFlight, HasObject, Batch
    <3>2. CASE flightId # None /\ UNCHANGED <<cached, batch, database>>
      BY <1>1, <3>2, StaysClean DEF Batch
    <3> QED
      BY <1>1, <2>4, <3>1, <3>2, FaultsCount DEF EnsureFlight
  <2>5. CASE FindObject
    <3>1. CASE UNCHANGED <<cached, added, pendingTracks, pendingRetained, database>>
      BY <1>1, <3>1, StaysClean DEF Batch
    <3>2. CASE /\ addedObjects' = addedObjects \union {<<flightId, at.obj>>}
               /\ objectRowIds' = [objectRowIds EXCEPT ![at.obj] = <<flightId, at.obj>>]
               /\ UNCHANGED <<flightId, addedFlights, pendingTracks, pendingRetained, database>>
      <4>1. \A o \in Obj : objectRowIds'[o] \in {objectRowIds[o], <<flightId, at.obj>>}
        BY <1>1, <3>2, TypeParts DEF IInv, LineTypes
      <4> QED
        BY <1>1, <3>2, <4>1 DEF Clean, Storable, HasFlight, HasObject, Batch
    <3>3. CASE ~HasFlight(flightId)
      BY <1>1, <2>5, <3>3 DEF FindObject, At, IInv, LineIsReady, Clean
    <3> QED
      BY <1>1, <2>5, <3>1, <3>2, <3>3, FaultsCount DEF FindObject
  <2>6. CASE KeepTrack
    <3>1. CASE at.obj \in Vessel /\ MayStage({at.obj})
      BY <1>1, <2>6, <3>1, MayStageIsClean DEF KeepTrack, Obj
    <3>2. CASE /\ \E n \in Fresh :
                    pendingTracks' = pendingTracks \union {RowOf(at.obj, n)}
               /\ UNCHANGED <<open, added, pendingRetained, history>>
      <4>1. at.obj \in Obj /\ objectRowIds[at.obj] # None /\ UNCHANGED <<cached, database>>
        BY <1>1, <2>6 DEF IInv, LineIsReady, KeepTrack, At
      <4>2. PICK n \in Fresh : pendingTracks' = pendingTracks \union {RowOf(at.obj, n)}
        BY <3>2
      <4> DEFINE row == RowOf(at.obj, n)
      <4>3. HasFlight(row.flight) /\ HasObject(row.object)
        BY <1>1, <4>1, CachedRowIsClean
      <4> HIDE DEF row
      <4>4. Batch' = Batch \union {row}
        BY <3>2, <4>2 DEF Batch, row
      <4> QED
        BY <1>1, <3>2, <4>1, <4>3, <4>4 DEF Clean, Storable, HasFlight, HasObject
    <3> QED
      BY <2>6, <3>1, <3>2 DEF KeepTrack
  <2>7. CASE FlushBatch
    BY <1>1, <2>7, MayFlushIsClean DEF FlushBatch
  <2>8. CASE Detect
    <3>1. CASE UNCHANGED <<batch, database>>
      BY <1>1, <2>8, <3>1, StaysClean DEF Detect, Batch
    <3> QED
      BY <1>1, <2>8, <3>1, FlushIsClean DEF Detect
  <2>9. CASE Stage
    BY <1>1, <2>9, MayStageIsClean DEF Stage, Obj
  <2>10. CASE FlushTail
    BY <1>1, <2>10, MayFlushIsClean DEF FlushTail
  <2>11. CASE Rotate
    <3>1. CASE Forget /\ ~open /\ UNCHANGED <<batch, database>>
      BY <1>1, <3>1, StaysClean DEF Batch
    <3>2. CASE Forget /\ Store
      BY <1>1, <3>2, StoreIsClean
    <3>3. CASE FlushFails
      BY <1>1, <3>3, FaultsCount DEF FlushFails, Refuse, Clean
    <3> QED
      BY <2>11, <3>1, <3>2, <3>3 DEF Rotate, Flushed
  <2>12. CASE FlushNow
    BY <1>1, <2>12, FlushIsClean DEF FlushNow
  <2>13. CASE BeginClose
    <3>1. CASE UNCHANGED <<added, pending, pendingTracks, pendingRetained, history>>
      BY <1>1, <2>13, <3>1, StaysClean DEF BeginClose, Batch
    <3> QED
      BY <1>1, <2>13, <3>1, StageIsClean DEF BeginClose, Obj
  <2>14. CASE Close
    <3>1. CASE UNCHANGED <<batch, database>>
      BY <1>1, <2>14, <3>1, StaysClean DEF Close, Batch
    <3>2. CASE Store
      BY <1>1, <2>14, <3>2, StoreIsClean DEF Close
    <3>3. CASE Refuse
      BY <1>1, <3>3, FaultsCount DEF Refuse, Clean
    <3> QED
      BY <2>14, <3>1, <3>2, <3>3 DEF Close
  <2>15. CASE UNCHANGED vars
    BY <1>1, <2>15, StaysClean DEF Batch
  <2> QED
    BY <1>1, <2>1, <2>2, <2>3, <2>4, <2>5, <2>6, <2>7, <2>8, <2>9, <2>10, <2>11, <2>12,
       <2>13, <2>14, <2>15 DEF Next, Handle
<1>2. IInv /\ [Next]_vars => [Clean => Clean' \/ faults' # faults]_vars
  BY <1>1
<1> QED
  BY <1>2, Inductive, PTL DEF Spec, CleanUntilFailure

================================================================================

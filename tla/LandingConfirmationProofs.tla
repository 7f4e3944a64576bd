----------------------- MODULE LandingConfirmationProofs -----------------------
(***************************************************************************)
(* The safety of the two-phase confirmation, for any number of aircraft,   *)
(* contact times, missions, landings in a buffer and failures.             *)
(*                                                                         *)
(* One landing has one row because the key of every acknowledged row of    *)
(* the mission being ingested is still known to the ingestor, pending or   *)
(* reported (AckedIsKnown), so no pass stores that landing again; and a    *)
(* new mission gives its landings a new flight id, which no stored row     *)
(* can have yet (RowsOfPastFlights).  A row shows its own landing, or one  *)
(* of a later mission that came under a key a rotation had kept: as long   *)
(* as that key is pending no row is stored under it (OldKeyStandsAlone),   *)
(* and once confirmed it is reported (ShownSoFar).                         *)
(***************************************************************************)
EXTENDS LandingConfirmation, SequenceTheorems, TLAPS

\* No row belongs to a mission that has not begun.
RowsOfPastFlights ==
  \A r \in DOMAIN landings : landings[r].landing[1] <= flight

\* A key of this mission whose row id came back is pending or reported.
AckedIsKnown ==
  \A r \in DOMAIN landings :
    landings[r].acked /\ landings[r].landing[1] = flight
      => \/ provisionalIds[KeyOf(landings[r].landing)] # NoRow
         \/ KeyOf(landings[r].landing) \in reportedLandings

\* A key the ingestor knows is the key of a landing handed to the pipeline.
KnownIsHanded ==
  \A k \in Key :
    provisionalIds[k] # NoRow \/ k \in reportedLandings
      => \E f \in 1..flight : <<f, k[1], k[2]>> \in handed

\* The inductive invariant.
IInv ==
  /\ TypeOK
  /\ RowsOfPastFlights
  /\ AckedIsKnown
  /\ KnownIsHanded
  /\ OneRowPerLanding
  /\ PendingOrReported
  /\ PendingNamesItsRow

--------------------------------------------------------------------------------
\* Settling rows rewrites their status and nothing else.
LEMMA SettleRowsKeeps ==
  ASSUME landings \in Seq(Row), NEW S, SettleRows(S)
  PROVE  /\ landings' \in Seq(Row)
         /\ DOMAIN landings' = DOMAIN landings
         /\ \A r \in DOMAIN landings :
              /\ landings'[r].landing = landings[r].landing
              /\ landings'[r].written = landings[r].written
              /\ landings'[r].acked = landings[r].acked
<1>1. /\ Len(landings) \in Nat
      /\ DOMAIN landings = 1..Len(landings)
      /\ \A r \in DOMAIN landings : landings[r] \in Row
  OBVIOUS
<1>2. landings' = [r \in 1..Len(landings) |->
          IF r \in S THEN [landings[r] EXCEPT !.status = "final"] ELSE landings[r]]
  BY <1>1 DEF SettleRows
<1>3. \A r \in 1..Len(landings) :
        /\ landings'[r] \in Row
        /\ landings'[r].landing = landings[r].landing
        /\ landings'[r].written = landings[r].written
        /\ landings'[r].acked = landings[r].acked
  BY <1>1, <1>2 DEF Row
<1>4. landings' \in [1..Len(landings) -> Row]
  BY <1>2, <1>3
<1>5. landings' \in Seq(Row)
  BY <1>1, <1>4, SeqDef
<1> QED
  BY <1>1, <1>2, <1>3, <1>5

\* Appending a row adds its id and leaves the others alone.
LEMMA AppendRow ==
  ASSUME landings \in Seq(Row), NEW row \in Row, landings' = Append(landings, row)
  PROVE  /\ landings' \in Seq(Row)
         /\ DOMAIN landings' = DOMAIN landings \union {NewId}
         /\ NewId \in Nat
         /\ NewId \notin DOMAIN landings
         /\ landings'[NewId] = row
         /\ \A r \in DOMAIN landings : landings'[r] = landings[r]
BY AppendProperties, LenProperties DEF NewId

\* What a confirmation rewrites in one row: never whose row it is.
LEMMA RewriteRow ==
  ASSUME landings \in Seq(Row), NEW i \in DOMAIN landings, NEW l \in Landing,
         landings' = [landings EXCEPT ![i].written = l, ![i].status = "final"]
  PROVE  /\ landings' \in Seq(Row)
         /\ DOMAIN landings' = DOMAIN landings
         /\ \A r \in DOMAIN landings :
              /\ landings'[r].landing = landings[r].landing
              /\ landings'[r].written = (IF r = i THEN l ELSE landings[r].written)
              /\ landings'[r].acked = landings[r].acked
              /\ landings'[r].status = IF r = i THEN "final" ELSE landings[r].status
<1> DEFINE new == [landings[i] EXCEPT !.written = l, !.status = "final"]
<1>1. landings[i] \in Row /\ i \in 1..Len(landings)
  OBVIOUS
<1>2. /\ new \in Row /\ new.landing = landings[i].landing
      /\ new.written = l /\ new.acked = landings[i].acked /\ new.status = "final"
  BY <1>1 DEF Row
<1>3. landings' = [landings EXCEPT ![i] = new]
  OBVIOUS
<1> HIDE DEF new
<1>4. landings' \in Seq(Row)
  <2>1. [landings EXCEPT ![i] = new] \in Seq(Row)
    BY <1>1, <1>2, ExceptSeq
  <2> QED
    BY <2>1, <1>3
<1>5. DOMAIN landings' = DOMAIN landings
  BY <1>3
<1>6. \A r \in DOMAIN landings : landings'[r] = IF r = i THEN new ELSE landings[r]
  BY <1>3
<1> QED
  BY <1>2, <1>4, <1>5, <1>6

\* The landing an iteration of the loop is at.
LEMMA LoopFacts ==
  ASSUME TypeOK, NEW e \in Oldest
  PROVE  /\ pass # NoPass /\ pass \in Pass /\ pass.obj \in Aircraft
         /\ e \in Event /\ e \in pass.todo
         /\ KeyAt(e) \in Key /\ LandingAt(e) \in Landing
         /\ KeyOf(LandingAt(e)) = KeyAt(e)
         /\ LandingAt(e)[1] = flight
<1>1. pass # NoPass /\ pass \in Pass /\ e \in pass.todo
  BY DEF Oldest, TypeOK
<1>2. pass.obj \in Aircraft /\ e \in Event
  BY <1>1 DEF Pass
<1>3. e.first \in Time
  BY <1>2 DEF Event
<1>4. flight \in 1..MaxFlight
  BY DEF TypeOK
<1> QED
  BY <1>1, <1>2, <1>3, <1>4 DEF KeyAt, LandingAt, KeyOf, Key, Landing

LEMMA AdvanceType ==
  ASSUME TypeOK, NEW e \in Oldest, Advance(e)
  PROVE  pass' \in Pass \union {NoPass}
BY LoopFacts DEF Advance, Pass

\* What every stored row is.
LEMMA RowFacts ==
  ASSUME landings \in Seq(Row), NEW r \in DOMAIN landings
  PROVE  /\ landings[r] \in Row /\ landings[r].landing \in Landing
         /\ KeyOf(landings[r].landing) \in Key
         /\ landings[r].landing[1] \in 1..MaxFlight
<1>1. landings[r] \in Row
  OBVIOUS
<1>2. landings[r].landing \in Landing
  BY <1>1 DEF Row
<1> QED
  BY <1>1, <1>2 DEF Landing, KeyOf, Key

--------------------------------------------------------------------------------
LEMMA InitInv == Init => IInv
BY ConfirmationAssumption
   DEF Init, IInv, TypeOK, RowsOfPastFlights, AckedIsKnown, KnownIsHanded,
       OneRowPerLanding, PendingOrReported, PendingNamesItsRow, Key, Wow

\* A step that moves neither the mission, the keys nor the rows.
LEMMA FrameInv ==
  ASSUME IInv, TypeOK',
         UNCHANGED <<flight, provisionalIds, reportedLandings, landings, handed>>
  PROVE  IInv'
BY DEF IInv, RowsOfPastFlights, AckedIsKnown, KnownIsHanded, OneRowPerLanding,
       PendingOrReported, PendingNamesItsRow

LEMMA SettledType == ASSUME TypeOK, NEW o \in Aircraft PROVE Settled(o) \subseteq Aircraft
BY DEF TypeOK, Settled

LEMMA FaultType ==
  ASSUME TypeOK, Fault \/ UNCHANGED faults
  PROVE  faults' \in 0..MaxFaults
BY ConfirmationAssumption DEF TypeOK, Fault

LEMMA SampleInv == ASSUME IInv, NEW o \in Aircraft, Sample(o) PROVE IInv'
<1>1. /\ lastWow' \in [Aircraft -> Wow]
      /\ provisionalAircraft' \subseteq Aircraft
      /\ pass' \in Pass \union {NoPass}
      /\ faults' \in 0..MaxFaults
      /\ UNCHANGED <<flight, provisionalIds, reportedLandings, landings, handed>>
  <2>1. PICK wow \in Wow \ {"none"} : lastWow' = [lastWow EXCEPT ![o] = wow]
    BY DEF Sample
  <2>2. \A found \in Detections(FALSE) :
          [obj |-> o, todo |-> found, force |-> FALSE] \in Pass
    BY DEF Detections, Pass
  <2>3. Settled(o) \subseteq Aircraft
    BY SettledType DEF IInv
  <2>4. lastWow' \in [Aircraft -> Wow]
    BY <2>1 DEF IInv, TypeOK
  <2>5. pass' \in Pass \union {NoPass}
    BY <2>2 DEF Sample
  <2>6. provisionalAircraft' \subseteq Aircraft
    BY <2>3 DEF Sample, IInv, TypeOK
  <2>7. Fault \/ UNCHANGED faults
    BY DEF Sample
  <2> QED
    BY <2>4, <2>5, <2>6, <2>7, FaultType DEF Sample, IInv
<1>2. TypeOK'
  BY <1>1 DEF IInv, TypeOK
<1> QED
  BY <1>1, <1>2, FrameInv

LEMMA RemoveInv == ASSUME IInv, NEW o \in Aircraft, Remove(o) PROVE IInv'
<1>1. /\ provisionalAircraft' \subseteq Aircraft
      /\ pass' \in Pass \union {NoPass}
      /\ faults' \in 0..MaxFaults
      /\ UNCHANGED <<flight, lastWow, provisionalIds, reportedLandings, landings, handed>>
  <2>1. \A found \in Detections(TRUE) :
          [obj |-> o, todo |-> found, force |-> TRUE] \in Pass
    BY DEF Detections, Pass
  <2>2. Settled(o) \subseteq Aircraft
    BY SettledType DEF IInv
  <2>3. pass' \in Pass \union {NoPass}
    BY <2>1 DEF Remove
  <2>4. provisionalAircraft' \subseteq Aircraft
    BY <2>2 DEF Remove, IInv, TypeOK
  <2>5. Fault \/ UNCHANGED faults
    BY DEF Remove
  <2> QED
    BY <2>3, <2>4, <2>5, FaultType DEF Remove, IInv
<1>2. TypeOK'
  BY <1>1 DEF IInv, TypeOK
<1> QED
  BY <1>1, <1>2, FrameInv

LEMMA SkipInv ==
  ASSUME IInv, NEW e \in Oldest, SkipProvisional(e) \/ SkipReported(e)
  PROVE  IInv'
<1>1. Advance(e) /\ UNCHANGED <<flight, lastWow, provisionalIds, reportedLandings,
                                provisionalAircraft, landings, handed, faults>>
  BY DEF SkipProvisional, SkipReported
<1>2. TypeOK'
  BY <1>1, AdvanceType DEF IInv, TypeOK
<1> QED
  BY <1>1, <1>2, FrameInv

LEMMA FinishPassInv == ASSUME IInv, FinishPass PROVE IInv'
<1>1. Settled(pass.obj) \subseteq Aircraft
  BY SettledType DEF IInv, TypeOK, FinishPass, Pass
<1>2. TypeOK'
  BY <1>1 DEF FinishPass, IInv, TypeOK
<1> QED
  BY <1>2, FrameInv DEF FinishPass

--------------------------------------------------------------------------------
LEMMA NewRowType ==
  ASSUME TypeOK, NEW e \in Oldest, NEW st \in {"provisional", "final"}, NEW ack \in BOOLEAN
  PROVE  /\ NewRow(e, st, ack) \in Row
         /\ NewRow(e, st, ack).landing = LandingAt(e)
         /\ NewRow(e, st, ack).written = LandingAt(e)
         /\ NewRow(e, st, ack).acked = ack
BY LoopFacts DEF NewRow, Row

\* The landing at hand, when its key is not known yet, has no acknowledged row.
LEMMA UnknownIsNew ==
  ASSUME IInv, NEW e \in Oldest, ~Pending(e), ~Reported(e),
         NEW r \in DOMAIN landings, landings[r].landing = LandingAt(e)
  PROVE  ~landings[r].acked
BY LoopFacts DEF IInv, AckedIsKnown, Pending, Reported

\* Storing a row for the landing at hand, known from now on if acknowledged.
LEMMA StoreInv ==
  ASSUME IInv, TypeOK', NEW e \in Oldest, ~Pending(e), ~Reported(e),
         NEW st \in {"provisional", "final"}, NEW ack \in BOOLEAN,
         landings' = Append(landings, NewRow(e, st, ack)),
         flight' = flight,
         ack => provisionalIds'[KeyAt(e)] # NoRow \/ KeyAt(e) \in reportedLandings',
         \A k \in Key \ {KeyAt(e)} :
           /\ provisionalIds'[k] = provisionalIds[k]
           /\ k \in reportedLandings' <=> k \in reportedLandings,
         provisionalIds'[KeyAt(e)] \in {NoRow, NewId},
         ~(provisionalIds'[KeyAt(e)] # NoRow /\ KeyAt(e) \in reportedLandings'),
         handed' = handed \union {LandingAt(e)}
  PROVE  IInv'
<1> DEFINE row == NewRow(e, st, ack)
<1>1. row \in Row /\ row.landing = LandingAt(e) /\ row.acked = ack /\ row.written = row.landing
  BY NewRowType DEF IInv
<1>2. landings \in Seq(Row)
  BY DEF IInv, TypeOK
<1> HIDE DEF row
<1>3. landings' = Append(landings, row)
  BY DEF row
<1>4. /\ DOMAIN landings' = DOMAIN landings \union {NewId}
      /\ NewId \in Nat /\ NewId \notin DOMAIN landings
      /\ landings'[NewId] = row
      /\ \A r \in DOMAIN landings : landings'[r] = landings[r]
  BY <1>1, <1>2, <1>3, AppendRow
<1>5. /\ KeyAt(e) \in Key /\ LandingAt(e) \in Landing
      /\ KeyOf(LandingAt(e)) = KeyAt(e) /\ LandingAt(e)[1] = flight
  BY LoopFacts DEF IInv
<1>6. flight \in Nat
  BY DEF IInv, TypeOK
<1>7. \A r \in DOMAIN landings : KeyOf(landings[r].landing) \in Key
  BY RowFacts DEF IInv, TypeOK
<1>8. RowsOfPastFlights'
  BY <1>1, <1>4, <1>5, <1>6 DEF IInv, RowsOfPastFlights
<1>9. AckedIsKnown'
  <2> SUFFICES ASSUME NEW r \in DOMAIN landings',
                      landings'[r].acked, landings'[r].landing[1] = flight
               PROVE  \/ provisionalIds'[KeyOf(landings'[r].landing)] # NoRow
                      \/ KeyOf(landings'[r].landing) \in reportedLandings'
    BY DEF AckedIsKnown
  <2>1. CASE r = NewId
    BY <2>1, <1>1, <1>4, <1>5
  <2>2. CASE r # NewId
    <3>1. r \in DOMAIN landings /\ landings'[r] = landings[r]
      BY <2>2, <1>4
    <3>2. \/ provisionalIds[KeyOf(landings[r].landing)] # NoRow
          \/ KeyOf(landings[r].landing) \in reportedLandings
      BY <3>1 DEF IInv, AckedIsKnown
    <3>3. KeyOf(landings[r].landing) # KeyAt(e)
      BY <3>2 DEF Pending, Reported
    <3> QED
      BY <3>1, <3>2, <3>3, <1>7
  <2> QED
    BY <2>1, <2>2
<1>10. KnownIsHanded'
  <2> SUFFICES ASSUME NEW k \in Key, provisionalIds'[k] # NoRow \/ k \in reportedLandings'
               PROVE  \E f \in 1..flight : <<f, k[1], k[2]>> \in handed'
    BY DEF KnownIsHanded
  <2>1. CASE k = KeyAt(e)
    <3>1. LandingAt(e) = <<flight, k[1], k[2]>>
      BY <2>1 DEF LandingAt, KeyAt
    <3>2. flight \in 1..flight
      BY DEF IInv, TypeOK
    <3> QED
      BY <3>1, <3>2
  <2>2. CASE k # KeyAt(e)
    BY <2>2 DEF IInv, KnownIsHanded
  <2> QED
    BY <2>1, <2>2
<1>11. OneRowPerLanding'
  <2> SUFFICES ASSUME NEW r \in DOMAIN landings', NEW s \in DOMAIN landings',
                      r # s, landings'[r].landing = landings'[s].landing
               PROVE  ~landings'[r].acked \/ ~landings'[s].acked
    BY DEF OneRowPerLanding
  <2>1. CASE r = NewId
    BY <2>1, <1>1, <1>4, UnknownIsNew
  <2>2. CASE s = NewId
    BY <2>2, <1>1, <1>4, UnknownIsNew
  <2>3. CASE r # NewId /\ s # NewId
    BY <2>3, <1>4 DEF IInv, OneRowPerLanding
  <2> QED
    BY <2>1, <2>2, <2>3
<1>12. PendingOrReported'
  BY DEF IInv, PendingOrReported
<1>13. PendingNamesItsRow'
  <2> SUFFICES ASSUME NEW k \in Key, provisionalIds'[k] # NoRow
               PROVE  /\ provisionalIds'[k] \in DOMAIN landings'
                      /\ KeyOf(landings'[provisionalIds'[k]].landing) = k
                      /\ landings'[provisionalIds'[k]].written = landings'[provisionalIds'[k]].landing
    BY DEF PendingNamesItsRow
  <2>1. CASE k = KeyAt(e)
    BY <2>1, <1>1, <1>4, <1>5
  <2>2. CASE k # KeyAt(e)
    BY <2>2, <1>4 DEF IInv, PendingNamesItsRow
  <2> QED
    BY <2>1, <2>2
<1> QED
  BY <1>8, <1>9, <1>10, <1>11, <1>12, <1>13 DEF IInv

\* The landing at hand is handed over, and its key may become known, in a step
\* that stores no row.
LEMMA HandedInv ==
  ASSUME IInv, TypeOK', NEW e \in Oldest,
         flight' = flight,
         handed' = handed \union {LandingAt(e)},
         DOMAIN landings' = DOMAIN landings,
         \A r \in DOMAIN landings :
           /\ landings'[r].landing = landings[r].landing
           /\ landings'[r].acked = landings[r].acked
           /\ \/ landings'[r].written = landings[r].written
              \/ KeyOf(landings[r].landing) = KeyAt(e) /\ provisionalIds'[KeyAt(e)] = NoRow,
         \A k \in Key \ {KeyAt(e)} : provisionalIds'[k] = provisionalIds[k],
         \/ UNCHANGED <<provisionalIds, reportedLandings>>
         \/ /\ provisionalIds'[KeyAt(e)] = NoRow
            /\ reportedLandings' = reportedLandings \union {KeyAt(e)}
  PROVE  IInv'
<1>1. KeyAt(e) \in Key /\ flight \in 1..flight
  BY LoopFacts DEF IInv, TypeOK
<1>2. LandingAt(e) = <<flight, KeyAt(e)[1], KeyAt(e)[2]>>
  BY DEF LandingAt, KeyAt
<1>3. \A r \in DOMAIN landings : KeyOf(landings[r].landing) \in Key
  BY RowFacts DEF IInv, TypeOK
<1>4. RowsOfPastFlights'
  BY DEF IInv, RowsOfPastFlights
<1>5. AckedIsKnown'
  BY <1>3 DEF IInv, AckedIsKnown
<1>6. KnownIsHanded'
  BY <1>1, <1>2 DEF IInv, KnownIsHanded
<1>7. OneRowPerLanding'
  BY DEF IInv, OneRowPerLanding
<1>8. PendingOrReported'
  BY DEF IInv, PendingOrReported
<1>9. PendingNamesItsRow'
  BY <1>1 DEF IInv, PendingNamesItsRow
<1> QED
  BY <1>4, <1>5, <1>6, <1>7, <1>8, <1>9 DEF IInv

LEMMA ReportProvisionalInv ==
  ASSUME IInv, NEW e \in Oldest, ReportProvisional(e)
  PROVE  IInv'
<1>1. /\ ~Pending(e) /\ ~Reported(e) /\ Advance(e)
      /\ handed' = handed \union {LandingAt(e)}
      /\ UNCHANGED <<flight, lastWow, reportedLandings>>
  BY DEF ReportProvisional
<1>2. /\ pass.obj \in Aircraft /\ KeyAt(e) \in Key /\ LandingAt(e) \in Landing
  BY LoopFacts DEF IInv
<1>3. Fault \/ UNCHANGED faults
  BY DEF ReportProvisional
<1>4. pass' \in Pass \union {NoPass} /\ faults' \in 0..MaxFaults /\ handed' \subseteq Landing
  BY <1>1, <1>2, <1>3, AdvanceType, FaultType DEF IInv, TypeOK
<1>5. landings \in Seq(Row) /\ NewId \in Nat
  BY LenProperties DEF IInv, TypeOK, NewId
<1>6. provisionalIds[KeyAt(e)] = NoRow /\ KeyAt(e) \notin reportedLandings
  BY <1>1 DEF Pending, Reported
<1>7. CASE /\ landings' = Append(landings, NewRow(e, "provisional", TRUE))
           /\ provisionalIds' = [provisionalIds EXCEPT ![KeyAt(e)] = NewId]
           /\ provisionalAircraft' = provisionalAircraft \union {pass.obj}
  <2>1. landings' \in Seq(Row)
    BY <1>5, <1>7, NewRowType, AppendProperties DEF IInv
  <2>2. /\ provisionalIds' \in [Key -> Nat \union {NoRow}]
        /\ provisionalIds'[KeyAt(e)] = NewId
        /\ \A k \in Key \ {KeyAt(e)} : provisionalIds'[k] = provisionalIds[k]
    BY <1>2, <1>5, <1>7 DEF IInv, TypeOK
  <2>3. TypeOK'
    BY <1>1, <1>2, <1>4, <1>7, <2>1, <2>2 DEF IInv, TypeOK
  <2>4. NewId # NoRow
    BY <1>5, ConfirmationAssumption
  <2> QED
    BY <1>1, <1>6, <1>7, <2>2, <2>3, <2>4, StoreInv
<1>8. CASE /\ landings' = Append(landings, NewRow(e, "provisional", FALSE))
           /\ UNCHANGED <<provisionalIds, provisionalAircraft>>
  <2>1. landings' \in Seq(Row)
    BY <1>5, <1>8, NewRowType, AppendProperties DEF IInv
  <2>2. TypeOK'
    BY <1>1, <1>4, <1>8, <2>1 DEF IInv, TypeOK
  <2> QED
    BY <1>1, <1>6, <1>8, <2>2, StoreInv
<1>9. CASE UNCHANGED <<landings, provisionalIds, provisionalAircraft>>
  <2>1. TypeOK'
    BY <1>1, <1>4, <1>9 DEF IInv, TypeOK
  <2> QED
    BY <1>1, <1>9, <2>1, HandedInv
<1> QED
  BY <1>7, <1>8, <1>9 DEF ReportProvisional

LEMMA ReportFinalInv ==
  ASSUME IInv, NEW e \in Oldest, ReportFinal(e)
  PROVE  IInv'
<1>1. /\ ~Pending(e) /\ ~Reported(e) /\ Advance(e)
      /\ handed' = handed \union {LandingAt(e)}
      /\ reportedLandings' = reportedLandings \union {KeyAt(e)}
      /\ UNCHANGED <<flight, lastWow, provisionalIds, provisionalAircraft>>
  BY DEF ReportFinal
<1>2. KeyAt(e) \in Key /\ LandingAt(e) \in Landing
  BY LoopFacts DEF IInv
<1>3. Fault \/ UNCHANGED faults
  BY DEF ReportFinal
<1>4. /\ pass' \in Pass \union {NoPass} /\ faults' \in 0..MaxFaults
      /\ handed' \subseteq Landing /\ reportedLandings' \subseteq Key
  BY <1>1, <1>2, <1>3, AdvanceType, FaultType DEF IInv, TypeOK
<1>5. landings \in Seq(Row)
  BY DEF IInv, TypeOK
<1>6. provisionalIds[KeyAt(e)] = NoRow
  BY <1>1 DEF Pending
<1>7. ASSUME NEW ack \in BOOLEAN, landings' = Append(landings, NewRow(e, "final", ack))
      PROVE  IInv'
  <2>1. landings' \in Seq(Row)
    BY <1>5, <1>7, NewRowType, AppendProperties DEF IInv
  <2>2. TypeOK'
    BY <1>1, <1>4, <2>1 DEF IInv, TypeOK
  <2> QED
    BY <1>1, <1>6, <1>7, <2>2, StoreInv
<1>8. CASE UNCHANGED landings
  <2>1. TypeOK'
    BY <1>1, <1>4, <1>8 DEF IInv, TypeOK
  <2> QED
    BY <1>1, <1>6, <1>8, <2>1, HandedInv
<1> QED
  BY <1>7, <1>8 DEF ReportFinal

LEMMA ConfirmPendingInv ==
  ASSUME IInv, NEW e \in Oldest, ConfirmPending(e)
  PROVE  IInv'
<1>1. /\ Pending(e) /\ Advance(e)
      /\ handed' = handed \union {LandingAt(e)}
      /\ reportedLandings' = reportedLandings \union {KeyAt(e)}
      /\ provisionalIds' = [provisionalIds EXCEPT ![KeyAt(e)] = NoRow]
      /\ UNCHANGED <<flight, lastWow, provisionalAircraft>>
  BY DEF ConfirmPending
<1>2. KeyAt(e) \in Key /\ LandingAt(e) \in Landing
  BY LoopFacts DEF IInv
<1>3. Fault \/ UNCHANGED faults
  BY DEF ConfirmPending
<1>4. /\ pass' \in Pass \union {NoPass} /\ faults' \in 0..MaxFaults
      /\ handed' \subseteq Landing /\ reportedLandings' \subseteq Key
      /\ provisionalIds' \in [Key -> Nat \union {NoRow}]
  BY <1>1, <1>2, <1>3, AdvanceType, FaultType DEF IInv, TypeOK
<1>5. /\ provisionalIds[KeyAt(e)] \in DOMAIN landings /\ landings \in Seq(Row)
  BY <1>1, <1>2 DEF IInv, TypeOK, PendingNamesItsRow, Pending
<1>6. /\ landings' \in Seq(Row) /\ DOMAIN landings' = DOMAIN landings
      /\ \A r \in DOMAIN landings :
           /\ landings'[r].landing = landings[r].landing
           /\ landings'[r].acked = landings[r].acked
           /\ landings'[r].written # landings[r].written => r = provisionalIds[KeyAt(e)]
  <2>1. CASE UNCHANGED landings
    BY <2>1, <1>5
  <2>2. CASE landings' = [landings EXCEPT
                            ![provisionalIds[KeyAt(e)]].written = LandingAt(e),
                            ![provisionalIds[KeyAt(e)]].status = "final"]
    BY <2>2, <1>2, <1>5, RewriteRow
  <2> QED
    BY <2>1, <2>2 DEF ConfirmPending
<1>7. TypeOK'
  BY <1>1, <1>4, <1>6 DEF IInv, TypeOK
<1>8. /\ provisionalIds'[KeyAt(e)] = NoRow
      /\ \A k \in Key \ {KeyAt(e)} : provisionalIds'[k] = provisionalIds[k]
  BY <1>1, <1>2 DEF IInv, TypeOK
<1>9. \A r \in DOMAIN landings : landings'[r].written # landings[r].written
        => KeyOf(landings[r].landing) = KeyAt(e)
  BY <1>1, <1>2, <1>6 DEF IInv, PendingNamesItsRow, Pending
<1> QED
  BY <1>1, <1>6, <1>7, <1>8, <1>9, HandedInv

--------------------------------------------------------------------------------
\* A new mission begins: every stored row belongs to an earlier one.
LEMMA NewMissionInv ==
  ASSUME IInv, TypeOK', flight' = flight + 1, handed' = handed,
         DOMAIN landings' = DOMAIN landings,
         \A r \in DOMAIN landings :
           /\ landings'[r].landing = landings[r].landing
           /\ landings'[r].written = landings[r].written
           /\ landings'[r].acked = landings[r].acked,
         \/ UNCHANGED <<provisionalIds, reportedLandings>>
         \/ /\ provisionalIds' = [k \in Key |-> NoRow]
            /\ reportedLandings' = {}
  PROVE  IInv'
<1>1. flight \in Nat /\ 1..flight \subseteq 1..flight'
  BY DEF IInv, TypeOK
<1>2. \A r \in DOMAIN landings : landings[r].landing[1] \in Int
  BY RowFacts DEF IInv, TypeOK
<1>3. \A r \in DOMAIN landings : landings[r].landing[1] <= flight
  BY DEF IInv, RowsOfPastFlights
<1>4. RowsOfPastFlights' /\ AckedIsKnown'
  BY <1>1, <1>2, <1>3 DEF RowsOfPastFlights, AckedIsKnown
<1>5. KnownIsHanded'
  BY <1>1 DEF IInv, KnownIsHanded
<1>6. OneRowPerLanding'
  BY DEF IInv, OneRowPerLanding
<1>7. PendingOrReported'
  BY DEF IInv, PendingOrReported
<1>8. PendingNamesItsRow'
  BY DEF IInv, PendingNamesItsRow
<1> QED
  BY <1>4, <1>5, <1>6, <1>7, <1>8 DEF IInv

LEMMA RotateInv == ASSUME IInv, Rotate PROVE IInv'
<1>1. flight' = flight + 1 /\ flight' \in 1..MaxFlight
  BY ConfirmationAssumption DEF Rotate, IInv, TypeOK
<1>2. lastWow' \in [Aircraft -> Wow]
  BY DEF Rotate, Wow
<1>3. TypeOK'
  BY <1>1, <1>2 DEF Rotate, IInv, TypeOK
<1> QED
  BY <1>1, <1>3, NewMissionInv DEF Rotate

LEMMA RestartInv == ASSUME IInv, Restart PROVE IInv'
<1>1. flight' = flight + 1 /\ flight' \in 1..MaxFlight
  BY ConfirmationAssumption DEF Restart, IInv, TypeOK
<1>2. lastWow' \in [Aircraft -> Wow]
  BY DEF Restart, Wow
<1>3. /\ landings' \in Seq(Row) /\ DOMAIN landings' = DOMAIN landings
      /\ \A r \in DOMAIN landings :
           /\ landings'[r].landing = landings[r].landing
           /\ landings'[r].written = landings[r].written
           /\ landings'[r].acked = landings[r].acked
  BY SettleRowsKeeps DEF Restart, IInv, TypeOK
<1>4. TypeOK'
  BY <1>1, <1>2, <1>3 DEF Restart, IInv, TypeOK
<1> QED
  BY <1>1, <1>3, <1>4, NewMissionInv DEF Restart

LEMMA ReapInv == ASSUME IInv, Reap PROVE IInv'
<1>1. PICK n \in DOMAIN landings : SettleRows(Provisional(n))
  BY DEF Reap
<1>2. /\ landings' \in Seq(Row) /\ DOMAIN landings' = DOMAIN landings
      /\ \A r \in DOMAIN landings :
           /\ landings'[r].landing = landings[r].landing
           /\ landings'[r].written = landings[r].written
           /\ landings'[r].acked = landings[r].acked
  BY <1>1, SettleRowsKeeps DEF IInv, TypeOK
<1>3. UNCHANGED <<flight, memory, handed, faults>>
  BY DEF Reap
<1>4. TypeOK'
  BY <1>2, <1>3 DEF IInv, TypeOK, memory
<1>5. \A r \in DOMAIN landings : KeyOf(landings[r].landing) \in Key
  BY RowFacts DEF IInv, TypeOK
<1>6. /\ RowsOfPastFlights' /\ AckedIsKnown' /\ KnownIsHanded'
  BY <1>2, <1>3, <1>5 DEF IInv, RowsOfPastFlights, AckedIsKnown, KnownIsHanded, memory
<1>7. OneRowPerLanding' /\ PendingOrReported' /\ PendingNamesItsRow'
  BY <1>2, <1>3 DEF IInv, OneRowPerLanding, PendingOrReported, PendingNamesItsRow, memory
<1> QED
  BY <1>4, <1>6, <1>7 DEF IInv

LEMMA NextInv == ASSUME IInv, [Next]_vars PROVE IInv'
<1>1. CASE Next
  <2>1. CASE \E o \in Aircraft : Sample(o) \/ Remove(o)
    BY <2>1, SampleInv, RemoveInv
  <2>2. CASE \E e \in Oldest : SkipProvisional(e) \/ SkipReported(e)
    BY <2>2, SkipInv
  <2>3. CASE \E e \in Oldest : ReportProvisional(e)
    BY <2>3, ReportProvisionalInv
  <2>4. CASE \E e \in Oldest : ConfirmPending(e)
    BY <2>4, ConfirmPendingInv
  <2>5. CASE \E e \in Oldest : ReportFinal(e)
    BY <2>5, ReportFinalInv
  <2>6. CASE FinishPass
    BY <2>6, FinishPassInv
  <2>7. CASE Rotate
    BY <2>7, RotateInv
  <2>8. CASE Reap
    BY <2>8, ReapInv
  <2>9. CASE Restart
    BY <2>9, RestartInv
  <2> QED
    BY <1>1, <2>1, <2>2, <2>3, <2>4, <2>5, <2>6, <2>7, <2>8, <2>9 DEF Next
<1>2. CASE UNCHANGED vars
  <2>1. TypeOK'
    BY <1>2 DEF vars, memory, IInv, TypeOK
  <2> QED
    BY <1>2, <2>1, FrameInv DEF vars, memory
<1> QED
  BY <1>1, <1>2

--------------------------------------------------------------------------------
\* The invariant holds in every reachable state.
THEOREM Inductive == Spec => []IInv
<1>1. Init => IInv
  BY InitInv
<1>2. IInv /\ [Next]_vars => IInv'
  BY NextInv
<1> QED
  BY <1>1, <1>2, PTL DEF Spec

\* Every variable keeps its type (_provisional_ids, _reported_landings,
\* _provisional_aircraft and the rows they lead to).
THEOREM TypeCorrect == Spec => []TypeOK
<1>1. IInv => TypeOK
  BY DEF IInv
<1> QED
  BY <1>1, Inductive, PTL

\* No landing is stored twice while its row id comes back to the ingestor
\* (_maybe_detect_landing: the key on the first ground contact).
THEOREM OneRow == Spec => []OneRowPerLanding
<1>1. IInv => OneRowPerLanding
  BY DEF IInv
<1> QED
  BY <1>1, Inductive, PTL

\* A key is pending or reported, never both (_maybe_detect_landing).
THEOREM NeverPendingAndReported == Spec => []PendingOrReported
<1>1. IInv => PendingOrReported
  BY DEF IInv
<1> QED
  BY <1>1, Inductive, PTL

--------------------------------------------------------------------------------
(***************************************************************************)
(* The landing a row shows                                                 *)
(***************************************************************************)

\* No row shows a landing of a mission that is yet to come, and a foreign one of
\* this mission is known to be reported.
ShownSoFar ==
  \A r \in DOMAIN landings :
    /\ landings[r].written[1] <= flight
    /\ Foreign(r) /\ landings[r].written[1] = flight
         => KeyOf(landings[r].written) \in reportedLandings

\* A key that still leads to a row of an earlier mission has kept this mission's
\* landing of that name out of the table.
OldKeyStandsAlone ==
  \A k \in Key :
    provisionalIds[k] # NoRow /\ landings[provisionalIds[k]].landing[1] < flight
      => \A s \in DOMAIN landings : landings[s].landing # <<flight, k[1], k[2]>>

ShownInv == ForeignFollows /\ ShownOnce /\ ShownSoFar /\ OldKeyStandsAlone

\* What a row shows is a landing.
LEMMA ShownFacts ==
  ASSUME landings \in Seq(Row), NEW r \in DOMAIN landings
  PROVE  /\ landings[r].written \in Landing /\ landings[r].written[1] \in Int
         /\ landings[r].landing = <<landings[r].landing[1], KeyOf(landings[r].landing)[1],
                                   KeyOf(landings[r].landing)[2]>>
         /\ landings[r].written = <<landings[r].written[1], KeyOf(landings[r].written)[1],
                                   KeyOf(landings[r].written)[2]>>
<1>1. landings[r] \in Row
  OBVIOUS
<1>2. landings[r].written \in Landing /\ landings[r].landing \in Landing
  BY <1>1 DEF Row
<1> QED
  BY <1>2 DEF Landing, KeyOf

\* A step that writes into no row.
LEMMA ShownFrame ==
  ASSUME IInv, ShownInv, flight' \in {flight, flight + 1},
         DOMAIN landings' = DOMAIN landings,
         \A r \in DOMAIN landings :
           /\ landings'[r].landing = landings[r].landing
           /\ landings'[r].written = landings[r].written
           /\ landings'[r].acked = landings[r].acked,
         \A k \in Key : provisionalIds'[k] \in {provisionalIds[k], NoRow},
         flight' = flight => reportedLandings \subseteq reportedLandings'
  PROVE  ShownInv'
<1>1. landings \in Seq(Row) /\ flight \in Nat
  BY DEF IInv, TypeOK
<1>2. \A r \in DOMAIN landings : Foreign(r)' <=> Foreign(r)
  BY DEF Foreign
<1>3. \A r \in DOMAIN landings :
        /\ landings[r].written[1] \in Int /\ landings[r].written[1] <= flight
        /\ landings[r].landing[1] \in Int /\ landings[r].landing[1] <= flight
  BY <1>1, ShownFacts, RowFacts DEF ShownInv, ShownSoFar, IInv, RowsOfPastFlights
<1>4. ForeignFollows'
  BY <1>2 DEF ForeignFollows, ShownInv
<1>5. ShownOnce'
  BY DEF ShownOnce, ShownInv
<1>6. ShownSoFar'
  BY <1>1, <1>2, <1>3 DEF ShownSoFar, ShownInv
<1>7. OldKeyStandsAlone'
  <2> SUFFICES ASSUME NEW k \in Key, provisionalIds'[k] # NoRow,
                      landings'[provisionalIds'[k]].landing[1] < flight',
                      NEW s \in DOMAIN landings,
                      landings[s].landing = <<flight', k[1], k[2]>>
               PROVE  FALSE
    BY DEF OldKeyStandsAlone
  <2>1. flight' = flight
    BY <1>1, <1>3
  <2>2. provisionalIds'[k] = provisionalIds[k] /\ provisionalIds[k] \in DOMAIN landings
    BY DEF IInv, PendingNamesItsRow
  <2> QED
    BY <2>1, <2>2 DEF OldKeyStandsAlone, ShownInv
<1> QED
  BY <1>4, <1>5, <1>6, <1>7 DEF ShownInv

\* A new row shows the landing at hand, which no acknowledged row shows.
LEMMA ShownStore ==
  ASSUME IInv, ShownInv, NEW e \in Oldest, ~Pending(e), ~Reported(e),
         NEW st \in {"provisional", "final"}, NEW ack \in BOOLEAN,
         landings' = Append(landings, NewRow(e, st, ack)),
         flight' = flight, reportedLandings \subseteq reportedLandings',
         provisionalIds'[KeyAt(e)] \in {NoRow, NewId},
         \A k \in Key \ {KeyAt(e)} : provisionalIds'[k] = provisionalIds[k]
  PROVE  ShownInv'
<1> DEFINE row == NewRow(e, st, ack)
<1>1. row \in Row /\ row.landing = LandingAt(e) /\ row.written = LandingAt(e)
  BY NewRowType DEF IInv
<1>2. landings \in Seq(Row) /\ flight \in Nat
  BY DEF IInv, TypeOK
<1> HIDE DEF row
<1>3. landings' = Append(landings, row)
  BY DEF row
<1>4. /\ DOMAIN landings' = DOMAIN landings \union {NewId}
      /\ NewId \notin DOMAIN landings
      /\ landings'[NewId] = row
      /\ \A r \in DOMAIN landings : landings'[r] = landings[r]
  BY <1>1, <1>2, <1>3, AppendRow
<1>5. /\ KeyAt(e) \in Key /\ KeyOf(LandingAt(e)) = KeyAt(e) /\ LandingAt(e)[1] = flight
      /\ KeyAt(e) \notin reportedLandings /\ provisionalIds[KeyAt(e)] = NoRow
  BY LoopFacts DEF IInv, Pending, Reported
<1>6. \A r \in DOMAIN landings' : Foreign(r)' <=> r \in DOMAIN landings /\ Foreign(r)
  BY <1>1, <1>4 DEF Foreign
<1>7. \A r \in DOMAIN landings : Foreign(r) => landings[r].written # LandingAt(e)
  BY <1>5 DEF ShownInv, ShownSoFar
<1>8. ForeignFollows'
  BY <1>1, <1>4, <1>6, <1>7 DEF ForeignFollows, ShownInv
<1>9. \A r \in DOMAIN landings : landings[r].written = LandingAt(e) => ~landings[r].acked
  BY <1>7, UnknownIsNew DEF Foreign
<1>10. ShownOnce'
  <2> SUFFICES ASSUME NEW r \in DOMAIN landings', NEW s \in DOMAIN landings',
                      r # s, landings'[r].written = landings'[s].written
               PROVE  ~landings'[r].acked \/ ~landings'[s].acked
    BY DEF ShownOnce
  <2>1. CASE r = NewId \/ s = NewId
    BY <2>1, <1>1, <1>4, <1>9
  <2>2. CASE r # NewId /\ s # NewId
    BY <2>2, <1>4 DEF ShownInv, ShownOnce
  <2> QED
    BY <2>1, <2>2
<1>11. ShownSoFar'
  BY <1>1, <1>2, <1>4, <1>5, <1>6 DEF ShownSoFar, ShownInv
<1>12. OldKeyStandsAlone'
  <2> SUFFICES ASSUME NEW k \in Key, provisionalIds'[k] # NoRow,
                      landings'[provisionalIds'[k]].landing[1] < flight,
                      NEW s \in DOMAIN landings', landings'[s].landing = <<flight, k[1], k[2]>>
               PROVE  FALSE
    BY DEF OldKeyStandsAlone
  <2>1. k # KeyAt(e)
    BY <1>1, <1>2, <1>4, <1>5
  <2>2. provisionalIds'[k] = provisionalIds[k] /\ provisionalIds[k] \in DOMAIN landings
    BY <2>1 DEF IInv, PendingNamesItsRow
  <2>3. k = <<k[1], k[2]>>
    BY DEF Key
  <2>4. s # NewId
    <3>1. <<flight, k[1], k[2]>> # LandingAt(e)
      BY <2>1, <2>3 DEF LandingAt, KeyAt
    <3> QED
      BY <3>1, <1>1, <1>4
  <2> QED
    BY <2>2, <2>4, <1>4 DEF OldKeyStandsAlone, ShownInv
<1> QED
  BY <1>8, <1>10, <1>11, <1>12 DEF ShownInv

\* A confirmation shows the landing at hand in the row its key leads to.
LEMMA ShownConfirm ==
  ASSUME IInv, ShownInv, NEW e \in Oldest, ConfirmPending(e),
         landings' = [landings EXCEPT ![provisionalIds[KeyAt(e)]].written = LandingAt(e),
                                      ![provisionalIds[KeyAt(e)]].status = "final"]
  PROVE  ShownInv'
<1> DEFINE i == provisionalIds[KeyAt(e)]
<1>1. /\ KeyAt(e) \in Key /\ LandingAt(e) \in Landing /\ i \in DOMAIN landings
      /\ KeyOf(LandingAt(e)) = KeyAt(e) /\ LandingAt(e)[1] = flight
      /\ KeyOf(landings[i].landing) = KeyAt(e) /\ i # NoRow
      /\ LandingAt(e) = <<flight, KeyAt(e)[1], KeyAt(e)[2]>>
  BY LoopFacts DEF ConfirmPending, Pending, IInv, PendingNamesItsRow, LandingAt, KeyAt
<1>2. landings \in Seq(Row) /\ flight \in Nat
  BY DEF IInv, TypeOK
<1>3. /\ DOMAIN landings' = DOMAIN landings
      /\ \A r \in DOMAIN landings :
           /\ landings'[r].landing = landings[r].landing
           /\ landings'[r].acked = landings[r].acked
           /\ landings'[r].written = IF r = i THEN LandingAt(e) ELSE landings[r].written
  BY <1>1, <1>2, RewriteRow
<1>4. /\ flight' = flight
      /\ reportedLandings' = reportedLandings \union {KeyAt(e)}
      /\ provisionalIds'[KeyAt(e)] = NoRow
      /\ \A k \in Key \ {KeyAt(e)} : provisionalIds'[k] = provisionalIds[k]
      /\ KeyAt(e) \notin reportedLandings
  BY <1>1 DEF ConfirmPending, IInv, TypeOK, PendingOrReported
<1> HIDE DEF i
<1>5. /\ landings[i].landing[1] \in Int /\ landings[i].landing[1] <= flight
      /\ landings[i].landing = <<landings[i].landing[1], KeyAt(e)[1], KeyAt(e)[2]>>
  BY <1>1, <1>2, RowFacts, ShownFacts DEF IInv, RowsOfPastFlights
<1>6. \A r \in DOMAIN landings \ {i} : Foreign(r)' <=> Foreign(r)
  BY <1>3 DEF Foreign
<1>7. CASE landings[i].landing[1] = flight
  <2>1. landings[i].landing = LandingAt(e)
    BY <1>1, <1>5, <1>7
  <2>2. \A r \in DOMAIN landings : Foreign(r)' => r # i /\ Foreign(r)
    BY <1>1, <1>3, <1>6, <2>1 DEF Foreign
  <2>3. landings[i].written = LandingAt(e)
    BY <1>1, <2>1 DEF IInv, PendingNamesItsRow, i
  <2>4. ForeignFollows'
    BY <1>3, <2>2 DEF ForeignFollows, ShownInv
  <2>5. ShownOnce'
    BY <1>3, <2>3 DEF ShownOnce, ShownInv
  <2>6. ShownSoFar'
    BY <1>1, <1>2, <1>3, <1>4, <2>2 DEF ShownSoFar, ShownInv
  <2>7. OldKeyStandsAlone'
    BY <1>3, <1>4 DEF OldKeyStandsAlone, ShownInv, IInv, PendingNamesItsRow
  <2> QED
    BY <2>4, <2>5, <2>6, <2>7 DEF ShownInv
<1>8. CASE landings[i].landing[1] # flight
  <2>1. landings[i].landing[1] < flight
    BY <1>2, <1>5, <1>8
  <2>2. \A s \in DOMAIN landings : landings[s].landing # LandingAt(e)
    BY <1>1, <2>1 DEF OldKeyStandsAlone, ShownInv, i
  <2>3. \A s \in DOMAIN landings : landings[s].written # LandingAt(e)
    BY <1>1, <1>4, <2>2 DEF ShownInv, ShownSoFar, Foreign
  <2>4. ForeignFollows'
    <3> SUFFICES ASSUME NEW r \in DOMAIN landings, Foreign(r)'
                 PROVE  /\ KeyOf(landings'[r].written) = KeyOf(landings'[r].landing)
                        /\ landings'[r].landing[1] < landings'[r].written[1]
                        /\ \A s \in DOMAIN landings : landings'[s].landing # landings'[r].written
      BY <1>3 DEF ForeignFollows
    <3>1. CASE r = i
      BY <3>1, <1>1, <1>3, <2>1, <2>2
    <3>2. CASE r # i
      BY <3>2, <1>3, <1>6 DEF ForeignFollows, ShownInv
    <3> QED
      BY <3>1, <3>2
  <2>5. ShownOnce'
    BY <1>3, <2>3 DEF ShownOnce, ShownInv
  <2>6. ShownSoFar'
    <3> SUFFICES ASSUME NEW r \in DOMAIN landings
                 PROVE  /\ landings'[r].written[1] <= flight
                        /\ Foreign(r)' /\ landings'[r].written[1] = flight
                             => KeyOf(landings'[r].written) \in reportedLandings'
      BY <1>3, <1>4 DEF ShownSoFar
    <3>1. CASE r = i
      BY <3>1, <1>1, <1>2, <1>3, <1>4
    <3>2. CASE r # i
      BY <3>2, <1>3, <1>4, <1>6 DEF ShownSoFar, ShownInv
    <3> QED
      BY <3>1, <3>2
  <2>7. OldKeyStandsAlone'
    BY <1>3, <1>4 DEF OldKeyStandsAlone, ShownInv, IInv, PendingNamesItsRow
  <2> QED
    BY <2>4, <2>5, <2>6, <2>7 DEF ShownInv
<1> QED
  BY <1>7, <1>8

LEMMA ShownKept == ASSUME IInv, ShownInv, [Next]_vars PROVE ShownInv'
<1>0. landings \in Seq(Row) /\ provisionalIds \in [Key -> Nat \union {NoRow}]
  BY DEF IInv, TypeOK
<1>1. ASSUME UNCHANGED <<flight, provisionalIds, reportedLandings, landings>> PROVE ShownInv'
  BY <1>1, ShownFrame
<1>2. ASSUME NEW e \in Oldest, ReportProvisional(e) PROVE ShownInv'
  <2>1. /\ ~Pending(e) /\ ~Reported(e) /\ KeyAt(e) \in Key
        /\ UNCHANGED <<flight, reportedLandings>>
        /\ provisionalIds[KeyAt(e)] = NoRow
    BY <1>2, LoopFacts DEF ReportProvisional, Pending, IInv
  <2>2. CASE /\ landings' = Append(landings, NewRow(e, "provisional", TRUE))
             /\ provisionalIds' = [provisionalIds EXCEPT ![KeyAt(e)] = NewId]
    BY <2>1, <2>2, <1>0, ShownStore
  <2>3. CASE landings' = Append(landings, NewRow(e, "provisional", FALSE)) /\ UNCHANGED provisionalIds
    BY <2>1, <2>3, ShownStore
  <2>4. CASE UNCHANGED <<landings, provisionalIds>>
    BY <2>1, <2>4, <1>1
  <2> QED
    BY <1>2, <2>2, <2>3, <2>4 DEF ReportProvisional
<1>3. ASSUME NEW e \in Oldest, ReportFinal(e) PROVE ShownInv'
  <2>1. /\ ~Pending(e) /\ ~Reported(e) /\ provisionalIds[KeyAt(e)] = NoRow
        /\ UNCHANGED <<flight, provisionalIds>> /\ reportedLandings \subseteq reportedLandings'
    BY <1>3 DEF ReportFinal, Pending
  <2>2. ASSUME NEW ack \in BOOLEAN, landings' = Append(landings, NewRow(e, "final", ack))
        PROVE  ShownInv'
    BY <2>1, <2>2, ShownStore
  <2>3. CASE UNCHANGED landings
    BY <2>1, <2>3, ShownFrame
  <2> QED
    BY <1>3, <2>2, <2>3 DEF ReportFinal
<1>4. ASSUME NEW e \in Oldest, ConfirmPending(e) PROVE ShownInv'
  <2>1. CASE UNCHANGED landings
    <3>1. \A k \in Key : provisionalIds'[k] \in {provisionalIds[k], NoRow}
      BY <1>0, <1>4 DEF ConfirmPending
    <3> QED
      BY <1>4, <2>1, <3>1, ShownFrame DEF ConfirmPending
  <2> QED
    BY <1>4, <2>1, ShownConfirm DEF ConfirmPending
<1>5. CASE Reap
  <2>1. UNCHANGED <<flight, provisionalIds, reportedLandings>>
    BY <1>5 DEF Reap, memory
  <2> QED
    BY <1>0, <1>5, <2>1, SettleRowsKeeps, ShownFrame DEF Reap
<1>6. CASE Restart
  <2>1. flight' = flight + 1 /\ \A k \in Key : provisionalIds'[k] = NoRow
    BY <1>6 DEF Restart
  <2>2. flight' # flight
    BY <2>1 DEF IInv, TypeOK
  <2> QED
    BY <1>0, <1>6, <2>1, <2>2, SettleRowsKeeps, ShownFrame DEF Restart
<1>7. CASE Rotate
  BY <1>7, ShownFrame DEF Rotate
<1>8. CASE FinishPass \/ UNCHANGED vars
  BY <1>1, <1>8 DEF FinishPass, vars, memory
<1>9. ASSUME NEW o \in Aircraft, Sample(o) \/ Remove(o) PROVE ShownInv'
  BY <1>1, <1>9 DEF Sample, Remove
<1>10. ASSUME NEW e \in Oldest, SkipProvisional(e) \/ SkipReported(e) PROVE ShownInv'
  BY <1>1, <1>10 DEF SkipProvisional, SkipReported
<1> QED
  BY <1>2, <1>3, <1>4, <1>5, <1>6, <1>7, <1>8, <1>9, <1>10 DEF Next

\* A pending key leads to a row of its own aircraft and contact time whose
\* outcome is still open; a row shows the landing it was stored for, or, under
\* a key that a rotation kept, one of a later mission that has no other row
\* (_provisional_ids, whatever rotations, reaps and failures came in between).
THEOREM ConfirmedRows == Spec => []ConfirmsItsRow
<1>1. Init => ShownInv
  BY DEF Init, ShownInv, ForeignFollows, ShownOnce, ShownSoFar, OldKeyStandsAlone
<1>2. IInv /\ ShownInv /\ [Next]_vars => ShownInv'
  BY ShownKept
<1>3. IInv /\ ShownInv => ConfirmsItsRow
  BY DEF IInv, ShownInv, ConfirmsItsRow
<1> QED
  BY <1>1, <1>2, <1>3, Inductive, PTL DEF Spec


\* The pass moves on from e only in a step that deals with e.
LEMMA AdvanceIsHandled ==
  ASSUME IInv, Next, NEW e \in Oldest, Advance(e)
  PROVE  \/ SkipProvisional(e) \/ ReportProvisional(e) \/ ConfirmPending(e)
         \/ SkipReported(e) \/ ReportFinal(e)
<1>1. pass # NoPass /\ pass \in Pass /\ e \in pass.todo
  BY LoopFacts DEF IInv
<1>2. pass' = [obj |-> pass.obj, todo |-> pass.todo \ {e}, force |-> pass.force]
  BY <1>1 DEF Advance, Pass
<1>3. pass' \in Pass /\ pass'.todo = pass.todo \ {e}
  BY <1>1, <1>2 DEF Pass
<1>4. pass' # NoPass /\ pass' # pass
  BY <1>1, <1>3, NoPassAssumption
<1>5. \A f \in Oldest : Advance(f) => f = e
  <2> SUFFICES ASSUME NEW f \in Oldest, Advance(f) PROVE f = e
    OBVIOUS
  <2>1. f \in pass.todo
    BY LoopFacts DEF IInv
  <2>2. pass' = [obj |-> pass.obj, todo |-> pass.todo \ {f}, force |-> pass.force]
    BY <1>1 DEF Advance, Pass
  <2> QED
    BY <1>1, <1>2, <2>1, <2>2
<1>6. ~(\E o \in Aircraft : Sample(o) \/ Remove(o)) /\ ~Rotate
  BY <1>1 DEF Sample, Remove, Rotate
<1>7. ~FinishPass /\ ~Reap /\ ~Restart
  BY <1>1, <1>4 DEF FinishPass, Reap, Restart, memory
<1>8. PICK f \in Oldest :
        \/ SkipProvisional(f) \/ ReportProvisional(f) \/ ConfirmPending(f)
        \/ SkipReported(f) \/ ReportFinal(f)
  BY <1>6, <1>7 DEF Next
<1>9. Advance(f)
  BY <1>8 DEF SkipProvisional, ReportProvisional, ConfirmPending, SkipReported, ReportFinal
<1> QED
  BY <1>5, <1>8, <1>9

\* No pass goes past a landing whose key was never handed to the pipeline
\* (_reported_landings and _provisional_ids suppress nothing else).
THEOREM OnlyKnownKeysSuppress == Spec => SuppressesOnlyKnownKeys
<1>1. ASSUME IInv, Next, NEW e \in Oldest, Advance(e)
      PROVE  \E f \in 1..flight : <<f, pass.obj, e.first>> \in handed'
  <2>1. KeyAt(e) \in Key /\ flight \in 1..flight
    BY <1>1, LoopFacts DEF IInv, TypeOK
  <2>2. CASE SkipProvisional(e) \/ SkipReported(e)
    <3>1. provisionalIds[KeyAt(e)] # NoRow \/ KeyAt(e) \in reportedLandings
      BY <2>2 DEF SkipProvisional, SkipReported, Pending, Reported
    <3>2. \E f \in 1..flight : <<f, KeyAt(e)[1], KeyAt(e)[2]>> \in handed
      BY <2>1, <3>1, <1>1 DEF IInv, KnownIsHanded
    <3>3. handed' = handed
      BY <2>2 DEF SkipProvisional, SkipReported
    <3> QED
      BY <3>2, <3>3 DEF KeyAt
  <2>3. CASE ReportProvisional(e) \/ ConfirmPending(e) \/ ReportFinal(e)
    <3>1. <<flight, pass.obj, e.first>> \in handed'
      BY <2>3 DEF ReportProvisional, ConfirmPending, ReportFinal, LandingAt
    <3> QED
      BY <2>1, <3>1
  <2> QED
    BY <1>1, <2>2, <2>3, AdvanceIsHandled
<1>2. IInv /\ [Next]_vars =>
        [\A e \in Oldest : Advance(e) =>
           \E f \in 1..flight : <<f, pass.obj, e.first>> \in handed']_vars
  BY <1>1
<1> QED
  BY <1>2, Inductive, PTL DEF Spec, SuppressesOnlyKnownKeys


-----------------------------------------------------------------------------
(* What becomes of a pending landing: it keeps its aircraft in the         *)
(* detection gate, a provisional row without a failure is always one that  *)
(* somebody waits to confirm, and the table as a whole implements          *)
(* LandingLifecycle.                                                       *)

\* The gate and the orphans need, of a row, its landing and its status: whose
\* rows leave them alone.
LEMMA GateFrame ==
  ASSUME IInv, PendingKeepsGateOpen,
         UNCHANGED <<flight, provisionalAircraft>>,
         DOMAIN landings \subseteq DOMAIN landings',
         \A r \in DOMAIN landings : landings'[r].landing = landings[r].landing,
         \A k \in Key : provisionalIds'[k] \in {NoRow, provisionalIds[k]}
  PROVE  PendingKeepsGateOpen'
BY DEF PendingKeepsGateOpen, IInv, PendingNamesItsRow

\* A pass over o that leaves the keys alone lets o out of the gate only when
\* none of its keys is pending.
LEMMA SettledKeepsGate ==
  ASSUME IInv, PendingKeepsGateOpen, NEW o \in Aircraft,
         provisionalAircraft' \in {provisionalAircraft, Settled(o)},
         UNCHANGED <<flight, provisionalIds, landings>>
  PROVE  PendingKeepsGateOpen'
<1> SUFFICES ASSUME NEW k \in Key, provisionalIds[k] # NoRow,
                    landings[provisionalIds[k]].landing[1] = flight
             PROVE  k[1] \in provisionalAircraft'
  BY DEF PendingKeepsGateOpen
<1>1. k[1] \in provisionalAircraft
  BY DEF PendingKeepsGateOpen
<1> QED
  BY <1>1 DEF Settled

LEMMA GateKept == ASSUME IInv, PendingKeepsGateOpen, [Next]_vars PROVE PendingKeepsGateOpen'
<1>1. ASSUME NEW o \in Aircraft, Sample(o) \/ Remove(o) PROVE PendingKeepsGateOpen'
  BY <1>1, SettledKeepsGate DEF Sample, Remove
<1>2. ASSUME NEW e \in Oldest,
             SkipProvisional(e) \/ SkipReported(e) \/ ConfirmPending(e) \/ ReportFinal(e)
      PROVE  PendingKeepsGateOpen'
  <2>1. KeyAt(e) \in Key /\ landings \in Seq(Row)
    BY LoopFacts DEF IInv, TypeOK
  <2>2. /\ UNCHANGED <<flight, provisionalAircraft>>
        /\ \A k \in Key : provisionalIds'[k] \in {NoRow, provisionalIds[k]}
    BY <1>2, <2>1 DEF SkipProvisional, SkipReported, ConfirmPending, ReportFinal, IInv, TypeOK
  <2>3. /\ DOMAIN landings \subseteq DOMAIN landings'
        /\ \A r \in DOMAIN landings : landings'[r].landing = landings[r].landing
    <3>1. CASE UNCHANGED landings
      BY <3>1
    <3>2. ASSUME NEW ack \in BOOLEAN, landings' = Append(landings, NewRow(e, "final", ack))
          PROVE  <2>3!1 /\ <2>3!2
      BY <3>2, <2>1, NewRowType, AppendRow DEF IInv
    <3>3. CASE ConfirmPending(e)
      <4>1. provisionalIds[KeyAt(e)] \in DOMAIN landings /\ LandingAt(e) \in Landing
        BY <3>3, <2>1, LoopFacts DEF IInv, PendingNamesItsRow, ConfirmPending, Pending
      <4> QED
        BY <3>3, <4>1, <2>1, <3>1, RewriteRow DEF ConfirmPending
    <3> QED
      BY <1>2, <3>1, <3>2, <3>3 DEF SkipProvisional, SkipReported, ReportFinal
  <2> QED
    BY <2>2, <2>3, GateFrame
<1>3. ASSUME NEW e \in Oldest, ReportProvisional(e) PROVE PendingKeepsGateOpen'
  <2>1. KeyAt(e) \in Key /\ landings \in Seq(Row) /\ KeyAt(e)[1] = pass.obj
    BY LoopFacts DEF IInv, TypeOK, KeyAt
  <2>2. ASSUME NEW ack \in BOOLEAN, landings' = Append(landings, NewRow(e, "provisional", ack))
        PROVE  /\ DOMAIN landings \subseteq DOMAIN landings'
               /\ \A r \in DOMAIN landings : landings'[r].landing = landings[r].landing
    BY <2>1, <2>2, NewRowType, AppendRow DEF IInv
  <2>3. CASE /\ landings' = Append(landings, NewRow(e, "provisional", TRUE))
             /\ provisionalIds' = [provisionalIds EXCEPT ![KeyAt(e)] = NewId]
             /\ provisionalAircraft' = provisionalAircraft \union {pass.obj}
    <3> SUFFICES ASSUME NEW k \in Key, provisionalIds'[k] # NoRow,
                        landings'[provisionalIds'[k]].landing[1] = flight
                 PROVE  k[1] \in provisionalAircraft'
      BY <1>3 DEF PendingKeepsGateOpen, ReportProvisional
    <3>1. CASE k = KeyAt(e)
      BY <3>1, <2>1, <2>3
    <3>2. CASE k # KeyAt(e)
      <4>1. provisionalIds'[k] = provisionalIds[k]
        BY <3>2, <2>1, <2>3 DEF IInv, TypeOK
      <4>2. provisionalIds[k] \in DOMAIN landings
        BY <4>1 DEF IInv, PendingNamesItsRow
      <4>3. landings[provisionalIds[k]].landing[1] = flight
        BY <4>1, <4>2, <2>2, <2>3
      <4> QED
        BY <4>1, <4>3, <2>3 DEF PendingKeepsGateOpen
    <3> QED
      BY <3>1, <3>2
  <2>4. CASE UNCHANGED <<provisionalIds, provisionalAircraft>>
    BY <1>3, <2>2, <2>4, GateFrame DEF ReportProvisional
  <2> QED
    BY <1>3, <2>3, <2>4 DEF ReportProvisional
<1>4. CASE FinishPass
  <2>1. pass.obj \in Aircraft
    BY <1>4 DEF FinishPass, IInv, TypeOK, Pass
  <2> QED
    BY <1>4, <2>1, SettledKeepsGate DEF FinishPass
<1>5. CASE Rotate
  <2>1. \A r \in DOMAIN landings : landings[r].landing[1] # flight + 1
    BY RowFacts DEF IInv, TypeOK, RowsOfPastFlights
  <2> QED
    BY <1>5, <2>1 DEF Rotate, PendingKeepsGateOpen, IInv, PendingNamesItsRow
<1>6. CASE Reap
  <2>1. /\ DOMAIN landings' = DOMAIN landings
        /\ \A r \in DOMAIN landings : landings'[r].landing = landings[r].landing
    BY <1>6, SettleRowsKeeps DEF Reap, IInv, TypeOK
  <2> QED
    BY <1>6, <2>1, GateFrame DEF Reap, memory
<1>7. CASE Restart
  BY <1>7 DEF Restart, PendingKeepsGateOpen
<1>8. CASE UNCHANGED vars
  BY <1>8, GateFrame DEF vars, memory
<1> QED
  BY <1>1, <1>2, <1>3, <1>4, <1>5, <1>6, <1>7, <1>8 DEF Next

--------------------------------------------------------------------------------
\* The rows and keys a step leaves as they were, and no row becomes provisional.
LEMMA OrphanFrame ==
  ASSUME IInv, NoOrphanWithoutFault, faults' = 0 => faults = 0,
         DOMAIN landings' = DOMAIN landings,
         \A r \in DOMAIN landings :
           /\ landings'[r].landing = landings[r].landing
           /\ landings'[r].status \in {"final", landings[r].status},
         UNCHANGED provisionalIds
  PROVE  NoOrphanWithoutFault'
BY DEF NoOrphanWithoutFault

\* Settling rows makes some of them final.
LEMMA SettleRowsSettles ==
  ASSUME landings \in Seq(Row), NEW S, SettleRows(S)
  PROVE  \A r \in DOMAIN landings :
           /\ landings'[r].status \in {"final", landings[r].status}
           /\ r \in S => landings'[r].status = "final"
<1>1. \A r \in DOMAIN landings : landings[r] \in Row
  OBVIOUS
<1> QED
  BY <1>1 DEF SettleRows, Row

LEMMA NoFaultBefore == ASSUME TypeOK, Fault \/ UNCHANGED faults PROVE faults' = 0 => UNCHANGED faults
BY DEF TypeOK, Fault

LEMMA NoOrphanKept == ASSUME IInv, NoOrphanWithoutFault, [Next]_vars PROVE NoOrphanWithoutFault'
<1> USE DEF IInv
<1>0. landings \in Seq(Row)
  BY DEF TypeOK
<1>1. ASSUME UNCHANGED <<landings, provisionalIds>>, Fault \/ UNCHANGED faults
      PROVE  NoOrphanWithoutFault'
  BY <1>1, NoFaultBefore DEF NoOrphanWithoutFault
<1>2. ASSUME NEW o \in Aircraft, Sample(o) \/ Remove(o) PROVE NoOrphanWithoutFault'
  BY <1>1, <1>2 DEF Sample, Remove
<1>3. ASSUME NEW e \in Oldest, SkipProvisional(e) \/ SkipReported(e) PROVE NoOrphanWithoutFault'
  BY <1>1, <1>3 DEF SkipProvisional, SkipReported
<1>4. ASSUME NEW e \in Oldest, ReportProvisional(e) PROVE NoOrphanWithoutFault'
  <2>1. CASE /\ landings' = Append(landings, NewRow(e, "provisional", TRUE))
             /\ provisionalIds' = [provisionalIds EXCEPT ![KeyAt(e)] = NewId]
             /\ UNCHANGED faults
    <3> DEFINE row == NewRow(e, "provisional", TRUE)
    <3>1. row \in Row /\ row.landing = LandingAt(e) /\ KeyOf(LandingAt(e)) = KeyAt(e)
      BY NewRowType, LoopFacts
    <3> HIDE DEF row
    <3>2. /\ DOMAIN landings' = DOMAIN landings \union {NewId}
          /\ NewId \notin DOMAIN landings /\ landings'[NewId] = row
          /\ \A r \in DOMAIN landings : landings'[r] = landings[r]
      <4>1. landings' = Append(landings, row)
        BY <2>1 DEF row
      <4> QED
        BY <4>1, <3>1, <1>0, AppendRow
    <3>3. KeyAt(e) \in Key /\ provisionalIds[KeyAt(e)] = NoRow
      BY <1>4, LoopFacts DEF ReportProvisional, Pending
    <3>4. /\ provisionalIds'[KeyAt(e)] = NewId
          /\ \A k \in Key \ {KeyAt(e)} : provisionalIds'[k] = provisionalIds[k]
      BY <2>1, <3>3 DEF TypeOK
    <3> SUFFICES ASSUME faults = 0, NEW r \in DOMAIN landings', landings'[r].status = "provisional"
                 PROVE  provisionalIds'[KeyOf(landings'[r].landing)] = r
      BY <2>1 DEF NoOrphanWithoutFault
    <3>5. CASE r = NewId
      BY <3>5, <3>1, <3>2, <3>4
    <3>6. CASE r # NewId
      <4>1. r \in DOMAIN landings /\ landings'[r] = landings[r]
        BY <3>6, <3>2
      <4>2. provisionalIds[KeyOf(landings[r].landing)] = r
        BY <4>1 DEF NoOrphanWithoutFault
      <4>3. r \in Nat
        BY <4>1, <1>0
      <4>4. KeyOf(landings[r].landing) # KeyAt(e) /\ KeyOf(landings[r].landing) \in Key
        BY <4>1, <4>2, <4>3, <3>3, <1>0, RowFacts, ConfirmationAssumption
      <4> QED
        BY <4>1, <4>2, <4>4, <3>4
    <3> QED
      BY <3>5, <3>6
  <2>2. CASE Fault
    BY <2>2 DEF Fault, TypeOK, NoOrphanWithoutFault
  <2> QED
    BY <1>4, <2>1, <2>2 DEF ReportProvisional
<1>5. ASSUME NEW e \in Oldest, ReportFinal(e) PROVE NoOrphanWithoutFault'
  <2>1. CASE landings' = Append(landings, NewRow(e, "final", TRUE)) /\ UNCHANGED faults
    <3>1. NewRow(e, "final", TRUE) \in Row /\ NewRow(e, "final", TRUE).status = "final"
      BY NewRowType DEF NewRow
    <3>2. /\ DOMAIN landings' = DOMAIN landings \union {NewId}
          /\ landings'[NewId].status = "final"
          /\ \A r \in DOMAIN landings : landings'[r] = landings[r]
      BY <2>1, <3>1, <1>0, AppendRow
    <3> QED
      BY <1>5, <2>1, <3>2 DEF ReportFinal, NoOrphanWithoutFault
  <2>2. CASE Fault
    BY <2>2 DEF Fault, TypeOK, NoOrphanWithoutFault
  <2> QED
    BY <1>5, <2>1, <2>2 DEF ReportFinal
<1>6. ASSUME NEW e \in Oldest, ConfirmPending(e) PROVE NoOrphanWithoutFault'
  <2> DEFINE i == provisionalIds[KeyAt(e)]
  <2>1. /\ KeyAt(e) \in Key /\ i \in DOMAIN landings
    BY <1>6, LoopFacts DEF ConfirmPending, Pending, PendingNamesItsRow
  <2>2. CASE /\ landings' = [landings EXCEPT ![i].written = LandingAt(e), ![i].status = "final"]
             /\ UNCHANGED faults
    <3>1. /\ DOMAIN landings' = DOMAIN landings
          /\ \A r \in DOMAIN landings :
               /\ landings'[r].landing = landings[r].landing
               /\ landings'[r].status = IF r = i THEN "final" ELSE landings[r].status
      <4>1. LandingAt(e) \in Landing
        BY LoopFacts
      <4> QED
        BY <2>1, <2>2, <4>1, <1>0, RewriteRow
    <3>4. \A k \in Key \ {KeyAt(e)} : provisionalIds'[k] = provisionalIds[k]
      BY <1>6, <2>1 DEF ConfirmPending, TypeOK
    <3> SUFFICES ASSUME faults = 0, NEW r \in DOMAIN landings, landings'[r].status = "provisional"
                 PROVE  provisionalIds'[KeyOf(landings'[r].landing)] = r
      BY <2>2, <3>1 DEF NoOrphanWithoutFault
    <3>5. r # i /\ landings[r].status = "provisional" /\ landings'[r].landing = landings[r].landing
      BY <3>1
    <3>6. provisionalIds[KeyOf(landings[r].landing)] = r
      BY <3>5 DEF NoOrphanWithoutFault
    <3>7. KeyOf(landings[r].landing) \in Key /\ KeyOf(landings[r].landing) # KeyAt(e)
      BY <3>5, <3>6, <1>0, RowFacts
    <3> QED
      BY <3>4, <3>5, <3>6, <3>7
  <2>3. CASE Fault
    BY <2>3 DEF Fault, TypeOK, NoOrphanWithoutFault
  <2> QED
    BY <1>6, <2>2, <2>3 DEF ConfirmPending
<1>7. CASE FinishPass \/ Rotate
  BY <1>1, <1>7 DEF FinishPass, Rotate
<1>8. CASE Reap
  BY <1>8, <1>0, SettleRowsKeeps, SettleRowsSettles, OrphanFrame DEF Reap, memory
<1>9. CASE Restart
  <2>1. /\ DOMAIN landings' = DOMAIN landings
        /\ \A r \in DOMAIN landings :
             /\ landings'[r].status \in {"final", landings[r].status}
             /\ r \in Provisional(Len(landings)) => landings'[r].status = "final"
    BY <1>9, <1>0, SettleRowsKeeps, SettleRowsSettles DEF Restart
  <2>2. \A r \in DOMAIN landings : landings'[r].status # "provisional"
    BY <2>1, <1>0 DEF Provisional
  <2> QED
    BY <2>1, <2>2 DEF NoOrphanWithoutFault
<1>10. CASE UNCHANGED vars
  BY <1>1, <1>10 DEF vars, memory
<1> QED
  BY <1>2, <1>3, <1>4, <1>5, <1>6, <1>7, <1>8, <1>9, <1>10 DEF Next

--------------------------------------------------------------------------------
(***************************************************************************)
(* The table, seen as the status of every landing.                         *)
(***************************************************************************)
Statuses == [l \in Landing |-> StatusOf(l)]

\* What a landing's status says of its rows.
SaysOfRows(l) ==
  /\ StatusOf(l) \in {"unseen", "provisional", "final"}
  /\ StatusOf(l) = "unseen" <=> \A r \in DOMAIN landings : landings[r].landing # l
  /\ StatusOf(l) = "final" <=>
       \E r \in DOMAIN landings : landings[r].landing = l /\ landings[r].status # "provisional"

LEMMA StatusSays == \A l \in Landing : SaysOfRows(l)
<1> SUFFICES ASSUME NEW l \in Landing PROVE SaysOfRows(l)
  OBVIOUS
<1> DEFINE Said == {landings[r].status : r \in RowsOf(l)}
<1>1. /\ Said = {} <=> \A r \in DOMAIN landings : landings[r].landing # l
      /\ Said \notin {{}, {"provisional"}} <=>
           \E r \in DOMAIN landings : landings[r].landing = l /\ landings[r].status # "provisional"
  BY DEF RowsOf
<1> QED
  BY <1>1 DEF SaysOfRows, StatusOf

LEMMA StatusSaysNext == \A l \in Landing : SaysOfRows(l)'
<1> SUFFICES ASSUME NEW l \in Landing PROVE SaysOfRows(l)'
  OBVIOUS
<1> DEFINE Said == {landings'[r].status : r \in RowsOf(l)'}
<1>1. /\ Said = {} <=> \A r \in DOMAIN landings' : landings'[r].landing # l
      /\ Said \notin {{}, {"provisional"}} <=>
           \E r \in DOMAIN landings' : landings'[r].landing = l /\ landings'[r].status # "provisional"
  BY DEF RowsOf
<1> QED
  BY <1>1 DEF SaysOfRows, StatusOf

\* Storing a row moves its landing, and no other.
LEMMA StoreRefines ==
  ASSUME landings \in Seq(Row), NEW row \in Row, landings' = Append(landings, row)
  PROVE  [Lifecycle!Next]_Statuses
<1> DEFINE l == row.landing
<1>1. l \in Landing /\ row.status \in {"provisional", "final"}
  BY DEF Row
<1>2. /\ DOMAIN landings' = DOMAIN landings \union {NewId}
      /\ landings'[NewId] = row
      /\ \A r \in DOMAIN landings : landings'[r] = landings[r]
  BY AppendRow
<1> HIDE DEF l
<1>3. row.landing = l
  BY DEF l
<1>4. \A m \in Landing \ {l} : StatusOf(m)' = StatusOf(m)
  BY <1>2, <1>3, StatusSays, StatusSaysNext DEF SaysOfRows
<1>5. /\ StatusOf(l)' # "unseen"
      /\ StatusOf(l)' = "final" <=> StatusOf(l) = "final" \/ row.status = "final"
  BY <1>1, <1>2, <1>3, StatusSays, StatusSaysNext DEF SaysOfRows
<1>6. /\ StatusOf(l) \in {"unseen", "provisional", "final"}
      /\ StatusOf(l)' \in {"provisional", "final"}
  BY <1>1, <1>5, StatusSays, StatusSaysNext DEF SaysOfRows
<1>7. CASE StatusOf(l)' = StatusOf(l)
  BY <1>4, <1>7 DEF Statuses
<1>8. CASE StatusOf(l) = "unseen" /\ StatusOf(l)' = "provisional"
  <2>1. Lifecycle!StoreProvisional(l)
    BY <1>1, <1>4, <1>8 DEF Lifecycle!StoreProvisional
  <2> QED
    BY <1>1, <2>1 DEF Lifecycle!Next
<1>9. CASE StatusOf(l) = "unseen" /\ StatusOf(l)' = "final"
  <2>1. Lifecycle!StoreFinal(l)
    BY <1>1, <1>4, <1>9 DEF Lifecycle!StoreFinal
  <2> QED
    BY <1>1, <2>1 DEF Lifecycle!Next
<1>10. CASE StatusOf(l) = "provisional" /\ StatusOf(l)' = "final"
  <2>1. Lifecycle!Settle({l})
    BY <1>1, <1>4, <1>10 DEF Lifecycle!Settle
  <2> QED
    BY <1>1, <2>1 DEF Lifecycle!Next
<1> QED
  BY <1>5, <1>6, <1>7, <1>8, <1>9, <1>10

\* Rewriting rows, none of which becomes provisional, settles landings.
LEMMA SettleRefines ==
  ASSUME DOMAIN landings' = DOMAIN landings,
         \A r \in DOMAIN landings :
           /\ landings'[r].landing = landings[r].landing
           /\ landings'[r].status \in {"final", landings[r].status}
  PROVE  [Lifecycle!Next]_Statuses
<1> DEFINE S == {l \in Landing : StatusOf(l) = "provisional" /\ StatusOf(l)' = "final"}
<1>1. \A l \in Landing : StatusOf(l)' = IF l \in S THEN "final" ELSE StatusOf(l)
  <2> SUFFICES ASSUME NEW l \in Landing, l \notin S PROVE StatusOf(l)' = StatusOf(l)
    OBVIOUS
  <2>1. SaysOfRows(l) /\ SaysOfRows(l)'
    BY StatusSays, StatusSaysNext
  <2>2. StatusOf(l) = "unseen" <=> StatusOf(l)' = "unseen"
    BY <2>1 DEF SaysOfRows
  <2>3. StatusOf(l) = "final" => StatusOf(l)' = "final"
    BY <2>1 DEF SaysOfRows
  <2> QED
    BY <2>1, <2>2, <2>3 DEF SaysOfRows
<1>2. S \in SUBSET Landing /\ \A l \in S : StatusOf(l) = "provisional"
  OBVIOUS
<1> HIDE DEF S
<1>3. Lifecycle!Settle(S)
  BY <1>1, <1>2 DEF Lifecycle!Settle
<1> QED
  BY <1>2, <1>3 DEF Lifecycle!Next

LEMMA StepRefines == ASSUME IInv, [Next]_vars PROVE [Lifecycle!Next]_Statuses
<1>0. landings \in Seq(Row)
  BY DEF IInv, TypeOK
<1>1. ASSUME UNCHANGED landings PROVE [Lifecycle!Next]_Statuses
  BY <1>1, SettleRefines
<1>2. ASSUME NEW e \in Oldest, ReportProvisional(e) \/ ReportFinal(e)
      PROVE  [Lifecycle!Next]_Statuses
  <2>1. \/ UNCHANGED landings
        \/ \E st \in {"provisional", "final"}, ack \in BOOLEAN :
             landings' = Append(landings, NewRow(e, st, ack))
    BY <1>2 DEF ReportProvisional, ReportFinal
  <2> QED
    BY <1>0, <1>1, <2>1, NewRowType, StoreRefines DEF IInv
<1>3. ASSUME NEW e \in Oldest, ConfirmPending(e) PROVE [Lifecycle!Next]_Statuses
  <2>1. provisionalIds[KeyAt(e)] \in DOMAIN landings /\ LandingAt(e) \in Landing
    BY <1>3, LoopFacts DEF ConfirmPending, Pending, PendingNamesItsRow, IInv
  <2>2. CASE landings' = [landings EXCEPT
                            ![provisionalIds[KeyAt(e)]].written = LandingAt(e),
                            ![provisionalIds[KeyAt(e)]].status = "final"]
    BY <1>0, <2>1, <2>2, RewriteRow, SettleRefines
  <2> QED
    BY <1>1, <1>3, <2>2 DEF ConfirmPending
<1>4. CASE Reap \/ Restart
  <2>1. PICK T : SettleRows(T)
    BY <1>4 DEF Reap, Restart
  <2> QED
    BY <1>0, <2>1, SettleRowsKeeps, SettleRowsSettles, SettleRefines
<1> QED
  BY <1>1, <1>2, <1>3, <1>4
     DEF Next, vars, memory, Sample, Remove, SkipProvisional, SkipReported, FinishPass, Rotate

--------------------------------------------------------------------------------
\* The gate stays open for an aircraft with a landing of this session pending,
\* so that a pass comes that can confirm it (_provisional_aircraft).
THEOREM GateStaysOpen == Spec => []PendingKeepsGateOpen
<1>1. Init => PendingKeepsGateOpen
  BY DEF Init, PendingKeepsGateOpen
<1>2. IInv /\ PendingKeepsGateOpen /\ [Next]_vars => PendingKeepsGateOpen'
  BY GateKept
<1> QED
  BY <1>1, <1>2, Inductive, PTL DEF Spec

\* As long as nothing has failed, a provisional row is one whose confirmation
\* the ingestor still waits for (_provisional_ids).
THEOREM OrphansNeedFaults == Spec => []NoOrphanWithoutFault
<1>1. Init => NoOrphanWithoutFault
  BY DEF Init, NoOrphanWithoutFault
<1>2. IInv /\ NoOrphanWithoutFault /\ [Next]_vars => NoOrphanWithoutFault'
  BY NoOrphanKept
<1> QED
  BY <1>1, <1>2, Inductive, PTL DEF Spec

\* The landings table implements the life cycle of a landing: unseen, then
\* provisional or final, and final for good (Landing.outcome_status), whatever
\* fails and whenever the process restarts.
THEOREM Implements == Spec => ImplementsLifecycle
<1>1. Init => Lifecycle!Init
  <2>1. ASSUME Init PROVE \A l \in Landing : StatusOf(l) = "unseen"
    BY <2>1 DEF Init, StatusOf, RowsOf
  <2> QED
    BY <2>1 DEF Lifecycle!Init
<1>2. IInv /\ [Next]_vars => [Lifecycle!Next]_[l \in Landing |-> StatusOf(l)]
  BY StepRefines DEF Statuses
<1> QED
  BY <1>1, <1>2, Inductive, PTL DEF Spec, ImplementsLifecycle, Lifecycle!Spec

================================================================================

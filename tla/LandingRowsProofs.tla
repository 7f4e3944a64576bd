--------------------------- MODULE LandingRowsProofs ---------------------------
(***************************************************************************)
(* The landings table for any number of landings, requests, rescans,       *)
(* reloads and restarts.                                                   *)
(*                                                                         *)
(* Two lines of argument.  A row describes one instant because every       *)
(* writer carries columns that do (GradedRight, the entity of a request),  *)
(* and because the columns it sends complete those of the row to one       *)
(* instant until somebody else updates the row between (WritesOneInstant). *)
(* No rescan stores a second row because the lock leaves the flight to it  *)
(* (RescanAlone): what was stored when it began is in its list, and what   *)
(* it has stored since it does not come to again (ScanKnows).              *)
(***************************************************************************)
EXTENDS LandingRows, SequenceTheorems, TLAPS

Resting == {"idle", "ended", "stopped", "done"}
Places(t) ==
  IF t \in Flights
  THEN {"idle", "resolving", "storing", "loading", "writing", "ended", "stopped"}
  ELSE IF t \in Requests THEN {"idle", "resolving", "loading", "writing", "done"}
  ELSE {"idle", "scanning", "resolving", "storing", "done"}

\* What a task carries.
Reports(f) ==
  [op : {"insert"}, flight : {f}, landing : Landings, by : {"ingest"}, began : Nat,
   det : Detections, status : {"provisional", "final"}]
Confirmations == [op : {"finalize"}, id : Nat, det : {"settled"}]
Entities == [op : {"regrade", "rebuild"}, id : Nat, entity : Row, det : {"redone"},
             config : 0 .. MaxConfig]
Scans == [op : {"rescan"}, flight : Flights, began : Nat, contacts : SUBSET Landings,
          stored : SUBSET Nat]
Finds == [op : {"insert"}, flight : Flights, landing : Landings, by : {"rescan"}, began : Nat,
          det : {"redone"}, status : {"final"}, rest : Scans]

\* The same with a grade, of the detection it is about.
GradedReports(f) ==
  [op : {"insert"}, flight : {f}, landing : Landings, by : {"ingest"}, began : Nat,
   det : Detections, status : {"provisional", "final"}, graded : Graded]
GradedConfirmations == [op : {"finalize"}, id : Nat, det : {"settled"}, graded : Graded]
GradedEntities == [op : {"regrade", "rebuild"}, id : Nat, entity : Row, det : {"redone"},
                   config : 0 .. MaxConfig, graded : Graded]
GradedFinds ==
  [op : {"insert"}, flight : Flights, landing : Landings, by : {"rescan"}, began : Nat,
   det : {"redone"}, status : {"final"}, rest : Scans, graded : Graded]

\* The columns of an UPDATE.
Delta(d) ==
  /\ d = [c \in DOMAIN d |-> d[c]] /\ DOMAIN d \subseteq Columns
  /\ "det" \in DOMAIN d => d["det"] \in Detections
  /\ "status" \in DOMAIN d => d["status"] \in {"provisional", "final"}
  /\ "track" \in DOMAIN d => d["track"] \in Graded
  /\ "grade" \in DOMAIN d => d["grade"] \in Graded

\* Columns of one instant.
Whole(r) == r.track = r.grade /\ r.det = r.track.det

\* A task that updates a row completes it to one instant, unless the row is
\* torn between two writers.
WritesOneInstant(t) ==
  pc[t] = "writing" =>
    /\ job[t] = [op |-> "update", id |-> job[t].id, delta |-> job[t].delta]
    /\ job[t].id \in Ids /\ Delta(job[t].delta)
    /\ job[t].id \notin torn => Whole(Over(job[t].delta, rows[job[t].id]))

\* An ingestor stores nothing that had a row with its touchdown when it
\* looked, and confirms rows there are.
Reporting(f) ==
  /\ job[f].began <= Len(rows)
  /\ f = Live => job[f].began = 0
  /\ job[f].landing \notin bouncing =>
       \A i \in Ids : i <= job[f].began /\ rows[i].landing = job[f].landing => rows[i].gone
FlightTask(f) ==
  /\ pc[f] = "resolving" => \/ job[f] \in Reports(f) /\ Reporting(f)
                            \/ job[f] \in Confirmations /\ job[f].id \in Ids
  /\ pc[f] = "storing" =>
       job[f] \in GradedReports(f) /\ Reporting(f) /\ job[f].graded.det = job[f].det
  /\ pc[f] = "loading" =>
       job[f] \in GradedConfirmations /\ job[f].id \in Ids /\ job[f].graded.det = job[f].det

\* What a request read is a row of one instant.
Reading(q) ==
  /\ job[q].id \in Ids
  /\ job[q].entity.flight = rows[job[q].id].flight
  /\ job[q].id \notin torn => Whole(job[q].entity)
RequestTask(q) ==
  /\ pc[q] = "resolving" => job[q] \in Entities /\ Reading(q)
  /\ pc[q] = "loading" =>
       /\ job[q] \in GradedEntities /\ Reading(q)
       /\ job[q].graded.det =
            IF job[q].op = "rebuild" THEN job[q].det ELSE job[q].entity.track.det

\* A rescan that works holds the lock alone; its list has every row its
\* flight had when it began, and it comes to no landing twice.
AtWork(s) == pc[s] \in {"scanning", "resolving", "storing"}
Scanned(s) == IF pc[s] = "scanning" THEN job[s] ELSE job[s].rest
Ahead(s) == IF pc[s] = "scanning" THEN job[s].contacts
            ELSE job[s].rest.contacts \cup {job[s].landing}
ScanKnows(j, ahead) ==
  /\ j.began <= Len(rows) /\ j.stored \subseteq Ids
  /\ FlightExists(j.flight) =>
       \A i \in Ids : rows[i].flight = j.flight =>
         /\ i <= j.began => i \in j.stored
         /\ rows[i].by = "rescan" /\ rows[i].landing \in ahead => i \in j.stored
FindIsNew(s) ==
  /\ job[s].flight = job[s].rest.flight /\ job[s].began = job[s].rest.began
  /\ job[s].landing \notin job[s].rest.contacts
  /\ ~Matches(job[s].rest, job[s].landing)
RescanTask(s) ==
  /\ AtWork(s) => lock = {s} /\ ScanKnows(Scanned(s), Ahead(s))
  /\ pc[s] = "scanning" => job[s] \in Scans
  /\ pc[s] = "resolving" => job[s] \in Finds /\ FindIsNew(s)
  /\ pc[s] = "storing" =>
       job[s] \in GradedFinds /\ FindIsNew(s) /\ job[s].graded.det = job[s].det

TaskInv(t) ==
  /\ pc[t] \in Places(t)
  /\ pc[t] \in Resting => job[t] = Idle
  /\ t \in Flights => FlightTask(t)
  /\ t \in Requests => RequestTask(t)
  /\ t \in Rescans => RescanTask(t)
  /\ WritesOneInstant(t)

TypeOK ==
  /\ config \in 0 .. MaxConfig
  /\ rows \in Seq(Row)
  /\ pending = [f \in Flights |-> pending[f]]
  /\ \A f \in Flights : \A l \in DOMAIN pending[f] : l \in Landings /\ pending[f][l] \in Ids
  /\ reported \in [Flights -> SUBSET Landings]
  /\ pc = [t \in Tasks |-> pc[t]] /\ job = [t \in Tasks |-> job[t]]

\* Only the rows of a discarded import are gone.
GoneWithFlight == \A i \in Ids : rows[i].gone => ~FlightExists(rows[i].flight)

\* The inductive invariant.
IInv ==
  /\ TypeOK
  /\ GoneWithFlight
  /\ \A t \in Tasks : TaskInv(t)
  /\ OneInstant
  /\ NoSecondRow

-----------------------------------------------------------------------------
(* The operators of the model.                                             *)

\* Setting one task's place and burden leaves those of the others.
LEMMA GoMoves ==
  ASSUME TypeOK, NEW t \in Tasks, NEW w, NEW x, Go(t, w, x)
  PROVE  /\ pc'[t] = w /\ job'[t] = x
         /\ \A u \in Tasks \ {t} : pc'[u] = pc[u] /\ job'[u] = job[u]
         /\ pc' = [u \in Tasks |-> pc'[u]] /\ job' = [u \in Tasks |-> job'[u]]
  BY DEF Go, TypeOK

\* A task is of one kind.
LEMMA Kinds ==
  /\ \A t \in Flights : t \in Tasks /\ t \notin Requests /\ t \notin Rescans
  /\ \A t \in Requests : t \in Tasks /\ t \notin Flights /\ t \notin Rescans
  /\ \A t \in Rescans : t \in Tasks /\ t \notin Flights /\ t \notin Requests
  /\ \A t \in Tasks : t \in Flights \/ t \in Requests \/ t \in Rescans
  /\ Live \in Flights /\ Recording \in Flights /\ Live # Recording
  /\ \A f \in Flights : f = Live \/ f = Recording
  BY RowsAssumption DEF Tasks, Flights

\* What was graded is of the detection it was graded for.
LEMMA Grades ==
  ASSUME TypeOK, NEW det \in Detections
  PROVE  GradeOf(det) \in Graded /\ GradeOf(det).det = det
  BY DEF TypeOK, GradeOf, Graded

\* What a write makes of a row.
LEMMA Overwritten ==
  ASSUME NEW d, Delta(d), NEW r \in Row
  PROVE  /\ Over(d, r) \in Row
         /\ \A c \in {"flight", "landing", "by", "began", "gone"} : Over(d, r)[c] = r[c]
  BY DEF Delta, Over, Row, Columns

\* The columns that differ from what was loaded turn that into what is to be.
LEMMA Completed ==
  ASSUME NEW new \in Row, NEW loaded \in Row
  PROVE  /\ Delta(Changed(new, loaded))
         /\ \A c \in Columns : Over(Changed(new, loaded), loaded)[c] = new[c]
  BY DEF Changed, Delta, Over, Row, Columns

-----------------------------------------------------------------------------
(* What a step of somebody else leaves of a task's invariant.              *)

\* Rows are added and rewritten, and never change hands.
RowsKept ==
  /\ rows' \in Seq(Row) /\ Len(rows) <= Len(rows')
  /\ \A i \in Ids : /\ rows'[i].flight = rows[i].flight /\ rows'[i].landing = rows[i].landing
                    /\ rows'[i].by = rows[i].by /\ rows'[i].began = rows[i].began
                    /\ rows[i].gone => rows'[i].gone
WorldKept ==
  /\ RowsKept
  /\ torn \subseteq torn' /\ bouncing' = bouncing
  /\ \A f \in Flights : FlightExists(f)' => FlightExists(f)
TaskKept(u) == pc'[u] = pc[u] /\ job'[u] = job[u]

\* The row u is about to update is as it was, or torn.
RowLeftTo(u) ==
  pc[u] = "writing" =>
    \/ job[u].id \in torn'
    \/ /\ rows'[job[u].id].det = rows[job[u].id].det
       /\ rows'[job[u].id].track = rows[job[u].id].track
       /\ rows'[job[u].id].grade = rows[job[u].id].grade

\* No other rescan works while u does.
RescanAlone(u) ==
  u \in Rescans /\ AtWork(u) =>
    lock' = lock /\ \A i \in Ids' \ Ids : rows'[i].by # "rescan"

LEMMA StillWritesOneInstant ==
  ASSUME TypeOK, WorldKept, NEW u \in Tasks, TaskKept(u), RowLeftTo(u), WritesOneInstant(u)
  PROVE  WritesOneInstant(u)'
<1> SUFFICES ASSUME pc[u] = "writing"
             PROVE  WritesOneInstant(u)'
  BY DEF WritesOneInstant, TaskKept
<1> DEFINE i == job[u].id  d == job[u].delta
<1>1. /\ job'[u] = [op |-> "update", id |-> i, delta |-> d] /\ job'[u] = job[u]
      /\ i \in Ids /\ Delta(d)
      /\ i \notin torn => Whole(Over(d, rows[i]))
  BY DEF WritesOneInstant, TaskKept
<1>2. rows[i] \in Row /\ rows'[i] \in Row /\ i \in Ids'
  BY <1>1 DEF Ids, TypeOK, WorldKept, RowsKept
<1>3. ASSUME i \notin torn'
      PROVE  Whole(Over(d, rows'[i]))
  <2>1. /\ Whole(Over(d, rows[i]))
        /\ rows'[i].det = rows[i].det /\ rows'[i].track = rows[i].track
        /\ rows'[i].grade = rows[i].grade
    BY <1>1, <1>3 DEF WorldKept, RowLeftTo
  <2>2. \A c \in {"det", "track", "grade"} : Over(d, rows'[i])[c] = Over(d, rows[i])[c]
    BY <2>1, <1>1, <1>2 DEF Over, Delta, Row, Columns
  <2> QED
    BY <2>1, <2>2 DEF Whole
<1> QED
  BY <1>1, <1>2, <1>3 DEF WritesOneInstant, TaskKept

LEMMA StillFlightTask ==
  ASSUME TypeOK, WorldKept, NEW u \in Flights, TaskKept(u), FlightTask(u)
  PROVE  FlightTask(u)'
<1>1. Reporting(u) /\ job[u].began \in Nat => Reporting(u)'
  <2> SUFFICES ASSUME Reporting(u), job[u].began \in Nat PROVE Reporting(u)'
    OBVIOUS
  <2>1. Len(rows) \in Nat /\ Len(rows') \in Nat /\ Len(rows) <= Len(rows')
    BY DEF TypeOK, WorldKept, RowsKept
  <2>2. \A i \in Ids' : i <= job[u].began /\ job[u].began <= Len(rows) => i \in Ids
    BY <2>1 DEF Ids
  <2> QED
    BY <2>1, <2>2 DEF Reporting, TaskKept, WorldKept, RowsKept
<1>2. Ids \subseteq Ids'
  BY DEF Ids, TypeOK, WorldKept, RowsKept
<1> QED
  BY <1>1, <1>2 DEF FlightTask, TaskKept, Reports, Confirmations, GradedReports,
                    GradedConfirmations, Graded, Row

LEMMA StillRequestTask ==
  ASSUME TypeOK, WorldKept, NEW u \in Requests, TaskKept(u), RequestTask(u)
  PROVE  RequestTask(u)'
<1>1. Reading(u) => Reading(u)'
  BY DEF Reading, TaskKept, WorldKept, RowsKept, Ids, TypeOK, Whole
<1> QED
  BY <1>1 DEF RequestTask, TaskKept

LEMMA StillScanKnows ==
  ASSUME TypeOK, WorldKept, NEW j \in Scans, NEW ahead, ScanKnows(j, ahead),
         \A i \in Ids' \ Ids : rows'[i].by # "rescan"
  PROVE  ScanKnows(j, ahead)'
<1>1. Len(rows) \in Nat /\ Len(rows') \in Nat /\ Len(rows) <= Len(rows') /\ Ids \subseteq Ids'
  BY DEF TypeOK, WorldKept, RowsKept, Ids
<1>2. \A i \in Ids' : i <= j.began /\ j.began <= Len(rows) => i \in Ids
  BY <1>1 DEF Ids, Scans
<1>3. FlightExists(j.flight)' => FlightExists(j.flight)
  BY DEF WorldKept, Scans
<1> QED
  BY <1>1, <1>2, <1>3 DEF ScanKnows, WorldKept, RowsKept, Scans

LEMMA StillRescanTask ==
  ASSUME TypeOK, WorldKept, NEW u \in Rescans, TaskKept(u), RescanAlone(u), RescanTask(u)
  PROVE  RescanTask(u)'
<1>1. AtWork(u) => Scanned(u) \in Scans
  BY DEF RescanTask, AtWork, Scanned, Finds, GradedFinds, Scans
<1>2. AtWork(u) => ScanKnows(Scanned(u), Ahead(u))'
  <2> SUFFICES ASSUME AtWork(u) PROVE ScanKnows(Scanned(u), Ahead(u))'
    OBVIOUS
  <2> DEFINE j == Scanned(u)  ahead == Ahead(u)
  <2>1. j' = j /\ ahead' = ahead
    BY DEF Scanned, Ahead, TaskKept
  <2>2. ScanKnows(j, ahead) /\ j \in Scans
        /\ \A i \in Ids' \ Ids : rows'[i].by # "rescan"
    BY <1>1 DEF RescanTask, RescanAlone
  <2> HIDE DEF j, ahead
  <2> QED
    BY <2>1, <2>2, StillScanKnows DEF j, ahead, ScanKnows
<1>3. AtWork(u) /\ FindIsNew(u) /\ pc[u] # "scanning" => FindIsNew(u)'
  BY DEF AtWork, RescanTask, FindIsNew, Matches, ScanKnows, Scanned, TaskKept, WorldKept, RowsKept,
         Ids, TypeOK
<1> QED
  BY <1>2, <1>3 DEF RescanTask, AtWork, TaskKept, RescanAlone

\* A step that leaves task u and its row alone keeps what u relies on.
LEMMA StillTaskInv ==
  ASSUME TypeOK, WorldKept, NEW u \in Tasks, TaskKept(u), RowLeftTo(u), RescanAlone(u), TaskInv(u)
  PROVE  TaskInv(u)'
<1>1. WritesOneInstant(u)'
  BY StillWritesOneInstant DEF TaskInv
<1>2. u \in Flights => FlightTask(u)'
  BY StillFlightTask DEF TaskInv
<1>3. u \in Requests => RequestTask(u)'
  BY StillRequestTask DEF TaskInv
<1>4. u \in Rescans => RescanTask(u)'
  BY StillRescanTask DEF TaskInv
<1>5. pc'[u] \in Places(u) /\ (pc'[u] \in Resting => job'[u] = Idle)
  BY DEF TaskInv, TaskKept
<1> QED
  BY <1>1, <1>2, <1>3, <1>4, <1>5 DEF TaskInv, Places

-----------------------------------------------------------------------------
(* What a step leaves of the table's invariant.                            *)

\* Rows that are only rewritten: those that are there stay of one instant,
\* those that go do so with their flight.
LEMMA RowsRewritten ==
  ASSUME TypeOK, NoSecondRow, WorldKept, Len(rows') = Len(rows),
         \A i \in Ids : rows'[i].gone \/ i \in torn' \/ Whole(rows'[i]),
         \A i \in Ids : rows'[i].gone => ~FlightExists(rows[i].flight)'
  PROVE  GoneWithFlight' /\ OneInstant' /\ NoSecondRow'
<1>1. Ids' = Ids
  BY DEF Ids
<1>2. GoneWithFlight' /\ OneInstant'
  BY <1>1 DEF GoneWithFlight, OneInstant, Stored, Whole
<1>3. NoSecondRow'
  BY <1>1 DEF NoSecondRow, SecondRow, WorldKept, RowsKept
<1> QED
  BY <1>2, <1>3

\* A row that is added.
Unknown(r) ==
  \A i \in Ids : rows[i].landing = r.landing =>
    /\ r.by = "rescan" /\ rows[i].by = "rescan" => rows[i].flight # r.flight
    /\ i <= r.began /\ r.landing \notin bouncing /\ ~rows[i].gone =>
         r.by = "rescan" /\ rows[i].flight # r.flight

LEMMA RowFlights ==
  ASSUME TypeOK
  PROVE  \A i \in Ids : rows[i] \in Row /\ rows[i].flight \in Flights
<1>1. \A i \in Ids : rows[i] \in Row
  BY DEF TypeOK, Ids
<1> QED
  BY <1>1 DEF Row

LEMMA Appended ==
  ASSUME rows \in Seq(Row), NEW r \in Row, rows' = Append(rows, r)
  PROVE  /\ rows' \in Seq(Row) /\ Len(rows') = Len(rows) + 1 /\ Len(rows) \in Nat
         /\ Ids' = Ids \cup {Len(rows')} /\ Len(rows') \notin Ids
         /\ rows'[Len(rows')] = r /\ \A i \in Ids : rows'[i] = rows[i] /\ i < Len(rows')
  BY DEF Ids

LEMMA RowAdded ==
  ASSUME IInv, NEW r \in Row, rows' = Append(rows, r), ~r.gone, Whole(r), Unknown(r),
         UNCHANGED <<bouncing, torn>>, \A f \in Flights : FlightExists(f)' => FlightExists(f)
  PROVE  WorldKept /\ GoneWithFlight' /\ OneInstant' /\ NoSecondRow'
<1> DEFINE n == Len(rows')
<1>1. /\ rows' \in Seq(Row) /\ Len(rows') = Len(rows) + 1 /\ Len(rows) \in Nat
      /\ Ids' = Ids \cup {n} /\ n \notin Ids
      /\ rows'[n] = r /\ \A i \in Ids : rows'[i] = rows[i] /\ i < n
  BY Appended DEF IInv, TypeOK
<1> HIDE DEF n
<1>2. WorldKept
  <2>1. Len(rows) <= Len(rows')
    BY <1>1
  <2>2. RowsKept
    BY <1>1, <2>1 DEF RowsKept
  <2> QED
    BY <2>2 DEF WorldKept
<1>3. GoneWithFlight'
  <2>1. \A i \in Ids : rows[i].flight \in Flights
    BY RowFlights DEF IInv
  <2> QED
    BY <1>1, <2>1 DEF GoneWithFlight, IInv
<1>4. OneInstant'
  BY <1>1 DEF OneInstant, Stored, Whole, IInv
<1>5. NoSecondRow'
  <2> SUFFICES ASSUME NEW i \in Ids', NEW j \in Ids'
               PROVE  /\ i # j /\ rows'[i].by = "rescan" /\ rows'[j].by = "rescan" =>
                           <<rows'[i].flight, rows'[i].landing>> # <<rows'[j].flight, rows'[j].landing>>
                      /\ SecondRow(i, j)' /\ rows'[i].landing \notin bouncing' /\ ~rows'[i].gone =>
                           rows'[j].by = "rescan" /\ rows'[i].flight # rows'[j].flight
    BY DEF NoSecondRow
  <2>1. CASE i \in Ids /\ j \in Ids
    BY <2>1, <1>1 DEF IInv, NoSecondRow, SecondRow
  <2>2. CASE i \in Ids /\ j = n
    BY <2>2, <1>1 DEF Unknown, SecondRow
  <2>3. CASE i = n /\ j \in Ids
    <3>1. ~(i < j)
      BY <2>3, <1>1 DEF Ids
    <3> QED
      BY <2>3, <1>1, <3>1 DEF Unknown, SecondRow
  <2>4. CASE i = n /\ j = n
    BY <2>4, <1>1 DEF SecondRow, Ids
  <2> QED
    BY <1>1, <2>1, <2>2, <2>3, <2>4
<1> QED
  BY <1>2, <1>3, <1>4, <1>5

\* A step of one task that disturbs neither the table nor another task.
LEMMA OneStep ==
  ASSUME IInv, NEW t \in Tasks, WorldKept,
         \A u \in Tasks \ {t} : TaskKept(u) /\ RowLeftTo(u) /\ RescanAlone(u),
         TypeOK', GoneWithFlight', OneInstant', NoSecondRow', TaskInv(t)'
  PROVE  IInv'
<1>1. \A u \in Tasks \ {t} : TaskInv(u)'
  BY StillTaskInv DEF IInv
<1> QED
  BY <1>1 DEF IInv

PendingOK ==
  /\ pending = [f \in Flights |-> pending[f]]
  /\ \A f \in Flights : \A l \in DOMAIN pending[f] : l \in Landings /\ pending[f][l] \in Ids

LEMMA QuietStep ==
  ASSUME IInv, NEW t \in Tasks, NEW w, NEW x, Go(t, w, x), UNCHANGED <<bouncing, config, rows, torn>>,
         PendingOK', reported' \in [Flights -> SUBSET Landings],
         t = Recording => pc[t] # "stopped" \/ w = "stopped",
         \A u \in Rescans \ {t} : AtWork(u) => lock' = lock,
         TaskInv(t)'
  PROVE  IInv'
<1>1. /\ pc'[t] = w /\ job'[t] = x
      /\ \A u \in Tasks \ {t} : TaskKept(u)
      /\ pc' = [u \in Tasks |-> pc'[u]] /\ job' = [u \in Tasks |-> job'[u]]
  BY GoMoves DEF IInv, TaskKept
<1>2. \A f \in Flights : FlightExists(f)' => FlightExists(f)
  BY <1>1, Kinds DEF FlightExists, TaskKept
<1>3. WorldKept
  BY <1>2 DEF WorldKept, RowsKept, IInv, TypeOK
<1>4. \A u \in Tasks \ {t} : RowLeftTo(u) /\ RescanAlone(u)
  BY DEF RowLeftTo, RescanAlone, Ids
<1>5. TypeOK'
  BY <1>1 DEF IInv, TypeOK, PendingOK
<1>6. \A i \in Ids : (rows'[i].gone \/ i \in torn' \/ Whole(rows'[i]))
                     /\ (rows'[i].gone => ~FlightExists(rows[i].flight)')
  <2>1. \A i \in Ids : rows[i].flight \in Flights
    BY RowFlights DEF IInv
  <2> QED
    BY <1>2, <2>1 DEF IInv, OneInstant, GoneWithFlight, Stored, Whole
<1>7. GoneWithFlight' /\ OneInstant' /\ NoSecondRow'
  BY <1>3, <1>6, RowsRewritten DEF IInv
<1> QED
  BY <1>1, <1>3, <1>4, <1>5, <1>7, OneStep

-----------------------------------------------------------------------------
(* Where a task's step leaves it.                                          *)

LEMMA AtRest ==
  ASSUME NEW t \in Tasks, pc'[t] \in Places(t) \cap Resting, job'[t] = Idle
  PROVE  TaskInv(t)'
<1>1. pc'[t] \notin {"scanning", "resolving", "storing", "loading", "writing"}
  BY DEF Resting
<1> QED
  BY <1>1 DEF TaskInv, Places, FlightTask, RequestTask, RescanTask, AtWork, WritesOneInstant

LEMMA Loads ==
  ASSUME IInv, NEW t \in Flights \cup Requests, NEW i \in Ids, NEW new \in Row,
         i \notin torn => Whole(new), Load(t, i, new), UNCHANGED <<rows, torn>>
  PROVE  TaskInv(t)'
<1> DEFINE d == Changed(new, rows[i])
<1>1. t \in Tasks /\ t \notin Rescans
  BY Kinds
<1>2. pc'[t] = "writing" /\ job'[t] = [op |-> "update", id |-> i, delta |-> d]
  BY <1>1, GoMoves DEF Load, IInv
<1>3. Delta(d) /\ \A c \in Columns : Over(d, rows[i])[c] = new[c]
  BY Completed, RowFlights DEF IInv
<1> HIDE DEF d
<1>4. i \notin torn => Whole(Over(d, rows[i]))
  BY <1>3 DEF Whole, Columns
<1>5. WritesOneInstant(t)'
  BY <1>2, <1>3, <1>4 DEF WritesOneInstant, Ids
<1>6. FlightTask(t)' /\ RequestTask(t)'
  BY <1>2 DEF FlightTask, RequestTask
<1>7. pc'[t] \in Places(t) /\ pc'[t] \notin Resting
  BY <1>1, <1>2, Kinds DEF Places, Resting
<1> QED
  BY <1>1, <1>5, <1>6, <1>7 DEF TaskInv, Places

LEMMA InFlight ==
  ASSUME NEW f \in Flights, pc'[f] \in {"resolving", "storing", "loading"}, FlightTask(f)'
  PROVE  TaskInv(f)'
<1>1. f \in Tasks /\ f \notin Requests /\ f \notin Rescans
  BY Kinds
<1>2. pc'[f] \in Places(f) /\ pc'[f] \notin Resting /\ pc'[f] # "writing"
  BY <1>1 DEF Places, Resting
<1> QED
  BY <1>1, <1>2 DEF TaskInv, Places, WritesOneInstant

LEMMA InRequest ==
  ASSUME NEW q \in Requests, pc'[q] \in {"resolving", "loading"}, RequestTask(q)'
  PROVE  TaskInv(q)'
<1>1. q \in Tasks /\ q \notin Flights /\ q \notin Rescans
  BY Kinds
<1>2. pc'[q] \in Places(q) /\ pc'[q] \notin Resting /\ pc'[q] # "writing"
  BY <1>1 DEF Places, Resting
<1> QED
  BY <1>1, <1>2 DEF TaskInv, Places, WritesOneInstant

LEMMA InRescan ==
  ASSUME NEW s \in Rescans, pc'[s] \in {"scanning", "resolving", "storing"}, RescanTask(s)'
  PROVE  TaskInv(s)'
<1>1. s \in Tasks /\ s \notin Flights /\ s \notin Requests
  BY Kinds
<1>2. pc'[s] \in Places(s) /\ pc'[s] \notin Resting /\ pc'[s] # "writing"
  BY <1>1 DEF Places, Resting
<1> QED
  BY <1>1, <1>2 DEF TaskInv, Places, WritesOneInstant

\* What rests is not at work.
LEMMA RestsIdle ==
  ASSUME IInv, NEW t \in Tasks, Free(t)
  PROVE  pc[t] = "idle" /\ pc[t] # "stopped" /\ job[t] = Idle
  BY DEF IInv, TaskInv, Free, Resting

-----------------------------------------------------------------------------
(* Ingest.                                                                 *)

LEMMA ReportStep ==
  ASSUME IInv, NEW f \in Flights, NEW l \in Landings, NEW settled \in BOOLEAN, Report(f, l, settled)
  PROVE  IInv'
<1> DEFINE det == IF settled THEN "settled" ELSE "first"
           x == [op |-> "insert", flight |-> f, landing |-> l, by |-> "ingest",
                 began |-> IF f = Recording THEN Len(rows) ELSE 0, det |-> det,
                 status |-> IF settled THEN "final" ELSE "provisional"]
<1>1. f \in Tasks /\ pc[f] = "idle" /\ job[f] = Idle
  BY Kinds, RestsIdle DEF Report
<1>2. PendingOK' /\ reported' \in [Flights -> SUBSET Landings]
  BY DEF Report, IInv, TypeOK, PendingOK, Ids
<1>3. CASE f = Recording /\ IsDuplicate(l, det)
  <2>1. Go(f, pc[f], job[f])
    BY <1>1, <1>3 DEF Report, Go, IInv, TypeOK
  <2>2. TaskInv(f)'
    BY <1>1, <2>1, GoMoves, AtRest DEF IInv, Places, Resting
  <2> QED
    BY <1>1, <1>2, <2>1, <2>2, QuietStep DEF Report
<1>4. CASE ~(f = Recording /\ IsDuplicate(l, det))
  <2>1. Go(f, "resolving", x) /\ UNCHANGED <<bouncing, rows>>
    BY <1>4 DEF Report
  <2>2. pc'[f] = "resolving" /\ job'[f] = x
    BY <1>1, <2>1, GoMoves DEF IInv
  <2>3. x \in Reports(f) /\ x.began \in Nat /\ x.began <= Len(rows)
    BY DEF Reports, IInv, TypeOK, Detections
  <2>4. ASSUME l \notin bouncing, NEW i \in Ids, i <= x.began, rows[i].landing = l, ~rows[i].gone
        PROVE  FALSE
    <3>1. f = Recording
      BY <2>4 DEF Ids
    <3>2. i \in Stored /\ Touchdown(l, rows[i].det) = Touchdown(l, det)
      BY <2>4 DEF Stored, Touchdown
    <3> QED
      BY <1>4, <2>4, <3>1, <3>2 DEF IsDuplicate
  <2>5. f = Live => x.began = 0
    BY Kinds
  <2>6. Reporting(f)'
    BY <2>1, <2>2, <2>3, <2>4, <2>5 DEF Reporting, Ids
  <2>7. TaskInv(f)'
    BY <2>2, <2>3, <2>6, InFlight DEF FlightTask, Reports
  <2> QED
    BY <1>1, <1>2, <2>1, <2>7, QuietStep DEF Report
<1> QED
  BY <1>3, <1>4

LEMMA ConfirmStep ==
  ASSUME IInv, NEW f \in Flights, NEW l \in Landings, Confirm(f, l)
  PROVE  IInv'
<1> DEFINE x == [op |-> "finalize", id |-> pending[f][l], det |-> "settled"]
<1>1. f \in Tasks /\ pc[f] = "idle"
  BY Kinds, RestsIdle DEF Confirm
<1>2. PendingOK' /\ reported' \in [Flights -> SUBSET Landings]
  BY DEF Confirm, IInv, TypeOK, PendingOK, Ids
<1>3. Go(f, "resolving", x) /\ pc'[f] = "resolving" /\ job'[f] = x
  BY <1>1, GoMoves DEF IInv, Confirm
<1>4. pending[f][l] \in Ids
  BY DEF IInv, TypeOK, Confirm
<1>5. x \in Confirmations /\ x.id \in Ids'
  BY <1>4 DEF Confirmations, Ids, Confirm
<1>6. TaskInv(f)'
  BY <1>3, <1>5, InFlight DEF FlightTask
<1> QED
  BY <1>1, <1>2, <1>3, <1>6, QuietStep DEF Confirm

\* The grade is added to what the task carries.
WithGrade(j, g) == Over(j, [graded |-> g])

LEMMA GradedReport ==
  ASSUME NEW f, NEW j \in Reports(f), NEW g \in Graded
  PROVE  /\ WithGrade(j, g) \in GradedReports(f) /\ WithGrade(j, g).graded = g
         /\ \A c \in {"det", "landing", "began"} : WithGrade(j, g)[c] = j[c]
  BY DEF WithGrade, Over, Reports, GradedReports

LEMMA GradedConfirmation ==
  ASSUME NEW j \in Confirmations, NEW g \in Graded
  PROVE  /\ WithGrade(j, g) \in GradedConfirmations /\ WithGrade(j, g).graded = g
         /\ \A c \in {"det", "id"} : WithGrade(j, g)[c] = j[c]
  BY DEF WithGrade, Over, Confirmations, GradedConfirmations

LEMMA GradedEntity ==
  ASSUME NEW j \in Entities, NEW g \in Graded
  PROVE  /\ WithGrade(j, g) \in GradedEntities /\ WithGrade(j, g).graded = g
         /\ \A c \in {"op", "det", "id", "entity"} : WithGrade(j, g)[c] = j[c]
  BY DEF WithGrade, Over, Entities, GradedEntities

LEMMA GradedFind ==
  ASSUME NEW j \in Finds, NEW g \in Graded
  PROVE  /\ WithGrade(j, g) \in GradedFinds /\ WithGrade(j, g).graded = g
         /\ \A c \in {"det", "flight", "landing", "began", "rest"} : WithGrade(j, g)[c] = j[c]
  BY DEF WithGrade, Over, Finds, GradedFinds

LEMMA GradeFlight ==
  ASSUME IInv, NEW f \in Flights, Grade(f)
  PROVE  TaskInv(f)'
<1> DEFINE j == job[f]  g == GradeOf(job[f].det)
<1>1. f \in Tasks /\ FlightTask(f)
  BY Kinds DEF IInv, TaskInv
<1>2. job'[f] = WithGrade(j, g) /\ pc'[f] = (IF j.op = "insert" THEN "storing" ELSE "loading")
  BY <1>1, GoMoves DEF Grade, IInv, WithGrade
<1>3. UNCHANGED <<bouncing, rows>>
  BY DEF Grade
<1>4. CASE j \in Reports(f) /\ Reporting(f)
  <2>1. j.det \in Detections /\ j.op = "insert"
    BY <1>4 DEF Reports
  <2>2. g \in Graded /\ g.det = j.det
    BY <2>1, Grades DEF IInv
  <2> HIDE DEF g, j
  <2>3. /\ job'[f] \in GradedReports(f) /\ job'[f].graded.det = job'[f].det
        /\ job'[f].landing = j.landing /\ job'[f].began = j.began
    BY <1>2, <1>4, <2>2, GradedReport
  <2>4. Reporting(f)'
    BY <1>3, <1>4, <2>3 DEF Reporting, Ids, j
  <2> QED
    BY <1>2, <2>1, <2>3, <2>4, InFlight DEF FlightTask
<1>5. CASE j \in Confirmations /\ j.id \in Ids
  <2>1. j.det \in Detections /\ j.op = "finalize"
    BY <1>5 DEF Confirmations, Detections
  <2>2. g \in Graded /\ g.det = j.det
    BY <2>1, Grades DEF IInv
  <2> HIDE DEF g, j
  <2>3. /\ job'[f] \in GradedConfirmations /\ job'[f].graded.det = job'[f].det
        /\ job'[f].id = j.id
    BY <1>2, <1>5, <2>2, GradedConfirmation
  <2> QED
    BY <1>2, <1>3, <1>5, <2>1, <2>3, InFlight DEF FlightTask, Ids
<1> QED
  BY <1>1, <1>4, <1>5 DEF Grade, FlightTask

LEMMA GradeRequest ==
  ASSUME IInv, NEW q \in Requests, Grade(q)
  PROVE  TaskInv(q)'
<1> DEFINE j == job[q]  g == GradeOf(job[q].det)
<1>1. q \in Tasks /\ j \in Entities /\ Reading(q)
  BY Kinds DEF IInv, TaskInv, RequestTask, Grade
<1>2. j.op = "rebuild" /\ j.det \in Detections
  BY <1>1 DEF Entities, Grade, Detections
<1>3. job'[q] = WithGrade(j, g) /\ pc'[q] = "loading"
  BY <1>1, <1>2, GoMoves DEF Grade, IInv, WithGrade
<1>4. g \in Graded /\ g.det = j.det
  BY <1>2, Grades DEF IInv
<1>5. UNCHANGED <<rows, torn>>
  BY DEF Grade
<1> HIDE DEF g, j
<1>6. /\ job'[q] \in GradedEntities /\ job'[q].graded.det = job'[q].det
      /\ job'[q].id = j.id /\ job'[q].entity = j.entity /\ job'[q].op = "rebuild"
  BY <1>1, <1>2, <1>3, <1>4, GradedEntity
<1>7. Reading(q)'
  BY <1>1, <1>5, <1>6 DEF Reading, Ids, j
<1> QED
  BY <1>3, <1>6, <1>7, InRequest DEF RequestTask

LEMMA GradeRescan ==
  ASSUME IInv, NEW s \in Rescans, Grade(s)
  PROVE  TaskInv(s)'
<1> DEFINE j == job[s]  g == GradeOf(job[s].det)
<1>1. s \in Tasks /\ j \in Finds /\ FindIsNew(s) /\ lock = {s} /\ ScanKnows(Scanned(s), Ahead(s))
  BY Kinds DEF IInv, TaskInv, RescanTask, AtWork, Grade
<1>2. j.op = "insert" /\ j.det \in Detections
  BY <1>1 DEF Finds, Detections
<1>3. job'[s] = WithGrade(j, g) /\ pc'[s] = "storing" /\ pc[s] = "resolving"
  BY <1>1, <1>2, GoMoves DEF Grade, IInv, WithGrade
<1>4. g \in Graded /\ g.det = j.det
  BY <1>2, Grades DEF IInv
<1>5. UNCHANGED <<rows, lock>> /\ \A f \in Flights : FlightExists(f)' <=> FlightExists(f)
  <2>1. UNCHANGED <<rows, lock>>
    BY DEF Grade
  <2>2. Recording \in Tasks \ {s}
    BY Kinds
  <2>3. pc'[Recording] = pc[Recording]
    BY <1>1, <2>2, GoMoves DEF Grade, IInv
  <2> QED
    BY <2>1, <2>3 DEF FlightExists
<1> HIDE DEF g, j
<1>6. /\ job'[s] \in GradedFinds /\ job'[s].graded.det = job'[s].det
      /\ job'[s].flight = j.flight /\ job'[s].landing = j.landing
      /\ job'[s].began = j.began /\ job'[s].rest = j.rest
  BY <1>1, <1>3, <1>4, GradedFind
<1>7. FindIsNew(s)'
  BY <1>1, <1>5, <1>6 DEF FindIsNew, Matches, j
<1>8. j.rest \in Scans /\ j.rest.flight \in Flights
  BY <1>1 DEF Finds, Scans
<1>9. ScanKnows(Scanned(s), Ahead(s))'
  <2>1. /\ Scanned(s) = j.rest /\ Scanned(s)' = j.rest
        /\ Ahead(s) = j.rest.contacts \cup {j.landing} /\ Ahead(s)' = Ahead(s)
    BY <1>3, <1>6 DEF Scanned, Ahead, j
  <2> QED
    BY <1>1, <1>5, <1>8, <2>1 DEF ScanKnows, Ids
<1> QED
  BY <1>1, <1>3, <1>5, <1>6, <1>7, <1>9, InRescan DEF RescanTask, AtWork

LEMMA GradeStep ==
  ASSUME IInv, NEW t \in Tasks, Grade(t)
  PROVE  IInv'
<1>1. TaskInv(t)'
  BY Kinds, GradeFlight, GradeRequest, GradeRescan
<1>2. PendingOK' /\ reported' \in [Flights -> SUBSET Landings]
  BY DEF Grade, IInv, TypeOK, PendingOK, Ids
<1>3. PICK w, x : Go(t, w, x)
  BY DEF Grade
<1> QED
  BY <1>1, <1>2, <1>3, QuietStep DEF Grade

LEMMA StoreStep ==
  ASSUME IInv, NEW f \in Flights, Store(f)
  PROVE  IInv'
<1> DEFINE j == job[f]  r == NewRow(job[f])  n == Len(rows')
<1>1. /\ f \in Tasks /\ j \in GradedReports(f) /\ Reporting(f) /\ j.graded.det = j.det
      /\ pc[f] = "storing"
  BY Kinds DEF IInv, TaskInv, FlightTask, Store
<1>2. /\ pc'[f] = "idle" /\ job'[f] = Idle
      /\ \A u \in Tasks \ {f} : TaskKept(u)
      /\ pc' = [u \in Tasks |-> pc'[u]] /\ job' = [u \in Tasks |-> job'[u]]
  BY <1>1, GoMoves DEF IInv, TaskKept, Store, Done
<1>3. /\ r \in Row /\ ~r.gone /\ r.by = "ingest"
      /\ r.landing = j.landing /\ r.began = j.began
      /\ r.track = j.graded /\ r.grade = j.graded /\ r.det = j.det
  BY <1>1 DEF GradedReports, NewRow, Row
<1>4. Whole(r)
  BY <1>1, <1>3 DEF Whole
<1>5. rows' = Append(rows, r) /\ UNCHANGED <<bouncing, torn, config, reported, lock>>
  BY DEF Store
<1> HIDE DEF r
<1>6. /\ rows' \in Seq(Row) /\ Ids' = Ids \cup {n} /\ n \notin Ids
      /\ rows'[n] = r /\ \A i \in Ids : rows'[i] = rows[i]
  BY <1>3, <1>5, Appended DEF IInv, TypeOK
<1>7. Unknown(r)
  BY <1>1, <1>3 DEF Unknown, Reporting
<1>8. \A u \in Flights : FlightExists(u)' => FlightExists(u)
  BY <1>1, <1>2, Kinds DEF FlightExists, TaskKept
<1>9. WorldKept /\ GoneWithFlight' /\ OneInstant' /\ NoSecondRow'
  BY <1>3, <1>4, <1>5, <1>7, <1>8, RowAdded
<1>10. \A u \in Tasks \ {f} : RowLeftTo(u) /\ RescanAlone(u)
  <2>1. \A u \in Tasks \ {f} : pc[u] = "writing" => job[u].id \in Ids
    BY DEF IInv, TaskInv, WritesOneInstant
  <2> QED
    BY <2>1, <1>3, <1>5, <1>6 DEF RowLeftTo, RescanAlone
<1>11. PendingOK'
  <2>1. CASE pending' = pending
    BY <2>1, <1>6 DEF IInv, TypeOK, PendingOK
  <2>2. CASE pending' = [pending EXCEPT ![f] = Over(@, [l \in {j.landing} |-> n])]
    <3>1. j.landing \in Landings
      BY <1>1 DEF GradedReports
    <3>2. /\ pending'[f] = Over(pending[f], [l \in {j.landing} |-> n])
          /\ \A g \in Flights \ {f} : pending'[g] = pending[g]
          /\ pending' = [g \in Flights |-> pending'[g]]
      BY <2>2 DEF IInv, TypeOK
    <3>3. ASSUME NEW l \in DOMAIN pending'[f]
          PROVE  l \in Landings /\ pending'[f][l] \in Ids'
      BY <3>1, <3>2, <3>3, <1>6 DEF Over, IInv, TypeOK
    <3> QED
      BY <3>2, <3>3, <1>6 DEF PendingOK, IInv, TypeOK
  <2> QED
    BY <2>1, <2>2 DEF Store
<1>12. TypeOK'
  BY <1>2, <1>5, <1>6, <1>11 DEF TypeOK, PendingOK, IInv
<1>13. TaskInv(f)'
  BY <1>1, <1>2, AtRest DEF Places, Resting
<1> QED
  BY <1>1, <1>2, <1>9, <1>10, <1>12, <1>13, OneStep

\* A detection rewrites everything it decides, to one instant.
LEMMA Rewritten ==
  ASSUME NEW r \in Row, NEW j, j.det \in Detections, j.graded \in Graded, j.graded.det = j.det
  PROVE  GradedEvent(r, j) \in Row /\ Whole(GradedEvent(r, j))
  BY DEF GradedEvent, Row, Whole

LEMMA GetStep ==
  ASSUME IInv, NEW f \in Flights, Get(f)
  PROVE  IInv'
<1> DEFINE i == job[f].id  new == GradedEvent(rows[i], job[f])
<1>1. /\ f \in Tasks /\ job[f] \in GradedConfirmations /\ i \in Ids
      /\ job[f].graded.det = job[f].det /\ pc[f] = "loading"
  BY Kinds DEF IInv, TaskInv, FlightTask, Get
<1>2. PendingOK' /\ reported' \in [Flights -> SUBSET Landings]
  BY DEF Get, IInv, TypeOK, PendingOK, Ids
<1>3. CASE Done(f)
  <2>1. Go(f, "idle", Idle)
    BY <1>1, <1>3 DEF Done
  <2>2. TaskInv(f)'
    BY <1>1, <2>1, GoMoves, AtRest DEF IInv, Places, Resting
  <2> QED
    BY <1>1, <1>2, <2>1, <2>2, QuietStep DEF Get
<1>4. CASE Load(f, i, new)
  <2>1. new \in Row /\ Whole(new)
    BY <1>1, Rewritten, RowFlights DEF IInv, GradedConfirmations, Detections
  <2>2. TaskInv(f)'
    BY <1>1, <1>4, <2>1, Loads DEF Get
  <2> QED
    BY <1>1, <1>2, <1>4, <2>2, QuietStep DEF Get, Load
<1> QED
  BY <1>3, <1>4 DEF Get

LEMMA NothingPending == DOMAIN <<>> = {}
  OBVIOUS

LEMMA FinishStep ==
  ASSUME IInv, NEW f \in Flights, Finish(f)
  PROVE  IInv'
<1>1. f \in Tasks /\ pc[f] = "idle" /\ Go(f, "ended", Idle)
  BY Kinds, RestsIdle DEF Finish
<1>2. PendingOK' /\ reported' \in [Flights -> SUBSET Landings]
  <2>1. /\ pending' = [g \in Flights |-> pending'[g]] /\ pending'[f] = <<>>
        /\ \A g \in Flights \ {f} : pending'[g] = pending[g]
    BY DEF Finish, IInv, TypeOK
  <2>2. PendingOK'
    BY <2>1, NothingPending DEF PendingOK, Finish, IInv, TypeOK, Ids
  <2> QED
    BY <2>2 DEF Finish, IInv, TypeOK
<1>3. TaskInv(f)'
  BY <1>1, GoMoves, AtRest DEF IInv, Places, Resting
<1> QED
  BY <1>1, <1>2, <1>3, QuietStep DEF Finish

-----------------------------------------------------------------------------
(* The requests of the API.                                                *)

LEMMA AskStep ==
  ASSUME IInv, NEW q \in Requests, NEW i \in Ids, NEW op \in {"regrade", "rebuild"}, Ask(q, i, op)
  PROVE  IInv'
<1> DEFINE x == [op |-> op, id |-> i, entity |-> rows[i], det |-> "redone", config |-> config]
<1>1. q \in Tasks /\ q # Recording
  BY Kinds
<1>2. Go(q, "resolving", x) /\ pc'[q] = "resolving" /\ job'[q] = x
  BY <1>1, GoMoves DEF Ask, IInv
<1>3. UNCHANGED <<rows, torn>> /\ i \in Stored
  BY DEF Ask
<1>4. x \in Entities
  BY RowFlights DEF Entities, IInv, TypeOK, Ids
<1>5. i \notin torn => Whole(rows[i])
  BY <1>3 DEF IInv, OneInstant, Whole
<1>6. Reading(q)'
  BY <1>2, <1>3, <1>5 DEF Reading, Ids
<1>7. TaskInv(q)'
  BY <1>2, <1>4, <1>6, InRequest DEF RequestTask
<1>8. PendingOK' /\ reported' \in [Flights -> SUBSET Landings]
  BY DEF Ask, IInv, TypeOK, PendingOK, Ids
<1> QED
  BY <1>1, <1>2, <1>7, <1>8, QuietStep DEF Ask

LEMMA RegradeStep ==
  ASSUME IInv, NEW q \in Requests, Regrade(q)
  PROVE  IInv'
<1> DEFINE j == job[q]  g == [det |-> job[q].entity.track.det, config |-> job[q].config]
<1>1. q \in Tasks /\ q # Recording /\ j \in Entities /\ Reading(q) /\ j.op = "regrade"
  BY Kinds DEF IInv, TaskInv, RequestTask, Regrade
<1>2. Go(q, "loading", WithGrade(j, g)) /\ pc'[q] = "loading" /\ job'[q] = WithGrade(j, g)
  BY <1>1, GoMoves DEF Regrade, IInv, WithGrade
<1>3. UNCHANGED <<rows, torn>>
  BY DEF Regrade
<1>4. g \in Graded /\ g.det = j.entity.track.det
  BY <1>1 DEF Entities, Row, Graded
<1> HIDE DEF g
<1>5. /\ job'[q] \in GradedEntities /\ job'[q].graded = g /\ job'[q].op = "regrade"
      /\ job'[q].id = j.id /\ job'[q].entity = j.entity
  BY <1>1, <1>2, <1>4, GradedEntity
<1>6. Reading(q)'
  BY <1>1, <1>3, <1>5 DEF Reading, Ids
<1>7. TaskInv(q)'
  BY <1>2, <1>4, <1>5, <1>6, InRequest DEF RequestTask
<1>8. PendingOK' /\ reported' \in [Flights -> SUBSET Landings]
  BY DEF Regrade, IInv, TypeOK, PendingOK, Ids
<1> QED
  BY <1>1, <1>2, <1>7, <1>8, QuietStep DEF Regrade

LEMMA RefuseStep ==
  ASSUME IInv, NEW q \in Requests, Refuse(q)
  PROVE  IInv'
<1>1. q \in Tasks /\ q # Recording /\ q \notin Flights /\ Go(q, "done", Idle)
  BY Kinds DEF Refuse, Done
<1>2. TaskInv(q)'
  BY <1>1, GoMoves, AtRest DEF IInv, Places, Resting
<1>3. PendingOK' /\ reported' \in [Flights -> SUBSET Landings]
  BY DEF Refuse, IInv, TypeOK, PendingOK, Ids
<1> QED
  BY <1>1, <1>2, <1>3, QuietStep DEF Refuse

\* What a request makes of a row of one instant is a row of one instant.
LEMMA RemadeWhole ==
  ASSUME NEW j \in GradedEntities,
         j.graded.det = IF j.op = "rebuild" THEN j.det ELSE j.entity.track.det
  PROVE  Remade(j) \in Row /\ (Whole(j.entity) => Whole(Remade(j)))
<1>1. j.entity \in Row /\ j.graded \in Graded /\ j.det \in Detections
  BY DEF GradedEntities, Detections
<1> QED
  BY <1>1 DEF Remade, GradedEvent, Row, Whole

LEMMA MergeStep ==
  ASSUME IInv, NEW q \in Requests, Merge(q)
  PROVE  IInv'
<1> DEFINE j == job[q]
<1>1. /\ q \in Tasks /\ q # Recording /\ q \notin Flights /\ j \in GradedEntities /\ Reading(q)
      /\ j.graded.det = IF j.op = "rebuild" THEN j.det ELSE j.entity.track.det
  BY Kinds DEF IInv, TaskInv, RequestTask, Merge
<1>2. PendingOK' \/ rows' # rows
  BY DEF Merge, IInv, TypeOK, PendingOK, Ids
<1>3. reported' \in [Flights -> SUBSET Landings]
  BY DEF Merge, IInv, TypeOK
<1>4. CASE ~rows[j.id].gone
  <2>1. Load(q, j.id, Remade(j)) /\ UNCHANGED <<rows, torn>>
    BY <1>4 DEF Merge, Merged
  <2>2. TaskInv(q)'
    BY <1>1, <2>1, RemadeWhole, Loads DEF Reading
  <2> QED
    BY <1>1, <1>2, <1>3, <2>1, <2>2, QuietStep DEF Merge, Load
<1>5. CASE rows[j.id].gone
  <2>1. ~FlightExists(j.entity.flight)
    BY <1>1, <1>5 DEF Reading, IInv, GoneWithFlight
  <2>2. rows' = rows /\ Go(q, "done", Idle)
    BY <1>1, <1>5, <2>1 DEF Merge, Reinserts, Done
  <2>3. TaskInv(q)'
    BY <1>1, <2>2, GoMoves, AtRest DEF IInv, Places, Resting
  <2> QED
    BY <1>1, <1>2, <1>3, <2>2, <2>3, QuietStep DEF Merge
<1> QED
  BY <1>4, <1>5

-----------------------------------------------------------------------------
(* The rescans.                                                            *)

LEMMA BeginStep ==
  ASSUME IInv, NEW s \in Rescans, NEW f \in Flights, NEW contacts \in SUBSET Landings,
         Begin(s, f, contacts)
  PROVE  IInv'
<1> DEFINE x == [op |-> "rescan", flight |-> f, began |-> Len(rows), contacts |-> contacts,
                 stored |-> {i \in Stored : rows[i].flight = f}]
<1>1. s \in Tasks /\ s # Recording /\ s \notin Flights
  BY Kinds
<1>2. Go(s, "scanning", x) /\ pc'[s] = "scanning" /\ job'[s] = x
  BY <1>1, GoMoves DEF Begin, IInv
<1>3. UNCHANGED rows /\ FlightExists(f) /\ lock = {} /\ lock' = {s}
  BY DEF Begin, LockFree
<1>4. x \in Scans /\ x.began = Len(rows) /\ Len(rows) \in Nat /\ x.stored \subseteq Ids
  BY DEF Scans, IInv, TypeOK, Stored, Ids
<1>5. \A i \in Ids : rows[i].flight = f => i \in x.stored
  BY <1>3 DEF IInv, GoneWithFlight, Stored
<1>6. ScanKnows(Scanned(s), Ahead(s))'
  <2>1. Scanned(s)' = x
    BY <1>2 DEF Scanned
  <2>2. x.flight = f
    OBVIOUS
  <2> HIDE DEF x
  <2> QED
    BY <1>3, <1>4, <1>5, <2>1, <2>2 DEF ScanKnows, Ids
<1>7. RescanTask(s)'
  BY <1>2, <1>3, <1>4, <1>6 DEF RescanTask, AtWork
<1>8. TaskInv(s)'
  BY <1>2, <1>7, InRescan
<1>9. PendingOK' /\ reported' \in [Flights -> SUBSET Landings]
  BY DEF Begin, IInv, TypeOK, PendingOK, Ids
<1>10. \A u \in Rescans \ {s} : ~AtWork(u)
  BY <1>3, Kinds DEF IInv, TaskInv, RescanTask
<1> QED
  BY <1>1, <1>2, <1>8, <1>9, <1>10, QuietStep DEF Begin

LEMMA ScanStep ==
  ASSUME IInv, NEW s \in Rescans, NEW l \in Landings, Scan(s, l)
  PROVE  IInv'
<1> DEFINE j == job[s]
           rest == [j EXCEPT !.contacts = @ \ {l}]
           x == [op |-> "insert", flight |-> j.flight, landing |-> l,
                 by |-> "rescan", began |-> j.began, det |-> "redone",
                 status |-> "final", rest |-> rest]
<1>1. /\ s \in Tasks /\ s # Recording /\ s \notin Flights /\ pc[s] = "scanning" /\ l \in j.contacts
      /\ j \in Scans /\ lock = {s} /\ ScanKnows(j, j.contacts)
  BY Kinds DEF IInv, TaskInv, RescanTask, AtWork, Scanned, Ahead, Scan
<1>2. UNCHANGED <<rows, lock>>
  BY DEF Scan
<1>3. /\ rest \in Scans /\ rest.contacts = j.contacts \ {l} /\ rest.flight = j.flight
      /\ rest.began = j.began /\ rest.stored = j.stored
  BY <1>1 DEF Scans
<1>4. PICK w, b : Go(s, w, b)
  BY DEF Scan
<1>5. \A f \in Flights : FlightExists(f)' <=> FlightExists(f)
  <2>1. Recording \in Tasks \ {s}
    BY <1>1, Kinds
  <2>2. pc'[Recording] = pc[Recording]
    BY <1>1, <1>4, <2>1, GoMoves DEF IInv
  <2> QED
    BY <2>2 DEF FlightExists
<1>6. ASSUME Scanned(s)' = rest, Ahead(s)' \subseteq j.contacts
      PROVE  ScanKnows(Scanned(s), Ahead(s))'
  <2>1. Scanned(s)'.flight \in Flights /\ Scanned(s)'.flight = j.flight
    BY <1>1, <1>3, <1>6 DEF Scans
  <2>2. FlightExists(Scanned(s).flight)' => FlightExists(j.flight)
    BY <1>5, <2>1 DEF FlightExists
  <2> HIDE DEF rest
  <2> QED
    BY <1>1, <1>2, <1>3, <1>6, <2>1, <2>2 DEF ScanKnows, Ids
<1>7. ASSUME Matches(j, l)
      PROVE  TaskInv(s)'
  <2>1. pc'[s] = "scanning" /\ job'[s] = rest
    BY <1>1, <1>7, GoMoves DEF IInv, Scan
  <2> HIDE DEF rest
  <2>2. ScanKnows(Scanned(s), Ahead(s))'
    BY <1>3, <1>6, <2>1 DEF Scanned, Ahead
  <2>3. RescanTask(s)'
    BY <1>1, <1>2, <1>3, <2>1, <2>2 DEF RescanTask, AtWork
  <2> QED
    BY <2>1, <2>3, InRescan
<1>8. ASSUME ~Matches(j, l)
      PROVE  TaskInv(s)'
  <2> Go(s, "resolving", x)
    BY <1>8 DEF Scan
  <2>1. pc'[s] = "resolving" /\ job'[s] = x
    BY <1>1, GoMoves DEF IInv
  <2>2. ~(\E i \in j.stored : rows[i].landing = l)
    BY <1>8 DEF Matches
  <2> HIDE DEF rest
  <2>3. /\ x \in Finds /\ x.rest = rest /\ x.flight = j.flight /\ x.began = j.began
        /\ x.landing = l
    BY <1>1, <1>3 DEF Finds, Scans
  <2> HIDE DEF x
  <2>4. FindIsNew(s)'
    BY <1>2, <1>3, <2>1, <2>2, <2>3 DEF FindIsNew, Matches
  <2>5. ScanKnows(Scanned(s), Ahead(s))'
    BY <1>1, <1>3, <1>6, <2>1, <2>3 DEF Scanned, Ahead
  <2>6. RescanTask(s)'
    BY <1>1, <1>2, <2>1, <2>3, <2>4, <2>5 DEF RescanTask, AtWork
  <2> QED
    BY <2>1, <2>6, InRescan
<1>9. TaskInv(s)'
  BY <1>7, <1>8
<1>10. PendingOK' /\ reported' \in [Flights -> SUBSET Landings]
  BY DEF Scan, IInv, TypeOK, PendingOK, Ids
<1> HIDE DEF rest
<1> QED
  BY <1>1, <1>4, <1>9, <1>10, QuietStep DEF Scan

\* A rescan that ends gives the lock back; nobody else is at work.
LEMMA RescanEnds ==
  ASSUME IInv, NEW s \in Rescans, AtWork(s), Done(s), lock' = lock \ {s},
         UNCHANGED <<bouncing, config, rows, pending, reported, torn>>
  PROVE  IInv'
<1>1. s \in Tasks /\ s # Recording /\ s \notin Flights /\ s \notin Requests /\ Go(s, "done", Idle)
  BY Kinds DEF Done
<1>2. TaskInv(s)'
  BY <1>1, GoMoves, AtRest DEF IInv, Places, Resting
<1>3. lock = {s} /\ \A u \in Rescans \ {s} : ~AtWork(u)
  BY Kinds DEF IInv, TaskInv, RescanTask
<1>4. PendingOK' /\ reported' \in [Flights -> SUBSET Landings]
  BY DEF IInv, TypeOK, PendingOK, Ids
<1> QED
  BY <1>1, <1>2, <1>3, <1>4, QuietStep

LEMMA EndStep ==
  ASSUME IInv, NEW s \in Rescans, End(s)
  PROVE  IInv'
  BY RescanEnds DEF End, AtWork

LEMMA RecordStep ==
  ASSUME IInv, NEW s \in Rescans, Record(s)
  PROVE  IInv'
<1> DEFINE j == job[s]  r == NewRow(job[s])  n == Len(rows')
<1>1. /\ s \in Tasks /\ s # Recording /\ s \notin Flights /\ pc[s] = "storing"
      /\ j \in GradedFinds /\ FindIsNew(s) /\ j.graded.det = j.det
      /\ lock = {s} /\ ScanKnows(Scanned(s), Ahead(s))
      /\ Scanned(s) = j.rest /\ Ahead(s) = j.rest.contacts \cup {j.landing}
  BY Kinds DEF IInv, TaskInv, RescanTask, AtWork, Scanned, Ahead, Record
<1>2. CASE ~FlightExists(j.flight)
  BY <1>1, <1>2, RescanEnds DEF Record, AtWork
<1>3. CASE FlightExists(j.flight)
  <2>1. /\ Go(s, "scanning", j.rest)
        /\ rows' = Append(rows, r)
        /\ UNCHANGED <<bouncing, torn, config, pending, reported, lock>>
    BY <1>3 DEF Record
  <2>2. /\ pc'[s] = "scanning" /\ job'[s] = j.rest
        /\ \A u \in Tasks \ {s} : TaskKept(u)
        /\ pc' = [u \in Tasks |-> pc'[u]] /\ job' = [u \in Tasks |-> job'[u]]
    BY <1>1, <2>1, GoMoves DEF IInv, TaskKept
  <2>3. /\ r \in Row /\ ~r.gone /\ r.by = "rescan"
        /\ r.landing = j.landing /\ r.began = j.began /\ r.flight = j.flight
        /\ r.track = j.graded /\ r.grade = j.graded /\ r.det = j.det
    BY <1>1 DEF GradedFinds, NewRow, Row, Detections
  <2>4. Whole(r)
    BY <1>1, <2>3 DEF Whole
  <2>5. j.rest \in Scans /\ j.flight = j.rest.flight /\ j.began = j.rest.began
        /\ j.landing \notin j.rest.contacts
    BY <1>1 DEF GradedFinds, FindIsNew
  <2> HIDE DEF r
  <2>6. \A i \in Ids : rows[i].flight = j.flight /\ rows[i].landing = j.landing =>
          rows[i].by # "rescan" /\ ~(i <= j.began)
    BY <1>1, <1>3, <2>5 DEF ScanKnows, FindIsNew, Matches
  <2>7. Unknown(r)
    BY <2>3, <2>6 DEF Unknown
  <2>8. \A u \in Flights : FlightExists(u)' <=> FlightExists(u)
    BY <1>1, <2>2, Kinds DEF FlightExists, TaskKept
  <2>9. WorldKept /\ GoneWithFlight' /\ OneInstant' /\ NoSecondRow'
    BY <2>1, <2>3, <2>4, <2>7, <2>8, RowAdded
  <2>10. /\ rows' \in Seq(Row) /\ Len(rows') = Len(rows) + 1 /\ Len(rows) \in Nat
         /\ Ids' = Ids \cup {n} /\ n \notin Ids
         /\ rows'[n] = r /\ \A i \in Ids : rows'[i] = rows[i]
    BY <2>1, <2>3, Appended DEF IInv, TypeOK
  <2>11. \A u \in Tasks \ {s} : RowLeftTo(u) /\ RescanAlone(u)
    <3>1. \A u \in Tasks \ {s} : pc[u] = "writing" => job[u].id \in Ids
      BY DEF IInv, TaskInv, WritesOneInstant
    <3>2. \A u \in Tasks \ {s} : RowLeftTo(u)
      BY <3>1, <2>10 DEF RowLeftTo
    <3>3. \A u \in Rescans \ {s} : ~AtWork(u)
      BY <1>1, Kinds DEF IInv, TaskInv, RescanTask
    <3> QED
      BY <3>2, <3>3 DEF RescanAlone
  <2>12. TypeOK'
    BY <2>1, <2>2, <2>10 DEF TypeOK, IInv
  <2>13. ScanKnows(Scanned(s), Ahead(s))'
    <3>1. FlightExists(j.rest.flight) /\ Scanned(s)' = j.rest /\ Ahead(s)' = j.rest.contacts
      BY <1>3, <2>2, <2>5 DEF Scanned, Ahead
    <3>2. j.rest.began <= Len(rows') /\ j.rest.stored \subseteq Ids'
      BY <1>1, <2>5, <2>10 DEF ScanKnows, Scans
    <3>3. \A i \in Ids : rows[i].flight = j.rest.flight =>
            /\ i <= j.rest.began => i \in j.rest.stored
            /\ rows[i].by = "rescan" /\ rows[i].landing \in j.rest.contacts => i \in j.rest.stored
      BY <1>1, <3>1 DEF ScanKnows
    <3>4. ~(n <= j.rest.began) /\ rows'[n].landing \notin j.rest.contacts
      BY <1>1, <2>3, <2>5, <2>10 DEF ScanKnows, Scans
    <3> QED
      BY <3>1, <3>2, <3>3, <3>4, <2>10 DEF ScanKnows
  <2>14. RescanTask(s)'
    BY <1>1, <2>1, <2>2, <2>5, <2>13 DEF RescanTask, AtWork
  <2>15. TaskInv(s)'
    BY <2>2, <2>14, InRescan
  <2> QED
    BY <1>1, <2>2, <2>9, <2>11, <2>12, <2>15, OneStep
<1> QED
  BY <1>2, <1>3

-----------------------------------------------------------------------------
(* The writers of the table.                                               *)

LEMMA WriteStep ==
  ASSUME IInv, NEW t \in Tasks, Write(t)
  PROVE  IInv'
<1> DEFINE i == job[t].id  d == job[t].delta
<1>1. /\ i \in Ids /\ Delta(d) /\ (i \notin torn => Whole(Over(d, rows[i])))
      /\ pc[t] = "writing" /\ pc[t] \in Places(t)
  BY DEF IInv, TaskInv, WritesOneInstant, Write
<1>2. t \notin Rescans /\ Done(t)
  BY <1>1, Kinds DEF Places, Write
<1>3. PICK w \in {"idle", "done"} : w \in Places(t) \cap Resting /\ Go(t, w, Idle)
  BY <1>2, Kinds DEF Done, Places, Resting
<1>4. /\ pc'[t] = w /\ job'[t] = Idle
      /\ \A u \in Tasks \ {t} : TaskKept(u)
      /\ pc' = [u \in Tasks |-> pc'[u]] /\ job' = [u \in Tasks |-> job'[u]]
  BY <1>3, GoMoves DEF IInv, TaskKept
<1>5. TaskInv(t)'
  BY <1>3, <1>4, AtRest
<1>6. UNCHANGED <<may, bouncing, config, pending, reported, lock>>
  BY DEF Write
<1>7. CASE rows[i].gone
  <2>1. UNCHANGED <<rows, torn>>
    BY <1>7 DEF Write
  <2>2. PendingOK' /\ reported' \in [Flights -> SUBSET Landings]
    BY <1>6, <2>1 DEF IInv, TypeOK, PendingOK, Ids
  <2> QED
    BY <1>1, <1>3, <1>5, <1>6, <2>1, <2>2, QuietStep
<1>8. CASE ~rows[i].gone
  <2>1. /\ rows' = [rows EXCEPT ![i] = Over(d, rows[i])]
        /\ torn' = IF \E u \in Tasks \ {t} : pc[u] = "writing" /\ job[u].id = i
                   THEN torn \cup {i} ELSE torn
    BY <1>8 DEF Write
  <2>2. /\ Over(d, rows[i]) \in Row
        /\ \A c \in {"flight", "landing", "by", "began", "gone"} : Over(d, rows[i])[c] = rows[i][c]
    BY <1>1, Overwritten, RowFlights DEF IInv
  <2>3. /\ rows' \in Seq(Row) /\ Len(rows') = Len(rows) /\ Ids' = Ids /\ Len(rows) \in Nat
        /\ rows'[i] = Over(d, rows[i]) /\ \A k \in Ids \ {i} : rows'[k] = rows[k]
    BY <1>1, <2>1, <2>2 DEF IInv, TypeOK, Ids
  <2>4. \A f \in Flights : FlightExists(f)' => FlightExists(f)
    BY <1>1, <1>4, Kinds DEF FlightExists, TaskKept
  <2>5. WorldKept
    <3>1. RowsKept
      BY <2>2, <2>3 DEF RowsKept
    <3> QED
      BY <1>6, <2>1, <2>4, <3>1 DEF WorldKept
  <2>6. \A u \in Tasks \ {t} : RowLeftTo(u) /\ RescanAlone(u)
    <3>1. \A u \in Tasks \ {t} : pc[u] = "writing" => job[u].id \in Ids
      BY DEF IInv, TaskInv, WritesOneInstant
    <3>2. ASSUME NEW u \in Tasks \ {t}, pc[u] = "writing", job[u].id = i
          PROVE  job[u].id \in torn'
      BY <2>1, <3>2
    <3> QED
      BY <1>6, <2>3, <3>1, <3>2 DEF RowLeftTo, RescanAlone
  <2>7. \A k \in Ids : rows'[k].gone \/ k \in torn' \/ Whole(rows'[k])
    BY <1>1, <2>1, <2>3 DEF IInv, OneInstant, Stored, Whole
  <2>8. \A k \in Ids : rows'[k].gone => ~FlightExists(rows[k].flight)'
    <3>1. \A k \in Ids : rows'[k].gone = rows[k].gone /\ rows'[k].flight = rows[k].flight
      BY <2>2, <2>3
    <3> QED
      BY <2>4, <3>1, RowFlights DEF IInv, GoneWithFlight, FlightExists
  <2>9. GoneWithFlight' /\ OneInstant' /\ NoSecondRow'
    BY <2>3, <2>5, <2>7, <2>8, RowsRewritten DEF IInv
  <2>10. TypeOK'
    BY <1>4, <1>6, <2>3 DEF TypeOK, IInv
  <2> QED
    BY <1>4, <1>5, <2>5, <2>6, <2>9, <2>10, OneStep
<1> QED
  BY <1>7, <1>8

\* Settling rows changes nothing but their status.
LEMMA SettledRows ==
  ASSUME IInv, NEW is, rows' = Settled(is), UNCHANGED <<bouncing, torn>>,
         \A f \in Flights : FlightExists(f)' => FlightExists(f)
  PROVE  /\ WorldKept /\ GoneWithFlight' /\ OneInstant' /\ NoSecondRow'
         /\ Len(rows') = Len(rows) /\ Ids' = Ids
         /\ \A i \in Ids : /\ rows'[i].det = rows[i].det
                           /\ rows'[i].track = rows[i].track /\ rows'[i].grade = rows[i].grade
<1>1. \A i \in Ids : rows[i] \in Row
  BY RowFlights DEF IInv
<1>2. \A i \in Ids : [rows[i] EXCEPT !.status = "final"] \in Row
  BY <1>1 DEF Row
<1>3. rows' \in Seq(Row) /\ Len(rows') = Len(rows) /\ Ids' = Ids /\ Len(rows) \in Nat
  BY <1>1, <1>2 DEF Settled, Ids, IInv, TypeOK
<1>4. \A i \in Ids : rows'[i] \in {rows[i], [rows[i] EXCEPT !.status = "final"]}
  BY DEF Settled
<1>5. \A i \in Ids : \A c \in {"flight", "landing", "by", "began", "gone", "det", "track", "grade"} :
        rows'[i][c] = rows[i][c]
  BY <1>1, <1>4 DEF Row
<1>6. WorldKept
  <2>1. RowsKept
    BY <1>3, <1>5 DEF RowsKept
  <2> QED
    BY <2>1 DEF WorldKept
<1>7. \A i \in Ids : rows'[i].gone \/ i \in torn' \/ Whole(rows'[i])
  BY <1>5 DEF IInv, OneInstant, Stored, Whole
<1>8. \A i \in Ids : rows'[i].gone => ~FlightExists(rows[i].flight)'
  <2>1. \A i \in Ids : rows'[i].gone = rows[i].gone /\ rows'[i].flight = rows[i].flight
    BY <1>5
  <2> QED
    BY <2>1, RowFlights DEF IInv, GoneWithFlight, FlightExists
<1>9. GoneWithFlight' /\ OneInstant' /\ NoSecondRow'
  BY <1>3, <1>6, <1>7, <1>8, RowsRewritten DEF IInv
<1> QED
  BY <1>3, <1>5, <1>6, <1>9

LEMMA ReapStep ==
  ASSUME IInv, NEW n \in Ids, Reap(n)
  PROVE  IInv'
<1>1. /\ rows' = Settled(Stale(n))
      /\ UNCHANGED <<may, bouncing, config, pending, reported, pc, job, lock, torn>>
  BY DEF Reap
<1>2. \A f \in Flights : FlightExists(f)' => FlightExists(f)
  BY <1>1 DEF FlightExists
<1>3. /\ WorldKept /\ GoneWithFlight' /\ OneInstant' /\ NoSecondRow'
      /\ Len(rows') = Len(rows) /\ Ids' = Ids
      /\ \A i \in Ids : /\ rows'[i].det = rows[i].det
                        /\ rows'[i].track = rows[i].track /\ rows'[i].grade = rows[i].grade
  BY <1>1, <1>2, SettledRows
<1>4. TypeOK'
  BY <1>1, <1>3 DEF TypeOK, IInv, WorldKept, RowsKept
<1>5. ASSUME NEW u \in Tasks
      PROVE  TaskInv(u)'
  <2>1. pc[u] = "writing" => job[u].id \in Ids
    BY DEF IInv, TaskInv, WritesOneInstant
  <2>2. TaskKept(u) /\ RowLeftTo(u) /\ RescanAlone(u)
    BY <1>1, <1>3, <2>1 DEF TaskKept, RowLeftTo, RescanAlone
  <2> QED
    BY <1>3, <2>2, StillTaskInv DEF IInv
<1> QED
  BY <1>3, <1>4, <1>5 DEF IInv

LEMMA RestartStep ==
  ASSUME IInv, Restart
  PROVE  IInv'
<1>1. /\ rows' = Settled(Provisional) /\ pending' = [f \in Flights |-> <<>>]
      /\ pc' = [t \in Tasks |-> AfterRestart(t)] /\ job' = [t \in Tasks |-> Idle]
      /\ UNCHANGED <<bouncing, config, reported, torn>>
  BY DEF Restart
<1>2. \A f \in Flights : FlightExists(f)' => FlightExists(f)
  BY <1>1, Kinds DEF FlightExists, AfterRestart
<1>3. WorldKept /\ GoneWithFlight' /\ OneInstant' /\ NoSecondRow'
  BY <1>1, <1>2, SettledRows
<1>4. TypeOK'
  BY <1>1, <1>3, NothingPending DEF TypeOK, IInv, WorldKept, RowsKept
<1>5. ASSUME NEW u \in Tasks
      PROVE  TaskInv(u)'
  <2>1. pc[u] \in Places(u)
    BY DEF IInv, TaskInv
  <2>2. AfterRestart(u) \in Places(u) \cap Resting
    BY <2>1, Kinds DEF AfterRestart, Places, Resting
  <2> QED
    BY <1>1, <2>2, AtRest
<1> QED
  BY <1>3, <1>4, <1>5 DEF IInv

LEMMA DiscardStep ==
  ASSUME IInv, Discard
  PROVE  IInv'
<1>1. /\ rows' = [i \in Ids |-> [rows[i] EXCEPT !.gone = @ \/ rows[i].flight = Recording]]
      /\ pending' = [pending EXCEPT ![Recording] = <<>>]
      /\ Go(Recording, "stopped", Idle)
      /\ UNCHANGED <<may, bouncing, config, reported, lock, torn>>
  BY DEF Discard
<1>2. Recording \in Tasks /\ Recording \in Flights
  BY Kinds
<1>3. /\ pc'[Recording] = "stopped" /\ job'[Recording] = Idle
      /\ \A u \in Tasks \ {Recording} : TaskKept(u)
      /\ pc' = [u \in Tasks |-> pc'[u]] /\ job' = [u \in Tasks |-> job'[u]]
  BY <1>1, <1>2, GoMoves DEF IInv, TaskKept
<1>4. \A i \in Ids : rows[i] \in Row
  BY RowFlights DEF IInv
<1>5. \A i \in Ids :
        /\ rows'[i] \in Row
        /\ rows'[i].gone <=> rows[i].gone \/ rows[i].flight = Recording
        /\ \A c \in {"flight", "landing", "by", "began", "det", "track", "grade"} :
             rows'[i][c] = rows[i][c]
  BY <1>1, <1>4 DEF Row
<1>6. rows' \in Seq(Row) /\ Len(rows') = Len(rows) /\ Ids' = Ids /\ Len(rows) \in Nat
  BY <1>1, <1>5 DEF Ids, IInv, TypeOK
<1>7. WorldKept
  <2>1. RowsKept
    BY <1>5, <1>6 DEF RowsKept
  <2>2. \A f \in Flights : FlightExists(f)' => FlightExists(f)
    BY <1>3, Kinds DEF FlightExists
  <2> QED
    BY <1>1, <2>1, <2>2 DEF WorldKept
<1>8. \A i \in Ids : rows'[i].gone \/ i \in torn' \/ Whole(rows'[i])
  <2> SUFFICES ASSUME NEW i \in Ids, ~rows'[i].gone, i \notin torn'
               PROVE  Whole(rows'[i])
    OBVIOUS
  <2>1. Whole(rows[i])
    BY <1>1, <1>5 DEF IInv, OneInstant, Stored, Whole
  <2>2. rows'[i].det = rows[i].det /\ rows'[i].track = rows[i].track /\ rows'[i].grade = rows[i].grade
    BY <1>5
  <2> QED
    BY <2>1, <2>2 DEF Whole
<1>9. \A i \in Ids : rows'[i].gone => ~FlightExists(rows[i].flight)'
  <2> SUFFICES ASSUME NEW i \in Ids, rows'[i].gone
               PROVE  ~FlightExists(rows[i].flight)'
    OBVIOUS
  <2>1. rows'[i].flight = rows[i].flight
    BY <1>5
  <2>2. rows'[i].flight = Recording
    BY <1>5, <2>1, RowFlights, Kinds DEF IInv, GoneWithFlight, FlightExists
  <2> QED
    BY <1>3, <2>2, Kinds DEF FlightExists
<1>10. GoneWithFlight' /\ OneInstant' /\ NoSecondRow'
  BY <1>6, <1>7, <1>8, <1>9, RowsRewritten DEF IInv
<1>11. TypeOK'
  <2>1. /\ pending' = [f \in Flights |-> pending'[f]] /\ pending'[Recording] = <<>>
        /\ \A f \in Flights \ {Recording} : pending'[f] = pending[f]
    BY <1>1, <1>2 DEF IInv, TypeOK
  <2> QED
    BY <1>1, <1>3, <1>6, <2>1, NothingPending DEF TypeOK, IInv
<1>12. TaskInv(Recording)'
  BY <1>2, <1>3, AtRest DEF Places, Resting
<1>13. \A u \in Tasks \ {Recording} : RowLeftTo(u) /\ RescanAlone(u)
  <2>1. \A u \in Tasks : pc[u] = "writing" => job[u].id \in Ids
    BY DEF IInv, TaskInv, WritesOneInstant
  <2> QED
    BY <1>1, <1>5, <1>6, <2>1 DEF RowLeftTo, RescanAlone
<1> QED
  BY <1>2, <1>3, <1>7, <1>10, <1>11, <1>12, <1>13, OneStep

LEMMA NothingStep ==
  ASSUME IInv, config' \in 0 .. MaxConfig,
         UNCHANGED <<bouncing, rows, pending, reported, pc, job, lock, torn>>
  PROVE  IInv'
<1>1. WorldKept
  BY DEF WorldKept, RowsKept, IInv, TypeOK, FlightExists
<1>2. \A u \in Tasks : TaskInv(u)'
  BY <1>1, StillTaskInv DEF IInv, TaskKept, RowLeftTo, RescanAlone, Ids
<1>3. TypeOK'
  BY DEF TypeOK, IInv, Ids
<1>4. \A i \in Ids : (rows'[i].gone \/ i \in torn' \/ Whole(rows'[i]))
                     /\ (rows'[i].gone => ~FlightExists(rows[i].flight)')
  BY DEF IInv, OneInstant, GoneWithFlight, Stored, Whole, FlightExists
<1>5. GoneWithFlight' /\ OneInstant' /\ NoSecondRow'
  BY <1>1, <1>4, RowsRewritten DEF IInv
<1> QED
  BY <1>2, <1>3, <1>5 DEF IInv

-----------------------------------------------------------------------------
LEMMA InitInv == Init => IInv
<1> SUFFICES ASSUME Init PROVE IInv
  OBVIOUS
<1>1. Len(rows) = 0 /\ rows \in Seq(Row)
  BY DEF Init
<1>2. Ids = {}
  BY <1>1 DEF Ids
<1>3. TypeOK
  BY <1>1, NothingPending, RowsAssumption DEF Init, TypeOK
<1>4. \A t \in Tasks : TaskInv(t)
  BY Kinds DEF Init, TaskInv, Places, Resting, FlightTask, RequestTask, RescanTask, AtWork,
               WritesOneInstant
<1>5. GoneWithFlight /\ OneInstant /\ NoSecondRow
  BY <1>2 DEF GoneWithFlight, OneInstant, NoSecondRow, Stored
<1> QED
  BY <1>3, <1>4, <1>5 DEF IInv

LEMMA NextInv == IInv /\ [Next]_vars => IInv'
<1> SUFFICES ASSUME IInv, [Next]_vars PROVE IInv'
  OBVIOUS
<1>1. CASE UNCHANGED vars
  <2>1. config' \in 0 .. MaxConfig
    BY <1>1 DEF vars, IInv, TypeOK
  <2> QED
    BY <1>1, <2>1, NothingStep DEF vars
<1>2. ASSUME NEW f \in Flights, Ingest(f) \/ Finish(f) PROVE IInv'
  BY <1>2, ReportStep, ConfirmStep, StoreStep, GetStep, FinishStep DEF Ingest
<1>3. ASSUME NEW s \in Rescans, Rescan(s) PROVE IInv'
  <2>1. \A f \in Flights : Recorded(f) \subseteq Landings
    BY DEF Recorded
  <2> QED
    BY <1>3, <2>1, BeginStep, ScanStep, RecordStep, EndStep DEF Rescan
<1>4. ASSUME NEW q \in Requests, Request(q) PROVE IInv'
  BY <1>4, AskStep, RegradeStep, RefuseStep, MergeStep DEF Request
<1>5. ASSUME NEW t \in Tasks, Grade(t) \/ Write(t) PROVE IInv'
  BY <1>5, GradeStep, WriteStep
<1>6. ASSUME NEW n \in Ids, Reap(n) PROVE IInv'
  BY <1>6, ReapStep
<1>7. CASE Reload
  <2>1. config' \in 0 .. MaxConfig
    BY <1>7, RowsAssumption DEF Reload, IInv, TypeOK
  <2> QED
    BY <1>7, <2>1, NothingStep DEF Reload
<1> QED
  BY <1>1, <1>2, <1>3, <1>4, <1>5, <1>6, <1>7, RestartStep, DiscardStep DEF Next

\* The invariant holds of every behaviour.
THEOREM Inductive == Spec => []IInv
BY InitInv, NextInv, PTL DEF Spec

\* Every variable keeps its type.
THEOREM TypeCorrect == Spec => []TypeOK
<1>1. IInv => TypeOK
  BY DEF IInv
<1> QED
  BY <1>1, Inductive, PTL

\* What a row says is of one detection and one configuration, unless two
\* transactions updated it at once.
THEOREM RowsOfOneInstant == Spec => []OneInstant
<1>1. IInv => OneInstant
  BY DEF IInv
<1> QED
  BY <1>1, Inductive, PTL

\* No rescan stores a landing twice, and no import one with its touchdown.
THEOREM NoSecondRows == Spec => []NoSecondRow
<1>1. IInv => NoSecondRow
  BY DEF IInv
<1> QED
  BY <1>1, Inductive, PTL

\* No step brings a discarded row back.
LEMMA NextKeepsGone ==
  ASSUME IInv, [Next]_vars
  PROVE  \A i \in Ids : rows[i].gone => rows'[i].gone
<1> DEFINE Kept == \A i \in Ids : rows[i].gone => rows'[i].gone
<1>1. CASE UNCHANGED rows
  BY <1>1
<1>2. ASSUME NEW f \in Flights, Ingest(f) \/ Finish(f) PROVE Kept
  <2>1. ASSUME Store(f) PROVE Kept
    <3>1. job[f] \in GradedReports(f)
      BY <2>1, Kinds DEF IInv, TaskInv, FlightTask, Store
    <3>2. NewRow(job[f]) \in Row
      BY <3>1 DEF GradedReports, NewRow, Row
    <3> QED
      BY <2>1, <3>2, Appended DEF Store, IInv, TypeOK
  <2> QED
    BY <1>1, <1>2, <2>1 DEF Ingest, Report, Confirm, Get, Finish
<1>3. ASSUME NEW s \in Rescans, Rescan(s) PROVE Kept
  <2>1. ASSUME Record(s), rows' # rows PROVE Kept
    <3>1. job[s] \in GradedFinds
      BY <2>1, Kinds DEF IInv, TaskInv, RescanTask, Record
    <3>2. NewRow(job[s]) \in Row
      BY <3>1 DEF GradedFinds, NewRow, Row, Detections
    <3> QED
      BY <2>1, <3>2, Appended DEF Record, IInv, TypeOK
  <2> QED
    BY <1>1, <1>3, <2>1 DEF Rescan, Begin, Scan, End
<1>4. ASSUME NEW q \in Requests, Request(q) PROVE Kept
  <2>1. ASSUME Merge(q) PROVE UNCHANGED rows
    <3>1. Reading(q)
      BY <2>1, Kinds DEF IInv, TaskInv, RequestTask, Merge
    <3>2. rows[job[q].id].gone => ~FlightExists(job[q].entity.flight)
      BY <3>1 DEF Reading, IInv, GoneWithFlight
    <3> QED
      BY <2>1, <3>2 DEF Merge, Reinserts
  <2> QED
    BY <1>1, <1>4, <2>1 DEF Request, Ask, Regrade, Refuse
<1>5. ASSUME NEW t \in Tasks, Grade(t) \/ Write(t) PROVE Kept
  <2>1. ASSUME Write(t), ~rows[job[t].id].gone PROVE Kept
    BY <2>1 DEF Write, IInv, TypeOK, Ids
  <2> QED
    BY <1>1, <1>5, <2>1 DEF Grade, Write
<1>6. ASSUME NEW is, rows' = Settled(is) PROVE Kept
  BY <1>6, RowFlights DEF Settled, IInv, Row
<1>7. CASE Discard
  BY <1>7, RowFlights DEF Discard, IInv, Row
<1>8. CASE Restart
  BY <1>6, <1>8 DEF Restart
<1>9. ASSUME NEW n \in Ids, Reap(n) PROVE Kept
  BY <1>6, <1>9 DEF Reap
<1> QED
  BY <1>1, <1>2, <1>3, <1>4, <1>5, <1>7, <1>8, <1>9 DEF Next, Reload, vars

\* Discarded rows stay away, whoever still holds one.
THEOREM DiscardedRowsStayGone == Spec => GoneStaysGone
<1>1. IInv /\ [Next]_vars => [\A i \in Ids : rows[i].gone => rows'[i].gone]_vars
  BY NextKeepsGone
<1> QED
  BY <1>1, Inductive, PTL DEF Spec, GoneStaysGone
================================================================================

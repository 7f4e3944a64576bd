-------------------------- MODULE LandingConfirmation --------------------------
(***************************************************************************)
(* The two-phase confirmation of landings: TrackIngestor's detection pass  *)
(* (ingest.py, _maybe_detect_landing and what it calls), the rows that     *)
(* LandingPipeline stores for it, and the three things that happen behind  *)
(* its back: a session rotation, the stale-provisional reaper, and a       *)
(* restart of the process.                                                 *)
(*                                                                         *)
(* One instance is one source: handle_line is awaited line by line, so at  *)
(* most one pass is running; the reaper and a crash come between any two   *)
(* of its awaits.                                                          *)
(*                                                                         *)
(* The detector is external to this module.  A pass may find any set of    *)
(* at most MaxEvents landings, finalized or not, whatever earlier passes   *)
(* found: a contact can vanish (it sank through the deck, or left the      *)
(* rolling buffer) and a finalized outcome can reopen (a bounce absorbed   *)
(* after a climb).                                                         *)
(***************************************************************************)
EXTENDS Integers, Sequences, FiniteSets

CONSTANTS
  Aircraft,       \* ACMI object ids of aircraft
  Time,           \* first-contact times on the mission clock, restarted by every mission
  MaxFlight,      \* bound: flight rows, one for each session rotation or restart
  MaxEvents,      \* bound: landings in one rolling buffer
  MaxFaults,      \* bound: database or notification failures
  NoRow,          \* provisionalIds[k] when k is not in _provisional_ids
  NoPass          \* no detection pass is running

ASSUME ConfirmationAssumption ==
  /\ Time \subseteq Int
  /\ MaxFlight \in Nat \ {0} /\ MaxEvents \in Nat /\ MaxFaults \in Nat
  /\ NoRow \notin Nat

VARIABLES
  flight,               \* _flight_id of the session being ingested
  lastWow,              \* _last_wow: "deck" is True, "off" False or None; "none"
                        \* when the aircraft has no sample in its buffer yet
  provisionalIds,       \* _provisional_ids: key -> row id
  reportedLandings,     \* _reported_landings: set of keys
  provisionalAircraft,  \* _provisional_aircraft
  pass,                 \* the for loop of _maybe_detect_landing, when it is running
  landings,             \* the landings table of this source, by row id
  handed,               \* history: the landings handed to the pipeline
  faults                \* number of failures so far

memory == <<lastWow, provisionalIds, reportedLandings, provisionalAircraft, pass>>
vars == <<flight, memory, landings, handed, faults>>

--------------------------------------------------------------------------------
Key     == Aircraft \X Time
Landing == (1..MaxFlight) \X Aircraft \X Time
Event   == [first : Time, finalized : BOOLEAN]
Wow     == {"none", "off", "deck"}
Pass    == [obj : Aircraft, todo : SUBSET Event, force : BOOLEAN]

ASSUME NoPassAssumption == NoPass \notin Pass

\* A row of the landings table: the landing it was stored for (its flight_id,
\* object and first contact), the landing last written into it, its
\* outcome_status, and whether its id came back to the ingestor.
Row == [landing : Landing, written : Landing,
        status : {"provisional", "final"}, acked : BOOLEAN]

\* The ingestor's key of a landing.  The mission is no part of it.
KeyOf(l) == <<l[2], l[3]>>

\* What analyze_track can return: each first contact at most once.  On the
\* removal-driven pass (current_time is None) every event is finalized.
Detections(force) ==
  {S \in SUBSET Event :
     /\ Cardinality(S) <= MaxEvents
     /\ \A e, f \in S : e.first = f.first => e = f
     /\ force => \A e \in S : e.finalized}

Init ==
  /\ flight = 1
  /\ lastWow = [o \in Aircraft |-> "none"]
  /\ provisionalIds = [k \in Key |-> NoRow]
  /\ reportedLandings = {}
  /\ provisionalAircraft = {}
  /\ pass = NoPass
  /\ landings = <<>>
  /\ handed = {}
  /\ faults = 0

Fault == faults < MaxFaults /\ faults' = faults + 1

--------------------------------------------------------------------------------
(***************************************************************************)
(* Entering the pass                                                       *)
(***************************************************************************)

\* The detection gate: a fresh contact, or something pending for this aircraft.
GateOpen(o, wow) ==
  \/ lastWow[o] # "deck" /\ wow = "deck"
  \/ o \in provisionalAircraft

\* _settle_provisional_state: the aircraft leaves the gate when none of its
\* keys is pending.
\* As a bug: the aircraft leaves the gate after every pass.
MutSettled(o) == provisionalAircraft \ {o}

Settled(o) ==
  IF \E k \in Key : k[1] = o /\ provisionalIds[k] # NoRow
  THEN provisionalAircraft ELSE provisionalAircraft \ {o}

\* One update line of o whose newest sample reads wow.
Sample(o) ==
  /\ pass = NoPass
  /\ \E wow \in Wow \ {"none"} :
       /\ lastWow' = [lastWow EXCEPT ![o] = wow]
       /\ \/ \* the gate is closed
             /\ ~GateOpen(o, wow)
             /\ UNCHANGED <<provisionalAircraft, pass, faults>>
          \/ \* the full pass finds nothing
             /\ GateOpen(o, wow)
             /\ provisionalAircraft' = Settled(o)
             /\ UNCHANGED <<pass, faults>>
          \/ \* it finds landings, and the pending batch is committed first
             /\ GateOpen(o, wow)
             /\ \E found \in Detections(FALSE) \ {{}} :
                  pass' = [obj |-> o, todo |-> found, force |-> FALSE]
             /\ UNCHANGED <<provisionalAircraft, faults>>
          \/ \* that commit fails: the line is given up, the gate stays moved
             /\ GateOpen(o, wow)
             /\ Fault
             /\ UNCHANGED <<provisionalAircraft, pass>>
  /\ UNCHANGED <<flight, provisionalIds, reportedLandings, landings, handed>>

\* A remove line of o: a final pass over what the buffer holds, no gate.
Remove(o) ==
  /\ pass = NoPass
  /\ lastWow[o] # "none"
  /\ \/ /\ provisionalAircraft' = Settled(o)
        /\ UNCHANGED <<pass, faults>>
     \/ /\ \E found \in Detections(TRUE) \ {{}} :
             pass' = [obj |-> o, todo |-> found, force |-> TRUE]
        /\ UNCHANGED <<provisionalAircraft, faults>>
     \/ /\ Fault
        /\ UNCHANGED <<provisionalAircraft, pass>>
  /\ UNCHANGED <<flight, lastWow, provisionalIds, reportedLandings, landings, handed>>

--------------------------------------------------------------------------------
(***************************************************************************)
(* The loop over the landings found, oldest contact first                  *)
(***************************************************************************)
Oldest ==
  IF pass = NoPass THEN {}
  ELSE {e \in pass.todo : \A f \in pass.todo : e.first <= f.first}

KeyAt(e)     == <<pass.obj, e.first>>
LandingAt(e) == <<flight, pass.obj, e.first>>
IsFinal(e)   == e.finalized \/ pass.force

Pending(e) == provisionalIds[KeyAt(e)] # NoRow

\* As a bug: the set is never consulted.
MutReportedNever(e) == FALSE

Reported(e) == KeyAt(e) \in reportedLandings

Advance(e) == pass' = [pass EXCEPT !.todo = @ \ {e}]

\* The id the database gave to the row just inserted.  As a bug: the id of the
\* row before it.
MutNewId == Len(landings)
NewId == Len(landings) + 1

NewRow(e, status, acked) ==
  [landing |-> LandingAt(e), written |-> LandingAt(e), status |-> status, acked |-> acked]

\* A provisional landing that is already pending or already settled.
SkipProvisional(e) ==
  /\ ~IsFinal(e)
  /\ Pending(e) \/ Reported(e)
  /\ Advance(e)
  /\ UNCHANGED <<flight, lastWow, provisionalIds, reportedLandings,
                 provisionalAircraft, landings, handed, faults>>

\* _dispatch(provisional=True).  The listener stores the row and returns its
\* id; or fails before the commit; or fails after it (session.refresh), in
\* which case the row exists and the ingestor does not know it.
ReportProvisional(e) ==
  /\ ~IsFinal(e)
  /\ ~Pending(e) /\ ~Reported(e)
  /\ Advance(e)
  /\ handed' = handed \union {LandingAt(e)}
  /\ \/ /\ landings' = Append(landings, NewRow(e, "provisional", TRUE))
        /\ provisionalIds' = [provisionalIds EXCEPT ![KeyAt(e)] = NewId]
        /\ provisionalAircraft' = provisionalAircraft \union {pass.obj}
        /\ UNCHANGED faults
     \/ /\ Fault
        /\ landings' \in {landings, Append(landings, NewRow(e, "provisional", FALSE))}
        /\ UNCHANGED <<provisionalIds, provisionalAircraft>>
  /\ UNCHANGED <<flight, lastWow, reportedLandings>>

\* The outcome of a pending landing is settled: finalize_landing rewrites its
\* row.  A failure is logged and swallowed; the key is gone by then.
ConfirmPending(e) ==
  /\ IsFinal(e)
  /\ Pending(e)
  /\ Advance(e)
  /\ handed' = handed \union {LandingAt(e)}
  /\ reportedLandings' = reportedLandings \union {KeyAt(e)}
  /\ provisionalIds' = [provisionalIds EXCEPT ![KeyAt(e)] = NoRow]
  /\ \/ /\ landings' = [landings EXCEPT ![provisionalIds[KeyAt(e)]].written = LandingAt(e),
                                        ![provisionalIds[KeyAt(e)]].status = "final"]
        /\ UNCHANGED faults
     \/ Fault /\ UNCHANGED landings
  /\ UNCHANGED <<flight, lastWow, provisionalAircraft>>

SkipReported(e) ==
  /\ IsFinal(e)
  /\ ~Pending(e) /\ Reported(e)
  /\ Advance(e)
  /\ UNCHANGED <<flight, lastWow, provisionalIds, reportedLandings,
                 provisionalAircraft, landings, handed, faults>>

\* _dispatch(provisional=False): first seen with its outcome settled.  The key
\* is marked reported before the listener runs, so a failure is not retried.
ReportFinal(e) ==
  /\ IsFinal(e)
  /\ ~Pending(e) /\ ~Reported(e)
  /\ Advance(e)
  /\ handed' = handed \union {LandingAt(e)}
  /\ reportedLandings' = reportedLandings \union {KeyAt(e)}
  /\ \/ landings' = Append(landings, NewRow(e, "final", TRUE)) /\ UNCHANGED faults
     \/ /\ Fault
        /\ landings' \in {landings, Append(landings, NewRow(e, "final", FALSE))}
  /\ UNCHANGED <<flight, lastWow, provisionalIds, provisionalAircraft>>

FinishPass ==
  /\ pass # NoPass /\ pass.todo = {}
  /\ provisionalAircraft' = Settled(pass.obj)
  /\ pass' = NoPass
  /\ UNCHANGED <<flight, lastWow, provisionalIds, reportedLandings, landings, handed, faults>>

--------------------------------------------------------------------------------
(***************************************************************************)
(* What happens behind the pass                                            *)
(***************************************************************************)

\* _rotate_session: the mission restarted.  The per-session detection state
\* goes; _provisional_ids and _reported_landings stay.  (When the flush in it
\* fails nothing has been cleared yet and the next line tries again.)
Rotate ==
  /\ pass = NoPass
  /\ flight < MaxFlight
  /\ flight' = flight + 1
  /\ lastWow' = [o \in Aircraft |-> "none"]
  /\ provisionalAircraft' = {}
  /\ UNCHANGED <<provisionalIds, reportedLandings, pass, landings, handed, faults>>

\* The rows whose status is "provisional" among the first n stored.  As a bug:
\* the newest of them is left out.
MutProvisional(n) ==
  {r \in 1..(n - 1) : r \in DOMAIN landings /\ landings[r].status = "provisional"}

Provisional(n) == {r \in 1..n : r \in DOMAIN landings /\ landings[r].status = "provisional"}

\* As a bug: what is still provisional is deleted instead.
MutSettleRows(S) ==
  landings' = SelectSeq(landings, LAMBDA row : row.status # "provisional")

SettleRows(S) ==
  landings' = [r \in DOMAIN landings |->
                 IF r \in S THEN [landings[r] EXCEPT !.status = "final"] ELSE landings[r]]

\* The reaper settles every provisional row created before its cutoff.
Reap ==
  /\ \E n \in DOMAIN landings : Provisional(n) # {} /\ SettleRows(Provisional(n))
  /\ UNCHANGED <<flight, memory, handed, faults>>

\* The process dies at any point and starts again: the ingestor's memory is
\* new, and settle_orphaned_provisionals runs before the source is started.
Restart ==
  /\ flight < MaxFlight
  /\ flight' = flight + 1
  /\ lastWow' = [o \in Aircraft |-> "none"]
  /\ provisionalIds' = [k \in Key |-> NoRow]
  /\ reportedLandings' = {}
  /\ provisionalAircraft' = {}
  /\ pass' = NoPass
  /\ SettleRows(Provisional(Len(landings)))
  /\ UNCHANGED <<handed, faults>>

Next ==
  \/ \E o \in Aircraft : Sample(o) \/ Remove(o)
  \/ \E e \in Oldest :
       \/ SkipProvisional(e) \/ ReportProvisional(e) \/ ConfirmPending(e)
       \/ SkipReported(e) \/ ReportFinal(e)
  \/ FinishPass
  \/ Rotate \/ Reap \/ Restart

\* The reaper is a loop that sleeps and swallows every exception; lines,
\* rotations and crashes need not ever come.
Fairness == WF_vars(Reap)

Spec == Init /\ [][Next]_vars /\ Fairness

--------------------------------------------------------------------------------
(***************************************************************************)
(* Properties                                                              *)
(***************************************************************************)

\* Every variable has its type.
TypeOK ==
  /\ flight \in 1..MaxFlight
  /\ lastWow \in [Aircraft -> Wow]
  /\ provisionalIds \in [Key -> Nat \union {NoRow}]
  /\ reportedLandings \subseteq Key
  /\ provisionalAircraft \subseteq Aircraft
  /\ pass \in Pass \union {NoPass}
  /\ landings \in Seq(Row)
  /\ handed \subseteq Landing
  /\ faults \in 0..MaxFaults

\* One arrival is one row, however many passes see it, whatever order they see
\* its outcome in and however often the mission restarts: two rows of the same
\* landing need a listener that stored one of them and still failed, so its id
\* never came back.  (ingest.py, "Key on the first ground contact": one bouncy
\* arrival used to produce three rows.)
OneRowPerLanding ==
  \A r, s \in DOMAIN landings :
    r # s /\ landings[r].landing = landings[s].landing
      => ~landings[r].acked \/ ~landings[s].acked

\* A pending key leads to a row stored for that aircraft and first contact, in
\* this mission or an earlier one, whose outcome no pass has written yet.
PendingNamesItsRow ==
  \A k \in Key : provisionalIds[k] # NoRow =>
    /\ provisionalIds[k] \in DOMAIN landings
    /\ KeyOf(landings[provisionalIds[k]].landing) = k
    /\ landings[provisionalIds[k]].written = landings[provisionalIds[k]].landing

Foreign(r) == landings[r].written # landings[r].landing

\* A row shows another landing than its own only when that one came later, by
\* the same object id at the same contact time, and has no row of its own.
ForeignFollows ==
  \A r \in DOMAIN landings : Foreign(r) =>
    /\ KeyOf(landings[r].written) = KeyOf(landings[r].landing)
    /\ landings[r].landing[1] < landings[r].written[1]
    /\ \A s \in DOMAIN landings : landings[s].landing # landings[r].written

\* No landing is shown by two rows.
ShownOnce ==
  \A r, s \in DOMAIN landings :
    r # s /\ landings[r].written = landings[s].written
      => ~landings[r].acked \/ ~landings[s].acked

\* A confirmation writes the outcome of a landing into the row stored for it.
\* The one way astray is a key that a rotation kept (_provisional_ids outlives
\* the mission): then the row shows a landing of the later mission, in place
\* of the one it was stored for, and no third row is touched.  (That even this
\* happens is what NoForeignTouchdown shows.)
ConfirmsItsRow == PendingNamesItsRow /\ ForeignFollows /\ ShownOnce

\* No landing is both awaiting its outcome and reported as final: a pending
\* landing would never be confirmed, or a confirmed one confirmed again.
PendingOrReported ==
  \A k \in Key : ~(provisionalIds[k] # NoRow /\ k \in reportedLandings)

\* Nothing is left provisional in the table without the ingestor waiting to
\* confirm it, unless the listener failed: the confirmation of a landing is
\* never forgotten by a pass, a removal, a rotation or a restart.
NoOrphanWithoutFault ==
  faults = 0 =>
    \A r \in DOMAIN landings :
      landings[r].status = "provisional" => provisionalIds[KeyOf(landings[r].landing)] = r

\* The gate stays open for an aircraft with a landing of this session pending,
\* or nothing would run the pass that confirms it (_provisional_aircraft,
\* Issue #47 gate).
PendingKeepsGateOpen ==
  \A k \in Key :
    provisionalIds[k] # NoRow /\ landings[provisionalIds[k]].landing[1] = flight
      => k[1] \in provisionalAircraft

\* A landing a pass goes past has been given to the pipeline, in this mission
\* or, under the same aircraft and contact time, in an earlier one: nothing
\* but a landing of that very key ever suppresses it.
SuppressesOnlyKnownKeys ==
  [][\A e \in Oldest : Advance(e) =>
       \E f \in 1..flight : <<f, pass.obj, e.first>> \in handed']_vars

\* Every landing a pass goes past has been given to the pipeline at least
\* once.  (_maybe_rotate_session: a reported key "can only ever suppress a
\* re-detection, never a new event".)
NothingNewIsSuppressed ==
  [][\A e \in Oldest : Advance(e) => LandingAt(e) \in handed']_vars

\* A row describes the landing it was stored for, whatever missions follow.
\* (_maybe_rotate_session: "Without the rotation [...] stale provisional keys
\* were popped by the new mission's events (rows overwritten with a foreign
\* touchdown)".)
NoForeignTouchdown == \A r \in DOMAIN landings : ~Foreign(r)

\* A pass that finds nothing leaves nothing to confirm, so the aircraft leaves
\* the gate.  (_settle_provisional_state: "once every pending key has been
\* finalized (or vanished) ... the aircraft can leave the gate again".)
FindsNothing(o) ==
  /\ Sample(o)
  /\ GateOpen(o, lastWow'[o]) /\ pass' = NoPass /\ UNCHANGED faults

VanishedLeavesGate ==
  [][\A o \in Aircraft : FindsNothing(o) => o \notin provisionalAircraft']_vars

\* No row stays provisional: whatever became of its confirmation, the reaper
\* or the next start settles it (Issue #36: otherwise it is "provisional"
\* forever).
HasStatus(r, s) == r \in DOMAIN landings /\ landings[r].status = s

EventuallyFinal ==
  \A r \in 1..(MaxFlight * Cardinality(Key) + MaxFaults) :
    HasStatus(r, "provisional") ~> HasStatus(r, "final")

\* The rows of a landing, and what the table says of it.
RowsOf(l) == {r \in DOMAIN landings : landings[r].landing = l}
StatusOf(l) ==
  LET Said == {landings[r].status : r \in RowsOf(l)}
  IN  CASE Said = {} -> "unseen"
        [] Said = {"provisional"} -> "provisional"
        [] OTHER -> "final"

\* Seen through its table, the confirmation implements the life cycle of every
\* landing: unseen, then provisional or final, and final for good.
Lifecycle == INSTANCE LandingLifecycle WITH status <- [l \in Landing |-> StatusOf(l)]
ImplementsLifecycle == Lifecycle!Spec
================================================================================

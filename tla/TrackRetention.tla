--------------------------- MODULE TrackRetention ---------------------------
(***************************************************************************)
(* Which raw track rows the database keeps around landings.                *)
(*                                                                         *)
(* Live ingest holds a bounded history of rows per aircraft and ship; a    *)
(* landing opens a window on the aircraft and on the ship it names, and    *)
(* once the stream has passed a window's end its rows are queued for the   *)
(* next batch (ingest.py).  The rebuild of a stored landing reads one span *)
(* of those rows (rebuild.py), and the compaction of an old database       *)
(* deletes the rows no landing explains (compact.py).  All three derive    *)
(* their span from retention.py.                                           *)
(*                                                                         *)
(* A row is <<object, mission time>>; an object sends at most one per      *)
(* frame.  What the detector finds is any set of landings compatible with  *)
(* the time at which it looks (Detect).                                    *)
(***************************************************************************)
EXTENDS Integers, FiniteSets, Sequences, Functions

CONSTANTS
  Aircraft, Ships, Statics,  \* object ids by class; other classes send no row
  NoShip,                    \* carrier_obj_id of a landing on a runway
  Approach,         \* the longest approach window of the detection config
  Margin,           \* REBUILD_MARGIN_S
  Slack,            \* RETENTION_SLACK_S
  BounceAllowance,  \* BOUNCE_ALLOWANCE_S
  MaxPending,       \* MAX_PENDING_RETAINED_ROWS
  Buffer,           \* the detector's rolling buffer
  MaxTime,          \* bound: frames of the recording
  MaxArrival,       \* bound: the frame by which an object has appeared
  MaxStaticRows,    \* bound: rows of a static
  MaxLandings,      \* bound: landings of the recording
  Removable,        \* bound: objects that may go away
  Recycled          \* bound: ids that a later object may claim

Objects == Aircraft \cup Ships \cup Statics
Time == 0 .. MaxTime

ASSUME RetentionAssumption ==
  /\ {Approach, Margin, Slack, BounceAllowance, MaxPending, Buffer,
      MaxTime, MaxArrival, MaxStaticRows, MaxLandings} \subseteq Nat
  /\ Aircraft \cap Ships = {} /\ Aircraft \cap Statics = {}
  /\ Ships \cap Statics = {} /\ NoShip \notin Objects /\ IsFiniteSet(Objects)

\* The times of the defaults, as far as a window needs them to fit: margin
\* and slack are a minute each, the approach is 5 and the buffer 10.
ASSUME RetentionTimes == Slack > 0 /\ Buffer < Approach + 3 * (Margin + Slack)

VARIABLES
  keepAll,   \* _keep_all_tracks
  phase,     \* "live", "stopped" once the ingestor is closed, or "compacted"
  now,       \* _session_time_high
  alive,     \* the parser's objects
  seen,      \* the times of the rows that arrived, by object
  history,   \* _raw_history
  windows,   \* _retention_windows, as sets of <<start, end>>
  through,   \* _retained_through (-1: nothing yet)
  pending,   \* _pending_retained: rows of a window, oldest first
  database,  \* "up", then "refusing" writes for a while, then "back"
  tracks,    \* the tracks table
  lost,      \* rows given up: failed batches, the overflow of the queue, what the
             \* history of an object that went away held for no landing found so far
  landings,  \* what the detector found, with the touchdown their row stores
  order      \* the order in which an exporter writes the objects of a frame

vars == <<keepAll, phase, now, alive, seen, history, windows, through, pending,
          database, tracks, lost, landings, order>>

Landing == [obj : Aircraft, ship : Ships \cup {NoShip}, first : Time,
            touch : Time, stored : Time,
            found : Time]    \* history: when a pass first had it

-----------------------------------------------------------------------------
(* retention.py *)
RebuildWindow(touchdown) ==
  <<touchdown - (Margin + Approach), touchdown + Margin>>

RetentionWindow(first, touchdown) ==
  <<RebuildWindow(first)[1] - Slack, RebuildWindow(touchdown)[2] + Slack>>

RetentionHistory ==
  RetentionWindow(0, 0)[2] - RetentionWindow(0, 0)[1] + BounceAllowance

In(t, w) == w[1] <= t /\ t <= w[2]

Targets(l) == {l.obj} \cup ({l.ship} \ {NoShip})

(* _retain_landing merges a window with those it meets, and so leaves, in  *)
(* whatever order they come, one for each stretch they cover without a gap. *)
Crosses(w, t) == w[1] <= t /\ t < w[2]
Merged(ws) ==
  {m \in {w[1] : w \in ws} \X {w[2] : w \in ws} :
     /\ m[1] <= m[2]
     /\ \A t \in m[1] .. m[2] - 1 : \E w \in ws : Crosses(w, t)
     /\ ~\E w \in ws : w[1] < m[1] /\ m[1] <= w[2]
     /\ ~\E w \in ws : Crosses(w, m[2])}

(* _maybe_detect_landing calls _retain_landing for every event of the pass. *)
WindowsOf(events) == {RetentionWindow(l.first, l.touch) : l \in events}
RetainLandings(ws, events) ==
  IF keepAll THEN ws
  ELSE [o \in Objects |-> Merged(ws[o] \cup WindowsOf({l \in events : o \in Targets(l)}))]

-----------------------------------------------------------------------------
(* Queueing and committing rows. *)

(* _stage_rows: retained rows join a queue that keeps its newest ones, one *)
(* object after the other (in the order of `order'), oldest first.         *)
Before(p, q) == order[p[1]] < order[q[1]] \/ (p[1] = q[1] /\ p[2] < q[2])
Rank(rows, row) == Cardinality({r \in rows : r = row \/ Before(r, row)})
Staged(rows) == [k \in 1 .. Cardinality(rows) |-> CHOOSE row \in rows : Rank(rows, row) = k]
Newest(times) == CHOOSE t \in times : \A u \in times : u <= t
Mark(old, times) == IF times = {} THEN old ELSE Newest(times)

(* _flush: while the database refuses writes the retained rows wait, and   *)
(* the rest of the batch is lost with it (_discard_session).               *)
Commit(b, q, freed) ==
  LET over == IF Len(q) > MaxPending THEN Len(q) - MaxPending ELSE 0
      kept == SubSeq(q, over + 1, Len(q))
      dropped == freed \cup {q[i] : i \in 1 .. over}
  IN  IF database = "refusing"
      THEN /\ pending' = kept /\ lost' = lost \cup dropped \cup b
           /\ UNCHANGED tracks
      ELSE /\ pending' = <<>> /\ lost' = lost \cup dropped
           /\ tracks' = tracks \cup b \cup Range(kept)

(* _stage_retention_windows for some objects: the rows of what is due, and *)
(* above the high-water mark, are queued, and its windows close.           *)
Due(ws, dueBy) == {w \in ws : w[2] <= dueBy}
(* Mutant: no high-water mark. *)
MutDueAgain(hist, ws, mark, dueBy) ==
  {t \in hist : \E w \in Due(ws, dueBy) : In(t, w)}
DueTimes(hist, ws, mark, dueBy) ==
  {t \in hist : t > mark /\ \E w \in Due(ws, dueBy) : In(t, w)}
DueRows(hist, ws, marks, objs, dueBy) ==
  [o \in Objects |-> IF o \in objs THEN DueTimes(hist[o], ws[o], marks[o], dueBy) ELSE {}]
WriteWindows(times, ws, objs, dueBy, queue, b, freed) ==
  /\ windows' = [o \in Objects |-> IF o \in objs THEN ws[o] \ Due(ws[o], dueBy) ELSE ws[o]]
  /\ Commit(b, queue \o Staged({row \in Objects \X Time : row[2] \in times[row[1]]}), freed)
Everything == MaxTime + Margin + Slack  \* due_by=None: every window is due

-----------------------------------------------------------------------------
(* _keep_track: the row is written now (statics, keep_all), or held in the *)
(* history, from which rows older than the history leave; one that leaves  *)
(* while a window still covers it is staged on its way out.                *)
WrittenAtOnce(o) == keepAll \/ o \in Statics
Held(o, t) == IF WrittenAtOnce(o) THEN {} ELSE history[o] \cup {t}
Leaving(o, t) == {u \in Held(o, t) : u < t - RetentionHistory}
(* Mutant: rows leaving the history are not looked at. *)
MutOnTheWayOut(o, t) == {}
OnTheWayOut(o, t) ==
  {u \in Leaving(o, t) : u > through[o] /\ \E w \in windows[o] : In(u, w)}

(* What an analysis pass of a, whose newest sample is of time t, may leave *)
(* at time at: the landings it had, a new one whose contacts are still in  *)
(* the rolling buffer, however old, one whose bounces go on while it is    *)
(* there, or one whose row now gets its final touchdown.                   *)
Recent(t) == {u \in Time : t - Buffer <= u /\ u <= t}
Found(a, t, at) ==
  {n \in [obj : {a}, ship : Ships \cup {NoShip}, first : Recent(t), touch : Recent(t),
          stored : Recent(t), found : {at}] :
     /\ n.first <= n.touch /\ n.stored = n.touch
     /\ \A m \in landings : m.obj = a => n.first > m.touch \/ n.touch < m.first}
Instead(l, m) == (landings \ {l}) \cup {m}
Detect(a, t, at) ==
  LET own == {m \in landings : m.obj = a}
  IN  {landings}
      \cup {landings \cup {n} : n \in IF Cardinality(landings) < MaxLandings
                                      THEN Found(a, t, at) ELSE {}}
      \cup {Instead(l, [l EXCEPT !.touch = t]) :
              l \in {m \in own : /\ m.touch < t /\ t - m.first <= Buffer
                                 /\ \A n \in own : n.first <= m.touch \/ n.first > t}}
      \cup {Instead(l, [l EXCEPT !.stored = l.touch]) : l \in {m \in own : m.stored < m.touch}}
EventsOf(ls, a, t) == {l \in ls : l.obj = a /\ l.first >= t - Buffer}

-----------------------------------------------------------------------------
Init ==
  /\ keepAll \in BOOLEAN
  /\ phase = "live"
  /\ now = 0
  /\ alive = {}
  /\ seen = [o \in Objects |-> {}]
  /\ history = [o \in Objects |-> {}]
  /\ windows = [o \in Objects |-> {}]
  /\ through = [o \in Objects |-> -1]
  /\ pending = <<>>
  /\ tracks = {}
  /\ lost = {}
  /\ database = "up"
  /\ landings = {}
  /\ order \in {f \in [Aircraft \cup Ships -> 1 .. Cardinality(Aircraft \cup Ships)] : IsInjective(f)}

(* Objects send their rows frame by frame, in the exporter's order.        *)
InFrame(o, t) ==
  /\ t \in {now, now + 1} \cap Time
  /\ \A u \in seen[o] : u < t
  /\ o \notin alive => IF seen[o] = {} THEN t <= MaxArrival ELSE o \in Recycled
  /\ o \in Statics => Cardinality(seen[o]) < MaxStaticRows
  /\ \A p \in alive \ Statics :
       /\ t = 0 \/ {t - 1, t} \cap seen[p] # {}
       /\ o \notin Statics => IF order[p] < order[o] THEN t \in seen[p]
                                                     ELSE t = 0 \/ t - 1 \in seen[p]

(* _handle_update of an object: the row, the detection pass of an aircraft *)
(* (none when the gate is closed), and the windows the stream has passed.  *)
Update(o) == \E t \in Time :
  /\ phase = "live" /\ InFrame(o, t)
  /\ now' = t
  /\ alive' = alive \cup {o}
  /\ seen' = [seen EXCEPT ![o] = @ \cup {t}]
  /\ history' = [history EXCEPT ![o] = Held(o, t) \ Leaving(o, t)]
  /\ UNCHANGED <<keepAll, phase, database, order>>
  /\ LET queue == pending \o Staged({o} \X OnTheWayOut(o, t))
         marks == [through EXCEPT ![o] = Mark(@, OnTheWayOut(o, t))]
         b == IF WrittenAtOnce(o) THEN {<<o, t>>} ELSE {}
         Written(ws) ==
           LET times == DueRows(history', ws, marks, Objects, t)
           IN  /\ WriteWindows(times, ws, Objects, t, queue, b, {})
               /\ through' = [p \in Objects |-> Mark(marks[p], times[p])]
     IN  \/ Written(windows) /\ UNCHANGED landings
         \/ /\ o \in Aircraft
            /\ \E ls \in Detect(o, t, t) :
                 landings' = ls /\ Written(RetainLandings(windows, EventsOf(ls, o, t)))

(* What a rebuild of a landing may read, whichever contact its row names.  *)
MayRead(l) == <<RebuildWindow(l.first)[1], RebuildWindow(l.touch)[2]>>
Unclaimed(o, ls) == {t \in history[o] : \A l \in ls : o \in Targets(l) => ~In(t, MayRead(l))}

(* _handle_remove: a last pass over an aircraft, then its windows get what *)
(* its history holds, and the history goes: what no landing claims is lost *)
(* to those found later.                                                   *)
Vanish(o) ==
  /\ phase = "live" /\ o \in alive \cap Removable
  /\ alive' = alive \ {o}
  /\ history' = [history EXCEPT ![o] = {}] /\ through' = [through EXCEPT ![o] = -1]
  /\ UNCHANGED <<keepAll, phase, now, seen, database, order>>
  /\ \E ls \in IF o \in Aircraft THEN Detect(o, Newest(seen[o]), now) ELSE {landings} :
       LET ws == RetainLandings(windows, EventsOf(ls, o, Newest(seen[o])))
       IN  /\ landings' = ls
           /\ WriteWindows(DueRows(history, ws, through, {o}, Everything), ws, {o}, Everything,
                           pending, {}, {o} \X Unclaimed(o, ls))

(* close, or _rotate_session when the mission restarts: every window gets  *)
(* what the history holds.  What follows a rotation is another flight.     *)
Close ==
  /\ phase = "live"
  /\ phase' = "stopped"
  /\ alive' = {}
  /\ history' = [o \in Objects |-> {}] /\ through' = [o \in Objects |-> -1]
  /\ UNCHANGED <<keepAll, now, seen, landings, database, order>>
  /\ WriteWindows(DueRows(history, windows, through, Objects, Everything), windows, Objects,
                  Everything, pending, {}, {})

(* The database stops accepting writes, and accepts them again: the next   *)
(* batch, of this flight or a later one, takes the rows that waited.       *)
Refuse ==
  /\ database = "up" /\ database' = "refusing"
  /\ UNCHANGED <<keepAll, phase, now, alive, seen, history, windows, through,
                 pending, tracks, lost, landings, order>>
Accept ==
  /\ database = "refusing" /\ database' = "back"
  /\ pending' = <<>> /\ tracks' = tracks \cup Range(pending)
  /\ UNCHANGED <<keepAll, phase, now, alive, seen, history, windows, through,
                 lost, landings, order>>

(* pipeline.rebuild: the row of a landing gets the last contact that the   *)
(* rows of its rebuild window show.                                        *)
Rebuild(l) ==
  LET shown == {c \in l.first .. l.touch : /\ In(c, RebuildWindow(l.stored))
                                           /\ <<l.obj, c>> \in tracks}
  IN  /\ shown # {}
      /\ landings' = Instead(l, [l EXCEPT !.stored = Newest(shown)])
      /\ UNCHANGED <<keepAll, phase, now, alive, seen, history, windows, through,
                     pending, database, tracks, lost, order>>

(* compact.py: keep_windows, and the delete the application's stop allows. *)
KeepWindow(l) == RetentionWindow(l.stored, l.stored)
Explained(row) ==
  \/ row[1] \in Statics
  \/ \E l \in landings : row[1] \in Targets(l) /\ In(row[2], KeepWindow(l))
Kept == {row \in tracks : Explained(row)}
Compact ==
  /\ phase # "live" /\ phase' = "compacted"
  /\ Kept # {}
  /\ tracks' = Kept
  /\ UNCHANGED <<keepAll, now, alive, seen, history, windows, through,
                 pending, database, lost, landings, order>>

Next ==
  \/ \E o \in Objects : Update(o) \/ Vanish(o)
  \/ \E l \in landings : Rebuild(l)
  \/ Close
  \/ Refuse
  \/ Accept
  \/ Compact

Spec == Init /\ [][Next]_vars

-----------------------------------------------------------------------------
Queued == Range(pending)

(* A row is queued at most once, and never again once it is in the table:  *)
(* windows of landings a few minutes apart overlap, a landing is analysed  *)
(* again and again, and a window is also written on the way out of the     *)
(* history (_retained_through).                                            *)
NoRowTwice ==
  /\ IsInjective(pending)
  /\ Queued \cap tracks = {}

(* What a rebuild of a stored landing reads that arrived -- the aircraft's *)
(* rows, its ship's, the statics' -- is in the table, on its way there, or *)
(* still held by the ingestor while that is open, whatever the order of    *)
(* landings, bounces, removals, rebuilds and compactions (retention.py "so *)
(* the three cannot drift apart").  Two sorts of rows are not promised.    *)
(* When a landing is found more than Margin + 2 * Slack after its contact, *)
(* the rows older than any window due by then: the mark may have passed    *)
(* them (PassedOver).  And after a compaction, which goes by the stored    *)
(* contact, those of a landing that bounced for longer than the slack      *)
(* (CutShort).  Rows of an id that a later object claimed are its, and     *)
(* left out.                                                               *)
Trail == Margin + Slack
Lead  == Margin + Approach + Slack

RebuildReads(l) ==
  {row \in (Targets(l) \ Recycled) \X Time : /\ row[2] \in seen[row[1]]
                                             /\ In(row[2], RebuildWindow(l.stored))}
Accounted(row) == row \in Queued \cup tracks \cup lost
StillHeld(row) == phase = "live" /\ row[2] \in history[row[1]]
PassedOver(l, row) == row[2] < l.found - (Lead + Trail)
CutShort(l) == phase = "compacted" /\ l.touch - l.first > Slack
RebuildReadsWhole ==
  \A l \in landings : \A row \in RebuildReads(l) :
    Accounted(row) \/ StillHeld(row) \/ PassedOver(l, row) \/ CutShort(l)
=============================================================================

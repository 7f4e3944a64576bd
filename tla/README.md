# A formal model of DCSLandingTeacher

DCSLandingTeacher listens to Tacview real-time telemetry from DCS servers (or
reads an uploaded ACMI recording), detects aircraft landings, grades them and
serves them to a browser. This directory holds TLA+ models of its stateful
core and of its decision algorithms, the TLC configurations that check them on
small instances, and TLAPS proofs of what holds for every instance. Source
paths are relative to the repository; `app/` stands for `src/backend/src/app/`.

To check a run: `tlc -config X.cfg MCModule`; a proof: `tlapm Module.tla`.
`PROJECT.json` lists the runs with their modules and configurations, and maps
every definition to the lines it stands for.

## 1. The system

```
 Tacview host --TCP--> AcmiStreamClient --line--> TrackIngestor --landing--> LandingPipeline --grade--> graders
                        (one per source)            |   ^  |                  |   |    |                runways
 upload --> ImportJobManager --line--> TrackIngestor|   |  |                  |   |    +-> notifier -> browser
                                         (one/job)  v   |  v                  |   v
                                       AcmiParser   RollingTrackBuffer        | landings, landing_tracks
                                                    -> analyze_track          | flights, objects, tracks
                                                                              | import_jobs
           API: regrade, rebuild, rescan, sweep a runway --------------------+
           lifespan: settle_orphaned_provisionals, reaper, load_persisted, purge_expired
```

Everything runs in one process on one asyncio event loop: two tasks interleave
only at an `await`. The database is shared by all of them, and by the
maintenance scripts.

| Component (source) | State | Operations | What is hard | What makes it correct | Module |
|---|---|---|---|---|---|
| Live stream client and its manager (`app/acmi/stream.py`, `handshake.py`, `multi_source.py`) | `_stopping`, connection, idle monitor, next flush, back-off | `run`, `_connect`, `_read_loop`, `_idle_monitor`, `stop`; `_run_source` | reconnects, silence, cancellation at any await, a commit in a `finally` | reconnects for ever, holds no batch while away, `stop()` returns | `AcmiStream` |
| Parser (`acmi/parser.py`) | objects, header, mission clock | `feed_line` | text only | sequential; an input of the models | - |
| Ingestor: write batches (`ingest.py` 482-925) | open session, cached row ids, pending and retained rows | `handle_line`, `_flush`, `close`, `_rotate_session` | a batch fails at any write; ids are cached before their rows are committed | no retained row lost, written twice or put into another mission; ingestion survives a failure | `IngestBatch` |
| Ingestor: raw retention (`ingest.py` 803-922, `retention.py`), its readers `rebuild.py`, `compact.py` | raw history, windows, high-water mark | `_keep_track`, `_retain_landing`, `_stage_retention_windows`, rebuild, compact | windows open and merge while the history slides and batches fail | a rebuild finds every row of its span; no row twice | `TrackRetention` |
| Ingestor: two-phase confirmation (`ingest.py` 1141-1323) | `_last_wow`, `_provisional_ids`, `_reported_landings`, `_provisional_aircraft` | `_maybe_detect_landing`, `_dispatch`, `_finalize` | a landing is analysed again on every sample; failures, rotations and restarts come in between | one landing is one row, which is settled in the end | `LandingConfirmation` |
| Detector (`detection/`) | a rolling buffer | `analyze_track` | bounces merged, outcomes reopened as the buffer grows and slides | landings stay apart, keep their first contact and are found again by a rebuild | `Touchdowns` |
| Landing pipeline (`pipeline.py`), rescan, rebuild, importer | none beyond the rows | `handle_landing`, `finalize_landing`, `regrade`, `rebuild`, rescan | a row is read, something is awaited, the row is written back | no second row, no row back from a discard, columns of one row belong together | `LandingRows` |
| Grading (`grading/`) | configuration | `grade_land_landing`, `grade_carrier_approach` | legs cut one from another, missing measures | legs in order, monotone and continuous scores, only of what was measured | `Grading` |
| Import jobs (`importer.py`, `api/imports.py`) | `_jobs`, `_tasks`, `_discarded`, locks, `import_jobs` rows, scratch flights | `create_job`, `run`, `discard`, `purge_expired`, `load_persisted` | a discard meets a queued, running or finishing job; a crash with data stored | what is discarded stays gone, data has a job row, every job ends | `ImportJobs` |
| Runway provider (`runways/`) | memory, cache files, listing memo, a lock per map | `resolve`, `runways_for`, `sweep`, `inventory` | landings and sweeps at once against a server that changes its map | geometry filed under its own map, one sweep, exact captures first | `RunwayCache` |
| Notifier and dashboard (`api/notifier.py`, `frontend/src/lib`, `hooks/useLandings.ts`) | subscribers, replay; list, badge, pager | broadcast, connect, list | replay meets live messages, lost connections, crossing answers | nothing missed or repeated; counts agree; reconnects | `Dashboard` |
| HTTP API, auth, body limit (`api/`) | none | requests | streaming limits | the requests that write are in `LandingRows`, the list and socket in `Dashboard` | - |
| Lifespan (`api/main.py`) | tasks | start-up, reaper, shutdown | order of start-up | inside the modules it acts on | - |
| Maintenance (`rescan.py`, `rebuild.py`, `compact.py`, scripts) | none | table passes | run beside the live process | inside `LandingRows`, `TrackRetention`, `Touchdowns` | - |
| Migrations, frontend views | none | | | | - |

`PROJECT.json` lists the hazards of this code at their lines, each with the
properties that would catch it, or with the reason none does.

## 2. The modules

| Module | Models | Checked through | Proved in |
|---|---|---|---|
| `LandingLifecycle` | abstract: what the landings table promises of one landing | refined by `LandingConfirmation` | `LandingConfirmationProofs` |
| `LandingConfirmation` | two-phase confirmation, reaper, restart | `MCLandingConfirmation` | `LandingConfirmationProofs` |
| `IngestBatch` | write batches, cached ids, failures | `MCIngestBatch` | `IngestBatchProofs` |
| `ImportLifecycle` | abstract: what an import promises its uploader | refined by `ImportJobs` | `ImportJobsProofs` |
| `ImportJobs` | import jobs | `MCImportJobs` | `ImportJobsProofs` |
| `AcmiStream` | one live source: client, monitor, supervising task, stop | `MCAcmiStream` | `ServersProofs` |
| `TrackRetention` | raw history, windows, queue, rebuild, compaction | `MCTrackRetention` | `TrackRetentionProofs` |
| `LandingRows` | every writer of the landings table | `MCLandingRows` | `LandingRowsProofs` |
| `RunwayCache` | where runway geometry comes from | `MCRunwayCache` | `ServersProofs` |
| `Touchdowns` | the detector over a growing buffer | `MCTouchdowns` | `AnalysisProofs` |
| `Approach`, `CarrierPattern`, `Scores`, `Grading` | the legs of an approach; the carrier pattern; bands, scores and grades; an approach flown, cut and graded | `MCGrading` | `AnalysisProofs` |
| `Dashboard` | notifier, sockets, list and one browser | `MCDashboard` | `DashboardProofs` |

The parts appear in each other as what they hand over: `AcmiStream` sees the
ingestor as whether it has an open batch; `IngestBatch` sees the detection pass
as a commit that it may demand; `LandingConfirmation` and `TrackRetention` see
the batch as a commit that may fail, and the detector as any set of landings,
which is more than `Touchdowns` allows; `LandingRows` sees the passes of two
ingestors as the calls they make of the pipeline; `Dashboard` sees the pipeline
as the messages it broadcasts.

Operators named `Mut...` are plausible bugs in the definition that follows
them. Nothing uses them; `PROJECT.json` says which property catches which.

### LandingConfirmation

One source. `Sample` and `Remove` are an update and a remove line up to the
first await of the pass (the gate, the analysis, the settled gate of an empty
result, the commit before the loop). The for loop is then one action per turn,
oldest contact first: `SkipProvisional`, `ReportProvisional`, `ConfirmPending`,
`SkipReported`, `ReportFinal`, one for each path through its body, with every
outcome of the awaited listener (stored and answered; failed before its commit;
failed after it). `FinishPass` is `_settle_provisional_state`. `Rotate` is
`_rotate_session`; `Reap` is the reaper's update with any cutoff; `Restart` is
a crash at any await together with `settle_orphaned_provisionals`.

The detector is external: a pass finds any set of contacts, settled or not,
so a contact may vanish and a settled outcome may reopen, both of which
`analyze_track` can do. A row is the landing it was stored for, the landing
last written into it, its status, and whether its id came back (`acked`). The
mission is part of a landing and, as in the code, no part of its key: what
follows from that is a finding (section 6).

### IngestBatch

One ingestor. `at` is the database call a line stands before. Row ids are
names; `addedFlights` and `addedObjects` are rows flushed in the open session
and not committed. `Store` and `Refuse` are the two ends of `_flush`; a refused
commit may have been applied, its answer lost, and `ambiguous` remembers the
rows nobody can then tell about. `LineFails` is any other failing call, or a
cancelled line, both of which end in `_discard_session`. A row with a missing parent makes the database refuse the
batch: production and the integration tests run on PostgreSQL, which enforces
the foreign keys. Which rows are retained and when is a free choice
(`MayStage`). Updates carry a position, so each leaves a row; `last_seen`
stamps, identity changes and the batch's age are left out, the last by letting
`MayFlush` commit early.

### ImportJobs

`run[j]` is the await a job's task stands at, and `Cancelled` delivers the
`CancelledError` there, with whatever the database did of that await.
`BeginDiscard` and `Delete` are the two halves of `_discard` around the await
of the cancelled task. `Restart` is the death of the process, `load_persisted`
and `purge_expired`, which may find any jobs old. Reading is `ReadLines` any
number of times and `EndRead`. Duplicates skipped, progress counters and the
upload itself are left out.

`ImportLifecycle` is what a client of the imports is promised: one upload is
read at a time, only the one being read leaves data, what ended neither reads
nor writes again, a discard takes status and data at once and for good, and a
restart leaves nothing active. Its status of an upload is what the API answers
(`jobs`, and "unseen" before the upload is known), its reader the holder of the
lock. Tasks, rows, cancellations and the two halves of a discard are below it.

### AcmiStream

`at` is the await of `_run_source` (with `run` and `_read_loop` inside it), and
`Cancelled` delivers the `CancelledError` there, including the one place where
it is swallowed (`CancelCleanup`: `_read_loop` awaits its monitor inside
`except CancelledError: pass`). Deadlines pass at any time (`FlushDue`,
`FallsQuiet`). Any exception of `on_line` or `on_flush` may pass for a lost
connection (an `OSError`) or leave `run()`. `connected` is `at` in the read
loop and is not a variable of its own.

### TrackRetention

A row is an object and a mission time; time is in frames, and an object sends
at most one row a frame, in an order fixed for the behaviour (an exporter
writes its objects in one order). `Update` is a row with the detection pass and
the batch it triggers, `Vanish` a removal, `Close` the close of the ingestor or
the rotation to another mission; `Rebuild` and `Compact` are the two readers of
what was kept. `Merged` says what the merging loop of `_retain_landing` leaves,
whatever the order in which windows come: one for each stretch they cover
without a gap; `Staged` is the order in which rows are queued, object after
object. The database refuses for one interval (up, refusing, back),
anywhere. `lost` collects what the code gives up, by name: the rows of failed
batches, of an overflown queue, and of the freed history of an object that
vanished, as far as no landing found so far may read them (`Unclaimed`).

A landing may be found as long after its contact as the rolling buffer holds
the contact, and its bounces may go on for as long: the code bounds neither
otherwise. Two things follow, and `RebuildReadsWhole` names the rows concerned
instead of ruling them out. Found more than `Margin + 2 Slack` after its
contact (three minutes), a landing opens a window on rows that another window
may have written past: the high-water mark is above them and they are not
written (`PassedOver`, the hazard at `ingest.py:880`). And the compaction keeps
the slack around the stored contact, whatever the first one was (`CutShort`):
the rebuild stores an earlier contact when rows were lost, and after a
compaction the run-up of a landing that bounced for longer than the slack may
be gone. Each landing remembers when it was `found` for this. In the code
margin, slack and the allowance for bounces are a minute each, the longest
approach is five and the rolling buffer ten; the model scales them to frames,
and `RetentionTimes` is what has to hold between them: some slack, and a buffer
shorter than an approach and three margins and slacks (11 minutes). An id that
a later object claims (`Recycled`) is left out of what a rebuild must
find: the rows of the new object may fall into the span of the old one's
landing, and then some of them are missing.

### LandingRows

The tasks are the live ingest, the ingest of an upload of the same session, API
requests and rescans. A write is a SELECT and an UPDATE of the columns that
differ from what the SELECT loaded, which is what SQLAlchemy sends; each is a
step of its own, as is every await before it. `torn` remembers rows with two
overlapping transactions, whose columns may come from both. A row's grade
columns are one column (they are computed in one go), and detecting a landing
again from the raw track gives its settled touchdown. Foreign keys are
enforced. `Together` bounds which requests, reloads and restarts occur in one
behaviour.

### RunwayCache

Every call to the server is a step that may fail, and the server may load
another mission between any two. A pool of runways is where it comes from, the
airbases in it, and whether the server changed its mission or would not say
which it runs (`mixed`). A capture shipped with the build is exact, plain or
missing, a stored sweep current, stale (an older build's) or missing, in every
combination. The model shows what the code does in three corners worth
knowing: a sweep by hand displaces an exact capture in memory until the next
restart (`provider.py:270`, which the comments at 263-266 do not want for the
automatic path); a listing is filed under the map reported before it
(`provider.py:353`), so that while the server reports that map a landing may be
looked up in the airbases of another one and find nothing; and a sweep some of whose airbases
did not answer is kept for good (`dcssb.py:140`).

### Touchdowns

`AnalyzeTrack` is `analyze_track`: heights above the surface, contact
candidates, merging of bounces, outcome, `is_final`, cut of the approach, as
recursive functions and set constructions over the samples: its three loops are
`Contacts` (the bounces after a contact), `Walk` (back over the approach) and
`Taken` (the candidates), each a function of the samples passed. The state is the rolling buffer
(with its age limit) and the log of all samples; each action is one sample, or
the removal (`Vanish`), and the analysis of it. `final` is what earlier analyses
reported as final. On a ship the height is over the deck, which is data of the
sample; ashore it is the AGL of the sample. The `on_ground` flag, the
distance cut and the ship-relative track are left out.

A rebuild reads the rows around the stored touchdown time, as far as
`rebuild_window` reaches (`RebuildReads`), analyses them offline and picks a
landing (`PickEvent`): `FoundAgain` says what may become of the landing that was
reported. All the received rows of that window are taken to be there. The store
keeps only the windows of landings, and whether this one is whole in it is the
subject of `TrackRetention` (`RebuildReadsWhole`, with the rows it excepts);
what a rebuild makes of a window with holes is not modelled.

### Approach, CarrierPattern, Scores, Grading

An approach is flown sample by sample (`Fly`): straight for five seconds, or a
quarter turn in ten. `CutAshore` and `CutAboard` cut it into legs, `Measure`
derives which measures have enough samples in their windows, and `GradeAshore`
and `GradeAboard` score any measures of the bounds; so which measure is missing
comes from the legs, its value is chosen. The loops over an approach (choosing
samples, adding up heading changes, splitting off turns) are recursive functions
of the samples passed: `Chosen`, `Headings`, `Turning`. Angles are
in half degrees. The thresholds are those of the default configuration except
where a coarse grid asks for less: `Lookback` 25 s (90), `SpeedWindow` 15 s
(10), `MinAoa` 3 samples (5), `MaxBreakTurn` 150 degrees (210), and the offsets
of the carrier pass are on a grid. Heights come from profiles, the deck has no
angle and no speed, and the abeam is found on samples, not between them.
`RequireDownwind` is the setting of `is_overhead_pattern`, true by default and in
the run; the proofs are for both. No property is about where the aircraft enters the
pattern (`Entry`) and whether the groove is of the right length.

### Dashboard

One browser, several pipelines. Appending a message and choosing its targets
(`Announce`), and registering a client with its replay (`Register`), are each one
step: the notifier's lock is held across no await. Every send is a step and
may find the connection dead. `connect` with its replay is called outside the
`try` whose `finally` forgets the client (`routes.py` 605-626). What a send
raises only ends the replay, so the one way to leave it otherwise is a
cancellation of the task, which nothing in the program but the end of the server
causes; the list of clients ends with it, and the case is left out. The replay is the end of the log. A list request
reads count and page in one step, and its answer may cross messages. Page
turning, filters, the ping, back-off delays, closing on expired
authentication, and the view of an import are left out; so are rescans and
regrades, which broadcast nothing.

## 3. What TLC checks

| Run | Instance | Distinct states | Shows |
|---|---|---|---|
| `restart` | 1 aircraft, 2 contact times, 2 missions, 2 landings in a buffer, 1 failure, restarts | 56,835 | one row for one landing; a confirmation writes its own row, or one of an earlier mission under a kept key; pending keys keep the gate open; no orphan without a failure; `LandingLifecycle` is implemented; with the reaper alone fair, every row becomes final |
| `foreign` | 1 aircraft, 1 contact time, 2 missions | - | the second of these happens (section 6) |
| `batch` | 1 vessel, 1 static, 2 missions, 4 rows, 2 failures | 2,206,819 | nothing stored twice or into another mission; retained rows survive; `close()` writes what waits; only a failure takes the row of a cached id away |
| `wedged` | 1 static, 1 failure | - | after such a failure nothing is stored again (section 6) |
| `imports` | 2 uploads, 1 failing call, 1 failing deletion, 1 restart | 21,898 | discarded stays gone; data has a row; every job ends; `ImportLifecycle` is implemented |
| `stream` | delays 1..3, everything may fail | 2,226 | no batch while away; batches are released; keeps trying; `stop()` returns |
| `retention` | 1 aircraft, 1 ship, 5 frames, 2 landings found as late as a buffer of 3 allows, one refusing interval; no static, whose rows are written at once as they all are under `_keep_all_tracks` | 3,543,838 | no row twice; a rebuild reads its whole span, but for the rows a late landing or a compaction is known to leave |
| `rows` | 1 landing, live and uploaded, 2 requests, 2 rescans, 1 reload or restart | 1,598,873 | columns of one instant; no second row; gone stays gone; every row settles |
| `runways` | 2 maps, 3 airbases, 2 landings, 1 sweep by hand, 1 mission change, 1 restart | 2,957,655 | geometry under its own map; one sweep; exact captures first; no lock left behind |
| `touchdowns` | 4 scenes, up to 6 samples, 7 in one | 892,742 | landings apart; first contacts stay; none appears late; a rebuild finds what was reported in the rows of its window |
| `grading` | up to 11 samples, 4 left turns, 1 right turn | 147,681 | a break is a turn; the flare makes none; legs in order; better is not worse, the pattern component left as it is; scores only of what was measured |
| `dashboard` | 2 pipelines, 2 messages, 2 connections | 1,082,961 | no message missed or repeated on a connection; badge and pager agree with what is shown; reconnects |

**Bounds.** One aircraft and two contact times are enough for two keys to be
confused in time, and two missions for a key to be kept across a rotation and
met after it (for more aircraft there are the proofs); one failure for each
place it can strike, and the second one, where it is allowed, for a failure
while the first is being recovered from. Two rows fill a batch and one more
overflows the cap. Two uploads queue for one reader, and each can be discarded
while the other reads or while the other's discard waits. `AcmiStream` has no
bound but the delays: its failures and reconnects are unlimited. Five frames
hold a window, a history that has slid past its start, and a second window that
merges with it or does not. One landing in two flights is all that two writers
of one row, or two of one landing, can disagree about, and each pair of
`Together` is a pair of writers. Two maps, of which one has two airbases, let a
sweep be partial, empty, or of the other map. In `Touchdowns` a time unit is
five seconds and the altitudes step over and under each rate and limit of the
default configuration; six samples are two contacts with a climb between them,
or three bounces, seven are a bounce, a climb and two more contacts in a buffer
that loses its first. Samples are one or seven units apart, which with six or
seven of them reaches past the age limit (15 units) and past the window of a
rebuild, which begins 14 units before the touchdown (`ApproachWindow` 10,
`RebuildMargin` 4) and ends 4 units after it, later than a full stop is final: so
the buffer can lose the run-up of a landing whose bounces go on, and a window can
begin after samples the buffer still held, or end before the last ones. The
code's spans (360 s before, 60 s after) are scaled down to that. Eleven samples fly a whole circuit: a
break, a downwind, the final turn and a swerve over the runway, or a wave-off and
the whole circuit after it. Two connections are a lost one and the next.

**Deadlock** is checked for `restart`, `imports`; the others say
`CHECK_DEADLOCK FALSE` because the modelled system may stop: the ingestor is
closed, `stop()` has returned, the recording ends, or a bounded input is used
up.

**Fairness.** `LandingConfirmation`: weak fairness of `Reap` alone, since the
reaper is a loop that sleeps a minute and swallows every exception; lines need
never come. `IngestBatch`'s `LiveSpec`: every line that arrives is handled,
since it is awaited, and the source keeps sending, which is the premise of the
property. `ImportJobs`: each started task is scheduled, a recording has an end,
and a deletion that may run does. `AcmiStream`: the event loop schedules each
task, connect and handshake have timeouts, lines and commits end, the clock
goes on; the network owes nothing. `LandingRows`' `FairSpec`: the reaper alone,
for the rows there are when it comes. `Dashboard`: the endpoint's task of each
connection goes on, sends end, and the browser's timers and events run; that a
connection holds is asked of the last one of the bound only. The other
specifications state none.

## 4. What is proved

`LandingConfirmationProofs` proves for every number of
aircraft, contact times, missions, buffer sizes and failures:

| Theorem | States |
|---|---|
| `Inductive` | `Spec => []IInv` |
| `TypeCorrect` | `Spec => []TypeOK` |
| `OneRow` | `Spec => []OneRowPerLanding` |
| `NeverPendingAndReported` | `Spec => []PendingOrReported` |
| `ConfirmedRows` | `Spec => []ConfirmsItsRow` |
| `OnlyKnownKeysSuppress` | `Spec => SuppressesOnlyKnownKeys` |

It assumes what the constants are (`ConfirmationAssumption`: times are
integers, bounds are naturals, `NoRow` is no row id; `NoPassAssumption`: `NoPass`
is no pass), which TLC evaluates on every run.

`OneRowPerLanding` is not inductive. A pass stores a landing when its key is
neither pending nor reported, so the invariant has to say that the key of every
acknowledged row of the current mission is one of the two: `AckedIsKnown`. A
rotation or a restart empties or keeps those sets, and is harmless because the
landings of the new mission carry a new flight id that no stored row has yet:
`RowsOfPastFlights`. A confirmation takes the key out of the pending ones and
puts it among the reported ones in the same step. The rewriting of rows
(confirmation, reaper, restart) touches neither the landing nor `acked` of a
row: lemma `SettleRowsKeeps`. `SuppressesOnlyKnownKeys` needs the history of
what was handed over: `KnownIsHanded`. `IInv` is the conjunction of `TypeOK`,
these three, `OneRowPerLanding`, `PendingOrReported` and `PendingNamesItsRow`.
`ConfirmsItsRow` needs one more invariant, `ShownInv`, about the landing a row
shows. A key that a rotation kept leads to a row of an earlier mission; while it
is pending, no row is stored under it (`OldKeyStandsAlone`), and once the later
landing has taken that row, its key is reported (`ShownSoFar`): so the foreign
landing has no row of its own, and no landing is shown by two.

On that invariant build:

| Theorem | States |
|---|---|
| `GateStaysOpen` | `Spec => []PendingKeepsGateOpen` |
| `OrphansNeedFaults` | `Spec => []NoOrphanWithoutFault` |
| `Implements` | `Spec => ImplementsLifecycle` |

The aircraft leaves the gate only in `Settled`, which looks at the pending keys
(`SettledKeepsGate`); no other step adds a pending key without adding its
aircraft (`GateFrame`, `GateKept`). A row becomes provisional in the step that
makes its key pending, unless a failure strikes there, so without one only a
restart could orphan it, and that settles every row (`SettleRowsSettles`).
For the refinement, what the table says of a landing is read off the set of
statuses its rows have (`StatusSays`). A step that appends a row moves that
landing alone, forward or, when a row whose id was lost is repeated, not at all
(`StoreRefines`); one that rewrites rows only ever settles (`SettleRefines`,
shared by the confirmation, the reaper and the restart). That a confirmation
rewrites a row that exists is where the invariant comes in.

`ServersProofs` is about the two parts that talk to foreign servers; they share
no state. Of `AcmiStream` it proves, for every pair of delays, with and without
a flush and an idle timeout:

| Theorem | States |
|---|---|
| `StreamInductive` | `StreamSpec => []StreamIInv` |
| `StreamTypeCorrect` | `StreamSpec => []StreamTypeOK` |
| `NoBatchAway` | `StreamSpec => []NoBatchWhileAway` |
| `MonitorEnds` | `StreamSpec => []MonitorEndsWithLoop` |
| `ClosedLast` | `StreamSpec => []ClosedAfterRun` |
| `DelaysGrow` | `StreamSpec => DelaysDoNotShrink` |

It assumes `StreamAssumption`: the first delay is positive and at most the
maximum, and the two flags are truth values. `NoBatchWhileAway` is not
inductive: `Shut` leaves the last await of a connection for a delay, so the
batch has to be released before it (`ReleasedBeforeShut`). `DelaysDoNotShrink`
needs that the next delay is at least the last one (`BackoffCoversDelay`), and
that every step into a delay sleeps for the back-off (lemma `DelayIsBackoff`).
The invariant is proved in two parts, `StreamFlags` and `StreamPlaces`, because
the provers treat truth values and numbers apart.

`IngestBatchProofs` proves for every number of objects,
missions, rows and failures, every batch size and every cap:

| Theorem | States |
|---|---|
| `Inductive` | `Spec => []IInv` |
| `TypeCorrect` | `Spec => []TypeOK` |
| `RetainedSurvive` | `Spec => []RetainedRowsSurvive` |
| `NeverTwice` | `Spec => []StoredOnce` |
| `OwnRows` | `Spec => []OwnMission` |
| `BatchIsOwned` | `Spec => []BatchHasSession` |
| `NothingLeftBehind` | `Spec => CloseWrites` |
| `OnlyFailuresStain` | `Spec => CleanUntilFailure` |

It assumes `BatchAssumption` (bounds are naturals, the batch size and the cap
positive, no object both a vessel and static) and `NoneAssumption` (`None` is
no row id). A row keeps its mission because the cached ids do: an object's
cached row is one of the cached flight (`CachedTogether`), which only a
rotation forgets, and it forgets both after the commit. A line may use the ids
it has found because it does not go on without them (`LineIsReady`), and what
is queued has been retained, each row once (`QueueIsStaged`; lemma
`NewestProperties` shows that cutting the queue keeps the newest row and
repeats none). The steps share their ends, so the lemmas follow those:
`CommitKeeps`, `RefuseKeeps`, `MayFlushKeeps`, `LineFailsKeeps`,
`MayStageKeeps`, then one lemma per action. `OnlyFailuresStain` has the same
shape: no end of a batch takes a row away but a failing one, and a batch whose
parents are there is refused only by a failure.

`ImportJobsProofs` proves for every number of uploads,
failures and deaths of the process:

| Theorem | States |
|---|---|
| `Inductive` | `Spec => []IInv` |
| `TypeCorrect` | `Spec => []TypeOK` |
| `DiscardIsFinal` | `Spec => []NothingComesBack` |
| `DataIsListed` | `Spec => []DataHasRow` |
| `DiscardsWhole` | `Spec => []DiscardsAreWhole`, both of them |
| `OneReader` | `Spec => []LockIsTheReaders` |
| `ListedAsStored` | `Spec => []RowMatchesJob` |
| `ImplementsImports` | `Spec => ImplementsImportLifecycle` |

It assumes `ImportAssumption` (the bounds are naturals, and `NoJob` is
no job). What could bring a discarded job
back is a task that still writes, so the invariant says which tasks can exist
beside a discard: a task that runs has its job and its row (`RunningHasJob`),
so a deletion waits for it; one that has not started is marked before its job
may go, and ends as soon as it starts (`QueuedIsMarked`); and only running tasks
are being cancelled (`CancelledRuns`). Then nothing of a job that is gone is
left that could write (`GoneForGood`). That memory and table agree until
something fails needs to know who marked and cancelled a job (`CalmJob`).
The refinement needs what the status of a job says of its task and of its row
(`StatusIsTrue`: a restart finds `completed` only where the API said so). Whatever
a cancelled task does between its cancellation and its end is, to the client,
one more write of the reader or nothing (`CancelRefines`), and the deletion, which
waits for the task, is the step in which the upload goes (`DiscardRefines`).

Of `RunwayCache`, `ServersProofs` proves for every number of maps, airbases,
landings, sweeps, mission changes and restarts:

| Theorem | States |
|---|---|
| `TypeCorrect` | `Spec => []TypeOK` |
| `RightMaps` | `Spec => []RightTheatre` |
| `OneSweep` | `Spec => []SweptOnce` |
| `ExactFirst` | `Spec => []ExactAnswers` |
| `LocksWorked` | `Spec => []LocksAreWorked` |

It assumes `RunwayAssumption` (every airbase is on a map, landings and sweeps
are different tasks, bounds are naturals). `SweptOnce` is not inductive: it
takes that a task at work holds its map's lock alone (`WorkersHoldLocks`), and
that a landing at work saw its map in neither memory nor files when it took the
lock, so that nobody swept it on grading's account before (`LandingsSweepNew`;
the same gives `ExactAnswers`, since an exact capture would have been found).
`RightTheatre` takes that what a sweep has fetched so far is of its map unless
the mission changed under it (`SweepsStayRight`). Most steps move one task
that holds no lock (`IdleStep`, `IdleMove`), keep one at work (`WorkMove`) or
end its work (`Released`), and the actions are proved through those.

`TrackRetentionProofs` proves for any objects, any times of the configuration
that fit, any number of frames and landings:

| Theorem | States |
|---|---|
| `TypeCorrect` | `Spec => []TypeOK` |
| `NeverTwice` | `Spec => []NoRowTwice` |
| `ReadWhole` | `Spec => []RebuildReadsWhole` |

It assumes `RetentionAssumption` (bounds are naturals, the classes of objects
are apart, there are finitely many) and, for `ReadWhole`, `RetentionTimes`, which
the defaults of the code satisfy; it bounds neither how late a landing is found
nor how long it bounces. `NoRowTwice` needs that whatever the history
still holds and was queued before lies at or below the high-water mark
(`MarkInv`); every write raises the mark to what it queued, and what leaves the
history on its way out is queued before the due windows are looked at
(`UpdateRows`, `VanishRows`, `CloseRows`).

`RebuildReadsWhole` is the deep one. A landing is covered by an open window
until no row of it can arrive any more (`OpenInv`: the window ends `Margin +
Slack` after the last contact, and objects send in every frame, `FrameInv`);
the rows of a landing that were in time for it (`Owned`: no older than the
shortest window due when it was found) are accounted for, or held above the
mark for an open window (`CoverInv`). When a landing is found, its window
reaches back over rows that have come and gone, so the invariant has to say
that nothing in time for it was dropped: what is neither held nor accounted for
(`HistoryInv`), and what the mark passed over without queueing (`SkipInv`), is
older than a window that is due now. A landing whose window had been written,
and opens again while the buffer still shows it, wants rows that came after the
old window only, and those are in time by `Buffer < Approach + 3 (Margin +
Slack)` (`Reach`). Windows are at least as long as one landing's
and never meet (`WindowInv`; lemmas `MergedApart`, `MergedWithin` and
`MergedSpans` give what merging does). After the close `StoppedInv` is left:
every row a rebuild may read is accounted for or was passed over, whichever
contact its landing stores; a compaction keeps it for the landings whose
contacts are no further apart than the slack.

`LandingRowsProofs` proves for any number of flights, landings, requests,
rescans, reloads and restarts:

| Theorem | States |
|---|---|
| `Inductive` | `Spec => []IInv` |
| `TypeCorrect` | `Spec => []TypeOK` |
| `RowsOfOneInstant` | `Spec => []OneInstant` |
| `NoSecondRows` | `Spec => []NoSecondRow` |
| `DiscardedRowsStayGone` | `Spec => GoneStaysGone` |

It assumes `RowsAssumption` (the tasks are of different kinds). What a task
carries over an await is stale when it uses it, so the invariant says for each
task, at each place, what is still true of its burden (`TaskInv`): an update
completes its row to columns of one instant, unless another transaction wrote
the row since it was loaded (`WritesOneInstant`; that is when the row is `torn`);
what a request read was a row of one instant (`Reading`); a working rescan holds
the lock alone, its list has every row its flight had when it began, and it
comes to no landing twice (`RescanTask`, `ScanKnows`, `FindIsNew`); an ingestor
stores nothing that had a row when it looked (`Reporting`). Each of these has a
lemma that says which steps of the others leave it alone (`Still...`); then
each action is proved for the task that moves.

`DashboardProofs` proves for any number of pipelines, messages and connections,
any replay no longer than a page, and any page turned to:

| Theorem | States |
|---|---|
| `Inductive` | `Spec => []IInv` |
| `TypeCorrect` | `Spec => []TypeOK` |
| `NothingIsMissed` | `Spec => []NothingMissed` |
| `BadgeIsNews` | `Spec => []UnseenIsNews` |

It assumes `DashboardAssumption`: the importer is no pipeline, sizes are
naturals, and the replay is no longer than a page. A client is sent
nothing twice because what it was sent, what its replay still holds and what
broadcasts on their way bring it are three different things: replayed messages
lie before the place in the log where it registered, broadcast ones after it
(`Places`), and no message is announced twice (`MessageInv`). Badge and pager
need that the list shows everything the answer had, once (`ListInv`; lemmas
`OnTop` for a message on top of a list, `ReceiveList` for all it does to the
counts).

`AnalysisProofs` is about the two pure analyses, the grade and the detector. Of
the grade it proves, for every set of landings and passes that may be measured,
every approach that may be flown and every configuration of the cutting:

| Theorem | States |
|---|---|
| `ScoresSpeakOfMeasures` | `Spec => []ScoreIsMeasured` |
| `FlyingBetterPays` | `Spec => []BetterIsNotWorse` |
| `BreaksAreTurns` | `Spec => []BreakIsATurn` |
| `FlaresMakeNoTurn` | `Spec => []FlareMakesNoTurn` |
| `OrdersAreFlown` | `Spec => []FlownInOrder` |

The first two use `MeasureAssumption`: a measure is an integer or missing, and what is
graded has the measures its grader asks for; the grids of the run are some of
them. The bands, ladders and weights are those of the default configuration.
They speak of a landing that was graded, so the invariant says what
that is: one of the measured landings or passes, scored over the windows that
are still there (`GradedOnce`). The rest is arithmetic that the run samples on
its grids and the proof covers for all integers. Between two rungs the score is
an interpolation rounded down; since rounding keeps the order (`DividesMore`), a
ladder that falls from rung to rung falls everywhere (`LadderFalls`), off its
end too (`OffTheLadder`), and one whose stretches are gentle has no cliff at the
rungs either (`LadderIsGentle`, for the ladders of all aircraft classes in
`DescentHasNoCliff`). The speed, the angle of attack and the pattern are scored
from what the deviation is beyond a band (`SpeedFalls`, `AoaFalls`, `BandNearer`).
A landing with one thing flown better differs from the other in that alone
(`BetterLanding`), so each component's score is the same or no less
(`BetterScores`), and a weighted mean of the measured does not fall when one of
them rises (`GradeMore`), nor leave the range of them (`GradeBetween`). For a
carrier pass the severe factors can only become fewer (`BetterIsNoMoreSevere`).

The other three are about the cut of an approach and use `CircleAssumption` (a
full turn is an even number of units, the downwind cone is no wider than a half
circle each way, the thresholds are naturals), `NinetyAssumption` (a quarter turn
is a unit, and a heading can not be aligned for the groove and in the downwind
cone at once) and `FlightAssumption` (samples are a positive number of seconds
apart). Their invariant is `CutAsFlown`: the samples are in the order they were
flown, and what an approach was cut into is what its samples say. The rest is
about the operators. What a choice of samples is, is in `ChosenAre`.
The loop of `_turn_runs` keeps two things of what it has passed (`IsSplit`,
`TurnStepKeeps`): every run it has split off is one turn (`IsOneTurn`), and the
run it is in goes one way where it turns, its peak is where the loop has noted
it, and it has not flown straight for too long (`IsOpen`). A part of a turn is a
turn (`PartIsTurn`), which covers the trimming of its ends (`ClosedKeeps`) and the
shortening of a long break (`ShortenedIs`). For the flare, the track of the
approach up to it is a beginning of the whole track (`FlareCut`), and the turns
that had begun by then end in it, since the aircraft is lined up there
(`LastingSame`). A checkpoint is looked for after the one before it
(`CheckpointsAre`, `InTheirOrder`); for the groove, whose samples start before the
low pass, what counts is that it is timed from the end of a downwind of the
circuit flown last (`GrooveIs`).

`BreakIsATurn` said more before it was proved: that between any two of its points a
break never comes back by more than the reverse tolerance, nor flies straight
for longer than the straight tolerance. The code promises neither. Straight
flight may drift by just less than the rate of a turn, which `_turn_runs`
holds against a run only when it turns again (`Drift`); and where it cuts off a
turn the other way, the new run begins at the peak with a step over the samples
in between, which may be long and look straight (`CutOff`). The property names
both; at the points where a run turns, the tolerance is exact.

Of the detector it proves, for tracks of any length with any altitudes, known
or not, any gaps, thresholds and deck height, and a buffer of any age:

| Theorem | States |
|---|---|
| `DetectIsAnalysis` | `DetectSpec => []TrackInv`: the buffer is a track in order of time that ends with the last sample, and the events are an analysis of it |
| `LandingsAreApart` | `DetectSpec => []LandingsApart` |
| `LandingsAppearAtOnce` | `DetectSpec => AppearsAtOnce` |
| `LandingsKeepContact` | `DetectSpec => ContactsStay` |
| `RebuildsFind` | `DetectSpec => []RebuildFinds` |

It assumes `ScaleAssumption`: thresholds, spans and ages are naturals (times and
heights are on a grid), gaps are positive, a bounce limit is above the contact
height, and `NoValue` is no integer. The three loops of the analysis are recursive
functions. What such a function is at each place follows from the least place it
would not be (`ContactsAre`, `WalkIs`, `TakenIs`, by `Smallest`), and so do
facts about all its places:
the walk back leaves no contact behind it (`WalkBackKeeps`, `WalkKeeps`); after
each candidate the landings found are those that landed, in order, and what they
reach is used up (`FoundNext`, `UsedNext`, `OrderNext`, `TakenKeeps`). Hence
a contact is a landing when it is a candidate, does not sink and is in the reach
of no earlier landing (`LandedIs`), whatever the time of the analysis.

The action properties compare the analyses of two tracks, of which the second
has lost its `d` oldest samples and may have more at its end (`Slid`); every update
and removal makes such a pair with at most one (`KeepIs`, `SampleSlides`). A rate measured on the
shorter track is the same or unknown (`ReferenceSlid`), so a contact stays a
candidate, and its bounces are the same until the crash test of the longer track
ends them (`ContactsSlid`). With no sample lost, the last contact and the reach of
a landing stay or move to a new sample (`LastSlid`, `ReachSlid`), and no older
contact becomes a landing: the earlier landing that had used it up is still
there, or is itself used up as far as a new one (`LandedSlid`). A contact
that is overtaken by the bounces of an earlier landing would have been met by
them before (`BouncesMet`), unless samples were lost (`ContactSlid`).

That last case is a finding about the property. `ContactsStay` once said that a
contact is overtaken only by a climb-out; the proof did not close, and seven
samples show why: when the buffer loses a landing that had used up the next
contact, that contact becomes a landing of its own, and its bounces take in
a later landing that was already reported. The scene `Hops` holds the behaviour
now, and the property names the exception (`Merged`).

The rebuild analyses the rows of its window; what it has to find was reported at
any time before, from any buffer. So `RebuildInv` says of every final landing that
it was found in a part of the log (`Part`: any number of its oldest and of its newest
samples are missing, the oldest only if the buffer has lost some). The rows read are
another part, and one with the touchdown in it (`ReadsArePart`). Either may begin
before the other, and either may end before the other. If the rows begin at the
first contact or after it, nothing is claimed (`read[1].t >= f.first`). Otherwise
both hold every sample from the one before the contact to the last contact, and
what remains is an argument about bounces. The two loops stand at the same place
after each of these samples (`Level`, `BounceLevel`), so the landing of the rows
bounces on at least to the same last contact, unless they show one of its contacts
hard (`ChainGoesOn`). They do that only when the part the landing was found in
lacked older samples, since with none missing a rate is the same (`PartHard`). If
an earlier landing of the rows bounces on to this one, the two end together
(`Joined`), and when neither part lacks an oldest sample it cannot (`FrontsAgree`,
`NeverUsed`). So the landing of the rows that this one begins, or is part of,
spans the stored touchdown (`PartFound`), and `pick_event` takes it or an earlier
one that is as near (`PickIs`).

Here too the proof corrected the property, which once read the whole log and named
neither a crash nor the tolerance, nor that the window may lack the run-up of an
earlier landing the buffer still had. With `DescentSpan = 6` and `MaxDescent = 5` in
place of the run's values, TLC finds a contact that is a landing to the buffer and
a crash to the rebuild: the descent is measured against an older sample, which the
buffer has lost (`Crashed`). With `Tolerance = 2` and `RebuildMargin = 12` (the code's
60 s) it finds a landing whose touchdown moved on by a bounce, and an earlier landing
that ended two time units before it: `pick_event` prefers the one with the nearer
touchdown. In the run's instance neither occurs, nor does a landing that a window
alone, and not the buffer, takes for part of an earlier one.

No invariant is only model-checked. The prover has no induction over data.
(Induction over numbers it can do, as the least counterexample of a set of
naturals: `Smallest` in `AnalysisProofs` and `TrackRetentionProofs`.) Liveness under
fairness (`EventuallyFinal`, `EventuallySettled`,
`BatchReleased`, `KeepsTrying`, `StopReturns`, `EverySettles`, `Reconnects`)
stays with TLC: the prover does not reason about `ENABLED`.

## 5. What is not modelled

- The parser's text, the handshake's hash, positions and the geometry behind
  the glide slope, the centre line, the kinematics and the deviations: floating
  point, out of TLC's reach. The graders' measures are chosen data instead.
- Of the detector: the plane (which runway or ship is under a sample is data),
  the distance cut of the approach, the ship-relative track, the `on_ground`
  flag.
- Of the graders: hovering and threshold filters, sink rates of the carrier
  pass, the burble, comments and wording, the match of airframe names.
- Of the runway provider: which runway of a map matches a landing.
- Several live sources at once. They share only the database; rows of different
  sources have different flights. That `stop()` of the manager leaves the later
  sources running when one ingestor's `close()` fails (`multi_source.py:136`)
  is plain from its loop and takes no model.
- Of the importer: the upload and its progress counters; of the API: tokens,
  validation and the body limit; configuration wiring; Alembic revisions, the
  SQLite copy, and the views of the frontend.

Some limits of the code are exceptions of properties, not findings. A commit whose
answer is lost duplicates retained rows, which leave the queue only after it
(`app/ingest.py` 628-662): `StoredOnce` excepts them. A discard whose deletion
fails leaves an active job in memory until somebody tries again:
`EventuallySettled` excepts the histories with one. Rows with overlapping
transactions are excepted from `OneInstant`; sweeps the server changed its
mission under, from `RightTheatre`; contacts that the slid buffer or a late
climb-out took away (`Drowned`, `Swallowed`), from `RebuildFinds` and `ContactsStay`; later
landings that the bounces of a contact reach once the buffer has lost what had
used it up (`Merged`), from `ContactsStay`; contacts that only the rows read again
show to be a crash (`Crashed`), landings taken for part of an earlier one where the
buffer or the rows lack its run-up, and an earlier landing that ended within the
tolerance, from `RebuildFinds`; what a break drifts while it flies
straight, and the step over a turn that was cut off, from `BreakIsATurn`.

## 6. Findings and known divergences

The run `wedged` is a finding: a batch that fails after it created a flight or
object row leaves that row's id in the cache; every later line is refused by
the foreign key. The comment in `handle_line` (`ingest.py` 517-526) says the
session is discarded to prevent this.

The run `foreign` is another: `_rotate_session` (`ingest.py` 994-1004) drops the
detection state of the mission but keeps `_provisional_ids`, whose keys carry no
mission (1228). A landing that was pending when the mission restarted leaves its
key behind; the next mission's landing by the same object id at the same time on
its clock pops it (1264) and is written into the old mission's row, and has no
row of its own. The docstring (943-948) tells of "rows overwritten with a
foreign touchdown" as what happened without the rotation.

The modules keep further statements of the repository that the code does not
meet. No run checks them; put the definition in place of the properties of the
named run's configuration and TLC shows the behaviour.

| Definition | Run | The repository says | The code |
|---|---|---|---|
| `NothingNewIsSuppressed` (PROPERTY) | `restart` | a reported key "can only ever suppress a re-detection, never a new event" (`ingest.py` 946-948) | keys kept across a rotation suppress a landing of the next mission with the same object id and contact time (949) |
| `VanishedLeavesGate` (PROPERTY) | `restart` | the aircraft leaves the gate once every pending key "has been finalized (or vanished)" (`ingest.py` 1279-1282) | a vanished pending landing keeps its aircraft in the gate until the mission ends (1286) |
| `DelaysDouble` (PROPERTY) | `stream` | connect errors back off exponentially (`stream.py` 208-210) | a failing connect does not double the delay (257) |
| `ImportSkipsKnown` (INVARIANT) | `rows` | importing twice registers no landing twice (`src/README.md:200`) | a bounced landing is: the stored touchdown is the last contact, the one compared the first (`importer.py:206`) |
| `FinalStays` (PROPERTY) | `rows` | the status is flipped to final "once the outcome can no longer change" (`entities.py` 150-152) | a regrade or rebuild that read the row before its confirmation writes `provisional` back (`pipeline.py:543`); the reaper settles it again |
| `OutcomeIsFinal` (INVARIANT) | `touchdowns` | `is_final`: "True once the outcome can no longer change" (`detector.py:265`) | a full stop final after 15 s becomes a touch-and-go when the aircraft climbs out within 45 s (749) |
| `ConfirmedStays` (PROPERTY) | `dashboard` | as `FinalStays`, on display | a replayed or late message shows the provisional row again until the next list |
| `ReplayIsNotNews` (INVARIANT) | `dashboard` | a replayed landing is not counted as new (`frontend/src/lib/landings.ts`) | on pages further down it is |
| `LastTurnShown` (INVARIANT) | `grading` | "If no run turned enough, the last run is reported anyway" (`grading/pattern.py` 393) | the widest is, the first of equally wide ones (436) |

For the two about the dashboard take `ReplaySize = 2`, `PageSize = 2` and `Offsets = {0, 2}`;
for `LastTurnShown`, `MinBreakTurn = 200` and `Starts <- McLateStarts`.

## 7. What could come next

A model of which runway or ship lies under a sample.

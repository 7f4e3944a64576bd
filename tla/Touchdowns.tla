----------------------------- MODULE Touchdowns -----------------------------
(***************************************************************************)
(* The touchdown detector: one pure analysis of an aircraft's samples,     *)
(* repeated by the live ingest on a growing rolling buffer, once more when *)
(* the object is removed, and offline by the rebuild over the stored rows  *)
(* around a touchdown.                                                     *)
(* A sample carries its time, its altitude above the sea or the field and  *)
(* whether a ship of known deck height is under it.                        *)
(***************************************************************************)
EXTENDS Integers, Sequences, FiniteSets

CONSTANTS Scenes,        \* alphabets of samples [alt, deck]; one per behaviour
          Gaps,          \* times that may pass between two samples
          Deck,          \* altitude of the ships' decks
          Wow,           \* DetectionConfig.wow_agl_threshold_m
          MaxDescent,    \* max_touchdown_descent_ms
          ClimbOut,      \* climb_out_vertical_ms
          BounceMerge,   \* bounce_merge_agl_m
          FullStop,      \* full_stop_dwell_s
          TouchAndGo,    \* touch_and_go_max_dwell_s
          DescentSpan,   \* span_s of _descent_rate_before
          ClimbSpan,     \* span_s of _vertical_speed
          ApproachWindow, \* land_/carrier_approach_window_s
          PostTail,      \* post_touchdown_tail_s
          Tolerance,     \* MATCH_TOLERANCE_S of the rebuild
          RebuildMargin, \* REBUILD_MARGIN_S
          MaxAge,        \* RollingTrackBuffer's max_age_s
          MaxReceived,   \* bound on the samples of a behaviour, by scene
          MaxLongGaps,   \* bound on the gaps above the least one
          NoValue        \* what Python's None stands for

ASSUME ScaleAssumption ==
  /\ {Wow, MaxDescent, ClimbOut, BounceMerge, Deck} \subseteq Nat
  /\ {FullStop, TouchAndGo, DescentSpan, ClimbSpan, ApproachWindow, PostTail} \subseteq Nat
  /\ {Tolerance, RebuildMargin, MaxAge} \subseteq Nat
  /\ Wow < BounceMerge /\ FullStop < TouchAndGo /\ TouchAndGo < MaxAge
  /\ Gaps \subseteq Nat \ {0} /\ Gaps # {}
  /\ NoValue \notin Int
  /\ \A S \in Scenes : S \subseteq [alt : Int \cup {NoValue}, deck : BOOLEAN]

VARIABLES scene,    \* the alphabet of this behaviour
          log,      \* every sample received
          buffer,   \* RollingTrackBuffer._samples
          events,   \* the last analysis of the buffer
          final,    \* history: each landing as it was when first finalized
          gone      \* the object was removed

detectVars == <<scene, log, buffer, events, final, gone>>

Least(S) == CHOOSE x \in S : \A y \in S : x <= y
Greatest(S) == CHOOSE x \in S : \A y \in S : x >= y

(* _reference_surfaces: the known deck under a sample near a ship, else    *)
(* the ground. Whether a ship is within carrier_proximity_m is data here.  *)
Surface(x) == IF x.deck THEN Deck ELSE 0
NearShip(x) == x.deck

(* compute_agl: over a deck the sample's own AGL, which is measured to the *)
(* sea, is not trusted.                                                    *)
Height(x) == IF x.alt = NoValue THEN NoValue ELSE x.alt - Surface(x)

(* is_on_deck: TRUE, FALSE or NoValue; over a deck a band, else a ceiling. *)
OnDeck(x) ==
  CASE Height(x) = NoValue -> NoValue
    [] Height(x) # NoValue /\ x.deck -> (-Wow <= Height(x) /\ Height(x) <= Wow)
    [] OTHER -> Height(x) <= Wow

BelowDeck(x) == x.deck /\ Height(x) # NoValue /\ Height(x) < -Wow

(* Change of altitude per time unit to sample i, over at least `span`,     *)
(* compared with a rate: _descent_rate_before and _vertical_speed. NoValue *)
(* when no sample is that old or an altitude is missing.                   *)
Before(s, i, span) == {j \in 1..(i - 1) : s[i].t - s[j].t >= span}
Reference(s, i, span) ==
  IF Before(s, i, span) = {} THEN NoValue
  ELSE LET j == Greatest(Before(s, i, span))
       IN  IF s[j].alt = NoValue \/ s[i].alt = NoValue THEN NoValue ELSE j
Hard(s, i) ==
  LET j == Reference(s, i, DescentSpan)
  IN  j # NoValue /\ s[j].alt - s[i].alt > MaxDescent * (s[i].t - s[j].t)
Climbing(s, i) ==
  LET j == Reference(s, i, ClimbSpan)
  IN  j # NoValue /\ s[i].alt - s[j].alt > ClimbOut * (s[i].t - s[j].t)

(* Airborne / on-deck transitions that are not crashes.                    *)
MutCandidate(s, i) ==
  /\ i \in 2..(Len(s) - 1) /\ OnDeck(s[i - 1]) = FALSE /\ OnDeck(s[i]) = TRUE
  /\ OnDeck(s[i + 1]) = TRUE /\ ~Hard(s, i)
Candidate(s, i) ==
  i > 1 /\ OnDeck(s[i - 1]) = FALSE /\ OnDeck(s[i]) = TRUE /\ ~Hard(s, i)

(* _sinks_through_deck: under the deck before it is clearly airborne.      *)
Sinks(s, i) == \E j \in i..Len(s) :
  BelowDeck(s[j]) /\ \A k \in i..(j - 1) : OnDeck(s[k]) # FALSE

(* The bounce loop. A sample of unknown height counts as a contact.        *)
Bounce(s, m, j) ==
  LET h == IF Height(s[j]) = NoValue THEN 0 ELSE Height(s[j])
  IN  CASE m.over -> m
        [] ~m.over /\ OnDeck(s[j]) = FALSE ->
             [m EXCEPT !.air = TRUE, !.peak = IF h > @ THEN h ELSE @]
        [] ~m.over /\ OnDeck(s[j]) # FALSE /\ ~m.air -> m
        [] OTHER -> IF m.peak > BounceMerge \/ Hard(s, j)
                    THEN [m EXCEPT !.over = TRUE]
                    ELSE [last |-> j, air |-> FALSE, peak |-> 0, over |-> FALSE]
Contacts(s, i) ==
  LET m[j \in i..Len(s)] == IF j = i THEN [last |-> i, air |-> FALSE, peak |-> 0, over |-> FALSE]
                            ELSE Bounce(s, m[j - 1], j)
  IN  m
LastContact(s, i) == Contacts(s, i)[Len(s)].last

(* _classify_outcome: the climb-outs within the dwell of the last contact. *)
ClimbOuts(s, last) ==
  {j \in (last + 1)..Len(s) : /\ s[j].t - s[last].t <= TouchAndGo
                              /\ OnDeck(s[j]) = FALSE
                              /\ Climbing(s, j)}

(* _cut_approach walks back from the first contact: to the window's edge,  *)
(* to a previous contact, or to the climb-out of a low pass flown before   *)
(* the dwell. The window counts from the last contact, the dwell from the  *)
(* first.                                                                  *)
Departure(s, i, w, j) ==
  IF w.climbed /\ w.left = NoValue /\ s[j].t < s[i].t - TouchAndGo THEN w.start ELSE w.left
WalkBack(s, i, last, w, j) ==
  LET h == Height(s[j])
      back == [w EXCEPT !.start = j]
  IN  CASE w.stop -> w
        [] ~w.stop /\ s[j].t < s[last].t - ApproachWindow -> [w EXCEPT !.stop = TRUE]
        [] ~w.stop /\ s[j].t >= s[last].t - ApproachWindow /\ OnDeck(s[j]) = TRUE ->
             [w EXCEPT !.stop = TRUE, !.left = NoValue]
        [] OTHER ->
             CASE h = NoValue -> back
               [] h # NoValue /\ h <= BounceMerge ->
                    [back EXCEPT !.climbed = FALSE, !.left = Departure(s, i, w, j)]
               [] h # NoValue /\ h > BounceMerge /\ w.left # NoValue -> [w EXCEPT !.stop = TRUE]
               [] OTHER -> [back EXCEPT !.climbed = @ \/ Climbing(s, j)]
Walk(s, i, last) ==
  LET w[j \in 1..i] ==
        IF j = i THEN [start |-> i, climbed |-> FALSE, left |-> NoValue, stop |-> FALSE]
        ELSE WalkBack(s, i, last, w[j + 1], j)
  IN  w
ApproachStart(s, i, last) ==
  LET w == Walk(s, i, last)[1]
  IN  IF w.left = NoValue THEN w.start ELSE w.left
ApproachEnd(s, i, last) ==
  Greatest({i} \cup {j \in i..Len(s) : s[j].t <= s[last].t + PostTail})

MutLanding(s, i, last, now) ==
  LET out == ClimbOuts(s, last)
      outcome == CASE out = {} -> "full_stop"
                   [] out # {} /\ NearShip(s[last]) -> "bolter"
                   [] OTHER -> "touch_and_go"
  IN  [first |-> s[last].t, time |-> s[last].t, outcome |-> outcome,
       final |-> \/ outcome # "full_stop"
                 \/ now = NoValue
                 \/ now - s[last].t >= FullStop,
       cut |-> [k \in 1..(ApproachEnd(s, i, last) - ApproachStart(s, i, last) + 1) |->
                  s[ApproachStart(s, i, last) + k - 1]]]

(* LandingEvent: contacts, outcome, finality and approach of one landing.  *)
(* A carrier landing is one whose touchdown is near a ship.                *)
Landing(s, i, last, now) ==
  LET out == ClimbOuts(s, last)
      outcome == CASE out = {} -> "full_stop"
                   [] out # {} /\ NearShip(s[last]) -> "bolter"
                   [] OTHER -> "touch_and_go"
  IN  [first |-> s[i].t, time |-> s[last].t, outcome |-> outcome,
       final |-> \/ outcome # "full_stop"
                 \/ now = NoValue
                 \/ now - s[last].t >= FullStop,
       cut |-> [k \in 1..(ApproachEnd(s, i, last) - ApproachStart(s, i, last) + 1) |->
                  s[ApproachStart(s, i, last) + k - 1]]]

MutTake(s, now, a, i) ==
  IF ~Candidate(s, i) \/ Sinks(s, i) THEN a
  ELSE LET last == LastContact(s, i)
           out == ClimbOuts(s, last)
           reach == IF out = {} THEN last ELSE Least(out)
       IN  [used |-> IF reach > a.used THEN reach ELSE a.used,
            found |-> Append(a.found, Landing(s, i, last, now))]

(* One candidate of analyze_track: skipped when an earlier landing used it *)
(* up or when it sinks through the deck.                                   *)
Take(s, now, a, i) ==
  IF ~Candidate(s, i) \/ i <= a.used \/ Sinks(s, i) THEN a
  ELSE LET last == LastContact(s, i)
           out == ClimbOuts(s, last)
           reach == IF out = {} THEN last ELSE Least(out)
       IN  [used |-> IF reach > a.used THEN reach ELSE a.used,
            found |-> Append(a.found, Landing(s, i, last, now))]
Taken(s, now) ==
  LET a[i \in 0..Len(s)] == IF i = 0 THEN [used |-> 0, found |-> <<>>]
                            ELSE Take(s, now, a[i - 1], i)
  IN  a
AnalyzeTrack(s, now) == IF Len(s) < 2 THEN <<>> ELSE Taken(s, now)[Len(s)].found

MutPickEvent(found, time) ==
  LET Same == {k \in DOMAIN found : found[k].time = time}
  IN  IF Same = {} THEN NoValue ELSE Least(Same)
(* pick_event of the rebuild: the landing whose contacts span the stored   *)
(* touchdown time, the nearest if there are several; here its place.       *)
PickEvent(found, time) ==
  LET Spans == {k \in DOMAIN found : /\ found[k].first - Tolerance <= time
                                    /\ time <= found[k].time + Tolerance}
      Gap(k) == IF found[k].time < time THEN time - found[k].time ELSE found[k].time - time
  IN  IF Spans = {} THEN NoValue
      ELSE CHOOSE k \in Spans : \A l \in Spans : Gap(k) < Gap(l) \/ (Gap(k) = Gap(l) /\ k <= l)

(* The raw rows a rebuild reads for a stored touchdown (rebuild_window);   *)
(* that the store holds all of them is TrackRetention's to say.            *)
RebuildReads(s, time) ==
  LET Around == {k \in DOMAIN s : /\ time - (RebuildMargin + ApproachWindow) <= s[k].t
                                 /\ s[k].t <= time + RebuildMargin}
  IN  IF Around = {} THEN <<>> ELSE SubSeq(s, Least(Around), Greatest(Around))

(* RollingTrackBuffer.append: the oldest samples go, up to the first one   *)
(* that is young enough.                                                   *)
Keep(s, x) == LET all == Append(s, x)
              IN  SubSeq(all, Least({k \in 1..Len(all) : all[k].t >= x.t - MaxAge}), Len(all))

Firsts(found) == {found[k].first : k \in DOMAIN found}
Record(found) ==
  final \cup {[first |-> found[k].first, time |-> found[k].time,
               outcome |-> found[k].outcome] :
              k \in {l \in DOMAIN found : /\ found[l].final
                                          /\ \A f \in final : f.first # found[l].first}}

-----------------------------------------------------------------------------
DetectInit ==
  /\ scene \in Scenes
  /\ log = <<>> /\ buffer = <<>> /\ events = <<>> /\ final = {} /\ gone = FALSE

Now(s) == IF s = <<>> THEN 0 ELSE s[Len(s)].t
LongGaps == {k \in 2..Len(log) : log[k].t - log[k - 1].t > Least(Gaps)}

(* An update line: the sample joins the buffer, which is analysed again.   *)
Sample(x, gap) ==
  LET y == [t |-> Now(log) + gap, alt |-> x.alt, deck |-> x.deck]
  IN  /\ ~gone /\ Len(log) < MaxReceived[scene]
      /\ gap > Least(Gaps) => log # <<>> /\ Cardinality(LongGaps) < MaxLongGaps
      /\ log' = Append(log, y)
      /\ buffer' = Keep(buffer, y)
      /\ events' = AnalyzeTrack(buffer', y.t)
      /\ final' = Record(events')
      /\ UNCHANGED <<scene, gone>>

(* A removal line: the last analysis treats every landing as finished.     *)
Vanish ==
  /\ ~gone /\ buffer # <<>>
  /\ gone' = TRUE
  /\ events' = AnalyzeTrack(buffer, NoValue)
  /\ final' = Record(events')
  /\ UNCHANGED <<scene, log, buffer>>

DetectNext == (\E x \in scene, gap \in Gaps : Sample(x, gap)) \/ Vanish
DetectSpec == DetectInit /\ [][DetectNext]_detectVars
-----------------------------------------------------------------------------
(* One landing of an analysis: its contacts in time, the climb-out that    *)
(* ended a go-around.                                                      *)
Swallowed(f, found) == \E k \in DOMAIN found :
  /\ found[k].outcome # "full_stop"
  /\ found[k].first < f.first /\ f.first - found[k].time <= TouchAndGo
Merged(f, found) == \E k \in DOMAIN found :
  found[k].first < f.first /\ f.first <= found[k].time
Drowned(s, f) == \E i \in DOMAIN s : s[i].t = f.first /\ Sinks(s, i)
Crashed(s, f) == \E i \in DOMAIN s : f.first <= s[i].t /\ s[i].t <= f.time /\ Hard(s, i)

(* Landings of one analysis share no contact, and the approach stored for  *)
(* one never reaches back over another contact: the plan view draws one    *)
(* circuit (used_through of analyze_track, the walk of _cut_approach).     *)
LandingsApart == \A k \in DOMAIN events :
  /\ \A l \in DOMAIN events : k < l => events[k].time < events[l].first
  /\ \A n \in DOMAIN events[k].cut :
       events[k].cut[n].t < events[k].first => OnDeck(events[k].cut[n]) # TRUE

(* The identity live callers key on: a landing keeps its first contact in  *)
(* every later analysis, its touchdown only moving forward, unless its     *)
(* run-up left the buffer, the object sank beside the ship, an earlier     *)
(* contact turned out to be a go-around that climbed out after it, or the  *)
(* buffer slid and what it lost had kept an earlier contact from being a   *)
(* landing of its own, whose bounces now reach this one.                   *)
ContactsStay ==
  [][\A k \in DOMAIN events :
       \/ \E l \in DOMAIN events' : /\ events'[l].first = events[k].first
                                    /\ events'[l].time >= events[k].time
       \/ buffer'[1].t >= events[k].first
       \/ Drowned(buffer', events[k])
       \/ Swallowed(events[k], events')
       \/ buffer'[1] # buffer[1] /\ Merged(events[k], events')]_detectVars

(* The live gate analyses only on a fresh contact: no landing may come up  *)
(* later than at its own contact, or ingest never looks (new_contact in    *)
(* _maybe_detect_landing), as long as the buffer loses nothing.            *)
AppearsAtOnce ==
  [][Len(buffer') > Len(buffer) =>
       Firsts(events') \ Firsts(events) \subseteq {Now(log')}]_detectVars

(* What became of a final landing in an analysis of rows read again.       *)
FoundAgain(read, f) ==
  LET found == AnalyzeTrack(read, NoValue)
      e     == PickEvent(found, f.time)
  IN  \/ e # NoValue /\ found[e].first = f.first
      \/ read[1].t >= f.first
      \/ (e # NoValue /\ found[e].first < f.first) /\ (buffer # log \/ read[1] # log[1])
      \/ e # NoValue /\ found[e].time < f.time /\ f.time - found[e].time <= Tolerance
      \/ Crashed(read, f) /\ buffer # log
      \/ Drowned(read, f)
      \/ Swallowed(f, found)

(* What was reported as final can be found again: the offline analysis of  *)
(* the rows a rebuild reads around the stored touchdown time picks the     *)
(* landing with the same first contact, if these rows reach back before    *)
(* it. It takes it for part of an earlier one only when the buffer or the  *)
(* rows lack the run-up of that one, and one of its contacts for a crash   *)
(* only when the buffer had lost what shows that. And with a tolerance it  *)
(* may pick the landing before, over so shortly that it is nearer than     *)
(* what the touchdown has become. A contact that sank, or that an earlier  *)
(* landing climbed out after, is none of its own.                          *)
RebuildFinds == \A f \in final : FoundAgain(RebuildReads(log, f.time), f)

(* detector.py:265 "True once the outcome can no longer change": a landing *)
(* once analysed as final has the same outcome in every later analysis.    *)
OutcomeIsFinal == \A f \in final : \A k \in DOMAIN events :
  events[k].first = f.first => events[k].outcome = f.outcome
=============================================================================

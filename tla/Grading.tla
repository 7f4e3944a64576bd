------------------------------- MODULE Grading -------------------------------
(***************************************************************************)
(* Grading a landing: the samples of an approach are flown one by one, cut *)
(* into legs when the landing is graded, and scored over the windows the   *)
(* legs leave. Ashore grade_land_landing gives a letter, aboard            *)
(* grade_carrier_approach gives an LSO grade and reads the pattern.        *)
(***************************************************************************)
EXTENDS CarrierPattern

CONSTANTS MaxSamples,      \* bound: samples of an approach
          MaxLeft,         \* bound: left turns
          MaxRight,        \* bound: right turns
          Starts,          \* the directions an approach may start in
          Gap, TurnGap,   \* seconds between two samples, straight and turning
          LandProfiles, TrapProfiles, \* heights an approach is flown at
          Lands, Traps,    \* measures of landings ashore and aboard
          Exclude,         \* speed_flare_exclude_s
          SpeedWindow,     \* speed_reference_window_s
          GlideWindow,     \* glideslope_window_s
          MinSamples,      \* samples a fit, a mean or a final needs
          MinAoa           \* aoa.MIN_SAMPLES

ASSUME FlightAssumption ==
  Gap \in Nat \ {0} /\ TurnGap \in Nat \ {0} /\ Starts \subseteq Int

INSTANCE Scores

Measures == Int \cup {None}
LandMeasures == [class : Classes, band : DOMAIN AoaBands \cup {None}, descent_rate : Int,
                 touchdown_speed : Measures, glideslope : Measures, centerline : Measures,
                 aoa : Measures, pattern : [DOMAIN PatternBands -> Measures]]
TrapMeasures == [bolter : BOOLEAN, band : DOMAIN AoaBands \cup {None}, gs : Measures,
                 lateral : Measures, range : Measures, ratio : Measures, aoa : Measures]
ASSUME MeasureAssumption ==
  None \notin Int /\ Lands \subseteq LandMeasures /\ Traps \subseteq TrapMeasures

VARIABLES samples,         \* the approach: time and ground track, oldest first
          course,          \* the direction of flight, relative to the final course
          flown,           \* turns so far
          legs,            \* what the approach was cut into
          windows,         \* what the grader can measure
          result           \* what the grader returned

vars == <<samples, course, flown, legs, windows, result>>

Init == /\ samples = <<>> /\ course \in Starts
        /\ flown = [left |-> 0, right |-> 0]
        /\ legs = None /\ windows = None /\ result = None

(* One more sample: straight on, a quarter left or a quarter right.        *)
Flying == legs = None /\ windows = None /\ result = None
Most == [left |-> MaxLeft, right |-> MaxRight]
Ways == {"straight"} \cup DOMAIN Most
Fly(way) ==
  LET turn == CASE way = "left" -> -Ninety [] way = "right" -> Ninety [] OTHER -> 0
      gap == IF turn = 0 THEN Gap ELSE TurnGap
  IN  /\ Flying /\ Len(samples) < MaxSamples 
      /\ way # "straight" => samples # <<>> /\ flown[way] < Most[way]
      /\ course' = Wrap(course + turn)
      /\ flown' = [w \in DOMAIN flown |-> IF w = way THEN flown[w] + 1 ELSE flown[w]]
      /\ samples' = Append(samples,
           [t |-> IF samples = <<>> THEN Gap ELSE Final(samples).t + gap,
            ang |-> IF samples = <<>> THEN None ELSE course',
            way |-> course',
            level |-> turn = 0])
      /\ UNCHANGED <<legs, windows, result>>

(* The approach with its heights: the first samples on the deck or low over*)
(* the ramp, the last ones in the flare, before it a stretch below the     *)
(* gate, the rest above.                                                   *)
Flown(profile) ==
  LET n == Len(samples)
      Agl(i) == CASE i <= profile.deck \/ i > n - profile.flare -> profile.low
                  [] i > profile.deck /\ i <= n - profile.flare /\ i > n - profile.flare - profile.final ->
                       profile.middle
                  [] OTHER -> profile.high
  IN  [i \in 1..n |-> [t |-> samples[i].t, ang |-> samples[i].ang, way |-> samples[i].way,
                       level |-> samples[i].level, agl |-> Agl(i)]]
Down(s) == Final(s).t + Gap

(* segment_approach, on the samples of a landing ashore.                   *)
CutAshore(profile) ==
  /\ Flying /\ samples # <<>>
  /\ legs' = [kind |-> "land", s |-> Flown(profile), g |-> Segments(Flown(profile))]
  /\ UNCHANGED <<samples, course, flown, windows, result>>

(* ship_frame_view and analyze_carrier_pattern, on a landing aboard. The   *)
(* last sample lies one step astern of the ramp, the others follow from    *)
(* the directions flown; without recorded roll no sample is level.         *)
Moved(way) == CASE way = 0 -> <<1, 0>>
                [] way = Ninety -> <<0, 1>>
                [] way = -Ninety -> <<0, -1>>
                [] OTHER -> <<-1, 0>>
InShipFrame(s, rolls) ==
  LET n == Len(s)
      x[i \in 1..n] == IF i = n THEN -1 ELSE x[i + 1] - Moved(s[i + 1].way)[1]
      y[i \in 1..n] == IF i = n THEN 0 ELSE y[i + 1] - Moved(s[i + 1].way)[2]
  IN  [i \in 1..n |-> [t |-> s[i].t, agl |-> s[i].agl, ang |-> s[i].ang, x |-> x[i], y |-> y[i],
                       level |-> IF rolls THEN s[i].level ELSE None]]
CutAboard(profile, rolls) ==
  LET s == InShipFrame(Flown(profile), rolls)
  IN  /\ Flying /\ samples # <<>>
      /\ legs' = [kind |-> "carrier", s |-> s, at |-> CarrierAnalysis(s, Down(s))]
      /\ UNCHANGED <<samples, course, flown, windows, result>>

(* The windows of _glideslope_window and _aoa_component, and the samples a *)
(* speed reference may be taken from.                                      *)
GlideSamples(s, g) ==
  LET on == IF g.start # None THEN g.final ELSE Within(s, Down(s) - GlideWindow, Down(s) - 1)
  IN  SelectSeq(on, LAMBDA p : Known(p.agl, LAMBDA a : a >= FlareAgl))
HasFinalCut(g) == g.start # None /\ Len(g.final) >= MinSamples
AoaSamples(s, g) ==
  IF HasFinalCut(g) THEN Within(g.final, g.start, Down(s) - Exclude)
  ELSE Within(s, Down(s) - GlideWindow, Down(s) - Exclude)
SpeedReference(s, g) ==
  LET cutoff == Down(s) - Exclude
      Enough(on) == Len(on) >= MinSamples
      held == HasFinalCut(g) /\ Enough(Within(g.final, cutoff - SpeedWindow, cutoff))
      whole == HasFinalCut(g) /\ Enough(Within(g.final, 0, cutoff))
  IN  CASE held -> "final"
        [] ~held /\ whole -> "final-whole"
        [] ~held /\ ~whole /\ Enough(Within(s, 0, cutoff)) -> "approach"
        [] OTHER -> "none"
MaxInboundAgl(s) ==
  LET Seen == {s[i].agl : i \in DOMAIN s} \ {None}
  IN  IF Seen = {} THEN None ELSE Highest(Seen)

(* What a landing can be graded on; the samples are not looked at again.   *)
Measure(hint) ==
  /\ legs # None
  /\ windows' = IF legs.kind = "carrier" THEN [kind |-> "carrier"]
                ELSE [kind |-> "land",
                      pattern |-> EffectivePattern(legs.g, hint),
                      speed |-> SpeedReference(legs.s, legs.g) # "none",
                      glideslope |-> Len(GlideSamples(legs.s, legs.g)) >= MinSamples,
                      aoa |-> Len(AoaSamples(legs.s, legs.g)) >= MinAoa,
                      break |-> BreakJudged(legs.g),
                      max_agl |-> MaxInboundAgl(legs.s)]
  /\ samples' = <<>> /\ course' = 0 /\ legs' = None
  /\ flown' = [way \in DOMAIN flown |-> 0]
  /\ UNCHANGED result

(* The scores of grade_land_landing: None where the window was empty, the  *)
(* value unknown or the airframe class not scored on it.                   *)
LandScores(m, w) ==
  LET score == [descent_rate |-> DescentScore(m.descent_rate, m.class),
                touchdown_speed |-> IF w.speed THEN SpeedScore(m.touchdown_speed) ELSE None,
                glideslope |-> IF w.glideslope THEN BandScore(m.glideslope, GlideBand) ELSE None,
                centerline |-> BandScore(m.centerline, CenterBand),
                pattern |-> IF w.pattern # "overhead" THEN None
                            ELSE PatternScore([alignment |-> m.pattern.alignment,
                                   break_altitude |-> IF w.break THEN m.pattern.break_altitude ELSE None,
                                   downwind_course |-> m.pattern.downwind_course,
                                   downwind_altitude |-> m.pattern.downwind_altitude]),
                aoa |-> IF w.aoa /\ m.band # None /\ m.aoa # None
                        THEN AoaScore(m.aoa, AoaBands[m.band]) ELSE None]
  IN  [c \in Components |-> IF c \in Unscored(m.class) THEN None ELSE score[c]]

GradeAshore(m) ==
  /\ windows # None /\ result = None /\ windows.kind = "land"
  /\ result' = [m |-> m, scores |-> LandScores(m, windows),
                grade |-> LandGrade(LandScores(m, windows), windows.pattern, windows.max_agl)]
  /\ UNCHANGED <<samples, course, flown, legs, windows>>

GradeAboard(m) ==
  /\ windows # None /\ result = None /\ windows.kind = "carrier"
  /\ result' = [m |-> m, factors |-> Factors(m), grade |-> LsoGrade(m)]
  /\ UNCHANGED <<samples, course, flown, legs, windows>>

Next ==
  \/ \E way \in Ways : Fly(way)
  \/ \E profile \in LandProfiles : CutAshore(profile)
  \/ \E profile \in TrapProfiles, rolls \in BOOLEAN : CutAboard(profile, rolls)
  \/ \E hint \in {"straight_in", None} : Measure(hint)
  \/ \E m \in Lands : GradeAshore(m)
  \/ \E m \in Traps : GradeAboard(m)

Spec == Init /\ [][Next]_vars
-----------------------------------------------------------------------------
Landed == legs # None /\ legs.kind = "land"
Trapped == legs # None /\ legs.kind = "carrier"
Instants(seq) == [i \in DOMAIN seq |-> seq[i].t]

(* What is measured as the break is one turn, one way, and no longer and   *)
(* no wider than a break can be, however the aircraft weaved before its    *)
(* downwind: between two points it turned at, it never comes back by more  *)
(* than the tolerance, and it never flies straight for longer than the     *)
(* tolerance. What it drifts while it flies straight is not held against   *)
(* it, and where a turn the other way was cut off, the step over the cut   *)
(* may look like straight flight (BreakBounds, _turn_runs).                *)
BreakIsATurn ==
  Landed /\ Len(legs.g.break) > 2 =>
    LET b == legs.g.break
        h == Headings(b)
        tr == Track(legs.s)
        Drift(i) == IF i > 1 /\ ~Slow(b[i - 1], b[i]) THEN 0 ELSE TurnRate * StraightTolerance
        CutOff == \E x \in DOMAIN tr : b[1].t < tr[x].t /\ tr[x].t < b[2].t
    IN  /\ Duration(b) <= MaxBreak /\ Size(Turned(b)) <= MaxBreakTurn
        /\ \E way \in {-1, 1} : \A i, j \in DOMAIN b :
             i < j => way * (h[j] - h[i]) >= -(ReverseTolerance + Drift(i) + Drift(j))
        /\ \A i, j \in DOMAIN b :
             (i < j /\ \A k \in i..(j - 1) : Slow(b[k], b[k + 1])) =>
               b[j].t - b[i].t <= StraightTolerance \/ (i = 1 /\ CutOff)

(* What _break_leg's doc says: when no turn was wide enough for a break,   *)
(* the last turn before the downwind is shown anyway (pattern.py:394). The *)
(* code shows the widest, the first of equally wide ones.                  *)
LastTurnShown ==
  Landed /\ legs.g.break # <<>> /\ Size(Turned(legs.g.break)) < MinBreakTurn =>
    LET before == Within(Track(legs.s), 0, First(legs.g.downwind).t - 1)
    IN  Final(legs.g.break).t = Final(Final(TurnRuns(Stretch(before)))).t

(* Nothing flown in the flare counts as the turn onto final: cutting the   *)
(* approach where the flare begins finds the same legs, when the aircraft  *)
(* was lined up there (_flare_entry_time; a drift or a swerve over the     *)
(* runway once moved the start of the final past the whole approach).      *)
FlareMakesNoTurn ==
  Landed /\ FlareEntry(legs.s) # None =>
    LET before == Within(legs.s, 0, FlareEntry(legs.s))
        g == Segments(before)
    IN  (Track(before) # <<>> /\ Size(Final(Track(before)).ang) <= Align) =>
          /\ legs.g.rollout = g.rollout
          /\ Instants(legs.g.downwind) = Instants(g.downwind)
          /\ Instants(legs.g.break) = Instants(g.break)

(* The legs follow each other: break, downwind, turn onto final, final; a  *)
(* circuit is only graded as one when its downwind and its turn onto final *)
(* were found (segment_approach searches each leg in what lies before the  *)
(* next, the gate may start the final late but never early).               *)
LegsInOrder(g) ==
  /\ g.break # <<>> => g.downwind # <<>> /\ Final(g.break).t < First(g.downwind).t
  /\ g.downwind # <<>> => g.rollout # None /\ Final(g.downwind).t <= g.rollout
  /\ g.rollout # None => g.start # None /\ g.rollout <= g.start
  /\ \A i \in DOMAIN g.final : g.start <= g.final[i].t
  /\ DownwindJudged(g) => g.downwind # <<>> /\ g.final # <<>>

(* So do the checkpoints of a carrier pattern: the low pass it follows,    *)
(* the break, abeam, the ninety, the wake, the groove and the touchdown,   *)
(* in every circuit with every stretch of it missing; and a groove is      *)
(* timed only at the end of a downwind of its own circuit, after the       *)
(* wave-off if there was one (_checkpoints looks for each from the one     *)
(* before; _groove reads the samples before the low pass as well).         *)
CheckpointsInOrder(c, touchdown) ==
  LET Ends(leg) == IF leg = <<>> THEN None ELSE Final(leg).t
      broke == IF c.legs.break = <<>> THEN None ELSE First(c.legs.break).t
      times == <<c.pass, broke, c.points.abeam, c.points.ninety, c.points.wake,
                 c.groove.start, touchdown>>
  IN  /\ \A i, j \in DOMAIN times :
           i < j /\ times[i] # None /\ times[j] # None => times[i] <= times[j]
      /\ c.groove.start # None =>
           /\ c.pattern = "overhead" /\ Ends(c.legs.downwind) # None
           /\ Ends(c.legs.downwind) <= c.groove.start
           /\ c.pass # None => c.pass < c.groove.start

(* What an approach is cut into was flown in that order, ashore and aboard.*)
FlownInOrder ==
  /\ Landed => LegsInOrder(legs.g)
  /\ Trapped => CheckpointsInOrder(legs.at, Down(legs.s))

LandResult == result # None /\ windows.kind = "land"
TrapResult == result # None /\ windows.kind = "carrier"

(* What the best of each measure is, and m with one measure moved there.   *)
Best(m) == [descent_rate |-> 0, touchdown_speed |-> 100, glideslope |-> 0, centerline |-> 0,
            aoa |-> IF m.band = None THEN m.aoa ELSE AoaBands[m.band].min,
            gs |-> 0, lateral |-> 0, range |-> 0, ratio |-> 100]
Better(m, c, Of) ==
  LET best == Best(m)[c]
      Nearer(x) == x # None /\ ((best <= x /\ x <= m[c]) \/ (m[c] <= x /\ x <= best))
  IN  IF m[c] = None THEN {} ELSE {[m EXCEPT ![c] = x] : x \in {y \in {n[c] : n \in Of} : Nearer(y)}}
Rank(grade) ==
  CASE grade = "OK" -> 4 [] grade = "OK-" -> 3 [] grade = "(OK)" -> 2 [] grade = "CUT" -> 1
    [] OTHER -> 0

(* The descent rate score has no cliff and agrees with its verdict: one    *)
(* foot per minute more never costs more than a point (450 fpm once scored *)
(* 80 and 451 fpm 55), and "good" means 80 points or more, at every edge   *)
(* of the bands (_descent_rate_score).                                     *)
Floor == [i \in {"very_smooth", "good", "somewhat_hard", "hard", "extremely_hard"} |->
            CASE i = "very_smooth" -> Points(100) [] i = "good" -> Points(80)
              [] i = "somewhat_hard" -> Points(55) [] i = "hard" -> Points(30) [] OTHER -> Points(5)]
NoCliff(fpm, class) ==
  LET score == DescentScore(fpm, class)
  IN  /\ \A d \in 1..3 : LET more == DescentScore(fpm + d, class)
                         IN  more <= score /\ score - more <= Points(d)
      /\ score >= Floor[DescentVerdict(fpm, class)]
      /\ (DescentVerdict(fpm, class) # "very_smooth" => score < Points(100))

(* Flying one thing better never makes the grade worse: with one measure   *)
(* moved towards its best value the score of a landing does not fall, and  *)
(* an LSO grade does not drop (bands, weights and the counting of          *)
(* factors); and the descent rate has no cliff. Of the pattern component   *)
(* nothing is said: its four measures stay as they were flown.             *)
BetterIsNotWorse ==
  /\ LandResult /\ result.grade.score # None =>
       \A c \in Components \ {"pattern"} : \A m \in Better(result.m, c, Lands) :
         result.grade.score <= LandGrade(LandScores(m, windows), windows.pattern, windows.max_agl).score
  /\ LandResult => NoCliff(result.m.descent_rate, result.m.class)
  /\ TrapResult =>
       \A c \in {"gs", "lateral", "range", "ratio", "aoa"} : \A m \in Better(result.m, c, Traps) :
         Rank(result.grade) <= Rank(LsoGrade(m))

(* A grade speaks of what was measured: the score lies between the worst   *)
(* and the best measured component, so that nothing that could not be      *)
(* measured counts for or against the pilot (weight_sum over `measured`).  *)
ScoreIsMeasured ==
  LandResult /\ result.grade.score # None =>
    \E worst, best \in {c \in Components : result.scores[c] # None} :
      /\ result.scores[worst] <= result.grade.score
      /\ result.grade.score <= result.scores[best]
=============================================================================

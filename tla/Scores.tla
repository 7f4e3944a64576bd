------------------------------- MODULE Scores -------------------------------
(***************************************************************************)
(* How measured deviations become scores, verdicts and letters: the bands  *)
(* of the land grader and the factors of the LSO grader. A score runs to   *)
(* Full, weights are in hundredths; None is "not measured". The bands and  *)
(* thresholds are those of the default configuration, in whole units:      *)
(* fpm, hundredths of a speed ratio, hundredths of a degree, decimetres.   *)
(***************************************************************************)
EXTENDS Integers, Sequences, FiniteSets

CONSTANT None

Full == 10000

Points(n) == n * (Full \div 100)

(* _interpolate: piecewise linear over an ascending ladder <<x, score>>.   *)
Between(p, q, x) == p[2] + ((x - p[1]) * (q[2] - p[2])) \div (q[1] - p[1])
Interpolate(x, ladder) ==
  LET n == Len(ladder)
      Steps == {i \in 1..(n - 1) : x <= ladder[i + 1][1]}
      i == CHOOSE k \in Steps : \A l \in Steps : k <= l
  IN  CASE x <= ladder[1][1] -> ladder[1][2]
        [] x > ladder[1][1] /\ Steps # {} -> Between(ladder[i], ladder[i + 1], x)
        [] OTHER -> ladder[n][2]

(* descent_rate_bands and _descent_rate_score, by airframe class.          *)
Classes == {"default", "fighter", "carrier", "helicopter"}
RateBands(class) ==
  CASE class = "default" -> <<120, 250, 450, 650>>
    [] class = "fighter" -> <<300, 450, 650, 850>>
    [] class = "carrier" -> <<500, 850, 1100, 1400>>
    [] class = "helicopter" -> <<100, 200, 350, 550>>
DescentScore(fpm, class) ==
  LET b == RateBands(class)
  IN  Interpolate(fpm, <<<<b[1], Points(100)>>, <<b[2], Points(80)>>, <<b[3], Points(55)>>,
                         <<b[4], Points(30)>>, <<b[4] + b[4] \div 2, Points(5)>>>>)
DescentVerdict(fpm, class) ==
  LET b == RateBands(class)
      Met == {i \in 1..4 : fpm <= b[i]}
      Names == <<"very_smooth", "good", "somewhat_hard", "hard">>
  IN  IF Met = {} THEN "extremely_hard" ELSE Names[CHOOSE i \in Met : \A j \in Met : i <= j]

(* _speed_ratio_score: touchdown speed over the speed held on final.       *)
SlowGood == 88  SlowFair == 80  FastGood == 103  FastFair == 110
SpeedScore(ratio) ==
  LET Off(x, span) == Interpolate(x, <<<<0, Points(100)>>, <<span, Points(65)>>,
                                       <<span + 10, Points(30)>>>>)
  IN  CASE ratio = None -> None
        [] ratio # None /\ ratio > FastGood -> Off(ratio - FastGood, FastFair - FastGood)
        [] ratio # None /\ ratio < SlowGood -> Off(SlowGood - ratio, SlowGood - SlowFair)
        [] OTHER -> Points(100)
SpeedVerdict(ratio) ==
  CASE ratio = None -> "unknown"
    [] ratio # None /\ ratio > FastFair -> "fast"
    [] ratio # None /\ ratio > FastGood /\ ratio <= FastFair -> "slightly_fast"
    [] ratio # None /\ ratio < SlowFair -> "slow"
    [] ratio # None /\ ratio < SlowGood /\ ratio >= SlowFair -> "slightly_slow"
    [] OTHER -> "on_speed"

(* _band_score over <<good, fair, poor>>.                                  *)
MutBandScore(x, b) ==
  CASE x = None -> None
    [] x # None /\ x <= b[1] -> Points(100)
    [] x # None /\ x >= b[3] -> Points(5)
    [] x # None /\ x > b[1] /\ x <= b[2] ->
         Points(100) - ((x - b[1]) * Points(45)) \div (b[2] - b[1])
    [] OTHER -> Points(55) - ((b[3] - x) * Points(50)) \div (b[3] - b[2])
BandScore(x, b) ==
  CASE x = None -> None
    [] x # None /\ x <= b[1] -> Points(100)
    [] x # None /\ x >= b[3] -> Points(5)
    [] x # None /\ x > b[1] /\ x <= b[2] ->
         Points(100) - ((x - b[1]) * Points(45)) \div (b[2] - b[1])
    [] OTHER -> Points(55) - ((x - b[2]) * Points(50)) \div (b[3] - b[2])
GlideBand == <<35, 70, 150>>
CenterBand == <<30, 80, 200>>

(* AoaBand, aoa_verdict and aoa_score. Bands as in the configuration:      *)
(* [min, max] on speed, fast below, slow above, in hundredths of a degree. *)
AoaBands == [hornet |-> [min |-> 740, max |-> 880, fast |-> 690, slow |-> 930],
             tomcat |-> [min |-> 944, max |-> 1128, fast |-> 898, slow |-> 1174],
             falcon |-> [min |-> 1100, max |-> 1300, fast |-> 850, slow |-> 1400],
             mirage2000 |-> [min |-> 1300, max |-> 1500, fast |-> 1100, slow |-> 1700],
             viggen |-> [min |-> 1200, max |-> 1550, fast |-> 1100, slow |-> 1650],
             harrier |-> [min |-> 1000, max |-> 1200, fast |-> 800, slow |-> 1350]]
MinFarSpan == 100
AoaVerdict(x, b) ==
  CASE x < b.fast -> "fast"
    [] b.fast <= x /\ x < b.min -> "slightly_fast"
    [] b.max < x /\ x <= b.slow -> "slightly_slow"
    [] x > b.slow -> "slow"
    [] OTHER -> "on_speed"
AoaScore(x, b) ==
  LET excess == IF x < b.min THEN b.min - x ELSE x - b.max
      span == IF x < b.min THEN b.min - b.fast ELSE b.slow - b.max
      far == IF span < MinFarSpan THEN MinFarSpan ELSE span
      beyond == excess - span
      tail == Points(30) - ((beyond - far) * Points(25)) \div far
  IN  CASE b.min <= x /\ x <= b.max -> Points(100)
        [] excess > 0 /\ excess <= span -> Points(100) - (excess * Points(35)) \div span
        [] excess > span /\ beyond <= far -> Points(65) - (beyond * Points(35)) \div far
        [] OTHER -> IF tail < Points(5) THEN Points(5) ELSE tail

(* The mean of the measured parts of an overhead pattern: alignment, break *)
(* altitude, downwind course and altitude (metres, degrees).               *)
PatternBands == [alignment |-> <<100, 250, 600>>, break_altitude |-> <<30, 75, 180>>,
                 downwind_course |-> <<8, 18, 35>>, downwind_altitude |-> <<45, 90, 200>>]
PatternScore(parts) ==
  LET Measured == {c \in DOMAIN PatternBands : parts[c] # None}
      Mark(c) == IF parts[c] = None THEN 0 ELSE BandScore(parts[c], PatternBands[c])
      total == Mark("alignment") + Mark("break_altitude") + Mark("downwind_course")
                 + Mark("downwind_altitude")
  IN  IF Measured = {} THEN None ELSE total \div Cardinality(Measured)

(* The weights of grade_land_landing, in hundredths.                       *)
Weights(pattern) ==
  IF pattern = "overhead"
  THEN [descent_rate |-> 25, touchdown_speed |-> 15, glideslope |-> 20,
        centerline |-> 20, pattern |-> 20, aoa |-> 20]
  ELSE [descent_rate |-> 30, touchdown_speed |-> 20, glideslope |-> 25,
        centerline |-> 25, pattern |-> 0, aoa |-> 25]
Components == {"descent_rate", "touchdown_speed", "glideslope", "centerline", "pattern", "aoa"}
Unscored(class) == IF class = "helicopter" THEN {"touchdown_speed", "glideslope"} ELSE {}

MinMeasuredWeight == 50
MinFlightAgl == 30
Letters == <<"A", "B", "C", "D">>
Floors == <<90, 78, 62, 45>>

Total(x) == x.descent_rate + x.touchdown_speed + x.glideslope + x.centerline + x.pattern + x.aoa

(* Measured components, their total weight and the letter of the mean: no  *)
(* letter when too little was measured or too little was flown.            *)
MutWeighed(scores, w) == w
Weighed(scores, w) == [c \in Components |-> IF scores[c] = None THEN 0 ELSE w[c]]
Marks(scores, w) == [c \in Components |-> IF scores[c] = None THEN 0 ELSE scores[c] * w[c]]
LandGrade(scores, pattern, maxAgl) ==
  LET weight == Total(Weighed(scores, Weights(pattern)))
      total == Total(Marks(scores, Weights(pattern)))
      flown == maxAgl = None \/ maxAgl >= MinFlightAgl
      graded == flown /\ weight >= MinMeasuredWeight
      Reached == {i \in DOMAIN Letters : total >= Points(Floors[i]) * weight}
  IN  [score |-> IF graded THEN total \div weight ELSE None,
       letter |-> CASE ~graded -> None
                    [] graded /\ Reached = {} -> "E"
                    [] OTHER -> Letters[CHOOSE i \in Reached : \A j \in Reached : i <= j],
       ungraded |-> CASE ~flown -> "insufficient-flight"
                      [] flown /\ ~graded -> "insufficient-coverage"
                      [] OTHER -> None]

(* _detect_factors: severity by name. A carrier pass is measured by the    *)
(* mean glideslope deviation gs and the greatest lateral deviation at the  *)
(* ramp, touchdown over approach speed, the range of speeds, and the       *)
(* median angle of attack with its band, which replaces the speed ratio.   *)
SpeedFactor(m) ==
  LET v == AoaVerdict(m.aoa, AoaBands[m.band])
  IN  CASE m.band # None /\ m.aoa # None ->
             CASE v = "on_speed" -> {}
               [] v \in {"fast", "slightly_fast"} ->
                    {<<"FAST", IF v = "fast" THEN "major" ELSE "minor">>}
               [] OTHER -> {<<"SLOW", IF v = "slow" THEN "major" ELSE "minor">>}
        [] (m.band = None \/ m.aoa = None) /\ m.ratio # None /\ m.ratio > 107 -> {<<"FAST", "major">>}
        [] (m.band = None \/ m.aoa = None) /\ m.ratio # None /\ m.ratio < 93 -> {<<"SLOW", "major">>}
        [] OTHER -> {}
Factors(m) ==
  SpeedFactor(m)
    \cup {f \in {<<"HIGH", "major">>} : m.gs # None /\ m.gs > 30}
    \cup {f \in {<<"LOW", "major">>} : m.gs # None /\ m.gs < -20}
    \cup {f \in {<<"OFFLINE", "major">>} : m.lateral # None /\ m.lateral > 30}
    \cup {f \in {<<"POWER", "minor">>} : m.range # None /\ m.range > 80}
    \cup {f \in {<<"BOLTER", "major">>} : m.bolter}
Major(m) == Cardinality({f \in Factors(m) : f[2] = "major"})

(* The decision of grade_carrier_approach.                                 *)
LsoGrade(m) ==
  LET deep == m.gs # None /\ m.gs < -45
  IN  CASE m.bolter -> "_NO_GRADE_"
        [] ~m.bolter /\ (deep \/ Major(m) >= 3) -> "CUT"
        [] ~m.bolter /\ ~deep /\ Major(m) = 2 -> "(OK)"
        [] ~m.bolter /\ ~deep /\ Major(m) = 1 -> "OK-"
        [] OTHER -> "OK"
=============================================================================

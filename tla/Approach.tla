------------------------------ MODULE Approach ------------------------------
(***************************************************************************)
(* How the graders cut a flown approach into break, downwind and final.    *)
(* An approach is the sequence of its samples before the touchdown: time   *)
(* t, height agl, and the direction `ang` of the ground track relative to  *)
(* the final course, None where the aircraft hardly moved. Angles are in   *)
(* units that divide Circle, the number of units in a full turn.           *)
(***************************************************************************)
EXTENDS Integers, Sequences

CONSTANTS Circle,          \* angle units in a full turn
          Align,           \* rollout_align_deg
          InitialAlign,    \* initial_align_deg
          Cone,            \* downwind_cone_deg
          TurnRate,        \* downwind_max_turn_rate_deg_s
          GateAgl,         \* stabilization_gate_agl_m
          FlareAgl,        \* rollout_min_agl_m = glideslope_min_agl_m
          MinExcursion,    \* rollout_min_excursion_s
          MinDownwind,     \* pattern.min_downwind_s
          MinBreak,        \* pattern.min_break_s
          MaxBreak,        \* pattern.max_break_s
          MinBreakTurn,    \* pattern.min_break_turn_deg
          MaxBreakTurn,    \* pattern.max_break_turn_deg
          Lookback,        \* pattern.break_lookback_s
          StraightTolerance, \* pattern.break_straight_tolerance_s
          ReverseTolerance,  \* pattern.break_reverse_tolerance_deg
          RequireDownwind,   \* pattern.require_downwind
          None

ASSUME CircleAssumption ==
  /\ Circle \in Nat \ {0} /\ Circle % 2 = 0 /\ 2 * Cone <= Circle
  /\ {Align, InitialAlign, Cone, TurnRate, MinExcursion, MinDownwind, MinBreak} \subseteq Nat
  /\ {MaxBreak, MinBreakTurn, MaxBreakTurn, Lookback} \subseteq Nat
  /\ {StraightTolerance, ReverseTolerance} \subseteq Nat
  /\ None \notin Int
ASSUME PatternAssumption == RequireDownwind \in BOOLEAN

Size(x) == IF x < 0 THEN -x ELSE x
Wrap(x) == ((x + Circle \div 2) % Circle) - Circle \div 2
Lowest(S) == CHOOSE x \in S : \A y \in S : x <= y
Highest(S) == CHOOSE x \in S : \A y \in S : x >= y

(* The samples at some of the indices of a sequence, in their order.       *)
Chosen(s, K) ==
  LET c[i \in 0..Len(s)] == IF i = 0 THEN <<>>
                            ELSE IF i \in K THEN Append(c[i - 1], s[i]) ELSE c[i - 1]
  IN  c[Len(s)]
Since(s, from) == Chosen(s, {i \in DOMAIN s : s[i].t >= from})
Within(s, from, to) == Chosen(s, {i \in DOMAIN s : from <= s[i].t /\ s[i].t <= to})

(* track_points: the samples that moved far enough to have a direction.    *)
Track(s) == Chosen(s, {i \in DOMAIN s : s[i].ang # None})

(* _gate_time and _flare_entry_time: the last sample above a height.       *)
LastAt(s, High(_)) ==
  LET H == {i \in DOMAIN s : s[i].agl # None /\ High(s[i].agl)}
  IN  IF H = {} THEN None ELSE s[Highest(H)].t
GateTime(s) == LastAt(s, LAMBDA a : a > GateAgl)
FlareEntry(s) == LastAt(s, LAMBDA a : a >= FlareAgl)

(* Maximal intervals of a track whose points are all In and whose steps    *)
(* all Join, as pairs <<first, last>>.                                     *)
Runs(tr, In(_), Join(_, _)) ==
  LET n == Len(tr)
      Linked(i) == In(tr[i]) /\ In(tr[i + 1]) /\ Join(tr[i], tr[i + 1])
  IN  {r \in (1..n) \X (1..n) :
         /\ r[1] <= r[2]
         /\ In(tr[r[1]]) /\ \A i \in r[1]..(r[2] - 1) : Linked(i)
         /\ r[1] > 1 => ~Linked(r[1] - 1)
         /\ r[2] < n => ~Linked(r[2])}

Turn(p, q) == Wrap(q.ang - p.ang)
Span(tr, r) == tr[r[2]].t - tr[r[1]].t
Slow(p, q) == Size(Turn(p, q)) < TurnRate * (q.t - p.t)

(* _rollout_index: the end of the last turn onto final that lasted, and    *)
(* did not begin in the flare.                                             *)
Excursions(tr) == Runs(tr, LAMBDA p : Size(p.ang) > Align, LAMBDA p, q : TRUE)
MutRolloutIndex(s, tr) ==
  LET Lasting == {r \in Excursions(tr) : Span(tr, r) >= MinExcursion}
  IN  IF Lasting = {} THEN None ELSE Highest({r[2] : r \in Lasting})
RolloutIndex(s, tr) ==
  LET flare == FlareEntry(s)
      Turned == {r \in Excursions(tr) :
                   /\ flare = None \/ tr[r[1]].t <= flare
                   /\ Span(tr, r) >= MinExcursion}
  IN  IF Turned = {} THEN None ELSE Highest({r[2] : r \in Turned})

(* _downwind_leg: the longest leg flown the other way without turning, the *)
(* latest of the longest.                                                  *)
DownwindLeg(tr) ==
  LET Away == Runs(tr, LAMBDA p : Size(p.ang) >= Circle \div 2 - Cone,
                   LAMBDA p, q : Size(Turn(p, q)) <= TurnRate * (q.t - p.t))
  IN  IF Away = {} THEN None
      ELSE CHOOSE r \in Away : \A x \in Away :
             \/ Span(tr, r) > Span(tr, x)
             \/ Span(tr, r) = Span(tr, x) /\ tr[r[2]].t >= tr[x[2]].t

(* Heading change from the first point of a leg to each, and over it all.  *)
Headings(leg) ==
  LET h[i \in 0..Len(leg)] == IF i < 2 THEN 0 ELSE h[i - 1] + Turn(leg[i - 1], leg[i])
  IN  h
Turned(leg) == Headings(leg)[Len(leg)]

(* _turn_runs: one step of splitting a stretch into single turns. A run    *)
(* ends after flying straight for too long, or at its peak once the turn   *)
(* has come back by more than the tolerance; straight ends are dropped.    *)
Trim(run) ==
  LET Ends == {k \in 1..Len(run) : \A i \in k..(Len(run) - 1) : Slow(run[i], run[i + 1])}
  IN  SubSeq(run, 1, Lowest(Ends))
Closed(w, run) == IF Len(run) >= 2 /\ Len(Trim(run)) >= 2
                  THEN Append(w.runs, Trim(run)) ELSE w.runs
Idle(runs) == [runs |-> runs, run |-> <<>>, sum |-> 0, way |-> 0,
               peak |-> 0, top |-> 0, level |-> None]
Begun(runs, p, q) ==
  [runs |-> runs, run |-> <<p, q>>, sum |-> Turn(p, q),
   way |-> IF Turn(p, q) > 0 THEN 1 ELSE -1,
   peak |-> Size(Turn(p, q)), top |-> 2, level |-> None]
TurnStep(w, p, q) ==
  LET sum == w.sum + Turn(p, q)
      since == IF w.level = None THEN p.t ELSE w.level
  IN  CASE w.run = <<>> -> IF Slow(p, q) THEN w ELSE Begun(w.runs, p, q)
        [] w.run # <<>> /\ Slow(p, q) ->
             IF q.t - since > StraightTolerance THEN Idle(Closed(w, w.run))
             ELSE [w EXCEPT !.run = Append(@, q), !.sum = sum, !.level = since]
        [] w.run # <<>> /\ ~Slow(p, q) /\ w.way * sum < w.peak - ReverseTolerance ->
             Begun(Closed(w, SubSeq(w.run, 1, w.top)), w.run[w.top], q)
        [] OTHER ->
             [w EXCEPT !.run = Append(@, q), !.sum = sum, !.level = None,
                       !.peak = IF w.way * sum > @ THEN w.way * sum ELSE @,
                       !.top = IF w.way * sum > w.peak THEN Len(w.run) + 1 ELSE @]
MutTurnRuns(tr) == <<tr>>
Ended(w) == IF w.run = <<>> THEN w.runs ELSE Closed(w, w.run)
Turning(tr) ==
  LET w[i \in 0..Len(tr)] == IF i < 2 THEN Idle(<<>>) ELSE TurnStep(w[i - 1], tr[i - 1], tr[i])
  IN  w
TurnRuns(tr) == Ended(Turning(tr)[Len(tr)])

(* _break_leg: the turn into the downwind, searched back to where the      *)
(* initial was flown; the last that turned enough, else the largest; cut   *)
(* at its start to the longest and the widest a break can be.              *)
Initial(tr, i) == /\ Size(tr[i].ang) <= InitialAlign
                  /\ i < Len(tr) /\ Slow(tr[i], tr[i + 1])
Stretch(tr) ==
  LET n == Len(tr)
      Ends == {i \in 1..n : tr[n].t - tr[i].t > Lookback \/ Initial(tr, i)}
  IN  IF Ends = {} THEN tr ELSE SubSeq(tr, Highest(Ends) + 1, n)
Fits(leg) == \/ Len(leg) <= 2
             \/ /\ leg[Len(leg)].t - leg[1].t <= MaxBreak
                /\ Size(Turned(leg)) <= MaxBreakTurn
WidestRun(runs) ==
  LET Wide == {k \in DOMAIN runs : Size(Turned(runs[k])) >= MinBreakTurn}
      Widest == {k \in DOMAIN runs :
                   \A l \in DOMAIN runs : Size(Turned(runs[k])) >= Size(Turned(runs[l]))}
  IN  runs[IF Wide # {} THEN Highest(Wide) ELSE Lowest(Widest)]
Shortened(leg) ==
  LET Cuts == {k \in 1..Len(leg) : Fits(SubSeq(leg, k, Len(leg)))}
  IN  SubSeq(leg, Lowest(Cuts), Len(leg))
BreakOf(runs) == IF runs = <<>> THEN <<>> ELSE Shortened(WidestRun(runs))
BreakLeg(tr) == IF tr = <<>> THEN <<>> ELSE BreakOf(TurnRuns(Stretch(tr)))

(* segment_approach                                                        *)
FinalStart(rollout, gate) ==
  CASE rollout = None -> gate
    [] rollout # None /\ gate = None -> rollout
    [] OTHER -> Highest({rollout, gate})
Legs(s, tr, rollout, start, leg) ==
  [rollout |-> rollout, start |-> start,
   final |-> IF start = None THEN <<>> ELSE Since(s, start),
   downwind |-> IF leg = None THEN <<>> ELSE SubSeq(tr, leg[1], leg[2]),
   break |-> IF leg = None THEN <<>> ELSE BreakLeg(SubSeq(tr, 1, leg[1] - 1))]
LegsFrom(s, tr, k) ==
  IF k = None THEN Legs(s, tr, None, GateTime(s), None)
  ELSE Legs(s, tr, tr[k].t, FinalStart(tr[k].t, GateTime(s)), DownwindLeg(SubSeq(tr, 1, k)))
Segments(s) == LET tr == Track(s) IN LegsFrom(s, tr, RolloutIndex(s, tr))

Duration(leg) == leg[Len(leg)].t - leg[1].t

(* mark_judged, is_overhead_pattern and effective_approach_pattern.        *)
BreakJudged(g) == /\ g.break # <<>> /\ Duration(g.break) >= MinBreak
                  /\ \E i, j \in DOMAIN g.break :
                       i # j /\ g.break[i].agl # None /\ g.break[j].agl # None
                  /\ Len(g.break) < 2 \/ Size(Turned(g.break)) >= MinBreakTurn
DownwindJudged(g) == g.downwind # <<>> /\ Duration(g.downwind) >= MinDownwind
IsOverhead(g) == RequireDownwind => DownwindJudged(g)
EffectivePattern(g, hint) ==
  CASE IsOverhead(g) -> "overhead"
    [] ~IsOverhead(g) /\ (g.rollout = None \/ hint = "straight_in") -> "straight_in"
    [] OTHER -> "unknown"
=============================================================================

---------------------------- MODULE CarrierPattern ----------------------------
(***************************************************************************)
(* The case I pattern of a carrier pass: the last low pass over the ramp,  *)
(* the break, the abeam, ninety and wake checkpoints and the groove. A     *)
(* sample adds to those of Approach its place in the ship's frame, x ahead *)
(* of the ramp and y to starboard, and whether its recorded roll is level  *)
(* (None where no roll was recorded).                                      *)
(***************************************************************************)
EXTENDS Approach

CONSTANTS PassGuard,       \* LOW_PASS_GUARD_S
          PassOffset,      \* LOW_PASS_MAX_OFFSET_M
          PassHeight,      \* LOW_PASS_MAX_ALTITUDE_M
          InitialLookback, \* INITIAL_LOOKBACK_S
          InitialOffset,   \* INITIAL_MAX_OFFSET_M
          InitialHeight,   \* INITIAL_MIN_ALTITUDE_M
          GrooveAlign,     \* groove_align_deg
          GrooveOk,        \* groove_time_ok_s, <<least, most>>
          Ninety           \* a quarter of the circle

(* A leg flown the other way is never within the groove's alignment.       *)
ASSUME NinetyAssumption ==
  /\ Ninety \in Nat /\ Circle = 4 * Ninety
  /\ PassGuard \in Nat /\ GrooveAlign \in Nat /\ GrooveAlign + Cone < 2 * Ninety

Known(x, P(_)) == x # None /\ P(x)
Pairs(s) == {i \in DOMAIN s : i + 1 \in DOMAIN s}
First(s) == s[1]
Final(s) == s[Len(s)]

(* _last_low_pass: the latest time the ramp was flown over low and near    *)
(* the centre line without touching down, early enough before touchdown.   *)
LowPass(s, touchdown) ==
  LET early == Chosen(s, {i \in DOMAIN s : s[i].t < touchdown - PassGuard})
      Over == {i \in Pairs(early) :
                 /\ early[i].x < 0 /\ early[i + 1].x >= 0
                 /\ Size(early[i + 1].y) <= PassOffset
                 /\ Known(early[i + 1].agl, LAMBDA a : a < PassHeight)}
  IN  IF Over = {} THEN None ELSE early[Highest(Over) + 1].t

(* The samples the pattern is read from: those since the low pass. The     *)
(* first of them has no track of its own.                                  *)
View(s, pass) ==
  LET kept == IF pass = None THEN s ELSE Since(s, pass)
  IN  IF kept = <<>> THEN kept ELSE [kept EXCEPT ![1].ang = None]

(* _entry: whether the break was flown from an initial, an aligned pass    *)
(* from astern.                                                            *)
Entry(view, g) ==
  LET FromAstern(p) == /\ First(g.break).t - InitialLookback <= p.t
                       /\ p.t < First(g.break).t
                       /\ Size(p.ang) <= InitialAlign
                       /\ p.x < 0 /\ Size(p.y) <= InitialOffset
                       /\ Known(p.agl, LAMBDA a : a >= InitialHeight)
  IN  CASE g.break = <<>> -> None
        [] g.break # <<>> /\ (\E i \in DOMAIN Track(view) : FromAstern(Track(view)[i])) -> "initial"
        [] OTHER -> "turn"

(* _pattern_side: the side of the widest sample of the downwind, or of all.*)
Side(view, g) ==
  LET Off(s) == SelectSeq(s, LAMBDA p : p.y # 0)
      s == IF Off(g.downwind) # <<>> THEN g.downwind ELSE view
      Widest == {i \in DOMAIN s : \A j \in DOMAIN s : Size(s[i].y) >= Size(s[j].y)}
  IN  IF Widest # {} /\ s[Lowest(Widest)].y > 0 THEN 1 ELSE -1

(* _groove: from the first wings-level sample since the last point still   *)
(* turning onto the final course, or the point after it when no roll was   *)
(* recorded.                                                               *)
Groove(s, g, touchdown) ==
  LET tr == Track(s)
      Off == {i \in DOMAIN tr : Size(tr[i].ang) > GrooveAlign}
      turning == tr[Highest(Off)].t
      level == Chosen(s, {i \in DOMAIN s : turning <= s[i].t /\ s[i].level = TRUE})
      start == IF level # <<>> THEN First(level).t ELSE tr[Highest(Off) + 1].t
      lasted == touchdown - start
      Measured == DownwindJudged(g) /\ Off # {} /\ Highest(Off) < Len(tr)
  IN  [start |-> IF Measured THEN start ELSE None,
       verdict |-> CASE ~Measured -> None
                     [] Measured /\ lasted < GrooveOk[1] -> "NESA"
                     [] Measured /\ lasted > GrooveOk[2] -> "LIG"
                     [] OTHER -> "OK"]

(* _crossing: the first pair of samples between which a value stops being  *)
(* positive, as the time of the later one (samples lie on the grid).       *)
Crossing(s, Value(_), Where(_)) ==
  LET Cross == {i \in Pairs(s) : /\ Where(s[i]) /\ Where(s[i + 1])
                                 /\ Value(s[i]) > 0 /\ Value(s[i + 1]) <= 0}
  IN  IF Cross = {} THEN None ELSE s[Lowest(Cross) + 1].t

(* _checkpoints: each is looked for from the one before it, in the samples *)
(* between the downwind (or the end of the break) and the groove.          *)
MutCheckpoints(s, view, g, groove, touchdown) ==
  LET side == Side(view, g)
      begin == CASE g.downwind # <<>> -> First(g.downwind).t
                 [] g.downwind = <<>> /\ g.break # <<>> -> Final(g.break).t
                 [] OTHER -> None
      end == IF groove.start = None THEN touchdown ELSE groove.start
      Inbound(from) == Within(view, from, end)
      abeam == Crossing(Inbound(begin), LAMBDA p : p.x, LAMBDA p : side * p.y > 0)
      tr == Track(Within(s, begin, end))
      Turns == {i \in Pairs(tr) : Size(tr[i].ang) > Ninety /\ Size(tr[i + 1].ang) <= Ninety}
      ninety == IF Turns = {} THEN None ELSE tr[Lowest(Turns) + 1].t
      wake == Crossing(Inbound(begin), LAMBDA p : side * p.y, LAMBDA p : p.x < 0)
  IN  IF begin = None THEN [abeam |-> None, ninety |-> None, wake |-> None]
      ELSE [abeam |-> abeam, ninety |-> ninety, wake |-> wake]
Checkpoints(s, view, g, groove, touchdown) ==
  LET side == Side(view, g)
      begin == CASE g.downwind # <<>> -> First(g.downwind).t
                 [] g.downwind = <<>> /\ g.break # <<>> -> Final(g.break).t
                 [] OTHER -> None
      end == IF groove.start = None THEN touchdown ELSE groove.start
      Inbound(from) == Within(view, from, end)
      abeam == Crossing(Inbound(begin), LAMBDA p : p.x, LAMBDA p : side * p.y > 0)
      since == IF abeam = None THEN begin ELSE abeam
      tr == Track(Within(s, since, end))
      Turns == {i \in Pairs(tr) : Size(tr[i].ang) > Ninety /\ Size(tr[i + 1].ang) <= Ninety}
      ninety == IF Turns = {} THEN None ELSE tr[Lowest(Turns) + 1].t
      after == IF ninety = None THEN since ELSE ninety
      wake == Crossing(Inbound(after), LAMBDA p : side * p.y, LAMBDA p : p.x < 0)
  IN  IF begin = None THEN [abeam |-> None, ninety |-> None, wake |-> None]
      ELSE [abeam |-> abeam, ninety |-> ninety, wake |-> wake]

(* analyze_carrier_pattern.                                                *)
PatternRead(s, touchdown, pass, view, g) ==
  LET groove == Groove(s, g, touchdown)
  IN  [pass |-> pass, legs |-> g, entry |-> Entry(view, g), groove |-> groove,
       points |-> Checkpoints(s, view, g, groove, touchdown),
       pattern |-> CASE DownwindJudged(g) -> "overhead"
                     [] ~DownwindJudged(g) /\ groove.start = None /\ g.rollout = None -> "straight_in"
                     [] OTHER -> "unknown"]
CarrierAnalysis(s, touchdown) ==
  LET pass == LowPass(s, touchdown)
      view == View(s, pass)
  IN  PatternRead(s, touchdown, pass, view, Segments(view))
=============================================================================

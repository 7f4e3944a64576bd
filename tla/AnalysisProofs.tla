------------------------------ MODULE AnalysisProofs ------------------------------
(* What a grade says, for any measures, any approach and any configuration of
   its cutting; and what the detector finds, for every track, any deck and
   thresholds, and buffers of any age.

   Scores come down ladders and off bands. A ladder that falls from rung to
   rung never scores a worse value higher (LadderFalls, OffTheLadder) and has
   no cliff where each of its stretches is gentle (LadderIsGentle,
   DescentHasNoCliff); that rounding keeps the order carries it from rungs to
   values (DividesMore). A mean of the measured lies between the worst and the
   best of them and does not fall when one of them rises (GradeBetween,
   GradeMore), and a pass flown better has no severe factor that it did not
   have before (BetterIsNoMoreSevere). What has been graded is one measured
   landing or pass, whole (GradedOnce).

   An approach is cut by choosing samples (ChosenAre), adding up heading
   changes (HeadingsMore) and splitting the track into turns. What is split off
   is one turn, one way, and what the loop is in is the beginning of one
   (IsSplit, TurnStepKeeps); part of a turn is a turn (PartIsTurn). So a break
   is one (BreakIs), a track cut at the flare has the turns of the whole
   (FlareCut, LastingSame), and legs and checkpoints are in order (SegmentsAre,
   CheckpointsAre). What was cut says what was flown (CutAsFlown).

   The detector walks a track three times: forward from a contact over its
   bounces, back from it over the approach, and once over the candidates. The
   walk back never leaves a contact behind it (WalkBackKeeps). After each
   candidate the landings found are exactly those that landed, in order, and as
   far as they reach the samples are used up (TakenKeeps), so whether a contact
   is a landing is a fact of the track alone (LandedIs). Then two tracks are
   compared, of which the second has lost its d oldest samples and may have won
   others at the end (Slid): the bounces follow (ContactsSlid), with none lost
   no older contact becomes a landing (LandedSlid), and a landing keeps its
   contact unless it sinks or is overtaken (ContactSlid). Every update slides
   the buffer (SampleSlides). A rebuild reads a part of the log (ReadsArePart),
   and what was final once was found in another (RebuildInv). A landing of one
   bounces on in the other as far (ChainGoesOn), so it is found there or is
   lost for a reason that can be named (PartFound), and pick_event chooses it
   (PickIs). *)
EXTENDS Touchdowns, Grading, WellFoundedInduction, SequenceTheorems, FiniteSetTheorems, TLAPS

----------------------------------------
(* Numbers. *)

\* What rounding down means.
LEMMA Divides ==
  ASSUME NEW a \in Int, NEW n \in Int, n > 0
  PROVE  a \div n \in Int /\ n * (a \div n) <= a /\ a < n * (a \div n) + n
OBVIOUS

\* It keeps the order.
LEMMA DividesMore ==
  ASSUME NEW a \in Int, NEW b \in Int, a <= b, NEW n \in Int, n > 0
  PROVE  a \div n <= b \div n
<1> DEFINE p == a \div n
           q == b \div n
<1>1. /\ p \in Int /\ n * p <= a /\ a < n * p + n
      /\ q \in Int /\ n * q <= b /\ b < n * q + n
  BY Divides
<1> HIDE DEF p, q
<1>2. n * p < n * (q + 1)
  BY <1>1
<1>3. p < q + 1
  BY <1>1, <1>2
<1> QED
  BY <1>1, <1>3 DEF p, q

\* And the bounds that are multiples.
LEMMA DividesWithin ==
  ASSUME NEW a \in Int, NEW n \in Int, n > 0, NEW k \in Int
  PROVE  /\ n * k <= a => k <= a \div n
         /\ a < n * (k + 1) => a \div n <= k
         /\ a <= n * k => a \div n <= k
         /\ (n * k) \div n = k
<1> DEFINE p == a \div n
           q == (n * k) \div n
<1>1. p \in Int /\ n * p <= a /\ a < n * p + n
  BY Divides
<1>2. q \in Int /\ n * q <= n * k /\ n * k < n * q + n
  BY Divides
<1> HIDE DEF p, q
<1>3. ASSUME n * k <= a PROVE k <= p
  <2>1. n * k < n * (p + 1)
    BY <1>1, <1>3
  <2> QED
    BY <1>1, <2>1
<1>4. ASSUME a < n * (k + 1) PROVE p <= k
  <2>1. n * p < n * (k + 1)
    BY <1>1, <1>4
  <2> QED
    BY <1>1, <2>1
<1>5. ASSUME a <= n * k PROVE p <= k
  BY <1>4, <1>5
<1>6. q = k
  <2>1. n * k < n * (q + 1)
    BY <1>2
  <2>2. k < q + 1 /\ q <= k
    BY <1>2, <2>1
  <2> QED
    BY <1>2, <2>2
<1> QED
  BY <1>3, <1>4, <1>5, <1>6 DEF p, q

\* A nonempty set of naturals has a least element.
LEMMA Smallest ==
  ASSUME NEW S, S \subseteq Nat, S # {}
  PROVE  \E x \in S : \A y \in S : x <= y
<1> DEFINE R == {ss \in Nat \X Nat : ss[1] < ss[2]}
<1>1. IsWellFoundedOn(R, Nat)
  BY NatLessThanWellFounded DEF OpToRel
<1> HIDE DEF R
<1>2. PICK x \in S : \A y \in S : ~(<<y, x>> \in R)
  BY <1>1, WFMin
<1>3. \A y \in S : ~(y < x)
  BY <1>2 DEF R
<1> QED
  BY <1>3

----------------------------------------
(* Ladders. *)

Rungs == Int \X Int
Descending(ladder) ==
  \A i, j \in DOMAIN ladder : i < j => ladder[i][1] < ladder[j][1] /\ ladder[j][2] <= ladder[i][2]

\* Between two rungs the score falls from one to the other.
LEMMA BetweenRungs ==
  ASSUME NEW p \in Rungs, NEW q \in Rungs, p[1] < q[1], q[2] <= p[2],
         NEW x \in Int, p[1] <= x, x <= q[1]
  PROVE  /\ Between(p, q, x) \in Int
         /\ q[2] <= Between(p, q, x) /\ Between(p, q, x) <= p[2]
         /\ x = p[1] => Between(p, q, x) = p[2]
         /\ x = q[1] => Between(p, q, x) = q[2]
<1> DEFINE n == q[1] - p[1]
           a == (x - p[1]) * (q[2] - p[2])
           drop == q[2] - p[2]
<1>1. n \in Int /\ n > 0 /\ a \in Int /\ drop \in Int /\ p[2] \in Int /\ q[2] \in Int /\ drop <= 0
  BY DEF Rungs
<1>2. n * drop <= a
  <2>1. x - p[1] \in Int /\ x - p[1] <= n
    BY DEF Rungs
  <2> QED
    BY <1>1, <2>1
<1>3. a <= n * 0
  <2>1. x - p[1] \in Int /\ 0 <= x - p[1]
    BY DEF Rungs
  <2> QED
    BY <1>1, <2>1
<1>4. x = p[1] => a = n * 0
  BY <1>1 DEF Rungs
<1>5. x = q[1] => a = n * drop
  BY <1>1 DEF Rungs
<1>6. Between(p, q, x) = p[2] + a \div n
  BY DEF Between
<1> HIDE DEF n, a
<1>7. a \div n \in Int /\ drop <= a \div n /\ a \div n <= 0
  BY <1>1, <1>2, <1>3, Divides, DividesWithin
<1>8. x = p[1] => a \div n = 0
  BY <1>1, <1>4, DividesWithin
<1>9. x = q[1] => a \div n = drop
  BY <1>1, <1>5, DividesWithin
<1> QED
  BY <1>1, <1>6, <1>7, <1>8, <1>9

LEMMA BetweenFalls ==
  ASSUME NEW p \in Rungs, NEW q \in Rungs, p[1] < q[1], q[2] <= p[2],
         NEW x \in Int, NEW y \in Int, p[1] <= x, x <= y, y <= q[1]
  PROVE  Between(p, q, y) <= Between(p, q, x)
<1> DEFINE n == q[1] - p[1]
           drop == q[2] - p[2]
           a == (x - p[1]) * drop
           b == (y - p[1]) * drop
<1>1. n \in Int /\ n > 0 /\ drop \in Int /\ drop <= 0 /\ a \in Int /\ b \in Int
  BY DEF Rungs
<1>2. b <= a
  <2>1. x - p[1] \in Int /\ y - p[1] \in Int /\ x - p[1] <= y - p[1]
    BY DEF Rungs
  <2> QED
    BY <1>1, <2>1
<1>3. Between(p, q, x) = p[2] + a \div n /\ Between(p, q, y) = p[2] + b \div n
  BY DEF Between
<1>4. p[2] \in Int
  BY DEF Rungs
<1> HIDE DEF n, drop, a, b
<1>5. b \div n <= a \div n
  BY <1>1, <1>2, DividesMore
<1>6. a \div n \in Int /\ b \div n \in Int
  BY <1>1, Divides
<1> QED
  BY <1>3, <1>4, <1>5, <1>6

\* Where the score between two rungs falls by no more than `slope' a step, one
\* step more costs no more than that.
LEMMA BetweenGently ==
  ASSUME NEW p \in Rungs, NEW q \in Rungs, p[1] < q[1], q[2] <= p[2],
         NEW slope \in Int, p[2] - q[2] <= slope * (q[1] - p[1]),
         NEW x \in Int, p[1] <= x, x + 1 <= q[1]
  PROVE  Between(p, q, x) - Between(p, q, x + 1) <= slope
<1> DEFINE n == q[1] - p[1]
           drop == q[2] - p[2]
           a == (x - p[1]) * drop
           b == (x + 1 - p[1]) * drop
<1>1. n \in Int /\ n > 0 /\ drop \in Int /\ a \in Int /\ b \in Int /\ b = a + drop
  BY DEF Rungs
<1>2. -(slope * n) <= drop
  BY DEF Rungs
<1>3. Between(p, q, x) = p[2] + a \div n /\ Between(p, q, x + 1) = p[2] + b \div n
  BY DEF Between, Rungs
<1>4. p[2] \in Int
  BY DEF Rungs
<1> HIDE DEF n, drop, a, b
<1>5. PICK k \in Int : k = a \div n /\ n * k <= a
  BY <1>1, Divides
<1>8. PICK l \in Int : l = b \div n
  BY <1>1, Divides
<1>6. n * (k - slope) <= b
  <2>1. n * (k - slope) = n * k - slope * n
    BY <1>1, <1>5
  <2> QED
    BY <1>1, <1>2, <1>5, <2>1
<1>7. k - slope <= l
  BY <1>1, <1>5, <1>6, <1>8, DividesWithin
<1> QED
  BY <1>3, <1>4, <1>5, <1>7, <1>8

\* Above the first rung and up to the last, a value lies between two rungs, and
\* is scored by them.
LEMMA OnTheLadder ==
  ASSUME NEW ladder \in Seq(Rungs), ladder # <<>>, NEW x \in Int
  PROVE  LET n == Len(ladder) IN
         /\ x <= ladder[1][1] => Interpolate(x, ladder) = ladder[1][2]
         /\ x > ladder[1][1] /\ x <= ladder[n][1] =>
              \E i \in 1 .. (n - 1) : /\ ladder[i][1] < x /\ x <= ladder[i + 1][1]
                                      /\ Interpolate(x, ladder) = Between(ladder[i], ladder[i + 1], x)
<1> DEFINE n == Len(ladder)
           Steps == {i \in 1 .. (n - 1) : x <= ladder[i + 1][1]}
<1>1. n \in Nat /\ n > 0 /\ \A i \in 1 .. n : ladder[i] \in Rungs /\ ladder[i][1] \in Int
  BY DEF Rungs
<1>4. n = Len(ladder)
  OBVIOUS
<1> HIDE DEF n
<1>2. ASSUME x <= ladder[1][1] PROVE Interpolate(x, ladder) = ladder[1][2]
  <2>1. ladder[1][1] \in Int
    BY <1>1
  <2>2. ~(x > ladder[1][1])
    BY <1>2, <2>1
  <2> QED
    BY <1>2, <2>2 DEF Interpolate
<1>3. ASSUME x > ladder[1][1], x <= ladder[n][1]
      PROVE  \E i \in 1 .. (n - 1) :
               /\ ladder[i][1] < x /\ x <= ladder[i + 1][1]
               /\ Interpolate(x, ladder) = Between(ladder[i], ladder[i + 1], x)
  <2> DEFINE i == CHOOSE k \in Steps : \A l \in Steps : k <= l
  <2>1. n > 1 /\ n - 1 \in Steps
    BY <1>1, <1>3
  <2>2. Steps # {} /\ Steps \subseteq Nat
    <3>1. Steps # {}
      BY <2>1
    <3>2. Steps \subseteq 1 .. (n - 1)
      OBVIOUS
    <3>3. 1 .. (n - 1) \subseteq Nat
      BY <1>1
    <3> QED
      BY <3>1, <3>2, <3>3
  <2>3. \E k \in Steps : \A l \in Steps : k <= l
    BY <2>2, Smallest
  <2>4. i \in Steps /\ \A l \in Steps : i <= l
    BY <2>3
  <2>5. Interpolate(x, ladder) = Between(ladder[i], ladder[i + 1], x)
    <3>1. ~(x <= ladder[1][1])
      BY <1>1, <1>3
    <3> QED
      BY <1>3, <1>4, <2>2, <3>1 DEF Interpolate
  <2> HIDE DEF i
  <2>6. ladder[i][1] < x
    <3>1. CASE i = 1
      BY <1>1, <1>3, <3>1
    <3>2. CASE i # 1
      <4>1. i - 1 \in 1 .. (n - 1) /\ (i - 1) + 1 = i /\ ~(i <= i - 1)
        BY <1>1, <2>4, <3>2
      <4>2. i - 1 \notin Steps
        BY <2>4, <4>1
      <4>3. ~(x <= ladder[i][1])
        BY <4>1, <4>2
      <4>4. ladder[i][1] \in Int
        BY <1>1, <2>4
      <4> QED
        BY <4>3, <4>4
    <3> QED
      BY <3>1, <3>2
  <2> QED
    BY <2>4, <2>5, <2>6
<1> QED
  BY <1>2, <1>3, <1>4

\* Above the last rung a value has the last score.
LEMMA OffTheLadder ==
  ASSUME NEW ladder \in Seq(Rungs), ladder # <<>>, Descending(ladder),
         NEW x \in Int, x > ladder[Len(ladder)][1]
  PROVE  Interpolate(x, ladder) = ladder[Len(ladder)][2]
<1> DEFINE n == Len(ladder)
           Steps == {i \in 1 .. (n - 1) : x <= ladder[i + 1][1]}
<1>1. n \in Nat /\ n > 0 /\ \A i \in 1 .. n : ladder[i][1] \in Int
  BY DEF Rungs
<1>2. n = Len(ladder) /\ DOMAIN ladder = 1 .. n /\ x > ladder[n][1]
  OBVIOUS
<1> HIDE DEF n
<1>3. \A i \in 1 .. n : ladder[i][1] <= ladder[n][1]
  BY <1>1, <1>2 DEF Descending
<1>4. \A i \in 1 .. n : ~(x <= ladder[i][1])
  BY <1>1, <1>2, <1>3
<1>5. \A i \in 1 .. (n - 1) : i + 1 \in 1 .. n
  BY <1>1
<1>6. Steps = {}
  BY <1>4, <1>5
<1>7. ~(x <= ladder[1][1])
  BY <1>1, <1>4
<1> QED
  BY <1>2, <1>6, <1>7 DEF Interpolate

\* A score never rises along a ladder that falls.
LEMMA LadderFalls ==
  ASSUME NEW ladder \in Seq(Rungs), ladder # <<>>, Descending(ladder),
         NEW x \in Int, NEW y \in Int, x <= y
  PROVE  /\ Interpolate(x, ladder) \in Int
         /\ Interpolate(y, ladder) <= Interpolate(x, ladder)
         /\ ladder[Len(ladder)][2] <= Interpolate(x, ladder)
         /\ Interpolate(x, ladder) <= ladder[1][2]
<1> DEFINE n == Len(ladder)
           score(z) == Interpolate(z, ladder)
           On(z, i) == /\ ladder[i][1] < z /\ z <= ladder[i + 1][1]
                       /\ score(z) = Between(ladder[i], ladder[i + 1], z)
<1>1. n \in Nat /\ n > 0
  OBVIOUS
<1>2. \A i \in 1 .. n : ladder[i] \in Rungs /\ ladder[i][1] \in Int /\ ladder[i][2] \in Int
  BY DEF Rungs
<1>3. \A i, j \in 1 .. n : i < j => ladder[i][1] < ladder[j][1] /\ ladder[j][2] <= ladder[i][2]
  BY DEF Descending
<1>4. \A i, j \in 1 .. n : i <= j => ladder[i][1] <= ladder[j][1] /\ ladder[j][2] <= ladder[i][2]
  BY <1>2, <1>3
<1>5. ASSUME NEW z \in Int
      PROVE  \/ z <= ladder[1][1] /\ score(z) = ladder[1][2]
             \/ z > ladder[n][1] /\ score(z) = ladder[n][2]
             \/ z > ladder[1][1] /\ z <= ladder[n][1] /\ \E i \in 1 .. (n - 1) : On(z, i)
  <2>1. ladder[1][1] \in Int /\ ladder[n][1] \in Int
    BY <1>1, <1>2
  <2>2. CASE z <= ladder[1][1]
    BY <2>2, OnTheLadder
  <2>3. CASE z > ladder[n][1]
    BY <2>3, OffTheLadder
  <2>4. CASE z > ladder[1][1] /\ z <= ladder[n][1]
    BY <2>4, OnTheLadder
  <2> QED
    BY <2>1, <2>2, <2>3, <2>4
<1>6. ASSUME NEW z \in Int, NEW i \in 1 .. (n - 1), On(z, i)
      PROVE  /\ i \in 1 .. n /\ i + 1 \in 1 .. n
             /\ score(z) \in Int /\ ladder[i + 1][2] <= score(z) /\ score(z) <= ladder[i][2]
  <2>1. i \in 1 .. n /\ i + 1 \in 1 .. n /\ i < i + 1
    BY <1>1
  <2>2. ladder[i][1] < ladder[i + 1][1] /\ ladder[i + 1][2] <= ladder[i][2] /\ ladder[i][1] <= z
    BY <1>2, <1>3, <1>6, <2>1
  <2> QED
    BY <1>2, <1>6, <2>1, <2>2, BetweenRungs
<1> HIDE DEF n, score, On
<1>7. ASSUME NEW z \in Int
      PROVE  score(z) \in Int /\ ladder[n][2] <= score(z) /\ score(z) <= ladder[1][2]
  <2>1. CASE z <= ladder[1][1] /\ score(z) = ladder[1][2]
    BY <1>1, <1>2, <1>4, <2>1
  <2>2. CASE z > ladder[n][1] /\ score(z) = ladder[n][2]
    BY <1>1, <1>2, <1>4, <2>2
  <2>3. ASSUME NEW i \in 1 .. (n - 1), On(z, i)
        PROVE  score(z) \in Int /\ ladder[n][2] <= score(z) /\ score(z) <= ladder[1][2]
    <3>1. /\ i \in 1 .. n /\ i + 1 \in 1 .. n
          /\ score(z) \in Int /\ ladder[i + 1][2] <= score(z) /\ score(z) <= ladder[i][2]
      BY <1>6, <2>3
    <3>2. ladder[n][2] <= ladder[i + 1][2] /\ ladder[i][2] <= ladder[1][2]
      BY <1>1, <1>4, <3>1
    <3>3. {ladder[i][2], ladder[i + 1][2], ladder[1][2], ladder[n][2]} \subseteq Int
      BY <1>1, <1>2, <3>1
    <3> QED
      BY <3>1, <3>2, <3>3, SMTT(30)
  <2> QED
    BY <1>5, <2>1, <2>2, <2>3
<1>8. score(y) <= score(x)
  <2>1. CASE x <= ladder[1][1] /\ score(x) = ladder[1][2]
    BY <1>7, <2>1
  <2>2. CASE y > ladder[n][1] /\ score(y) = ladder[n][2]
    BY <1>7, <2>2
  <2>3. ASSUME NEW i \in 1 .. (n - 1), On(x, i), NEW j \in 1 .. (n - 1), On(y, j)
        PROVE  score(y) <= score(x)
    <3>1. i \in 1 .. n /\ i + 1 \in 1 .. n /\ j \in 1 .. n /\ j + 1 \in 1 .. n
      BY <1>6, <2>3
    <3>2. /\ score(x) \in Int /\ ladder[i + 1][2] <= score(x)
          /\ score(y) \in Int /\ score(y) <= ladder[j][2]
      BY <1>6, <2>3
    <3>3. /\ ladder[i][1] < x /\ x <= ladder[i + 1][1] /\ ladder[j][1] < y /\ y <= ladder[j + 1][1]
          /\ score(x) = Between(ladder[i], ladder[i + 1], x)
          /\ score(y) = Between(ladder[j], ladder[j + 1], y)
      BY <2>3 DEF On
    <3>4. CASE i = j
      <4>1. ladder[i][1] < ladder[i + 1][1] /\ ladder[i + 1][2] <= ladder[i][2]
        BY <1>3, <3>1
      <4>2. ladder[i][1] <= x /\ y <= ladder[i + 1][1]
        BY <1>2, <3>1, <3>3, <3>4
      <4> QED
        BY <1>2, <3>1, <3>3, <3>4, <4>1, <4>2, BetweenFalls
    <3>5. CASE i < j
      <4>1. ladder[j][2] <= ladder[i + 1][2]
        BY <1>4, <3>1, <3>5
      <4> QED
        BY <1>2, <3>1, <3>2, <4>1, SMTT(30)
    <3>6. CASE j < i
      <4>1. ladder[j + 1][1] <= ladder[i][1]
        BY <1>4, <3>1, <3>6
      <4>2. y < x
        BY <1>2, <3>1, <3>3, <4>1
      <4> QED
        BY <4>2
    <3> QED
      BY <3>1, <3>4, <3>5, <3>6
  <2>4. /\ ladder[1][1] \in Int /\ ladder[n][1] \in Int /\ score(x) \in Int /\ score(y) \in Int
        /\ ladder[1][1] <= ladder[n][1]
    BY <1>1, <1>2, <1>4, <1>7
  <2>5. CASE y <= ladder[1][1]
    <3>1. x <= ladder[1][1] /\ ~(x > ladder[n][1]) /\ ~(x > ladder[1][1])
      BY <2>4, <2>5
    <3> QED
      BY <1>5, <2>1, <3>1
  <2>6. CASE x > ladder[n][1]
    <3>1. y > ladder[n][1] /\ ~(y <= ladder[1][1]) /\ ~(y <= ladder[n][1])
      BY <2>4, <2>6
    <3> QED
      BY <1>5, <2>2, <3>1
  <2>7. CASE x > ladder[1][1] /\ ~(x > ladder[n][1]) /\ ~(y <= ladder[1][1])
    <3>1. \E i \in 1 .. (n - 1) : On(x, i)
      BY <1>5, <2>4, <2>7
    <3>2. (y > ladder[n][1] /\ score(y) = ladder[n][2]) \/ \E j \in 1 .. (n - 1) : On(y, j)
      BY <1>5, <2>7
    <3> QED
      BY <2>2, <2>3, <3>1, <3>2
  <2> QED
    BY <1>5, <2>1, <2>4, <2>5, <2>6, <2>7
<1> QED
  BY <1>7, <1>8 DEF score, n

\* Where no stretch of a ladder falls by more than `slope' a step, one step more
\* costs no more than that, at the rungs too.
LEMMA LadderIsGentle ==
  ASSUME NEW ladder \in Seq(Rungs), ladder # <<>>, Descending(ladder), NEW slope \in Nat,
         \A i \in 1 .. (Len(ladder) - 1) :
           ladder[i][2] - ladder[i + 1][2] <= slope * (ladder[i + 1][1] - ladder[i][1]),
         NEW x \in Int
  PROVE  Interpolate(x, ladder) - Interpolate(x + 1, ladder) <= slope
<1> DEFINE n == Len(ladder)
           score(z) == Interpolate(z, ladder)
           On(z, i) == /\ ladder[i][1] < z /\ z <= ladder[i + 1][1]
                       /\ score(z) = Between(ladder[i], ladder[i + 1], z)
<1>1. n \in Nat /\ n > 0 /\ x + 1 \in Int
  OBVIOUS
<1>2. \A i \in 1 .. n : ladder[i] \in Rungs /\ ladder[i][1] \in Int /\ ladder[i][2] \in Int
  BY DEF Rungs
<1>3. \A i, j \in 1 .. n : i < j => ladder[i][1] < ladder[j][1] /\ ladder[j][2] <= ladder[i][2]
  BY DEF Descending
<1>4. \A i, j \in 1 .. n : i <= j => ladder[i][1] <= ladder[j][1]
  BY <1>2, <1>3
<1>5. \A z \in Int : /\ z <= ladder[1][1] => score(z) = ladder[1][2]
                     /\ z > ladder[n][1] => score(z) = ladder[n][2]
                     /\ z > ladder[1][1] /\ z <= ladder[n][1] => \E i \in 1 .. (n - 1) : On(z, i)
  BY OnTheLadder, OffTheLadder
<1>6. \A i \in 1 .. (n - 1) :
        ladder[i][2] - ladder[i + 1][2] <= slope * (ladder[i + 1][1] - ladder[i][1])
  OBVIOUS
<1>7. \A i \in 1 .. (n - 1) : i \in 1 .. n /\ i + 1 \in 1 .. n /\ i < i + 1
  BY <1>1
<1> HIDE DEF n, score, On
<1>8. ladder[1][1] \in Int /\ ladder[n][1] \in Int /\ ladder[1][2] \in Int /\ ladder[n][2] \in Int
  BY <1>1, <1>2
<1>9. CASE x + 1 <= ladder[1][1]
  BY <1>1, <1>5, <1>8, <1>9 DEF score
<1>10. CASE x > ladder[n][1]
  <2>1. x + 1 > ladder[n][1]
    BY <1>8, <1>10
  <2> QED
    BY <1>1, <1>5, <1>8, <1>10, <2>1 DEF score
<1>11. CASE x = ladder[n][1] /\ x > ladder[1][1]
  <2>1. score(x + 1) = ladder[n][2]
    BY <1>1, <1>5, <1>8, <1>11
  <2>2. PICK i \in 1 .. (n - 1) : On(x, i)
    BY <1>5, <1>8, <1>11
  <2>3. i + 1 \in 1 .. n /\ i \in 1 .. n /\ i < i + 1
    BY <1>7
  <2>4. i + 1 = n
    <3>1. ASSUME i + 1 < n PROVE FALSE
      <4>1. ladder[i + 1][1] < ladder[n][1]
        BY <1>1, <1>3, <2>3, <3>1
      <4>2. ladder[n][1] <= ladder[i + 1][1]
        BY <1>11, <2>2 DEF On
      <4> QED
        BY <1>2, <1>8, <2>3, <4>1, <4>2
    <3> QED
      BY <1>1, <2>3, <3>1
  <2>5. ladder[i][1] < ladder[n][1] /\ ladder[n][2] <= ladder[i][2] /\ ladder[i][1] <= x
    BY <1>2, <1>3, <1>11, <2>3, <2>4
  <2>6. score(x) = ladder[n][2]
    <3> DEFINE p == ladder[i]
               q == ladder[i + 1]
    <3>1. p \in Rungs /\ q \in Rungs
      BY <1>2, <2>3
    <3>2. x = q[1] /\ q[2] = ladder[n][2] /\ p[1] < q[1] /\ q[2] <= p[2] /\ p[1] <= x /\ x <= q[1]
      BY <1>8, <1>11, <2>4, <2>5
    <3>3. score(x) = Between(p, q, x)
      BY <2>2 DEF On
    <3> HIDE DEF p, q
    <3>4. Between(p, q, x) = q[2]
      BY <3>1, <3>2, BetweenRungs
    <3> QED
      BY <3>2, <3>3, <3>4
  <2> QED
    BY <1>8, <2>1, <2>6 DEF score
<1>12. CASE x = ladder[n][1] /\ x <= ladder[1][1]
  <2>1. n = 1
    <3>1. ASSUME 1 < n PROVE FALSE
      BY <1>1, <1>3, <1>8, <1>12, <3>1
    <3> QED
      BY <1>1, <3>1
  <2>2. score(x) = ladder[1][2] /\ score(x + 1) = ladder[n][2]
    BY <1>1, <1>5, <1>8, <1>12
  <2> QED
    BY <1>8, <2>1, <2>2 DEF score
<1>13. CASE ladder[1][1] <= x /\ x < ladder[n][1]
  <2>0. x + 1 > ladder[1][1] /\ x + 1 <= ladder[n][1]
    BY <1>8, <1>13
  <2>1. PICK j \in 1 .. (n - 1) : On(x + 1, j)
    BY <1>1, <1>5, <2>0
  <2>2. j \in 1 .. n /\ j + 1 \in 1 .. n /\ j < j + 1
    BY <1>7
  <2>3. /\ ladder[j][1] <= x /\ x + 1 <= ladder[j + 1][1] /\ ladder[j][1] < ladder[j + 1][1]
        /\ ladder[j + 1][2] <= ladder[j][2]
    BY <1>2, <1>3, <2>1, <2>2 DEF On
  <2>4. score(x) = Between(ladder[j], ladder[j + 1], x)
    <3>1. CASE x = ladder[1][1]
      <4>1. j = 1
        <5>1. ASSUME 1 < j PROVE FALSE
          <6>1. ladder[1][1] < ladder[j][1]
            BY <1>1, <1>3, <2>2, <5>1
          <6> QED
            BY <1>2, <1>8, <2>2, <2>3, <3>1, <6>1
        <5> QED
          BY <1>1, <2>2, <5>1
      <4>2. Between(ladder[j], ladder[j + 1], x) = ladder[j][2]
        BY <1>2, <2>2, <2>3, <3>1, <4>1, BetweenRungs
      <4> QED
        BY <1>5, <1>8, <3>1, <4>1, <4>2
    <3>2. CASE x > ladder[1][1]
      <4>1. PICK i \in 1 .. (n - 1) : On(x, i)
        BY <1>5, <1>8, <1>13, <3>2
      <4>2. i \in 1 .. n /\ i + 1 \in 1 .. n /\ i < i + 1
        BY <1>7
      <4>3. ladder[i][1] < x /\ x <= ladder[i + 1][1]
            /\ score(x) = Between(ladder[i], ladder[i + 1], x)
        BY <4>1 DEF On
      <4>4. CASE i = j
        BY <4>3, <4>4
      <4>5. CASE j < i
        <5>1. ladder[j + 1][1] <= ladder[i][1]
          BY <1>4, <2>2, <4>2, <4>5
        <5> QED
          BY <1>2, <2>2, <2>3, <4>2, <4>3, <5>1, SMTT(30)
      <4>6. CASE i + 1 < j
        <5>1. ladder[i + 1][1] < ladder[j][1]
          BY <1>3, <2>2, <4>2, <4>6
        <5> QED
          BY <1>2, <2>2, <2>3, <4>2, <4>3, <5>1
      <4>7. CASE i + 1 = j
        <5>1. x = ladder[j][1]
          BY <1>2, <2>2, <2>3, <4>2, <4>3, <4>7
        <5>2. Between(ladder[j], ladder[j + 1], x) = ladder[j][2]
          <6>1. ladder[j] \in Rungs /\ ladder[j + 1] \in Rungs /\ x <= ladder[j + 1][1]
            BY <1>2, <2>2, <2>3
          <6> QED
            BY <2>3, <5>1, <6>1, BetweenRungs
        <5>3. ladder[i][1] < ladder[j][1] /\ ladder[j][2] <= ladder[i][2] /\ ladder[i][1] <= x
          BY <1>2, <1>3, <2>2, <4>2, <4>3, <4>7
        <5>4. Between(ladder[i], ladder[j], x) = ladder[j][2]
          <6>1. ladder[i] \in Rungs /\ ladder[j] \in Rungs /\ x <= ladder[j][1]
            BY <1>2, <2>2, <4>2, <5>1
          <6> QED
            BY <5>1, <5>3, <6>1, BetweenRungs
        <5> QED
          BY <4>3, <4>7, <5>2, <5>4
      <4> QED
        BY <2>2, <4>2, <4>4, <4>5, <4>6, <4>7
    <3> QED
      BY <1>8, <1>13, <3>1, <3>2
  <2>5. score(x + 1) = Between(ladder[j], ladder[j + 1], x + 1)
    BY <2>1 DEF On
  <2>6. Between(ladder[j], ladder[j + 1], x) - Between(ladder[j], ladder[j + 1], x + 1) <= slope
    <3>1. ladder[j] \in Rungs /\ ladder[j + 1] \in Rungs
      BY <1>2, <2>2
    <3>2. ladder[j][2] - ladder[j + 1][2] <= slope * (ladder[j + 1][1] - ladder[j][1])
      BY <1>6
    <3>3. slope \in Int
      OBVIOUS
    <3> QED
      BY <2>3, <3>1, <3>2, <3>3, BetweenGently, Zenon
  <2> QED
    BY <2>4, <2>5, <2>6 DEF score
<1> QED
  BY <1>8, <1>9, <1>10, <1>11, <1>12, <1>13

\* At a rung the score is the rung's, and above the first one less than its.
LEMMA AtTheRungs ==
  ASSUME NEW ladder \in Seq(Rungs), ladder # <<>>, Descending(ladder), NEW k \in DOMAIN ladder
  PROVE  Interpolate(ladder[k][1], ladder) = ladder[k][2]
<1> DEFINE n == Len(ladder)
           x == ladder[k][1]
<1>1. n \in Nat /\ n > 0 /\ k \in 1 .. n
  OBVIOUS
<1>2. \A i \in 1 .. n : ladder[i] \in Rungs /\ ladder[i][1] \in Int /\ ladder[i][2] \in Int
  BY DEF Rungs
<1>3. \A i, j \in 1 .. n : i < j => ladder[i][1] < ladder[j][1] /\ ladder[j][2] <= ladder[i][2]
  BY DEF Descending
<1>4. \A i, j \in 1 .. n : i <= j => ladder[i][1] <= ladder[j][1]
  BY <1>2, <1>3
<1>5. x \in Int
  BY <1>1, <1>2
<1>6. CASE k = 1
  BY <1>5, <1>6, OnTheLadder
<1>7. CASE k > 1
  <2>1. x > ladder[1][1] /\ x <= ladder[n][1]
    BY <1>1, <1>2, <1>3, <1>4, <1>7
  <2>2. PICK i \in 1 .. (n - 1) : /\ ladder[i][1] < x /\ x <= ladder[i + 1][1]
                                  /\ Interpolate(x, ladder) = Between(ladder[i], ladder[i + 1], x)
    BY <1>5, <2>1, OnTheLadder
  <2>3. i \in 1 .. n /\ i + 1 \in 1 .. n /\ i < i + 1
    BY <1>1
  <2>4. ~(k <= i)
    BY <1>1, <1>2, <1>4, <2>2, <2>3
  <2>5. ~(i + 1 < k)
    BY <1>1, <1>2, <1>3, <2>2, <2>3
  <2>6. i + 1 = k
    BY <1>1, <2>3, <2>4, <2>5
  <2>7. /\ ladder[i] \in Rungs /\ ladder[k] \in Rungs /\ ladder[i][1] < ladder[k][1]
        /\ ladder[k][2] <= ladder[i][2] /\ ladder[i][1] <= x /\ x <= ladder[k][1]
    BY <1>1, <1>2, <1>3, <2>3, <2>6
  <2>8. Between(ladder[i], ladder[k], x) = ladder[k][2]
    BY <1>5, <2>7, BetweenRungs
  <2> QED
    BY <2>2, <2>6, <2>8
<1> QED
  BY <1>1, <1>6, <1>7

LEMMA BelowTheFirst ==
  ASSUME NEW ladder \in Seq(Rungs), Len(ladder) > 1, Descending(ladder),
         ladder[2][2] < ladder[1][2], NEW x \in Int, x > ladder[1][1]
  PROVE  Interpolate(x, ladder) < ladder[1][2]
<1> DEFINE p == ladder[1]
           q == ladder[2]
           y == p[1] + 1
           n == q[1] - p[1]
           drop == q[2] - p[2]
<1>1. /\ p \in Rungs /\ q \in Rungs /\ p[1] \in Int /\ p[2] \in Int /\ q[1] \in Int /\ q[2] \in Int
      /\ p[1] < q[1] /\ q[2] < p[2] /\ ladder # <<>> /\ y \in Int
      /\ \A i \in 1 .. Len(ladder) : ladder[i][1] \in Int
  BY DEF Rungs, Descending
<1>2. Interpolate(x, ladder) <= Interpolate(y, ladder) /\ Interpolate(x, ladder) \in Int
  <2>1. y <= x
    BY <1>1
  <2> QED
    BY <1>1, <2>1, LadderFalls
<1>3. y > ladder[1][1] /\ y <= ladder[Len(ladder)][1]
  <2>1. Len(ladder) = 2 \/ ladder[2][1] < ladder[Len(ladder)][1]
    <3>1. DOMAIN ladder = 1 .. Len(ladder) /\ Len(ladder) \in Nat
      OBVIOUS
    <3>2. 2 \in DOMAIN ladder /\ Len(ladder) \in DOMAIN ladder /\ (Len(ladder) = 2 \/ 2 < Len(ladder))
      BY <3>1
    <3> QED
      BY <3>2 DEF Descending
  <2>2. ladder[Len(ladder)][1] \in Int
    BY <1>1
  <2>3. ladder[2][1] <= ladder[Len(ladder)][1]
    BY <1>1, <2>1, <2>2
  <2> QED
    BY <1>1, <2>2, <2>3
<1>4. PICK i \in 1 .. (Len(ladder) - 1) :
         /\ ladder[i][1] < y /\ y <= ladder[i + 1][1]
         /\ Interpolate(y, ladder) = Between(ladder[i], ladder[i + 1], y)
  BY <1>1, <1>3, OnTheLadder
<1>5. i = 1
  <2>1. ASSUME 1 < i PROVE FALSE
    <3>1. ladder[1][1] < ladder[i][1]
      BY <2>1 DEF Descending
    <3> QED
      BY <1>1, <1>4, <3>1
  <2> QED
    BY <2>1
<1>6. Interpolate(y, ladder) = Between(p, q, y)
  BY <1>4, <1>5
<1>7. Between(p, q, y) = p[2] + drop \div n
  <2>1. (y - p[1]) * (q[2] - p[2]) = drop
    BY <1>1
  <2> QED
    BY <2>1 DEF Between
<1>8. drop \in Int /\ n \in Int /\ n > 0 /\ drop < 0
  BY <1>1
<1> HIDE DEF p, q, y, n, drop
<1>9. drop \div n \in Int /\ drop \div n <= -1
  <2>1. drop < n * (-1 + 1)
    BY <1>8
  <2>2. drop \div n \in Int
    BY <1>8, Divides
  <2> QED
    BY <1>8, <2>1, <2>2, DividesWithin
<1> QED
  BY <1>1, <1>2, <1>6, <1>7, <1>9 DEF p

----------------------------------------
(* The scores of the bands. *)

DescentLadder(class) ==
  LET b == RateBands(class)
  IN  <<<<b[1], Points(100)>>, <<b[2], Points(80)>>, <<b[3], Points(55)>>, <<b[4], Points(30)>>,
        <<b[4] + b[4] \div 2, Points(5)>>>>

LEMMA DescentRungs ==
  ASSUME NEW class \in Classes
  PROVE  LET ladder == DescentLadder(class) IN
         /\ ladder \in Seq(Rungs) /\ ladder # <<>> /\ Descending(ladder) /\ Len(ladder) = 5
         /\ RateBands(class) \in Seq(Int) /\ Len(RateBands(class)) = 4
         /\ \A i \in 1 .. 4 : ladder[i][1] = RateBands(class)[i]
         /\ ladder[1][2] = 10000 /\ ladder[2][2] = 8000 /\ ladder[3][2] = 5500
         /\ ladder[4][2] = 3000 /\ ladder[5][2] = 500
<1>1. CASE class = "default"
  BY <1>1 DEF DescentLadder, RateBands, Points, Full, Rungs, Descending
<1>2. CASE class = "fighter"
  BY <1>2 DEF DescentLadder, RateBands, Points, Full, Rungs, Descending
<1>3. CASE class = "carrier"
  BY <1>3 DEF DescentLadder, RateBands, Points, Full, Rungs, Descending
<1>4. CASE class = "helicopter"
  BY <1>4 DEF DescentLadder, RateBands, Points, Full, Rungs, Descending
<1> QED
  BY <1>1, <1>2, <1>3, <1>4 DEF Classes

\* Each stretch of the ladder falls by at most a point a foot per minute.
LEMMA DescentIsGentle ==
  ASSUME NEW class \in Classes
  PROVE  \A i \in 1 .. (Len(DescentLadder(class)) - 1) :
           DescentLadder(class)[i][2] - DescentLadder(class)[i + 1][2]
             <= 100 * (DescentLadder(class)[i + 1][1] - DescentLadder(class)[i][1])
<1> DEFINE ladder == DescentLadder(class)
<1>1. \A i \in 1 .. (Len(ladder) - 1) :
        ladder[i][2] - ladder[i + 1][2] <= 100 * (ladder[i + 1][1] - ladder[i][1])
  <2> TAKE i \in 1 .. (Len(ladder) - 1)
  <2>1. CASE class = "default"
    BY <2>1 DEF DescentLadder, RateBands, Points, Full
  <2>2. CASE class = "fighter"
    BY <2>2 DEF DescentLadder, RateBands, Points, Full
  <2>3. CASE class = "carrier"
    BY <2>3 DEF DescentLadder, RateBands, Points, Full
  <2>4. CASE class = "helicopter"
    BY <2>4 DEF DescentLadder, RateBands, Points, Full
  <2> QED
    BY <2>1, <2>2, <2>3, <2>4 DEF Classes
<1> QED
  BY <1>1

\* A landing flown harder scores no more; a foot per minute costs a point at
\* most; and the score is that of the verdict.
LEMMA DescentIs == \A x : \A class : DescentScore(x, class) = Interpolate(x, DescentLadder(class))
BY DEF DescentScore, DescentLadder

LEMMA DescentFalls ==
  ASSUME NEW class \in Classes, NEW x \in Int, NEW y \in Int, x <= y
  PROVE  DescentScore(x, class) \in Int /\ DescentScore(y, class) <= DescentScore(x, class)
BY DescentIs, DescentRungs, LadderFalls

LEMMA TheFloors ==
  /\ Floor["very_smooth"] = 10000 /\ Floor["good"] = 8000 /\ Floor["somewhat_hard"] = 5500
  /\ Floor["hard"] = 3000 /\ Floor["extremely_hard"] = 500
<1>1. /\ Points(100) = 10000 /\ Points(80) = 8000 /\ Points(55) = 5500
      /\ Points(30) = 3000 /\ Points(5) = 500
  BY DEF Points, Full
<1> QED
  BY <1>1 DEF Floor

LEMMA DescentHasNoCliff ==
  ASSUME NEW class \in Classes, NEW fpm \in Int
  PROVE  NoCliff(fpm, class)
<1> DEFINE ladder == DescentLadder(class)
           b == RateBands(class)
           score == DescentScore(fpm, class)
<1>1. ladder \in Seq(Rungs) /\ ladder # <<>> /\ Descending(ladder)
  BY DescentRungs
<1>10. \A i \in 1 .. (Len(ladder) - 1) :
          ladder[i][2] - ladder[i + 1][2] <= 100 * (ladder[i + 1][1] - ladder[i][1])
  BY DescentIsGentle
<1>11. /\ \A i \in 1 .. 4 : ladder[i][1] = b[i] /\ b[i] \in Int /\ i \in DOMAIN ladder
       /\ ladder[1][2] = 10000 /\ ladder[2][2] = 8000 /\ ladder[3][2] = 5500
       /\ ladder[4][2] = 3000 /\ ladder[Len(ladder)][2] = 500 /\ Len(ladder) > 1
  BY DescentRungs, SMTT(30)
<1>12. ASSUME NEW x \in Int, NEW y \in Int, x <= y
       PROVE  /\ Interpolate(x, ladder) \in Int /\ ladder[Len(ladder)][2] <= Interpolate(x, ladder)
              /\ Interpolate(y, ladder) <= Interpolate(x, ladder)
  BY <1>1, <1>12, LadderFalls
<1>2. score = Interpolate(fpm, ladder)
  BY DescentIs
<1> HIDE DEF ladder, b, score
<1>3. Points(1) = 100 /\ Points(2) = 200 /\ Points(3) = 300 /\ Points(100) = 10000
      /\ Points(80) = 8000 /\ Points(55) = 5500 /\ Points(30) = 3000 /\ Points(5) = 500
  BY DEF Points, Full
<1>4. ASSUME NEW d \in 1 .. 3
      PROVE  /\ DescentScore(fpm + d, class) <= score
             /\ score - DescentScore(fpm + d, class) <= Points(d)
  <2>1. \A x \in Int : Interpolate(x, ladder) \in Int
    BY <1>12
  <2>2. \A x \in Int : Interpolate(x, ladder) - Interpolate(x + 1, ladder) <= 100
    <3>1. 100 \in Nat
      OBVIOUS
    <3> QED
      BY <1>1, <1>10, <3>1, LadderIsGentle
  <2>3. \A x \in Int : DescentScore(x, class) = Interpolate(x, ladder)
    BY DescentIs DEF ladder
  <2>4. fpm + 1 \in Int /\ fpm + 2 \in Int /\ fpm + 3 \in Int
        /\ (fpm + 1) + 1 = fpm + 2 /\ (fpm + 2) + 1 = fpm + 3
    OBVIOUS
  <2>5. /\ Interpolate(fpm, ladder) - Interpolate(fpm + 1, ladder) <= 100
        /\ Interpolate(fpm + 1, ladder) - Interpolate(fpm + 2, ladder) <= 100
        /\ Interpolate(fpm + 2, ladder) - Interpolate(fpm + 3, ladder) <= 100
    BY <2>2, <2>4
  <2>6. /\ Interpolate(fpm, ladder) \in Int /\ Interpolate(fpm + 1, ladder) \in Int
        /\ Interpolate(fpm + 2, ladder) \in Int /\ Interpolate(fpm + 3, ladder) \in Int
    BY <2>1, <2>4
  <2>7. DescentScore(fpm + d, class) <= score
    BY <1>2, DescentFalls, DescentIs DEF score
  <2>8. d = 1 \/ d = 2 \/ d = 3
    OBVIOUS
  <2>9. score - Interpolate(fpm + d, ladder) <= Points(d)
    BY <1>2, <1>3, <2>5, <2>6, <2>8
  <2> QED
    BY <2>3, <2>7, <2>9
<1>5. ASSUME NEW k \in 1 .. 4, fpm <= b[k] PROVE ladder[k][2] <= score
  <2>1. ladder[k][1] = b[k] /\ b[k] \in Int /\ k \in DOMAIN ladder
    BY <1>11
  <2>2. Interpolate(b[k], ladder) = ladder[k][2]
    BY <1>1, <2>1, AtTheRungs
  <2> QED
    BY <1>2, <1>5, <1>12, <2>1, <2>2
<1>6. 500 <= score
  BY <1>2, <1>11, <1>12
<1>7. ASSUME fpm > b[1] PROVE score < 10000
  <2>1. fpm > ladder[1][1] /\ ladder[2][2] < ladder[1][2]
    BY <1>7, <1>11
  <2>2. Interpolate(fpm, ladder) < ladder[1][2]
    BY <1>1, <1>11, <2>1, BelowTheFirst, SMTT(30)
  <2> QED
    BY <1>2, <1>11, <2>2
<1> DEFINE Met == {i \in 1 .. 4 : fpm <= b[i]}
           i0 == CHOOSE i \in Met : \A j \in Met : i <= j
           Names == <<"very_smooth", "good", "somewhat_hard", "hard">>
<1>14. PICK verdict : verdict = DescentVerdict(fpm, class)
  OBVIOUS
<1>13. ASSUME score >= Floor[verdict], verdict # "very_smooth" => score < 10000
       PROVE  NoCliff(fpm, class)
  <2>1. \A d \in 1 .. 3 : /\ DescentScore(fpm + d, class) <= score
                           /\ score - DescentScore(fpm + d, class) <= Points(d)
    BY <1>4
  <2>2. score >= Floor[DescentVerdict(fpm, class)]
    BY <1>13, <1>14
  <2>3. DescentVerdict(fpm, class) # "very_smooth" => score < Points(100)
    BY <1>3, <1>13, <1>14
  <2> QED
    BY <2>1, <2>2, <2>3, Zenon DEF NoCliff, score
<1>8. CASE Met = {}
  <2>1. verdict = "extremely_hard"
    BY <1>8, <1>14 DEF DescentVerdict, b
  <2>2. fpm > b[1]
    <3>1. 1 \notin Met /\ b[1] \in Int
      BY <1>8, <1>11
    <3> QED
      BY <3>1
  <2>3. Floor[verdict] = 500
    BY <2>1, TheFloors
  <2>4. score \in Int
    BY <1>2, <1>12
  <2> QED
    BY <1>6, <1>7, <1>13, <2>2, <2>3, <2>4
<1>9. CASE Met # {}
  <2>1. i0 \in Met /\ \A j \in Met : i0 <= j
    <3>1. Met \subseteq Nat
      OBVIOUS
    <3> QED
      BY <1>9, <3>1, Smallest
  <2>2. verdict = Names[i0]
    BY <1>9, <1>14 DEF DescentVerdict, b
  <2> HIDE DEF i0
  <2>3. i0 \in 1 .. 4 /\ fpm <= b[i0] /\ ladder[i0][2] <= score
    BY <1>5, <2>1
  <2>4. i0 = 1 \/ i0 = 2 \/ i0 = 3 \/ i0 = 4
    BY <2>3
  <2>5. Floor[verdict] = ladder[i0][2]
    <3>1. CASE i0 = 1
      BY <1>11, <2>2, <3>1, TheFloors
    <3>2. CASE i0 = 2
      BY <1>11, <2>2, <3>2, TheFloors
    <3>3. CASE i0 = 3
      BY <1>11, <2>2, <3>3, TheFloors
    <3>4. CASE i0 = 4
      BY <1>11, <2>2, <3>4, TheFloors
    <3> QED
      BY <2>4, <3>1, <3>2, <3>3, <3>4
  <2>6. verdict # "very_smooth" => fpm > b[1]
    <3>1. ASSUME i0 # 1 PROVE fpm > b[1]
      <4>1. 1 \notin Met /\ b[1] \in Int
        BY <1>11, <2>1, <2>4, <3>1
      <4> QED
        BY <4>1
    <3> QED
      BY <2>2, <2>4, <3>1
  <2>7. score \in Int /\ ladder[i0][2] \in Int
    <3>1. score \in Int
      BY <1>2, <1>12
    <3>2. ladder[i0][2] \in {10000, 8000, 5500, 3000}
      BY <1>11, <2>4
    <3> QED
      BY <3>1, <3>2
  <2>8. verdict # "very_smooth" => score < 10000
    <3>1. ASSUME verdict # "very_smooth" PROVE score < 10000
      <4>1. fpm > b[1]
        BY <2>6, <3>1
      <4> QED
        BY <1>7, <4>1
    <3> QED
      BY <3>1
  <2>9. score >= Floor[verdict]
    BY <2>3, <2>5, <2>7
  <2> QED
    BY <1>13, <2>8, <2>9
<1> QED
  BY <1>8, <1>9

\* The speed over the threshold: the further from the speed flown on final, on
\* either side, the lower its score.
SpeedLadder(span) == <<<<0, Points(100)>>, <<span, Points(65)>>, <<span + 10, Points(30)>>>>

LEMMA SpeedRungs ==
  ASSUME NEW span \in {7, 8}
  PROVE  LET ladder == SpeedLadder(span) IN
         ladder \in Seq(Rungs) /\ ladder # <<>> /\ Descending(ladder) /\ ladder[1][2] = 10000
<1>1. CASE span = 7
  BY <1>1 DEF SpeedLadder, Points, Full, Rungs, Descending
<1>2. CASE span = 8
  BY <1>2 DEF SpeedLadder, Points, Full, Rungs, Descending
<1> QED
  BY <1>1, <1>2

LEMMA SpeedOff ==
  ASSUME NEW span \in {7, 8}, NEW x \in Int, NEW y \in Int, x <= y
  PROVE  /\ Interpolate(x, SpeedLadder(span)) \in Int
         /\ Interpolate(y, SpeedLadder(span)) <= Interpolate(x, SpeedLadder(span))
         /\ Interpolate(x, SpeedLadder(span)) <= 10000
BY SpeedRungs, LadderFalls

LEMMA SpeedIs ==
  ASSUME NEW x \in Int
  PROVE  SpeedScore(x) = IF x > 103 THEN Interpolate(x - 103, SpeedLadder(7))
                         ELSE IF x < 88 THEN Interpolate(88 - x, SpeedLadder(8)) ELSE 10000
<1>1. x # None
  BY MeasureAssumption
<1>2. CASE x > 103
  BY <1>1, <1>2 DEF SpeedScore, SpeedLadder, FastGood, FastFair, SlowGood, SlowFair
<1>3. CASE x < 88
  <2>1. ~(x > 103)
    BY <1>3
  <2> QED
    BY <1>1, <1>3, <2>1 DEF SpeedScore, SpeedLadder, FastGood, FastFair, SlowGood, SlowFair
<1>4. CASE ~(x > 103) /\ ~(x < 88)
  BY <1>1, <1>4 DEF SpeedScore, FastGood, SlowGood, Points, Full
<1> QED
  BY <1>2, <1>3, <1>4

LEMMA SpeedFalls ==
  ASSUME NEW x \in Int, NEW y \in Int, (100 <= x /\ x <= y) \/ (y <= x /\ x <= 100)
  PROVE  SpeedScore(x) \in Int /\ SpeedScore(y) <= SpeedScore(x)
<1> DEFINE fast(z) == Interpolate(z, SpeedLadder(7))
           slow(z) == Interpolate(z, SpeedLadder(8))
<1>1. \A z \in Int : fast(z) \in Int /\ slow(z) \in Int /\ fast(z) <= 10000 /\ slow(z) <= 10000
  BY SpeedOff
<1>2. \A z, v \in Int : z <= v => fast(v) <= fast(z) /\ slow(v) <= slow(z)
  BY SpeedOff
<1>3. \A z \in Int : SpeedScore(z) = IF z > 103 THEN fast(z - 103)
                                     ELSE IF z < 88 THEN slow(88 - z) ELSE 10000
  BY SpeedIs
<1> HIDE DEF fast, slow
<1>4. x - 103 \in Int /\ y - 103 \in Int /\ 88 - x \in Int /\ 88 - y \in Int
  OBVIOUS
<1>7. /\ SpeedScore(x) = IF x > 103 THEN fast(x - 103) ELSE IF x < 88 THEN slow(88 - x) ELSE 10000
      /\ SpeedScore(y) = IF y > 103 THEN fast(y - 103) ELSE IF y < 88 THEN slow(88 - y) ELSE 10000
      /\ fast(x - 103) \in Int /\ slow(88 - x) \in Int
      /\ fast(y - 103) <= 10000 /\ slow(88 - y) <= 10000
  BY <1>1, <1>3, <1>4
<1>5. CASE 100 <= x /\ x <= y
  <2>1. x - 103 <= y - 103 /\ ~(x < 88) /\ ~(y < 88) /\ (x > 103 => y > 103)
    BY <1>5
  <2>2. fast(y - 103) <= fast(x - 103)
    BY <1>2, <1>4, <2>1
  <2> QED
    BY <1>7, <2>1, <2>2
<1>6. CASE y <= x /\ x <= 100
  <2>1. 88 - x <= 88 - y /\ ~(x > 103) /\ ~(y > 103) /\ (x < 88 => y < 88)
    BY <1>6
  <2>2. slow(88 - y) <= slow(88 - x)
    BY <1>2, <1>4, <2>1
  <2> QED
    BY <1>7, <2>1, <2>2
<1> QED
  BY <1>5, <1>6

\* A score over bands does not rise with the deviation.
Band == {b \in Seq(Int) : Len(b) = 3 /\ b[1] < b[2] /\ b[2] < b[3]}

LEMMA Slope ==
  ASSUME NEW k \in Nat, NEW n \in Int, n > 0, NEW e \in Int, NEW f \in Int, 0 <= e, e <= f
  PROVE  /\ (e * k) \div n \in Int /\ 0 <= (e * k) \div n /\ (e * k) \div n <= (f * k) \div n
         /\ e <= n => (e * k) \div n <= k
         /\ (f * k) \div n \in Int
<1> DEFINE a == e * k
           c == f * k
<1>1. a \in Int /\ c \in Int /\ 0 <= a /\ a <= c /\ n * 0 <= a
  BY DEF a, c
<1>2. e <= n => a <= n * k
  OBVIOUS
<1> HIDE DEF a, c
<1>3. a \div n \in Int /\ c \div n \in Int
  BY <1>1, Divides
<1>4. a \div n <= c \div n
  BY <1>1, DividesMore
<1>5. 0 <= a \div n
  BY <1>1, DividesWithin
<1>6. e <= n => a \div n <= k
  BY <1>1, <1>2, DividesWithin
<1> QED
  BY <1>3, <1>4, <1>5, <1>6 DEF a, c

LEMMA BandIs ==
  ASSUME NEW b \in Band, NEW x \in Int
  PROVE  BandScore(x, b) = IF x <= b[1] THEN 10000
                           ELSE IF x <= b[2] THEN 10000 - ((x - b[1]) * 4500) \div (b[2] - b[1])
                           ELSE IF x < b[3] THEN 5500 - ((x - b[2]) * 5000) \div (b[3] - b[2])
                           ELSE 500
<1>0. x # None
  BY MeasureAssumption
<1>1. x # None /\ b[1] \in Int /\ b[2] \in Int /\ b[3] \in Int /\ b[1] < b[2] /\ b[2] < b[3]
  BY <1>0, SMTT(30) DEF Band
<1>2. Points(100) = 10000 /\ Points(55) = 5500 /\ Points(45) = 4500 /\ Points(50) = 5000
      /\ Points(5) = 500
  BY DEF Points, Full
<1>3. CASE x <= b[1]
  BY <1>1, <1>2, <1>3 DEF BandScore
<1>4. CASE b[1] < x /\ x <= b[2]
  <2>1. ~(x <= b[1]) /\ ~(x >= b[3]) /\ x > b[1]
    BY <1>1, <1>4
  <2> QED
    BY <1>1, <1>2, <1>4, <2>1 DEF BandScore
<1>5. CASE b[2] < x /\ x < b[3]
  <2>1. ~(x <= b[1]) /\ ~(x >= b[3]) /\ x > b[1] /\ ~(x <= b[2])
    BY <1>1, <1>5
  <2> QED
    BY <1>1, <1>2, <1>5, <2>1 DEF BandScore
<1>6. CASE b[3] <= x
  <2>1. ~(x <= b[1]) /\ x >= b[3] /\ ~(x <= b[2]) /\ ~(x < b[3])
    BY <1>1, <1>6
  <2> QED
    BY <1>1, <1>2, <2>1 DEF BandScore
<1> QED
  BY <1>1, <1>3, <1>4, <1>5, <1>6

LEMMA BandFalls ==
  ASSUME NEW b \in Band, NEW x \in Int, NEW y \in Int, x <= y
  PROVE  /\ BandScore(x, b) \in Int /\ BandScore(y, b) <= BandScore(x, b)
         /\ y <= b[1] => BandScore(x, b) = BandScore(y, b)
<1> DEFINE n == b[2] - b[1]
           o == b[3] - b[2]
           upper(z) == ((z - b[1]) * 4500) \div n
           lower(z) == ((z - b[2]) * 5000) \div o
           score(z) == BandScore(z, b)
<1>1. b[1] \in Int /\ b[2] \in Int /\ b[3] \in Int /\ b[1] < b[2] /\ b[2] < b[3]
  BY DEF Band
<1>2. n \in Int /\ n > 0 /\ o \in Int /\ o > 0
  BY <1>1
<1>3. \A z \in Int : score(z) = IF z <= b[1] THEN 10000
                                ELSE IF z <= b[2] THEN 10000 - upper(z)
                                ELSE IF z < b[3] THEN 5500 - lower(z) ELSE 500
  BY BandIs
<1>4. ASSUME NEW z \in Int, b[1] < z, z <= b[2]
      PROVE  upper(z) \in Int /\ 0 <= upper(z) /\ upper(z) <= 4500
  <2>1. 0 <= z - b[1] /\ z - b[1] <= n /\ z - b[1] \in Int
    BY <1>1, <1>4
  <2> HIDE DEF n
  <2> QED
    BY <1>2, <2>1, Slope
<1>5. ASSUME NEW z \in Int, b[2] < z, z < b[3]
      PROVE  lower(z) \in Int /\ 0 <= lower(z) /\ lower(z) <= 5000
  <2>1. 0 <= z - b[2] /\ z - b[2] <= o /\ z - b[2] \in Int
    BY <1>1, <1>5
  <2> HIDE DEF o
  <2> QED
    BY <1>2, <2>1, Slope
<1>6. ASSUME b[1] < x, y <= b[2] PROVE upper(x) <= upper(y)
  <2>1. 0 <= x - b[1] /\ x - b[1] <= y - b[1] /\ x - b[1] \in Int /\ y - b[1] \in Int
    BY <1>1, <1>6
  <2> HIDE DEF n
  <2> QED
    BY <1>2, <2>1, Slope
<1>7. ASSUME b[2] < x PROVE lower(x) <= lower(y)
  <2>1. 0 <= x - b[2] /\ x - b[2] <= y - b[2] /\ x - b[2] \in Int /\ y - b[2] \in Int
    BY <1>1, <1>7
  <2> HIDE DEF o
  <2> QED
    BY <1>2, <2>1, Slope
<1> HIDE DEF n, o, upper, lower, score
<1>8. score(x) \in Int /\ score(y) \in Int
  BY <1>1, <1>3, <1>4, <1>5
<1>9. score(y) <= score(x) /\ (y <= b[1] => score(x) = score(y))
  BY <1>1, <1>3, <1>4, <1>5, <1>6, <1>7, <1>8
<1> QED
  BY <1>8, <1>9 DEF score

\* The angle of attack: the further out of the on-speed band, the lower its score.
OffScore(z, span, far) ==
  LET tail == 3000 - ((z - span - far) * 2500) \div far
  IN  IF z <= span THEN 10000 - (z * 3500) \div span
      ELSE IF z - span <= far THEN 6500 - ((z - span) * 3500) \div far
      ELSE IF tail < 500 THEN 500 ELSE tail

LEMMA OffFalls ==
  ASSUME NEW span \in Int, span > 0, NEW far \in Int, far > 0,
         NEW e \in Int, NEW f \in Int, 0 < e, e <= f
  PROVE  /\ OffScore(e, span, far) \in Int /\ OffScore(f, span, far) <= OffScore(e, span, far)
         /\ OffScore(e, span, far) <= 10000
<1> DEFINE near(z) == (z * 3500) \div span
           mid(z) == ((z - span) * 3500) \div far
           away(z) == ((z - span - far) * 2500) \div far
           Score(z) == IF z <= span THEN 10000 - near(z)
                       ELSE IF z - span <= far THEN 6500 - mid(z)
                       ELSE IF 3000 - away(z) < 500 THEN 500 ELSE 3000 - away(z)
<1>1. \A z \in Int : 0 < z => near(z) \in Int /\ 0 <= near(z) /\ (z <= span => near(z) <= 3500)
  BY Slope
<1>2. ASSUME NEW z \in Int, span < z
      PROVE  mid(z) \in Int /\ 0 <= mid(z) /\ (z - span <= far => mid(z) <= 3500)
  <2>1. z - span \in Int /\ 0 <= z - span
    BY <1>2
  <2> QED
    BY <2>1, Slope
<1>3. ASSUME NEW z \in Int, far < z - span
      PROVE  away(z) \in Int /\ 0 <= away(z)
  <2>1. z - span - far \in Int /\ 0 <= z - span - far
    BY <1>3
  <2> QED
    BY <2>1, Slope
<1>4. near(e) <= near(f)
  BY Slope
<1>5. span < e => mid(e) <= mid(f)
  <2>1. ASSUME span < e PROVE mid(e) <= mid(f)
    <3>1. e - span \in Int /\ f - span \in Int /\ 0 <= e - span /\ e - span <= f - span
      BY <2>1
    <3> QED
      BY <3>1, Slope
  <2> QED
    BY <2>1
<1>6. far < e - span => away(e) <= away(f)
  <2>1. ASSUME far < e - span PROVE away(e) <= away(f)
    <3>1. /\ e - span - far \in Int /\ f - span - far \in Int
          /\ 0 <= e - span - far /\ e - span - far <= f - span - far
      BY <2>1
    <3> QED
      BY <3>1, Slope
  <2> QED
    BY <2>1
<1> HIDE DEF near, mid, away
<1>7. Score(e) \in Int /\ Score(f) \in Int /\ Score(f) <= Score(e) /\ Score(e) <= 10000
  BY <1>1, <1>2, <1>3, <1>4, <1>5, <1>6
<1> QED
  BY <1>7 DEF near, mid, away, OffScore

LEMMA AoaBandIs ==
  ASSUME NEW k \in DOMAIN AoaBands
  PROVE  LET b == AoaBands[k]
         IN  /\ b.min \in Int /\ b.max \in Int /\ b.fast \in Int /\ b.slow \in Int
             /\ b.fast < b.min /\ b.min < b.max /\ b.max < b.slow
BY DEF AoaBands

FarSpan(span) == IF span < 100 THEN 100 ELSE span

LEMMA AoaIs ==
  ASSUME NEW k \in DOMAIN AoaBands, NEW x \in Int
  PROVE  LET b == AoaBands[k]
             under == b.min - b.fast
             over == b.slow - b.max
         IN  AoaScore(x, b) = IF x < b.min THEN OffScore(b.min - x, under, FarSpan(under))
                              ELSE IF x > b.max THEN OffScore(x - b.max, over, FarSpan(over))
                              ELSE 10000
<1>1. PICK b : b = AoaBands[k]
  OBVIOUS
<1>2. /\ b.min \in Int /\ b.max \in Int /\ b.fast \in Int /\ b.slow \in Int
      /\ b.fast < b.min /\ b.min < b.max /\ b.max < b.slow
  BY <1>1, AoaBandIs
<1>3. Points(100) = 10000 /\ Points(65) = 6500 /\ Points(35) = 3500 /\ Points(30) = 3000
      /\ Points(25) = 2500 /\ Points(5) = 500 /\ MinFarSpan = 100
  BY DEF Points, Full, MinFarSpan
<1>4. CASE b.min <= x /\ x <= b.max
  <2>1. ~(x < b.min) /\ ~(x > b.max)
    BY <1>2, <1>4
  <2>2. AoaScore(x, b) = 10000
    <3>1. ~(b.min - x > 0 /\ b.min - x <= b.min - b.fast)
      BY <1>2, <1>4
    <3> QED
      BY <1>2, <1>3, <1>4, <2>1, <3>1 DEF AoaScore
  <2> QED
    BY <1>1, <1>3, <2>1, <2>2
<1>5. CASE x < b.min
  <2> DEFINE e == b.min - x
             span == b.min - b.fast
  <2>1. ~(b.min <= x) /\ e \in Int /\ e > 0 /\ span \in Int
    BY <1>2, <1>5
  <2>2. AoaScore(x, b) = OffScore(e, span, FarSpan(span))
    <3>1. CASE e <= span
      BY <1>3, <1>5, <2>1, <3>1 DEF AoaScore, OffScore, FarSpan
    <3>2. CASE e > span
      <4>1. ~(e <= span)
        BY <2>1, <3>2
      <4> QED
        BY <1>3, <1>5, <2>1, <3>2, <4>1 DEF AoaScore, OffScore, FarSpan
    <3> QED
      BY <2>1, <3>1, <3>2
  <2> QED
    BY <1>1, <1>5, <2>2
<1>6. CASE x > b.max
  <2> DEFINE e == x - b.max
             span == b.slow - b.max
  <2>1. ~(x <= b.max) /\ ~(x < b.min) /\ e \in Int /\ e > 0 /\ span \in Int
    BY <1>2, <1>6
  <2>2. AoaScore(x, b) = OffScore(e, span, FarSpan(span))
    <3>1. CASE e <= span
      BY <1>3, <1>6, <2>1, <3>1 DEF AoaScore, OffScore, FarSpan
    <3>2. CASE e > span
      <4>1. ~(e <= span)
        BY <2>1, <3>2
      <4> QED
        BY <1>3, <1>6, <2>1, <3>2, <4>1 DEF AoaScore, OffScore, FarSpan
    <3> QED
      BY <2>1, <3>1, <3>2
  <2> QED
    BY <1>1, <1>6, <2>1, <2>2
<1> QED
  BY <1>2, <1>4, <1>5, <1>6

LEMMA AoaFalls ==
  ASSUME NEW k \in DOMAIN AoaBands, NEW x \in Int, NEW y \in Int,
         (AoaBands[k].min <= x /\ x <= y) \/ (y <= x /\ x <= AoaBands[k].min)
  PROVE  /\ AoaScore(x, AoaBands[k]) \in Int
         /\ AoaScore(y, AoaBands[k]) <= AoaScore(x, AoaBands[k])
<1>1. PICK b : b = AoaBands[k]
  OBVIOUS
<1>2. /\ b.min \in Int /\ b.max \in Int /\ b.fast \in Int /\ b.slow \in Int
      /\ b.fast < b.min /\ b.min < b.max /\ b.max < b.slow
  BY <1>1, AoaBandIs
<1> DEFINE under == b.min - b.fast
           over == b.slow - b.max
           slow(e) == OffScore(e, over, FarSpan(over))
           fast(e) == OffScore(e, under, FarSpan(under))
           score(z) == AoaScore(z, b)
<1>3. /\ under \in Int /\ under > 0 /\ over \in Int /\ over > 0
      /\ FarSpan(under) \in Int /\ FarSpan(under) > 0 /\ FarSpan(over) \in Int /\ FarSpan(over) > 0
  BY <1>2 DEF FarSpan
<1>4. \A z \in Int : score(z) = IF z < b.min THEN fast(b.min - z)
                                ELSE IF z > b.max THEN slow(z - b.max) ELSE 10000
  BY <1>1, AoaIs
<1> HIDE DEF under, over
<1>5. ASSUME NEW e \in Int, NEW f \in Int, 0 < e, e <= f
      PROVE  /\ slow(e) \in Int /\ slow(f) <= slow(e) /\ slow(e) <= 10000
             /\ fast(e) \in Int /\ fast(f) <= fast(e) /\ fast(e) <= 10000
  <2>1. slow(e) \in Int /\ slow(f) <= slow(e) /\ slow(e) <= 10000
    BY <1>3, <1>5, OffFalls
  <2>2. fast(e) \in Int /\ fast(f) <= fast(e) /\ fast(e) <= 10000
    BY <1>3, <1>5, OffFalls
  <2> QED
    BY <2>1, <2>2
<1> SUFFICES score(x) \in Int /\ score(y) <= score(x)
  BY <1>1
<1> HIDE DEF slow, fast, score
<1>6. CASE b.min <= x /\ x <= y
  <2>1. ~(x < b.min) /\ ~(y < b.min) /\ (x > b.max => y > b.max)
    BY <1>2, <1>6
  <2>2. CASE ~(y > b.max)
    <3>1. score(x) = 10000
      BY <1>4, <2>1, <2>2
    <3>2. score(y) = 10000
      BY <1>4, <2>1, <2>2
    <3> QED
      BY <3>1, <3>2
  <2>3. CASE y > b.max
    <3>1. y - b.max \in Int /\ 0 < y - b.max
      BY <1>2, <2>3
    <3>2. slow(y - b.max) \in Int /\ slow(y - b.max) <= 10000
      <4>1. y - b.max <= y - b.max
        BY <3>1
      <4> QED
        BY <1>5, <3>1, <4>1
    <3>3. x > b.max => slow(x - b.max) \in Int /\ slow(y - b.max) <= slow(x - b.max)
      <4>1. ASSUME x > b.max PROVE slow(x - b.max) \in Int /\ slow(y - b.max) <= slow(x - b.max)
        <5>1. x - b.max \in Int /\ 0 < x - b.max /\ x - b.max <= y - b.max
          BY <1>2, <1>6, <4>1
        <5> QED
          BY <1>5, <3>1, <5>1
      <4> QED
        BY <4>1
    <3>4. score(y) = slow(y - b.max) /\ score(x) = IF x > b.max THEN slow(x - b.max) ELSE 10000
      BY <1>4, <2>1, <2>3
    <3> QED
      BY <3>2, <3>3, <3>4
  <2> QED
    BY <2>2, <2>3
<1>7. CASE y <= x /\ x <= b.min
  <2>1. ~(x > b.max) /\ ~(y > b.max) /\ (x < b.min => y < b.min)
    BY <1>2, <1>7
  <2>2. CASE ~(y < b.min)
    <3>1. score(x) = 10000
      BY <1>4, <2>1, <2>2
    <3>2. score(y) = 10000
      BY <1>4, <2>1, <2>2
    <3> QED
      BY <3>1, <3>2
  <2>3. CASE y < b.min
    <3>1. b.min - y \in Int /\ 0 < b.min - y
      BY <1>2, <2>3
    <3>2. fast(b.min - y) \in Int /\ fast(b.min - y) <= 10000
      <4>1. b.min - y <= b.min - y
        BY <3>1
      <4> QED
        BY <1>5, <3>1, <4>1
    <3>3. x < b.min => fast(b.min - x) \in Int /\ fast(b.min - y) <= fast(b.min - x)
      <4>1. ASSUME x < b.min PROVE fast(b.min - x) \in Int /\ fast(b.min - y) <= fast(b.min - x)
        <5>1. b.min - x \in Int /\ 0 < b.min - x /\ b.min - x <= b.min - y
          BY <1>2, <1>7, <4>1
        <5> QED
          BY <1>5, <3>1, <5>1
      <4> QED
        BY <4>1
    <3>4. score(y) = fast(b.min - y) /\ score(x) = IF x < b.min THEN fast(b.min - x) ELSE 10000
      BY <1>4, <2>1, <2>3
    <3> QED
      BY <3>2, <3>3, <3>4
  <2> QED
    BY <2>2, <2>3
<1> QED
  BY <1>1, <1>6, <1>7

----------------------------------------
(* The scores of a landing ashore. *)

LEMMA TheBands ==
  /\ GlideBand \in Band /\ CenterBand \in Band /\ GlideBand[1] = 35 /\ CenterBand[1] = 30
  /\ \A c \in DOMAIN PatternBands : PatternBands[c] \in Band
<1>1. GlideBand \in Band /\ CenterBand \in Band /\ GlideBand[1] = 35 /\ CenterBand[1] = 30
  BY DEF GlideBand, CenterBand, Band
<1>2. ASSUME NEW c \in DOMAIN PatternBands PROVE PatternBands[c] \in Band
  <2>1. c \in {"alignment", "break_altitude", "downwind_course", "downwind_altitude"}
    BY DEF PatternBands
  <2>2. CASE c = "alignment"
    BY <2>2 DEF PatternBands, Band
  <2>3. CASE c = "break_altitude"
    BY <2>3 DEF PatternBands, Band
  <2>4. CASE c = "downwind_course"
    BY <2>4 DEF PatternBands, Band
  <2>5. CASE c = "downwind_altitude"
    BY <2>5 DEF PatternBands, Band
  <2> QED
    BY <2>1, <2>2, <2>3, <2>4, <2>5
<1> QED
  BY <1>1, <1>2

LEMMA BandMeasures ==
  ASSUME NEW b \in Band, NEW x \in Measures
  PROVE  BandScore(x, b) \in Measures /\ (BandScore(x, b) = None <=> x = None)
<1>1. CASE x = None
  BY <1>1 DEF BandScore, Measures
<1>2. CASE x \in Int
  <2>1. x <= x
    BY <1>2
  <2>2. BandScore(x, b) \in Int
    BY <1>2, <2>1, BandFalls
  <2> QED
    BY <1>2, <2>2, MeasureAssumption DEF Measures
<1> QED
  BY <1>1, <1>2 DEF Measures

\* The mean of the measured parts of a pattern is a score, or not measured.
LEMMA PatternMeasures ==
  ASSUME NEW parts \in [DOMAIN PatternBands -> Measures]
  PROVE  PatternScore(parts) \in Measures
<1> DEFINE Measured == {c \in DOMAIN PatternBands : parts[c] # None}
           Mark(c) == IF parts[c] = None THEN 0 ELSE BandScore(parts[c], PatternBands[c])
           total == Mark("alignment") + Mark("break_altitude") + Mark("downwind_course")
                      + Mark("downwind_altitude")
<1>1. DOMAIN PatternBands = {"alignment", "break_altitude", "downwind_course", "downwind_altitude"}
  BY DEF PatternBands
<1>2. ASSUME NEW c \in DOMAIN PatternBands PROVE Mark(c) \in Int
  <2>1. parts[c] \in Measures /\ PatternBands[c] \in Band
    BY TheBands
  <2>2. parts[c] # None => BandScore(parts[c], PatternBands[c]) \in Int
    BY <2>1, BandMeasures DEF Measures
  <2> QED
    BY <2>2
<1> HIDE DEF Mark
<1>3. total \in Int
  <2>1. /\ Mark("alignment") \in Int /\ Mark("break_altitude") \in Int
        /\ Mark("downwind_course") \in Int /\ Mark("downwind_altitude") \in Int
    BY <1>1, <1>2
  <2> QED
    BY <2>1
<1>4. ASSUME Measured # {} PROVE Cardinality(Measured) \in Int /\ Cardinality(Measured) > 0
  <2>1. IsFiniteSet(DOMAIN PatternBands)
    <3>1. /\ IsFiniteSet({"alignment"}) /\ IsFiniteSet({"break_altitude"})
          /\ IsFiniteSet({"downwind_course"}) /\ IsFiniteSet({"downwind_altitude"})
      BY FS_Singleton
    <3>2. IsFiniteSet({"alignment"} \cup {"break_altitude"})
      BY <3>1, FS_Union
    <3>3. IsFiniteSet({"downwind_course"} \cup {"downwind_altitude"})
      BY <3>1, FS_Union
    <3>4. IsFiniteSet(({"alignment"} \cup {"break_altitude"})
                        \cup ({"downwind_course"} \cup {"downwind_altitude"}))
      BY <3>2, <3>3, FS_Union
    <3>5. DOMAIN PatternBands = ({"alignment"} \cup {"break_altitude"})
                                  \cup ({"downwind_course"} \cup {"downwind_altitude"})
      BY <1>1
    <3> QED
      BY <3>4, <3>5
  <2>2. IsFiniteSet(Measured)
    BY <2>1, FS_Subset
  <2> QED
    BY <1>4, <2>2, FS_CardinalityType, FS_EmptySet
<1>5. PatternScore(parts) = IF Measured = {} THEN None ELSE total \div Cardinality(Measured)
  BY DEF PatternScore, Mark
<1> HIDE DEF total, Measured
<1>6. Measured # {} => total \div Cardinality(Measured) \in Int
  BY <1>3, <1>4, Divides
<1> QED
  BY <1>5, <1>6 DEF Measures

LEMMA DescentFlat ==
  ASSUME NEW class \in Classes, NEW x \in Int, x <= 0
  PROVE  DescentScore(x, class) = 10000
<1> DEFINE ladder == DescentLadder(class)
<1>1. ladder \in Seq(Rungs) /\ ladder # <<>> /\ ladder[1][2] = 10000 /\ ladder[1][1] = RateBands(class)[1]
  BY DescentRungs
<1>2. RateBands(class)[1] > 0 /\ RateBands(class)[1] \in Int
  BY DEF RateBands, Classes
<1> HIDE DEF ladder
<1>3. x <= ladder[1][1]
  BY <1>1, <1>2
<1>4. Interpolate(x, ladder) = ladder[1][2]
  BY <1>1, <1>3, OnTheLadder
<1> QED
  BY <1>1, <1>4, DescentIs DEF ladder

PatternParts(m, w) ==
  [alignment |-> m.pattern.alignment,
   break_altitude |-> IF w.break THEN m.pattern.break_altitude ELSE None,
   downwind_course |-> m.pattern.downwind_course,
   downwind_altitude |-> m.pattern.downwind_altitude]

LEMMA LandScoresAre ==
  ASSUME NEW m, NEW w
  PROVE  LET s == LandScores(m, w)
         IN  /\ s["descent_rate"] = DescentScore(m.descent_rate, m.class)
             /\ s["touchdown_speed"] = IF m.class = "helicopter" THEN None
                                       ELSE IF w.speed THEN SpeedScore(m.touchdown_speed) ELSE None
             /\ s["glideslope"] = IF m.class = "helicopter" THEN None
                                  ELSE IF w.glideslope THEN BandScore(m.glideslope, GlideBand) ELSE None
             /\ s["centerline"] = BandScore(m.centerline, CenterBand)
             /\ s["pattern"] = IF w.pattern # "overhead" THEN None ELSE PatternScore(PatternParts(m, w))
             /\ s["aoa"] = IF w.aoa /\ m.band # None /\ m.aoa # None
                           THEN AoaScore(m.aoa, AoaBands[m.band]) ELSE None
<1>1. Components = {"descent_rate", "touchdown_speed", "glideslope", "centerline", "pattern", "aoa"}
  BY DEF Components
<1>2. /\ "descent_rate" \notin Unscored(m.class) /\ "centerline" \notin Unscored(m.class)
      /\ "pattern" \notin Unscored(m.class) /\ "aoa" \notin Unscored(m.class)
      /\ "touchdown_speed" \in Unscored(m.class) <=> m.class = "helicopter"
      /\ "glideslope" \in Unscored(m.class) <=> m.class = "helicopter"
  BY DEF Unscored
<1> QED
  BY <1>1, <1>2 DEF LandScores, PatternParts

LEMMA AoaMeasures ==
  ASSUME NEW k \in DOMAIN AoaBands, NEW x \in Int
  PROVE  AoaScore(x, AoaBands[k]) \in Int
<1>1. AoaBands[k].min \in Int
  BY AoaBandIs
<1>2. PICK y \in Int : y = x
  OBVIOUS
<1>3. (AoaBands[k].min <= x /\ x <= y) \/ (y <= x /\ x <= AoaBands[k].min)
  BY <1>1, <1>2
<1> QED
  BY <1>2, <1>3, AoaFalls

LEMMA SpeedMeasures ==
  ASSUME NEW x \in Measures
  PROVE  SpeedScore(x) \in Measures /\ (SpeedScore(x) = None <=> x = None)
<1>1. CASE x = None
  BY <1>1 DEF SpeedScore, Measures
<1>2. CASE x \in Int
  <2>3. PICK y \in Int : y = x
    BY <1>2
  <2>1. (100 <= x /\ x <= y) \/ (y <= x /\ x <= 100)
    BY <1>2, <2>3
  <2>2. SpeedScore(x) \in Int
    BY <1>2, <2>1, <2>3, SpeedFalls
  <2> QED
    BY <1>2, <2>2, MeasureAssumption DEF Measures
<1> QED
  BY <1>1, <1>2 DEF Measures

LEMMA DescentMeasures ==
  ASSUME NEW class \in Classes, NEW x \in Int
  PROVE  DescentScore(x, class) \in Int
<1>1. x <= x
  OBVIOUS
<1> QED
  BY <1>1, DescentFalls

LEMMA PatternPartsMeasure ==
  ASSUME NEW m \in LandMeasures, NEW w
  PROVE  PatternParts(m, w) \in [DOMAIN PatternBands -> Measures]
<1>1. DOMAIN PatternBands = {"alignment", "break_altitude", "downwind_course", "downwind_altitude"}
  BY DEF PatternBands
<1>2. m.pattern \in [DOMAIN PatternBands -> Measures] /\ None \in Measures
  BY DEF LandMeasures, Measures
<1>3. /\ m.pattern.alignment \in Measures /\ m.pattern.break_altitude \in Measures
      /\ m.pattern.downwind_course \in Measures /\ m.pattern.downwind_altitude \in Measures
  BY <1>1, <1>2
<1>4. (IF w.break THEN m.pattern.break_altitude ELSE None) \in Measures
  BY <1>2, <1>3
<1> QED
  BY <1>1, <1>3, <1>4 DEF PatternParts

\* Every component of a landing has a score or was not measured.
LEMMA ScoresMeasure ==
  ASSUME NEW m \in LandMeasures, NEW w, NEW c \in Components
  PROVE  LandScores(m, w)[c] \in Measures
<1>1. /\ m.class \in Classes /\ m.descent_rate \in Int /\ m.touchdown_speed \in Measures
      /\ m.glideslope \in Measures /\ m.centerline \in Measures /\ m.aoa \in Measures
      /\ m.band \in DOMAIN AoaBands \cup {None}
  BY DEF LandMeasures
<1>2. None \in Measures /\ Int \subseteq Measures
  BY DEF Measures
<1>3. CASE c = "descent_rate"
  BY <1>1, <1>2, <1>3, LandScoresAre, DescentMeasures
<1>4. CASE c = "touchdown_speed"
  BY <1>1, <1>2, <1>4, LandScoresAre, SpeedMeasures
<1>5. CASE c = "glideslope"
  BY <1>1, <1>2, <1>5, LandScoresAre, BandMeasures, TheBands
<1>6. CASE c = "centerline"
  BY <1>1, <1>2, <1>6, LandScoresAre, BandMeasures, TheBands
<1>7. CASE c = "pattern"
  BY <1>2, <1>7, LandScoresAre, PatternPartsMeasure, PatternMeasures
<1>8. CASE c = "aoa"
  <2>1. m.band # None /\ m.aoa # None => AoaScore(m.aoa, AoaBands[m.band]) \in Measures
    BY <1>1, <1>2, AoaMeasures DEF Measures
  <2> QED
    BY <1>2, <1>8, <2>1, LandScoresAre
<1> QED
  BY <1>3, <1>4, <1>5, <1>6, <1>7, <1>8 DEF Components

----------------------------------------
(* Flying one thing better. *)

Scored == {"descent_rate", "touchdown_speed", "glideslope", "centerline", "aoa"}
Same(m, n) == n.class = m.class /\ n.band = m.band /\ n.pattern = m.pattern
Nearer(m, n, c, best) ==
  /\ m[c] \in Int /\ n[c] \in Int
  /\ (best <= n[c] /\ n[c] <= m[c]) \/ (m[c] <= n[c] /\ n[c] <= best)

\* A landing with one thing flown better is a landing that differs in it alone.
LEMMA BetterLanding ==
  ASSUME NEW m \in LandMeasures, NEW c \in Scored, NEW n \in Better(m, c, Lands)
  PROVE  /\ n \in LandMeasures /\ Same(m, n) /\ Nearer(m, n, c, Best(m)[c])
         /\ \A d \in Scored \ {c} : n[d] = m[d]
<1>1. m[c] # None
  BY DEF Better
<1>2. PICK x \in {l[c] : l \in Lands} :
         /\ x # None
         /\ (Best(m)[c] <= x /\ x <= m[c]) \/ (m[c] <= x /\ x <= Best(m)[c])
         /\ n = [m EXCEPT ![c] = x]
  BY <1>1 DEF Better
<1>3. /\ DOMAIN m = {"class", "band", "descent_rate", "touchdown_speed", "glideslope",
                     "centerline", "aoa", "pattern"}
      /\ \A d \in Scored : m[d] \in Measures
      /\ m.descent_rate \in Int
  BY DEF LandMeasures, Scored, Measures
<1>4. PICK l \in Lands : x = l[c]
  BY <1>2
<1>5. l \in LandMeasures
  BY MeasureAssumption
<1>6. x \in Measures /\ (c = "descent_rate" => x \in Int)
  BY <1>4, <1>5 DEF LandMeasures, Scored, Measures
<1>7. m[c] \in Int /\ x \in Int
  BY <1>1, <1>2, <1>3, <1>6 DEF Measures
<1>8. /\ n[c] = x /\ \A d \in DOMAIN m : d # c => n[d] = m[d]
      /\ DOMAIN n = DOMAIN m /\ c \in DOMAIN m
  BY <1>2, <1>3 DEF Scored
<1>9. n.class = m.class /\ n.band = m.band /\ n.pattern = m.pattern
  BY <1>3, <1>8 DEF Scored
<1>10. \A d \in Scored \ {c} : n[d] = m[d]
  BY <1>3, <1>8 DEF Scored
<1>11. n \in LandMeasures
  <2>1. n = [m EXCEPT ![c] = x]
    BY <1>2
  <2>2. CASE c = "descent_rate"
    BY <1>6, <2>1, <2>2 DEF LandMeasures
  <2>3. CASE c = "touchdown_speed"
    BY <1>6, <2>1, <2>3 DEF LandMeasures
  <2>4. CASE c = "glideslope"
    BY <1>6, <2>1, <2>4 DEF LandMeasures
  <2>5. CASE c = "centerline"
    BY <1>6, <2>1, <2>5 DEF LandMeasures
  <2>6. CASE c = "aoa"
    BY <1>6, <2>1, <2>6 DEF LandMeasures
  <2> QED
    BY <2>2, <2>3, <2>4, <2>5, <2>6 DEF Scored
<1>12. Nearer(m, n, c, Best(m)[c])
  BY <1>2, <1>7, <1>8 DEF Nearer
<1> QED
  BY <1>9, <1>10, <1>11, <1>12 DEF Same

\* A deviation nearer to none scores no less.
LEMMA BandNearer ==
  ASSUME NEW b \in Band, 0 <= b[1], NEW x \in Int, NEW y \in Int,
         (0 <= y /\ y <= x) \/ (x <= y /\ y <= 0)
  PROVE  /\ BandScore(x, b) <= BandScore(y, b)
         /\ BandScore(x, b) \in Int /\ BandScore(y, b) \in Int
<1>1. b[1] \in Int
  BY DEF Band
<1>2. BandScore(x, b) \in Int /\ BandScore(y, b) \in Int
  BY BandMeasures, MeasureAssumption DEF Measures
<1>3. CASE y <= x
  BY <1>2, <1>3, BandFalls
<1>4. CASE x <= y /\ y <= 0
  <2>1. y <= b[1]
    BY <1>1, <1>4
  <2>2. BandScore(x, b) = BandScore(y, b)
    BY <1>4, <2>1, BandFalls
  <2> QED
    BY <1>2, <2>2
<1> QED
  BY <1>2, <1>3, <1>4

\* Its scores are the others', but for that thing, where they are no less.
NoLess(s, t) ==
  \A c \in Components : (s[c] = None <=> t[c] = None) /\ (s[c] # None => s[c] <= t[c])

LEMMA BetterScores ==
  ASSUME NEW m \in LandMeasures, NEW c \in Scored, NEW n \in Better(m, c, Lands), NEW w
  PROVE  NoLess(LandScores(m, w), LandScores(n, w))
<1> DEFINE s == LandScores(m, w)
           t == LandScores(n, w)
<1>1. /\ n \in LandMeasures /\ Same(m, n) /\ Nearer(m, n, c, Best(m)[c])
      /\ \A d \in Scored \ {c} : n[d] = m[d]
  BY BetterLanding
<1>2. /\ m.class \in Classes /\ m.descent_rate \in Int /\ m.touchdown_speed \in Measures
      /\ m.glideslope \in Measures /\ m.centerline \in Measures /\ m.aoa \in Measures
      /\ m.band \in DOMAIN AoaBands \cup {None}
  BY DEF LandMeasures
<1>3. \A d \in Components : s[d] \in Measures /\ t[d] \in Measures
  BY <1>1, ScoresMeasure
<1>4. PatternParts(n, w) = PatternParts(m, w)
  BY <1>1 DEF PatternParts, Same
<1>5. s["pattern"] = t["pattern"]
  BY <1>4, LandScoresAre
<1>6. c # "descent_rate" => s["descent_rate"] = t["descent_rate"]
  BY <1>1, LandScoresAre DEF Same, Scored
<1>7. c # "touchdown_speed" => s["touchdown_speed"] = t["touchdown_speed"]
  BY <1>1, LandScoresAre DEF Same, Scored
<1>8. c # "glideslope" => s["glideslope"] = t["glideslope"]
  BY <1>1, LandScoresAre DEF Same, Scored
<1>9. c # "centerline" => s["centerline"] = t["centerline"]
  BY <1>1, LandScoresAre DEF Same, Scored
<1>10. c # "aoa" => s["aoa"] = t["aoa"]
  BY <1>1, LandScoresAre DEF Same, Scored
<1>11. None \notin Int
  BY MeasureAssumption
<1> DEFINE Fine(d) == (s[d] = None <=> t[d] = None) /\ (s[d] # None => s[d] <= t[d])
<1>12. ASSUME NEW d \in Components, s[d] = t[d] PROVE Fine(d)
  <2>1. s[d] # None => s[d] \in Int
    BY <1>3 DEF Measures
  <2> HIDE DEF s, t
  <2> QED
    BY <1>12, <2>1
<1>13. ASSUME NEW d \in Components, s[d] \in Int, t[d] \in Int, s[d] <= t[d] PROVE Fine(d)
  BY <1>11, <1>13
<1>14. ASSUME c = "descent_rate" PROVE Fine("descent_rate")
  <2>1. /\ m.descent_rate \in Int /\ n.descent_rate \in Int
        /\ (0 <= n.descent_rate /\ n.descent_rate <= m.descent_rate)
             \/ (m.descent_rate <= n.descent_rate /\ n.descent_rate <= 0)
    BY <1>1, <1>14 DEF Nearer, Best
  <2>2. s["descent_rate"] = DescentScore(m.descent_rate, m.class)
        /\ t["descent_rate"] = DescentScore(n.descent_rate, m.class)
    BY <1>1, LandScoresAre DEF Same
  <2>3. s["descent_rate"] \in Int /\ t["descent_rate"] \in Int
    BY <1>2, <2>1, <2>2, DescentMeasures
  <2>4. s["descent_rate"] <= t["descent_rate"]
    <3>1. CASE 0 <= n.descent_rate /\ n.descent_rate <= m.descent_rate
      BY <1>2, <2>1, <2>2, <3>1, DescentFalls
    <3>2. CASE m.descent_rate <= n.descent_rate /\ n.descent_rate <= 0
      <4>1. m.descent_rate <= 0 /\ n.descent_rate <= 0
        BY <2>1, <3>2
      <4> QED
        BY <1>2, <2>1, <2>2, <4>1, DescentFlat
    <3> QED
      BY <2>1, <3>1, <3>2
  <2>5. "descent_rate" \in Components
    BY DEF Components
  <2> HIDE DEF s, t, Fine
  <2> QED
    BY <1>13, <2>3, <2>4, <2>5
<1>15. ASSUME c = "touchdown_speed" PROVE Fine("touchdown_speed")
  <2> DEFINE x == m.touchdown_speed
             y == n.touchdown_speed
  <2>1. x \in Int /\ y \in Int /\ ((100 <= y /\ y <= x) \/ (x <= y /\ y <= 100))
    BY <1>1, <1>15 DEF Nearer, Best
  <2>2. /\ s["touchdown_speed"] = IF m.class = "helicopter" THEN None
                                  ELSE IF w.speed THEN SpeedScore(x) ELSE None
        /\ t["touchdown_speed"] = IF m.class = "helicopter" THEN None
                                  ELSE IF w.speed THEN SpeedScore(y) ELSE None
    BY <1>1, LandScoresAre DEF Same
  <2>3. SpeedScore(x) <= SpeedScore(y)
    BY <2>1, SpeedFalls
  <2>4. SpeedScore(x) \in Int /\ SpeedScore(y) \in Int
    BY <1>11, <2>1, SpeedMeasures DEF Measures
  <2>5. "touchdown_speed" \in Components
    BY DEF Components
  <2> HIDE DEF s, t, Fine
  <2> QED
    BY <1>12, <1>13, <2>2, <2>3, <2>4, <2>5
<1>16. ASSUME c = "glideslope" PROVE Fine("glideslope")
  <2> DEFINE x == m.glideslope
             y == n.glideslope
  <2>1. x \in Int /\ y \in Int /\ ((0 <= y /\ y <= x) \/ (x <= y /\ y <= 0))
    BY <1>1, <1>16 DEF Nearer, Best
  <2>2. /\ s["glideslope"] = IF m.class = "helicopter" THEN None
                             ELSE IF w.glideslope THEN BandScore(x, GlideBand) ELSE None
        /\ t["glideslope"] = IF m.class = "helicopter" THEN None
                             ELSE IF w.glideslope THEN BandScore(y, GlideBand) ELSE None
    BY <1>1, LandScoresAre DEF Same
  <2>3. BandScore(x, GlideBand) <= BandScore(y, GlideBand)
    BY <2>1, BandNearer, TheBands
  <2>4. BandScore(x, GlideBand) \in Int /\ BandScore(y, GlideBand) \in Int
    BY <2>1, BandNearer, TheBands
  <2>5. "glideslope" \in Components
    BY DEF Components
  <2> HIDE DEF s, t, Fine
  <2> QED
    BY <1>12, <1>13, <2>2, <2>3, <2>4, <2>5
<1>17. ASSUME c = "centerline" PROVE Fine("centerline")
  <2> DEFINE x == m.centerline
             y == n.centerline
  <2>1. x \in Int /\ y \in Int /\ ((0 <= y /\ y <= x) \/ (x <= y /\ y <= 0))
    BY <1>1, <1>17 DEF Nearer, Best
  <2>2. s["centerline"] = BandScore(x, CenterBand) /\ t["centerline"] = BandScore(y, CenterBand)
    BY LandScoresAre
  <2>3. BandScore(x, CenterBand) <= BandScore(y, CenterBand)
    BY <2>1, BandNearer, TheBands
  <2>4. BandScore(x, CenterBand) \in Int /\ BandScore(y, CenterBand) \in Int
    BY <2>1, BandNearer, TheBands
  <2>5. "centerline" \in Components
    BY DEF Components
  <2> HIDE DEF s, t, Fine
  <2> QED
    BY <1>13, <2>2, <2>3, <2>4, <2>5
<1>18. ASSUME c = "aoa" PROVE Fine("aoa")
  <2> DEFINE x == m.aoa
             y == n.aoa
             k == m.band
  <2>1. x \in Int /\ y \in Int /\ n.band = k
    BY <1>1, <1>18 DEF Nearer, Same
  <2>2. x # None /\ y # None
    BY <1>11, <2>1
  <2>3. /\ s["aoa"] = IF w.aoa /\ k # None /\ x # None THEN AoaScore(x, AoaBands[k]) ELSE None
        /\ t["aoa"] = IF w.aoa /\ k # None /\ y # None THEN AoaScore(y, AoaBands[k]) ELSE None
    BY <2>1, LandScoresAre
  <2>4. ASSUME k # None
        PROVE  /\ AoaScore(x, AoaBands[k]) <= AoaScore(y, AoaBands[k])
               /\ AoaScore(x, AoaBands[k]) \in Int /\ AoaScore(y, AoaBands[k]) \in Int
    <3>1. k \in DOMAIN AoaBands
      BY <1>2, <2>4
    <3>2. (AoaBands[k].min <= y /\ y <= x) \/ (x <= y /\ y <= AoaBands[k].min)
      BY <1>1, <1>18, <2>4 DEF Nearer, Best
    <3> QED
      BY <2>1, <3>1, <3>2, AoaFalls, AoaMeasures
  <2>5. "aoa" \in Components
    BY DEF Components
  <2> HIDE DEF s, t, Fine, x, y, k
  <2> QED
    BY <1>12, <1>13, <2>2, <2>3, <2>4, <2>5
<1> HIDE DEF s, t
<1>19. ASSUME NEW d \in Components PROVE Fine(d)
  <2>1. CASE s[d] = t[d]
    BY <1>12, <2>1
  <2>2. CASE s[d] # t[d]
    <3>1. d = c
      BY <1>5, <1>6, <1>7, <1>8, <1>9, <1>10, <2>2 DEF Components
    <3> QED
      BY <1>14, <1>15, <1>16, <1>17, <1>18, <3>1 DEF Scored
  <2> QED
    BY <2>1, <2>2
<1> QED
  BY <1>19 DEF NoLess, s, t

----------------------------------------
(* The grade of a landing ashore. *)

LEMMA TotalMore ==
  ASSUME NEW x, NEW y, \A c \in Components : x[c] \in Int /\ y[c] \in Int /\ x[c] <= y[c]
  PROVE  Total(x) \in Int /\ Total(y) \in Int /\ Total(x) <= Total(y)
<1>1. /\ x.descent_rate \in Int /\ y.descent_rate \in Int /\ x.descent_rate <= y.descent_rate
      /\ x.touchdown_speed \in Int /\ y.touchdown_speed \in Int /\ x.touchdown_speed <= y.touchdown_speed
      /\ x.glideslope \in Int /\ y.glideslope \in Int /\ x.glideslope <= y.glideslope
      /\ x.centerline \in Int /\ y.centerline \in Int /\ x.centerline <= y.centerline
      /\ x.pattern \in Int /\ y.pattern \in Int /\ x.pattern <= y.pattern
      /\ x.aoa \in Int /\ y.aoa \in Int /\ x.aoa <= y.aoa
  BY DEF Components
<1> QED
  BY <1>1 DEF Total

LEMMA TotalTimes ==
  ASSUME NEW x, NEW k \in Int, \A c \in Components : x[c] \in Int
  PROVE  Total(x) \in Int /\ Total([c \in Components |-> k * x[c]]) = k * Total(x)
<1> DEFINE y == [c \in Components |-> k * x[c]]
<1>1. /\ x.descent_rate \in Int /\ x.touchdown_speed \in Int /\ x.glideslope \in Int
      /\ x.centerline \in Int /\ x.pattern \in Int /\ x.aoa \in Int
  BY DEF Components
<1>2. /\ y.descent_rate = k * x.descent_rate /\ y.touchdown_speed = k * x.touchdown_speed
      /\ y.glideslope = k * x.glideslope /\ y.centerline = k * x.centerline
      /\ y.pattern = k * x.pattern /\ y.aoa = k * x.aoa
  BY DEF Components
<1> HIDE DEF y
<1>3. Total(y) = k * Total(x)
  BY <1>1, <1>2 DEF Total
<1>4. Total(x) \in Int
  BY <1>1 DEF Total
<1> QED
  BY <1>3, <1>4 DEF y

LEMMA WeightsAre ==
  ASSUME NEW pattern, NEW c \in Components
  PROVE  Weights(pattern)[c] \in Nat
BY DEF Weights, Components

Scores6 == [Components -> Measures]

LEMMA WeighedAre ==
  ASSUME NEW s \in Scores6, NEW pattern, NEW c \in Components
  PROVE  LET w == Weights(pattern)
         IN  /\ Weighed(s, w)[c] \in Nat
             /\ s[c] = None => Weighed(s, w)[c] = 0 /\ Marks(s, w)[c] = 0
             /\ s[c] # None => s[c] \in Int /\ Marks(s, w)[c] = s[c] * Weighed(s, w)[c]
             /\ Marks(s, w)[c] \in Int
<1> DEFINE w == Weights(pattern)
<1>1. w[c] \in Nat
  BY WeightsAre
<1>2. s[c] # None => s[c] \in Int
  BY DEF Scores6, Measures
<1> HIDE DEF w
<1>3. /\ Weighed(s, w)[c] = IF s[c] = None THEN 0 ELSE w[c]
      /\ Marks(s, w)[c] = IF s[c] = None THEN 0 ELSE s[c] * w[c]
  BY DEF Weighed, Marks
<1>4. s[c] # None => s[c] * w[c] \in Int
  BY <1>1, <1>2
<1>5. /\ Weighed(s, w)[c] \in Nat
      /\ s[c] = None => Weighed(s, w)[c] = 0 /\ Marks(s, w)[c] = 0
      /\ s[c] # None => s[c] \in Int /\ Marks(s, w)[c] = s[c] * Weighed(s, w)[c]
      /\ Marks(s, w)[c] \in Int
  BY <1>1, <1>2, <1>3, <1>4
<1> QED
  BY <1>5 DEF w

\* A score is the mean of what was measured, weighted.
LEMMA GradeScore ==
  ASSUME NEW s \in Scores6, NEW pattern, NEW agl, LandGrade(s, pattern, agl).score # None
  PROVE  LET weight == Total(Weighed(s, Weights(pattern)))
             total == Total(Marks(s, Weights(pattern)))
             q == LandGrade(s, pattern, agl).score
         IN  /\ weight \in Int /\ weight > 0 /\ total \in Int /\ q \in Int /\ q = total \div weight
             /\ weight * q <= total /\ total < weight * q + weight
             /\ agl = None \/ agl >= MinFlightAgl
             /\ weight >= MinMeasuredWeight
<1> DEFINE weight == Total(Weighed(s, Weights(pattern)))
           total == Total(Marks(s, Weights(pattern)))
           q == LandGrade(s, pattern, agl).score
           flown1 == agl = None \/ agl >= MinFlightAgl
<1>1. \A c \in Components : Weighed(s, Weights(pattern))[c] \in Int /\ Marks(s, Weights(pattern))[c] \in Int
  BY WeighedAre
<1>2. \A k, l \in Int : k = l => k <= l
  OBVIOUS
<1>3. weight \in Int /\ total \in Int
  BY <1>1, <1>2, TotalMore
<1>4. q = IF flown1 /\ weight >= MinMeasuredWeight THEN total \div weight ELSE None
  BY DEF LandGrade
<1>5. flown1 /\ weight >= MinMeasuredWeight /\ q = total \div weight
  BY <1>4
<1> HIDE DEF weight, total, q, flown1
<1>6. weight > 0
  BY <1>3, <1>5 DEF MinMeasuredWeight
<1>7. q \in Int /\ weight * q <= total /\ total < weight * q + weight
  BY <1>3, <1>5, <1>6, Divides
<1> QED
  BY <1>3, <1>5, <1>6, <1>7 DEF weight, total, q, flown1

\* Scores that are no less make a grade that is no less.
LEMMA GradeMore ==
  ASSUME NEW s \in Scores6, NEW t \in Scores6, NoLess(s, t), NEW pattern, NEW agl,
         LandGrade(s, pattern, agl).score # None
  PROVE  LandGrade(s, pattern, agl).score <= LandGrade(t, pattern, agl).score
<1> DEFINE w == Weights(pattern)
           weight == Total(Weighed(s, w))
           flown1 == agl = None \/ agl >= MinFlightAgl
<1>1. Weighed(t, w) = Weighed(s, w)
  BY DEF NoLess, Weighed
<1>2. ASSUME NEW c \in Components
      PROVE  Marks(s, w)[c] \in Int /\ Marks(t, w)[c] \in Int /\ Marks(s, w)[c] <= Marks(t, w)[c]
  <2>1. /\ Weighed(s, w)[c] \in Nat
        /\ s[c] = None => Marks(s, w)[c] = 0
        /\ s[c] # None => s[c] \in Int /\ Marks(s, w)[c] = s[c] * Weighed(s, w)[c]
        /\ Marks(s, w)[c] \in Int
    BY WeighedAre
  <2>2. /\ t[c] = None => Marks(t, w)[c] = 0
        /\ t[c] # None => t[c] \in Int /\ Marks(t, w)[c] = t[c] * Weighed(s, w)[c]
        /\ Marks(t, w)[c] \in Int
    BY <1>1, WeighedAre
  <2>3. (s[c] = None <=> t[c] = None) /\ (s[c] # None => s[c] <= t[c])
    BY DEF NoLess
  <2>4. CASE s[c] = None
    BY <2>1, <2>2, <2>3, <2>4
  <2>5. CASE s[c] # None
    <3>1. s[c] * Weighed(s, w)[c] <= t[c] * Weighed(s, w)[c]
      <4>1. PICK k \in Nat : k = Weighed(s, w)[c]
        BY <2>1
      <4>2. s[c] \in Int /\ t[c] \in Int /\ s[c] <= t[c]
        BY <2>1, <2>2, <2>3, <2>5
      <4>3. s[c] * k <= t[c] * k
        BY <4>2
      <4> QED
        BY <4>1, <4>3
    <3> QED
      BY <2>1, <2>2, <2>3, <2>5, <3>1
  <2> QED
    BY <2>4, <2>5
<1> DEFINE total == Total(Marks(s, w))
           more == Total(Marks(t, w))
<1>3. total \in Int /\ more \in Int /\ total <= more
  BY <1>2, TotalMore
<1>4. /\ weight \in Int /\ weight > 0 /\ LandGrade(s, pattern, agl).score = total \div weight
      /\ flown1 /\ weight >= MinMeasuredWeight
  BY GradeScore
<1>5. LandGrade(t, pattern, agl).score =
        IF flown1 /\ weight >= MinMeasuredWeight THEN more \div weight ELSE None
  BY <1>1 DEF LandGrade
<1> HIDE DEF total, more, weight, flown1
<1>6. total \div weight <= more \div weight
  BY <1>3, <1>4, DividesMore
<1> QED
  BY <1>4, <1>5, <1>6

\* Marks no less, or no more, than k for every measured component add up so.
LEMMA MarksAdd ==
  ASSUME NEW s \in Scores6, NEW pattern, NEW k \in Int
  PROVE  LET weight == Total(Weighed(s, Weights(pattern)))
             total == Total(Marks(s, Weights(pattern)))
         IN  /\ weight \in Int /\ total \in Int
             /\ (\A c \in Components : s[c] # None => k <= s[c]) => k * weight <= total
             /\ (\A c \in Components : s[c] # None => s[c] <= k) => total <= k * weight
<1> DEFINE x == Weighed(s, Weights(pattern))
           y == Marks(s, Weights(pattern))
           z == [c \in Components |-> k * x[c]]
<1>1. \A c \in Components : /\ x[c] \in Nat /\ (s[c] = None => x[c] = 0 /\ y[c] = 0)
                             /\ (s[c] # None => s[c] \in Int /\ y[c] = s[c] * x[c])
                             /\ y[c] \in Int
  BY WeighedAre
<1> HIDE DEF x, y
<1>2. \A c \in Components : x[c] \in Int
  BY <1>1
<1>3. Total(x) \in Int /\ Total(z) = k * Total(x)
  BY <1>2, TotalTimes
<1>4. \A c \in Components : z[c] \in Int /\ z[c] = k * x[c]
  BY <1>2
<1> HIDE DEF z
<1>5. ASSUME \A c \in Components : s[c] # None => k <= s[c] PROVE Total(z) <= Total(y)
  <2>1. ASSUME NEW c \in Components PROVE z[c] <= y[c]
    <3>1. CASE s[c] = None
      <4>1. x[c] = 0 /\ y[c] = 0 /\ z[c] = k * x[c]
        BY <1>1, <1>4, <3>1
      <4> QED
        BY <4>1
    <3>2. CASE s[c] # None
      <4>1. k <= s[c] /\ s[c] \in Int /\ x[c] \in Nat /\ y[c] = s[c] * x[c] /\ z[c] = k * x[c]
        BY <1>1, <1>4, <1>5, <3>2
      <4>2. k * x[c] <= s[c] * x[c]
        BY <4>1
      <4> QED
        BY <4>1, <4>2
    <3> QED
      BY <3>1, <3>2
  <2> QED
    BY <1>1, <1>4, <2>1, TotalMore
<1>6. ASSUME \A c \in Components : s[c] # None => s[c] <= k PROVE Total(y) <= Total(z)
  <2>1. ASSUME NEW c \in Components PROVE y[c] <= z[c]
    <3>1. CASE s[c] = None
      <4>1. x[c] = 0 /\ y[c] = 0 /\ z[c] = k * x[c]
        BY <1>1, <1>4, <3>1
      <4> QED
        BY <4>1
    <3>2. CASE s[c] # None
      <4>1. s[c] <= k /\ s[c] \in Int /\ x[c] \in Nat /\ y[c] = s[c] * x[c] /\ z[c] = k * x[c]
        BY <1>1, <1>4, <1>6, <3>2
      <4>2. s[c] * x[c] <= k * x[c]
        BY <4>1
      <4> QED
        BY <4>1, <4>2
    <3> QED
      BY <3>1, <3>2
  <2> QED
    BY <1>1, <1>4, <2>1, TotalMore
<1>7. Total(y) \in Int
  <2>1. \A c \in Components : y[c] \in Int /\ y[c] <= y[c]
    BY <1>1
  <2> QED
    BY <2>1, TotalMore
<1> QED
  BY <1>3, <1>5, <1>6, <1>7 DEF x, y

\* The mean lies between the worst and the best measured score.
LEMMA GradeBetween ==
  ASSUME NEW s \in Scores6, NEW pattern, NEW agl, LandGrade(s, pattern, agl).score # None
  PROVE  \E worst, best \in {c \in Components : s[c] # None} :
           /\ s[worst] <= LandGrade(s, pattern, agl).score
           /\ LandGrade(s, pattern, agl).score <= s[best]
<1> DEFINE q == LandGrade(s, pattern, agl).score
           weight == Total(Weighed(s, Weights(pattern)))
           total == Total(Marks(s, Weights(pattern)))
<1>1. /\ weight \in Int /\ weight > 0 /\ total \in Int /\ q \in Int
      /\ weight * q <= total /\ total < weight * q + weight
  BY GradeScore
<1>2. \A k \in Int :
        /\ (\A c \in Components : s[c] # None => k <= s[c]) => k * weight <= total
        /\ (\A c \in Components : s[c] # None => s[c] <= k) => total <= k * weight
  BY MarksAdd
<1> HIDE DEF q, weight, total
<1>3. \A c \in Components : s[c] # None => s[c] \in Int
  BY DEF Scores6, Measures
<1>4. \E worst \in Components : s[worst] # None /\ s[worst] <= q
  <2>1. SUFFICES ASSUME \A c \in Components : s[c] # None => ~(s[c] <= q) PROVE FALSE
    OBVIOUS
  <2>2. \A c \in Components : s[c] # None => q + 1 <= s[c]
    BY <1>1, <1>3, <2>1
  <2>3. (q + 1) * weight <= total
    <3>1. q + 1 \in Int
      BY <1>1
    <3> QED
      BY <1>2, <2>2, <3>1
  <2> QED
    BY <1>1, <2>3
<1>5. \E best \in Components : s[best] # None /\ q <= s[best]
  <2>1. SUFFICES ASSUME \A c \in Components : s[c] # None => ~(q <= s[c]) PROVE FALSE
    OBVIOUS
  <2>2. \A c \in Components : s[c] # None => s[c] <= q - 1
    BY <1>1, <1>3, <2>1
  <2>3. total <= (q - 1) * weight
    <3>1. q - 1 \in Int
      BY <1>1
    <3> QED
      BY <1>2, <2>2, <3>1
  <2> QED
    BY <1>1, <2>3
<1> QED
  BY <1>4, <1>5 DEF q

----------------------------------------
(* The grade of a landing aboard. *)

TrapScored == {"gs", "lateral", "range", "ratio", "aoa"}

LEMMA BetterTrap ==
  ASSUME NEW m \in TrapMeasures, NEW c \in TrapScored, NEW n \in Better(m, c, Traps)
  PROVE  /\ n \in TrapMeasures /\ n.band = m.band /\ n.bolter = m.bolter
         /\ Nearer(m, n, c, Best(m)[c])
         /\ \A d \in TrapScored \ {c} : n[d] = m[d]
<1>1. m[c] # None
  BY DEF Better
<1>2. PICK x \in {l[c] : l \in Traps} :
         /\ x # None
         /\ (Best(m)[c] <= x /\ x <= m[c]) \/ (m[c] <= x /\ x <= Best(m)[c])
         /\ n = [m EXCEPT ![c] = x]
  BY <1>1 DEF Better
<1>3. /\ DOMAIN m = {"bolter", "band", "gs", "lateral", "range", "ratio", "aoa"}
      /\ \A d \in TrapScored : m[d] \in Measures
  BY DEF TrapMeasures, TrapScored
<1>4. PICK l \in Traps : x = l[c]
  BY <1>2
<1>5. l \in TrapMeasures
  BY MeasureAssumption
<1>6. x \in Measures
  BY <1>4, <1>5 DEF TrapMeasures, TrapScored
<1>7. m[c] \in Int /\ x \in Int
  BY <1>1, <1>2, <1>3, <1>6 DEF Measures
<1>8. /\ n[c] = x /\ \A d \in DOMAIN m : d # c => n[d] = m[d]
      /\ DOMAIN n = DOMAIN m /\ c \in DOMAIN m
  BY <1>2, <1>3 DEF TrapScored
<1>9. n.band = m.band /\ n.bolter = m.bolter
  BY <1>3, <1>8 DEF TrapScored
<1>10. \A d \in TrapScored \ {c} : n[d] = m[d]
  BY <1>3, <1>8 DEF TrapScored
<1>11. n \in TrapMeasures
  <2>1. n = [m EXCEPT ![c] = x]
    BY <1>2
  <2>2. CASE c = "gs"
    BY <1>6, <2>1, <2>2 DEF TrapMeasures
  <2>3. CASE c = "lateral"
    BY <1>6, <2>1, <2>3 DEF TrapMeasures
  <2>4. CASE c = "range"
    BY <1>6, <2>1, <2>4 DEF TrapMeasures
  <2>5. CASE c = "ratio"
    BY <1>6, <2>1, <2>5 DEF TrapMeasures
  <2>6. CASE c = "aoa"
    BY <1>6, <2>1, <2>6 DEF TrapMeasures
  <2> QED
    BY <2>2, <2>3, <2>4, <2>5, <2>6 DEF TrapScored
<1>12. Nearer(m, n, c, Best(m)[c])
  BY <1>2, <1>7, <1>8 DEF Nearer
<1> QED
  BY <1>9, <1>10, <1>11, <1>12

\* The severe factors of a pass, one by one.
ByAoa(m) == m.band # None /\ m.aoa # None
VeryFast(m) ==
  IF ByAoa(m) THEN m.aoa < AoaBands[m.band].fast ELSE m.ratio # None /\ m.ratio > 107
VerySlow(m) ==
  IF ByAoa(m) THEN ~(m.aoa < AoaBands[m.band].fast) /\ m.aoa > AoaBands[m.band].slow
  ELSE m.ratio # None /\ m.ratio < 93
Severe(m) == {f \in Factors(m) : f[2] = "major"}

LEMMA SevereSpeed ==
  ASSUME NEW m \in TrapMeasures, NEW f
  PROVE  f \in SpeedFactor(m) /\ f[2] = "major" <=>
           \/ f = <<"FAST", "major">> /\ VeryFast(m)
           \/ f = <<"SLOW", "major">> /\ VerySlow(m)
<1>1. m.band \in DOMAIN AoaBands \cup {None} /\ m.aoa \in Int \cup {None} /\ m.ratio \in Int \cup {None}
  BY DEF TrapMeasures, Measures
<1>2. CASE ByAoa(m)
  <2>1. PICK b : b = AoaBands[m.band]
    OBVIOUS
  <2>2. /\ b.min \in Int /\ b.max \in Int /\ b.fast \in Int /\ b.slow \in Int
        /\ b.fast < b.min /\ b.min < b.max /\ b.max < b.slow /\ m.aoa \in Int
    BY <1>1, <1>2, <2>1, AoaBandIs DEF ByAoa
  <2>3. PICK v : v = AoaVerdict(m.aoa, b)
    OBVIOUS
  <2>4. /\ v = "fast" <=> m.aoa < b.fast
        /\ v = "slow" <=> (~(m.aoa < b.fast) /\ m.aoa > b.slow)
        /\ v \in {"fast", "slightly_fast", "on_speed", "slightly_slow", "slow"}
    <3>1. CASE m.aoa < b.fast
      BY <2>2, <2>3, <3>1 DEF AoaVerdict
    <3>2. CASE b.fast <= m.aoa /\ m.aoa < b.min
      BY <2>2, <2>3, <3>2 DEF AoaVerdict
    <3>3. CASE b.min <= m.aoa /\ m.aoa <= b.max
      BY <2>2, <2>3, <3>3 DEF AoaVerdict
    <3>4. CASE b.max < m.aoa /\ m.aoa <= b.slow
      BY <2>2, <2>3, <3>4 DEF AoaVerdict
    <3>5. CASE b.slow < m.aoa
      BY <2>2, <2>3, <3>5 DEF AoaVerdict
    <3> QED
      BY <2>2, <3>1, <3>2, <3>3, <3>4, <3>5
  <2>5. SpeedFactor(m) = CASE v = "on_speed" -> {}
                           [] v \in {"fast", "slightly_fast"} ->
                                {<<"FAST", IF v = "fast" THEN "major" ELSE "minor">>}
                           [] OTHER -> {<<"SLOW", IF v = "slow" THEN "major" ELSE "minor">>}
    <3>1. m.band # None /\ m.aoa # None /\ ~(m.band = None \/ m.aoa = None)
      BY <1>2 DEF ByAoa
    <3> QED
      BY <2>1, <2>3, <3>1 DEF SpeedFactor
  <2>6. VeryFast(m) <=> v = "fast"
    BY <1>2, <2>1, <2>4 DEF VeryFast
  <2>7. VerySlow(m) <=> v = "slow"
    BY <1>2, <2>1, <2>4 DEF VerySlow
  <2>8. CASE v = "on_speed"
    BY <2>5, <2>6, <2>7, <2>8
  <2>9. CASE v \in {"fast", "slightly_fast"}
    BY <2>5, <2>6, <2>7, <2>9
  <2>10. CASE v \in {"slow", "slightly_slow"}
    BY <2>5, <2>6, <2>7, <2>10
  <2> QED
    BY <2>4, <2>8, <2>9, <2>10
<1>3. CASE ~ByAoa(m)
  <2>1. m.band = None \/ m.aoa = None
    BY <1>3 DEF ByAoa
  <2>2. ~(m.band # None /\ m.aoa # None)
    BY <2>1
  <2>3. CASE m.ratio # None /\ m.ratio > 107
    BY <1>1, <1>3, <2>1, <2>2, <2>3 DEF SpeedFactor, VeryFast, VerySlow
  <2>4. CASE m.ratio # None /\ m.ratio < 93
    BY <1>1, <1>3, <2>1, <2>2, <2>4 DEF SpeedFactor, VeryFast, VerySlow
  <2>5. CASE ~(m.ratio # None /\ m.ratio > 107) /\ ~(m.ratio # None /\ m.ratio < 93)
    BY <1>1, <1>3, <2>1, <2>2, <2>5 DEF SpeedFactor, VeryFast, VerySlow
  <2> QED
    BY <2>3, <2>4, <2>5
<1> QED
  BY <1>2, <1>3

LEMMA SevereAre ==
  ASSUME NEW m \in TrapMeasures, NEW f
  PROVE  f \in Severe(m) <=>
           \/ f = <<"FAST", "major">> /\ VeryFast(m)
           \/ f = <<"SLOW", "major">> /\ VerySlow(m)
           \/ f = <<"HIGH", "major">> /\ m.gs # None /\ m.gs > 30
           \/ f = <<"LOW", "major">> /\ m.gs # None /\ m.gs < -20
           \/ f = <<"OFFLINE", "major">> /\ m.lateral # None /\ m.lateral > 30
           \/ f = <<"BOLTER", "major">> /\ m.bolter
<1>1. f \in SpeedFactor(m) /\ f[2] = "major" <=>
        \/ f = <<"FAST", "major">> /\ VeryFast(m)
        \/ f = <<"SLOW", "major">> /\ VerySlow(m)
  BY SevereSpeed
<1>2. f \in Factors(m) <=>
        \/ f \in SpeedFactor(m)
        \/ f = <<"HIGH", "major">> /\ m.gs # None /\ m.gs > 30
        \/ f = <<"LOW", "major">> /\ m.gs # None /\ m.gs < -20
        \/ f = <<"OFFLINE", "major">> /\ m.lateral # None /\ m.lateral > 30
        \/ f = <<"POWER", "minor">> /\ m.range # None /\ m.range > 80
        \/ f = <<"BOLTER", "major">> /\ m.bolter
  BY DEF Factors
<1>3. f \in Severe(m) <=> f \in Factors(m) /\ f[2] = "major"
  BY DEF Severe
<1>4. /\ f = <<"HIGH", "major">> => f[2] = "major"
      /\ f = <<"LOW", "major">> => f[2] = "major"
      /\ f = <<"OFFLINE", "major">> => f[2] = "major"
      /\ f = <<"BOLTER", "major">> => f[2] = "major"
      /\ f = <<"POWER", "minor">> => f[2] # "major"
  OBVIOUS
<1> QED
  BY <1>1, <1>2, <1>3, <1>4

LEMMA SevereIsFinite ==
  ASSUME NEW m \in TrapMeasures
  PROVE  IsFiniteSet(Severe(m)) /\ Major(m) = Cardinality(Severe(m)) /\ Major(m) \in Nat
<1> DEFINE S == (({<<"FAST", "major">>} \cup {<<"SLOW", "major">>})
                   \cup ({<<"HIGH", "major">>} \cup {<<"LOW", "major">>}))
                  \cup ({<<"OFFLINE", "major">>} \cup {<<"BOLTER", "major">>})
<1>1. \A f : IsFiniteSet({f})
  BY FS_Singleton
<1>2. IsFiniteSet({<<"FAST", "major">>} \cup {<<"SLOW", "major">>})
  BY <1>1, FS_Union
<1>3. IsFiniteSet({<<"HIGH", "major">>} \cup {<<"LOW", "major">>})
  BY <1>1, FS_Union
<1>4. IsFiniteSet({<<"OFFLINE", "major">>} \cup {<<"BOLTER", "major">>})
  BY <1>1, FS_Union
<1>5. IsFiniteSet(({<<"FAST", "major">>} \cup {<<"SLOW", "major">>})
                    \cup ({<<"HIGH", "major">>} \cup {<<"LOW", "major">>}))
  BY <1>2, <1>3, FS_Union
<1>6. IsFiniteSet(S)
  BY <1>4, <1>5, FS_Union
<1>7. Severe(m) \subseteq S
  <2>1. SUFFICES ASSUME NEW f \in Severe(m) PROVE f \in S
    OBVIOUS
  <2> QED
    BY SevereAre
<1> HIDE DEF S
<1>8. IsFiniteSet(Severe(m))
  BY <1>6, <1>7, FS_Subset
<1>9. Major(m) = Cardinality(Severe(m))
  BY DEF Major, Severe
<1> QED
  BY <1>8, <1>9, FS_CardinalityType

\* With one thing flown better nothing severe is added.
LEMMA BetterIsNoMoreSevere ==
  ASSUME NEW m \in TrapMeasures, NEW c \in TrapScored, NEW n \in Better(m, c, Traps)
  PROVE  /\ Severe(n) \subseteq Severe(m)
         /\ n.gs # None /\ n.gs < -45 => m.gs # None /\ m.gs < -45
         /\ n.bolter = m.bolter /\ n \in TrapMeasures
<1>1. /\ n \in TrapMeasures /\ n.band = m.band /\ n.bolter = m.bolter
      /\ Nearer(m, n, c, Best(m)[c])
      /\ \A d \in TrapScored \ {c} : n[d] = m[d]
  BY BetterTrap
<1>2. m.band \in DOMAIN AoaBands \cup {None}
  BY DEF TrapMeasures
<1>3. None \notin Int
  BY MeasureAssumption
<1>4. (c # "gs" => n.gs = m.gs) /\ (c # "lateral" => n.lateral = m.lateral)
      /\ (c # "ratio" => n.ratio = m.ratio) /\ (c # "aoa" => n.aoa = m.aoa)
  BY <1>1 DEF TrapScored
<1>5. CASE c = "gs"
  <2>1. /\ m.gs \in Int /\ n.gs \in Int
        /\ (0 <= n.gs /\ n.gs <= m.gs) \/ (m.gs <= n.gs /\ n.gs <= 0)
    BY <1>1, <1>5 DEF Nearer, Best
  <2>2. (n.gs > 30 => m.gs > 30) /\ (n.gs < -20 => m.gs < -20) /\ (n.gs < -45 => m.gs < -45)
    BY <2>1
  <2>3. m.gs # None /\ n.gs # None
    BY <1>3, <2>1
  <2>4. (VeryFast(n) <=> VeryFast(m)) /\ (VerySlow(n) <=> VerySlow(m))
    BY <1>1, <1>4, <1>5 DEF VeryFast, VerySlow, ByAoa
  <2>5. Severe(n) \subseteq Severe(m)
    <3>1. SUFFICES ASSUME NEW f \in Severe(n) PROVE f \in Severe(m)
      OBVIOUS
    <3> QED
      BY <1>1, <1>4, <1>5, <2>2, <2>3, <2>4, SevereAre
  <2> QED
    BY <1>1, <2>2, <2>3, <2>5
<1>6. CASE c = "lateral"
  <2>1. /\ m.lateral \in Int /\ n.lateral \in Int
        /\ (0 <= n.lateral /\ n.lateral <= m.lateral) \/ (m.lateral <= n.lateral /\ n.lateral <= 0)
    BY <1>1, <1>6 DEF Nearer, Best
  <2>2. n.lateral > 30 => m.lateral > 30
    BY <2>1
  <2>3. m.lateral # None /\ n.lateral # None
    BY <1>3, <2>1
  <2>4. (VeryFast(n) <=> VeryFast(m)) /\ (VerySlow(n) <=> VerySlow(m))
    BY <1>1, <1>4, <1>6 DEF VeryFast, VerySlow, ByAoa
  <2>5. Severe(n) \subseteq Severe(m)
    <3>1. SUFFICES ASSUME NEW f \in Severe(n) PROVE f \in Severe(m)
      OBVIOUS
    <3> QED
      BY <1>1, <1>4, <1>6, <2>2, <2>3, <2>4, SevereAre
  <2> QED
    BY <1>1, <1>4, <1>6, <2>5
<1>7. CASE c = "range"
  <2>4. (VeryFast(n) <=> VeryFast(m)) /\ (VerySlow(n) <=> VerySlow(m))
    BY <1>1, <1>4, <1>7 DEF VeryFast, VerySlow, ByAoa
  <2>5. Severe(n) \subseteq Severe(m)
    <3>1. SUFFICES ASSUME NEW f \in Severe(n) PROVE f \in Severe(m)
      OBVIOUS
    <3> QED
      BY <1>1, <1>4, <1>7, <2>4, SevereAre
  <2> QED
    BY <1>1, <1>4, <1>7, <2>5
<1>8. CASE c = "ratio"
  <2>1. /\ m.ratio \in Int /\ n.ratio \in Int
        /\ (100 <= n.ratio /\ n.ratio <= m.ratio) \/ (m.ratio <= n.ratio /\ n.ratio <= 100)
    BY <1>1, <1>8 DEF Nearer, Best
  <2>2. (n.ratio > 107 => m.ratio > 107) /\ (n.ratio < 93 => m.ratio < 93)
    BY <2>1
  <2>3. m.ratio # None /\ n.ratio # None
    BY <1>3, <2>1
  <2>4. (VeryFast(n) => VeryFast(m)) /\ (VerySlow(n) => VerySlow(m))
    BY <1>1, <1>4, <1>8, <2>2, <2>3 DEF VeryFast, VerySlow, ByAoa
  <2>5. Severe(n) \subseteq Severe(m)
    <3>1. SUFFICES ASSUME NEW f \in Severe(n) PROVE f \in Severe(m)
      OBVIOUS
    <3> QED
      BY <1>1, <1>4, <1>8, <2>4, SevereAre
  <2> QED
    BY <1>1, <1>4, <1>8, <2>5
<1>9. CASE c = "aoa"
  <2>1. m.aoa \in Int /\ n.aoa \in Int
    BY <1>1, <1>9 DEF Nearer
  <2>2. m.aoa # None /\ n.aoa # None
    BY <1>3, <2>1
  <2>4. (VeryFast(n) => VeryFast(m)) /\ (VerySlow(n) => VerySlow(m))
    <3>1. CASE m.band = None
      BY <1>1, <1>4, <1>9, <3>1 DEF VeryFast, VerySlow, ByAoa
    <3>2. CASE m.band # None
      <4>1. PICK b : b = AoaBands[m.band]
        OBVIOUS
      <4>2. /\ b.min \in Int /\ b.max \in Int /\ b.fast \in Int /\ b.slow \in Int
            /\ b.fast < b.min /\ b.min < b.max /\ b.max < b.slow
        BY <1>2, <3>2, <4>1, AoaBandIs
      <4>3. (b.min <= n.aoa /\ n.aoa <= m.aoa) \/ (m.aoa <= n.aoa /\ n.aoa <= b.min)
        BY <1>1, <1>9, <3>2, <4>1 DEF Nearer, Best
      <4>4. /\ n.aoa < b.fast => m.aoa < b.fast
            /\ (~(n.aoa < b.fast) /\ n.aoa > b.slow) => (~(m.aoa < b.fast) /\ m.aoa > b.slow)
        BY <2>1, <4>2, <4>3
      <4>5. ByAoa(m) /\ ByAoa(n)
        BY <1>1, <2>2, <3>2 DEF ByAoa
      <4> QED
        BY <1>1, <4>1, <4>4, <4>5 DEF VeryFast, VerySlow
    <3> QED
      BY <3>1, <3>2
  <2>5. Severe(n) \subseteq Severe(m)
    <3>1. SUFFICES ASSUME NEW f \in Severe(n) PROVE f \in Severe(m)
      OBVIOUS
    <3> QED
      BY <1>1, <1>4, <1>9, <2>4, SevereAre
  <2> QED
    BY <1>1, <1>4, <1>9, <2>5
<1> QED
  BY <1>5, <1>6, <1>7, <1>8, <1>9 DEF TrapScored

\* Nor does the grade drop.
LEMMA BetterLso ==
  ASSUME NEW m \in TrapMeasures, NEW c \in TrapScored, NEW n \in Better(m, c, Traps)
  PROVE  Rank(LsoGrade(m)) <= Rank(LsoGrade(n))
<1> DEFINE Deep(x) == x.gs # None /\ x.gs < -45
           Value(x) == IF x.bolter THEN 0
                       ELSE IF Deep(x) \/ Major(x) >= 3 THEN 1
                       ELSE IF Major(x) = 2 THEN 2 ELSE IF Major(x) = 1 THEN 3 ELSE 4
<1>1. /\ Severe(n) \subseteq Severe(m) /\ (Deep(n) => Deep(m))
      /\ n.bolter = m.bolter /\ n \in TrapMeasures
  BY BetterIsNoMoreSevere
<1>2. /\ IsFiniteSet(Severe(m)) /\ Major(m) = Cardinality(Severe(m)) /\ Major(m) \in Nat
      /\ Major(n) = Cardinality(Severe(n)) /\ Major(n) \in Nat
  BY <1>1, SevereIsFinite
<1>3. Major(n) <= Major(m)
  BY <1>1, <1>2, FS_Subset
<1>4. ASSUME NEW x, Major(x) \in Nat PROVE Rank(LsoGrade(x)) = Value(x)
  <2>1. CASE x.bolter
    BY <2>1 DEF LsoGrade, Rank
  <2>2. CASE ~x.bolter /\ (Deep(x) \/ Major(x) >= 3)
    BY <2>2 DEF LsoGrade, Rank
  <2>3. CASE ~x.bolter /\ ~(Deep(x) \/ Major(x) >= 3) /\ Major(x) = 2
    BY <2>3 DEF LsoGrade, Rank
  <2>4. CASE ~x.bolter /\ ~(Deep(x) \/ Major(x) >= 3) /\ Major(x) = 1
    BY <2>4 DEF LsoGrade, Rank
  <2>5. CASE ~x.bolter /\ ~(Deep(x) \/ Major(x) >= 3) /\ Major(x) # 2 /\ Major(x) # 1
    BY <2>5 DEF LsoGrade, Rank
  <2> QED
    BY <2>1, <2>2, <2>3, <2>4, <2>5
<1> HIDE DEF Deep
<1>5. Value(m) <= Value(n)
  BY <1>1, <1>2, <1>3
<1> QED
  BY <1>2, <1>4, <1>5

----------------------------------------
(* The theorems. *)

\* What was graded is one of the measured landings, over the windows that are
\* still there: an approach is cut before it is measured and measured before it
\* is graded, once.
GradedAshore(m) ==
  /\ windows # None /\ windows.kind = "land"
  /\ result = [m |-> m, scores |-> LandScores(m, windows),
               grade |-> LandGrade(LandScores(m, windows), windows.pattern, windows.max_agl)]
GradedAboard(m) ==
  /\ windows # None /\ windows.kind = "carrier"
  /\ result = [m |-> m, factors |-> Factors(m), grade |-> LsoGrade(m)]
GradedOnce ==
  /\ (windows # None \/ result # None) => legs = None
  /\ result # None => (\E m \in Lands : GradedAshore(m)) \/ (\E m \in Traps : GradedAboard(m))

LEMMA GradedAtFirst == Init => GradedOnce
BY DEF Init, GradedOnce

LEMMA GradedStep ==
  ASSUME GradedOnce, [Next]_vars
  PROVE  GradedOnce'
<1>1. CASE UNCHANGED vars
  BY <1>1 DEF GradedOnce, GradedAshore, GradedAboard, vars
<1>2. ASSUME NEW way \in Ways, Fly(way) PROVE GradedOnce'
  BY <1>2 DEF GradedOnce, Fly, Flying
<1>3. ASSUME NEW profile \in LandProfiles, CutAshore(profile) PROVE GradedOnce'
  BY <1>3 DEF GradedOnce, CutAshore, Flying
<1>4. ASSUME NEW profile \in TrapProfiles, NEW rolls \in BOOLEAN, CutAboard(profile, rolls)
      PROVE  GradedOnce'
  BY <1>4 DEF GradedOnce, CutAboard, Flying
<1>5. ASSUME NEW hint \in {"straight_in", None}, Measure(hint) PROVE GradedOnce'
  <2>1. legs # None /\ legs' = None /\ result' = result
    BY <1>5 DEF Measure
  <2> QED
    BY <2>1 DEF GradedOnce
<1>6. ASSUME NEW m \in Lands, GradeAshore(m) PROVE GradedOnce'
  <2>1. /\ windows # None /\ windows' = windows /\ legs' = legs /\ GradedAshore(m)'
    BY <1>6 DEF GradeAshore, GradedAshore
  <2> QED
    BY <2>1 DEF GradedOnce
<1>7. ASSUME NEW m \in Traps, GradeAboard(m) PROVE GradedOnce'
  <2>1. /\ windows # None /\ windows' = windows /\ legs' = legs /\ GradedAboard(m)'
    BY <1>7 DEF GradeAboard, GradedAboard
  <2> QED
    BY <2>1 DEF GradedOnce
<1> QED
  BY <1>1, <1>2, <1>3, <1>4, <1>5, <1>6, <1>7 DEF Next

LEMMA ScoresAre6 ==
  ASSUME NEW m \in LandMeasures, NEW w
  PROVE  LandScores(m, w) \in Scores6
<1>1. \A c \in Components : LandScores(m, w)[c] \in Measures
  BY ScoresMeasure
<1> QED
  BY <1>1 DEF Scores6, LandScores

LEMMA GradedIsMeasured == GradedOnce => ScoreIsMeasured
<1>1. SUFFICES ASSUME GradedOnce, LandResult, result.grade.score # None
               PROVE  \E worst, best \in {c \in Components : result.scores[c] # None} :
                        /\ result.scores[worst] <= result.grade.score
                        /\ result.grade.score <= result.scores[best]
  BY DEF ScoreIsMeasured
<1>2. PICK m \in Lands : GradedAshore(m)
  BY <1>1 DEF GradedOnce, GradedAboard, LandResult
<1> DEFINE s == LandScores(m, windows)
<1>3. result.scores = s /\ result.grade = LandGrade(s, windows.pattern, windows.max_agl)
  BY <1>2 DEF GradedAshore
<1>4. s \in Scores6
  BY ScoresAre6, MeasureAssumption
<1> HIDE DEF s
<1>5. LandGrade(s, windows.pattern, windows.max_agl).score # None
  BY <1>1, <1>3
<1>6. \E worst, best \in {c \in Components : s[c] # None} :
        /\ s[worst] <= LandGrade(s, windows.pattern, windows.max_agl).score
        /\ LandGrade(s, windows.pattern, windows.max_agl).score <= s[best]
  BY <1>4, <1>5, GradeBetween
<1> QED
  BY <1>3, <1>6

LEMMA GradedIsFair == GradedOnce => BetterIsNotWorse
<1>1. SUFFICES ASSUME GradedOnce PROVE BetterIsNotWorse
  OBVIOUS
<1>2. ASSUME LandResult
      PROVE  \E m \in Lands : GradedAshore(m)
  BY <1>1, <1>2 DEF GradedOnce, GradedAboard, LandResult
<1>3. ASSUME TrapResult
      PROVE  \E m \in Traps : GradedAboard(m)
  BY <1>1, <1>3 DEF GradedOnce, GradedAshore, TrapResult
<1>4. ASSUME LandResult, result.grade.score # None,
             NEW c \in Components \ {"pattern"}, NEW n \in Better(result.m, c, Lands)
      PROVE  result.grade.score
               <= LandGrade(LandScores(n, windows), windows.pattern, windows.max_agl).score
  <2>1. PICK m \in Lands : GradedAshore(m)
    BY <1>2, <1>4
  <2>2. m \in LandMeasures /\ result.m = m /\ c \in Scored
    BY <1>4, <2>1, MeasureAssumption DEF GradedAshore, Components, Scored
  <2>3. n \in LandMeasures
    BY <1>4, <2>2, BetterLanding
  <2> DEFINE s == LandScores(m, windows)
             t == LandScores(n, windows)
  <2>4. s \in Scores6 /\ t \in Scores6
    BY <2>2, <2>3, ScoresAre6
  <2>5. NoLess(s, t)
    BY <1>4, <2>2, BetterScores
  <2>6. result.grade = LandGrade(s, windows.pattern, windows.max_agl)
    BY <2>1 DEF GradedAshore
  <2> HIDE DEF s, t
  <2>7. LandGrade(s, windows.pattern, windows.max_agl).score # None
    BY <1>4, <2>6
  <2>8. LandGrade(s, windows.pattern, windows.max_agl).score
          <= LandGrade(t, windows.pattern, windows.max_agl).score
    BY <2>4, <2>5, <2>7, GradeMore
  <2> QED
    BY <2>6, <2>8 DEF t
<1>5. ASSUME LandResult PROVE NoCliff(result.m.descent_rate, result.m.class)
  <2>1. PICK m \in Lands : GradedAshore(m)
    BY <1>2, <1>5
  <2>2. result.m = m /\ m.descent_rate \in Int /\ m.class \in Classes
    BY <2>1, MeasureAssumption DEF GradedAshore, LandMeasures
  <2> QED
    BY <2>2, DescentHasNoCliff
<1>6. ASSUME TrapResult, NEW c \in {"gs", "lateral", "range", "ratio", "aoa"},
             NEW n \in Better(result.m, c, Traps)
      PROVE  Rank(result.grade) <= Rank(LsoGrade(n))
  <2>1. PICK m \in Traps : GradedAboard(m)
    BY <1>3, <1>6
  <2>2. m \in TrapMeasures /\ result.m = m /\ result.grade = LsoGrade(m) /\ c \in TrapScored
    BY <1>6, <2>1, MeasureAssumption DEF GradedAboard, TrapScored
  <2> QED
    BY <1>6, <2>2, BetterLso
<1> QED
  BY <1>4, <1>5, <1>6 DEF BetterIsNotWorse

LEMMA AlwaysGraded == Spec => []GradedOnce
<1>1. GradedOnce /\ [Next]_vars => GradedOnce'
  BY GradedStep
<1> QED
  BY <1>1, GradedAtFirst, PTL DEF Spec

\* The score of a landing lies between its worst and its best measured
\* component, whatever was measured (weight_sum over `measured').
THEOREM ScoresSpeakOfMeasures == Spec => []ScoreIsMeasured
BY AlwaysGraded, GradedIsMeasured, PTL

\* No landing is graded lower for being flown better in one thing, and the
\* descent rate score has no cliff, for every deviation there can be.
THEOREM FlyingBetterPays == Spec => []BetterIsNotWorse
BY AlwaysGraded, GradedIsFair, PTL

----------------------------------------
(* Approaches: lowest and highest, and what the functions over a track are.*)

LEMMA LowestIs ==
  ASSUME NEW S, S \subseteq Nat, S # {}
  PROVE  Lowest(S) \in S /\ \A y \in S : Lowest(S) <= y
BY Smallest DEF Lowest

LEMMA HighestIs ==
  ASSUME NEW S, S \subseteq Int, S # {}, NEW n \in Int, \A x \in S : x <= n
  PROVE  Highest(S) \in S /\ \A y \in S : y <= Highest(S)
<1> DEFINE Rest == {n - x : x \in S}
<1>1. Rest \subseteq Nat /\ Rest # {}
  <2>1. \A x \in S : n - x \in Nat
    OBVIOUS
  <2> QED
    BY <2>1
<1>2. PICK r \in Rest : \A y \in Rest : r <= y
  BY <1>1, Smallest
<1>3. PICK x \in S : r = n - x
  OBVIOUS
<1>4. ASSUME NEW y \in S PROVE y <= x
  <2>1. n - y \in Rest
    OBVIOUS
  <2>2. n - x <= n - y
    BY <1>2, <1>3, <2>1
  <2> QED
    BY <2>2
<1> QED
  BY <1>4 DEF Highest

\* An approach: its samples in the order they were flown.
IsFlown(s) ==
  /\ \A i \in 1 .. Len(s) : s[i].t \in Int /\ (s[i].ang # None => s[i].ang \in Int)
  /\ \A i, j \in 1 .. Len(s) : i < j => s[i].t < s[j].t

\* The samples chosen so far, after each.
Choosing(s, K) ==
  CHOOSE c : c = [i \in 0 .. Len(s) |-> IF i = 0 THEN <<>>
                                        ELSE IF i \in K THEN Append(c[i - 1], s[i]) ELSE c[i - 1]]
LEMMA ChoosingIs ==
  ASSUME NEW s, Len(s) \in Nat, NEW K
  PROVE  Choosing(s, K) = [i \in 0 .. Len(s) |->
           IF i = 0 THEN <<>>
           ELSE IF i \in K THEN Append(Choosing(s, K)[i - 1], s[i]) ELSE Choosing(s, K)[i - 1]]
<1> DEFINE n == Len(s)
           Then(q, i) == IF i \in K THEN Append(q, s[i]) ELSE q
           Upto(f, k) == f = [i \in 0 .. k |-> IF i = 0 THEN <<>> ELSE Then(f[i - 1], i)]
<1>1. Choosing(s, K) = CHOOSE f : Upto(f, n)
  BY DEF Choosing
<1> HIDE DEF Then
<1>2. \E f : Upto(f, n)
  <2> DEFINE Bad == {k \in 0 .. n : ~\E f : Upto(f, k)}
  <2>1. SUFFICES ASSUME Bad # {} PROVE FALSE
    OBVIOUS
  <2>2. PICK k \in Bad : \A l \in Bad : k <= l
    <3>1. Bad \subseteq Nat
      OBVIOUS
    <3> HIDE DEF Bad
    <3> QED
      BY <2>1, <3>1, Smallest
  <2>3. k # 0
    <3>1. Upto([i \in 0 .. 0 |-> <<>>], 0)
      OBVIOUS
    <3> QED
      BY <2>2, <3>1
  <2>4. PICK f : Upto(f, k - 1)
    BY <2>2, <2>3
  <2> DEFINE g == [i \in 0 .. k |-> IF i = k THEN Then(f[k - 1], k) ELSE f[i]]
  <2>5. k - 1 \in 0 .. k /\ k \in 0 .. n
    BY <2>2, <2>3
  <2>6. ASSUME NEW i \in 0 .. k
        PROVE  g[i] = IF i = 0 THEN <<>> ELSE Then(g[i - 1], i)
    <3>1. CASE i = k
      BY <2>3, <2>5, <3>1
    <3>2. CASE i # k
      <4>1. i \in 0 .. (k - 1) /\ (i # 0 => i - 1 \in 0 .. (k - 1) /\ i - 1 # k)
        BY <2>5, <3>2
      <4>2. f[i] = IF i = 0 THEN <<>> ELSE Then(f[i - 1], i)
        BY <2>4, <4>1
      <4> QED
        BY <3>2, <4>1, <4>2
    <3> QED
      BY <3>1, <3>2
  <2>7. Upto(g, k)
    BY <2>6
  <2> QED
    BY <2>2, <2>7
<1>3. Upto(Choosing(s, K), n)
  BY <1>1, <1>2
<1> QED
  BY <1>3 DEF Then

LEMMA ChosenIs ==
  ASSUME NEW s, NEW K
  PROVE  Chosen(s, K) = Choosing(s, K)[Len(s)]
BY DEF Chosen, Choosing

\* The heading change up to each point of a leg.
LEMMA HeadingsAre ==
  ASSUME NEW leg, Len(leg) \in Nat
  PROVE  Headings(leg) = [i \in 0 .. Len(leg) |->
           IF i < 2 THEN 0 ELSE Headings(leg)[i - 1] + Turn(leg[i - 1], leg[i])]
<1> DEFINE n == Len(leg)
           Then(x, i) == x + Turn(leg[i - 1], leg[i])
           Upto(f, k) == f = [i \in 0 .. k |-> IF i < 2 THEN 0 ELSE Then(f[i - 1], i)]
<1>1. Headings(leg) = CHOOSE f : Upto(f, n)
  BY DEF Headings
<1> HIDE DEF Then
<1>2. \E f : Upto(f, n)
  <2> DEFINE Bad == {k \in 0 .. n : ~\E f : Upto(f, k)}
  <2>1. SUFFICES ASSUME Bad # {} PROVE FALSE
    OBVIOUS
  <2>2. PICK k \in Bad : \A l \in Bad : k <= l
    <3>1. Bad \subseteq Nat
      OBVIOUS
    <3> HIDE DEF Bad
    <3> QED
      BY <2>1, <3>1, Smallest
  <2>3. k >= 2
    <3>1. ASSUME k < 2 PROVE Upto([i \in 0 .. k |-> 0], k)
      BY <2>2, <3>1
    <3> QED
      BY <2>2, <3>1
  <2>4. PICK f : Upto(f, k - 1)
    BY <2>2, <2>3
  <2> DEFINE g == [i \in 0 .. k |-> IF i = k THEN Then(f[k - 1], k) ELSE f[i]]
  <2>5. k - 1 \in 0 .. k /\ k \in 0 .. n
    BY <2>2, <2>3
  <2>6. ASSUME NEW i \in 0 .. k
        PROVE  g[i] = IF i < 2 THEN 0 ELSE Then(g[i - 1], i)
    <3>1. CASE i = k
      BY <2>3, <2>5, <3>1
    <3>2. CASE i # k
      <4>1. i \in 0 .. (k - 1) /\ (~(i < 2) => i - 1 \in 0 .. (k - 1) /\ i - 1 # k)
        BY <2>5, <3>2
      <4>2. f[i] = IF i < 2 THEN 0 ELSE Then(f[i - 1], i)
        BY <2>4, <4>1
      <4> QED
        BY <3>2, <4>1, <4>2
    <3> QED
      BY <3>1, <3>2
  <2>7. Upto(g, k)
    BY <2>6
  <2> QED
    BY <2>2, <2>7
<1>3. Upto(Headings(leg), n)
  BY <1>1, <1>2
<1> QED
  BY <1>3 DEF Then

\* The loop of _turn_runs, after each point.
LEMMA TurningIs ==
  ASSUME NEW tr, Len(tr) \in Nat
  PROVE  Turning(tr) = [i \in 0 .. Len(tr) |->
           IF i < 2 THEN Idle(<<>>) ELSE TurnStep(Turning(tr)[i - 1], tr[i - 1], tr[i])]
<1> DEFINE n == Len(tr)
           Then(w, i) == TurnStep(w, tr[i - 1], tr[i])
           Upto(f, k) == f = [i \in 0 .. k |-> IF i < 2 THEN Idle(<<>>) ELSE Then(f[i - 1], i)]
<1>1. Turning(tr) = CHOOSE f : Upto(f, n)
  BY DEF Turning
<1> HIDE DEF Then
<1>2. \E f : Upto(f, n)
  <2> DEFINE Bad == {k \in 0 .. n : ~\E f : Upto(f, k)}
  <2>1. SUFFICES ASSUME Bad # {} PROVE FALSE
    OBVIOUS
  <2>2. PICK k \in Bad : \A l \in Bad : k <= l
    <3>1. Bad \subseteq Nat
      OBVIOUS
    <3> HIDE DEF Bad
    <3> QED
      BY <2>1, <3>1, Smallest
  <2>3. k >= 2
    <3>1. ASSUME k < 2 PROVE Upto([i \in 0 .. k |-> Idle(<<>>)], k)
      BY <2>2, <3>1
    <3> QED
      BY <2>2, <3>1
  <2>4. PICK f : Upto(f, k - 1)
    <3>1. k - 1 \in 0 .. n /\ ~(k <= k - 1)
      BY <2>2, <2>3
    <3>2. ~(k - 1 \in Bad)
      BY <2>2, <3>1
    <3> HIDE DEF Upto
    <3> QED
      BY <3>1, <3>2
  <2> DEFINE g == [i \in 0 .. k |-> IF i = k THEN Then(f[k - 1], k) ELSE f[i]]
  <2>5. k - 1 \in 0 .. k /\ k \in 0 .. n
    BY <2>2, <2>3
  <2>6. ASSUME NEW i \in 0 .. k
        PROVE  g[i] = IF i < 2 THEN Idle(<<>>) ELSE Then(g[i - 1], i)
    <3>1. CASE i = k
      BY <2>3, <2>5, <3>1
    <3>2. CASE i # k
      <4>1. i \in 0 .. (k - 1) /\ (~(i < 2) => i - 1 \in 0 .. (k - 1) /\ i - 1 # k)
        BY <2>5, <3>2
      <4>2. f[i] = IF i < 2 THEN Idle(<<>>) ELSE Then(f[i - 1], i)
        BY <2>4, <4>1
      <4> QED
        BY <3>2, <4>1, <4>2
    <3> QED
      BY <3>1, <3>2
  <2>7. Upto(g, k)
    BY <2>6
  <2> QED
    BY <2>2, <2>7
<1>3. Upto(Turning(tr), n)
  BY <1>1, <1>2
<1> QED
  BY <1>3 DEF Then

\* The samples chosen from s are those at the indices in K, in their order: e
\* gives the index of each.
Enumerates(e, c, s, K, n) ==
  /\ e \in [1 .. Len(c) -> 1 .. n]
  /\ \A k \in 1 .. Len(c) : e[k] \in K /\ c[k] = s[e[k]]
  /\ \A k, l \in 1 .. Len(c) : k < l => e[k] < e[l]
  /\ \A j \in 1 .. n : j \in K => \E k \in 1 .. Len(c) : e[k] = j

LEMMA EnumeratesMore ==
  ASSUME NEW S, NEW s \in Seq(S), NEW K, NEW c \in Seq(S), NEW i \in 1 .. Len(s),
         NEW e, Enumerates(e, c, s, K, i - 1)
  PROVE  IF i \in K THEN \E f : Enumerates(f, Append(c, s[i]), s, K, i)
                    ELSE Enumerates(e, c, s, K, i)
<1>1. e \in [1 .. Len(c) -> 1 .. (i - 1)] /\ Len(c) \in Nat /\ i \in Nat
  BY DEF Enumerates
<1>2. CASE i \notin K
  <2>1. e \in [1 .. Len(c) -> 1 .. i]
    BY <1>1
  <2>2. ASSUME NEW j \in 1 .. i, j \in K PROVE \E k \in 1 .. Len(c) : e[k] = j
    BY <1>2, <2>2, <1>1 DEF Enumerates
  <2> QED
    BY <1>2, <2>1, <2>2 DEF Enumerates
<1>3. CASE i \in K
  <2> DEFINE n == Len(c) + 1
             d == Append(c, s[i])
             f == [k \in 1 .. n |-> IF k = n THEN i ELSE e[k]]
  <2>1. s[i] \in S
    OBVIOUS
  <2>2. Len(d) = n /\ d[n] = s[i] /\ \A k \in 1 .. Len(c) : d[k] = c[k]
    BY <2>1, AppendProperties
  <2>3. \A k \in 1 .. n : k # n => k \in 1 .. Len(c) /\ f[k] = e[k] /\ e[k] \in 1 .. (i - 1)
    BY <1>1
  <2>4. f[n] = i /\ n \in 1 .. n
    BY <1>1
  <2> HIDE DEF f, d
  <2>5. f \in [1 .. n -> 1 .. i]
    <3>1. f = [k \in 1 .. n |-> IF k = n THEN i ELSE e[k]]
      BY DEF f
    <3>2. \A k \in 1 .. n : f[k] \in 1 .. i
      BY <2>3, <2>4, <1>1
    <3> QED
      BY <3>1, <3>2
  <2>6. \A k \in 1 .. n : f[k] \in K /\ d[k] = s[f[k]]
    <3>1. TAKE k \in 1 .. n
    <3>2. CASE k = n
      BY <3>2, <1>3, <2>2, <2>4
    <3>3. CASE k # n
      BY <3>3, <2>2, <2>3 DEF Enumerates
    <3> QED
      BY <3>2, <3>3
  <2>7. \A k, l \in 1 .. n : k < l => f[k] < f[l]
    <3>1. SUFFICES ASSUME NEW k \in 1 .. n, NEW l \in 1 .. n, k < l PROVE f[k] < f[l]
      OBVIOUS
    <3>2. k # n
      BY <3>1, <1>1
    <3>3. CASE l = n
      BY <3>2, <3>3, <2>3, <2>4, <1>1
    <3>4. CASE l # n
      BY <3>1, <3>2, <3>4, <2>3 DEF Enumerates
    <3> QED
      BY <3>3, <3>4
  <2>8. \A j \in 1 .. i : j \in K => \E k \in 1 .. n : f[k] = j
    <3>1. SUFFICES ASSUME NEW j \in 1 .. i, j \in K PROVE \E k \in 1 .. n : f[k] = j
      OBVIOUS
    <3>2. CASE j = i
      BY <3>2, <2>4
    <3>3. CASE j # i
      <4>1. j \in 1 .. (i - 1)
        BY <3>3, <1>1
      <4>2. PICK k \in 1 .. Len(c) : e[k] = j
        BY <3>1, <4>1 DEF Enumerates
      <4>3. k \in 1 .. n /\ k # n
        BY <1>1
      <4> QED
        BY <4>2, <4>3, <2>3
    <3> QED
      BY <3>2, <3>3
  <2>9. Enumerates(f, d, s, K, i)
    BY <2>2, <2>5, <2>6, <2>7, <2>8 DEF Enumerates
  <2> QED
    BY <1>3, <2>9 DEF d
<1> QED
  BY <1>2, <1>3

LEMMA ChoosingKeeps ==
  ASSUME NEW S, NEW s \in Seq(S), NEW K, NEW i \in 0 .. Len(s)
  PROVE  /\ Choosing(s, K)[i] \in Seq(S)
         /\ \E e : Enumerates(e, Choosing(s, K)[i], s, K, i)
<1> DEFINE c == Choosing(s, K)
           Good(k) == c[k] \in Seq(S) /\ \E e : Enumerates(e, c[k], s, K, k)
           Bad == {k \in 0 .. Len(s) : ~Good(k)}
<1>1. SUFFICES ASSUME Bad # {} PROVE FALSE
  OBVIOUS
<1>2. PICK k \in Bad : \A l \in Bad : k <= l
  <2>1. Bad \subseteq Nat
    OBVIOUS
  <2> HIDE DEF Bad
  <2> QED
    BY <1>1, <2>1, Smallest
<1>3. c = [j \in 0 .. Len(s) |->
             IF j = 0 THEN <<>> ELSE IF j \in K THEN Append(c[j - 1], s[j]) ELSE c[j - 1]]
  BY ChoosingIs
<1> HIDE DEF c
<1>4. k \in 0 .. Len(s) /\ ~Good(k)
  BY <1>2
<1>5. CASE k = 0
  <2>1. c[0] = <<>>
    BY <1>3, <1>4, <1>5
  <2>2. Enumerates(<<>>, <<>>, s, K, 0)
    BY DEF Enumerates
  <2> QED
    BY <1>4, <1>5, <2>1, <2>2
<1>6. CASE k # 0
  <2>1. k - 1 \in 0 .. Len(s) /\ ~(k <= k - 1) /\ k \in 1 .. Len(s)
    BY <1>4, <1>6
  <2>2. Good(k - 1)
    <3>1. ~(k - 1 \in Bad)
      BY <1>2, <2>1
    <3> HIDE DEF Good
    <3> QED
      BY <2>1, <3>1
  <2>3. PICK e : Enumerates(e, c[k - 1], s, K, k - 1)
    BY <2>2
  <2>4. IF k \in K THEN \E f : Enumerates(f, Append(c[k - 1], s[k]), s, K, k)
                   ELSE Enumerates(e, c[k - 1], s, K, k)
    BY <2>1, <2>2, <2>3, EnumeratesMore
  <2>5. c[k] = IF k \in K THEN Append(c[k - 1], s[k]) ELSE c[k - 1]
    BY <1>3, <1>4, <1>6
  <2>6. c[k] \in Seq(S)
    <3>1. s[k] \in S
      BY <2>1
    <3> QED
      BY <2>2, <2>5, <3>1, AppendProperties
  <2>7. CASE k \in K
    BY <2>4, <2>5, <2>6, <2>7, <1>4
  <2>8. CASE k \notin K
    BY <2>4, <2>5, <2>6, <2>8, <1>4
  <2> QED
    BY <2>7, <2>8
<1> QED
  BY <1>5, <1>6

LEMMA ChosenAre ==
  ASSUME NEW S, NEW s \in Seq(S), NEW K
  PROVE  /\ Chosen(s, K) \in Seq(S)
         /\ \E e : Enumerates(e, Chosen(s, K), s, K, Len(s))
BY ChosenIs, ChoosingKeeps

LEMMA ChosenFlown ==
  ASSUME NEW S, NEW s \in Seq(S), NEW K, IsFlown(s)
  PROVE  Chosen(s, K) \in Seq(S) /\ IsFlown(Chosen(s, K))
<1> DEFINE c == Chosen(s, K)
<1>1. c \in Seq(S)
  BY ChosenAre
<1>2. PICK e : Enumerates(e, c, s, K, Len(s))
  BY ChosenAre
<1> HIDE DEF c
<1>3. \A k \in 1 .. Len(c) : c[k].t \in Int /\ (c[k].ang # None => c[k].ang \in Int)
  BY <1>1, <1>2 DEF Enumerates, IsFlown
<1>4. \A k, l \in 1 .. Len(c) : k < l => c[k].t < c[l].t
  <2>1. SUFFICES ASSUME NEW k \in 1 .. Len(c), NEW l \in 1 .. Len(c), k < l
                 PROVE  c[k].t < c[l].t
    OBVIOUS
  <2>2. /\ e[k] \in 1 .. Len(s) /\ e[l] \in 1 .. Len(s) /\ e[k] < e[l]
        /\ c[k] = s[e[k]] /\ c[l] = s[e[l]]
    BY <1>2, <2>1 DEF Enumerates
  <2> QED
    BY <2>2 DEF IsFlown
<1> QED
  BY <1>1, <1>3, <1>4 DEF IsFlown, c

\* What was chosen so far stays.
LEMMA ChoosingGrows ==
  ASSUME NEW S, NEW s \in Seq(S), NEW K, NEW i \in 0 .. Len(s), NEW j \in i .. Len(s)
  PROVE  /\ Len(Choosing(s, K)[i]) <= Len(Choosing(s, K)[j])
         /\ \A k \in 1 .. Len(Choosing(s, K)[i]) : Choosing(s, K)[j][k] = Choosing(s, K)[i][k]
<1> DEFINE c == Choosing(s, K)
           Good(m) == Len(c[i]) <= Len(c[m]) /\ \A k \in 1 .. Len(c[i]) : c[m][k] = c[i][k]
           Bad == {m \in i .. Len(s) : ~Good(m)}
<1>1. SUFFICES ASSUME Bad # {} PROVE FALSE
  OBVIOUS
<1>2. PICK m \in Bad : \A l \in Bad : m <= l
  <2>1. Bad \subseteq Nat
    OBVIOUS
  <2> HIDE DEF Bad
  <2> QED
    BY <1>1, <2>1, Smallest
<1>3. c = [n \in 0 .. Len(s) |->
             IF n = 0 THEN <<>> ELSE IF n \in K THEN Append(c[n - 1], s[n]) ELSE c[n - 1]]
  BY ChoosingIs
<1>4. \A n \in 0 .. Len(s) : c[n] \in Seq(S)
  BY ChoosingKeeps
<1> HIDE DEF c
<1>5. m \in i .. Len(s) /\ ~Good(m)
  BY <1>2
<1>6. CASE m = i
  <2>1. Len(c[i]) \in Nat
    BY <1>4
  <2> QED
    BY <1>5, <1>6, <2>1
<1>7. CASE m # i
  <2>1. m - 1 \in i .. Len(s) /\ ~(m <= m - 1) /\ m \in 1 .. Len(s) /\ m - 1 \in 0 .. Len(s) /\ m \in 0 .. Len(s)
    BY <1>5, <1>7
  <2>2. Good(m - 1)
    <3>1. ~(m - 1 \in Bad)
      BY <1>2, <2>1
    <3> HIDE DEF Good
    <3> QED
      BY <2>1, <3>1
  <2>3. c[m] = IF m \in K THEN Append(c[m - 1], s[m]) ELSE c[m - 1]
    <3>1. m # 0
      BY <2>1
    <3> QED
      BY <1>3, <2>1, <3>1
  <2>4. c[m - 1] \in Seq(S) /\ s[m] \in S /\ c[i] \in Seq(S)
    BY <1>4, <2>1
  <2>5. Len(c[m - 1]) <= Len(c[m]) /\ \A k \in 1 .. Len(c[m - 1]) : c[m][k] = c[m - 1][k]
    BY <2>3, <2>4, AppendProperties
  <2>6. Len(c[m]) \in Nat /\ Len(c[m - 1]) \in Nat /\ Len(c[i]) \in Nat
    BY <1>4, <2>1
  <2> QED
    BY <1>5, <2>2, <2>5, <2>6
<1> QED
  BY <1>6, <1>7

\* Choosing from the beginning of a sequence.
LEMMA ChoosingFirst ==
  ASSUME NEW S, NEW s \in Seq(S), NEW n \in 0 .. Len(s), NEW K, NEW L,
         \A j \in 1 .. n : j \in K <=> j \in L, NEW i \in 0 .. n
  PROVE  Choosing(SubSeq(s, 1, n), L)[i] = Choosing(s, K)[i]
<1> DEFINE u == SubSeq(s, 1, n)
           c == Choosing(s, K)
           d == Choosing(u, L)
           Bad == {m \in 0 .. n : d[m] # c[m]}
<1>1. u \in Seq(S) /\ Len(u) = n /\ \A j \in 1 .. n : u[j] = s[j]
  BY SubSeqProperties
<1>2. SUFFICES ASSUME Bad # {} PROVE FALSE
  OBVIOUS
<1>3. PICK m \in Bad : \A l \in Bad : m <= l
  <2>1. Bad \subseteq Nat
    OBVIOUS
  <2> HIDE DEF Bad
  <2> QED
    BY <1>2, <2>1, Smallest
<1>4. c = [j \in 0 .. Len(s) |->
             IF j = 0 THEN <<>> ELSE IF j \in K THEN Append(c[j - 1], s[j]) ELSE c[j - 1]]
  BY ChoosingIs
<1>5. d = [j \in 0 .. n |->
             IF j = 0 THEN <<>> ELSE IF j \in L THEN Append(d[j - 1], u[j]) ELSE d[j - 1]]
  BY <1>1, ChoosingIs
<1> HIDE DEF c, d, u
<1>6. CASE m = 0
  BY <1>3, <1>4, <1>5, <1>6
<1>7. CASE m # 0
  <2>1. m \in 1 .. n /\ m - 1 \in 0 .. n /\ ~(m <= m - 1) /\ m \in 0 .. Len(s) /\ m \in 0 .. n
    BY <1>3, <1>7
  <2>2. d[m - 1] = c[m - 1]
    BY <1>3, <2>1
  <2>3. c[m] = IF m \in K THEN Append(c[m - 1], s[m]) ELSE c[m - 1]
    BY <1>4, <2>1, <1>7
  <2>4. d[m] = IF m \in L THEN Append(d[m - 1], u[m]) ELSE d[m - 1]
    BY <1>5, <2>1, <1>7
  <2> QED
    BY <1>1, <1>3, <2>1, <2>2, <2>3, <2>4
<1> QED
  BY <1>6, <1>7

LEMMA ChosenFirst ==
  ASSUME NEW S, NEW s \in Seq(S), NEW n \in 0 .. Len(s), NEW K, NEW L,
         \A j \in 1 .. n : j \in K <=> j \in L
  PROVE  LET c == Chosen(s, K)
             d == Chosen(SubSeq(s, 1, n), L)
         IN  d \in Seq(S) /\ Len(d) <= Len(c) /\ \A k \in 1 .. Len(d) : d[k] = c[k]
<1>1. Len(SubSeq(s, 1, n)) = n
  BY SubSeqProperties
<1>2. n \in 0 .. n /\ Len(s) \in n .. Len(s) /\ Len(s) \in 0 .. Len(s)
  OBVIOUS
<1>3. Chosen(SubSeq(s, 1, n), L) = Choosing(s, K)[n]
  <2>1. Chosen(SubSeq(s, 1, n), L) = Choosing(SubSeq(s, 1, n), L)[n]
    BY <1>1, ChosenIs
  <2> QED
    BY <1>2, <2>1, ChoosingFirst
<1>4. Choosing(s, K)[n] \in Seq(S)
  BY ChoosingKeeps
<1> QED
  BY <1>2, <1>3, <1>4, ChosenIs, ChoosingGrows

\* Choosing the beginning itself.
LEMMA ChosenBegin ==
  ASSUME NEW S, NEW s \in Seq(S), NEW n \in 0 .. Len(s), NEW K,
         \A j \in 1 .. Len(s) : j \in K <=> j <= n
  PROVE  Chosen(s, K) = SubSeq(s, 1, n)
<1> DEFINE c == Chosen(s, K)
<1>1. c \in Seq(S)
  BY ChosenAre
<1>2. PICK e : Enumerates(e, c, s, K, Len(s))
  BY ChosenAre
<1> HIDE DEF c
<1>3. e \in [1 .. Len(c) -> 1 .. Len(s)] /\ Len(c) \in Nat /\ Len(s) \in Nat
  BY <1>1, <1>2 DEF Enumerates
\* A first index that is not its own place would skip one that is chosen.
<1>4. \A k \in 1 .. Len(c) : e[k] = k
  <2> DEFINE Bad == {k \in 1 .. Len(c) : e[k] # k}
  <2>1. SUFFICES ASSUME Bad # {} PROVE FALSE
    OBVIOUS
  <2>2. PICK k \in Bad : \A l \in Bad : k <= l
    <3>1. Bad \subseteq Nat
      OBVIOUS
    <3> HIDE DEF Bad
    <3> QED
      BY <2>1, <3>1, Smallest
  <2>3. k \in 1 .. Len(c) /\ e[k] # k /\ e[k] \in 1 .. Len(s) /\ e[k] <= n
    BY <1>2, <1>3, <2>2 DEF Enumerates
  <2>4. \A l \in 1 .. Len(c) : l < k => e[l] = l
    BY <1>3, <2>2
  <2>5. CASE e[k] < k
    <3>1. e[k] \in 1 .. Len(c) /\ e[e[k]] = e[k]
      BY <1>3, <2>3, <2>4, <2>5
    <3>2. e[e[k]] < e[k]
      BY <1>2, <2>3, <2>5, <3>1 DEF Enumerates
    <3> QED
      BY <2>3, <3>1, <3>2
  <2>6. CASE e[k] > k
    <3>1. k \in 1 .. Len(s) /\ k <= n
      BY <1>3, <2>3, <2>6
    <3>2. PICK l \in 1 .. Len(c) : e[l] = k
      BY <1>2, <3>1 DEF Enumerates
    <3>3. CASE l < k
      BY <2>4, <3>2, <3>3
    <3>4. CASE l = k
      BY <2>3, <3>2, <3>4
    <3>5. CASE l > k
      <4>1. e[k] < e[l]
        BY <1>2, <2>3, <3>5 DEF Enumerates
      <4> QED
        BY <2>3, <2>6, <3>2, <4>1
    <3> QED
      BY <1>3, <2>3, <3>3, <3>4, <3>5
  <2> QED
    BY <1>3, <2>3, <2>5, <2>6
<1>5. Len(c) = n
  <2>1. ASSUME Len(c) < n PROVE FALSE
    <3>1. n \in 1 .. Len(s) /\ n \in K
      BY <1>3, <2>1
    <3>2. PICK l \in 1 .. Len(c) : e[l] = n
      BY <1>2, <3>1 DEF Enumerates
    <3> QED
      BY <1>3, <1>4, <2>1, <3>2
  <2>2. ASSUME Len(c) > n PROVE FALSE
    <3>1. Len(c) \in 1 .. Len(c) /\ e[Len(c)] = Len(c)
      BY <1>3, <1>4, <2>2
    <3>2. Len(c) \in 1 .. Len(s) /\ Len(c) \in K
      BY <1>2, <1>3, <3>1 DEF Enumerates
    <3> QED
      BY <1>3, <2>2, <3>2
  <2> QED
    BY <1>3, <2>1, <2>2
<1>6. \A k \in 1 .. n : c[k] = s[k]
  BY <1>2, <1>4, <1>5 DEF Enumerates
<1> DEFINE u == SubSeq(s, 1, n)
<1>7. u \in Seq(S) /\ Len(u) = n /\ \A j \in 1 .. n : u[j] = s[j]
  BY SubSeqProperties
<1> HIDE DEF u
<1>8. c = u
  BY <1>1, <1>5, <1>6, <1>7, SeqEqual
<1> QED
  BY <1>8 DEF c, u

\* A part of a sequence.
LEMMA PartIs ==
  ASSUME NEW S, NEW s \in Seq(S), NEW m \in Nat, NEW n \in Nat, 1 <= m, m <= n + 1, n <= Len(s)
  PROVE  /\ SubSeq(s, m, n) \in Seq(S) /\ Len(SubSeq(s, m, n)) = n - m + 1
         /\ \A i \in 1 .. (n - m + 1) : /\ m + i - 1 \in 1 .. Len(s)
                                        /\ SubSeq(s, m, n)[i] = s[m + i - 1]
<1>1. Len(s) \in Nat
  OBVIOUS
<1>2. \A i \in m .. n : s[i] \in S
  BY <1>1
<1>3. \A i \in 1 .. (n - m + 1) : m + i - 1 \in 1 .. Len(s)
  BY <1>1
<1> QED
  BY <1>2, <1>3, SubSeqProperties

\* Track points: samples in the order flown that all have a direction.
IsTracked(tr) ==
  IsFlown(tr) /\ \A i \in 1 .. Len(tr) : tr[i].ang \in Int

LEMMA PartTracked ==
  ASSUME NEW S, NEW tr \in Seq(S), IsTracked(tr), NEW m \in Nat, NEW n \in Nat,
         1 <= m, m <= n + 1, n <= Len(tr)
  PROVE  SubSeq(tr, m, n) \in Seq(S) /\ IsTracked(SubSeq(tr, m, n))
<1> DEFINE u == SubSeq(tr, m, n)
<1>1. u \in Seq(S) /\ Len(u) = n - m + 1
      /\ \A i \in 1 .. (n - m + 1) : m + i - 1 \in 1 .. Len(tr) /\ u[i] = tr[m + i - 1]
  BY PartIs
<1> HIDE DEF u
<1>2. ASSUME NEW i \in 1 .. Len(u), NEW j \in 1 .. Len(u), i < j PROVE u[i].t < u[j].t
  <2>1. m + i - 1 < m + j - 1
    BY <1>1, <1>2
  <2> QED
    BY <1>1, <2>1 DEF IsTracked, IsFlown
<1> QED
  BY <1>1, <1>2 DEF IsTracked, IsFlown, u

LEMMA PartFlown ==
  ASSUME NEW S, NEW s \in Seq(S), IsFlown(s), NEW m \in Nat, NEW n \in Nat,
         1 <= m, m <= n + 1, n <= Len(s)
  PROVE  SubSeq(s, m, n) \in Seq(S) /\ IsFlown(SubSeq(s, m, n))
<1> DEFINE u == SubSeq(s, m, n)
<1>1. u \in Seq(S) /\ Len(u) = n - m + 1
      /\ \A i \in 1 .. (n - m + 1) : m + i - 1 \in 1 .. Len(s) /\ u[i] = s[m + i - 1]
  BY PartIs
<1> HIDE DEF u
<1>2. ASSUME NEW i \in 1 .. Len(u), NEW j \in 1 .. Len(u), i < j PROVE u[i].t < u[j].t
  <2>1. m + i - 1 < m + j - 1
    BY <1>1, <1>2
  <2> QED
    BY <1>1, <2>1 DEF IsFlown
<1> QED
  BY <1>1, <1>2 DEF IsFlown, u

\* What the track points of an approach are.
LEMMA TrackIs ==
  ASSUME NEW S, NEW s \in Seq(S), IsFlown(s)
  PROVE  /\ Track(s) \in Seq(S) /\ IsTracked(Track(s))
         /\ \A k \in 1 .. Len(Track(s)) : \E i \in 1 .. Len(s) : Track(s)[k] = s[i]
         /\ \A i \in 1 .. Len(s) : s[i].ang # None =>
              \E k \in 1 .. Len(Track(s)) : Track(s)[k] = s[i]
<1> DEFINE K == {i \in DOMAIN s : s[i].ang # None}
           c == Chosen(s, K)
<1>1. c \in Seq(S) /\ IsFlown(c)
  BY ChosenFlown
<1>2. PICK e : Enumerates(e, c, s, K, Len(s))
  BY ChosenAre
<1>3. c = Track(s)
  BY DEF Track
<1>4. \A i \in 1 .. Len(s) : s[i].ang # None => i \in K
  OBVIOUS
<1>5. \A i \in K : s[i].ang # None
  OBVIOUS
<1> HIDE DEF c, K
<1>6. \A k \in 1 .. Len(c) : e[k] \in 1 .. Len(s) /\ e[k] \in K /\ c[k] = s[e[k]]
  BY <1>2 DEF Enumerates
<1>7. \A k \in 1 .. Len(c) : c[k].ang \in Int
  BY <1>5, <1>6 DEF IsFlown
<1>8. \A i \in 1 .. Len(s) : i \in K => \E k \in 1 .. Len(c) : c[k] = s[i]
  <2>1. TAKE i \in 1 .. Len(s)
  <2>2. SUFFICES ASSUME i \in K PROVE \E k \in 1 .. Len(c) : c[k] = s[i]
    OBVIOUS
  <2>3. PICK k \in 1 .. Len(c) : e[k] = i
    BY <1>2, <2>2 DEF Enumerates
  <2> QED
    BY <1>6, <2>3
<1> QED
  BY <1>1, <1>3, <1>4, <1>6, <1>7, <1>8 DEF IsTracked

\* The samples since a time, and those within two.
LEMMA SinceIs ==
  ASSUME NEW S, NEW s \in Seq(S), IsFlown(s), NEW from
  PROVE  /\ Since(s, from) \in Seq(S) /\ IsFlown(Since(s, from))
         /\ \A k \in 1 .. Len(Since(s, from)) :
              /\ Since(s, from)[k].t >= from
              /\ \E i \in 1 .. Len(s) : Since(s, from)[k] = s[i]
         /\ \A i \in 1 .. Len(s) : s[i].t >= from =>
              \E k \in 1 .. Len(Since(s, from)) : Since(s, from)[k] = s[i]
<1> DEFINE K == {i \in DOMAIN s : s[i].t >= from}
           c == Chosen(s, K)
<1>1. c \in Seq(S) /\ IsFlown(c)
  BY ChosenFlown
<1>2. PICK e : Enumerates(e, c, s, K, Len(s))
  BY ChosenAre
<1>3. c = Since(s, from)
  BY DEF Since
<1>4. \A i \in 1 .. Len(s) : s[i].t >= from => i \in K
  OBVIOUS
<1>5. \A i \in K : s[i].t >= from
  OBVIOUS
<1> HIDE DEF c, K
<1>6. \A k \in 1 .. Len(c) : e[k] \in 1 .. Len(s) /\ e[k] \in K /\ c[k] = s[e[k]]
  BY <1>2 DEF Enumerates
<1>7. \A k \in 1 .. Len(c) : c[k].t >= from
  BY <1>5, <1>6
<1>8. \A i \in 1 .. Len(s) : i \in K => \E k \in 1 .. Len(c) : c[k] = s[i]
  <2>1. TAKE i \in 1 .. Len(s)
  <2>2. SUFFICES ASSUME i \in K PROVE \E k \in 1 .. Len(c) : c[k] = s[i]
    OBVIOUS
  <2>3. PICK k \in 1 .. Len(c) : e[k] = i
    BY <1>2, <2>2 DEF Enumerates
  <2> QED
    BY <1>6, <2>3
<1> QED
  BY <1>1, <1>3, <1>4, <1>6, <1>7, <1>8

LEMMA WithinIs ==
  ASSUME NEW S, NEW s \in Seq(S), IsFlown(s), NEW from, NEW to
  PROVE  /\ Within(s, from, to) \in Seq(S) /\ IsFlown(Within(s, from, to))
         /\ \A k \in 1 .. Len(Within(s, from, to)) :
              from <= Within(s, from, to)[k].t /\ Within(s, from, to)[k].t <= to
<1> DEFINE K == {i \in DOMAIN s : from <= s[i].t /\ s[i].t <= to}
           c == Chosen(s, K)
<1>1. c \in Seq(S) /\ IsFlown(c)
  BY ChosenFlown
<1>2. PICK e : Enumerates(e, c, s, K, Len(s))
  BY ChosenAre
<1>3. c = Within(s, from, to)
  BY DEF Within
<1>4. \A i \in K : from <= s[i].t /\ s[i].t <= to
  OBVIOUS
<1> HIDE DEF c, K
<1>5. \A k \in 1 .. Len(c) : e[k] \in K /\ c[k] = s[e[k]]
  BY <1>2 DEF Enumerates
<1> QED
  BY <1>1, <1>3, <1>4, <1>5

LEMMA TurnIs ==
  ASSUME NEW p, NEW q, p.ang \in Int, q.ang \in Int
  PROVE  Turn(p, q) \in Int
<1>1. Circle \in Nat \ {0}
  BY CircleAssumption
<1>2. q.ang - p.ang + Circle \div 2 \in Int
  BY <1>1
<1>3. (q.ang - p.ang + Circle \div 2) % Circle \in Int
  BY <1>1, <1>2
<1> QED
  BY <1>1, <1>3 DEF Turn, Wrap

\* The headings of a leg, of a part of it and of one point more.
LEMMA HeadingsStart ==
  ASSUME NEW leg, Len(leg) \in Nat
  PROVE  /\ Headings(leg)[0] = 0
         /\ Len(leg) >= 1 => Headings(leg)[1] = 0
         /\ \A i \in 2 .. Len(leg) :
              Headings(leg)[i] = Headings(leg)[i - 1] + Turn(leg[i - 1], leg[i])
<1>1. \A i \in 0 .. Len(leg) : Headings(leg)[i] =
        IF i < 2 THEN 0 ELSE Headings(leg)[i - 1] + Turn(leg[i - 1], leg[i])
  BY HeadingsAre
<1> QED
  BY <1>1

LEMMA HeadingsInt ==
  ASSUME NEW S, NEW leg \in Seq(S), IsTracked(leg), NEW i \in 0 .. Len(leg)
  PROVE  Headings(leg)[i] \in Int
<1> DEFINE Bad == {m \in 0 .. Len(leg) : Headings(leg)[m] \notin Int}
<1>1. SUFFICES ASSUME Bad # {} PROVE FALSE
  OBVIOUS
<1>2. PICK m \in Bad : \A l \in Bad : m <= l
  <2>1. Bad \subseteq Nat
    OBVIOUS
  <2> HIDE DEF Bad
  <2> QED
    BY <1>1, <2>1, Smallest
<1>3. Len(leg) \in Nat
  OBVIOUS
<1>4. m \in 2 .. Len(leg)
  BY <1>2, <1>3, HeadingsStart
<1>5. m - 1 \in 0 .. Len(leg) /\ ~(m <= m - 1) /\ m - 1 \in 1 .. Len(leg) /\ m \in 1 .. Len(leg)
  BY <1>3, <1>4
<1>6. Headings(leg)[m - 1] \in Int
  BY <1>2, <1>5
<1>7. Turn(leg[m - 1], leg[m]) \in Int
  BY <1>5, TurnIs DEF IsTracked
<1> QED
  BY <1>2, <1>3, <1>4, <1>6, <1>7, HeadingsStart

LEMMA HeadingsOfPart ==
  ASSUME NEW S, NEW leg \in Seq(S), IsTracked(leg), NEW m \in Nat, NEW n \in Nat,
         1 <= m, m <= n, n <= Len(leg), NEW i \in 1 .. (n - m + 1)
  PROVE  /\ m + i - 1 \in 1 .. Len(leg)
         /\ Headings(SubSeq(leg, m, n))[i] = Headings(leg)[m + i - 1] - Headings(leg)[m]
<1> DEFINE u == SubSeq(leg, m, n)
           h == Headings(leg)
           g == Headings(u)
           Bad == {k \in 1 .. (n - m + 1) : g[k] # h[m + k - 1] - h[m]}
<1>1. u \in Seq(S) /\ Len(u) = n - m + 1
      /\ \A k \in 1 .. (n - m + 1) : m + k - 1 \in 1 .. Len(leg) /\ u[k] = leg[m + k - 1]
  BY PartIs
<1>2. Len(leg) \in Nat /\ Len(u) \in Nat
  BY <1>1
<1>3. \A k \in 2 .. Len(u) : g[k] = g[k - 1] + Turn(u[k - 1], u[k])
  BY <1>2, HeadingsStart
<1>4. \A k \in 2 .. Len(leg) : h[k] = h[k - 1] + Turn(leg[k - 1], leg[k])
  BY <1>2, HeadingsStart
<1>5. g[1] = 0
  <2>1. Len(u) >= 1
    BY <1>1
  <2> QED
    BY <1>2, <2>1, HeadingsStart
<1>6. \A k \in 1 .. Len(leg) : h[k] \in Int
  BY HeadingsInt
<1>7. SUFFICES ASSUME Bad # {} PROVE FALSE
  BY <1>1
<1>8. PICK k \in Bad : \A l \in Bad : k <= l
  <2>1. Bad \subseteq Nat
    OBVIOUS
  <2> HIDE DEF Bad
  <2> QED
    BY <1>7, <2>1, Smallest
<1> HIDE DEF u, h, g
<1>9. k \in 1 .. (n - m + 1) /\ g[k] # h[m + k - 1] - h[m]
  BY <1>8
<1>10. CASE k = 1
  <2>1. h[m] \in Int /\ m + 1 - 1 = m
    BY <1>2, <1>6
  <2> QED
    BY <1>5, <1>9, <1>10, <2>1
<1>11. CASE k # 1
  <2>1. /\ k - 1 \in 1 .. (n - m + 1) /\ ~(k <= k - 1) /\ k \in 2 .. Len(u)
        /\ m + k - 1 \in 2 .. Len(leg) /\ m + (k - 1) - 1 = (m + k - 1) - 1
        /\ (m + k - 1) - 1 \in 1 .. Len(leg)
    BY <1>1, <1>2, <1>9, <1>11
  <2>2. g[k - 1] = h[(m + k - 1) - 1] - h[m]
    BY <1>8, <2>1
  <2>3. u[k - 1] = leg[(m + k - 1) - 1] /\ u[k] = leg[m + k - 1]
    BY <1>1, <1>9, <2>1
  <2>4. g[k] = g[k - 1] + Turn(u[k - 1], u[k])
    BY <1>3, <2>1
  <2>5. h[m + k - 1] = h[(m + k - 1) - 1] + Turn(leg[(m + k - 1) - 1], leg[m + k - 1])
    BY <1>4, <2>1
  <2>6. Turn(leg[(m + k - 1) - 1], leg[m + k - 1]) \in Int
    <3>1. m + k - 1 \in 1 .. Len(leg)
      BY <2>1
    <3> QED
      BY <2>1, <3>1, TurnIs DEF IsTracked
  <2>7. h[(m + k - 1) - 1] \in Int /\ h[m] \in Int
    BY <1>2, <1>6, <2>1
  <2> HIDE DEF Bad
  <2> QED
    BY <1>9, <2>2, <2>3, <2>4, <2>5, <2>6, <2>7
<1> QED
  BY <1>10, <1>11

LEMMA HeadingsMore ==
  ASSUME NEW S, NEW leg \in Seq(S), leg # <<>>, NEW q \in S, IsTracked(Append(leg, q))
  PROVE  LET g == Headings(Append(leg, q))
             n == Len(leg)
         IN  /\ \A i \in 1 .. n : g[i] = Headings(leg)[i]
             /\ g[n + 1] = Headings(leg)[n] + Turn(leg[n], q)
<1> DEFINE n == Len(leg)
           more == Append(leg, q)
<1>1. n \in Nat /\ n >= 1
  OBVIOUS
<1>2. more \in Seq(S) /\ Len(more) = n + 1 /\ more[n + 1] = q
      /\ \A i \in 1 .. n : more[i] = leg[i]
  BY AppendProperties
<1> HIDE DEF more
<1>3. SubSeq(more, 1, n) = leg
  <2>1. /\ SubSeq(more, 1, n) \in Seq(S) /\ Len(SubSeq(more, 1, n)) = n
        /\ \A i \in 1 .. n : SubSeq(more, 1, n)[i] = more[i]
    <3>1. n - 1 + 1 = n /\ \A i \in 1 .. n : 1 + i - 1 = i
      BY <1>1
    <3> QED
      BY <1>1, <1>2, <3>1, PartIs
  <2>2. \A i \in 1 .. n : SubSeq(more, 1, n)[i] = leg[i]
    BY <1>2, <2>1
  <2> QED
    BY <2>1, <2>2, SeqEqual
<1>4. Headings(more)[1] = 0
  BY <1>1, <1>2, HeadingsStart
<1>5. ASSUME NEW i \in 1 .. n PROVE Headings(more)[i] = Headings(leg)[i]
  <2>1. IsTracked(more)
    BY DEF more
  <2>2. i \in 1 .. (n - 1 + 1) /\ 1 + i - 1 = i /\ i \in 1 .. Len(more)
    BY <1>1, <1>2, <1>5
  <2>3. 1 \in Nat /\ 1 <= 1 /\ 1 <= n /\ n <= Len(more)
    BY <1>1, <1>2
  <2>4. Headings(SubSeq(more, 1, n))[i] = Headings(more)[1 + i - 1] - Headings(more)[1]
    BY <1>1, <1>2, <2>1, <2>2, <2>3, HeadingsOfPart
  <2>5. Headings(more)[i] \in Int
    <3>1. i \in 0 .. Len(more)
      BY <2>2
    <3> QED
      BY <1>2, <2>1, <3>1, HeadingsInt
  <2>6. Headings(leg)[i] = Headings(more)[i] - 0
    BY <1>3, <1>4, <2>2, <2>4
  <2> QED
    BY <2>5, <2>6
<1>6. Headings(more)[n + 1] = Headings(more)[n] + Turn(more[n], more[n + 1])
  <2>1. n + 1 \in 2 .. Len(more) /\ Len(more) \in Nat /\ (n + 1) - 1 = n
    BY <1>1, <1>2
  <2> QED
    BY <2>1, HeadingsStart
<1>7. n \in 1 .. n
  BY <1>1
<1> QED
  BY <1>2, <1>5, <1>6, <1>7 DEF more

----------------------------------------
(* One turn. A run turned at its first two points and wherever it was *)
(* entered by a turn; from then on it may have drifted, which is bounded *)
(* by how long it may fly straight. *)

TurnedAt(r, k) == k <= 2 \/ ~Slow(r[k - 1], r[k])
SlowFrom(r, i, j) == \A k \in i .. (j - 1) : Slow(r[k], r[k + 1])
CutOff(r, tr) == \E x \in DOMAIN tr : r[1].t < tr[x].t /\ tr[x].t < r[2].t
OneWay(r, way) ==
  \A i, j \in 1 .. Len(r) : i < j /\ TurnedAt(r, i) /\ TurnedAt(r, j) =>
    way * (Headings(r)[j] - Headings(r)[i]) >= -ReverseTolerance
Straight(r, tr) ==
  \A i, j \in 1 .. Len(r) : i < j /\ SlowFrom(r, i, j) =>
    r[j].t - r[i].t <= StraightTolerance \/ (i = 1 /\ CutOff(r, tr))
DriftAt(r, i) == IF i > 1 /\ ~Slow(r[i - 1], r[i]) THEN 0 ELSE TurnRate * StraightTolerance
Comes(r, way) ==
  \A i, j \in 1 .. Len(r) : i < j =>
    way * (Headings(r)[j] - Headings(r)[i]) >= -(ReverseTolerance + DriftAt(r, i) + DriftAt(r, j))
FlownIn(r, tr) == \A k \in 1 .. Len(r) : \E i \in 1 .. Len(tr) : r[k] = tr[i]
IsOneTurn(r, tr) ==
  /\ IsTracked(r) /\ FlownIn(r, tr) /\ Straight(r, tr)
  /\ \E way \in {-1, 1} : Comes(r, way)

LEMMA TimesInt ==
  ASSUME NEW a \in Int, NEW b \in Int
  PROVE  a * b \in Int /\ (a >= 0 /\ b >= 0 => a * b \in Nat)
OBVIOUS

LEMMA TimesSpread ==
  ASSUME NEW x \in Int, NEW a \in Int, NEW b \in Int, NEW c \in Int
  PROVE  x * (c - a) = x * (c - b) + x * (b - a)
OBVIOUS

LEMMA LessOff ==
  ASSUME NEW x \in Int, NEW e \in Int, NEW p \in Int, NEW p2 \in Int, NEW q \in Int, NEW q2 \in Int,
         x >= -(e + p + q), p <= p2, q <= q2
  PROVE  x >= -(e + p2 + q2)
OBVIOUS

\* A heading change counted the way of the turn, or against it.
LEMMA WayIs ==
  ASSUME NEW way \in {-1, 1}, NEW x \in Int
  PROVE  way * x \in Int /\ (way = 1 => way * x = x) /\ (way = -1 => way * x = -x)
OBVIOUS

\* Part of a turn is a turn.
LEMMA PartIsTurn ==
  ASSUME NEW S, NEW tr \in Seq(S), NEW r \in Seq(S), IsOneTurn(r, tr),
         NEW m \in Nat, NEW n \in Nat, 1 <= m, m <= n, n <= Len(r)
  PROVE  /\ SubSeq(r, m, n) \in Seq(S) /\ Len(SubSeq(r, m, n)) = n - m + 1
         /\ IsOneTurn(SubSeq(r, m, n), tr)
<1> DEFINE u == SubSeq(r, m, n)
           h == Headings(r)
           g == Headings(u)
<1>1. /\ u \in Seq(S) /\ Len(u) = n - m + 1
      /\ \A k \in 1 .. (n - m + 1) : m + k - 1 \in 1 .. Len(r) /\ u[k] = r[m + k - 1]
  BY PartIs
<1>2. IsTracked(u)
  BY PartTracked DEF IsOneTurn
<1>3. \A k \in 1 .. (n - m + 1) : g[k] = h[m + k - 1] - h[m]
  BY HeadingsOfPart DEF IsOneTurn
<1>4. \A k \in 1 .. Len(r) : h[k] \in Int
  BY HeadingsInt DEF IsOneTurn
<1> HIDE DEF u, h, g
<1>5. FlownIn(u, tr)
  BY <1>1 DEF IsOneTurn, FlownIn
<1>6. Straight(u, tr)
  <2>1. SUFFICES ASSUME NEW i \in 1 .. Len(u), NEW j \in 1 .. Len(u), i < j, SlowFrom(u, i, j)
                 PROVE  u[j].t - u[i].t <= StraightTolerance \/ (i = 1 /\ CutOff(u, tr))
    BY DEF Straight
  <2>2. /\ m + i - 1 \in 1 .. Len(r) /\ m + j - 1 \in 1 .. Len(r) /\ m + i - 1 < m + j - 1
        /\ u[i] = r[m + i - 1] /\ u[j] = r[m + j - 1]
    BY <1>1, <2>1
  <2>3. SlowFrom(r, m + i - 1, m + j - 1)
    <3>1. SUFFICES ASSUME NEW x \in (m + i - 1) .. (m + j - 1 - 1) PROVE Slow(r[x], r[x + 1])
      BY DEF SlowFrom
    <3> DEFINE k == x - m + 1
    <3>2. /\ k \in i .. (j - 1) /\ k \in 1 .. (n - m + 1) /\ k + 1 \in 1 .. (n - m + 1)
          /\ m + k - 1 = x /\ m + (k + 1) - 1 = x + 1
      BY <1>1, <2>1
    <3>3. Slow(u[k], u[k + 1])
      BY <2>1, <3>2 DEF SlowFrom
    <3> QED
      BY <1>1, <3>2, <3>3
  <2>4. \/ r[m + j - 1].t - r[m + i - 1].t <= StraightTolerance
        \/ m + i - 1 = 1 /\ CutOff(r, tr)
    BY <2>2, <2>3 DEF IsOneTurn, Straight
  <2>5. ASSUME m + i - 1 = 1, CutOff(r, tr) PROVE i = 1 /\ CutOff(u, tr)
    <3>1. i = 1 /\ m = 1
      BY <2>1, <2>5
    <3>2. 1 \in 1 .. (n - m + 1) /\ 2 \in 1 .. (n - m + 1) /\ m + 1 - 1 = 1 /\ m + 2 - 1 = 2
      BY <1>1, <2>1, <3>1
    <3>3. u[1] = r[1] /\ u[2] = r[2]
      BY <1>1, <3>2
    <3> QED
      BY <2>5, <3>1, <3>3 DEF CutOff
  <2> QED
    BY <2>2, <2>4, <2>5
<1>7. PICK way \in {-1, 1} : Comes(r, way)
  BY DEF IsOneTurn
<1>8. Comes(u, way)
  <2>1. SUFFICES ASSUME NEW i \in 1 .. Len(u), NEW j \in 1 .. Len(u), i < j
                 PROVE  way * (g[j] - g[i]) >= -(ReverseTolerance + DriftAt(u, i) + DriftAt(u, j))
    BY DEF Comes, g
  <2>2. /\ m + i - 1 \in 1 .. Len(r) /\ m + j - 1 \in 1 .. Len(r) /\ m + i - 1 < m + j - 1
        /\ m \in 1 .. Len(r)
    BY <1>1, <2>1
  <2>3. g[j] - g[i] = h[m + j - 1] - h[m + i - 1]
    <3>1. g[i] = h[m + i - 1] - h[m] /\ g[j] = h[m + j - 1] - h[m]
      BY <1>1, <1>3, <2>1
    <3>2. h[m] \in Int /\ h[m + i - 1] \in Int /\ h[m + j - 1] \in Int
      BY <1>4, <2>2
    <3> QED
      BY <3>1, <3>2
  <2>4. way * (h[m + j - 1] - h[m + i - 1])
          >= -(ReverseTolerance + DriftAt(r, m + i - 1) + DriftAt(r, m + j - 1))
    BY <1>7, <2>2 DEF Comes, h
  <2>5. ASSUME NEW k \in 1 .. Len(u)
        PROVE  DriftAt(r, m + k - 1) \in Int /\ DriftAt(u, k) \in Int
               /\ DriftAt(r, m + k - 1) <= DriftAt(u, k)
    <3>1. TurnRate * StraightTolerance \in Nat
      <4>1. TurnRate \in Nat /\ StraightTolerance \in Nat
        BY CircleAssumption
      <4> QED
        BY <4>1, TimesInt
    <3>2. CASE k = 1
      BY <3>1, <3>2 DEF DriftAt
    <3>3. CASE k # 1
      <4>1. /\ k - 1 \in 1 .. (n - m + 1) /\ k \in 1 .. (n - m + 1) /\ m + (k - 1) - 1 = (m + k - 1) - 1
            /\ k > 1 /\ m + k - 1 > 1
        <5>1. Len(u) = n - m + 1
          BY <1>1
        <5> HIDE DEF u, g, h
        <5> QED
          BY <3>3, <5>1
      <4>2. u[k - 1] = r[(m + k - 1) - 1] /\ u[k] = r[m + k - 1]
        BY <1>1, <4>1
      <4> QED
        BY <3>1, <4>1, <4>2 DEF DriftAt
    <3> QED
      BY <3>2, <3>3
  <2>6. ReverseTolerance \in Nat
    BY CircleAssumption
  <2>7. way * (h[m + j - 1] - h[m + i - 1]) \in Int
    <3>1. h[m + j - 1] \in Int /\ h[m + i - 1] \in Int
      BY <1>4, <2>2
    <3> HIDE DEF h
    <3> QED
      BY <3>1, WayIs
  <2> DEFINE x == way * (h[m + j - 1] - h[m + i - 1])
             p == DriftAt(r, m + i - 1)
             p2 == DriftAt(u, i)
             q == DriftAt(r, m + j - 1)
             q2 == DriftAt(u, j)
  <2>8. /\ x \in Int /\ p \in Int /\ p2 \in Int /\ q \in Int /\ q2 \in Int
        /\ x >= -(ReverseTolerance + p + q) /\ p <= p2 /\ q <= q2
    BY <2>1, <2>4, <2>5, <2>7
  <2>9. way * (g[j] - g[i]) = x
    BY <2>3
  <2> HIDE DEF h, g, x, p, p2, q, q2
  <2>10. ReverseTolerance \in Int
    BY <2>6
  <2>11. x >= -(ReverseTolerance + p2 + q2)
    BY <2>8, <2>10, LessOff
  <2> QED
    BY <2>9, <2>11 DEF p2, q2
<1>9. IsOneTurn(u, tr)
  BY <1>2, <1>5, <1>6, <1>8 DEF IsOneTurn
<1> QED
  BY <1>1, <1>9 DEF u

\* While a run flies straight it drifts no faster than the rate that would
\* make it a turn.
LEMMA SlowDrift ==
  ASSUME NEW S, NEW r \in Seq(S), IsTracked(r),
         NEW i \in 1 .. Len(r), NEW j \in i .. Len(r), SlowFrom(r, i, j)
  PROVE  LET d == Headings(r)[j] - Headings(r)[i]
         IN  d <= TurnRate * (r[j].t - r[i].t) /\ -d <= TurnRate * (r[j].t - r[i].t)
<1> DEFINE h == Headings(r)
           Good(k) == /\ h[k] - h[i] <= TurnRate * (r[k].t - r[i].t)
                      /\ -(h[k] - h[i]) <= TurnRate * (r[k].t - r[i].t)
           Bad == {k \in i .. j : ~Good(k)}
<1>1. SUFFICES ASSUME Bad # {} PROVE FALSE
  BY DEF h
<1>2. PICK k \in Bad : \A l \in Bad : k <= l
  <2>1. Bad \subseteq Nat
    OBVIOUS
  <2> HIDE DEF Bad
  <2> QED
    BY <1>1, <2>1, Smallest
<1>3. Len(r) \in Nat /\ TurnRate \in Nat
  BY CircleAssumption
<1>4. \A x \in 1 .. Len(r) : h[x] \in Int /\ r[x].t \in Int
  BY HeadingsInt DEF IsTracked, IsFlown
<1>5. \A x \in 2 .. Len(r) : h[x] = h[x - 1] + Turn(r[x - 1], r[x])
  BY <1>3, HeadingsStart
<1> HIDE DEF h
<1>6. k \in i .. j /\ ~Good(k)
  BY <1>2
<1>7. CASE k = i
  <2>1. h[i] - h[i] = 0 /\ r[i].t - r[i].t = 0 /\ TurnRate * 0 = 0
    BY <1>3, <1>4
  <2> QED
    BY <1>6, <1>7, <2>1
<1>8. CASE k # i
  <2>1. /\ k - 1 \in i .. j /\ k - 1 \in i .. (j - 1) /\ ~(k <= k - 1) /\ k \in 2 .. Len(r)
        /\ k \in 1 .. Len(r) /\ k - 1 \in 1 .. Len(r) /\ (k - 1) + 1 = k
    BY <1>3, <1>6, <1>8
  <2>2. Good(k - 1)
    <3>1. ~(k - 1 \in Bad)
      BY <1>2, <2>1
    <3> HIDE DEF Good
    <3> QED
      BY <2>1, <3>1
  <2> DEFINE d == Turn(r[k - 1], r[k])
             a == r[i].t
             b == r[k - 1].t
             c == r[k].t
  <2>3. d \in Int
    BY <2>1, TurnIs DEF IsTracked
  <2>4. Size(d) < TurnRate * (c - b)
    BY <2>1 DEF SlowFrom, Slow
  <2>5. h[k] = h[k - 1] + d
    BY <1>5, <2>1
  <2>6. a \in Int /\ b \in Int /\ c \in Int /\ h[i] \in Int /\ h[k - 1] \in Int
    BY <1>4, <2>1
  <2>7. TurnRate * (c - a) = TurnRate * (c - b) + TurnRate * (b - a)
    <3> HIDE DEF a, b, c
    <3>1. TurnRate \in Int
      BY <1>3
    <3> QED
      BY <2>6, <3>1, TimesSpread
  <2>8. h[k - 1] - h[i] <= TurnRate * (b - a) /\ -(h[k - 1] - h[i]) <= TurnRate * (b - a)
    BY <2>2
  <2>9. TurnRate * (c - b) \in Int /\ TurnRate * (b - a) \in Int
    <3> HIDE DEF a, b, c
    <3>1. c - b \in Int /\ b - a \in Int /\ TurnRate \in Int
      BY <1>3, <2>6
    <3> QED
      BY <3>1, TimesInt
  <2> HIDE DEF d, a, b, c
  <2>10. d < TurnRate * (c - b) /\ -d < TurnRate * (c - b)
    BY <2>3, <2>4, <2>9 DEF Size
  <2>11. /\ h[k] - h[i] <= TurnRate * (c - a)
         /\ -(h[k] - h[i]) <= TurnRate * (c - a)
    <3> DEFINE x == TurnRate * (c - b)
               y == TurnRate * (b - a)
               u == h[k - 1]
               v == h[i]
    <3>1. /\ TurnRate * (c - a) = x + y /\ h[k] = u + d
          /\ x \in Int /\ y \in Int /\ u \in Int /\ v \in Int /\ d \in Int
          /\ u - v <= y /\ -(u - v) <= y /\ d < x /\ -d < x
      BY <2>3, <2>5, <2>6, <2>7, <2>8, <2>9, <2>10
    <3> HIDE DEF x, y, u, v
    <3>2. (u + d) - v <= x + y /\ -((u + d) - v) <= x + y
      BY <3>1
    <3> QED
      BY <3>1, <3>2 DEF v
  <2> QED
    BY <1>6, <2>11 DEF a, c
<1> QED
  BY <1>7, <1>8

\* Where a run last turned, at a point of it.
LEMMA LastTurned ==
  ASSUME NEW r, Len(r) \in Nat, NEW k \in 1 .. Len(r)
  PROVE  \E m \in 1 .. k : TurnedAt(r, m) /\ (m = k \/ (m >= 2 /\ SlowFrom(r, m, k)))
<1> DEFINE M == {x \in 1 .. k : TurnedAt(r, x)}
           m == Highest(M)
<1>1. k \in Nat /\ k >= 1
  OBVIOUS
<1>2. 1 \in M
  BY <1>1 DEF TurnedAt
<1>3. M \subseteq Int /\ \A x \in M : x <= k
  BY <1>1
<1> HIDE DEF M
<1>4. m \in M /\ \A x \in M : x <= m
  <2>1. M # {} /\ k \in Int
    BY <1>1, <1>2
  <2> QED
    BY <1>3, <2>1, HighestIs
<1> HIDE DEF m
<1>5. m \in 1 .. k /\ TurnedAt(r, m)
  BY <1>4 DEF M
<1>6. ASSUME m # k PROVE m >= 2 /\ SlowFrom(r, m, k)
  <2>1. m < k /\ m \in Nat
    BY <1>1, <1>5, <1>6
  <2>2. 2 \in M
    BY <1>1, <1>5, <2>1 DEF M, TurnedAt
  <2>3. m >= 2
    BY <1>4, <2>2
  <2>4. ASSUME NEW x \in m .. (k - 1) PROVE Slow(r[x], r[x + 1])
    <3>1. x + 1 \in 1 .. k /\ ~(x + 1 <= m) /\ (x + 1) - 1 = x
      BY <1>1, <2>1, <2>4
    <3>2. ~TurnedAt(r, x + 1)
      BY <1>4, <3>1 DEF M
    <3> QED
      BY <3>1, <3>2 DEF TurnedAt
  <2> QED
    BY <2>3, <2>4 DEF SlowFrom
<1> QED
  BY <1>5, <1>6

\* What a straight run has drifted since it last turned.
LEMMA Drifted ==
  ASSUME NEW S, NEW r \in Seq(S), NEW tr, IsTracked(r), Straight(r, tr),
         NEW k \in 1 .. Len(r), NEW m \in 1 .. k, TurnedAt(r, m),
         m = k \/ (m >= 2 /\ SlowFrom(r, m, k))
  PROVE  LET d == Headings(r)[k] - Headings(r)[m]
         IN  DriftAt(r, k) \in Nat /\ d <= DriftAt(r, k) /\ -d <= DriftAt(r, k)
<1>1. Len(r) \in Nat /\ m \in 1 .. Len(r) /\ k \in Nat /\ m \in Nat
  OBVIOUS
<1>2. TurnRate \in Nat /\ StraightTolerance \in Nat
  BY CircleAssumption
<1>3. TurnRate * StraightTolerance \in Nat
  BY <1>2, TimesInt
<1>4. DriftAt(r, k) \in Nat
  BY <1>3 DEF DriftAt
<1> DEFINE x == Headings(r)[k]
           y == Headings(r)[m]
<1>5. x \in Int /\ y \in Int
  BY <1>1, HeadingsInt
<1>6. CASE m = k
  <2>1. x = y
    BY <1>6
  <2> HIDE DEF x, y
  <2>2. x - y = 0
    BY <1>5, <2>1
  <2> QED
    BY <1>4, <2>2 DEF x, y
<1>7. CASE m # k
  <2>1. m < k /\ m >= 2 /\ SlowFrom(r, m, k) /\ k \in m .. Len(r) /\ k - 1 \in m .. (k - 1) /\ (k - 1) + 1 = k
    BY <1>1, <1>7
  <2>2. r[k].t - r[m].t <= StraightTolerance
    BY <1>1, <2>1 DEF Straight
  <2>3. r[k].t \in Int /\ r[m].t \in Int /\ r[m].t < r[k].t
    BY <1>1, <2>1 DEF IsTracked, IsFlown
  <2>4. TurnRate * (r[k].t - r[m].t) <= TurnRate * StraightTolerance
    <3> DEFINE a == r[k].t - r[m].t
               b == StraightTolerance
    <3>1. a \in Int /\ b \in Int /\ b - a \in Int /\ b - a >= 0
      BY <1>2, <2>2, <2>3
    <3> HIDE DEF a, b
    <3>2. TurnRate * (b - a) \in Nat
      BY <1>2, <3>1, TimesInt
    <3>3. TurnRate * (b - a) = TurnRate * b - TurnRate * a
      BY <1>2, <3>1
    <3>4. TurnRate * b \in Int /\ TurnRate * a \in Int
      BY <1>2, <3>1, TimesInt
    <3>5. TurnRate * a <= TurnRate * b
      BY <3>2, <3>3, <3>4
    <3> QED
      BY <3>5 DEF a, b
  <2>5. DriftAt(r, k) = TurnRate * StraightTolerance
    <3>1. Slow(r[k - 1], r[k])
      BY <2>1 DEF SlowFrom
    <3> QED
      BY <3>1 DEF DriftAt
  <2>6. x - y <= TurnRate * (r[k].t - r[m].t) /\ -(x - y) <= TurnRate * (r[k].t - r[m].t)
    BY <1>1, <2>1, SlowDrift
  <2>7. TurnRate * (r[k].t - r[m].t) \in Int
    <3>1. r[k].t - r[m].t \in Int
      BY <2>3
    <3> QED
      BY <1>2, <3>1, TimesInt
  <2> DEFINE u == TurnRate * (r[k].t - r[m].t)
             v == TurnRate * StraightTolerance
  <2>8. u \in Int /\ v \in Int /\ u <= v /\ x - y <= u /\ -(x - y) <= u /\ x - y \in Int
    BY <1>3, <1>5, <2>4, <2>6, <2>7
  <2> HIDE DEF u, v, x, y
  <2>9. x - y <= v /\ -(x - y) <= v
    BY <2>8
  <2> QED
    BY <1>4, <2>5, <2>9 DEF x, y, v
<1> QED
  BY <1>6, <1>7

\* A run that goes one way where it turns comes back by no more than what it
\* may and what it drifted.
LEMMA OneWayComes ==
  ASSUME NEW S, NEW r \in Seq(S), NEW tr, IsTracked(r), Straight(r, tr),
         NEW way \in {-1, 1}, OneWay(r, way)
  PROVE  Comes(r, way)
<1> DEFINE h == Headings(r)
<1>1. SUFFICES ASSUME NEW i \in 1 .. Len(r), NEW j \in 1 .. Len(r), i < j
               PROVE  way * (h[j] - h[i]) >= -(ReverseTolerance + DriftAt(r, i) + DriftAt(r, j))
  BY DEF Comes
<1>2. Len(r) \in Nat
  OBVIOUS
<1>3. PICK m \in 1 .. i : TurnedAt(r, m) /\ (m = i \/ (m >= 2 /\ SlowFrom(r, m, i)))
  BY <1>2, LastTurned
<1>4. PICK n \in 1 .. j : TurnedAt(r, n) /\ (n = j \/ (n >= 2 /\ SlowFrom(r, n, j)))
  BY <1>2, LastTurned
<1>5. m \in 1 .. Len(r) /\ n \in 1 .. Len(r)
  BY <1>2
<1>6. h[i] \in Int /\ h[j] \in Int /\ h[m] \in Int /\ h[n] \in Int
  BY <1>5, HeadingsInt
<1>7. DriftAt(r, i) \in Nat /\ h[i] - h[m] <= DriftAt(r, i) /\ -(h[i] - h[m]) <= DriftAt(r, i)
  BY <1>3, Drifted
<1>8. DriftAt(r, j) \in Nat /\ h[j] - h[n] <= DriftAt(r, j) /\ -(h[j] - h[n]) <= DriftAt(r, j)
  BY <1>4, Drifted
<1>9. ReverseTolerance \in Nat
  BY CircleAssumption
<1>10. m <= n
  <2>1. SUFFICES ASSUME n < m PROVE FALSE
    BY <1>5
  <2>2. /\ n # j /\ m - 1 \in n .. (j - 1) /\ (m - 1) + 1 = m
    BY <1>1, <2>1, <1>5
  <2>3. n >= 2 /\ SlowFrom(r, n, j)
    BY <1>4, <2>2
  <2>4. Slow(r[m - 1], r[m])
    BY <2>2, <2>3 DEF SlowFrom
  <2> QED
    BY <1>3, <1>5, <2>1, <2>3, <2>4 DEF TurnedAt
<1>11. way * (h[n] - h[m]) >= -ReverseTolerance
  <2>1. CASE m = n
    <3>1. h[n] - h[m] = 0 /\ way * 0 = 0
      BY <1>6, <2>1
    <3> QED
      BY <1>9, <3>1
  <2>2. CASE m # n
    <3>1. m < n
      BY <1>5, <1>10, <2>2
    <3> QED
      BY <1>3, <1>4, <1>5, <3>1 DEF OneWay
  <2> QED
    BY <2>1, <2>2
<1> DEFINE a == h[i]
           b == h[j]
           c == h[m]
           d == h[n]
           e == DriftAt(r, i)
           f == DriftAt(r, j)
<1>12. /\ a \in Int /\ b \in Int /\ c \in Int /\ d \in Int /\ e \in Nat /\ f \in Nat
       /\ a - c <= e /\ -(a - c) <= e /\ b - d <= f /\ -(b - d) <= f
       /\ way * (d - c) >= -ReverseTolerance
  BY <1>6, <1>7, <1>8, <1>11
<1> HIDE DEF a, b, c, d, e, f
<1>13. CASE way = 1
  <2>1. way * (d - c) = d - c /\ way * (b - a) = b - a
    BY <1>12, <1>13
  <2>2. b - a >= -(ReverseTolerance + e + f)
    BY <1>9, <1>12, <2>1
  <2> QED
    BY <2>1, <2>2 DEF a, b, e, f
<1>14. CASE way = -1
  <2>1. way * (d - c) = c - d /\ way * (b - a) = a - b
    BY <1>12, <1>14
  <2>2. a - b >= -(ReverseTolerance + e + f)
    BY <1>9, <1>12, <2>1
  <2> QED
    BY <2>1, <2>2 DEF a, b, e, f
<1> QED
  BY <1>13, <1>14

\* The loop of _turn_runs: what it has split off, and the run it is in.
Splitting(S) == [runs : Seq(Seq(S)), run : Seq(S), sum : Int, way : {-1, 0, 1},
                 peak : Int, top : Nat, level : Int \cup {None}]
AreTurns(runs, tr) == \A k \in 1 .. Len(runs) : runs[k] # <<>> /\ IsOneTurn(runs[k], tr)
IsOpen(w, tr, i) ==
  LET r == w.run
      n == Len(w.run)
      h == Headings(w.run)
  IN  /\ n >= 2 /\ r[n] = tr[i] /\ IsTracked(r) /\ FlownIn(r, tr)
      /\ ~Slow(r[1], r[2]) \/ CutOff(r, tr)
      /\ w.sum = h[n] /\ w.way \in {-1, 1} /\ w.top \in 2 .. n /\ w.peak = w.way * h[w.top]
      /\ \A k \in 1 .. n : TurnedAt(r, k) => w.way * h[k] <= w.peak
      /\ OneWay(r, w.way) /\ Straight(r, tr)
      /\ w.level = None => TurnedAt(r, n)
      /\ w.level # None => \E m \in 2 .. (n - 1) : /\ w.level = r[m].t /\ TurnedAt(r, m)
                                                   /\ SlowFrom(r, m, n)

LEMMA OpenIsTurn ==
  ASSUME NEW S, NEW tr, NEW i, NEW w \in Splitting(S), IsOpen(w, tr, i)
  PROVE  w.run \in Seq(S) /\ w.run # <<>> /\ IsOneTurn(w.run, tr)
<1>1. w.run \in Seq(S) /\ Len(w.run) >= 2
  BY DEF Splitting, IsOpen
<1>2. w.run # <<>>
  BY <1>1
<1>3. IsTracked(w.run) /\ FlownIn(w.run, tr) /\ Straight(w.run, tr)
      /\ OneWay(w.run, w.way) /\ w.way \in {-1, 1}
  BY DEF IsOpen
<1>4. Comes(w.run, w.way)
  BY <1>1, <1>3, OneWayComes
<1> QED
  BY <1>1, <1>2, <1>3, <1>4 DEF IsOneTurn

\* A new run of two points.
LEMMA Begins ==
  ASSUME NEW S, NEW tr \in Seq(S), IsTracked(tr), NEW i \in 1 .. Len(tr), NEW runs \in Seq(Seq(S)),
         NEW x \in 1 .. (i - 1), LET p == tr[x] q == tr[i] IN ~Slow(p, q) \/ x < i - 1
  PROVE  /\ Begun(runs, tr[x], tr[i]) \in Splitting(S)
         /\ Begun(runs, tr[x], tr[i]).runs = runs
         /\ IsOpen(Begun(runs, tr[x], tr[i]), tr, i)
<1> DEFINE p == tr[x]
           q == tr[i]
           w == Begun(runs, p, q)
           r == <<p, q>>
<1>1. x \in 1 .. Len(tr) /\ x < i /\ p \in S /\ q \in S
  OBVIOUS
<1>2. Turn(p, q) \in Int
  BY <1>1, TurnIs DEF IsTracked
<1>3. p.t \in Int /\ q.t \in Int /\ p.t < q.t
  BY <1>1 DEF IsTracked, IsFlown
<1>4. r \in Seq(S) /\ Len(r) = 2 /\ r[1] = p /\ r[2] = q
  BY <1>1
<1>5. /\ w.runs = runs /\ w.run = r /\ w.sum = Turn(p, q) /\ w.top = 2 /\ w.level = None
      /\ w.way = IF Turn(p, q) > 0 THEN 1 ELSE -1
      /\ w.peak = Size(Turn(p, q))
  BY DEF Begun
<1>6. w.peak \in Int /\ w.peak >= 0 /\ w.way \in {-1, 1} /\ w.peak = w.way * Turn(p, q)
  BY <1>2, <1>5 DEF Size
<1>7. w \in Splitting(S)
  <2>1. w = [runs |-> runs, run |-> r, sum |-> Turn(p, q), way |-> IF Turn(p, q) > 0 THEN 1 ELSE -1,
             peak |-> Size(Turn(p, q)), top |-> 2, level |-> None]
    BY DEF Begun
  <2>2. Size(Turn(p, q)) \in Int
    BY <1>2 DEF Size
  <2> HIDE DEF r
  <2> QED
    BY <1>2, <1>4, <2>1, <2>2 DEF Splitting
<1> HIDE DEF w, r
<1>8. IsTracked(r)
  <2>1. \A k \in 1 .. Len(r) : k = 1 \/ k = 2
    BY <1>4
  <2>2. \A k \in 1 .. Len(r) : r[k].t \in Int /\ r[k].ang \in Int
    BY <1>1, <1>4, <2>1 DEF IsTracked, IsFlown
  <2>3. ASSUME NEW k \in 1 .. Len(r), NEW l \in 1 .. Len(r), k < l PROVE r[k].t < r[l].t
    <3>1. k = 1 /\ l = 2
      BY <2>1, <2>3
    <3> QED
      BY <1>3, <1>4, <3>1
  <2> QED
    BY <2>2, <2>3 DEF IsTracked, IsFlown
<1>9. FlownIn(r, tr)
  BY <1>1, <1>4 DEF FlownIn
<1>10. Headings(r)[1] = 0 /\ Headings(r)[2] = Turn(p, q)
  <2>1. Headings(r)[1] = 0 /\ Headings(r)[2] = Headings(r)[2 - 1] + Turn(r[2 - 1], r[2])
    <3>1. Len(r) \in Nat /\ Len(r) >= 1 /\ 2 \in 2 .. Len(r)
      BY <1>4
    <3> QED
      BY <3>1, HeadingsStart
  <2> QED
    BY <1>2, <1>4, <2>1
<1>11. ~Slow(r[1], r[2]) \/ CutOff(r, tr)
  <2>1. CASE ~Slow(p, q)
    BY <1>4, <2>1
  <2>2. CASE x < i - 1
    <3>1. x + 1 \in DOMAIN tr /\ x + 1 \in 1 .. Len(tr) /\ x < x + 1 /\ x + 1 < i
      BY <1>1, <2>2
    <3>2. p.t < tr[x + 1].t /\ tr[x + 1].t < q.t
      BY <1>1, <3>1 DEF IsTracked, IsFlown
    <3> QED
      BY <1>4, <3>1, <3>2 DEF CutOff
  <2> QED
    BY <2>1, <2>2
<1>12. \A k \in 1 .. 2 : w.way * Headings(r)[k] <= w.peak
  <2>1. w.way * 0 = 0
    BY <1>6
  <2> QED
    BY <1>6, <1>10, <2>1
<1>13. OneWay(r, w.way)
  <2>1. SUFFICES ASSUME NEW k \in 1 .. Len(r), NEW l \in 1 .. Len(r), k < l
                 PROVE  w.way * (Headings(r)[l] - Headings(r)[k]) >= -ReverseTolerance
    BY DEF OneWay
  <2>2. k = 1 /\ l = 2
    BY <1>4, <2>1
  <2>3. w.way * (Headings(r)[l] - Headings(r)[k]) = w.peak
    BY <1>2, <1>6, <1>10, <2>2
  <2>4. ReverseTolerance \in Nat
    BY CircleAssumption
  <2> QED
    BY <1>6, <2>3, <2>4
<1>14. Straight(r, tr)
  <2>1. SUFFICES ASSUME NEW k \in 1 .. Len(r), NEW l \in 1 .. Len(r), k < l, SlowFrom(r, k, l)
                 PROVE  k = 1 /\ CutOff(r, tr)
    BY DEF Straight
  <2>2. k = 1 /\ l = 2
    BY <1>4, <2>1
  <2>3. Slow(r[1], r[2])
    BY <2>1, <2>2 DEF SlowFrom
  <2> QED
    BY <1>11, <2>2, <2>3
<1>15. IsOpen(w, tr, i)
  <2>1. TurnedAt(r, 2)
    BY DEF TurnedAt
  <2>2. r[2] = tr[i] /\ w.run = r /\ w.top \in 2 .. 2 /\ w.level = None
    BY <1>4, <1>5
  <2>3. w.sum = Headings(r)[2] /\ w.peak = w.way * Headings(r)[w.top]
    BY <1>5, <1>6, <1>10
  <2>4. Len(w.run) >= 2 /\ Len(w.run) = 2 /\ w.run[Len(w.run)] = tr[i]
    <3>1. Len(r) >= 2 /\ Len(r) = 2 /\ r[Len(r)] = tr[i]
      BY <1>4
    <3>2. w.run = r
      BY <2>2
    <3> HIDE DEF p, q
    <3> QED
      BY <3>1, <3>2
  <2>5. IsTracked(w.run) /\ FlownIn(w.run, tr) /\ (~Slow(w.run[1], w.run[2]) \/ CutOff(w.run, tr))
    BY <1>8, <1>9, <1>11, <2>2
  <2>6. /\ w.sum = Headings(w.run)[Len(w.run)] /\ w.way \in {-1, 1} /\ w.top \in 2 .. Len(w.run)
        /\ w.peak = w.way * Headings(w.run)[w.top]
    BY <1>6, <2>2, <2>3, <2>4
  <2>7. \A k \in 1 .. Len(w.run) : TurnedAt(w.run, k) => w.way * Headings(w.run)[k] <= w.peak
    BY <1>12, <2>2, <2>4
  <2>8. OneWay(w.run, w.way) /\ Straight(w.run, tr) /\ TurnedAt(w.run, Len(w.run))
    BY <1>13, <1>14, <2>1, <2>2, <2>4
  <2> QED
    BY <2>2, <2>4, <2>5, <2>6, <2>7, <2>8 DEF IsOpen
<1> QED
  BY <1>5, <1>7, <1>15 DEF w

\* What one more point leaves of a run.
LEMMA RunMore ==
  ASSUME NEW S, NEW tr \in Seq(S), IsTracked(tr), NEW i \in 2 .. Len(tr),
         NEW w \in Splitting(S), IsOpen(w, tr, i - 1)
  PROVE  LET r == w.run
             n == Len(w.run)
             u == Append(w.run, tr[i])
         IN  /\ n \in Nat /\ n >= 2 /\ u \in Seq(S) /\ Len(u) = n + 1
             /\ u[n + 1] = tr[i] /\ u[n] = tr[i - 1] /\ \A k \in 1 .. n : u[k] = r[k]
             /\ IsTracked(u) /\ FlownIn(u, tr)
             /\ \A k \in 1 .. n : Headings(u)[k] = Headings(r)[k]
             /\ Headings(u)[n + 1] = Headings(r)[n] + Turn(tr[i - 1], tr[i])
             /\ \A k \in 1 .. n : TurnedAt(u, k) <=> TurnedAt(r, k)
             /\ TurnedAt(u, n + 1) <=> ~Slow(tr[i - 1], tr[i])
             /\ CutOff(u, tr) <=> CutOff(r, tr)
<1> DEFINE r == w.run
           n == Len(w.run)
           q == tr[i]
           u == Append(w.run, tr[i])
<1>1. r \in Seq(S) /\ n \in Nat /\ n >= 2 /\ r[n] = tr[i - 1] /\ IsTracked(r) /\ FlownIn(r, tr)
  BY DEF Splitting, IsOpen
<1>2. i - 1 \in 1 .. Len(tr) /\ i \in 1 .. Len(tr) /\ q \in S /\ i - 1 < i
  OBVIOUS
<1>3. u \in Seq(S) /\ Len(u) = n + 1 /\ u[n + 1] = q /\ \A k \in 1 .. n : u[k] = r[k]
  BY <1>1, <1>2, AppendProperties
<1>4. u[n] = tr[i - 1]
  BY <1>1, <1>3
<1> HIDE DEF u, r
<1>5. q.t \in Int /\ q.ang \in Int /\ tr[i - 1].t < q.t
  BY <1>2 DEF IsTracked, IsFlown
<1>6. \A k \in 1 .. n : r[k].t \in Int /\ r[k].ang \in Int /\ r[k].t < q.t
  <2>1. TAKE k \in 1 .. n
  <2>2. n \in 1 .. Len(r) /\ k \in 1 .. Len(r)
    BY <1>1 DEF r
  <2>3. k = n \/ r[k].t < r[n].t
    BY <1>1, <2>2 DEF IsTracked, IsFlown
  <2>4. r[k].t \in Int /\ r[k].ang \in Int /\ r[n].t \in Int
    BY <1>1, <2>2 DEF IsTracked, IsFlown
  <2> QED
    BY <1>1, <1>5, <2>3, <2>4
<1>7. IsTracked(u)
  <2>1. \A k \in 1 .. Len(u) : k \in 1 .. n \/ k = n + 1
    BY <1>1, <1>3
  <2>2. \A k \in 1 .. Len(u) : u[k].t \in Int /\ u[k].ang \in Int
    BY <1>3, <1>5, <1>6, <2>1
  <2>3. ASSUME NEW k \in 1 .. Len(u), NEW l \in 1 .. Len(u), k < l PROVE u[k].t < u[l].t
    <3>1. k \in 1 .. n
      BY <1>1, <1>3, <2>3
    <3>2. CASE l = n + 1
      BY <1>3, <1>6, <3>1, <3>2
    <3>3. CASE l \in 1 .. n
      <4>1. r[k].t < r[l].t
        <5>1. k \in 1 .. Len(r) /\ l \in 1 .. Len(r)
          BY <3>1, <3>3 DEF r
        <5> QED
          BY <1>1, <2>3, <5>1 DEF IsTracked, IsFlown
      <4> QED
        BY <1>3, <3>1, <3>3, <4>1
    <3> QED
      BY <2>1, <3>2, <3>3
  <2> QED
    BY <2>2, <2>3 DEF IsTracked, IsFlown
<1>8. FlownIn(u, tr)
  <2>1. \A k \in 1 .. Len(u) : k \in 1 .. n \/ k = n + 1
    BY <1>1, <1>3
  <2>2. \A k \in 1 .. n : \E x \in 1 .. Len(tr) : r[k] = tr[x]
    BY <1>1 DEF FlownIn, r
  <2> QED
    BY <1>2, <1>3, <2>1, <2>2 DEF FlownIn
<1>9. /\ \A k \in 1 .. n : Headings(u)[k] = Headings(r)[k]
      /\ Headings(u)[n + 1] = Headings(r)[n] + Turn(r[n], q)
  <2>1. r # <<>>
    BY <1>1 DEF r
  <2> QED
    BY <1>1, <1>2, <1>7, <2>1, HeadingsMore DEF u, r
<1>10. \A k \in 1 .. n : TurnedAt(u, k) <=> TurnedAt(r, k)
  <2>1. TAKE k \in 1 .. n
  <2>2. k > 2 => k - 1 \in 1 .. n
    BY <1>1
  <2> QED
    BY <1>3, <2>2 DEF TurnedAt
<1>11. TurnedAt(u, n + 1) <=> ~Slow(tr[i - 1], q)
  <2>1. ~(n + 1 <= 2) /\ (n + 1) - 1 = n
    BY <1>1
  <2> QED
    BY <1>3, <1>4, <2>1 DEF TurnedAt
<1>12. CutOff(u, tr) <=> CutOff(r, tr)
  <2>1. u[1] = r[1] /\ u[2] = r[2]
    BY <1>1, <1>3
  <2> QED
    BY <2>1 DEF CutOff
<1> QED
  BY <1>1, <1>3, <1>4, <1>7, <1>8, <1>9, <1>10, <1>11, <1>12 DEF r, u

\* Flying straight for a while goes on with a run.
LEMMA FliesOn ==
  ASSUME NEW S, NEW tr \in Seq(S), IsTracked(tr), NEW i \in 2 .. Len(tr),
         NEW w \in Splitting(S), IsOpen(w, tr, i - 1), Slow(tr[i - 1], tr[i]),
         NEW since, since = IF w.level = None THEN tr[i - 1].t ELSE w.level,
         tr[i].t - since <= StraightTolerance
  PROVE  LET v == [w EXCEPT !.run = Append(@, tr[i]), !.sum = w.sum + Turn(tr[i - 1], tr[i]),
                            !.level = since]
         IN  v \in Splitting(S) /\ IsOpen(v, tr, i)
<1> DEFINE r == w.run
           n == Len(w.run)
           p == tr[i - 1]
           q == tr[i]
           u == Append(w.run, q)
           g == Headings(u)
           h == Headings(r)
           sum == w.sum + Turn(p, q)
           v == [w EXCEPT !.run = u, !.sum = sum, !.level = since]
<1>1. /\ n \in Nat /\ n >= 2 /\ u \in Seq(S) /\ Len(u) = n + 1
      /\ u[n + 1] = q /\ u[n] = p /\ \A k \in 1 .. n : u[k] = r[k]
      /\ IsTracked(u) /\ FlownIn(u, tr)
      /\ \A k \in 1 .. n : g[k] = h[k]
      /\ g[n + 1] = h[n] + Turn(p, q)
      /\ \A k \in 1 .. n : TurnedAt(u, k) <=> TurnedAt(r, k)
      /\ TurnedAt(u, n + 1) <=> ~Slow(p, q)
      /\ CutOff(u, tr) <=> CutOff(r, tr)
  BY RunMore
<1>2. /\ ~Slow(r[1], r[2]) \/ CutOff(r, tr)
      /\ w.sum = h[n] /\ w.way \in {-1, 1} /\ w.top \in 2 .. n /\ w.peak = w.way * h[w.top]
      /\ \A k \in 1 .. n : TurnedAt(r, k) => w.way * h[k] <= w.peak
      /\ OneWay(r, w.way) /\ Straight(r, tr)
      /\ w.level = None => TurnedAt(r, n)
      /\ w.level # None => \E m \in 2 .. (n - 1) : /\ w.level = r[m].t /\ TurnedAt(r, m)
                                                   /\ SlowFrom(r, m, n)
  BY DEF IsOpen
<1>3. i - 1 \in 1 .. Len(tr) /\ i \in 1 .. Len(tr) /\ p.t \in Int /\ q.t \in Int
  BY DEF IsTracked, IsFlown
<1>4. Turn(p, q) \in Int
  BY <1>3, TurnIs DEF IsTracked
<1>5. Slow(p, q) /\ q.t - since <= StraightTolerance
  OBVIOUS
<1>6. since \in Int
  BY <1>3 DEF Splitting
<1>7. /\ v.run = u /\ v.sum = sum /\ v.level = since /\ v.way = w.way /\ v.top = w.top
      /\ v.peak = w.peak /\ v.runs = w.runs
  BY DEF Splitting
<1>8. v \in Splitting(S)
  <2>1. sum \in Int
    BY <1>4 DEF Splitting
  <2> HIDE DEF u, sum
  <2> QED
    BY <1>1, <1>6, <2>1 DEF Splitting
<1> HIDE DEF g, h, u, v, sum
<1>9. PICK m \in 2 .. n : since = u[m].t /\ TurnedAt(u, m) /\ SlowFrom(u, m, n + 1)
  <2>1. CASE w.level = None
    <3>1. n \in 1 .. n /\ n \in 2 .. n
      BY <1>1
    <3>2. TurnedAt(u, n) /\ since = u[n].t
      BY <1>1, <1>2, <2>1, <3>1
    <3>3. \A x \in n .. ((n + 1) - 1) : x = n
      BY <1>1
    <3>4. SlowFrom(u, n, n + 1)
      BY <1>1, <1>5, <3>3 DEF SlowFrom
    <3> QED
      BY <3>1, <3>2, <3>4
  <2>2. CASE w.level # None
    <3>1. PICK m \in 2 .. (n - 1) : w.level = r[m].t /\ TurnedAt(r, m) /\ SlowFrom(r, m, n)
      BY <1>2, <2>2
    <3>2. m \in 2 .. n /\ m \in 1 .. n
      BY <1>1
    <3>3. TurnedAt(u, m) /\ since = u[m].t
      BY <1>1, <2>2, <3>1, <3>2
    <3>4. ASSUME NEW x \in m .. ((n + 1) - 1) PROVE Slow(u[x], u[x + 1])
      <4>1. CASE x = n
        BY <1>1, <1>5, <4>1
      <4>2. CASE x # n
        <5>1. x \in m .. (n - 1) /\ x \in 1 .. n /\ x + 1 \in 1 .. n
          BY <1>1, <3>2, <4>2
        <5>2. Slow(r[x], r[x + 1])
          BY <3>1, <5>1 DEF SlowFrom
        <5> QED
          BY <1>1, <5>1, <5>2
      <4> QED
        BY <4>1, <4>2
    <3> QED
      BY <3>2, <3>3, <3>4 DEF SlowFrom
  <2> QED
    BY <2>1, <2>2
<1>10. ~Slow(u[1], u[2]) \/ CutOff(u, tr)
  <2>1. u[1] = r[1] /\ u[2] = r[2]
    BY <1>1
  <2> QED
    BY <1>1, <1>2, <2>1
<1>11. OneWay(u, w.way)
  <2>1. SUFFICES ASSUME NEW k \in 1 .. Len(u), NEW l \in 1 .. Len(u), k < l,
                        TurnedAt(u, k), TurnedAt(u, l)
                 PROVE  w.way * (g[l] - g[k]) >= -ReverseTolerance
    BY DEF OneWay, g
  <2>2. k \in 1 .. n /\ l \in 1 .. n
    BY <1>1, <1>5, <2>1
  <2>3. w.way * (h[l] - h[k]) >= -ReverseTolerance
    BY <1>1, <1>2, <2>1, <2>2 DEF OneWay, h
  <2> QED
    BY <1>1, <2>2, <2>3
<1>12. Straight(u, tr)
  <2>1. SUFFICES ASSUME NEW k \in 1 .. Len(u), NEW l \in 1 .. Len(u), k < l, SlowFrom(u, k, l)
                 PROVE  u[l].t - u[k].t <= StraightTolerance \/ (k = 1 /\ CutOff(u, tr))
    BY DEF Straight
  <2>2. CASE l \in 1 .. n
    <3>1. k \in 1 .. n
      BY <2>1, <2>2
    <3>2. ASSUME NEW x \in k .. (l - 1) PROVE Slow(r[x], r[x + 1])
      <4>1. x \in 1 .. n /\ x + 1 \in 1 .. n
        BY <1>1, <2>2, <3>1
      <4>2. Slow(u[x], u[x + 1])
        BY <2>1 DEF SlowFrom
      <4> QED
        BY <1>1, <4>1, <4>2
    <3>3. r[l].t - r[k].t <= StraightTolerance \/ (k = 1 /\ CutOff(r, tr))
      BY <1>2, <2>1, <2>2, <3>1, <3>2 DEF Straight, SlowFrom
    <3> QED
      BY <1>1, <2>2, <3>1, <3>3
  <2>3. CASE l \notin 1 .. n
    <3>1. l = n + 1 /\ k \in 1 .. n
      BY <1>1, <2>1, <2>3
    <3>2. CASE k >= m
      <4>1. m \in 1 .. Len(u) /\ k \in 1 .. Len(u)
        BY <1>1, <3>1
      <4>2. u[m].t \in Int /\ u[k].t \in Int /\ (k = m \/ u[m].t < u[k].t)
        BY <1>1, <3>2, <4>1 DEF IsTracked, IsFlown
      <4>3. StraightTolerance \in Nat
        BY CircleAssumption
      <4> QED
        <5>1. u[l] = q /\ since = u[m].t
          BY <1>1, <1>9, <3>1
        <5>2. u[m].t <= u[k].t
          BY <3>1, <4>2
        <5>3. q.t - u[m].t <= StraightTolerance
          BY <1>5, <5>1
        <5>4. q.t - u[k].t <= StraightTolerance
          <6> DEFINE a == q.t
                     b == u[m].t
                     c == u[k].t
          <6>1. a \in Int /\ b \in Int /\ c \in Int /\ b <= c /\ a - b <= StraightTolerance
            BY <1>3, <4>2, <5>2, <5>3
          <6> HIDE DEF a, b, c
          <6>2. a - c <= StraightTolerance
            BY <4>3, <6>1
          <6> QED
            BY <6>2 DEF a, c
        <5> QED
          BY <5>1, <5>4
    <3>3. CASE k < m
      <4>1. m - 1 \in k .. (l - 1) /\ (m - 1) + 1 = m
        BY <1>1, <3>1, <3>3
      <4>2. Slow(u[m - 1], u[m])
        BY <2>1, <4>1 DEF SlowFrom
      <4>3. m = 2
        BY <1>9, <4>2 DEF TurnedAt
      <4>4. k = 1
        BY <3>1, <3>3, <4>3
      <4> QED
        BY <1>10, <4>2, <4>3, <4>4
    <3> QED
      BY <1>1, <3>1, <3>2, <3>3
  <2> QED
    BY <2>2, <2>3
<1>13. \A k \in 1 .. (n + 1) : TurnedAt(u, k) => w.way * g[k] <= w.peak
  <2>1. SUFFICES ASSUME NEW k \in 1 .. (n + 1), TurnedAt(u, k) PROVE w.way * g[k] <= w.peak
    OBVIOUS
  <2>2. k \in 1 .. n
    BY <1>1, <1>5, <2>1
  <2> QED
    BY <1>1, <1>2, <2>1, <2>2
<1>14. w.top \in 1 .. n /\ w.top \in 2 .. (n + 1) /\ n \in 1 .. n
  BY <1>1, <1>2
<1>15. sum = g[n + 1] /\ w.peak = w.way * g[w.top]
  BY <1>1, <1>2, <1>14 DEF sum
<1>16. m \in 2 .. ((n + 1) - 1)
  BY <1>1
<1>17. v.level # None
  BY <1>6, <1>7, CircleAssumption
<1>18. IsOpen(v, tr, i)
  <2>1. Len(v.run) = n + 1 /\ Len(v.run) >= 2 /\ v.run[Len(v.run)] = q
    BY <1>1, <1>7
  <2>3. /\ IsTracked(v.run) /\ FlownIn(v.run, tr)
    BY <1>1, <1>7
  <2>4. /\ v.sum = Headings(v.run)[Len(v.run)] /\ v.way \in {-1, 1} /\ v.top \in 2 .. Len(v.run)
        /\ v.peak = v.way * Headings(v.run)[v.top]
    BY <1>2, <1>7, <1>14, <1>15, <2>1 DEF g
  <2>5. \A k \in 1 .. Len(v.run) : TurnedAt(v.run, k) => v.way * Headings(v.run)[k] <= v.peak
    BY <1>7, <1>13, <2>1 DEF g
  <2>6. m \in 2 .. (Len(v.run) - 1) /\ v.level = v.run[m].t /\ TurnedAt(v.run, m)
        /\ SlowFrom(v.run, m, Len(v.run))
    BY <1>7, <1>9, <1>16, <2>1
  <2>7. ~Slow(v.run[1], v.run[2]) \/ CutOff(v.run, tr)
    BY <1>7, <1>10
  <2>8. OneWay(v.run, v.way) /\ Straight(v.run, tr)
    BY <1>7, <1>11, <1>12
  <2> QED
    BY <1>17, <2>1, <2>3, <2>4, <2>5, <2>6, <2>7, <2>8 DEF IsOpen
<1> QED
  BY <1>8, <1>18 DEF v, u, sum

\* So does turning on, while the turn has not come back by too much.
LEMMA TurnsOn ==
  ASSUME NEW S, NEW tr \in Seq(S), IsTracked(tr), NEW i \in 2 .. Len(tr),
         NEW w \in Splitting(S), IsOpen(w, tr, i - 1), ~Slow(tr[i - 1], tr[i]),
         NEW sum, sum = w.sum + Turn(tr[i - 1], tr[i]),
         ~(w.way * sum < w.peak - ReverseTolerance)
  PROVE  LET v == [w EXCEPT !.run = Append(@, tr[i]), !.sum = sum, !.level = None,
                            !.peak = IF w.way * sum > @ THEN w.way * sum ELSE @,
                            !.top = IF w.way * sum > w.peak THEN Len(w.run) + 1 ELSE @]
         IN  v \in Splitting(S) /\ IsOpen(v, tr, i)
<1> DEFINE r == w.run
           n == Len(w.run)
           p == tr[i - 1]
           q == tr[i]
           u == Append(w.run, q)
           g == Headings(u)
           h == Headings(r)
           peak == IF w.way * sum > w.peak THEN w.way * sum ELSE w.peak
           top == IF w.way * sum > w.peak THEN n + 1 ELSE w.top
           v == [w EXCEPT !.run = u, !.sum = sum, !.level = None, !.peak = peak, !.top = top]
<1>1. /\ n \in Nat /\ n >= 2 /\ r \in Seq(S) /\ u \in Seq(S) /\ Len(u) = n + 1
      /\ u[n + 1] = q /\ u[n] = p /\ \A k \in 1 .. n : u[k] = r[k]
      /\ IsTracked(u) /\ FlownIn(u, tr)
      /\ \A k \in 1 .. n : g[k] = h[k]
      /\ g[n + 1] = h[n] + Turn(p, q)
      /\ \A k \in 1 .. n : TurnedAt(u, k) <=> TurnedAt(r, k)
      /\ TurnedAt(u, n + 1) <=> ~Slow(p, q)
      /\ CutOff(u, tr) <=> CutOff(r, tr)
  <2>1. r \in Seq(S)
    BY DEF Splitting
  <2> QED
    BY <2>1, RunMore
<1>2. /\ ~Slow(r[1], r[2]) \/ CutOff(r, tr)
      /\ w.sum = h[n] /\ w.way \in {-1, 1} /\ w.top \in 2 .. n /\ w.peak = w.way * h[w.top]
      /\ \A k \in 1 .. n : TurnedAt(r, k) => w.way * h[k] <= w.peak
      /\ OneWay(r, w.way) /\ Straight(r, tr)
  BY DEF IsOpen
<1>3. i - 1 \in 1 .. Len(tr) /\ i \in 1 .. Len(tr)
  OBVIOUS
<1>4. Turn(p, q) \in Int
  BY <1>3, TurnIs DEF IsTracked
<1>5. ~Slow(p, q) /\ sum = w.sum + Turn(p, q) /\ ~(w.way * sum < w.peak - ReverseTolerance)
  OBVIOUS
<1>6. sum \in Int /\ w.sum \in Int /\ w.peak \in Int /\ w.way * sum \in Int
  <2>1. w.sum \in Int /\ w.peak \in Int
    BY DEF Splitting
  <2>2. sum \in Int
    BY <1>4, <1>5, <2>1
  <2> QED
    BY <1>2, <2>1, <2>2, WayIs
<1>7. peak \in Int /\ w.way * sum <= peak /\ w.peak <= peak /\ top \in 2 .. (n + 1)
  BY <1>1, <1>2, <1>6
<1>8. peak = w.way * g[top] /\ sum = g[n + 1]
  <2>1. sum = g[n + 1]
    BY <1>1, <1>2, <1>5
  <2>2. w.top \in 1 .. n /\ g[w.top] = h[w.top]
    BY <1>1, <1>2
  <2> HIDE DEF g, h
  <2> QED
    BY <1>2, <2>1, <2>2
<1> HIDE DEF peak, top
<1>9. /\ v.run = u /\ v.sum = sum /\ v.level = None /\ v.way = w.way /\ v.top = top
      /\ v.peak = peak /\ v.runs = w.runs
  BY DEF Splitting
<1>10. v \in Splitting(S)
  <2>1. top \in Nat
    BY <1>1, <1>7
  <2> HIDE DEF u
  <2> QED
    BY <1>1, <1>6, <1>7, <2>1 DEF Splitting
<1>11. \A k \in 1 .. Len(u) : g[k] \in Int
  <2> HIDE DEF u
  <2>1. TAKE k \in 1 .. Len(u)
  <2>2. k \in 0 .. Len(u)
    BY <1>1
  <2> QED
    BY <1>1, <2>2, HeadingsInt
<1>12. \A k \in 1 .. n : h[k] \in Int
  BY <1>1, HeadingsInt DEF IsOpen
<1> HIDE DEF g, h, u, v
<1>13. ~Slow(u[1], u[2]) \/ CutOff(u, tr)
  <2>1. u[1] = r[1] /\ u[2] = r[2]
    BY <1>1
  <2> QED
    BY <1>1, <1>2, <2>1
<1>14. \A k \in 1 .. (n + 1) : TurnedAt(u, k) => w.way * g[k] <= peak
  <2>1. SUFFICES ASSUME NEW k \in 1 .. (n + 1), TurnedAt(u, k) PROVE w.way * g[k] <= peak
    OBVIOUS
  <2>2. CASE k = n + 1
    BY <1>7, <1>8, <2>2
  <2>3. CASE k # n + 1
    <3>1. k \in 1 .. n
      BY <1>1, <2>3
    <3>2. w.way * h[k] <= w.peak /\ g[k] = h[k] /\ h[k] \in Int
      BY <1>1, <1>2, <1>12, <2>1, <3>1
    <3>3. w.way * h[k] \in Int
      BY <1>2, <3>2, WayIs
    <3> DEFINE x == w.way * h[k]
    <3>4. x <= peak
      <4>1. x \in Int /\ x <= w.peak
        BY <3>2, <3>3
      <4> HIDE DEF x
      <4> QED
        BY <1>6, <1>7, <4>1
    <3> QED
      BY <3>2, <3>4
  <2> QED
    BY <2>2, <2>3
<1>15. OneWay(u, w.way)
  <2>1. SUFFICES ASSUME NEW k \in 1 .. Len(u), NEW l \in 1 .. Len(u), k < l,
                        TurnedAt(u, k), TurnedAt(u, l)
                 PROVE  w.way * (g[l] - g[k]) >= -ReverseTolerance
    BY DEF OneWay, g
  <2>2. k \in 1 .. n
    BY <1>1, <2>1
  <2>3. CASE l \in 1 .. n
    <3>1. w.way * (h[l] - h[k]) >= -ReverseTolerance
      BY <1>1, <1>2, <2>1, <2>2, <2>3 DEF OneWay, h
    <3> QED
      BY <1>1, <2>2, <2>3, <3>1
  <2>4. CASE l \notin 1 .. n
    <3>1. l = n + 1
      BY <1>1, <2>4
    <3> DEFINE a == g[k]
    <3>2. g[l] = sum /\ a \in Int
      BY <1>8, <1>11, <2>1, <3>1
    <3>3. w.way * a <= w.peak
      BY <1>1, <1>2, <2>1, <2>2
    <3> HIDE DEF a
    <3>4. ReverseTolerance \in Nat
      BY CircleAssumption
    <3>5. CASE w.way = 1
      <4>1. w.way * a = a /\ w.way * sum = sum /\ w.way * (sum - a) = sum - a
        BY <1>6, <3>2, <3>5
      <4>2. sum - a >= -ReverseTolerance
        BY <1>5, <1>6, <3>2, <3>3, <3>4, <4>1
      <4> QED
        BY <3>2, <4>1, <4>2 DEF a
    <3>6. CASE w.way = -1
      <4>1. w.way * a = -a /\ w.way * sum = -sum /\ w.way * (sum - a) = a - sum
        BY <1>6, <3>2, <3>6
      <4>2. a - sum >= -ReverseTolerance
        BY <1>5, <1>6, <3>2, <3>3, <3>4, <4>1
      <4> QED
        BY <3>2, <4>1, <4>2 DEF a
    <3> QED
      BY <1>2, <3>5, <3>6
  <2> QED
    BY <2>3, <2>4
<1>16. Straight(u, tr)
  <2>1. SUFFICES ASSUME NEW k \in 1 .. Len(u), NEW l \in 1 .. Len(u), k < l, SlowFrom(u, k, l)
                 PROVE  u[l].t - u[k].t <= StraightTolerance \/ (k = 1 /\ CutOff(u, tr))
    BY DEF Straight
  <2>2. k \in 1 .. n
    BY <1>1, <2>1
  <2>3. CASE l \in 1 .. n
    <3>1. ASSUME NEW x \in k .. (l - 1) PROVE Slow(r[x], r[x + 1])
      <4>1. x \in 1 .. n /\ x + 1 \in 1 .. n
        BY <1>1, <2>2, <2>3
      <4>2. Slow(u[x], u[x + 1])
        BY <2>1 DEF SlowFrom
      <4> QED
        BY <1>1, <4>1, <4>2
    <3>2. r[l].t - r[k].t <= StraightTolerance \/ (k = 1 /\ CutOff(r, tr))
      BY <1>2, <2>1, <2>2, <2>3, <3>1 DEF Straight, SlowFrom
    <3> QED
      BY <1>1, <2>2, <2>3, <3>2
  <2>4. CASE l \notin 1 .. n
    <3>1. l = n + 1 /\ n \in k .. (l - 1)
      BY <1>1, <2>2, <2>4
    <3>2. Slow(u[n], u[n + 1])
      BY <2>1, <3>1 DEF SlowFrom
    <3> QED
      BY <1>1, <1>5, <3>2
  <2> QED
    BY <2>3, <2>4
<1>17. IsOpen(v, tr, i)
  <2>1. Len(v.run) = n + 1 /\ Len(v.run) >= 2 /\ v.run[Len(v.run)] = q
    BY <1>1, <1>9
  <2>2. IsTracked(v.run) /\ FlownIn(v.run, tr)
    BY <1>1, <1>9
  <2>3. ~Slow(v.run[1], v.run[2]) \/ CutOff(v.run, tr)
    BY <1>9, <1>13
  <2>4. OneWay(v.run, v.way) /\ Straight(v.run, tr)
    BY <1>9, <1>15, <1>16
  <2>5. /\ v.sum = Headings(v.run)[Len(v.run)] /\ v.way \in {-1, 1} /\ v.top \in 2 .. Len(v.run)
        /\ v.peak = v.way * Headings(v.run)[v.top]
    BY <1>2, <1>7, <1>8, <1>9, <2>1 DEF g
  <2>6. \A k \in 1 .. Len(v.run) : TurnedAt(v.run, k) => v.way * Headings(v.run)[k] <= v.peak
    BY <1>9, <1>14, <2>1 DEF g
  <2>7. v.level = None /\ TurnedAt(v.run, Len(v.run))
    BY <1>1, <1>5, <1>9, <2>1
  <2> QED
    BY <2>1, <2>2, <2>3, <2>4, <2>5, <2>6, <2>7 DEF IsOpen
<1>18. v = [w EXCEPT !.run = Append(@, tr[i]), !.sum = sum, !.level = None,
                     !.peak = IF w.way * sum > @ THEN w.way * sum ELSE @,
                     !.top = IF w.way * sum > w.peak THEN Len(w.run) + 1 ELSE @]
  BY DEF v, u, peak, top
<1> QED
  BY <1>10, <1>17, <1>18

\* A stretch that ends is a turn, its straight end dropped.
LEMMA ClosedKeeps ==
  ASSUME NEW S, NEW tr \in Seq(S), NEW w, w.runs \in Seq(Seq(S)), AreTurns(w.runs, tr),
         NEW run \in Seq(S), run # <<>>, IsOneTurn(run, tr)
  PROVE  Closed(w, run) \in Seq(Seq(S)) /\ AreTurns(Closed(w, run), tr)
<1> DEFINE Ends == {k \in 1 .. Len(run) : \A i \in k .. (Len(run) - 1) : Slow(run[i], run[i + 1])}
           m == Lowest(Ends)
           u == Trim(run)
<1>1. Len(run) \in Nat /\ Len(run) >= 1
  OBVIOUS
<1>2. m \in 1 .. Len(run)
  <2>1. Len(run) \in Ends
    BY <1>1
  <2>2. Ends \subseteq Nat /\ Ends \subseteq 1 .. Len(run)
    OBVIOUS
  <2> HIDE DEF Ends
  <2>3. m \in Ends
    BY <2>1, <2>2, LowestIs
  <2> QED
    BY <2>2, <2>3
<1>3. u = SubSeq(run, 1, m)
  BY DEF Trim
<1> HIDE DEF u, m
<1>4. u \in Seq(S) /\ Len(u) = m - 1 + 1 /\ IsOneTurn(u, tr)
  <2>1. 1 \in Nat /\ m \in Nat /\ 1 <= m /\ m <= Len(run) /\ 1 <= 1
    BY <1>1, <1>2
  <2> QED
    BY <1>3, <2>1, PartIsTurn
<1>5. u # <<>>
  BY <1>1, <1>2, <1>4
<1>6. Closed(w, run) = Append(w.runs, u) \/ Closed(w, run) = w.runs
  BY DEF Closed, u
<1> DEFINE more == Append(w.runs, u)
<1>7. more \in Seq(Seq(S)) /\ Len(more) = Len(w.runs) + 1 /\ more[Len(w.runs) + 1] = u
      /\ \A k \in 1 .. Len(w.runs) : more[k] = w.runs[k]
  BY <1>4, AppendProperties
<1> HIDE DEF more
<1>8. AreTurns(more, tr)
  <2>1. SUFFICES ASSUME NEW k \in 1 .. Len(more) PROVE more[k] # <<>> /\ IsOneTurn(more[k], tr)
    BY DEF AreTurns
  <2>2. Len(w.runs) \in Nat
    OBVIOUS
  <2>3. CASE k = Len(w.runs) + 1
    BY <1>4, <1>5, <1>7, <2>3
  <2>4. CASE k # Len(w.runs) + 1
    <3>1. k \in 1 .. Len(w.runs)
      BY <1>7, <2>1, <2>2, <2>4
    <3> QED
      BY <1>7, <3>1 DEF AreTurns
  <2> QED
    BY <2>3, <2>4
<1> QED
  BY <1>6, <1>7, <1>8 DEF more

IsSplit(w, S, tr, i) ==
  w \in Splitting(S) /\ AreTurns(w.runs, tr) /\ (w.run = <<>> \/ IsOpen(w, tr, i))

LEMMA IdleIs ==
  ASSUME NEW S, NEW tr, NEW i, NEW runs \in Seq(Seq(S)), AreTurns(runs, tr)
  PROVE  IsSplit(Idle(runs), S, tr, i)
<1>1. <<>> \in Seq(S)
  OBVIOUS
<1>2. Idle(runs) \in Splitting(S)
  BY <1>1 DEF Idle, Splitting
<1> QED
  BY <1>2 DEF Idle, IsSplit

\* One more point splits what was flown into turns, and the run it is in.
LEMMA TurnStepKeeps ==
  ASSUME NEW S, NEW tr \in Seq(S), IsTracked(tr), NEW i \in 2 .. Len(tr),
         NEW w, IsSplit(w, S, tr, i - 1)
  PROVE  IsSplit(TurnStep(w, tr[i - 1], tr[i]), S, tr, i)
<1> DEFINE p == tr[i - 1]
           q == tr[i]
           sum == w.sum + Turn(p, q)
           since == IF w.level = None THEN p.t ELSE w.level
<1>1. w \in Splitting(S) /\ AreTurns(w.runs, tr) /\ (w.run = <<>> \/ IsOpen(w, tr, i - 1))
  BY DEF IsSplit
<1>2. /\ w.runs \in Seq(Seq(S)) /\ w.run \in Seq(S)
  BY <1>1 DEF Splitting
<1>3. /\ i - 1 \in 1 .. Len(tr) /\ i \in 1 .. Len(tr) /\ i - 1 \in 1 .. (i - 1) /\ i - 1 < i
      /\ Len(tr) \in Nat
  OBVIOUS
<1> HIDE DEF p, q, sum, since
<1>4. CASE w.run = <<>> /\ Slow(p, q)
  <2>1. TurnStep(w, p, q) = w
    BY <1>4 DEF TurnStep
  <2> QED
    BY <1>1, <1>4, <2>1 DEF IsSplit, p, q
<1>5. CASE w.run = <<>> /\ ~Slow(p, q)
  <2>1. TurnStep(w, p, q) = Begun(w.runs, p, q)
    BY <1>5 DEF TurnStep
  <2>2. /\ Begun(w.runs, p, q) \in Splitting(S) /\ Begun(w.runs, p, q).runs = w.runs
        /\ IsOpen(Begun(w.runs, p, q), tr, i)
    <3>1. LET a == tr[i - 1] b == tr[i] IN ~Slow(a, b) \/ i - 1 < i - 1
      BY <1>5 DEF p, q
    <3> HIDE DEF p, q
    <3>2. /\ Begun(w.runs, tr[i - 1], tr[i]) \in Splitting(S)
          /\ Begun(w.runs, tr[i - 1], tr[i]).runs = w.runs
          /\ IsOpen(Begun(w.runs, tr[i - 1], tr[i]), tr, i)
      BY <1>2, <1>3, <3>1, Begins
    <3> QED
      BY <3>2 DEF p, q
  <2> QED
    BY <1>1, <2>1, <2>2 DEF IsSplit, p, q
<1>6. ASSUME w.run # <<>>
      PROVE  /\ IsOpen(w, tr, i - 1) /\ IsOneTurn(w.run, tr)
             /\ Closed(w, w.run) \in Seq(Seq(S)) /\ AreTurns(Closed(w, w.run), tr)
  BY <1>1, <1>2, <1>6, OpenIsTurn, ClosedKeeps
<1>7. CASE w.run # <<>> /\ Slow(p, q) /\ q.t - since > StraightTolerance
  <2>1. TurnStep(w, p, q) = Idle(Closed(w, w.run))
    BY <1>7 DEF TurnStep, since
  <2> QED
    BY <1>6, <1>7, <2>1, IdleIs DEF p, q
<1>8. CASE w.run # <<>> /\ Slow(p, q) /\ ~(q.t - since > StraightTolerance)
  <2> DEFINE v == [w EXCEPT !.run = Append(@, q), !.sum = sum, !.level = since]
  <2>1. TurnStep(w, p, q) = v
    BY <1>8 DEF TurnStep, since, sum
  <2>2. q.t - since <= StraightTolerance
    <3>1. q.t \in Int /\ p.t \in Int
      BY <1>3 DEF IsTracked, IsFlown, p, q
    <3>2. since \in Int
      BY <1>1, <3>1 DEF since, Splitting
    <3>3. StraightTolerance \in Nat
      BY CircleAssumption
    <3> QED
      BY <1>8, <3>1, <3>2, <3>3
  <2>3. v \in Splitting(S) /\ IsOpen(v, tr, i)
    BY <1>1, <1>6, <1>8, <2>2, FliesOn DEF p, q, since, sum
  <2>4. v.runs = w.runs
    BY <1>1 DEF Splitting
  <2> HIDE DEF v
  <2> QED
    BY <1>1, <2>1, <2>3, <2>4 DEF IsSplit, p, q
<1>9. CASE w.run # <<>> /\ ~Slow(p, q) /\ w.way * sum < w.peak - ReverseTolerance
  <2> DEFINE runs == Closed(w, SubSeq(w.run, 1, w.top))
  <2>1. TurnStep(w, p, q) = Begun(runs, w.run[w.top], q)
    BY <1>9 DEF TurnStep, sum
  <2>2. IsOpen(w, tr, i - 1) /\ IsOneTurn(w.run, tr)
    BY <1>6, <1>9
  <2>3. /\ w.top \in 2 .. Len(w.run) /\ w.top \in Nat /\ Len(w.run) \in Nat
        /\ w.run[Len(w.run)] = p /\ FlownIn(w.run, tr) /\ IsTracked(w.run)
    BY <1>2, <2>2 DEF IsOpen, p
  <2>4. runs \in Seq(Seq(S)) /\ AreTurns(runs, tr)
    <3> DEFINE u == SubSeq(w.run, 1, w.top)
    <3>1. 1 \in Nat /\ 1 <= 1 /\ 1 <= w.top /\ w.top <= Len(w.run)
      BY <2>3
    <3>2. u \in Seq(S) /\ Len(u) = w.top - 1 + 1 /\ IsOneTurn(u, tr)
      BY <1>2, <2>2, <2>3, <3>1, PartIsTurn
    <3>3. u # <<>>
      BY <2>3, <3>2
    <3> HIDE DEF u
    <3>4. Closed(w, u) \in Seq(Seq(S)) /\ AreTurns(Closed(w, u), tr)
      BY <1>1, <1>2, <3>2, <3>3, ClosedKeeps
    <3> QED
      BY <3>4 DEF u
  <2>5. PICK x \in 1 .. Len(tr) : w.run[w.top] = tr[x]
    BY <2>3 DEF FlownIn
  <2>6. x \in 1 .. (i - 1)
    <3>1. w.top \in 1 .. Len(w.run) /\ Len(w.run) \in 1 .. Len(w.run)
      BY <2>3
    <3>2. w.top = Len(w.run) \/ w.run[w.top].t < w.run[Len(w.run)].t
      <4> DEFINE r == w.run
      <4>1. /\ IsFlown(r) /\ w.top \in 1 .. Len(r) /\ Len(r) \in 1 .. Len(r)
            /\ w.top \in Nat /\ Len(r) \in Nat
        BY <2>3, <3>1 DEF IsTracked
      <4> HIDE DEF r
      <4>2. w.top < Len(r) => r[w.top].t < r[Len(r)].t
        BY <4>1 DEF IsFlown
      <4> QED
        BY <4>1, <4>2 DEF r
    <3>3. tr[x].t \in Int /\ p.t \in Int
      BY <1>3 DEF IsTracked, IsFlown, p
    <3>4. tr[x].t <= p.t
      BY <2>3, <2>5, <3>2, <3>3
    <3>5. ASSUME i - 1 < x PROVE p.t < tr[x].t
      BY <1>3, <3>5 DEF IsTracked, IsFlown, p
    <3>6. ~(i - 1 < x)
      BY <3>3, <3>4, <3>5
    <3> QED
      BY <1>3, <3>6
  <2>7. ~Slow(tr[x], q) \/ x < i - 1
    BY <1>3, <1>9, <2>6 DEF p
  <2> HIDE DEF runs
  <2>8. /\ Begun(runs, tr[x], q) \in Splitting(S) /\ Begun(runs, tr[x], q).runs = runs
        /\ IsOpen(Begun(runs, tr[x], q), tr, i)
    BY <1>3, <2>4, <2>6, <2>7, Begins DEF q
  <2> QED
    BY <2>1, <2>4, <2>5, <2>8 DEF IsSplit, p, q
<1>10. CASE w.run # <<>> /\ ~Slow(p, q) /\ ~(w.way * sum < w.peak - ReverseTolerance)
  <2> DEFINE v == [w EXCEPT !.run = Append(@, q), !.sum = sum, !.level = None,
                            !.peak = IF w.way * sum > @ THEN w.way * sum ELSE @,
                            !.top = IF w.way * sum > w.peak THEN Len(w.run) + 1 ELSE @]
  <2>1. TurnStep(w, p, q) = v
    BY <1>10 DEF TurnStep, sum
  <2>2. v \in Splitting(S) /\ IsOpen(v, tr, i)
    BY <1>1, <1>6, <1>10, TurnsOn DEF p, q, sum
  <2>3. v.runs = w.runs
    BY <1>1 DEF Splitting
  <2> HIDE DEF v
  <2> QED
    BY <1>1, <2>1, <2>2, <2>3 DEF IsSplit, p, q
<1> QED
  BY <1>4, <1>5, <1>7, <1>8, <1>9, <1>10 DEF p, q

\* So what the loop splits off are turns.
LEMMA TurningKeeps ==
  ASSUME NEW S, NEW tr \in Seq(S), IsTracked(tr), NEW i \in 0 .. Len(tr)
  PROVE  IsSplit(Turning(tr)[i], S, tr, i)
<1> DEFINE Bad == {m \in 0 .. Len(tr) : ~IsSplit(Turning(tr)[m], S, tr, m)}
<1>1. SUFFICES ASSUME Bad # {} PROVE FALSE
  OBVIOUS
<1>2. PICK m \in Bad : \A l \in Bad : m <= l
  <2>1. Bad \subseteq Nat
    OBVIOUS
  <2> HIDE DEF Bad
  <2> QED
    BY <1>1, <2>1, Smallest
<1>3. Len(tr) \in Nat /\ m \in 0 .. Len(tr) /\ ~IsSplit(Turning(tr)[m], S, tr, m)
  BY <1>2
<1>4. Turning(tr)[m] = IF m < 2 THEN Idle(<<>>)
                       ELSE TurnStep(Turning(tr)[m - 1], tr[m - 1], tr[m])
  BY <1>3, TurningIs
<1>5. m >= 2
  <2>1. <<>> \in Seq(Seq(S)) /\ AreTurns(<<>>, tr)
    BY DEF AreTurns
  <2>2. IsSplit(Idle(<<>>), S, tr, m)
    BY <2>1, IdleIs
  <2> QED
    BY <1>3, <1>4, <2>2
<1>6. m - 1 \in 0 .. Len(tr) /\ ~(m <= m - 1) /\ m \in 2 .. Len(tr)
  BY <1>3, <1>5
<1>7. IsSplit(Turning(tr)[m - 1], S, tr, m - 1)
  BY <1>2, <1>6
<1>8. IsSplit(TurnStep(Turning(tr)[m - 1], tr[m - 1], tr[m]), S, tr, m)
  BY <1>6, <1>7, TurnStepKeeps
<1> QED
  BY <1>3, <1>4, <1>5, <1>8

LEMMA TurnRunsAre ==
  ASSUME NEW S, NEW tr \in Seq(S), IsTracked(tr)
  PROVE  TurnRuns(tr) \in Seq(Seq(S)) /\ AreTurns(TurnRuns(tr), tr)
<1> DEFINE w == Turning(tr)[Len(tr)]
<1>1. IsSplit(w, S, tr, Len(tr))
  <2>1. Len(tr) \in 0 .. Len(tr)
    OBVIOUS
  <2> QED
    BY <2>1, TurningKeeps
<1>2. TurnRuns(tr) = Ended(w)
  BY DEF TurnRuns
<1> HIDE DEF w
<1>3. w \in Splitting(S) /\ AreTurns(w.runs, tr) /\ (w.run = <<>> \/ IsOpen(w, tr, Len(tr)))
  BY <1>1 DEF IsSplit
<1>4. w.runs \in Seq(Seq(S))
  BY <1>3 DEF Splitting
<1>5. CASE w.run = <<>>
  BY <1>2, <1>3, <1>4, <1>5 DEF Ended
<1>6. CASE w.run # <<>>
  <2>1. w.run \in Seq(S) /\ IsOneTurn(w.run, tr)
    BY <1>3, <1>6, OpenIsTurn
  <2>2. Closed(w, w.run) \in Seq(Seq(S)) /\ AreTurns(Closed(w, w.run), tr)
    BY <1>3, <1>4, <1>6, <2>1, ClosedKeeps
  <2> QED
    BY <1>2, <1>6, <2>2 DEF Ended
<1> QED
  BY <1>5, <1>6

----------------------------------------
(* The legs of an approach. *)

\* Of finitely many values one is the largest.
LEMMA OneIsLargest ==
  ASSUME NEW n \in Nat, n >= 1, NEW f, \A k \in 1 .. n : f[k] \in Int
  PROVE  \E k \in 1 .. n : \A l \in 1 .. n : f[k] >= f[l]
<1> DEFINE Bad == {m \in 1 .. n : ~\E k \in 1 .. m : \A l \in 1 .. m : f[k] >= f[l]}
<1>1. SUFFICES ASSUME Bad # {} PROVE FALSE
  <2>1. n \in 1 .. n
    OBVIOUS
  <2> QED
    BY <2>1
<1>2. PICK m \in Bad : \A l \in Bad : m <= l
  <2>1. Bad \subseteq Nat
    OBVIOUS
  <2> HIDE DEF Bad
  <2> QED
    BY <1>1, <2>1, Smallest
<1>3. m \in 1 .. n /\ ~\E k \in 1 .. m : \A l \in 1 .. m : f[k] >= f[l]
  BY <1>2
<1>4. m # 1
  <2>1. ASSUME m = 1 PROVE FALSE
    <3>1. 1 \in 1 .. m /\ \A l \in 1 .. m : f[1] >= f[l]
      BY <1>3, <2>1
    <3> QED
      BY <1>3, <3>1
  <2> QED
    BY <2>1
<1>5. m - 1 \in 1 .. n /\ ~(m <= m - 1)
  BY <1>3, <1>4
<1>6. PICK k \in 1 .. (m - 1) : \A l \in 1 .. (m - 1) : f[k] >= f[l]
  BY <1>2, <1>5
<1>7. \A l \in 1 .. m : l \in 1 .. (m - 1) \/ l = m
  BY <1>3
<1>8. k \in 1 .. m /\ m \in 1 .. m /\ f[k] \in Int /\ f[m] \in Int
  BY <1>3, <1>5
<1>9. CASE f[k] >= f[m]
  <2>1. \A l \in 1 .. m : f[k] >= f[l]
    BY <1>6, <1>7, <1>9
  <2> QED
    BY <1>3, <1>8, <2>1
<1>10. CASE ~(f[k] >= f[m])
  <2>1. \A l \in 1 .. m : f[l] \in Int
    BY <1>3
  <2>2. \A l \in 1 .. m : f[m] >= f[l]
    BY <1>6, <1>7, <1>8, <1>10, <2>1
  <2> QED
    BY <1>3, <1>8, <2>2
<1> QED
  BY <1>9, <1>10

LEMMA TurnedIs ==
  ASSUME NEW S, NEW leg \in Seq(S), IsTracked(leg)
  PROVE  Turned(leg) \in Int /\ Size(Turned(leg)) \in Nat
<1>1. Len(leg) \in 0 .. Len(leg)
  OBVIOUS
<1>2. Turned(leg) \in Int
  BY <1>1, HeadingsInt DEF Turned
<1> QED
  BY <1>2 DEF Size

\* The run shown as the break is one of the turns.
LEMMA WidestIs ==
  ASSUME NEW S, NEW tr, NEW runs \in Seq(Seq(S)), runs # <<>>, AreTurns(runs, tr)
  PROVE  \E k \in 1 .. Len(runs) : WidestRun(runs) = runs[k]
<1> DEFINE n == Len(runs)
           f == [k \in 1 .. n |-> Size(Turned(runs[k]))]
           Wide == {k \in DOMAIN runs : Size(Turned(runs[k])) >= MinBreakTurn}
           Widest == {k \in DOMAIN runs :
                        \A l \in DOMAIN runs : Size(Turned(runs[k])) >= Size(Turned(runs[l]))}
<1>1. n \in Nat /\ n >= 1 /\ DOMAIN runs = 1 .. n
  OBVIOUS
<1>2. ASSUME NEW k \in 1 .. n PROVE f[k] \in Int
  <2>1. runs[k] \in Seq(S) /\ IsTracked(runs[k])
    BY DEF AreTurns, IsOneTurn
  <2> QED
    BY <2>1, TurnedIs
<1>3. PICK k \in 1 .. n : \A l \in 1 .. n : f[k] >= f[l]
  <2> HIDE DEF f, n
  <2> QED
    BY <1>1, <1>2, OneIsLargest
<1>4. k \in Widest
  BY <1>1, <1>3
<1>5. Wide \subseteq 1 .. n /\ Widest \subseteq 1 .. n
  BY <1>1
<1>6. WidestRun(runs) = runs[IF Wide # {} THEN Highest(Wide) ELSE Lowest(Widest)]
  BY DEF WidestRun
<1> HIDE DEF Wide, Widest, f
<1>7. CASE Wide # {}
  <2>1. Wide \subseteq Int /\ n \in Int /\ \A x \in Wide : x <= n
    BY <1>1, <1>5
  <2> HIDE DEF n
  <2>2. Highest(Wide) \in Wide
    BY <1>7, <2>1, HighestIs
  <2> QED
    BY <1>5, <1>6, <1>7, <2>2 DEF n
<1>8. CASE Wide = {}
  <2>1. Widest \subseteq Nat /\ Widest # {}
    BY <1>4, <1>5
  <2>2. Lowest(Widest) \in Widest
    BY <2>1, LowestIs
  <2> QED
    BY <1>5, <1>6, <1>8, <2>2
<1> QED
  BY <1>7, <1>8

LEMMA ShortenedIs ==
  ASSUME NEW S, NEW tr \in Seq(S), NEW leg \in Seq(S), leg # <<>>, IsOneTurn(leg, tr)
  PROVE  LET b == Shortened(leg)
         IN  b \in Seq(S) /\ b # <<>> /\ IsOneTurn(b, tr) /\ Fits(b)
<1> DEFINE n == Len(leg)
           Cuts == {k \in 1 .. n : Fits(SubSeq(leg, k, n))}
           m == Lowest(Cuts)
           b == SubSeq(leg, m, n)
<1>1. n \in Nat /\ n >= 1
  OBVIOUS
<1>2. n \in Cuts
  <2>1. Len(SubSeq(leg, n, n)) = n - n + 1
    <3>1. n <= n + 1 /\ n <= n
      BY <1>1
    <3> QED
      BY <1>1, <3>1, PartIs
  <2>2. Len(SubSeq(leg, n, n)) <= 2
    BY <1>1, <2>1
  <2> QED
    BY <1>1, <2>2 DEF Fits
<1>3. m \in Cuts
  <2>1. Cuts \subseteq Nat
    BY <1>1
  <2> HIDE DEF Cuts
  <2> QED
    BY <1>2, <2>1, LowestIs
<1> HIDE DEF m
<1>4. m \in 1 .. n /\ Fits(b)
  BY <1>3
<1>5. b \in Seq(S) /\ Len(b) = n - m + 1 /\ IsOneTurn(b, tr)
  <2>1. m \in Nat /\ 1 <= m /\ m <= n /\ n <= Len(leg)
    BY <1>1, <1>4
  <2> QED
    BY <1>1, <2>1, PartIsTurn
<1>6. Shortened(leg) = b
  BY DEF Shortened, m
<1> HIDE DEF b
<1>7. b # <<>>
  <2>1. Len(b) >= 1
    BY <1>1, <1>4, <1>5
  <2> QED
    BY <2>1
<1> QED
  BY <1>4, <1>5, <1>6, <1>7

\* A turn in a part of the track is one in all of it.
LEMMA TurnElsewhere ==
  ASSUME NEW S, NEW tr \in Seq(S), NEW part \in Seq(S), FlownIn(part, tr),
         NEW r, IsOneTurn(r, part)
  PROVE  IsOneTurn(r, tr)
<1>1. DOMAIN part = 1 .. Len(part) /\ DOMAIN tr = 1 .. Len(tr)
  OBVIOUS
<1>2. CutOff(r, part) => CutOff(r, tr)
  BY <1>1 DEF CutOff, FlownIn
<1> QED
  BY <1>2 DEF IsOneTurn, FlownIn, Straight

LEMMA BreakIs ==
  ASSUME NEW S, NEW tr \in Seq(S), IsTracked(tr)
  PROVE  LET b == BreakLeg(tr)
         IN  b \in Seq(S) /\ (b # <<>> => IsOneTurn(b, tr) /\ Fits(b))
<1>1. CASE tr = <<>>
  <2>1. BreakLeg(tr) = <<>>
    BY <1>1 DEF BreakLeg
  <2> QED
    BY <2>1
<1>2. CASE tr # <<>>
  <2> DEFINE n == Len(tr)
             Ends == {i \in 1 .. n : tr[n].t - tr[i].t > Lookback \/ Initial(tr, i)}
             m == Highest(Ends) + 1
             part == Stretch(tr)
             runs == TurnRuns(part)
  <2>1. n \in Nat /\ n >= 1
    BY <1>2
  <2>2. part \in Seq(S) /\ IsTracked(part) /\ FlownIn(part, tr)
    <3>1. CASE Ends = {}
      <4>1. part = tr
        BY <3>1 DEF Stretch
      <4>2. FlownIn(tr, tr)
        BY DEF FlownIn
      <4> HIDE DEF part
      <4> QED
        BY <4>1, <4>2
    <3>2. CASE Ends # {}
      <4>1. Ends \subseteq Int /\ \A x \in Ends : x <= n /\ x >= 1
        BY <2>1
      <4>2. part = SubSeq(tr, m, n)
        BY <3>2 DEF Stretch
      <4> HIDE DEF Ends, part
      <4>3. Highest(Ends) \in Ends
        <5>1. n \in Int
          BY <2>1
        <5> HIDE DEF n
        <5> QED
          BY <3>2, <4>1, <5>1, HighestIs
      <4>4. m \in Nat /\ 1 <= m /\ m <= n + 1 /\ n <= Len(tr)
        <5>1. m = Highest(Ends) + 1 /\ Highest(Ends) \in Int /\ 1 <= Highest(Ends) /\ Highest(Ends) <= n
          BY <4>1, <4>3
        <5> HIDE DEF m
        <5> QED
          BY <2>1, <5>1
      <4> HIDE DEF m
      <4>5. part \in Seq(S) /\ IsTracked(part)
        BY <2>1, <4>2, <4>4, PartTracked
      <4>6. Len(part) = n - m + 1 /\ \A i \in 1 .. (n - m + 1) : m + i - 1 \in 1 .. Len(tr)
                                       /\ part[i] = tr[m + i - 1]
        BY <2>1, <4>2, <4>4, PartIs
      <4> QED
        BY <4>5, <4>6 DEF FlownIn
    <3> QED
      BY <3>1, <3>2
  <2> HIDE DEF part
  <2>3. runs \in Seq(Seq(S)) /\ AreTurns(runs, part)
    BY <2>2, TurnRunsAre
  <2>4. BreakLeg(tr) = IF runs = <<>> THEN <<>> ELSE Shortened(WidestRun(runs))
    BY <1>2 DEF BreakLeg, BreakOf, part
  <2> HIDE DEF runs
  <2>5. CASE runs = <<>>
    <3>1. <<>> \in Seq(S)
      OBVIOUS
    <3> QED
      BY <2>4, <2>5, <3>1
  <2>6. CASE runs # <<>>
    <3>1. PICK k \in 1 .. Len(runs) : WidestRun(runs) = runs[k]
      BY <2>3, <2>6, WidestIs
    <3>2. runs[k] \in Seq(S) /\ runs[k] # <<>> /\ IsOneTurn(runs[k], part)
      BY <2>3 DEF AreTurns
    <3> DEFINE b == Shortened(runs[k])
    <3>3. b \in Seq(S) /\ IsOneTurn(b, part) /\ Fits(b)
      BY <2>2, <3>2, ShortenedIs
    <3>4. IsOneTurn(b, tr)
      BY <2>2, <3>3, TurnElsewhere
    <3> QED
      BY <2>4, <2>6, <3>1, <3>3, <3>4
  <2> QED
    BY <2>5, <2>6
<1> QED
  BY <1>1, <1>2

\* The downwind is one of the legs flown the other way.
LEMMA DownwindIs ==
  ASSUME NEW S, NEW tr \in Seq(S), IsTracked(tr), DownwindLeg(tr) # None
  PROVE  LET leg == DownwindLeg(tr)
         IN  /\ leg \in (1 .. Len(tr)) \X (1 .. Len(tr)) /\ leg[1] <= leg[2]
             /\ \A i \in leg[1] .. leg[2] : Size(tr[i].ang) >= Circle \div 2 - Cone
<1> DEFINE n == Len(tr)
           Away == Runs(tr, LAMBDA p : Size(p.ang) >= Circle \div 2 - Cone,
                        LAMBDA p, q : Size(Turn(p, q)) <= TurnRate * (q.t - p.t))
           Longest(r) == \A x \in Away :
                           \/ Span(tr, r) > Span(tr, x)
                           \/ Span(tr, r) = Span(tr, x) /\ tr[r[2]].t >= tr[x[2]].t
<1>1. Away # {} /\ DownwindLeg(tr) = CHOOSE r \in Away : Longest(r)
  BY DEF DownwindLeg
<1>2. n \in Nat
  OBVIOUS
<1>3. ASSUME NEW r \in Away
      PROVE  /\ r \in (1 .. n) \X (1 .. n) /\ r[1] <= r[2]
             /\ \A i \in r[1] .. r[2] : Size(tr[i].ang) >= Circle \div 2 - Cone
  <2>1. /\ r \in (1 .. n) \X (1 .. n) /\ r[1] <= r[2]
        /\ Size(tr[r[1]].ang) >= Circle \div 2 - Cone
        /\ \A i \in r[1] .. (r[2] - 1) : Size(tr[i + 1].ang) >= Circle \div 2 - Cone
    BY DEF Runs
  <2>2. ASSUME NEW i \in r[1] .. r[2] PROVE Size(tr[i].ang) >= Circle \div 2 - Cone
    <3>1. i = r[1] \/ (i - 1 \in r[1] .. (r[2] - 1) /\ (i - 1) + 1 = i)
      <4> HIDE DEF Away
      <4>1. r[1] \in 1 .. n /\ r[2] \in 1 .. n
        BY <2>1
      <4> QED
        BY <1>2, <2>1, <2>2, <4>1
    <3> QED
      BY <2>1, <3>1
  <2> QED
    BY <2>1, <2>2
<1> HIDE DEF Away
<1>4. \A i \in 1 .. n : tr[i].t \in Int
  BY DEF IsTracked, IsFlown
<1>5. ASSUME NEW r \in Away PROVE Span(tr, r) \in Int /\ Span(tr, r) <= tr[n].t - tr[1].t
  <2>1. r[1] \in 1 .. n /\ r[2] \in 1 .. n /\ 1 \in 1 .. n /\ n \in 1 .. n
    BY <1>2, <1>3
  <2>2. r[1] = 1 \/ tr[1].t < tr[r[1]].t
    BY <1>2, <2>1 DEF IsTracked, IsFlown
  <2>3. r[2] = n \/ tr[r[2]].t < tr[n].t
    BY <1>2, <2>1 DEF IsTracked, IsFlown
  <2>4. tr[1].t \in Int /\ tr[n].t \in Int /\ tr[r[1]].t \in Int /\ tr[r[2]].t \in Int
    BY <1>4, <2>1
  <2> DEFINE a == tr[1].t
             b == tr[r[1]].t
             c == tr[r[2]].t
             d == tr[n].t
  <2>5. a \in Int /\ b \in Int /\ c \in Int /\ d \in Int /\ a <= b /\ c <= d
    BY <2>2, <2>3, <2>4
  <2> HIDE DEF a, b, c, d
  <2>6. c - b \in Int /\ c - b <= d - a
    BY <2>5
  <2> QED
    BY <2>6 DEF Span, a, b, c, d
<1> DEFINE Spans == {Span(tr, r) : r \in Away}
<1>6. PICK r1 \in Away : \A x \in Away : Span(tr, x) <= Span(tr, r1)
  <2>1. Spans \subseteq Int /\ Spans # {} /\ \A x \in Spans : x <= tr[n].t - tr[1].t
    BY <1>1, <1>5
  <2>2. tr[n].t - tr[1].t \in Int
    <3>1. PICK r \in Away : TRUE
      BY <1>1
    <3>2. 1 \in 1 .. n /\ n \in 1 .. n
      BY <1>2, <1>3, <3>1
    <3> QED
      BY <1>4, <3>2
  <2> HIDE DEF Spans
  <2>3. Highest(Spans) \in Spans /\ \A y \in Spans : y <= Highest(Spans)
    BY <2>1, <2>2, HighestIs
  <2>4. PICK r \in Away : Highest(Spans) = Span(tr, r)
    BY <2>3 DEF Spans
  <2>5. \A x \in Away : Span(tr, x) \in Spans
    BY DEF Spans
  <2> QED
    BY <2>3, <2>4, <2>5
<1> DEFINE Lasts == {r[2] : r \in {x \in Away : Span(tr, x) = Span(tr, r1)}}
<1>7. PICK r2 \in Away : /\ Span(tr, r2) = Span(tr, r1)
                         /\ \A x \in Away : Span(tr, x) = Span(tr, r1) => x[2] <= r2[2]
  <2>1. r1[2] \in Lasts
    OBVIOUS
  <2>2. Lasts \subseteq Int /\ \A x \in Lasts : x <= n
    BY <1>2, <1>3
  <2>3. \A x \in Away : Span(tr, x) = Span(tr, r1) => x[2] \in Lasts
    OBVIOUS
  <2>4. \A y \in Lasts : \E x \in Away : Span(tr, x) = Span(tr, r1) /\ y = x[2]
    OBVIOUS
  <2> HIDE DEF Lasts
  <2>5. Highest(Lasts) \in Lasts /\ \A y \in Lasts : y <= Highest(Lasts)
    <3>1. Lasts # {} /\ n \in Int
      BY <1>2, <2>1
    <3> QED
      BY <2>2, <3>1, HighestIs
  <2>6. PICK r \in Away : Span(tr, r) = Span(tr, r1) /\ Highest(Lasts) = r[2]
    BY <2>4, <2>5
  <2> QED
    BY <2>3, <2>5, <2>6
<1>8. Longest(r2)
  <2>1. SUFFICES ASSUME NEW x \in Away
                 PROVE  \/ Span(tr, r2) > Span(tr, x)
                        \/ Span(tr, r2) = Span(tr, x) /\ tr[r2[2]].t >= tr[x[2]].t
    OBVIOUS
  <2>2. CASE Span(tr, x) = Span(tr, r1)
    <3>1. x[2] <= r2[2] /\ x[2] \in 1 .. n /\ r2[2] \in 1 .. n
      BY <1>3, <1>7, <2>2
    <3>2. x[2] = r2[2] \/ tr[x[2]].t < tr[r2[2]].t
      <4>1. x[2] = r2[2] \/ x[2] < r2[2]
        BY <3>1
      <4> QED
        BY <3>1, <4>1 DEF IsTracked, IsFlown
    <3>3. tr[r2[2]].t >= tr[x[2]].t
      BY <1>4, <3>1, <3>2
    <3> QED
      BY <1>7, <2>2, <3>3
  <2>3. CASE Span(tr, x) # Span(tr, r1)
    <3>1. Span(tr, x) \in Int /\ Span(tr, r1) \in Int /\ Span(tr, x) <= Span(tr, r1)
      BY <1>5, <1>6
    <3> QED
      BY <1>7, <2>3, <3>1
  <2> QED
    BY <2>2, <2>3
<1> HIDE DEF Longest
<1>9. DownwindLeg(tr) \in Away
  BY <1>1, <1>8
<1> QED
  BY <1>3, <1>9

\* The gate and the flare are samples, if there are any so high.
LEMMA GateIs ==
  ASSUME NEW S, NEW s \in Seq(S)
  PROVE  GateTime(s) = None \/ \E m \in 1 .. Len(s) : GateTime(s) = s[m].t
<1> DEFINE H == {i \in DOMAIN s : s[i].agl # None /\ s[i].agl > GateAgl}
<1>1. GateTime(s) = IF H = {} THEN None ELSE s[Highest(H)].t
  BY DEF GateTime, LastAt
<1>2. H \subseteq Int /\ H \subseteq 1 .. Len(s) /\ Len(s) \in Int /\ \A x \in H : x <= Len(s)
  OBVIOUS
<1> HIDE DEF H
<1>3. H # {} => Highest(H) \in H
  BY <1>2, HighestIs
<1> QED
  BY <1>1, <1>2, <1>3

InFlare(s) == {i \in DOMAIN s : s[i].agl # None /\ s[i].agl >= FlareAgl}
LEMMA FlareIs ==
  ASSUME NEW S, NEW s \in Seq(S)
  PROVE  /\ FlareEntry(s) = IF InFlare(s) = {} THEN None ELSE s[Highest(InFlare(s))].t
         /\ InFlare(s) # {} => /\ Highest(InFlare(s)) \in 1 .. Len(s)
                               /\ Highest(InFlare(s)) \in InFlare(s)
                               /\ \A i \in InFlare(s) : i <= Highest(InFlare(s))
<1> DEFINE H == InFlare(s)
<1>1. FlareEntry(s) = IF H = {} THEN None ELSE s[Highest(H)].t
  BY DEF FlareEntry, LastAt, InFlare
<1>2. H \subseteq Int /\ H \subseteq 1 .. Len(s) /\ Len(s) \in Int /\ \A x \in H : x <= Len(s)
  BY DEF InFlare
<1> HIDE DEF H
<1>3. H # {} => Highest(H) \in H /\ \A i \in H : i <= Highest(H)
  BY <1>2, HighestIs
<1> QED
  BY <1>1, <1>2, <1>3 DEF H

\* An excursion: a stretch not lined up, with lined up points at its ends.
IsExcursion(tr, r) ==
  /\ r \in (1 .. Len(tr)) \X (1 .. Len(tr)) /\ r[1] <= r[2]
  /\ \A i \in r[1] .. r[2] : Size(tr[i].ang) > Align
  /\ r[1] > 1 => ~(Size(tr[r[1] - 1].ang) > Align)
  /\ r[2] < Len(tr) => ~(Size(tr[r[2] + 1].ang) > Align)

LEMMA ExcursionsAre ==
  ASSUME NEW tr, Len(tr) \in Nat, NEW r
  PROVE  r \in Excursions(tr) <=> IsExcursion(tr, r)
<1> DEFINE n == Len(tr)
           In(i) == Size(tr[i].ang) > Align
<1>1. r \in Excursions(tr) <=>
        /\ r \in (1 .. n) \X (1 .. n) /\ r[1] <= r[2]
        /\ In(r[1]) /\ \A i \in r[1] .. (r[2] - 1) : In(i) /\ In(i + 1)
        /\ r[1] > 1 => ~(In(r[1] - 1) /\ In((r[1] - 1) + 1))
        /\ r[2] < n => ~(In(r[2]) /\ In(r[2] + 1))
  BY DEF Excursions, Runs
<1> HIDE DEF In
<1>2. SUFFICES ASSUME r \in (1 .. n) \X (1 .. n), r[1] <= r[2]
               PROVE  r \in Excursions(tr) <=> IsExcursion(tr, r)
  BY <1>1 DEF IsExcursion
<1>3. r[1] \in 1 .. n /\ r[2] \in 1 .. n
  BY <1>2
<1> DEFINE a == r[1]
           b == r[2]
<1>4. a \in Int /\ b \in Int /\ a <= b
  BY <1>2, <1>3
<1>5. IsExcursion(tr, r) <=>
        /\ \A i \in a .. b : In(i)
        /\ a > 1 => ~In(a - 1)
        /\ b < n => ~In(b + 1)
  BY <1>2 DEF IsExcursion, In
<1> HIDE DEF a, b
<1>6. (a - 1) + 1 = a
  BY <1>4
<1>7. (\A i \in a .. b : In(i)) <=> (In(a) /\ \A i \in a .. (b - 1) : In(i) /\ In(i + 1))
  <2>1. ASSUME \A i \in a .. b : In(i) PROVE In(a) /\ \A i \in a .. (b - 1) : In(i) /\ In(i + 1)
    <3>1. a \in a .. b /\ \A i \in a .. (b - 1) : i \in a .. b /\ i + 1 \in a .. b
      BY <1>4
    <3> QED
      BY <2>1, <3>1
  <2>2. ASSUME In(a), \A i \in a .. (b - 1) : In(i) /\ In(i + 1), NEW i \in a .. b PROVE In(i)
    <3>1. i = a \/ (i - 1 \in a .. (b - 1) /\ (i - 1) + 1 = i)
      BY <1>4
    <3> QED
      BY <2>2, <3>1
  <2> QED
    BY <2>1, <2>2
<1>8. (\A i \in a .. b : In(i)) => In(a) /\ In(b)
  <2>1. a \in a .. b /\ b \in a .. b
    BY <1>4
  <2> QED
    BY <2>1
<1>9. r \in Excursions(tr) <=>
        /\ In(a) /\ \A i \in a .. (b - 1) : In(i) /\ In(i + 1)
        /\ a > 1 => ~(In(a - 1) /\ In((a - 1) + 1))
        /\ b < n => ~(In(b) /\ In(b + 1))
  BY <1>1, <1>2 DEF a, b
<1> QED
  BY <1>5, <1>6, <1>7, <1>8, <1>9

\* The turns onto final, of which the rollout ends the last.
Lasting(tr, flare) ==
  {r \in Excursions(tr) : /\ flare = None \/ tr[r[1]].t <= flare
                          /\ Span(tr, r) >= MinExcursion}
LEMMA RolloutIs ==
  ASSUME NEW S, NEW s, NEW tr \in Seq(S)
  PROVE  LET L == Lasting(tr, FlareEntry(s))
             k == RolloutIndex(s, tr)
         IN  /\ k = IF L = {} THEN None ELSE Highest({r[2] : r \in L})
             /\ L # {} => k \in 1 .. Len(tr) /\ k # None /\ \E r \in L : k = r[2]
<1> DEFINE L == Lasting(tr, FlareEntry(s))
           E == {r[2] : r \in L}
<1>1. RolloutIndex(s, tr) = IF L = {} THEN None ELSE Highest(E)
  BY DEF RolloutIndex, Lasting
<1>2. \A r \in L : r[2] \in 1 .. Len(tr)
  BY ExcursionsAre DEF Lasting, IsExcursion
<1>3. E \subseteq Int /\ Len(tr) \in Int /\ (\A x \in E : x <= Len(tr)) /\ E \subseteq 1 .. Len(tr)
  BY <1>2
<1>4. L # {} => E # {}
  OBVIOUS
<1> HIDE DEF L
<1>5. L # {} => Highest(E) \in E
  BY <1>3, <1>4, HighestIs
<1>6. None \notin Int
  BY CircleAssumption
<1> QED
  BY <1>1, <1>3, <1>5, <1>6 DEF L

LEMMA PartSame ==
  ASSUME NEW S, NEW p \in Seq(S), NEW tr \in Seq(S), Len(p) <= Len(tr),
         \A k \in 1 .. Len(p) : p[k] = tr[k],
         NEW m \in Nat, NEW n \in Nat, 1 <= m, m <= n + 1, n <= Len(p)
  PROVE  SubSeq(p, m, n) = SubSeq(tr, m, n)
<1> DEFINE u == SubSeq(p, m, n)
           v == SubSeq(tr, m, n)
<1>1. Len(p) \in Nat /\ Len(tr) \in Nat /\ n <= Len(tr)
  OBVIOUS
<1>2. /\ u \in Seq(S) /\ Len(u) = n - m + 1
      /\ \A i \in 1 .. (n - m + 1) : m + i - 1 \in 1 .. Len(p) /\ u[i] = p[m + i - 1]
  BY PartIs
<1>3. /\ v \in Seq(S) /\ Len(v) = n - m + 1
      /\ \A i \in 1 .. (n - m + 1) : m + i - 1 \in 1 .. Len(tr) /\ v[i] = tr[m + i - 1]
  BY <1>1, PartIs
<1> HIDE DEF u, v
<1>4. u = v
  BY <1>2, <1>3, SeqEqual
<1> QED
  BY <1>4 DEF u, v

\* Cutting an approach where the flare begins leaves the beginning of it and
\* of its track.
LEMMA FlareCut ==
  ASSUME NEW S, NEW s \in Seq(S), IsFlown(s), \A i \in 1 .. Len(s) : s[i].t \in Nat,
         FlareEntry(s) # None
  PROVE  LET before == Within(s, 0, FlareEntry(s))
             p == Track(before)
             tr == Track(s)
         IN  /\ FlareEntry(before) = FlareEntry(s) /\ FlareEntry(s) \in Int
             /\ p \in Seq(S) /\ IsTracked(p) /\ Len(p) <= Len(tr)
             /\ \A k \in 1 .. Len(p) : p[k] = tr[k] /\ tr[k].t <= FlareEntry(s)
             /\ \A k \in 1 .. Len(tr) : tr[k].t <= FlareEntry(s) => k \in 1 .. Len(p)
<1> DEFINE flare == FlareEntry(s)
           H == InFlare(s)
           m == Highest(H)
           before == Within(s, 0, flare)
           tr == Track(s)
           p == Track(before)
<1>1. Len(s) \in Nat /\ DOMAIN s = 1 .. Len(s)
  OBVIOUS
<1>2. flare = s[m].t /\ m \in 1 .. Len(s) /\ m \in H /\ \A i \in H : i <= m
  BY FlareIs
<1> HIDE DEF m, flare
<1>3. \A i \in 1 .. Len(s) : s[i].t <= flare <=> i <= m
  <2>1. TAKE i \in 1 .. Len(s)
  <2>2. s[i].t \in Int /\ s[m].t \in Int
    BY <1>2 DEF IsFlown
  <2>3. i < m => s[i].t < s[m].t
    BY <1>2 DEF IsFlown
  <2>4. m < i => s[m].t < s[i].t
    BY <1>2 DEF IsFlown
  <2> QED
    BY <1>1, <1>2, <2>2, <2>3, <2>4
<1>4. before = SubSeq(s, 1, m)
  <2> DEFINE K == {i \in DOMAIN s : 0 <= s[i].t /\ s[i].t <= flare}
  <2>1. before = Chosen(s, K)
    BY DEF Within
  <2>2. \A j \in 1 .. Len(s) : j \in K <=> j <= m
    BY <1>1, <1>3
  <2>3. m \in 0 .. Len(s)
    BY <1>1, <1>2
  <2> HIDE DEF K, before
  <2> QED
    BY <2>1, <2>2, <2>3, ChosenBegin
<1>5. /\ before \in Seq(S) /\ Len(before) = m /\ DOMAIN before = 1 .. m
      /\ \A i \in 1 .. m : i \in 1 .. Len(s) /\ before[i] = s[i]
  <2> HIDE DEF before
  <2>1. m \in Nat /\ 1 <= m /\ m <= Len(s) /\ 1 <= m + 1 /\ m - 1 + 1 = m
    BY <1>1, <1>2
  <2>2. /\ before \in Seq(S) /\ Len(before) = m
        /\ \A i \in 1 .. m : 1 + i - 1 \in 1 .. Len(s) /\ before[i] = s[1 + i - 1]
    BY <1>4, <2>1, PartIs
  <2>3. \A i \in 1 .. m : 1 + i - 1 = i
    BY <2>1
  <2>4. DOMAIN before = 1 .. m
    BY <2>2
  <2> QED
    BY <2>2, <2>3, <2>4
<1>6. IsFlown(before)
  <2> HIDE DEF before
  <2>1. 1 \in Nat /\ m \in Nat /\ 1 <= 1 /\ 1 <= m + 1 /\ m <= Len(s)
    BY <1>1, <1>2
  <2> QED
    BY <1>4, <2>1, PartFlown
<1>7. FlareEntry(before) = flare
  <2> HIDE DEF before
  <2>1. InFlare(before) = H
    <3>1. \A i \in H : i \in 1 .. m
      <4>1. TAKE i \in H
      <4>2. i \in 1 .. Len(s) /\ i <= m
        BY <1>1, <1>2 DEF InFlare
      <4> QED
        BY <1>1, <1>2, <4>2
    <3>2. \A i \in 1 .. m : i \in InFlare(before) <=> i \in H
      BY <1>1, <1>5 DEF InFlare
    <3>3. InFlare(before) \subseteq 1 .. m
      BY <1>5 DEF InFlare
    <3> QED
      BY <3>1, <3>2, <3>3
  <2>2. H # {} /\ Highest(InFlare(before)) = m
    BY <1>2, <2>1 DEF m
  <2>3. FlareEntry(before) = before[m].t
    BY <1>5, <2>1, <2>2, FlareIs
  <2>4. m \in 1 .. m
    BY <1>1, <1>2
  <2> QED
    BY <1>2, <1>5, <2>3, <2>4
<1>8. p \in Seq(S) /\ Len(p) <= Len(tr) /\ \A k \in 1 .. Len(p) : p[k] = tr[k]
  <2> DEFINE K == {i \in DOMAIN s : s[i].ang # None}
             L == {i \in DOMAIN before : before[i].ang # None}
  <2>1. tr = Chosen(s, K) /\ p = Chosen(SubSeq(s, 1, m), L)
    <3>1. p = Chosen(before, L)
      BY DEF Track
    <3> QED
      BY <1>4, <3>1 DEF Track
  <2>2. \A j \in 1 .. m : j \in K <=> j \in L
    <3> HIDE DEF before
    <3> QED
      BY <1>1, <1>5
  <2>3. m \in 0 .. Len(s)
    BY <1>1, <1>2
  <2> HIDE DEF K, L, tr, p
  <2> QED
    BY <2>1, <2>2, <2>3, ChosenFirst
<1> HIDE DEF before
<1>9. IsTracked(p) /\ IsTracked(tr) /\ tr \in Seq(S)
  BY <1>5, <1>6, TrackIs
<1>10. \A k \in 1 .. Len(p) : \E i \in 1 .. m : p[k] = s[i]
  <2>1. \A k \in 1 .. Len(p) : \E i \in 1 .. m : p[k] = before[i]
    BY <1>5, <1>6, TrackIs
  <2> QED
    BY <1>5, <2>1
<1>11. \A i \in 1 .. m : s[i].ang # None => \E k \in 1 .. Len(p) : p[k] = s[i]
  <2>1. \A i \in 1 .. m : before[i].ang # None => \E k \in 1 .. Len(p) : p[k] = before[i]
    BY <1>5, <1>6, TrackIs
  <2> QED
    BY <1>5, <2>1
<1>12. \A k \in 1 .. Len(tr) : \E i \in 1 .. Len(s) : tr[k] = s[i]
  BY TrackIs
<1> HIDE DEF p, tr
<1>13. \A k \in 1 .. Len(p) : tr[k].t <= flare
  <2>1. TAKE k \in 1 .. Len(p)
  <2>2. PICK i \in 1 .. m : p[k] = s[i]
    BY <1>10
  <2>3. i \in 1 .. Len(s) /\ i <= m
    BY <1>1, <1>2, <1>5
  <2> QED
    BY <1>3, <1>8, <2>2, <2>3
<1>14. ASSUME NEW k \in 1 .. Len(tr), tr[k].t <= flare PROVE k \in 1 .. Len(p)
  <2>1. PICK i \in 1 .. Len(s) : tr[k] = s[i]
    BY <1>12
  <2>2. i \in 1 .. m
    BY <1>1, <1>2, <1>3, <1>14, <2>1
  <2>3. tr[k].ang # None
    BY <1>9, CircleAssumption DEF IsTracked
  <2>4. PICK l \in 1 .. Len(p) : p[l] = s[i]
    BY <1>11, <2>1, <2>2, <2>3
  <2>5. l \in 1 .. Len(tr) /\ tr[l] = tr[k]
    BY <1>8, <1>9, <2>1, <2>4
  <2>6. tr[k].t \in Int
    BY <1>9 DEF IsTracked, IsFlown
  <2>7. ~(l < k) /\ ~(k < l)
    BY <1>9, <2>5, <2>6 DEF IsTracked, IsFlown
  <2>8. l = k
    BY <1>8, <1>9, <2>5, <2>7
  <2> QED
    BY <2>8
<1>15. flare \in Int
  BY <1>2 DEF IsFlown
<1> QED
  BY <1>7, <1>8, <1>9, <1>13, <1>14, <1>15 DEF p, tr, before, flare

\* The turns begun by then are those of the beginning, which is lined up in
\* the end.
LEMMA LastingSame ==
  ASSUME NEW S, NEW p \in Seq(S), NEW tr \in Seq(S), IsTracked(tr), Len(p) <= Len(tr),
         NEW flare, \A k \in 1 .. Len(p) : p[k] = tr[k] /\ tr[k].t <= flare,
         \A k \in 1 .. Len(tr) : tr[k].t <= flare => k \in 1 .. Len(p),
         p # <<>>, Size(p[Len(p)].ang) <= Align, flare # None
  PROVE  /\ Lasting(p, flare) = Lasting(tr, flare)
         /\ \A r \in Lasting(tr, flare) : r[2] < Len(p)
<1> DEFINE m == Len(p)
           n == Len(tr)
           In(q) == Size(q.ang) > Align
<1>1. m \in Nat /\ n \in Nat /\ m >= 1 /\ m <= n /\ m \in 1 .. m /\ m \in 1 .. n
  OBVIOUS
<1>2. ~In(p[m]) /\ p[m] = tr[m]
  <2>1. p[m] = tr[m]
    BY <1>1
  <2>2. Size(p[m].ang) \in Int
    BY <1>1, <2>1 DEF IsTracked, Size
  <2>3. Align \in Nat
    BY CircleAssumption
  <2> QED
    BY <2>1, <2>2, <2>3
<1>3. ASSUME NEW r
      PROVE  /\ r \in Excursions(p) <=>
                  /\ r \in (1 .. m) \X (1 .. m) /\ r[1] <= r[2] /\ \A i \in r[1] .. r[2] : In(p[i])
                  /\ r[1] > 1 => ~In(p[r[1] - 1])
                  /\ r[2] < m => ~In(p[r[2] + 1])
             /\ r \in Excursions(tr) <=>
                  /\ r \in (1 .. n) \X (1 .. n) /\ r[1] <= r[2] /\ \A i \in r[1] .. r[2] : In(tr[i])
                  /\ r[1] > 1 => ~In(tr[r[1] - 1])
                  /\ r[2] < n => ~In(tr[r[2] + 1])
  BY <1>1, ExcursionsAre DEF IsExcursion
<1>4. \A k \in 1 .. m : p[k] = tr[k]
  OBVIOUS
<1> HIDE DEF In, m, n
<1>5. ASSUME NEW r \in (1 .. m) \X (1 .. m), r[1] <= r[2], r[2] < m
      PROVE  r \in Excursions(p) <=> r \in Excursions(tr)
  <2>1. r[1] \in 1 .. m /\ r[2] \in 1 .. m /\ r \in (1 .. n) \X (1 .. n) /\ r[2] < n
    BY <1>1, <1>5
  <2>2. \A i \in r[1] .. r[2] : i \in 1 .. m
    BY <1>1, <2>1
  <2>3. r[2] + 1 \in 1 .. m /\ (r[1] > 1 => r[1] - 1 \in 1 .. m)
    BY <1>1, <1>5, <2>1
  <2> QED
    BY <1>3, <1>4, <1>5, <2>1, <2>2, <2>3
<1>6. ASSUME NEW r \in Excursions(p) PROVE r \in (1 .. m) \X (1 .. m) /\ r[1] <= r[2] /\ r[2] < m
  <2>1. r \in (1 .. m) \X (1 .. m) /\ r[1] <= r[2] /\ \A i \in r[1] .. r[2] : In(p[i])
    BY <1>3
  <2>2. r[1] \in 1 .. m /\ r[2] \in 1 .. m
    BY <2>1
  <2>3. r[2] \in r[1] .. r[2]
    BY <1>1, <2>1, <2>2
  <2>4. r[2] # m
    BY <1>2, <2>1, <2>3
  <2> QED
    BY <1>1, <2>1, <2>2, <2>4
<1>7. ASSUME NEW r \in Excursions(tr), tr[r[1]].t <= flare
      PROVE  r \in (1 .. m) \X (1 .. m) /\ r[1] <= r[2] /\ r[2] < m
  <2>1. r \in (1 .. n) \X (1 .. n) /\ r[1] <= r[2] /\ \A i \in r[1] .. r[2] : In(tr[i])
    BY <1>3
  <2>2. r[1] \in 1 .. n /\ r[2] \in 1 .. n
    BY <2>1
  <2>3. r[1] \in 1 .. m
    BY <1>7, <2>2 DEF m, n
  <2>4. ~(m \in r[1] .. r[2])
    BY <1>2, <2>1
  <2>5. r[2] < m
    BY <1>1, <2>2, <2>3, <2>4
  <2>6. r[2] \in 1 .. m /\ r = <<r[1], r[2]>>
    BY <1>1, <2>1, <2>2, <2>5
  <2> QED
    BY <2>1, <2>3, <2>5, <2>6
<1>8. ASSUME NEW r, r \in (1 .. m) \X (1 .. m)
      PROVE  Span(p, r) = Span(tr, r) /\ p[r[1]] = tr[r[1]] /\ tr[r[1]].t <= flare
  <2>1. r[1] \in 1 .. m /\ r[2] \in 1 .. m
    BY <1>8
  <2> QED
    BY <1>4, <2>1 DEF Span, m
<1>9. \A r : r \in Lasting(p, flare) <=> r \in Lasting(tr, flare)
  <2>1. TAKE r
  <2>2. ASSUME r \in Lasting(p, flare) PROVE r \in Lasting(tr, flare)
    <3>1. r \in Excursions(p) /\ Span(p, r) >= MinExcursion
      BY <2>2 DEF Lasting
    <3>2. r \in Excursions(tr)
      BY <1>5, <1>6, <3>1
    <3> QED
      BY <1>6, <1>8, <3>1, <3>2 DEF Lasting
  <2>3. ASSUME r \in Lasting(tr, flare) PROVE r \in Lasting(p, flare)
    <3>1. r \in Excursions(tr) /\ Span(tr, r) >= MinExcursion /\ tr[r[1]].t <= flare
      BY <2>3 DEF Lasting
    <3>2. r \in (1 .. m) \X (1 .. m) /\ r[1] <= r[2] /\ r[2] < m
      BY <1>7, <3>1
    <3>3. r \in Excursions(p)
      BY <1>5, <3>1, <3>2
    <3> QED
      BY <1>8, <3>1, <3>2, <3>3 DEF Lasting
  <2> QED
    BY <2>2, <2>3
<1>10. ASSUME NEW r \in Lasting(tr, flare) PROVE r[2] < m
  BY <1>7 DEF Lasting
<1>11. Lasting(p, flare) = Lasting(tr, flare)
  <2> DEFINE A == Lasting(p, flare)
             B == Lasting(tr, flare)
  <2>1. \A r : r \in A <=> r \in B
    BY <1>9
  <2> HIDE DEF A, B
  <2>2. A = B
    BY <2>1
  <2> QED
    BY <2>2 DEF A, B
<1> QED
  BY <1>10, <1>11 DEF m

LEMMA FlareHolds ==
  ASSUME NEW S, NEW s \in Seq(S), IsFlown(s), \A i \in 1 .. Len(s) : s[i].t \in Nat,
         FlareEntry(s) # None
  PROVE  LET g == Segments(s)
             before == Within(s, 0, FlareEntry(s))
             b == Segments(before)
         IN  (Track(before) # <<>> /\ Size(Final(Track(before)).ang) <= Align) =>
               g.rollout = b.rollout /\ g.downwind = b.downwind /\ g.break = b.break
<1> DEFINE flare == FlareEntry(s)
           before == Within(s, 0, flare)
           p == Track(before)
           tr == Track(s)
           k == RolloutIndex(s, tr)
<1>1. SUFFICES ASSUME p # <<>>, Size(p[Len(p)].ang) <= Align
               PROVE  LET g == Segments(s) b == Segments(before)
                      IN  g.rollout = b.rollout /\ g.downwind = b.downwind /\ g.break = b.break
  BY DEF Final
<1>2. /\ FlareEntry(before) = flare /\ flare \in Int /\ p \in Seq(S) /\ IsTracked(p) /\ Len(p) <= Len(tr)
      /\ \A j \in 1 .. Len(p) : p[j] = tr[j] /\ tr[j].t <= flare
      /\ \A j \in 1 .. Len(tr) : tr[j].t <= flare => j \in 1 .. Len(p)
  BY FlareCut
<1>3. tr \in Seq(S) /\ IsTracked(tr)
  BY TrackIs
<1>4. flare # None
  OBVIOUS
<1> HIDE DEF flare, tr, p, before, k
<1>5. Lasting(p, flare) = Lasting(tr, flare) /\ \A r \in Lasting(tr, flare) : r[2] < Len(p)
  BY <1>1, <1>2, <1>3, <1>4, LastingSame
<1> DEFINE L == Lasting(tr, flare)
<1>6. k = (IF L = {} THEN None ELSE Highest({r[2] : r \in L}))
      /\ (L # {} => k \in 1 .. Len(tr) /\ k # None /\ \E r \in L : k = r[2])
  BY <1>3, RolloutIs DEF flare, k
<1>7. RolloutIndex(before, p) = k
  <2>1. RolloutIndex(before, p) = IF Lasting(p, flare) = {} THEN None
                                  ELSE Highest({r[2] : r \in Lasting(p, flare)})
    BY <1>2, RolloutIs
  <2> HIDE DEF L
  <2>2. Lasting(p, flare) = L
    BY <1>5 DEF L
  <2> QED
    BY <1>6, <2>1, <2>2
<1>8. Segments(s) = LegsFrom(s, tr, k) /\ Segments(before) = LegsFrom(before, p, k)
  BY <1>7 DEF Segments, p, tr, k
<1>9. CASE L = {}
  <2>1. k = None
    BY <1>6, <1>9
  <2> QED
    BY <1>8, <2>1 DEF LegsFrom, Legs
<1>10. CASE L # {}
  <2>1. k # None /\ k \in 1 .. Len(p) /\ k \in Nat /\ Len(p) \in Nat
    <3>1. k \in 1 .. Len(tr) /\ k # None /\ k < Len(p)
      BY <1>5, <1>6, <1>10
    <3> QED
      BY <1>2, <1>3, <3>1
  <2> DEFINE part == SubSeq(tr, 1, k)
             leg == DownwindLeg(part)
  <2>2. SubSeq(p, 1, k) = part /\ p[k] = tr[k]
    <3>1. 1 \in Nat /\ 1 <= 1 /\ 1 <= k + 1 /\ k <= Len(p)
      BY <2>1
    <3>2. SubSeq(p, 1, k) = SubSeq(tr, 1, k)
      BY <1>2, <1>3, <2>1, <3>1, PartSame
    <3> QED
      BY <1>2, <2>1, <3>2
  <2>3. /\ part \in Seq(S) /\ IsTracked(part) /\ Len(part) = k
    <3>1. 1 \in Nat /\ 1 <= 1 /\ 1 <= k + 1 /\ k <= Len(tr) /\ k - 1 + 1 = k /\ Len(tr) \in Nat
      BY <1>2, <1>3, <2>1
    <3>2. part \in Seq(S) /\ IsTracked(part)
      BY <1>3, <2>1, <3>1, PartTracked
    <3>3. Len(part) = k - 1 + 1
      BY <1>3, <2>1, <3>1, PartIs
    <3> QED
      BY <3>1, <3>2, <3>3
  <2> HIDE DEF part
  <2>4. /\ Segments(s) = Legs(s, tr, tr[k].t, FinalStart(tr[k].t, GateTime(s)), leg)
        /\ Segments(before) = Legs(before, p, tr[k].t, FinalStart(tr[k].t, GateTime(before)), leg)
    BY <1>8, <2>1, <2>2 DEF LegsFrom, part
  <2>5. CASE leg = None
    BY <2>4, <2>5 DEF Legs
  <2>6. CASE leg # None
    <3>1. leg \in (1 .. k) \X (1 .. k) /\ leg[1] <= leg[2]
      BY <2>3, <2>6, DownwindIs
    <3> HIDE DEF leg
    <3>2. leg[1] \in 1 .. k /\ leg[2] \in 1 .. k
      BY <3>1
    <3>3. /\ leg[1] \in Nat /\ leg[2] \in Nat /\ 1 <= leg[1] /\ leg[1] <= leg[2] + 1 /\ leg[2] <= Len(p)
          /\ leg[1] - 1 \in Nat /\ 1 <= (leg[1] - 1) + 1 /\ leg[1] - 1 <= Len(p) /\ 1 \in Nat /\ 1 <= 1
      BY <2>1, <3>1, <3>2
    <3> DEFINE Agree(m, n) == SubSeq(p, m, n) = SubSeq(tr, m, n)
    <3>11. \A m, n \in Nat : 1 <= m /\ m <= n + 1 /\ n <= Len(p) => Agree(m, n)
      BY <1>2, <1>3, PartSame
    <3> HIDE DEF Agree
    <3>12. Agree(leg[1], leg[2]) /\ Agree(1, leg[1] - 1)
      BY <3>3, <3>11
    <3>4. SubSeq(p, leg[1], leg[2]) = SubSeq(tr, leg[1], leg[2])
      BY <3>12 DEF Agree
    <3>5. SubSeq(p, 1, leg[1] - 1) = SubSeq(tr, 1, leg[1] - 1)
      BY <3>12 DEF Agree
    <3> DEFINE onS == FinalStart(tr[k].t, GateTime(s))
               onB == FinalStart(tr[k].t, GateTime(before))
               there == tr[k].t
    <3> HIDE DEF onS, onB, there
    <3>6. Segments(s) = Legs(s, tr, there, onS, leg) /\ Segments(before) = Legs(before, p, there, onB, leg)
      BY <2>4 DEF onS, onB, there
    <3> DEFINE legS == Legs(s, tr, there, onS, leg)
               legB == Legs(before, p, there, onB, leg)
    <3>7. legS.rollout = there /\ legB.rollout = there
      BY DEF Legs
    <3>8. legS.downwind = SubSeq(tr, leg[1], leg[2]) /\ legB.downwind = SubSeq(p, leg[1], leg[2])
      BY <2>6 DEF Legs
    <3>9. legS.break = BreakLeg(SubSeq(tr, 1, leg[1] - 1)) /\ legB.break = BreakLeg(SubSeq(p, 1, leg[1] - 1))
      BY <2>6 DEF Legs
    <3> HIDE DEF legS, legB
    <3>10. legS.rollout = legB.rollout /\ legS.downwind = legB.downwind /\ legS.break = legB.break
      BY <3>4, <3>5, <3>7, <3>8, <3>9
    <3> QED
      BY <3>6, <3>10 DEF legS, legB
  <2> QED
    BY <2>5, <2>6
<1> QED
  BY <1>9, <1>10

\* The final starts at the turn onto it or at the gate, and is flown.
LEMMA FinalIs ==
  ASSUME NEW S, NEW s \in Seq(S), IsFlown(s), NEW m \in 1 .. Len(s)
  PROVE  LET start == FinalStart(s[m].t, GateTime(s))
         IN  /\ start \in Int /\ s[m].t <= start
             /\ Since(s, start) # <<>>
<1> DEFINE rollout == s[m].t
           gate == GateTime(s)
           start == FinalStart(rollout, gate)
<1>1. rollout \in Int /\ rollout # None /\ \A i \in 1 .. Len(s) : s[i].t \in Int
  BY CircleAssumption DEF IsFlown
<1>2. gate = None \/ \E i \in 1 .. Len(s) : gate = s[i].t
  BY GateIs
<1> HIDE DEF rollout, gate
<1>3. (start = rollout \/ (start = gate /\ gate # None)) /\ start \in Int /\ rollout <= start
  <2>1. CASE gate = None
    BY <1>1, <2>1 DEF FinalStart
  <2>2. CASE gate # None
    <3>1. gate \in Int
      BY <1>1, <1>2, <2>2
    <3>2. start = Highest({rollout, gate})
      BY <1>1, <2>2 DEF FinalStart
    <3> DEFINE n == IF rollout <= gate THEN gate ELSE rollout
               T == {rollout, gate}
    <3>3. n \in Int /\ \A x \in T : x <= n
      BY <1>1, <3>1
    <3>4. T \subseteq Int /\ T # {}
      BY <1>1, <3>1
    <3> HIDE DEF n, T
    <3>5. Highest(T) \in T /\ \A y \in T : y <= Highest(T)
      BY <3>3, <3>4, HighestIs
    <3> QED
      BY <1>1, <2>2, <3>1, <3>2, <3>5 DEF T
  <2> QED
    BY <2>1, <2>2
<1>4. \E i \in 1 .. Len(s) : s[i].t = start
  BY <1>2, <1>3 DEF rollout
<1> HIDE DEF start
<1>5. PICK i \in 1 .. Len(s) : s[i].t = start
  BY <1>4
<1>6. \E k \in 1 .. Len(Since(s, start)) : Since(s, start)[k] = s[i]
  BY <1>1, <1>3, <1>5, SinceIs
<1> QED
  BY <1>3, <1>6 DEF start, gate, rollout

\* What an approach is cut into lies in order, its downwind is flown the other
\* way and its break is one turn that fits.
IsCut(g, S, tr) ==
  /\ LegsInOrder(g)
  /\ g.rollout # None => g.rollout \in Int
  /\ g.downwind \in Seq(S) /\ IsTracked(g.downwind) /\ FlownIn(g.downwind, tr)
  /\ \A i \in 1 .. Len(g.downwind) : Size(g.downwind[i].ang) >= Circle \div 2 - Cone
  /\ g.break \in Seq(S) /\ (g.break # <<>> => IsOneTurn(g.break, tr) /\ Fits(g.break))

LEMMA SegmentsAre ==
  ASSUME NEW S, NEW s \in Seq(S), IsFlown(s)
  PROVE  IsCut(Segments(s), S, Track(s))
<1> DEFINE tr == Track(s)
           k == RolloutIndex(s, tr)
           L == Lasting(tr, FlareEntry(s))
<1>1. /\ tr \in Seq(S) /\ IsTracked(tr)
      /\ \A j \in 1 .. Len(tr) : \E i \in 1 .. Len(s) : tr[j] = s[i]
  BY TrackIs
<1> HIDE DEF tr
<1>2. (L = {} => k = None) /\ (L # {} => k \in 1 .. Len(tr) /\ k # None)
  BY <1>1, RolloutIs
<1>3. Segments(s) = LegsFrom(s, tr, k)
  BY DEF Segments, tr
<1> HIDE DEF L, k
<1>4. CASE k = None
  <2> DEFINE start == GateTime(s)
             g == Legs(s, tr, None, start, None)
  <2>1. Segments(s) = g
    BY <1>3, <1>4 DEF LegsFrom
  <2>2. g.rollout = None /\ g.start = start /\ g.downwind = <<>> /\ g.break = <<>>
        /\ g.final = IF start = None THEN <<>> ELSE Since(s, start)
    BY DEF Legs
  <2> HIDE DEF g, start
  <2>3. \A i \in DOMAIN g.final : g.start <= g.final[i].t
    <3>1. CASE start = None
      BY <2>2, <3>1
    <3>2. CASE start # None
      <4>1. PICK m \in 1 .. Len(s) : start = s[m].t
        BY <3>2, GateIs DEF start
      <4>2. Since(s, start) \in Seq(S) /\ IsFlown(Since(s, start))
            /\ \A i \in 1 .. Len(Since(s, start)) : Since(s, start)[i].t >= start
        BY SinceIs
      <4>3. start \in Int
        BY <4>1 DEF IsFlown
      <4> QED
        BY <2>2, <3>2, <4>2, <4>3 DEF IsFlown
    <3> QED
      BY <3>1, <3>2
  <2>4. LegsInOrder(g)
    BY <2>2, <2>3 DEF LegsInOrder, DownwindJudged
  <2> QED
    BY <2>1, <2>2, <2>4 DEF IsCut, IsTracked, IsFlown, FlownIn
<1>5. CASE k # None
  <2>1. k \in 1 .. Len(tr) /\ Len(tr) \in Nat
    BY <1>1, <1>2, <1>5
  <2> DEFINE part == SubSeq(tr, 1, k)
             leg == DownwindLeg(part)
             there == tr[k].t
             start == FinalStart(there, GateTime(s))
             g == Legs(s, tr, there, start, leg)
  <2>2. Segments(s) = g
    BY <1>3, <1>5 DEF LegsFrom
  <2>3. PICK m \in 1 .. Len(s) : tr[k] = s[m]
    BY <1>1, <2>1
  <2>4. start \in Int /\ there <= start /\ Since(s, start) # <<>> /\ start # None
    <3>1. start \in Int /\ there <= start /\ Since(s, start) # <<>>
      BY <2>3, FinalIs
    <3> QED
      BY <3>1, CircleAssumption
  <2>5. there \in Int /\ there # None
    BY <2>3, CircleAssumption DEF IsFlown
  <2>6. /\ part \in Seq(S) /\ IsTracked(part) /\ Len(part) = k
        /\ \A i \in 1 .. k : part[i] = tr[i]
    <3>1. 1 \in Nat /\ 1 <= 1 /\ 1 <= k + 1 /\ k <= Len(tr) /\ k \in Nat /\ k - 1 + 1 = k
      BY <2>1
    <3>2. part \in Seq(S) /\ IsTracked(part)
      BY <1>1, <3>1, PartTracked
    <3>3. Len(part) = k - 1 + 1 /\ \A i \in 1 .. (k - 1 + 1) : part[i] = tr[1 + i - 1]
      BY <1>1, <3>1, PartIs
    <3>4. \A i \in 1 .. k : 1 + i - 1 = i
      BY <2>1
    <3> QED
      BY <3>1, <3>2, <3>3, <3>4
  <2>7. leg # None => /\ leg \in (1 .. k) \X (1 .. k) /\ leg[1] <= leg[2]
                      /\ \A i \in leg[1] .. leg[2] : Size(part[i].ang) >= Circle \div 2 - Cone
    BY <2>6, DownwindIs
  <2> HIDE DEF part, leg, start
  <2>8. /\ g.rollout = there /\ g.start = start
        /\ g.final = Since(s, start)
        /\ g.downwind = IF leg = None THEN <<>> ELSE SubSeq(tr, leg[1], leg[2])
        /\ g.break = IF leg = None THEN <<>> ELSE BreakLeg(SubSeq(tr, 1, leg[1] - 1))
    BY <2>4 DEF Legs
  <2> HIDE DEF g
  <2>9. \A i \in DOMAIN g.final : g.start <= g.final[i].t
    <3>1. Since(s, start) \in Seq(S) /\ IsFlown(Since(s, start))
          /\ \A i \in 1 .. Len(Since(s, start)) : Since(s, start)[i].t >= start
      BY SinceIs
    <3> QED
      BY <2>4, <2>8, <3>1 DEF IsFlown
  <2>10. g.final # <<>>
    BY <2>4, <2>8
  <2>11. CASE leg = None
    <3>1. g.downwind = <<>> /\ g.break = <<>>
      BY <2>8, <2>11
    <3>2. LegsInOrder(g)
      BY <2>4, <2>5, <2>8, <2>9, <3>1 DEF LegsInOrder, DownwindJudged
    <3> QED
      <4>1. g.downwind \in Seq(S) /\ IsTracked(g.downwind) /\ FlownIn(g.downwind, tr)
            /\ \A i \in 1 .. Len(g.downwind) : Size(g.downwind[i].ang) >= Circle \div 2 - Cone
        BY <3>1 DEF IsTracked, IsFlown, FlownIn
      <4>2. g.break \in Seq(S)
        BY <3>1
      <4>3. IsCut(g, S, tr)
        BY <2>5, <2>8, <3>1, <3>2, <4>1, <4>2 DEF IsCut
      <4> QED
        BY <2>2, <4>3 DEF tr
  <2>12. CASE leg # None
    <3> DEFINE a == leg[1]
               b == leg[2]
               down == SubSeq(tr, a, b)
               first == SubSeq(tr, 1, a - 1)
    <3>1. a \in 1 .. k /\ b \in 1 .. k /\ a <= b
          /\ \A i \in a .. b : Size(part[i].ang) >= Circle \div 2 - Cone
      BY <2>7, <2>12
    <3> HIDE DEF a, b
    <3>2. /\ a \in Nat /\ b \in Nat /\ 1 <= a /\ a <= b + 1 /\ b <= Len(tr) /\ b - a + 1 >= 1 /\ b - a + 1 \in Nat
          /\ a - 1 \in Nat /\ 1 \in Nat /\ 1 <= 1 /\ 1 <= (a - 1) + 1 /\ a - 1 <= Len(tr) /\ k \in Nat
          /\ (a - 1) - 1 + 1 = a - 1 /\ a <= b /\ b <= k
      BY <2>1, <3>1
    <3>3. down \in Seq(S) /\ Len(down) = b - a + 1
          /\ \A i \in 1 .. (b - a + 1) : a + i - 1 \in 1 .. Len(tr) /\ down[i] = tr[a + i - 1]
      BY <1>1, <3>2, PartIs
    <3>4. IsTracked(down)
      BY <1>1, <3>2, PartTracked
    <3>5. first \in Seq(S) /\ Len(first) = a - 1
          /\ \A i \in 1 .. (a - 1) : 1 + i - 1 \in 1 .. Len(tr) /\ first[i] = tr[1 + i - 1]
      <4>1. first \in Seq(S) /\ Len(first) = (a - 1) - 1 + 1
            /\ \A i \in 1 .. ((a - 1) - 1 + 1) : 1 + i - 1 \in 1 .. Len(tr) /\ first[i] = tr[1 + i - 1]
        BY <1>1, <3>2, PartIs
      <4> QED
        BY <3>2, <4>1
    <3>6. IsTracked(first)
      BY <1>1, <3>2, PartTracked
    <3>7. g.downwind = down /\ g.break = BreakLeg(first)
      BY <2>8, <2>12 DEF a, b
    <3> HIDE DEF down, first
    <3>8. g.break \in Seq(S) /\ (g.break # <<>> => IsOneTurn(g.break, first) /\ Fits(g.break))
      BY <3>5, <3>6, <3>7, BreakIs
    <3>9. FlownIn(first, tr) /\ FlownIn(down, tr)
      BY <3>3, <3>5 DEF FlownIn
    <3>10. g.break # <<>> => IsOneTurn(g.break, tr)
      BY <1>1, <3>5, <3>8, <3>9, TurnElsewhere
    <3>11. \A i \in 1 .. Len(down) : Size(down[i].ang) >= Circle \div 2 - Cone
      <4>1. TAKE i \in 1 .. Len(down)
      <4>2. i \in 1 .. (b - a + 1) /\ a + i - 1 \in a .. b /\ a + i - 1 \in 1 .. k
        BY <3>2, <3>3
      <4>3. down[i] = tr[a + i - 1] /\ part[a + i - 1] = tr[a + i - 1]
        BY <2>6, <3>3, <4>2
      <4>4. Size(part[a + i - 1].ang) >= Circle \div 2 - Cone
        BY <3>1, <4>2
      <4> QED
        BY <4>3, <4>4
    <3>12. down # <<>> /\ down[1] = tr[a] /\ down[Len(down)] = tr[b]
      <4>1. 1 \in 1 .. (b - a + 1) /\ b - a + 1 \in 1 .. (b - a + 1)
            /\ a + 1 - 1 = a /\ a + (b - a + 1) - 1 = b
        BY <3>2
      <4>2. down[1] = tr[a + 1 - 1] /\ down[b - a + 1] = tr[a + (b - a + 1) - 1]
        BY <3>3, <4>1
      <4>3. down # <<>>
        BY <3>2, <3>3
      <4> QED
        BY <3>3, <4>1, <4>2, <4>3
    <3>13. Final(down).t <= there
      <4>1. b <= k /\ b \in 1 .. Len(tr) /\ k \in 1 .. Len(tr)
        BY <2>1, <3>1
      <4>2. tr[b].t <= tr[k].t
        BY <1>1, <4>1 DEF IsTracked, IsFlown
      <4> QED
        BY <3>12, <4>2 DEF Final
    <3>14. g.break # <<>> => Final(g.break).t < First(down).t
      <4>1. HAVE g.break # <<>>
      <4>2. FlownIn(g.break, first)
        BY <3>8, <4>1 DEF IsOneTurn
      <4>3. Len(g.break) \in 1 .. Len(g.break)
        BY <3>8, <4>1
      <4>4. PICK j \in 1 .. Len(first) : g.break[Len(g.break)] = first[j]
        BY <4>2, <4>3 DEF FlownIn
      <4>5. j \in 1 .. (a - 1) /\ 1 + j - 1 = j /\ j \in 1 .. Len(tr) /\ a \in 1 .. Len(tr) /\ j < a
        BY <3>2, <3>5, <4>4
      <4>6. first[j] = tr[j]
        BY <3>5, <4>5
      <4>7. tr[j].t < tr[a].t
        BY <1>1, <4>5 DEF IsTracked, IsFlown
      <4> QED
        BY <3>12, <4>4, <4>6, <4>7 DEF Final, First
    <3>15. LegsInOrder(g)
      BY <2>4, <2>5, <2>8, <2>9, <2>10, <3>7, <3>12, <3>13, <3>14 DEF LegsInOrder
    <3> QED
      <4>1. g.downwind \in Seq(S) /\ IsTracked(g.downwind) /\ FlownIn(g.downwind, tr)
            /\ \A i \in 1 .. Len(g.downwind) : Size(g.downwind[i].ang) >= Circle \div 2 - Cone
        BY <3>3, <3>4, <3>7, <3>9, <3>11
      <4>2. g.rollout # None => g.rollout \in Int
        BY <2>5, <2>8
      <4>3. IsCut(g, S, tr)
        BY <3>8, <3>10, <3>15, <4>1, <4>2 DEF IsCut
      <4> QED
        BY <2>2, <4>3 DEF tr
  <2> QED
    BY <2>11, <2>12
<1> QED
  BY <1>4, <1>5 DEF tr

----------------------------------------
(* The checkpoints of a carrier pattern. *)

\* The later of two neighbouring samples that were found.
LEMMA PairIs ==
  ASSUME NEW S, NEW s \in Seq(S), IsFlown(s), NEW C, C \subseteq Pairs(s), C # {}
  PROVE  /\ Lowest(C) + 1 \in 1 .. Len(s) /\ Highest(C) + 1 \in 1 .. Len(s)
         /\ Lowest(C) \in C /\ Highest(C) \in C
<1>1. \A i \in C : i \in Nat /\ i \in 1 .. Len(s) /\ i + 1 \in 1 .. Len(s)
  BY DEF Pairs
<1>2. C \subseteq Nat /\ C \subseteq Int /\ Len(s) \in Int /\ \A i \in C : i <= Len(s)
  BY <1>1
<1>3. Lowest(C) \in C
  BY <1>2, LowestIs
<1>4. Highest(C) \in C
  BY <1>2, HighestIs
<1> QED
  BY <1>1, <1>3, <1>4

\* Only samples from before the guard are looked at for a low pass.
LEMMA LowPassIs ==
  ASSUME NEW S, NEW s \in Seq(S), IsFlown(s), NEW touchdown \in Int
  PROVE  LowPass(s, touchdown) = None
         \/ \E i \in 1 .. Len(s) : LowPass(s, touchdown) = s[i].t /\ s[i].t < touchdown
<1> DEFINE K == {i \in DOMAIN s : s[i].t < touchdown - PassGuard}
           early == Chosen(s, K)
           Over == {i \in Pairs(early) :
                      /\ early[i].x < 0 /\ early[i + 1].x >= 0
                      /\ Size(early[i + 1].y) <= PassOffset
                      /\ Known(early[i + 1].agl, LAMBDA a : a < PassHeight)}
<1>1. LowPass(s, touchdown) = IF Over = {} THEN None ELSE early[Highest(Over) + 1].t
  BY DEF LowPass
<1>2. Over \subseteq Pairs(early)
  OBVIOUS
<1>3. early \in Seq(S) /\ IsFlown(early)
  BY ChosenFlown
<1>4. PICK e : Enumerates(e, early, s, K, Len(s))
  BY ChosenAre
<1> HIDE DEF Over, early
<1>5. CASE Over = {}
  BY <1>1, <1>5
<1>6. CASE Over # {}
  <2> DEFINE k == Highest(Over) + 1
  <2>1. k \in 1 .. Len(early)
    BY <1>2, <1>3, <1>6, PairIs
  <2> HIDE DEF k
  <2>2. e[k] \in 1 .. Len(s) /\ e[k] \in K /\ early[k] = s[e[k]]
    BY <1>4, <2>1 DEF Enumerates
  <2>3. s[e[k]].t < touchdown - PassGuard /\ s[e[k]].t \in Int
    BY <2>2 DEF IsFlown
  <2>4. s[e[k]].t < touchdown
    BY <2>3, NinetyAssumption
  <2>5. LowPass(s, touchdown) = early[k].t
    BY <1>1, <1>6 DEF k
  <2> QED
    BY <2>2, <2>4, <2>5
<1> QED
  BY <1>5, <1>6

\* The pattern is read from samples since the low pass; those with a track are
\* later than it.
IsView(view, s, pass) ==
  /\ \E S : view \in Seq(S)
  /\ IsFlown(view)
  /\ \A i \in 1 .. Len(view) : view[i].ang # None =>
       (pass # None => pass < view[i].t) /\ \E j \in 1 .. Len(s) : view[i] = s[j]
  /\ \A i \in 1 .. Len(view) : \E j \in 1 .. Len(s) : view[i].t = s[j].t

LEMMA ViewIs ==
  ASSUME NEW S, NEW s \in Seq(S), IsFlown(s),
         \A i \in 1 .. Len(s) : {"t", "ang"} \subseteq DOMAIN s[i],
         NEW pass, pass # None => pass \in Int
  PROVE  IsView(View(s, pass), s, pass)
<1> DEFINE kept == IF pass = None THEN s ELSE Since(s, pass)
<1>1. /\ kept \in Seq(S) /\ IsFlown(kept)
      /\ \A k \in 1 .. Len(kept) : (pass # None => kept[k].t >= pass) /\ \E i \in 1 .. Len(s) : kept[k] = s[i]
  <2>1. CASE pass = None
    BY <2>1
  <2>2. CASE pass # None
    BY <2>2, SinceIs
  <2> QED
    BY <2>1, <2>2
<1>2. View(s, pass) = IF kept = <<>> THEN kept ELSE [kept EXCEPT ![1].ang = None]
  BY DEF View
<1> HIDE DEF kept
<1>3. CASE kept = <<>>
  <2>1. View(s, pass) = <<>>
    BY <1>2, <1>3
  <2>2. <<>> \in Seq(S) /\ Len(<<>>) = 0 /\ IsFlown(<<>>)
    BY DEF IsFlown
  <2> QED
    BY <2>1, <2>2 DEF IsView
<1>4. CASE kept # <<>>
  <2> DEFINE first == [kept[1] EXCEPT !.ang = None]
             view == [kept EXCEPT ![1] = first]
             T == S \cup {first}
             n == Len(kept)
  <2>1. View(s, pass) = view
    BY <1>2, <1>4
  <2>2. n \in Nat /\ 1 \in 1 .. n /\ DOMAIN kept = 1 .. n
    BY <1>1, <1>4
  <2>3. PICK m \in 1 .. Len(s) : kept[1] = s[m]
    BY <1>1, <2>2
  <2>4. first.ang = None /\ first.t = kept[1].t
    <3>1. "t" \in DOMAIN kept[1] /\ "ang" \in DOMAIN kept[1]
      BY <2>3
    <3> QED
      BY <3>1
  <2> HIDE DEF first
  <2>5. view \in Seq(T) /\ Len(view) = n /\ view[1] = first /\ \A i \in 2 .. n : view[i] = kept[i]
    BY <1>1, <2>2
  <2> HIDE DEF view, T
  <2>6. \A i \in 1 .. n : view[i].t = kept[i].t /\ (view[i].ang # None => i # 1 /\ view[i] = kept[i])
    <3>1. TAKE i \in 1 .. n
    <3>2. CASE i = 1
      BY <2>4, <2>5, <3>2
    <3>3. CASE i # 1
      <4>1. i \in 2 .. n
        BY <2>2, <3>3
      <4> QED
        BY <2>5, <3>3, <4>1
    <3> QED
      BY <3>2, <3>3
  <2>7. IsFlown(view)
    BY <1>1, <2>5, <2>6 DEF IsFlown
  <2>8. \A i \in 1 .. Len(view) : view[i].ang # None =>
          (pass # None => pass < view[i].t) /\ \E j \in 1 .. Len(s) : view[i] = s[j]
    <3>1. TAKE i \in 1 .. Len(view)
    <3>2. HAVE view[i].ang # None
    <3>3. i \in 1 .. n /\ i # 1 /\ view[i] = kept[i] /\ 1 < i
      BY <2>2, <2>5, <2>6, <3>2
    <3>4. \E j \in 1 .. Len(s) : kept[i] = s[j]
      BY <1>1, <3>3
    <3>5. pass # None => pass < kept[i].t
      <4>1. HAVE pass # None
      <4>2. kept[1].t >= pass /\ kept[1].t < kept[i].t /\ kept[1].t \in Int /\ kept[i].t \in Int
        BY <1>1, <2>2, <3>3, <4>1 DEF IsFlown
      <4> QED
        BY <4>1, <4>2
    <3> QED
      BY <3>3, <3>4, <3>5
  <2>9. \A i \in 1 .. Len(view) : \E j \in 1 .. Len(s) : view[i].t = s[j].t
    BY <1>1, <2>5, <2>6
  <2> QED
    BY <2>1, <2>5, <2>7, <2>8, <2>9 DEF IsView
<1> QED
  BY <1>3, <1>4

\* A groove is timed from the end of a judged downwind or later, and begins
\* before the touchdown.
LEMMA GrooveIs ==
  ASSUME NEW S, NEW s \in Seq(S), IsFlown(s), NEW touchdown \in Int,
         \A i \in 1 .. Len(s) : s[i].t < touchdown,
         NEW g, DownwindJudged(g) => \E i \in 1 .. Len(s) :
                  Final(g.downwind) = s[i] /\ s[i].ang # None
                  /\ Size(s[i].ang) >= Circle \div 2 - Cone
  PROVE  LET start == Groove(s, g, touchdown).start
         IN  start # None => /\ DownwindJudged(g) /\ start \in Int
                             /\ Final(g.downwind).t <= start /\ start < touchdown
<1> DEFINE tr == Track(s)
           Off == {i \in DOMAIN tr : Size(tr[i].ang) > GrooveAlign}
           h == Highest(Off)
           turning == tr[h].t
           K == {i \in DOMAIN s : turning <= s[i].t /\ s[i].level = TRUE}
           level == Chosen(s, K)
           from == IF level # <<>> THEN First(level).t ELSE tr[h + 1].t
           Measured == DownwindJudged(g) /\ Off # {} /\ h < Len(tr)
           start == Groove(s, g, touchdown).start
<1>1. start = IF Measured THEN from ELSE None
  BY DEF Groove
<1>2. /\ tr \in Seq(S) /\ IsTracked(tr)
      /\ \A k \in 1 .. Len(tr) : \E i \in 1 .. Len(s) : tr[k] = s[i]
      /\ \A i \in 1 .. Len(s) : s[i].ang # None => \E k \in 1 .. Len(tr) : tr[k] = s[i]
  BY TrackIs
<1> HIDE DEF tr, start, from
<1>3. SUFFICES ASSUME Measured
               PROVE  from \in Int /\ Final(g.downwind).t <= from /\ from < touchdown
  BY <1>1 DEF start
<1>4. Off \subseteq 1 .. Len(tr) /\ Off # {} /\ Len(tr) \in Nat
  BY <1>2, <1>3
<1>5. h \in Off /\ \A y \in Off : y <= h
  <2>1. Off \subseteq Int /\ (\A x \in Off : x <= Len(tr)) /\ Off # {} /\ Len(tr) \in Int
    BY <1>4
  <2> HIDE DEF Off
  <2> QED
    BY <2>1, HighestIs
<1>6. h \in 1 .. Len(tr) /\ h + 1 \in 1 .. Len(tr) /\ h < h + 1
  BY <1>3, <1>4, <1>5
<1>7. turning \in Int /\ tr[h + 1].t \in Int /\ turning < tr[h + 1].t
  BY <1>2, <1>6 DEF IsTracked, IsFlown
<1>8. Final(g.downwind).t <= turning
  <2>1. PICK i \in 1 .. Len(s) : /\ Final(g.downwind) = s[i] /\ s[i].ang # None
                                 /\ Size(s[i].ang) >= Circle \div 2 - Cone
    BY <1>3
  <2>2. PICK k \in 1 .. Len(tr) : tr[k] = s[i]
    BY <1>2, <2>1
  <2>3. Size(tr[k].ang) > GrooveAlign
    <3>1. s[i].ang \in Int
      BY <2>1 DEF IsFlown
    <3>2. Circle \div 2 = 2 * Ninety
      BY NinetyAssumption
    <3>3. GrooveAlign < Circle \div 2 - Cone /\ Circle \div 2 - Cone \in Int /\ GrooveAlign \in Int
      <4>1. Cone \in Nat
        BY CircleAssumption
      <4>2. Ninety \in Nat /\ GrooveAlign \in Nat /\ GrooveAlign + Cone < 2 * Ninety
        BY NinetyAssumption
      <4> QED
        BY <3>2, <4>1, <4>2
    <3>4. Size(s[i].ang) \in Int
      BY <3>1 DEF Size
    <3> QED
      BY <2>1, <2>2, <3>3, <3>4
  <2>4. k \in Off
    BY <1>4, <2>2, <2>3
  <2>5. k <= h /\ k \in 1 .. Len(tr) /\ h \in 1 .. Len(tr)
    BY <1>5, <1>6, <2>4
  <2>6. tr[k].t <= tr[h].t
    BY <1>2, <2>5 DEF IsTracked, IsFlown
  <2> QED
    BY <2>1, <2>2, <2>6
<1> HIDE DEF Off, h, turning
<1>9. \E i \in 1 .. Len(s) : from = s[i].t /\ turning <= s[i].t
  <2>1. CASE level = <<>>
    <3>1. PICK i \in 1 .. Len(s) : tr[h + 1] = s[i]
      BY <1>2, <1>6
    <3>2. from = tr[h + 1].t
      BY <2>1 DEF from
    <3> QED
      BY <1>7, <3>1, <3>2 DEF turning
  <2>2. CASE level # <<>>
    <3>1. level \in Seq(S)
      BY ChosenAre
    <3>2. PICK e : Enumerates(e, level, s, K, Len(s))
      BY ChosenAre
    <3> HIDE DEF level, K
    <3>3. 1 \in 1 .. Len(level)
      BY <2>2, <3>1
    <3>4. e[1] \in 1 .. Len(s) /\ e[1] \in K /\ level[1] = s[e[1]]
      BY <3>2, <3>3 DEF Enumerates
    <3>5. from = level[1].t
      BY <2>2 DEF from, First
    <3>6. turning <= s[e[1]].t
      BY <3>4 DEF K
    <3> QED
      BY <3>4, <3>5, <3>6
  <2> QED
    BY <2>1, <2>2
<1>10. PICK i \in 1 .. Len(s) : from = s[i].t /\ turning <= s[i].t
  BY <1>9
<1>11. s[i].t \in Int /\ s[i].t < touchdown
  BY DEF IsFlown
<1>12. Final(g.downwind).t \in Int
  <2>1. PICK j \in 1 .. Len(s) : Final(g.downwind) = s[j]
    BY <1>3
  <2> QED
    BY <2>1 DEF IsFlown
<1> QED
  BY <1>7, <1>8, <1>10, <1>11, <1>12

\* A time found between two others, or none.
FoundIn(from, x, to) == x # None => x \in Int /\ from <= x /\ x <= to

\* A crossing is found among the samples it is looked for in.
LEMMA CrossedWithin ==
  ASSUME NEW S, NEW view \in Seq(S), IsFlown(view), NEW from \in Int, NEW to \in Int,
         NEW C, C \subseteq Pairs(Within(view, from, to))
  PROVE  FoundIn(from, IF C = {} THEN None ELSE Within(view, from, to)[Lowest(C) + 1].t, to)
<1> DEFINE in == Within(view, from, to)
           k == Lowest(C) + 1
<1>1. in \in Seq(S) /\ IsFlown(in) /\ \A i \in 1 .. Len(in) : from <= in[i].t /\ in[i].t <= to
  BY WithinIs
<1> HIDE DEF in
<1>2. C # {} => k \in 1 .. Len(in)
  BY <1>1, PairIs DEF in
<1> HIDE DEF k
<1>3. C # {} => in[k].t \in Int /\ from <= in[k].t /\ in[k].t <= to
  BY <1>1, <1>2 DEF IsFlown
<1> QED
  BY <1>3 DEF FoundIn, in, k

LEMMA TurnsWithin ==
  ASSUME NEW S, NEW s \in Seq(S), IsFlown(s), NEW from \in Int, NEW to \in Int,
         NEW C, C \subseteq Pairs(Track(Within(s, from, to)))
  PROVE  FoundIn(from, IF C = {} THEN None ELSE Track(Within(s, from, to))[Lowest(C) + 1].t, to)
<1> DEFINE in == Within(s, from, to)
           tr == Track(in)
           k == Lowest(C) + 1
<1>1. in \in Seq(S) /\ IsFlown(in) /\ \A i \in 1 .. Len(in) : from <= in[i].t /\ in[i].t <= to
  BY WithinIs
<1> HIDE DEF in
<1>2. tr \in Seq(S) /\ IsTracked(tr) /\ \A j \in 1 .. Len(tr) : \E i \in 1 .. Len(in) : tr[j] = in[i]
  BY <1>1, TrackIs
<1> HIDE DEF tr
<1>3. C # {} => k \in 1 .. Len(tr)
  BY <1>2, PairIs DEF in, tr, IsTracked
<1> HIDE DEF k
<1>4. C # {} => tr[k].t \in Int /\ from <= tr[k].t /\ tr[k].t <= to
  BY <1>1, <1>2, <1>3 DEF IsFlown
<1> QED
  BY <1>4 DEF FoundIn, in, k, tr

\* Checkpoints are looked for from the start of the downwind.
CheckpointsFrom(s, view, g, begin, end) ==
  LET side == Side(view, g)
      in == Within(view, begin, end)
      abeam == Crossing(in, LAMBDA p : p.x, LAMBDA p : side * p.y > 0)
      since == IF abeam = None THEN begin ELSE abeam
      tr == Track(Within(s, since, end))
      Turns == {i \in Pairs(tr) : Size(tr[i].ang) > Ninety /\ Size(tr[i + 1].ang) <= Ninety}
      ninety == IF Turns = {} THEN None ELSE tr[Lowest(Turns) + 1].t
      after == IF ninety = None THEN since ELSE ninety
      wake == Crossing(Within(view, after, end), LAMBDA p : side * p.y, LAMBDA p : p.x < 0)
  IN  [abeam |-> abeam, ninety |-> ninety, wake |-> wake]
NoCheckpoints == [abeam |-> None, ninety |-> None, wake |-> None]
Begin(g) == CASE g.downwind # <<>> -> First(g.downwind).t
              [] g.downwind = <<>> /\ g.break # <<>> -> Final(g.break).t
              [] OTHER -> None

LEMMA CheckpointsBegin ==
  ASSUME NEW s, NEW view, NEW g, NEW groove, NEW touchdown
  PROVE  Checkpoints(s, view, g, groove, touchdown) =
           IF Begin(g) = None THEN NoCheckpoints
           ELSE CheckpointsFrom(s, view, g, Begin(g),
                                IF groove.start = None THEN touchdown ELSE groove.start)
BY DEF Checkpoints, CheckpointsFrom, NoCheckpoints, Begin

\* Each checkpoint is found after the one before it, between the downwind and
\* the end of the search.
LEMMA CheckpointsAre ==
  ASSUME NEW S, NEW s \in Seq(S), IsFlown(s), NEW T, NEW view \in Seq(T), IsFlown(view),
         NEW g, NEW begin \in Int, NEW end \in Int, begin <= end
  PROVE  LET c == CheckpointsFrom(s, view, g, begin, end)
         IN  \E since \in Int, after \in Int :
               /\ begin <= since /\ since <= after /\ after <= end
               /\ FoundIn(begin, c.abeam, since) /\ FoundIn(since, c.ninety, after)
               /\ FoundIn(after, c.wake, end)
<1> DEFINE c == CheckpointsFrom(s, view, g, begin, end)
           side == Side(view, g)
           in == Within(view, begin, end)
           A == {i \in Pairs(in) : /\ side * in[i].y > 0 /\ side * in[i + 1].y > 0
                                   /\ in[i].x > 0 /\ in[i + 1].x <= 0}
           abeam == IF A = {} THEN None ELSE in[Lowest(A) + 1].t
           since == IF abeam = None THEN begin ELSE abeam
           tr == Track(Within(s, since, end))
           N == {i \in Pairs(tr) : Size(tr[i].ang) > Ninety /\ Size(tr[i + 1].ang) <= Ninety}
           ninety == IF N = {} THEN None ELSE tr[Lowest(N) + 1].t
           after == IF ninety = None THEN since ELSE ninety
           low == Within(view, after, end)
           W == {i \in Pairs(low) : /\ low[i].x < 0 /\ low[i + 1].x < 0
                                    /\ side * low[i].y > 0 /\ side * low[i + 1].y <= 0}
           wake == IF W = {} THEN None ELSE low[Lowest(W) + 1].t
<1>2. c = [abeam |-> abeam, ninety |-> ninety, wake |-> wake]
  BY DEF CheckpointsFrom, Crossing
<1>3. A \subseteq Pairs(in) /\ N \subseteq Pairs(tr) /\ W \subseteq Pairs(low)
  OBVIOUS
<1> HIDE DEF A, N, W
<1>4. FoundIn(begin, abeam, end)
  BY <1>3, CrossedWithin
<1> HIDE DEF abeam
<1>5. since \in Int /\ begin <= since /\ since <= end /\ FoundIn(begin, abeam, since)
  BY <1>4 DEF FoundIn
<1> HIDE DEF since
<1>6. FoundIn(since, ninety, end)
  BY <1>3, <1>5, TurnsWithin
<1> HIDE DEF ninety
<1>7. after \in Int /\ since <= after /\ after <= end /\ FoundIn(since, ninety, after)
  BY <1>5, <1>6 DEF FoundIn
<1> HIDE DEF after
<1>8. FoundIn(after, wake, end)
  BY <1>3, <1>7, CrossedWithin
<1> HIDE DEF wake, c
<1>9. c.abeam = abeam /\ c.ninety = ninety /\ c.wake = wake
  BY <1>2
<1> QED
  BY <1>5, <1>7, <1>8, <1>9 DEF c

\* What is in order one by one is in order.
NoLater(x, y) == x # None /\ y # None => x <= y
LEMMA InTheirOrder ==
  ASSUME NEW a, NEW b, NEW c, NEW d, NEW e, NEW f, NEW g,
         NoLater(a, b), NoLater(a, c), NoLater(a, d), NoLater(a, e), NoLater(a, f), NoLater(a, g),
         NoLater(b, c), NoLater(b, d), NoLater(b, e), NoLater(b, f), NoLater(b, g),
         NoLater(c, d), NoLater(c, e), NoLater(c, f), NoLater(c, g),
         NoLater(d, e), NoLater(d, f), NoLater(d, g), NoLater(e, f), NoLater(e, g), NoLater(f, g)
  PROVE  LET times == <<a, b, c, d, e, f, g>>
         IN  \A i, j \in DOMAIN times : i < j => NoLater(times[i], times[j])
<1> DEFINE times == <<a, b, c, d, e, f, g>>
<1>1. DOMAIN times = 1 .. 7
  OBVIOUS
<1>2. /\ times[1] = a /\ times[2] = b /\ times[3] = c /\ times[4] = d /\ times[5] = e
      /\ times[6] = f /\ times[7] = g
  OBVIOUS
<1> HIDE DEF times
<1>3. ASSUME NEW i \in 1 .. 7, NEW j \in 1 .. 7, i < j PROVE NoLater(times[i], times[j])
  <2>1. CASE i = 1
    <3>1. j = 2 \/ j = 3 \/ j = 4 \/ j = 5 \/ j = 6 \/ j = 7
      BY <1>3, <2>1
    <3> QED
      BY <1>2, <2>1, <3>1
  <2>2. CASE i = 2
    <3>1. j = 3 \/ j = 4 \/ j = 5 \/ j = 6 \/ j = 7
      BY <1>3, <2>2
    <3> QED
      BY <1>2, <2>2, <3>1
  <2>3. CASE i = 3
    <3>1. j = 4 \/ j = 5 \/ j = 6 \/ j = 7
      BY <1>3, <2>3
    <3> QED
      BY <1>2, <2>3, <3>1
  <2>4. CASE i = 4
    <3>1. j = 5 \/ j = 6 \/ j = 7
      BY <1>3, <2>4
    <3> QED
      BY <1>2, <2>4, <3>1
  <2>5. CASE i >= 5
    <3>1. (i = 5 /\ j = 6) \/ (i = 5 /\ j = 7) \/ (i = 6 /\ j = 7)
      BY <1>3, <2>5
    <3> QED
      BY <1>2, <3>1
  <2> QED
    BY <1>3, <2>1, <2>2, <2>3, <2>4, <2>5
<1> QED
  BY <1>1, <1>3 DEF times

LEMMA CheckpointsHold ==
  ASSUME NEW S, NEW s \in Seq(S), IsFlown(s), s # <<>>,
         \A i \in 1 .. Len(s) : {"t", "ang"} \subseteq DOMAIN s[i]
  PROVE  CheckpointsInOrder(CarrierAnalysis(s, Down(s)), Down(s))
<1> DEFINE touchdown == Down(s)
           pass == LowPass(s, touchdown)
           view == View(s, pass)
           g == Segments(view)
           tr == Track(view)
           groove == Groove(s, g, touchdown)
           points == Checkpoints(s, view, g, groove, touchdown)
           c == CarrierAnalysis(s, touchdown)
<1>1. touchdown \in Int /\ \A i \in 1 .. Len(s) : s[i].t < touchdown
  <2>1. Len(s) \in 1 .. Len(s)
    OBVIOUS
  <2>2. s[Len(s)].t \in Int /\ \A i \in 1 .. Len(s) : s[i].t \in Int /\ s[i].t <= s[Len(s)].t
    BY <2>1 DEF IsFlown
  <2>3. touchdown = s[Len(s)].t + Gap
    BY DEF Down, Final
  <2> HIDE DEF touchdown
  <2> QED
    BY <2>2, <2>3, FlightAssumption
<1>2. c = PatternRead(s, touchdown, pass, view, g)
  BY DEF CarrierAnalysis
<1>3. /\ c.pass = pass /\ c.legs = g /\ c.groove = groove /\ c.points = points
      /\ (DownwindJudged(g) => c.pattern = "overhead")
  <2> HIDE DEF c, touchdown, pass, view, g
  <2> QED
    BY <1>2 DEF PatternRead
<1> HIDE DEF touchdown
<1>4. pass # None => pass \in Int /\ pass < touchdown
  <2>1. pass = None \/ \E i \in 1 .. Len(s) : pass = s[i].t /\ s[i].t < touchdown
    BY <1>1, LowPassIs
  <2> QED
    BY <2>1 DEF IsFlown
<1> HIDE DEF pass
<1>5. IsView(view, s, pass)
  BY <1>4, ViewIs
<1> HIDE DEF view
<1>6. PICK T : view \in Seq(T)
  BY <1>5 DEF IsView
<1>7. IsCut(g, T, tr) /\ IsTracked(tr) /\ \A k \in 1 .. Len(tr) : \E i \in 1 .. Len(view) : tr[k] = view[i]
  BY <1>5, <1>6, SegmentsAre, TrackIs DEF IsView
<1> HIDE DEF g, tr
<1>8. ASSUME NEW leg, FlownIn(leg, tr), NEW k \in 1 .. Len(leg)
      PROVE  /\ leg[k].t \in Int /\ (pass # None => pass < leg[k].t)
             /\ \E j \in 1 .. Len(s) : leg[k] = s[j] /\ s[j].ang # None
  <2>1. PICK x \in 1 .. Len(tr) : leg[k] = tr[x]
    BY <1>8 DEF FlownIn
  <2>2. PICK i \in 1 .. Len(view) : tr[x] = view[i]
    BY <1>7
  <2>3. view[i].ang # None /\ view[i].t \in Int
    <3>1. tr[x].ang \in Int /\ tr[x].t \in Int
      BY <1>7 DEF IsTracked, IsFlown
    <3> QED
      BY <2>2, <3>1, CircleAssumption
  <2>4. (pass # None => pass < view[i].t) /\ \E j \in 1 .. Len(s) : view[i] = s[j]
    BY <1>5, <2>3 DEF IsView
  <2> QED
    BY <2>1, <2>2, <2>3, <2>4
<1>9. /\ LegsInOrder(g) /\ g.downwind \in Seq(T) /\ FlownIn(g.downwind, tr)
      /\ \A i \in 1 .. Len(g.downwind) : Size(g.downwind[i].ang) >= Circle \div 2 - Cone
      /\ g.break \in Seq(T) /\ (g.break # <<>> => IsOneTurn(g.break, tr))
  BY <1>7 DEF IsCut
<1>10. g.downwind # <<>> => Len(g.downwind) \in 1 .. Len(g.downwind) /\ 1 \in 1 .. Len(g.downwind)
  BY <1>9
<1>11. DownwindJudged(g) => g.downwind # <<>>
  BY DEF DownwindJudged
<1>12. DownwindJudged(g) => \E i \in 1 .. Len(s) :
          Final(g.downwind) = s[i] /\ s[i].ang # None /\ Size(s[i].ang) >= Circle \div 2 - Cone
  <2>1. HAVE DownwindJudged(g)
  <2>2. Len(g.downwind) \in 1 .. Len(g.downwind)
    BY <1>10, <1>11, <2>1
  <2>3. \E j \in 1 .. Len(s) : g.downwind[Len(g.downwind)] = s[j] /\ s[j].ang # None
    BY <1>8, <1>9, <2>2
  <2>4. Size(g.downwind[Len(g.downwind)].ang) >= Circle \div 2 - Cone
    BY <1>9, <2>2
  <2> QED
    BY <2>3, <2>4 DEF Final
<1>13. groove.start # None => /\ DownwindJudged(g) /\ groove.start \in Int
                              /\ Final(g.downwind).t <= groove.start /\ groove.start < touchdown
  BY <1>1, <1>12, GrooveIs
<1> HIDE DEF groove, points, c
<1> DEFINE broke == IF g.break = <<>> THEN None ELSE First(g.break).t
           times == <<pass, broke, points.abeam, points.ninety, points.wake, groove.start, touchdown>>
           InOrder == \A i, j \in DOMAIN times : i < j => NoLater(times[i], times[j])
           last == IF g.downwind = <<>> THEN None ELSE Final(g.downwind).t
<1>14. points = IF Begin(g) = None THEN NoCheckpoints
                ELSE CheckpointsFrom(s, view, g, Begin(g),
                                     IF groove.start = None THEN touchdown ELSE groove.start)
  BY CheckpointsBegin DEF points
<1>16. CASE g.downwind = <<>>
  <2>1. g.break = <<>> /\ groove.start = None
    BY <1>9, <1>11, <1>13, <1>16 DEF LegsInOrder
  <2>2. Begin(g) = None
    BY <1>16, <2>1 DEF Begin
  <2>3. points.abeam = None /\ points.ninety = None /\ points.wake = None /\ broke = None
    BY <1>14, <2>1, <2>2 DEF NoCheckpoints
  <2>4. NoLater(pass, touchdown)
    BY <1>1, <1>4 DEF NoLater
  <2> HIDE DEF broke
  <2>5. \A x : NoLater(x, None) /\ NoLater(None, x)
    BY DEF NoLater
  <2>6. InOrder
    BY <2>1, <2>3, <2>4, <2>5, InTheirOrder
  <2> HIDE DEF times
  <2>7. \A i, j \in DOMAIN times :
          i < j /\ times[i] # None /\ times[j] # None => times[i] <= times[j]
    BY <2>6 DEF NoLater
  <2> QED
    BY <1>3, <2>1, <2>7 DEF CheckpointsInOrder, times, broke, c, touchdown
<1>17. CASE g.downwind # <<>>
  <2> DEFINE begin == First(g.downwind).t
             end == IF groove.start = None THEN touchdown ELSE groove.start
  <2>1. /\ begin \in Int /\ begin # None /\ (pass # None => pass < begin)
        /\ Final(g.downwind).t \in Int /\ Final(g.downwind).t # None
        /\ begin <= Final(g.downwind).t /\ Final(g.downwind).t < touchdown
        /\ (pass # None => pass < Final(g.downwind).t)
    <3>1. 1 \in 1 .. Len(g.downwind) /\ Len(g.downwind) \in 1 .. Len(g.downwind)
          /\ 1 <= Len(g.downwind)
      BY <1>9, <1>10, <1>17
    <3>2. g.downwind[1].t \in Int /\ (pass # None => pass < g.downwind[1].t)
      BY <1>8, <1>9, <3>1
    <3>3. /\ g.downwind[Len(g.downwind)].t \in Int
          /\ (pass # None => pass < g.downwind[Len(g.downwind)].t)
          /\ \E j \in 1 .. Len(s) : g.downwind[Len(g.downwind)] = s[j]
      BY <1>8, <1>9, <3>1
    <3>4. IsFlown(g.downwind)
      BY <1>7 DEF IsCut, IsTracked
    <3>5. g.downwind[1].t <= g.downwind[Len(g.downwind)].t
      BY <3>1, <3>2, <3>4 DEF IsFlown
    <3>6. g.downwind[Len(g.downwind)].t < touchdown
      BY <1>1, <3>3
    <3> QED
      BY <3>2, <3>3, <3>5, <3>6, CircleAssumption DEF First, Final
  <2>2. broke # None => broke \in Int /\ broke <= begin /\ (pass # None => pass < broke)
    <3>1. HAVE broke # None
    <3>2. g.break # <<>>
      BY <3>1
    <3>3. FlownIn(g.break, tr) /\ IsFlown(g.break)
      <4>1. IsOneTurn(g.break, tr)
        BY <1>9, <3>2
      <4> HIDE DEF tr
      <4>2. FlownIn(g.break, tr) /\ IsTracked(g.break)
        BY <4>1 DEF IsOneTurn
      <4> QED
        BY <4>2 DEF IsTracked
    <3>4. 1 \in 1 .. Len(g.break) /\ Len(g.break) \in 1 .. Len(g.break) /\ 1 <= Len(g.break)
      BY <1>9, <3>2
    <3>5. g.break[1].t \in Int /\ (pass # None => pass < g.break[1].t)
      BY <1>8, <3>3, <3>4
    <3>6. g.break[Len(g.break)].t \in Int
      BY <3>3, <3>4 DEF IsFlown
    <3>7. g.break[1].t <= g.break[Len(g.break)].t
      BY <3>3, <3>4, <3>5 DEF IsFlown
    <3>8. g.break[Len(g.break)].t < begin
      <4>1. LegsInOrder(g)
        BY <1>9
      <4>2. Final(g.break).t < First(g.downwind).t
        BY <3>2, <4>1 DEF LegsInOrder
      <4> QED
        BY <4>2 DEF Final
    <3> QED
      BY <2>1, <3>2, <3>5, <3>6, <3>7, <3>8 DEF First
  <2>3. end \in Int /\ begin <= end /\ end <= touchdown
    BY <1>1, <1>13, <2>1
  <2>4. Begin(g) = begin
    BY <1>17 DEF Begin
  <2>5. points = CheckpointsFrom(s, view, g, begin, end)
    <3> HIDE DEF begin
    <3> QED
      BY <1>14, <2>1, <2>4
  <2> HIDE DEF begin, end, broke
  <2>6. PICK since \in Int, after \in Int :
          /\ begin <= since /\ since <= after /\ after <= end
          /\ FoundIn(begin, points.abeam, since) /\ FoundIn(since, points.ninety, after)
          /\ FoundIn(after, points.wake, end)
    BY <1>5, <1>6, <2>1, <2>3, <2>5, CheckpointsAre DEF IsView
  <2>7. groove.start = None \/ (groove.start \in Int /\ groove.start = end)
    BY <1>13 DEF end
  <2> DEFINE a == points.abeam
             n == points.ninety
             w == points.wake
             r == groove.start
  <2>8. /\ (a # None => a \in Int /\ begin <= a /\ a <= since)
        /\ (n # None => n \in Int /\ since <= n /\ n <= after)
        /\ (w # None => w \in Int /\ after <= w /\ w <= end)
    BY <2>6 DEF FoundIn
  <2> HIDE DEF a, n, w, r
  <2>9. /\ NoLater(pass, broke) /\ NoLater(pass, a) /\ NoLater(pass, n) /\ NoLater(pass, w)
        /\ NoLater(broke, a) /\ NoLater(broke, n) /\ NoLater(broke, w)
        /\ NoLater(a, n) /\ NoLater(a, w) /\ NoLater(n, w)
    BY <1>4, <2>1, <2>2, <2>3, <2>6, <2>8 DEF NoLater
  <2>10. /\ NoLater(pass, end) /\ NoLater(broke, end) /\ NoLater(a, end)
         /\ NoLater(n, end) /\ NoLater(w, end)
    BY <1>4, <2>1, <2>2, <2>3, <2>6, <2>8 DEF NoLater
  <2>11. /\ NoLater(pass, touchdown) /\ NoLater(broke, touchdown) /\ NoLater(a, touchdown)
         /\ NoLater(n, touchdown) /\ NoLater(w, touchdown) /\ NoLater(end, touchdown)
    BY <1>1, <1>4, <2>1, <2>2, <2>3, <2>6, <2>8 DEF NoLater
  <2>12. /\ NoLater(pass, r) /\ NoLater(broke, r) /\ NoLater(a, r)
         /\ NoLater(n, r) /\ NoLater(w, r) /\ NoLater(r, touchdown)
    <3>1. CASE r = None
      BY <3>1 DEF NoLater
    <3>2. CASE r # None
      <4>1. r = end
        BY <2>7, <3>2 DEF r
      <4> QED
        BY <2>10, <2>11, <4>1
    <3> QED
      BY <3>1, <3>2
  <2>13. InOrder
    BY <2>9, <2>11, <2>12, InTheirOrder DEF a, n, w, r
  <2> HIDE DEF times
  <2>14. \A i, j \in DOMAIN times :
           i < j /\ times[i] # None /\ times[j] # None => times[i] <= times[j]
    BY <2>13 DEF NoLater
  <2>15. groove.start # None =>
           /\ c.pattern = "overhead" /\ last # None /\ last <= groove.start
           /\ pass # None => pass < groove.start
    BY <1>1, <1>3, <1>4, <1>13, <1>17, <2>1
  <2> QED
    BY <1>3, <2>14, <2>15 DEF CheckpointsInOrder, times, broke, c, touchdown
<1> QED
  BY <1>16, <1>17

----------------------------------------
(* What was flown. *)

\* An approach, at times that can be told.
IsApproach(s) ==
  \E S : s \in Seq(S) /\ IsFlown(s) /\ \A i \in 1 .. Len(s) : s[i].t \in Nat

\* A sequence made of one element for each index is one.
LEMMA IsSequence ==
  ASSUME NEW n \in Nat, NEW f, DOMAIN f = 1 .. n, f = [i \in DOMAIN f |-> f[i]]
  PROVE  f \in Seq({f[i] : i \in 1 .. n}) /\ Len(f) = n
<1> DEFINE S == {f[i] : i \in 1 .. n}
<1>1. f \in [1 .. n -> S]
  OBVIOUS
<1> HIDE DEF S
<1>2. f \in Seq(S)
  BY <1>1, SeqDef
<1> QED
  BY <1>1, <1>2, LenProperties DEF S

\* The heights and the place of a sample leave its time and its direction alone.
LEMMA FlownIs ==
  ASSUME NEW s, DOMAIN s = 1 .. Len(s), s = [i \in DOMAIN s |-> s[i]], Len(samples) \in Nat,
         Len(s) = Len(samples), IsFlown(samples), \A i \in 1 .. Len(samples) : samples[i].t \in Nat,
         \A i \in 1 .. Len(s) : s[i].t = samples[i].t /\ s[i].ang = samples[i].ang
  PROVE  IsApproach(s)
<1>1. IsFlown(s) /\ \A i \in 1 .. Len(s) : s[i].t \in Nat
  BY DEF IsFlown
<1>2. s \in Seq({s[i] : i \in 1 .. Len(s)})
  BY IsSequence
<1> QED
  BY <1>1, <1>2 DEF IsApproach

LEMMA HeightsLeave ==
  ASSUME NEW profile, Len(samples) \in Nat
  PROVE  LET s == Flown(profile)
         IN  /\ DOMAIN s = 1 .. Len(samples) /\ s = [i \in DOMAIN s |-> s[i]]
             /\ Len(s) = Len(samples)
             /\ \A i \in 1 .. Len(samples) : s[i].t = samples[i].t /\ s[i].ang = samples[i].ang
<1>1. DOMAIN Flown(profile) = 1 .. Len(samples)
      /\ Flown(profile) = [i \in DOMAIN Flown(profile) |-> Flown(profile)[i]]
      /\ \A i \in 1 .. Len(samples) :
           Flown(profile)[i].t = samples[i].t /\ Flown(profile)[i].ang = samples[i].ang
  BY DEF Flown
<1>2. Len(Flown(profile)) = Len(samples)
  BY <1>1, IsSequence
<1> QED
  BY <1>1, <1>2

HasTracks(s) == \A i \in 1 .. Len(s) : {"t", "ang"} \subseteq DOMAIN s[i]
LEMMA PlacesLeave ==
  ASSUME NEW s, NEW rolls, Len(s) \in Nat
  PROVE  LET v == InShipFrame(s, rolls)
         IN  /\ DOMAIN v = 1 .. Len(s) /\ v = [i \in DOMAIN v |-> v[i]]
             /\ Len(v) = Len(s)
             /\ \A i \in 1 .. Len(s) : v[i].t = s[i].t /\ v[i].ang = s[i].ang
             /\ HasTracks(v)
<1> DEFINE v == InShipFrame(s, rolls)
<1>1. DOMAIN v = 1 .. Len(s) /\ v = [i \in DOMAIN v |-> v[i]]
      /\ \A i \in 1 .. Len(s) : v[i].t = s[i].t /\ v[i].ang = s[i].ang
  BY DEF InShipFrame
<1>3. \A i \in 1 .. Len(s) : {"t", "ang"} \subseteq DOMAIN v[i]
  BY DEF InShipFrame
<1> HIDE DEF v
<1>2. Len(v) = Len(s)
  BY <1>1, IsSequence
<1> QED
  BY <1>1, <1>2, <1>3 DEF v, HasTracks

\* Samples are flown one after the other, and what an approach was cut into is
\* what its samples say.
CutAsFlown ==
  /\ IsApproach(samples) /\ course \in Int
  /\ legs # None =>
       /\ IsApproach(legs.s) /\ legs.s # <<>>
       /\ legs.kind = "land" => legs.g = Segments(legs.s)
       /\ legs.kind = "carrier" => /\ legs.at = CarrierAnalysis(legs.s, Down(legs.s))
                                   /\ HasTracks(legs.s)

LEMMA WrapIs ==
  ASSUME NEW x \in Int
  PROVE  Wrap(x) \in Int
<1>1. Circle \in Int /\ Circle > 0 /\ Circle \div 2 \in Int
  BY CircleAssumption
<1>2. x + Circle \div 2 \in Int
  BY <1>1
<1> DEFINE y == x + Circle \div 2
<1> HIDE DEF y
<1>3. y % Circle \in Int
  BY <1>1, <1>2 DEF y
<1> QED
  BY <1>1, <1>3 DEF Wrap, y

LEMMA FlyKeeps ==
  ASSUME CutAsFlown, NEW way \in Ways, Fly(way)
  PROVE  CutAsFlown'
<1>1. legs = None /\ legs' = None
  BY DEF Fly, Flying
<1> DEFINE turn == CASE way = "left" -> -Ninety [] way = "right" -> Ninety [] OTHER -> 0
           gap == IF turn = 0 THEN Gap ELSE TurnGap
           new == [t |-> IF samples = <<>> THEN Gap ELSE Final(samples).t + gap,
                   ang |-> IF samples = <<>> THEN None ELSE course',
                   way |-> course',
                   level |-> turn = 0]
<1>2. course' = Wrap(course + turn) /\ samples' = Append(samples, new)
  BY DEF Fly
<1>3. turn \in Int /\ gap \in Nat \ {0}
  BY NinetyAssumption, FlightAssumption DEF Ways, Most
<1> HIDE DEF turn, gap
<1>4. course' \in Int
  BY <1>2, <1>3, WrapIs DEF CutAsFlown
<1>5. PICK S : samples \in Seq(S) /\ IsFlown(samples) /\ \A i \in 1 .. Len(samples) : samples[i].t \in Nat
  BY DEF CutAsFlown, IsApproach
<1>6. new.t = (IF samples = <<>> THEN Gap ELSE Final(samples).t + gap)
      /\ (new.ang = None \/ new.ang = course')
  OBVIOUS
<1> DEFINE n == Len(samples)
<1>7. new.t \in Nat /\ \A i \in 1 .. n : samples[i].t < new.t
  <2>1. CASE samples = <<>>
    BY <1>6, <2>1, FlightAssumption
  <2>2. CASE samples # <<>>
    <3>1. n \in 1 .. n /\ n \in Nat
      BY <1>5, <2>2
    <3>2. new.t = samples[n].t + gap /\ samples[n].t \in Nat
      BY <1>5, <1>6, <2>2, <3>1 DEF Final
    <3>3. \A i \in 1 .. n : samples[i].t <= samples[n].t
      BY <1>5, <3>1 DEF IsFlown
    <3> QED
      BY <1>3, <1>5, <3>2, <3>3
  <2> QED
    BY <2>1, <2>2
<1> HIDE DEF new
<1> DEFINE s == Append(samples, new)
           T == S \cup {new}
<1>8. s \in Seq(T) /\ Len(s) = n + 1 /\ n \in Nat /\ s[n + 1] = new /\ \A i \in 1 .. n : s[i] = samples[i]
  BY <1>5
<1> HIDE DEF s, T
<1>9. \A i \in 1 .. Len(s) : s[i].t \in Nat /\ (s[i].ang # None => s[i].ang \in Int)
  <2>1. TAKE i \in 1 .. Len(s)
  <2>2. CASE i = n + 1
    BY <1>4, <1>6, <1>7, <1>8, <2>2
  <2>3. CASE i # n + 1
    <3>1. i \in 1 .. n
      BY <1>8, <2>3
    <3> QED
      BY <1>5, <1>8, <3>1 DEF IsFlown
  <2> QED
    BY <2>2, <2>3
<1>10. \A i, j \in 1 .. Len(s) : i < j => s[i].t < s[j].t
  <2>1. TAKE i, j \in 1 .. Len(s)
  <2>2. HAVE i < j
  <2>3. i \in 1 .. n
    BY <1>8, <2>2
  <2>4. CASE j = n + 1
    BY <1>7, <1>8, <2>3, <2>4
  <2>5. CASE j # n + 1
    <3>1. j \in 1 .. n
      BY <1>8, <2>5
    <3> QED
      BY <1>5, <1>8, <2>2, <2>3, <3>1 DEF IsFlown
  <2> QED
    BY <2>4, <2>5
<1>11. IsApproach(s)
  BY <1>8, <1>9, <1>10 DEF IsApproach, IsFlown
<1>12. samples' = s
  BY <1>2 DEF s
<1>13. IsApproach(samples)'
  BY <1>11, <1>12 DEF IsApproach, IsFlown
<1> QED
  BY <1>1, <1>4, <1>13 DEF CutAsFlown

LEMMA CutKeeps ==
  ASSUME CutAsFlown, [Next]_vars
  PROVE  CutAsFlown'
<1>1. PICK S : samples \in Seq(S) /\ IsFlown(samples) /\ \A i \in 1 .. Len(samples) : samples[i].t \in Nat
  BY DEF CutAsFlown, IsApproach
<1>2. Len(samples) \in Nat
  BY <1>1
<1>3. CASE UNCHANGED vars
  BY <1>3 DEF CutAsFlown, IsApproach, IsFlown, vars
<1>4. ASSUME NEW way \in Ways, Fly(way) PROVE CutAsFlown'
  BY <1>4, FlyKeeps
<1>5. ASSUME NEW profile \in LandProfiles, CutAshore(profile) PROVE CutAsFlown'
  <2> DEFINE s == Flown(profile)
  <2>1. IsApproach(s) /\ s # <<>>
    <3>1. /\ DOMAIN s = 1 .. Len(samples) /\ s = [i \in DOMAIN s |-> s[i]]
          /\ Len(s) = Len(samples)
          /\ \A i \in 1 .. Len(samples) : s[i].t = samples[i].t /\ s[i].ang = samples[i].ang
      BY <1>2, HeightsLeave
    <3>2. Len(samples) # 0
      BY <1>1, <1>5 DEF CutAshore
    <3> HIDE DEF s
    <3>3. IsApproach(s)
      BY <1>1, <1>2, <3>1, FlownIs
    <3> QED
      BY <3>1, <3>2, <3>3
  <2> HIDE DEF s
  <2>2. legs' = [kind |-> "land", s |-> s, g |-> Segments(s)] /\ samples' = samples /\ course' = course
    BY <1>5 DEF CutAshore, s
  <2>3. legs'.s = s /\ legs'.kind = "land" /\ legs'.g = Segments(s)
    BY <2>2
  <2>4. IsApproach(samples)' /\ course' \in Int
    BY <2>2 DEF CutAsFlown, IsApproach, IsFlown
  <2>5. IsApproach(legs'.s) /\ legs'.s # <<>> /\ legs'.g = Segments(legs'.s)
    BY <2>1, <2>3
  <2> QED
    BY <2>3, <2>4, <2>5 DEF CutAsFlown
<1>6. ASSUME NEW profile \in TrapProfiles, NEW rolls \in BOOLEAN, CutAboard(profile, rolls)
      PROVE  CutAsFlown'
  <2> DEFINE f == Flown(profile)
             s == InShipFrame(f, rolls)
  <2>1. IsApproach(s) /\ s # <<>> /\ HasTracks(s)
    <3>1. /\ DOMAIN f = 1 .. Len(samples) /\ f = [i \in DOMAIN f |-> f[i]]
          /\ Len(f) = Len(samples)
          /\ \A i \in 1 .. Len(samples) : f[i].t = samples[i].t /\ f[i].ang = samples[i].ang
      BY <1>2, HeightsLeave
    <3> HIDE DEF f
    <3>2. /\ DOMAIN s = 1 .. Len(f) /\ s = [i \in DOMAIN s |-> s[i]]
          /\ Len(s) = Len(f) /\ HasTracks(s)
          /\ \A i \in 1 .. Len(f) : s[i].t = f[i].t /\ s[i].ang = f[i].ang
      BY <1>2, <3>1, PlacesLeave
    <3>3. Len(samples) # 0
      BY <1>1, <1>6 DEF CutAboard
    <3> HIDE DEF s
    <3>4. IsApproach(s)
      BY <1>1, <1>2, <3>1, <3>2, FlownIs
    <3> QED
      BY <3>1, <3>2, <3>3, <3>4
  <2> HIDE DEF s
  <2>2. legs' = [kind |-> "carrier", s |-> s, at |-> CarrierAnalysis(s, Down(s))]
        /\ samples' = samples /\ course' = course
    BY <1>6 DEF CutAboard, s
  <2>3. legs'.s = s /\ legs'.kind = "carrier" /\ legs'.at = CarrierAnalysis(s, Down(s))
    BY <2>2
  <2>4. IsApproach(samples)' /\ course' \in Int
    BY <2>2 DEF CutAsFlown, IsApproach, IsFlown
  <2>5. /\ IsApproach(legs'.s) /\ legs'.s # <<>> /\ HasTracks(legs'.s)
        /\ legs'.at = CarrierAnalysis(legs'.s, Down(legs'.s))
    BY <2>1, <2>3
  <2> QED
    BY <2>3, <2>4, <2>5 DEF CutAsFlown
<1>7. ASSUME NEW hint \in {"straight_in", None}, Measure(hint) PROVE CutAsFlown'
  <2>1. samples' = <<>> /\ course' = 0 /\ legs' = None
    BY <1>7 DEF Measure
  <2>2. <<>> \in Seq(S) /\ IsFlown(<<>>) /\ \A i \in 1 .. Len(<<>>) : <<>>[i].t \in Nat
    BY DEF IsFlown
  <2>3. IsApproach(<<>>)
    BY <2>2 DEF IsApproach
  <2>4. IsApproach(samples)'
    BY <2>1, <2>3 DEF IsApproach, IsFlown
  <2> QED
    BY <2>1, <2>4 DEF CutAsFlown
<1>8. ASSUME NEW m \in Lands, GradeAshore(m) PROVE CutAsFlown'
  BY <1>8 DEF GradeAshore, CutAsFlown, IsApproach, IsFlown
<1>9. ASSUME NEW m \in Traps, GradeAboard(m) PROVE CutAsFlown'
  BY <1>9 DEF GradeAboard, CutAsFlown, IsApproach, IsFlown
<1> QED
  BY <1>3, <1>4, <1>5, <1>6, <1>7, <1>8, <1>9 DEF Next

LEMMA CutAtFirst == Init => CutAsFlown
<1>1. SUFFICES ASSUME Init PROVE CutAsFlown
  OBVIOUS
<1>2. samples = <<>> /\ legs = None /\ course \in Int
  BY <1>1, FlightAssumption DEF Init
<1>3. <<>> \in Seq({}) /\ IsFlown(<<>>) /\ \A i \in 1 .. Len(<<>>) : <<>>[i].t \in Nat
  BY DEF IsFlown
<1>4. IsApproach(<<>>)
  BY <1>3 DEF IsApproach
<1> QED
  BY <1>2, <1>4 DEF CutAsFlown

LEMMA AlwaysCut == Spec => []CutAsFlown
<1>1. CutAsFlown /\ [Next]_vars => CutAsFlown'
  BY CutKeeps
<1> QED
  BY <1>1, CutAtFirst, PTL DEF Spec

\* So what was cut has these properties.
LEMMA BreakHolds == CutAsFlown => BreakIsATurn
<1>1. SUFFICES ASSUME CutAsFlown, Landed, Len(legs.g.break) > 2
               PROVE  LET b == legs.g.break
                          h == Headings(b)
                          tr == Track(legs.s)
                          Drift(i) == IF i > 1 /\ ~Slow(b[i - 1], b[i]) THEN 0 ELSE TurnRate * StraightTolerance
                          Cut == \E x \in DOMAIN tr : b[1].t < tr[x].t /\ tr[x].t < b[2].t
                      IN  /\ Duration(b) <= MaxBreak /\ Size(Turned(b)) <= MaxBreakTurn
                          /\ \E way \in {-1, 1} : \A i, j \in DOMAIN b :
                               i < j => way * (h[j] - h[i]) >= -(ReverseTolerance + Drift(i) + Drift(j))
                          /\ \A i, j \in DOMAIN b :
                               (i < j /\ \A k \in i .. (j - 1) : Slow(b[k], b[k + 1])) =>
                                 b[j].t - b[i].t <= StraightTolerance \/ (i = 1 /\ Cut)
  BY DEF BreakIsATurn
<1> DEFINE b == legs.g.break
           s == legs.s
           tr == Track(s)
<1>2. legs # None /\ legs.g = Segments(s) /\ IsApproach(s)
  BY <1>1 DEF CutAsFlown, Landed
<1>3. PICK S : s \in Seq(S) /\ IsFlown(s)
  BY <1>2 DEF IsApproach
<1>4. IsCut(legs.g, S, tr)
  BY <1>2, <1>3, SegmentsAre
<1>5. b \in Seq(S) /\ (b # <<>> => IsOneTurn(b, tr) /\ Fits(b))
  BY <1>4 DEF IsCut
<1> HIDE DEF b, s, tr
<1>6. Len(b) > 2 /\ b # <<>> /\ DOMAIN b = 1 .. Len(b)
  BY <1>1, <1>5 DEF b
<1>7. Duration(b) <= MaxBreak /\ Size(Turned(b)) <= MaxBreakTurn
  BY <1>5, <1>6 DEF Fits, Duration
<1>8. IsOneTurn(b, tr)
  BY <1>5, <1>6
<1>9. PICK way \in {-1, 1} : Comes(b, way)
  BY <1>8 DEF IsOneTurn
<1>10. \A i, j \in DOMAIN b :
         i < j => way * (Headings(b)[j] - Headings(b)[i]) >= -(ReverseTolerance + DriftAt(b, i) + DriftAt(b, j))
  BY <1>6, <1>9 DEF Comes
<1>11. \A i, j \in DOMAIN b :
         (i < j /\ \A k \in i .. (j - 1) : Slow(b[k], b[k + 1])) =>
           b[j].t - b[i].t <= StraightTolerance \/ (i = 1 /\ CutOff(b, tr))
  BY <1>6, <1>8 DEF IsOneTurn, Straight, SlowFrom
<1> QED
  BY <1>7, <1>10, <1>11 DEF DriftAt, CutOff, b, s, tr

LEMMA FlareKeeps == CutAsFlown => FlareMakesNoTurn
<1> DEFINE s == legs.s
           before == Within(s, 0, FlareEntry(s))
           g == Segments(before)
<1>1. SUFFICES ASSUME CutAsFlown, Landed, FlareEntry(s) # None,
                      Track(before) # <<>>, Size(Final(Track(before)).ang) <= Align
               PROVE  /\ legs.g.rollout = g.rollout
                      /\ Instants(legs.g.downwind) = Instants(g.downwind)
                      /\ Instants(legs.g.break) = Instants(g.break)
  BY DEF FlareMakesNoTurn
<1>2. legs # None /\ legs.g = Segments(s) /\ IsApproach(s)
  BY <1>1 DEF CutAsFlown, Landed
<1>3. PICK S : s \in Seq(S) /\ IsFlown(s) /\ \A i \in 1 .. Len(s) : s[i].t \in Nat
  BY <1>2 DEF IsApproach
<1>4. legs.g.rollout = g.rollout /\ legs.g.downwind = g.downwind /\ legs.g.break = g.break
  BY <1>1, <1>2, <1>3, FlareHolds
<1> QED
  BY <1>4

LEMMA OrderHolds == CutAsFlown => FlownInOrder
<1>1. SUFFICES ASSUME CutAsFlown PROVE FlownInOrder
  OBVIOUS
<1>2. ASSUME Landed PROVE LegsInOrder(legs.g)
  <2>1. legs.g = Segments(legs.s) /\ IsApproach(legs.s)
    BY <1>1, <1>2 DEF CutAsFlown, Landed
  <2>2. PICK S : legs.s \in Seq(S) /\ IsFlown(legs.s)
    BY <2>1 DEF IsApproach
  <2>3. IsCut(Segments(legs.s), S, Track(legs.s))
    BY <2>2, SegmentsAre
  <2> QED
    BY <2>1, <2>3 DEF IsCut
<1>3. ASSUME Trapped PROVE CheckpointsInOrder(legs.at, Down(legs.s))
  <2>1. /\ legs.at = CarrierAnalysis(legs.s, Down(legs.s))
        /\ IsApproach(legs.s) /\ HasTracks(legs.s) /\ legs.s # <<>>
    BY <1>1, <1>3 DEF CutAsFlown, Trapped
  <2>2. PICK S : legs.s \in Seq(S) /\ IsFlown(legs.s)
    BY <2>1 DEF IsApproach
  <2>3. CheckpointsInOrder(CarrierAnalysis(legs.s, Down(legs.s)), Down(legs.s))
    BY <2>1, <2>2, CheckpointsHold DEF HasTracks
  <2> QED
    BY <2>1, <2>3
<1> QED
  BY <1>2, <1>3 DEF FlownInOrder

\* A break that is found is one turn, no longer and no wider than a break can
\* be, whatever was flown before the downwind (_turn_runs, _break_leg).
THEOREM BreaksAreTurns == Spec => []BreakIsATurn
BY AlwaysCut, BreakHolds, PTL

\* Nothing flown in the flare counts as the turn onto final (_flare_entry_time).
THEOREM FlaresMakeNoTurn == Spec => []FlareMakesNoTurn
BY AlwaysCut, FlareKeeps, PTL

\* The legs of an approach follow each other, and so do the checkpoints of a
\* carrier pattern, from the low pass to the touchdown (segment_approach,
\* _groove, _checkpoints).
THEOREM OrdersAreFlown == Spec => []FlownInOrder
BY AlwaysCut, OrderHolds, PTL

----------------------------------------
(* Touchdowns: least and greatest, and what the three walks over a track *)
(* are. *)

LEMMA LeastIs ==
  ASSUME NEW S, S \subseteq Nat, S # {}
  PROVE  Least(S) \in S /\ \A y \in S : Least(S) <= y
BY Smallest DEF Least

LEMMA GreatestIs ==
  ASSUME NEW n \in Nat, NEW S, S \subseteq 0 .. n, S # {}
  PROVE  Greatest(S) \in S /\ \A y \in S : y <= Greatest(S)
<1> DEFINE Rest == {n - x : x \in S}
<1>1. Rest \subseteq Nat /\ Rest # {}
  <2>1. \A x \in S : n - x \in Nat
    OBVIOUS
  <2> QED
    BY <2>1
<1>2. PICK r \in Rest : \A y \in Rest : r <= y
  BY <1>1, Smallest
<1>3. PICK x \in S : r = n - x
  OBVIOUS
<1>4. ASSUME NEW y \in S PROVE y <= x
  <2>1. n - y \in Rest
    OBVIOUS
  <2>2. n - x <= n - y
    BY <1>2, <1>3, <2>1
  <2> QED
    BY <2>2
<1> QED
  BY <1>4 DEF Greatest

\* The samples of one aircraft, oldest first.
Received == [t : Int, alt : Int \cup {NoValue}, deck : BOOLEAN]
IsTrack(s) ==
  /\ s \in Seq(Received)
  /\ \A j, k \in 1 .. Len(s) : j < k => s[j].t < s[k].t

\* The bounce loop, after each sample.
Touched(i) == [last |-> i, air |-> FALSE, peak |-> 0, over |-> FALSE]
LEMMA ContactsAre ==
  ASSUME NEW s, Len(s) \in Nat, NEW i \in 1 .. Len(s)
  PROVE  Contacts(s, i) = [j \in i .. Len(s) |->
                             IF j = i THEN Touched(i) ELSE Bounce(s, Contacts(s, i)[j - 1], j)]
<1> DEFINE n == Len(s)
           Upto(f, k) == f = [j \in i .. k |-> IF j = i THEN Touched(i) ELSE Bounce(s, f[j - 1], j)]
<1>1. Contacts(s, i) = CHOOSE f : Upto(f, n)
  BY DEF Contacts, Touched
<1>2. \E f : Upto(f, n)
  <2> DEFINE Bad == {k \in i .. n : ~\E f : Upto(f, k)}
  <2>1. SUFFICES ASSUME Bad # {} PROVE FALSE
    OBVIOUS
  <2>2. PICK k \in Bad : \A l \in Bad : k <= l
    <3>1. Bad \subseteq Nat
      OBVIOUS
    <3> HIDE DEF Bad
    <3> QED
      BY <2>1, <3>1, Smallest
  <2>3. k # i
    <3>1. Upto([j \in i .. i |-> Touched(i)], i)
      OBVIOUS
    <3> QED
      BY <2>2, <3>1
  <2>4. PICK f : Upto(f, k - 1)
    BY <2>2, <2>3
  <2> DEFINE g == [j \in i .. k |-> IF j = k THEN Bounce(s, f[k - 1], k) ELSE f[j]]
  <2>5. k - 1 \in i .. k /\ k \in i .. n
    BY <2>2, <2>3
  <2>6. ASSUME NEW j \in i .. k
        PROVE  g[j] = IF j = i THEN Touched(i) ELSE Bounce(s, g[j - 1], j)
    <3>1. CASE j = k
      BY <2>3, <2>5, <3>1
    <3>2. CASE j # k
      <4>1. j \in i .. (k - 1) /\ (j # i => j - 1 \in i .. (k - 1) /\ j - 1 # k)
        BY <2>5, <3>2
      <4>2. f[j] = IF j = i THEN Touched(i) ELSE Bounce(s, f[j - 1], j)
        BY <2>4, <4>1
      <4> QED
        BY <3>2, <4>1, <4>2
    <3> QED
      BY <3>1, <3>2
  <2>7. Upto(g, k)
    BY <2>6
  <2> QED
    BY <2>2, <2>7
<1> QED
  BY <1>1, <1>2

\* The walk back from the first contact, after each sample.
Setout(i) == [start |-> i, climbed |-> FALSE, left |-> NoValue, stop |-> FALSE]
LEMMA WalkIs ==
  ASSUME NEW s, NEW i \in Nat, i >= 1, NEW last
  PROVE  Walk(s, i, last) = [j \in 1 .. i |->
                               IF j = i THEN Setout(i)
                               ELSE WalkBack(s, i, last, Walk(s, i, last)[j + 1], j)]
<1> DEFINE Downto(f, k) ==
             f = [j \in (i - k) .. i |->
                    IF j = i THEN Setout(i) ELSE WalkBack(s, i, last, f[j + 1], j)]
           n == i - 1
<1>1. Walk(s, i, last) = CHOOSE f : Downto(f, n)
  <2>1. i - n = 1
    OBVIOUS
  <2> QED
    BY <2>1 DEF Walk, Setout
<1>2. \E f : Downto(f, n)
  <2> DEFINE Bad == {k \in 0 .. n : ~\E f : Downto(f, k)}
  <2>1. SUFFICES ASSUME Bad # {} PROVE FALSE
    OBVIOUS
  <2>2. PICK k \in Bad : \A l \in Bad : k <= l
    <3>1. Bad \subseteq Nat
      OBVIOUS
    <3> HIDE DEF Bad
    <3> QED
      BY <2>1, <3>1, Smallest
  <2>3. k # 0
    <3>1. Downto([j \in i .. i |-> Setout(i)], 0)
      OBVIOUS
    <3> QED
      BY <2>2, <3>1
  <2>4. PICK f : Downto(f, k - 1)
    <3>1. k - 1 \in 0 .. n /\ ~(k <= k - 1)
      BY <2>2, <2>3
    <3>2. ~(k - 1 \in Bad)
      BY <2>2, <3>1
    <3> HIDE DEF Downto
    <3> QED
      BY <3>1, <3>2
  <2> DEFINE m == i - k
             g == [j \in m .. i |-> IF j = m THEN WalkBack(s, i, last, f[m + 1], m) ELSE f[j]]
  <2>5. m \in 1 .. i /\ m # i /\ i - (k - 1) = m + 1 /\ m \in m .. i
    BY <2>2, <2>3
  <2>6. ASSUME NEW j \in m .. i
        PROVE  g[j] = IF j = i THEN Setout(i) ELSE WalkBack(s, i, last, g[j + 1], j)
    <3>1. CASE j = m
      <4>1. m + 1 \in m .. i /\ m + 1 # m
        BY <2>5
      <4> QED
        BY <2>5, <3>1, <4>1
    <3>2. CASE j # m
      <4>1. j \in (m + 1) .. i /\ (j # i => j + 1 \in (m + 1) .. i /\ j + 1 # m)
        BY <2>5, <3>2
      <4>2. f[j] = IF j = i THEN Setout(i) ELSE WalkBack(s, i, last, f[j + 1], j)
        BY <2>4, <2>5, <4>1
      <4>3. j # i => j + 1 \in m .. i
        BY <2>5, <4>1
      <4> QED
        BY <3>2, <4>1, <4>2, <4>3
    <3> QED
      BY <3>1, <3>2
  <2>7. Downto(g, k)
    BY <2>6
  <2> QED
    BY <2>2, <2>7
<1> QED
  BY <1>1, <1>2

\* The loop over the candidates, after each.
LEMMA TakenIs ==
  ASSUME NEW s, Len(s) \in Nat, NEW now
  PROVE  Taken(s, now) = [i \in 0 .. Len(s) |->
                            IF i = 0 THEN [used |-> 0, found |-> <<>>]
                            ELSE Take(s, now, Taken(s, now)[i - 1], i)]
<1> DEFINE n == Len(s)
           Upto(f, k) == f = [i \in 0 .. k |-> IF i = 0 THEN [used |-> 0, found |-> <<>>]
                                               ELSE Take(s, now, f[i - 1], i)]
<1>1. Taken(s, now) = CHOOSE f : Upto(f, n)
  BY DEF Taken
<1>2. \E f : Upto(f, n)
  <2> DEFINE Bad == {k \in 0 .. n : ~\E f : Upto(f, k)}
  <2>1. SUFFICES ASSUME Bad # {} PROVE FALSE
    OBVIOUS
  <2>2. PICK k \in Bad : \A l \in Bad : k <= l
    <3>1. Bad \subseteq Nat
      OBVIOUS
    <3> HIDE DEF Bad
    <3> QED
      BY <2>1, <3>1, Smallest
  <2>3. k # 0
    <3>1. Upto([i \in 0 .. 0 |-> [used |-> 0, found |-> <<>>]], 0)
      OBVIOUS
    <3> QED
      BY <2>2, <3>1
  <2>4. PICK f : Upto(f, k - 1)
    BY <2>2, <2>3
  <2> DEFINE g == [i \in 0 .. k |-> IF i = k THEN Take(s, now, f[k - 1], k) ELSE f[i]]
  <2>5. k - 1 \in 0 .. k /\ k \in 0 .. n
    BY <2>2, <2>3
  <2>6. ASSUME NEW i \in 0 .. k
        PROVE  g[i] = IF i = 0 THEN [used |-> 0, found |-> <<>>] ELSE Take(s, now, g[i - 1], i)
    <3>1. CASE i = k
      BY <2>3, <2>5, <3>1
    <3>2. CASE i # k
      <4>1. i \in 0 .. (k - 1) /\ (i # 0 => i - 1 \in 0 .. (k - 1) /\ i - 1 # k)
        BY <2>5, <3>2
      <4>2. f[i] = IF i = 0 THEN [used |-> 0, found |-> <<>>] ELSE Take(s, now, f[i - 1], i)
        BY <2>4, <4>1
      <4> QED
        BY <3>2, <4>1, <4>2
    <3> QED
      BY <3>1, <3>2
  <2>7. Upto(g, k)
    BY <2>6
  <2> QED
    BY <2>2, <2>7
<1> QED
  BY <1>1, <1>2

----------------------------------------
(* One landing: its bounces and its approach. *)

LEMMA SamplesAre ==
  ASSUME NEW s, IsTrack(s), NEW j \in 1 .. Len(s)
  PROVE  /\ s[j] \in Received /\ s[j].t \in Int /\ s[j].deck \in BOOLEAN
         /\ s[j].alt \in Int \cup {NoValue}
         /\ Len(s) \in Nat
         /\ Height(s[j]) \in Int \cup {NoValue}
<1>1. s[j] \in Received
  BY DEF IsTrack
<1>2. Deck \in Nat
  BY ScaleAssumption
<1>3. s[j].t \in Int /\ s[j].deck \in BOOLEAN /\ s[j].alt \in Int \cup {NoValue}
  BY <1>1 DEF Received
<1>4. Surface(s[j]) \in Int
  BY <1>2 DEF Surface
<1>5. Height(s[j]) \in Int \cup {NoValue}
  BY <1>3, <1>4 DEF Height
<1> QED
  BY <1>1, <1>3, <1>5 DEF IsTrack

LEMMA TouchedNext ==
  ASSUME NEW s, IsTrack(s), NEW i \in 1 .. Len(s), NEW j \in i .. Len(s)
  PROVE  /\ Contacts(s, i)[i] = Touched(i)
         /\ j # i => Contacts(s, i)[j] = Bounce(s, Contacts(s, i)[j - 1], j)
<1>1. Len(s) \in Nat
  BY DEF IsTrack
<1>2. i \in i .. Len(s)
  BY <1>1
<1> QED
  BY <1>1, <1>2, ContactsAre

\* A bounce moves the last contact to where it is, or nowhere.
Bouncing(i, j) == [last : i .. j, air : BOOLEAN, peak : Int, over : BOOLEAN]
LEMMA BounceMoves ==
  ASSUME NEW s, IsTrack(s), NEW i \in 1 .. Len(s), NEW j \in 1 .. Len(s), i < j, NEW m \in Bouncing(i, j - 1)
  PROVE  /\ Bounce(s, m, j) \in Bouncing(i, j)
         /\ Bounce(s, m, j).last \in {m.last, j}
         /\ m.over => Bounce(s, m, j) = m
<1> DEFINE h == IF Height(s[j]) = NoValue THEN 0 ELSE Height(s[j])
<1>1. h \in Int /\ Len(s) \in Nat
  BY SamplesAre
<1>2. m.last \in i .. j /\ m.air \in BOOLEAN /\ m.peak \in Int /\ m.over \in BOOLEAN
  BY DEF Bouncing
<1>3. m = [last |-> m.last, air |-> m.air, peak |-> m.peak, over |-> m.over]
  BY DEF Bouncing
<1>4. CASE m.over
  <2>1. Bounce(s, m, j) = m
    BY <1>4 DEF Bounce
  <2> QED
    BY <1>2, <1>3, <2>1 DEF Bouncing
<1>5. CASE ~m.over /\ OnDeck(s[j]) = FALSE
  <2>1. Bounce(s, m, j) = [m EXCEPT !.air = TRUE, !.peak = IF h > @ THEN h ELSE @]
    BY <1>5 DEF Bounce
  <2> HIDE DEF h
  <2>2. Bounce(s, m, j) = [last |-> m.last, air |-> TRUE, peak |-> IF h > m.peak THEN h ELSE m.peak,
                           over |-> m.over]
    BY <1>3, <2>1 DEF Bouncing
  <2> QED
    BY <1>1, <1>2, <1>5, <2>2 DEF Bouncing
<1>6. CASE ~m.over /\ OnDeck(s[j]) # FALSE /\ ~m.air
  <2>1. Bounce(s, m, j) = m
    BY <1>6 DEF Bounce
  <2> QED
    BY <1>2, <1>3, <1>6, <2>1 DEF Bouncing
<1>7. CASE ~m.over /\ OnDeck(s[j]) # FALSE /\ m.air
  <2>1. CASE m.peak > BounceMerge \/ Hard(s, j)
    <3>1. Bounce(s, m, j) = [m EXCEPT !.over = TRUE]
      BY <1>7, <2>1 DEF Bounce
    <3>2. Bounce(s, m, j) = [last |-> m.last, air |-> m.air, peak |-> m.peak, over |-> TRUE]
      BY <1>3, <3>1 DEF Bouncing
    <3> QED
      BY <1>2, <1>7, <3>2 DEF Bouncing
  <2>2. CASE ~(m.peak > BounceMerge \/ Hard(s, j))
    <3>1. Bounce(s, m, j) = [last |-> j, air |-> FALSE, peak |-> 0, over |-> FALSE]
      BY <1>7, <2>2 DEF Bounce
    <3> QED
      BY <1>1, <1>7, <3>1 DEF Bouncing
  <2> QED
    BY <2>1, <2>2
<1> QED
  BY <1>2, <1>4, <1>5, <1>6, <1>7

LEMMA TouchedRuns ==
  ASSUME NEW s, IsTrack(s), NEW i \in 1 .. Len(s)
  PROVE  \A j \in i .. Len(s) : Contacts(s, i)[j] \in Bouncing(i, j)
<1> DEFINE n == Len(s)
           Bad == {j \in i .. n : Contacts(s, i)[j] \notin Bouncing(i, j)}
<1>0. n \in Nat
  BY DEF IsTrack
<1>1. SUFFICES ASSUME Bad # {} PROVE FALSE
  OBVIOUS
<1>2. PICK j \in Bad : \A l \in Bad : j <= l
  <2>1. Bad \subseteq Nat
    BY <1>0
  <2> HIDE DEF Bad
  <2> QED
    BY <1>1, <2>1, Smallest
<1>3. j # i
  <2>1. Contacts(s, i)[i] \in Bouncing(i, i)
    <3>1. i \in i .. Len(s)
      BY <1>0
    <3>2. Contacts(s, i)[i] = Touched(i)
      BY <3>1, TouchedNext
    <3> QED
      BY <1>0, <3>2 DEF Touched, Bouncing
  <2> QED
    BY <1>2, <2>1
<1>4. j - 1 \in i .. n /\ j \in 1 .. n /\ i < j /\ ~(j <= j - 1)
  BY <1>0, <1>2, <1>3
<1>5. Contacts(s, i)[j - 1] \in Bouncing(i, j - 1)
  BY <1>2, <1>4
<1>6. Contacts(s, i)[j] \in Bouncing(i, j)
  BY <1>2, <1>3, <1>4, <1>5, TouchedNext, BounceMoves
<1> QED
  BY <1>2, <1>6

LEMMA LastContactIs ==
  ASSUME NEW s, IsTrack(s), NEW i \in 1 .. Len(s)
  PROVE  LastContact(s, i) \in i .. Len(s)
<1>1. Len(s) \in i .. Len(s)
  BY DEF IsTrack
<1>2. Contacts(s, i)[Len(s)] \in Bouncing(i, Len(s))
  BY <1>1, TouchedRuns
<1> QED
  BY <1>2 DEF LastContact, Bouncing

\* The walk back never leaves a contact behind it.
Walked(s, i, j, w) ==
  /\ w = [start |-> w.start, climbed |-> w.climbed, left |-> w.left, stop |-> w.stop]
  /\ w.start \in 1 .. i
  /\ \A k \in w.start .. (i - 1) : OnDeck(s[k]) # TRUE
  /\ w.left # NoValue => w.left \in w.start .. i
  /\ ~w.stop => w.start = j
LEMMA WalkedAs ==
  ASSUME NEW s, NEW i, NEW j, NEW start \in 1 .. i, NEW climbed, NEW left, NEW stop,
         \A k \in start .. (i - 1) : OnDeck(s[k]) # TRUE,
         left # NoValue => left \in start .. i,
         ~stop => start = j
  PROVE  Walked(s, i, j, [start |-> start, climbed |-> climbed, left |-> left, stop |-> stop])
BY DEF Walked

LEMMA WalkBackKeeps ==
  ASSUME NEW s, IsTrack(s), NEW i \in 1 .. Len(s), NEW last \in 1 .. Len(s), NEW j \in 1 .. i, j # i,
         NEW w, Walked(s, i, j + 1, w)
  PROVE  Walked(s, i, j, WalkBack(s, i, last, w, j))
<1> DEFINE h == Height(s[j])
           v == WalkBack(s, i, last, w, j)
           early == s[j].t < s[last].t - ApproachWindow
           late == s[j].t >= s[last].t - ApproachWindow
           left == Departure(s, i, w, j)
           climbed == w.climbed \/ Climbing(s, j)
<1>0. /\ i \in Nat /\ j \in Nat /\ j < i /\ j + 1 \in 1 .. i /\ (late <=> ~early)
      /\ h \in Int \cup {NoValue} /\ BounceMerge \in Nat /\ ApproachWindow \in Nat
      /\ TouchAndGo \in Nat /\ s[j].t \in Int /\ s[last].t \in Int /\ s[i].t \in Int
  <2>1. j \in 1 .. Len(s) /\ i \in Nat /\ j \in Nat /\ j < i /\ j + 1 \in 1 .. i
    BY DEF IsTrack
  <2>2. ApproachWindow \in Nat /\ BounceMerge \in Nat /\ TouchAndGo \in Nat
    BY ScaleAssumption
  <2>3. s[j].t \in Int /\ s[last].t \in Int /\ s[i].t \in Int /\ h \in Int \cup {NoValue}
    BY <2>1, SamplesAre
  <2> QED
    BY <2>1, <2>2, <2>3
<1>1. /\ w.start \in 1 .. i /\ (w.left # NoValue => w.left \in w.start .. i)
      /\ \A k \in w.start .. (i - 1) : OnDeck(s[k]) # TRUE
      /\ w = [start |-> w.start, climbed |-> w.climbed, left |-> w.left, stop |-> w.stop]
  BY DEF Walked
<1>2. CASE w.stop
  <2>1. v = w
    BY <1>2 DEF WalkBack
  <2> QED
    BY <1>1, <1>2, <2>1 DEF Walked
<1>3. CASE ~w.stop /\ (early \/ (late /\ OnDeck(s[j]) # TRUE /\ h # NoValue /\ h > BounceMerge
                                   /\ w.left # NoValue))
  <2>1. v = [w EXCEPT !.stop = TRUE]
    <3>1. CASE early
      BY <1>0, <1>3, <3>1 DEF WalkBack
    <3>2. CASE late /\ OnDeck(s[j]) # TRUE /\ h # NoValue /\ h > BounceMerge /\ w.left # NoValue
      <4>1. h \in Int /\ ~(h <= BounceMerge)
        BY <1>0, <3>2
      <4> QED
        BY <1>0, <1>3, <3>2, <4>1 DEF WalkBack
    <3> QED
      BY <1>3, <3>1, <3>2
  <2>2. v = [start |-> w.start, climbed |-> w.climbed, left |-> w.left, stop |-> TRUE]
    BY <1>1, <2>1
  <2> QED
    BY <1>1, <2>2, WalkedAs
<1>4. CASE ~w.stop /\ late /\ OnDeck(s[j]) = TRUE
  <2>1. v = [w EXCEPT !.stop = TRUE, !.left = NoValue]
    BY <1>0, <1>4 DEF WalkBack
  <2>2. v = [start |-> w.start, climbed |-> w.climbed, left |-> NoValue, stop |-> TRUE]
    BY <1>1, <2>1
  <2> QED
    BY <1>1, <2>2, WalkedAs
<1>5. ASSUME ~w.stop, late, OnDeck(s[j]) # TRUE, NEW c, NEW l, l \in {w.start, w.left},
             v = [start |-> j, climbed |-> c, left |-> l, stop |-> w.stop]
      PROVE  Walked(s, i, j, v)
  <2>1. w.start = j + 1
    BY <1>5 DEF Walked
  <2>2. j \in 1 .. i /\ \A k \in j .. (i - 1) : k = j \/ k \in (j + 1) .. (i - 1)
    BY <1>0
  <2>3. \A k \in j .. (i - 1) : OnDeck(s[k]) # TRUE
    BY <1>1, <1>5, <2>1, <2>2
  <2>4. l # NoValue => l \in j .. i
    BY <1>0, <1>1, <1>5, <2>1
  <2> QED
    BY <1>5, <2>2, <2>3, <2>4, WalkedAs
<1>6. CASE ~w.stop /\ late /\ OnDeck(s[j]) # TRUE /\ h = NoValue
  <2>1. v = [w EXCEPT !.start = j]
    BY <1>0, <1>6 DEF WalkBack
  <2>2. v = [start |-> j, climbed |-> w.climbed, left |-> w.left, stop |-> w.stop]
    BY <1>1, <2>1
  <2> QED
    BY <1>5, <1>6, <2>2
<1>7. CASE ~w.stop /\ late /\ OnDeck(s[j]) # TRUE /\ h # NoValue /\ h <= BounceMerge
  <2>0. h \in Int /\ ~(h > BounceMerge)
    BY <1>0, <1>7
  <2>1. v = [[w EXCEPT !.start = j] EXCEPT !.climbed = FALSE, !.left = left]
    BY <1>0, <1>7, <2>0 DEF WalkBack
  <2>2. v = [start |-> j, climbed |-> FALSE, left |-> left, stop |-> w.stop]
    BY <1>1, <2>1
  <2>3. left \in {w.start, w.left}
    BY DEF Departure
  <2> QED
    BY <1>5, <1>7, <2>2, <2>3
<1>8. CASE ~w.stop /\ late /\ OnDeck(s[j]) # TRUE /\ h # NoValue /\ h > BounceMerge /\ w.left = NoValue
  <2>0. h \in Int /\ ~(h <= BounceMerge)
    BY <1>0, <1>8
  <2>1. v = [[w EXCEPT !.start = j] EXCEPT !.climbed = @ \/ Climbing(s, j)]
    BY <1>0, <1>8, <2>0 DEF WalkBack
  <2>2. [w EXCEPT !.start = j] = [start |-> j, climbed |-> w.climbed, left |-> w.left, stop |-> w.stop]
    BY <1>1
  <2>3. v = [start |-> j, climbed |-> climbed, left |-> w.left, stop |-> w.stop]
    BY <2>1, <2>2
  <2> QED
    BY <1>5, <1>8, <2>3
<1> QED
  <2>1. h = NoValue \/ (h # NoValue /\ h <= BounceMerge) \/ (h # NoValue /\ h > BounceMerge)
    BY <1>0
  <2> QED
    BY <1>0, <1>2, <1>3, <1>4, <1>6, <1>7, <1>8, <2>1

LEMMA WalkKeeps ==
  ASSUME NEW s, IsTrack(s), NEW i \in 1 .. Len(s), NEW last \in 1 .. Len(s)
  PROVE  \A j \in 1 .. i : Walked(s, i, j, Walk(s, i, last)[j])
<1> DEFINE w == Walk(s, i, last)
           Bad == {k \in 0 .. (i - 1) : ~Walked(s, i, i - k, w[i - k])}
<1>0. Len(s) \in Nat /\ i \in Nat /\ i >= 1 /\ i - 1 \in Nat
  BY DEF IsTrack
<1>1. \A j \in 1 .. i : w[j] = IF j = i THEN Setout(i) ELSE WalkBack(s, i, last, w[j + 1], j)
  <2>1. w = [j \in 1 .. i |-> IF j = i THEN Setout(i) ELSE WalkBack(s, i, last, w[j + 1], j)]
    BY <1>0, WalkIs
  <2> HIDE DEF w
  <2> QED
    BY <2>1
<1> HIDE DEF w
<1>2. Bad = {}
  <2>1. SUFFICES ASSUME Bad # {} PROVE FALSE
    OBVIOUS
  <2>2. PICK k \in Bad : \A l \in Bad : k <= l
    <3>1. Bad \subseteq Nat
      BY <1>0
    <3> HIDE DEF Bad
    <3> QED
      BY <2>1, <3>1, Smallest
  <2> DEFINE j == i - k
  <2>3. j \in 1 .. i
    BY <1>0, <2>2
  <2>4. CASE j = i
    <3>1. w[j] = Setout(i)
      BY <1>1, <2>3, <2>4
    <3>2. Walked(s, i, i, Setout(i))
      <4>1. i \in 1 .. i /\ \A l \in i .. (i - 1) : OnDeck(s[l]) # TRUE
        <5>1. i \in 1 .. i /\ i .. (i - 1) = {}
          BY <1>0
        <5> QED
          BY <5>1
      <4> QED
        BY <4>1 DEF Walked, Setout
    <3> QED
      BY <2>2, <2>4, <3>1, <3>2
  <2>5. CASE j # i
    <3>1. k - 1 \in 0 .. (i - 1) /\ ~(k <= k - 1) /\ i - (k - 1) = j + 1 /\ j + 1 \in 1 .. i
      BY <1>0, <2>2, <2>5
    <3>2. Walked(s, i, j + 1, w[j + 1])
      BY <2>2, <3>1
    <3>3. Walked(s, i, j, WalkBack(s, i, last, w[j + 1], j))
      BY <2>3, <2>5, <3>2, WalkBackKeeps
    <3>4. w[j] = WalkBack(s, i, last, w[j + 1], j)
      BY <1>1, <2>3, <2>5
    <3> QED
      BY <2>2, <3>3, <3>4
  <2> QED
    BY <2>4, <2>5
<1>3. ASSUME NEW j \in 1 .. i PROVE Walked(s, i, j, w[j])
  <2>1. i - j \in 0 .. (i - 1) /\ i - (i - j) = j
    BY <1>0
  <2> QED
    BY <1>2, <2>1
<1> QED
  BY <1>3 DEF w

LEMMA StartIs ==
  ASSUME NEW s, IsTrack(s), NEW i \in 1 .. Len(s), NEW last \in 1 .. Len(s)
  PROVE  /\ ApproachStart(s, i, last) \in 1 .. i
         /\ \A k \in ApproachStart(s, i, last) .. (i - 1) : OnDeck(s[k]) # TRUE
<1> DEFINE w == Walk(s, i, last)[1]
<1>0. Len(s) \in Nat /\ i \in Nat /\ 1 \in 1 .. i
  BY DEF IsTrack
<1>1. Walked(s, i, 1, w)
  BY <1>0, WalkKeeps
<1> HIDE DEF w
<1>2. /\ w.start \in 1 .. i /\ (w.left # NoValue => w.left \in w.start .. i)
      /\ \A k \in w.start .. (i - 1) : OnDeck(s[k]) # TRUE
  BY <1>1 DEF Walked
<1>3. ApproachStart(s, i, last) = IF w.left = NoValue THEN w.start ELSE w.left
  BY DEF ApproachStart, w
<1>4. CASE w.left = NoValue
  BY <1>2, <1>3, <1>4
<1>5. CASE w.left # NoValue
  <2>1. w.left \in 1 .. i /\ w.left .. (i - 1) \subseteq w.start .. (i - 1)
    BY <1>0, <1>2, <1>5
  <2> QED
    BY <1>2, <1>3, <1>5, <2>1
<1> QED
  BY <1>4, <1>5

LEMMA EndIs ==
  ASSUME NEW s, IsTrack(s), NEW i \in 1 .. Len(s), NEW last
  PROVE  ApproachEnd(s, i, last) \in i .. Len(s)
<1> DEFINE S == {i} \cup {j \in i .. Len(s) : s[j].t <= s[last].t + PostTail}
<1>1. Len(s) \in Nat /\ S \subseteq 0 .. Len(s) /\ S # {} /\ S \subseteq i .. Len(s)
  BY DEF IsTrack
<1>2. Greatest(S) \in S
  <2> HIDE DEF S
  <2> QED
    BY <1>1, GreatestIs
<1> QED
  BY <1>1, <1>2 DEF ApproachEnd

\* How far a landing uses the samples up: to its last contact, or to the sample
\* its climb-out was seen at.
Reach(s, i) ==
  LET out == ClimbOuts(s, LastContact(s, i))
  IN  IF out = {} THEN LastContact(s, i) ELSE Least(out)
LEMMA ReachIs ==
  ASSUME NEW s, IsTrack(s), NEW i \in 1 .. Len(s)
  PROVE  /\ Reach(s, i) \in LastContact(s, i) .. Len(s)
         /\ Reach(s, i) = LastContact(s, i) \/ Reach(s, i) \in ClimbOuts(s, LastContact(s, i))
         /\ ClimbOuts(s, LastContact(s, i)) # {} =>
              /\ Reach(s, i) \in ClimbOuts(s, LastContact(s, i))
              /\ \A j \in ClimbOuts(s, LastContact(s, i)) : Reach(s, i) <= j
<1> DEFINE last == LastContact(s, i)
           out == ClimbOuts(s, last)
<1>1. Len(s) \in Nat /\ last \in i .. Len(s) /\ i \in Nat
  BY LastContactIs DEF IsTrack
<1> HIDE DEF last
<1>2. out \subseteq (last + 1) .. Len(s)
  BY DEF ClimbOuts
<1>3. out \subseteq Nat
  BY <1>1, <1>2
<1> HIDE DEF out
<1>4. out # {} => Least(out) \in out /\ \A j \in out : Least(out) <= j
  BY <1>3, LeastIs
<1>5. Reach(s, i) = IF out = {} THEN last ELSE Least(out)
  BY DEF Reach, last, out
<1>6. Reach(s, i) \in last .. Len(s)
  <2>1. CASE out = {}
    BY <1>1, <1>5, <2>1
  <2>2. CASE out # {}
    <3>1. Least(out) \in (last + 1) .. Len(s)
      BY <1>2, <1>4, <2>2
    <3> QED
      BY <1>1, <1>5, <2>2, <3>1
  <2> QED
    BY <2>1, <2>2
<1>7. Reach(s, i) = last \/ Reach(s, i) \in out
  BY <1>4, <1>5
<1>8. out # {} => Reach(s, i) \in out /\ \A j \in out : Reach(s, i) <= j
  BY <1>4, <1>5
<1> QED
  BY <1>6, <1>7, <1>8 DEF last, out

\* What is said of the landing that begins at sample i.
At(s, i, now) == Landing(s, i, LastContact(s, i), now)
LEMMA LandingIs ==
  ASSUME NEW s, NEW i, NEW now
  PROVE  /\ At(s, i, now).first = s[i].t
         /\ At(s, i, now).time = s[LastContact(s, i)].t
         /\ At(s, i, now).outcome = "full_stop" <=> ClimbOuts(s, LastContact(s, i)) = {}
         /\ At(s, i, now).cut =
              [k \in 1 .. (ApproachEnd(s, i, LastContact(s, i))
                             - ApproachStart(s, i, LastContact(s, i)) + 1) |->
                 s[ApproachStart(s, i, LastContact(s, i)) + k - 1]]
BY DEF At, Landing

LEMMA TimesAre ==
  ASSUME NEW s, NEW i, NEW now
  PROVE  At(s, i, now).first = s[i].t /\ At(s, i, now).time = s[LastContact(s, i)].t
BY DEF At, Landing

\* The approach stored for a landing holds no contact before its own.
LEMMA CutIsClear ==
  ASSUME NEW s, IsTrack(s), NEW i \in 1 .. Len(s), NEW now,
         NEW n \in DOMAIN At(s, i, now).cut, At(s, i, now).cut[n].t < At(s, i, now).first
  PROVE  OnDeck(At(s, i, now).cut[n]) # TRUE
<1> DEFINE last == LastContact(s, i)
           a == ApproachStart(s, i, last)
           b == ApproachEnd(s, i, last)
<1>1. Len(s) \in Nat /\ i \in Nat /\ last \in i .. Len(s) /\ last \in 1 .. Len(s)
  BY LastContactIs DEF IsTrack
<1> HIDE DEF last
<1>2. a \in 1 .. i /\ b \in i .. Len(s) /\ \A k \in a .. (i - 1) : OnDeck(s[k]) # TRUE
  BY <1>1, StartIs, EndIs
<1>3. /\ At(s, i, now).first = s[i].t
      /\ At(s, i, now).cut = [k \in 1 .. (b - a + 1) |-> s[a + k - 1]]
  BY LandingIs DEF last
<1> HIDE DEF a, b
<1>4. n \in 1 .. (b - a + 1) /\ At(s, i, now).cut[n] = s[a + n - 1]
  BY <1>2, <1>3
<1>5. a + n - 1 \in 1 .. Len(s) /\ a + n - 1 >= a /\ a + n - 1 \in Nat
  BY <1>1, <1>2, <1>4
<1>6. a + n - 1 < i
  <2>1. SUFFICES ASSUME a + n - 1 >= i PROVE FALSE
    BY <1>1, <1>5
  <2>2. s[a + n - 1].t >= s[i].t
    <3>1. s[a + n - 1].t \in Int /\ s[i].t \in Int
      BY <1>5, SamplesAre
    <3>2. i < a + n - 1 => s[i].t < s[a + n - 1].t
      BY <1>5 DEF IsTrack
    <3> QED
      BY <1>1, <1>5, <2>1, <3>1, <3>2
  <2>3. s[a + n - 1].t \in Int /\ s[i].t \in Int
    BY <1>5, SamplesAre
  <2> QED
    BY <1>3, <1>4, <2>2, <2>3
<1>7. a + n - 1 \in a .. (i - 1)
  BY <1>1, <1>2, <1>5, <1>6
<1> QED
  BY <1>2, <1>4, <1>7

----------------------------------------
(* The landings of one analysis. *)

IsLanding(s, now, i) == Candidate(s, i) /\ ~(i <= Taken(s, now)[i - 1].used) /\ ~Sinks(s, i)
LEMMA TakenNext ==
  ASSUME NEW s, IsTrack(s), NEW now, NEW i \in 1 .. Len(s)
  PROVE  LET a == Taken(s, now)[i - 1]
             b == Taken(s, now)[i]
         IN  /\ ~IsLanding(s, now, i) => b = a
             /\ IsLanding(s, now, i) =>
                  /\ b.used = IF Reach(s, i) > a.used THEN Reach(s, i) ELSE a.used
                  /\ b.found = Append(a.found, At(s, i, now))
<1> DEFINE a == Taken(s, now)[i - 1]
           b == Taken(s, now)[i]
<1>1. Len(s) \in Nat /\ i \in 0 .. Len(s) /\ i # 0
  BY DEF IsTrack
<1>2. b = Take(s, now, a, i)
  BY <1>1, TakenIs
<1>3. CASE ~IsLanding(s, now, i)
  BY <1>2, <1>3 DEF IsLanding, Take
<1>4. CASE IsLanding(s, now, i)
  <2>1. b = [used |-> IF Reach(s, i) > a.used THEN Reach(s, i) ELSE a.used,
             found |-> Append(a.found, At(s, i, now))]
    BY <1>2, <1>4 DEF IsLanding, Take, Reach, At
  <2> QED
    BY <1>4, <2>1
<1> QED
  BY <1>3, <1>4

\* After sample i: everything that landed is found, in order, and nothing else,
\* and the samples are used up as far as the landings reach.
Landings(s, now) == {At(s, j, now) : j \in 1 .. Len(s)}
FoundAll(s, now, i) ==
  LET a == Taken(s, now)[i] IN
  /\ a.found \in Seq(Landings(s, now))
  /\ \A k \in DOMAIN a.found : \E j \in 1 .. i : IsLanding(s, now, j) /\ a.found[k] = At(s, j, now)
  /\ \A j \in 1 .. i : IsLanding(s, now, j) => \E k \in DOMAIN a.found : a.found[k] = At(s, j, now)
Used(s, now, i) ==
  LET a == Taken(s, now)[i] IN
  /\ a.used \in 0 .. Len(s)
  /\ a.used = 0 \/ \E j \in 1 .. i : IsLanding(s, now, j) /\ a.used = Reach(s, j)
  /\ \A j \in 1 .. i : IsLanding(s, now, j) => Reach(s, j) <= a.used
InOrder(found) == \A k, l \in DOMAIN found : k < l => found[k].time < found[l].first

LEMMA FoundNext ==
  ASSUME NEW s, IsTrack(s), NEW now, NEW i \in 1 .. Len(s), FoundAll(s, now, i - 1)
  PROVE  FoundAll(s, now, i)
<1> DEFINE a == Taken(s, now)[i - 1]
           b == Taken(s, now)[i]
           e == At(s, i, now)
<1>1. i \in Nat /\ i \in 1 .. i /\ 1 .. (i - 1) \subseteq 1 .. i
      /\ \A j \in 1 .. i : j = i \/ j \in 1 .. (i - 1)
  BY DEF IsTrack
<1>2. /\ ~IsLanding(s, now, i) => b = a
      /\ IsLanding(s, now, i) => b.found = Append(a.found, e)
  BY TakenNext
<1>3. /\ a.found \in Seq(Landings(s, now))
      /\ \A k \in DOMAIN a.found : \E j \in 1 .. (i - 1) : IsLanding(s, now, j) /\ a.found[k] = At(s, j, now)
      /\ \A j \in 1 .. (i - 1) : IsLanding(s, now, j) => \E k \in DOMAIN a.found : a.found[k] = At(s, j, now)
  BY DEF FoundAll
<1>4. e \in Landings(s, now)
  BY DEF Landings
<1> SUFFICES
      /\ b.found \in Seq(Landings(s, now))
      /\ \A k \in DOMAIN b.found : \E j \in 1 .. i : IsLanding(s, now, j) /\ b.found[k] = At(s, j, now)
      /\ \A j \in 1 .. i : IsLanding(s, now, j) => \E k \in DOMAIN b.found : b.found[k] = At(s, j, now)
  BY DEF FoundAll
<1> HIDE DEF a, b
<1>5. CASE ~IsLanding(s, now, i)
  BY <1>1, <1>2, <1>3, <1>5
<1>6. CASE IsLanding(s, now, i)
  <2> DEFINE f == a.found
             g == b.found
             V == Landings(s, now)
  <2> HIDE DEF e, f, g, V
  <2>1. f \in Seq(V) /\ e \in V /\ g = Append(f, e)
    BY <1>2, <1>3, <1>4, <1>6 DEF f, g, V
  <2>2. /\ g \in Seq(V) /\ DOMAIN g = 1 .. (Len(f) + 1) /\ DOMAIN f = 1 .. Len(f) /\ Len(f) \in Nat
        /\ g[Len(f) + 1] = e /\ \A k \in 1 .. Len(f) : g[k] = f[k]
    BY <2>1
  <2>3. ASSUME NEW k \in DOMAIN g
        PROVE  \E j \in 1 .. i : IsLanding(s, now, j) /\ g[k] = At(s, j, now)
    <3>1. CASE k = Len(f) + 1
      BY <1>1, <1>6, <2>2, <3>1 DEF e
    <3>2. CASE k # Len(f) + 1
      <4>1. k \in DOMAIN f /\ g[k] = f[k]
        BY <2>2, <3>2
      <4>2. PICK j \in 1 .. (i - 1) : IsLanding(s, now, j) /\ f[k] = At(s, j, now)
        BY <1>3, <4>1 DEF f
      <4> QED
        BY <1>1, <4>1, <4>2
    <3> QED
      BY <3>1, <3>2
  <2>4. ASSUME NEW j \in 1 .. i, IsLanding(s, now, j)
        PROVE  \E k \in DOMAIN g : g[k] = At(s, j, now)
    <3>1. CASE j = i
      <4>1. Len(f) + 1 \in DOMAIN g
        BY <2>2
      <4> QED
        BY <2>2, <3>1, <4>1 DEF e
    <3>2. CASE j # i
      <4>1. PICK k \in DOMAIN f : f[k] = At(s, j, now)
        BY <1>1, <1>3, <2>4, <3>2 DEF f
      <4>2. k \in DOMAIN g /\ g[k] = f[k]
        BY <2>2
      <4> QED
        BY <4>1, <4>2
    <3> QED
      BY <3>1, <3>2
  <2> QED
    BY <2>2, <2>3, <2>4 DEF g, V
<1> QED
  BY <1>5, <1>6

LEMMA UsedNext ==
  ASSUME NEW s, IsTrack(s), NEW now, NEW i \in 1 .. Len(s), Used(s, now, i - 1)
  PROVE  Used(s, now, i)
<1> DEFINE a == Taken(s, now)[i - 1]
           b == Taken(s, now)[i]
           r == Reach(s, i)
<1>1. i \in Nat /\ i \in 1 .. i /\ 1 .. (i - 1) \subseteq 1 .. i /\ Len(s) \in Nat
      /\ \A j \in 1 .. i : j = i \/ j \in 1 .. (i - 1)
  BY DEF IsTrack
<1>2. /\ ~IsLanding(s, now, i) => b = a
      /\ IsLanding(s, now, i) => b.used = IF r > a.used THEN r ELSE a.used
  BY TakenNext
<1>3. /\ a.used \in 0 .. Len(s)
      /\ a.used = 0 \/ \E j \in 1 .. (i - 1) : IsLanding(s, now, j) /\ a.used = Reach(s, j)
      /\ \A j \in 1 .. (i - 1) : IsLanding(s, now, j) => Reach(s, j) <= a.used
  BY DEF Used
<1>4. \A j \in 1 .. Len(s) : Reach(s, j) \in j .. Len(s)
  <2> TAKE j \in 1 .. Len(s)
  <2>1. LastContact(s, j) \in j .. Len(s)
    BY LastContactIs
  <2>2. Reach(s, j) \in LastContact(s, j) .. Len(s)
    BY ReachIs
  <2> QED
    BY <1>1, <2>1, <2>2
<1>5. r \in i .. Len(s)
  BY <1>4
<1> SUFFICES
      /\ b.used \in 0 .. Len(s)
      /\ b.used = 0 \/ \E j \in 1 .. i : IsLanding(s, now, j) /\ b.used = Reach(s, j)
      /\ \A j \in 1 .. i : IsLanding(s, now, j) => Reach(s, j) <= b.used
  BY DEF Used
<1> HIDE DEF a, b
<1>6. CASE ~IsLanding(s, now, i)
  BY <1>1, <1>2, <1>3, <1>6
<1>7. CASE IsLanding(s, now, i)
  <2>1. b.used = IF r > a.used THEN r ELSE a.used
    BY <1>2, <1>7
  <2> HIDE DEF r
  <2>2. b.used \in 0 .. Len(s) /\ r <= b.used /\ a.used <= b.used /\ b.used \in {r, a.used}
    BY <1>1, <1>3, <1>5, <2>1
  <2>3. b.used = 0 \/ \E j \in 1 .. i : IsLanding(s, now, j) /\ b.used = Reach(s, j)
    BY <1>1, <1>3, <1>7, <2>2 DEF r
  <2>4. ASSUME NEW j \in 1 .. i, IsLanding(s, now, j) PROVE Reach(s, j) <= b.used
    <3>1. CASE j = i
      BY <2>2, <3>1 DEF r
    <3>2. CASE j # i
      <4>1. Reach(s, j) <= a.used
        BY <1>1, <1>3, <2>4, <3>2
      <4>2. j \in 1 .. Len(s)
        BY <1>1
      <4>3. Reach(s, j) \in Nat
        BY <1>1, <1>4, <4>2
      <4> QED
        BY <1>3, <2>2, <4>1, <4>3
    <3> QED
      BY <3>1, <3>2
  <2> QED
    BY <2>2, <2>3, <2>4
<1> QED
  BY <1>6, <1>7

LEMMA OrderNext ==
  ASSUME NEW s, IsTrack(s), NEW now, NEW i \in 1 .. Len(s),
         FoundAll(s, now, i - 1), Used(s, now, i - 1), InOrder(Taken(s, now)[i - 1].found)
  PROVE  InOrder(Taken(s, now)[i].found)
<1> DEFINE a == Taken(s, now)[i - 1]
           f == a.found
           g == Taken(s, now)[i].found
           e == At(s, i, now)
           V == Landings(s, now)
<1>1. i \in Nat /\ Len(s) \in Nat /\ i <= Len(s)
  BY DEF IsTrack
<1>2. CASE ~IsLanding(s, now, i)
  BY <1>2, TakenNext
<1>3. CASE IsLanding(s, now, i)
  <2>1. g = Append(f, e)
    BY <1>3, TakenNext
  <2>2. f \in Seq(V)
    BY DEF FoundAll
  <2>3. \A k \in DOMAIN f : \E j \in 1 .. (i - 1) : IsLanding(s, now, j) /\ f[k] = At(s, j, now)
    BY DEF FoundAll
  <2>4. a.used \in 0 .. Len(s) /\ \A j \in 1 .. (i - 1) : IsLanding(s, now, j) => Reach(s, j) <= a.used
    BY DEF Used
  <2>5. ~(i <= a.used)
    BY <1>3 DEF IsLanding
  <2>6. InOrder(f)
    OBVIOUS
  <2>7. e \in V
    BY DEF Landings
  <2> HIDE DEF a, f, g, e, V
  <2>8. /\ DOMAIN g = 1 .. (Len(f) + 1) /\ DOMAIN f = 1 .. Len(f) /\ Len(f) \in Nat
        /\ g[Len(f) + 1] = e /\ \A k \in 1 .. Len(f) : g[k] = f[k]
    BY <2>1, <2>2, <2>7
  <2>9. ASSUME NEW k \in DOMAIN f PROVE f[k].time < e.first
    <3>1. PICK j \in 1 .. (i - 1) : IsLanding(s, now, j) /\ f[k] = At(s, j, now)
      BY <2>3
    <3> DEFINE last == LastContact(s, j)
    <3>2. j \in 1 .. Len(s) /\ Reach(s, j) <= a.used
      BY <1>1, <2>4, <3>1
    <3>3. last \in j .. Len(s) /\ Reach(s, j) \in last .. Len(s)
      <4>1. last \in j .. Len(s)
        BY <3>2, LastContactIs
      <4>2. Reach(s, j) \in last .. Len(s)
        BY <3>2, ReachIs
      <4> QED
        BY <4>1, <4>2
    <3>4. f[k].time = s[last].t /\ e.first = s[i].t
      <4>1. At(s, j, now).time = s[last].t /\ At(s, i, now).first = s[i].t
        BY TimesAre
      <4> QED
        BY <3>1, <4>1 DEF e
    <3> HIDE DEF last
    <3>5. last \in 1 .. Len(s) /\ last < i
      BY <1>1, <2>4, <2>5, <3>2, <3>3
    <3>6. s[last].t < s[i].t
      BY <3>5 DEF IsTrack
    <3> QED
      BY <3>4, <3>6
  <2>10. ASSUME NEW k \in DOMAIN g, NEW l \in DOMAIN g, k < l PROVE g[k].time < g[l].first
    <3>1. k \in DOMAIN f /\ g[k] = f[k]
      BY <2>8, <2>10
    <3>2. CASE l = Len(f) + 1
      BY <2>8, <2>9, <3>1, <3>2
    <3>3. CASE l # Len(f) + 1
      <4>1. l \in DOMAIN f /\ g[l] = f[l]
        BY <2>8, <3>3
      <4> QED
        BY <2>6, <2>10, <3>1, <4>1 DEF InOrder
    <3> QED
      BY <3>2, <3>3
  <2>11. InOrder(g)
    BY <2>10 DEF InOrder
  <2> QED
    BY <2>11 DEF g
<1> QED
  BY <1>2, <1>3

LEMMA TakenKeeps ==
  ASSUME NEW s, IsTrack(s), NEW now
  PROVE  \A i \in 0 .. Len(s) :
           FoundAll(s, now, i) /\ Used(s, now, i) /\ InOrder(Taken(s, now)[i].found)
<1> DEFINE Good(i) == FoundAll(s, now, i) /\ Used(s, now, i) /\ InOrder(Taken(s, now)[i].found)
           Bad == {i \in 0 .. Len(s) : ~Good(i)}
<1>0. Len(s) \in Nat
  BY DEF IsTrack
<1>1. SUFFICES ASSUME Bad # {} PROVE FALSE
  OBVIOUS
<1>2. PICK i \in Bad : \A l \in Bad : i <= l
  <2>1. Bad \subseteq Nat
    BY <1>0
  <2> HIDE DEF Bad
  <2> QED
    BY <1>1, <2>1, Smallest
<1>3. CASE i = 0
  <2>1. Taken(s, now)[0] = [used |-> 0, found |-> <<>>]
    <3>1. 0 \in 0 .. Len(s)
      BY <1>0
    <3> QED
      BY <1>0, <3>1, TakenIs
  <2>2. Good(0)
    BY <1>0, <2>1 DEF FoundAll, Used, InOrder
  <2> QED
    BY <1>2, <1>3, <2>2
<1>4. CASE i # 0
  <2>1. i \in 1 .. Len(s) /\ i - 1 \in 0 .. Len(s) /\ ~(i <= i - 1)
    BY <1>0, <1>2, <1>4
  <2>2. Good(i - 1)
    BY <1>2, <2>1
  <2>3. Good(i)
    BY <2>1, <2>2, FoundNext, UsedNext, OrderNext
  <2> QED
    BY <1>2, <2>3
<1> QED
  BY <1>3, <1>4

\* An analysis finds what landed, in order, and nothing else.
LEMMA AnalysisIs ==
  ASSUME NEW s, IsTrack(s), NEW now
  PROVE  LET f == AnalyzeTrack(s, now) IN
         /\ f \in Seq(Landings(s, now)) /\ InOrder(f)
         /\ \A k \in DOMAIN f : \E j \in 1 .. Len(s) : IsLanding(s, now, j) /\ f[k] = At(s, j, now)
         /\ \A j \in 1 .. Len(s) : IsLanding(s, now, j) => \E k \in DOMAIN f : f[k] = At(s, j, now)
<1>0. Len(s) \in Nat /\ Len(s) \in 0 .. Len(s)
  BY DEF IsTrack
<1>1. CASE Len(s) < 2
  <2>1. AnalyzeTrack(s, now) = <<>>
    BY <1>1 DEF AnalyzeTrack
  <2>2. \A j \in 1 .. Len(s) : ~IsLanding(s, now, j)
    BY <1>0, <1>1 DEF IsLanding, Candidate
  <2>3. <<>> \in Seq(Landings(s, now)) /\ DOMAIN <<>> = {}
    OBVIOUS
  <2> QED
    BY <2>1, <2>2, <2>3 DEF InOrder
<1>2. CASE ~(Len(s) < 2)
  <2>1. AnalyzeTrack(s, now) = Taken(s, now)[Len(s)].found
    BY <1>2 DEF AnalyzeTrack
  <2>2. FoundAll(s, now, Len(s)) /\ InOrder(Taken(s, now)[Len(s)].found)
    BY <1>0, TakenKeeps
  <2> QED
    BY <2>1, <2>2 DEF FoundAll
<1> QED
  BY <1>1, <1>2

\* Whether a contact is a landing of its own does not depend on the time the
\* analysis is made at.
UsedUp(s, now, i) == \E j \in 1 .. (i - 1) : IsLanding(s, now, j) /\ i <= Reach(s, j)
LEMMA LandedIs ==
  ASSUME NEW s, IsTrack(s), NEW now, NEW i \in 1 .. Len(s)
  PROVE  IsLanding(s, now, i) <=> Candidate(s, i) /\ ~Sinks(s, i) /\ ~UsedUp(s, now, i)
<1> DEFINE u == Taken(s, now)[i - 1].used
<1>0. Len(s) \in Nat /\ i \in Nat /\ i - 1 \in 0 .. Len(s) /\ i > 0
  BY DEF IsTrack
<1>1. Used(s, now, i - 1)
  BY <1>0, TakenKeeps
<1>2. /\ u \in 0 .. Len(s)
      /\ u = 0 \/ \E j \in 1 .. (i - 1) : IsLanding(s, now, j) /\ u = Reach(s, j)
      /\ \A j \in 1 .. (i - 1) : IsLanding(s, now, j) => Reach(s, j) <= u
  BY <1>1 DEF Used
<1>3. \A j \in 1 .. (i - 1) : Reach(s, j) \in Int
  <2> TAKE j \in 1 .. (i - 1)
  <2>1. j \in 1 .. Len(s)
    BY <1>0
  <2>2. LastContact(s, j) \in j .. Len(s) /\ Reach(s, j) \in LastContact(s, j) .. Len(s)
    BY <2>1, LastContactIs, ReachIs
  <2> QED
    BY <1>0, <2>1, <2>2
<1> HIDE DEF u
<1>4. i <= u <=> UsedUp(s, now, i)
  <2>1. ASSUME i <= u PROVE UsedUp(s, now, i)
    BY <1>0, <1>2, <2>1 DEF UsedUp
  <2>2. ASSUME UsedUp(s, now, i) PROVE i <= u
    <3>1. PICK j \in 1 .. (i - 1) : IsLanding(s, now, j) /\ i <= Reach(s, j)
      BY <2>2 DEF UsedUp
    <3> QED
      BY <1>0, <1>2, <1>3, <3>1
  <2> QED
    BY <2>1, <2>2
<1> QED
  BY <1>4 DEF IsLanding, u

----------------------------------------
(* A track that has slid: its d oldest samples are gone, some may have come*)

Slid(s, s2, d) ==
  /\ IsTrack(s) /\ IsTrack(s2) /\ d \in 0 .. Len(s)
  /\ Len(s) - d <= Len(s2)
  /\ \A j \in 1 .. (Len(s) - d) : s2[j] = s[j + d]

LEMMA SlidIs ==
  ASSUME NEW s, NEW s2, NEW d, Slid(s, s2, d), NEW j \in 1 .. (Len(s) - d)
  PROVE  /\ Len(s) \in Nat /\ Len(s2) \in Nat /\ d \in Nat /\ j \in Nat
         /\ j \in 1 .. Len(s2) /\ j + d \in 1 .. Len(s) /\ s2[j] = s[j + d]
<1>1. Len(s) \in Nat /\ Len(s2) \in Nat /\ d \in 0 .. Len(s)
      /\ Len(s) - d <= Len(s2) /\ s2[j] = s[j + d]
  BY DEF Slid, IsTrack
<1> QED
  BY <1>1

LEMMA BeforeSlid ==
  ASSUME NEW s, NEW s2, NEW d, Slid(s, s2, d), NEW j \in 1 .. (Len(s) - d), NEW span
  PROVE  \A k \in 1 .. (j - 1) : k \in Before(s2, j, span) <=> k + d \in Before(s, j + d, span)
<1>1. Len(s) \in Nat /\ d \in Nat /\ j \in Nat /\ s2[j] = s[j + d]
  BY SlidIs
<1>2. ASSUME NEW k \in 1 .. (j - 1)
      PROVE  k \in Before(s2, j, span) <=> k + d \in Before(s, j + d, span)
  <2>1. k \in 1 .. (Len(s) - d) /\ k + d \in 1 .. (j + d - 1)
    BY <1>1
  <2>2. s2[k] = s[k + d]
    BY <2>1, SlidIs, SMTT(30)
  <2> QED
    BY <1>1, <2>1, <2>2 DEF Before
<1> QED
  BY <1>2

\* A rate is measured against the same sample, unless that is gone.
LEMMA ReferenceSlid ==
  ASSUME NEW s, NEW s2, NEW d, Slid(s, s2, d), NEW j \in 1 .. (Len(s) - d), NEW span
  PROVE  /\ Reference(s2, j, span) # NoValue =>
              /\ Reference(s2, j, span) \in 1 .. (j - 1)
              /\ Reference(s, j + d, span) = Reference(s2, j, span) + d
         /\ d = 0 => Reference(s2, j, span) = Reference(s, j, span)
<1> DEFINE B2 == Before(s2, j, span)
           B == Before(s, j + d, span)
           g == Greatest(B)
           g2 == Greatest(B2)
<1>1. Len(s) \in Nat /\ d \in Nat /\ j \in Nat /\ s2[j] = s[j + d] /\ NoValue \notin Int
  BY SlidIs, ScaleAssumption
<1>2. ASSUME NEW k \in 1 .. (j - 1)
      PROVE  (k \in B2) <=> (k + d \in B)
  <2> HIDE DEF B, B2
  <2>1. (k \in Before(s2, j, span)) <=> (k + d \in Before(s, j + d, span))
    BY BeforeSlid
  <2> QED
    BY <2>1 DEF B, B2
<1>3. B2 \subseteq 1 .. (j - 1) /\ B \subseteq 1 .. (j + d - 1)
  <2>1. \A i : Before(s, i, span) \subseteq 1 .. (i - 1) /\ Before(s2, i, span) \subseteq 1 .. (i - 1)
    BY DEF Before
  <2>2. j + d - 1 = (j + d) - 1
    BY <1>1
  <2> QED
    BY <2>1, <2>2
<1>4. B2 # {} => g2 \in B2 /\ \A y \in B2 : y <= g2
  <2>1. j \in Nat /\ B2 \subseteq 0 .. j
    BY <1>1, <1>3
  <2> HIDE DEF B2
  <2> QED
    BY <2>1, GreatestIs
<1>5. B # {} => g \in B /\ \A y \in B : y <= g
  <2>1. j + d \in Nat /\ B \subseteq 0 .. (j + d)
    BY <1>1, <1>3
  <2> HIDE DEF B
  <2> QED
    BY <2>1, GreatestIs
<1>6. Reference(s2, j, span) = IF B2 = {} THEN NoValue
                               ELSE IF s2[g2].alt = NoValue \/ s2[j].alt = NoValue THEN NoValue ELSE g2
  BY DEF Reference
<1>7. Reference(s, j + d, span) = IF B = {} THEN NoValue
                                  ELSE IF s[g].alt = NoValue \/ s[j + d].alt = NoValue THEN NoValue ELSE g
  BY DEF Reference
<1> HIDE DEF B, B2, g, g2
<1>8. ASSUME B2 # {} PROVE B # {} /\ g = g2 + d /\ s2[g2] = s[g] /\ g2 \in 1 .. (j - 1)
  <2>1. g2 \in B2 /\ g2 \in 1 .. (j - 1) /\ g2 + d \in B
    BY <1>2, <1>3, <1>4, <1>8
  <2>2. g \in B /\ g \in 1 .. (j + d - 1) /\ g2 + d <= g
    BY <1>3, <1>5, <2>1
  <2>3. g - d \in 1 .. (j - 1) /\ (g - d) + d = g
    BY <1>1, <2>1, <2>2
  <2>4. g - d \in B2
    BY <1>2, <2>2, <2>3
  <2>5. g - d <= g2
    BY <1>4, <1>8, <2>4
  <2>6. g = g2 + d
    BY <1>1, <2>1, <2>2, <2>5
  <2>7. g2 \in 1 .. (Len(s) - d)
    BY <1>1, <2>1
  <2>8. s2[g2] = s[g2 + d]
    BY <2>7, SlidIs
  <2> QED
    BY <2>1, <2>6, <2>8
<1>9. ASSUME Reference(s2, j, span) # NoValue
      PROVE  /\ Reference(s2, j, span) \in 1 .. (j - 1)
             /\ Reference(s, j + d, span) = Reference(s2, j, span) + d
  <2>1. B2 # {} /\ s2[g2].alt # NoValue /\ s2[j].alt # NoValue /\ Reference(s2, j, span) = g2
    BY <1>6, <1>9
  <2> QED
    BY <1>1, <1>7, <1>8, <2>1
<1>10. ASSUME d = 0 PROVE Reference(s2, j, span) = Reference(s, j, span)
  <2>1. j + d = j /\ \A k \in 1 .. (j - 1) : k + d = k
    BY <1>1, <1>10
  <2>2. B = B2
    <3>1. 1 .. (j + d - 1) = 1 .. (j - 1)
      BY <1>1, <1>10
    <3>2. \A k \in 1 .. (j - 1) : (k \in B2) <=> (k \in B)
      BY <1>2, <2>1
    <3> QED
      BY <1>3, <3>1, <3>2
  <2>3. CASE B2 = {}
    BY <1>6, <1>7, <2>1, <2>2, <2>3
  <2>4. CASE B2 # {}
    <3>1. g2 + d = g2
      BY <1>8, <1>10, <2>4
    <3> QED
      BY <1>1, <1>6, <1>7, <1>8, <2>1, <2>2, <2>4, <3>1
  <2> QED
    BY <2>3, <2>4
<1> QED
  BY <1>9, <1>10

LEMMA HardSlid ==
  ASSUME NEW s, NEW s2, NEW d, Slid(s, s2, d), NEW j \in 1 .. (Len(s) - d)
  PROVE  /\ Hard(s2, j) => Hard(s, j + d)
         /\ d = 0 => (Hard(s2, j) <=> Hard(s, j)) /\ (Climbing(s2, j) <=> Climbing(s, j))
<1>1. Len(s) \in Nat /\ d \in Nat /\ j \in Nat /\ s2[j] = s[j + d] /\ NoValue \notin Int
  BY SlidIs, ScaleAssumption
<1>2. ASSUME Hard(s2, j) PROVE Hard(s, j + d)
  <2> DEFINE r == Reference(s2, j, DescentSpan)
  <2>1. r # NoValue /\ s2[r].alt - s2[j].alt > MaxDescent * (s2[j].t - s2[r].t)
    BY <1>2 DEF Hard
  <2>2. r \in 1 .. (j - 1) /\ Reference(s, j + d, DescentSpan) = r + d
    BY <2>1, ReferenceSlid
  <2>3. r \in 1 .. (Len(s) - d) /\ r + d \in Int
    BY <1>1, <2>2
  <2>4. s2[r] = s[r + d]
    BY <2>3, SlidIs
  <2> HIDE DEF r
  <2> QED
    BY <1>1, <2>1, <2>2, <2>3, <2>4 DEF Hard
<1>3. ASSUME d = 0 PROVE (Hard(s2, j) <=> Hard(s, j)) /\ (Climbing(s2, j) <=> Climbing(s, j))
  <2>1. \A span : Reference(s2, j, span) = Reference(s, j, span)
    BY <1>3, ReferenceSlid
  <2>2. ASSUME NEW span, Reference(s, j, span) # NoValue
        PROVE  s2[Reference(s, j, span)] = s[Reference(s, j, span)]
    <3> DEFINE r == Reference(s, j, span)
    <3>1. r \in 1 .. (j - 1)
      BY <2>1, <2>2, ReferenceSlid
    <3>2. r \in 1 .. (Len(s) - d)
      BY <1>1, <3>1
    <3>3. s2[r] = s[r + d] /\ r + d = r
      BY <1>1, <1>3, <3>1, <3>2, SlidIs
    <3> QED
      BY <3>3
  <2>3. s2[j] = s[j]
    BY <1>1, <1>3
  <2>4. Hard(s2, j) <=> Hard(s, j)
    BY <2>1, <2>2, <2>3 DEF Hard
  <2>5. Climbing(s2, j) <=> Climbing(s, j)
    BY <2>1, <2>2, <2>3 DEF Climbing
  <2> QED
    BY <2>4, <2>5
<1> QED
  BY <1>2, <1>3

\* A contact stays one, unless it is the oldest sample left.
LEMMA CandidateSlid ==
  ASSUME NEW s, NEW s2, NEW d, Slid(s, s2, d), NEW j \in 1 .. (Len(s) - d), j > 1
  PROVE  /\ Candidate(s, j + d) => Candidate(s2, j)
         /\ d = 0 => (Candidate(s2, j) <=> Candidate(s, j))
<1>1. Len(s) \in Nat /\ d \in Nat /\ j \in Nat /\ s2[j] = s[j + d] /\ j + d > 1
  BY SlidIs
<1>2. j - 1 \in 1 .. (Len(s) - d) /\ (j - 1) + d = (j + d) - 1
  BY <1>1
<1>3. s2[j - 1] = s[(j + d) - 1]
  BY <1>2, SlidIs
<1>4. Candidate(s, j + d) => Candidate(s2, j)
  BY <1>1, <1>3, HardSlid DEF Candidate
<1>5. d = 0 => (Candidate(s2, j) <=> Candidate(s, j))
  <2>1. SUFFICES ASSUME d = 0 PROVE Candidate(s2, j) <=> Candidate(s, j)
    OBVIOUS
  <2>2. j + d = j /\ (Hard(s2, j) <=> Hard(s, j))
    BY <1>1, <2>1, HardSlid
  <2> QED
    BY <1>1, <1>3, <2>2 DEF Candidate
<1> QED
  BY <1>4, <1>5

\* What newer samples change of a landing that sinks through the deck.
LEMMA SinksSlid ==
  ASSUME NEW s, NEW s2, Slid(s, s2, 0), NEW i \in 1 .. Len(s)
  PROVE  /\ Sinks(s, i) => Sinks(s2, i)
         /\ Sinks(s2, i) => Sinks(s, i) \/ \A k \in i .. Len(s) : OnDeck(s[k]) # FALSE
<1>1. Len(s) \in Nat /\ Len(s2) \in Nat /\ Len(s) <= Len(s2) /\ Len(s) - 0 = Len(s)
  BY DEF Slid, IsTrack
<1>2. \A j \in 1 .. Len(s) : s2[j] = s[j]
  <2> TAKE j \in 1 .. Len(s)
  <2>1. s2[j] = s[j + 0] /\ j + 0 = j
    BY <1>1, SlidIs
  <2> QED
    BY <2>1
<1>3. ASSUME NEW j \in i .. Len(s)
      PROVE  /\ j \in i .. Len(s2) /\ s2[j] = s[j]
             /\ \A k \in i .. (j - 1) : s2[k] = s[k]
  BY <1>1, <1>2
<1>4. Sinks(s, i) => Sinks(s2, i)
  BY <1>3 DEF Sinks
<1>5. ASSUME Sinks(s2, i) PROVE Sinks(s, i) \/ \A k \in i .. Len(s) : OnDeck(s[k]) # FALSE
  <2>1. PICK j \in i .. Len(s2) : BelowDeck(s2[j]) /\ \A k \in i .. (j - 1) : OnDeck(s2[k]) # FALSE
    BY <1>5 DEF Sinks
  <2>2. CASE j \in i .. Len(s)
    BY <1>3, <2>1, <2>2 DEF Sinks
  <2>3. CASE j \notin i .. Len(s)
    <3>1. i .. Len(s) \subseteq i .. (j - 1)
      BY <1>1, <2>1, <2>3
    <3>2. \A k \in i .. Len(s) : OnDeck(s2[k]) # FALSE
      BY <2>1, <3>1
    <3>3. \A k \in i .. Len(s) : k \in 1 .. Len(s)
      BY <1>1
    <3> QED
      BY <1>2, <3>2, <3>3
  <2> QED
    BY <2>2, <2>3
<1> QED
  BY <1>4, <1>5

\* The bounces of a landing after the track has slid: the same until the crash
\* test of the full track ended them, and never fewer.
Follows(m, m2, d) ==
  /\ m2.over => m.over
  /\ ~m.over => m2.last + d = m.last /\ m2.air = m.air /\ m2.peak = m.peak
  /\ m.last <= m2.last + d
  /\ d = 0 => m2 = m
LEMMA BounceSlid ==
  ASSUME NEW s, NEW s2, NEW d, Slid(s, s2, d), NEW i \in 1 .. (Len(s) - d),
         NEW j \in 1 .. (Len(s) - d), i < j,
         NEW m \in Bouncing(i + d, j + d - 1), NEW m2 \in Bouncing(i, j - 1), Follows(m, m2, d)
  PROVE  Follows(Bounce(s, m, j + d), Bounce(s2, m2, j), d)
<1> DEFINE h == IF Height(s[j + d]) = NoValue THEN 0 ELSE Height(s[j + d])
           b == Bounce(s, m, j + d)
           b2 == Bounce(s2, m2, j)
<1>1. Len(s) \in Nat /\ d \in Nat /\ i \in Nat /\ j \in Nat /\ s2[j] = s[j + d] /\ j + d \in 1 .. Len(s)
      /\ i \in 1 .. Len(s2) /\ j \in 1 .. Len(s2) /\ i + d \in 1 .. Len(s) /\ i + d < j + d
  BY SlidIs
<1>2. m.last \in (i + d) .. (j + d - 1) /\ m2.last \in i .. (j - 1)
      /\ m = [last |-> m.last, air |-> m.air, peak |-> m.peak, over |-> m.over]
      /\ m2 = [last |-> m2.last, air |-> m2.air, peak |-> m2.peak, over |-> m2.over]
      /\ m.air \in BOOLEAN /\ m2.air \in BOOLEAN /\ m.over \in BOOLEAN /\ m2.over \in BOOLEAN
      /\ m.peak \in Int /\ m2.peak \in Int
  BY DEF Bouncing
<1>3. IsTrack(s) /\ IsTrack(s2)
  BY DEF Slid
<1>4. b2 \in Bouncing(i, j) /\ b2.last \in {m2.last, j}
  BY <1>1, <1>3, BounceMoves
<1>5. m.last <= b2.last + d
  <2>1. m.last \in Int /\ m2.last \in Int /\ m2.last <= j
    BY <1>1, <1>2
  <2>2. m.last <= m2.last + d
    BY DEF Follows
  <2>3. d \in Nat /\ j \in Nat
    BY <1>1
  <2> HIDE DEF b2
  <2>4. b2.last \in {m2.last, j}
    BY <1>4
  <2> QED
    BY <2>1, <2>2, <2>3, <2>4
<1> SUFFICES Follows(b, b2, d)
  OBVIOUS
<1> HIDE DEF b, b2
<1>6. CASE m.over
  <2>1. b = m
    BY <1>6 DEF Bounce, b
  <2>2. d = 0 => b2 = b
    <3>1. SUFFICES ASSUME d = 0 PROVE b2 = b
      OBVIOUS
    <3>2. m2 = m
      BY <3>1 DEF Follows
    <3>3. b2 = m2
      BY <1>6, <3>2 DEF Bounce, b2
    <3> QED
      BY <2>1, <3>2, <3>3
  <2> QED
    BY <1>5, <1>6, <2>1, <2>2 DEF Follows
<1>7. CASE ~m.over
  <2>1. ~m2.over /\ m2.last + d = m.last /\ m2.air = m.air /\ m2.peak = m.peak
    BY <1>7 DEF Follows
  <2>2. CASE OnDeck(s[j + d]) = FALSE
    <3>1. /\ b = [m EXCEPT !.air = TRUE, !.peak = IF h > @ THEN h ELSE @]
          /\ b2 = [m2 EXCEPT !.air = TRUE, !.peak = IF h > @ THEN h ELSE @]
      BY <1>1, <1>7, <2>1, <2>2 DEF Bounce, b, b2
    <3> HIDE DEF h
    <3>2. /\ b = [last |-> m.last, air |-> TRUE, peak |-> IF h > m.peak THEN h ELSE m.peak, over |-> m.over]
          /\ b2 = [last |-> m2.last, air |-> TRUE, peak |-> IF h > m2.peak THEN h ELSE m2.peak,
                   over |-> m2.over]
      BY <1>2, <3>1
    <3>3. b2.over = m2.over /\ b.over = m.over /\ b2.last = m2.last /\ b.last = m.last
          /\ b2.air = b.air /\ b2.peak = b.peak
      BY <2>1, <3>2
    <3>4. d = 0 => b2 = b
      <4>1. SUFFICES ASSUME d = 0 PROVE b2 = b
        OBVIOUS
      <4>2. m2 = m
        BY <4>1 DEF Follows
      <4> QED
        BY <3>2, <4>2
    <3> QED
      BY <1>1, <1>2, <1>7, <2>1, <3>3, <3>4 DEF Follows
  <2>3. CASE OnDeck(s[j + d]) # FALSE /\ ~m.air
    <3>1. b = m
      BY <1>7, <2>3 DEF Bounce, b
    <3>2. OnDeck(s2[j]) # FALSE /\ ~m2.air /\ ~m2.over
      BY <1>1, <2>1, <2>3
    <3>3. b2 = m2
      BY <3>2 DEF Bounce, b2
    <3> QED
      BY <3>1, <3>3
  <2>4. CASE OnDeck(s[j + d]) # FALSE /\ m.air
    <3>1. /\ b = IF m.peak > BounceMerge \/ Hard(s, j + d) THEN [m EXCEPT !.over = TRUE]
                 ELSE [last |-> j + d, air |-> FALSE, peak |-> 0, over |-> FALSE]
          /\ b2 = IF m2.peak > BounceMerge \/ Hard(s2, j) THEN [m2 EXCEPT !.over = TRUE]
                  ELSE [last |-> j, air |-> FALSE, peak |-> 0, over |-> FALSE]
      BY <1>1, <1>7, <2>1, <2>4 DEF Bounce, b, b2
    <3>2. Hard(s2, j) => Hard(s, j + d)
      BY HardSlid
    <3>3. CASE ~(m.peak > BounceMerge \/ Hard(s, j + d))
      <4>1. b = [last |-> j + d, air |-> FALSE, peak |-> 0, over |-> FALSE]
            /\ b2 = [last |-> j, air |-> FALSE, peak |-> 0, over |-> FALSE]
        BY <2>1, <3>1, <3>2, <3>3
      <4>2. j + d <= j + d /\ (d = 0 => j + d = j)
        BY <1>1
      <4> QED
        BY <4>1, <4>2 DEF Follows
    <3>4. CASE m.peak > BounceMerge \/ Hard(s, j + d)
      <4>1. b = [last |-> m.last, air |-> m.air, peak |-> m.peak, over |-> TRUE]
        BY <1>2, <3>1, <3>4
      <4>2. d = 0 => b2 = b
        <5>1. SUFFICES ASSUME d = 0 PROVE b2 = b
          OBVIOUS
        <5>2. m2 = m /\ (Hard(s2, j) <=> Hard(s, j)) /\ j + d = j
          BY <1>1, <5>1, HardSlid DEF Follows
        <5> QED
          BY <3>1, <3>4, <5>2
      <4> QED
        BY <1>5, <4>1, <4>2 DEF Follows
    <3> QED
      BY <3>3, <3>4
  <2> QED
    BY <2>2, <2>3, <2>4
<1> QED
  BY <1>2, <1>6, <1>7
LEMMA ContactsSlid ==
  ASSUME NEW s, NEW s2, NEW d, Slid(s, s2, d), NEW i \in 1 .. (Len(s) - d)
  PROVE  \A j \in i .. (Len(s) - d) : Follows(Contacts(s, i + d)[j + d], Contacts(s2, i)[j], d)
<1> DEFINE n == Len(s) - d
           Good(j) == Follows(Contacts(s, i + d)[j + d], Contacts(s2, i)[j], d)
           Bad == {j \in i .. n : ~Good(j)}
<1>0. Len(s) \in Nat /\ d \in Nat /\ i \in Nat /\ n \in Int /\ IsTrack(s) /\ IsTrack(s2)
      /\ i + d \in 1 .. Len(s) /\ i \in 1 .. Len(s2)
  BY SlidIs DEF Slid
<1>1. SUFFICES ASSUME Bad # {} PROVE FALSE
  OBVIOUS
<1>2. PICK j \in Bad : \A l \in Bad : j <= l
  <2>1. Bad \subseteq Nat
    BY <1>0
  <2> HIDE DEF Bad
  <2> QED
    BY <1>1, <2>1, Smallest
<1>3. /\ j \in i .. n /\ j \in 1 .. (Len(s) - d) /\ j + d \in (i + d) .. Len(s) /\ j \in i .. Len(s2)
      /\ j + d - 1 = (j + d) - 1 /\ (j - 1) + d = (j + d) - 1
  <2>1. j \in i .. n /\ j \in 1 .. (Len(s) - d)
    BY <1>0, <1>2
  <2>2. j \in 1 .. Len(s2) /\ j + d \in 1 .. Len(s)
    BY <2>1, SlidIs
  <2> QED
    BY <1>0, <2>1, <2>2
<1>4. CASE j = i
  <2>1. Contacts(s, i + d)[j + d] = Touched(i + d) /\ Contacts(s2, i)[j] = Touched(i)
    BY <1>0, <1>3, <1>4, TouchedNext
  <2>2. Follows(Touched(i + d), Touched(i), d)
    <3>1. i + d <= i + d /\ (d = 0 => i + d = i)
      BY <1>0
    <3> QED
      BY <3>1 DEF Follows, Touched
  <2> QED
    BY <1>2, <2>1, <2>2
<1>5. CASE j # i
  <2> DEFINE m == Contacts(s, i + d)[(j + d) - 1]
             m2 == Contacts(s2, i)[j - 1]
  <2>1. j - 1 \in i .. n /\ ~(j <= j - 1) /\ j + d # i + d /\ i < j
        /\ (j + d) - 1 \in (i + d) .. Len(s) /\ j - 1 \in i .. Len(s2)
    BY <1>0, <1>3, <1>5
  <2>2. Good(j - 1)
    BY <1>2, <2>1
  <2>3. Follows(m, m2, d)
    BY <1>3, <2>2
  <2>4. m \in Bouncing(i + d, (j + d) - 1) /\ m2 \in Bouncing(i, j - 1)
    BY <1>0, <2>1, TouchedRuns
  <2>5. Contacts(s, i + d)[j + d] = Bounce(s, m, j + d) /\ Contacts(s2, i)[j] = Bounce(s2, m2, j)
    BY <1>0, <1>3, <1>5, <2>1, TouchedNext
  <2> HIDE DEF m, m2
  <2>6. Follows(Bounce(s, m, j + d), Bounce(s2, m2, j), d)
    BY <1>3, <2>1, <2>3, <2>4, BounceSlid
  <2> QED
    BY <1>2, <2>5, <2>6
<1> QED
  BY <1>4, <1>5

\* A landing's last contact only moves forward, and bounces that are over stay so.
LEMMA ContactsGrow ==
  ASSUME NEW s, IsTrack(s), NEW i \in 1 .. Len(s), NEW b \in i .. Len(s)
  PROVE  \A j \in b .. Len(s) :
           /\ Contacts(s, i)[b].last <= Contacts(s, i)[j].last
           /\ Contacts(s, i)[b].over => Contacts(s, i)[j] = Contacts(s, i)[b]
<1> DEFINE c == Contacts(s, i)
           Good(j) == c[b].last <= c[j].last /\ (c[b].over => c[j] = c[b])
           Bad == {j \in b .. Len(s) : ~Good(j)}
<1>0. Len(s) \in Nat /\ i \in Nat /\ b \in Nat
  BY DEF IsTrack
<1>1. SUFFICES ASSUME Bad # {} PROVE FALSE
  OBVIOUS
<1>2. PICK j \in Bad : \A l \in Bad : j <= l
  <2>1. Bad \subseteq Nat
    BY <1>0
  <2> HIDE DEF Bad
  <2> QED
    BY <1>1, <2>1, Smallest
<1>3. \A k \in i .. Len(s) : c[k] \in Bouncing(i, k) /\ c[k].last \in i .. k
  <2>1. \A k \in i .. Len(s) : c[k] \in Bouncing(i, k)
    BY TouchedRuns
  <2> QED
    BY <2>1 DEF Bouncing
<1>4. j # b
  <2>1. c[b].last <= c[b].last
    BY <1>0, <1>3
  <2> HIDE DEF c
  <2> QED
    BY <1>2, <2>1
<1>5. j - 1 \in b .. Len(s) /\ ~(j <= j - 1) /\ j \in i .. Len(s) /\ j - 1 \in i .. Len(s) /\ j # i
      /\ j \in 1 .. Len(s) /\ i < j
  BY <1>0, <1>2, <1>4
<1>6. Good(j - 1)
  BY <1>2, <1>5
<1>7. c[j] = Bounce(s, c[j - 1], j)
  BY <1>5, TouchedNext
<1>8. c[j].last \in {c[j - 1].last, j} /\ (c[j - 1].over => c[j] = c[j - 1])
  BY <1>3, <1>5, <1>7, BounceMoves
<1>9. c[b].last \in Int /\ c[j - 1].last \in Int /\ c[j - 1].last <= j - 1
  <2>1. c[b].last \in i .. b /\ c[j - 1].last \in i .. (j - 1)
    BY <1>3, <1>5
  <2> QED
    BY <1>0, <2>1
<1> HIDE DEF c
<1>10. c[b].last <= c[j].last
  BY <1>0, <1>5, <1>6, <1>8, <1>9
<1>11. c[b].over => c[j] = c[b]
  BY <1>6, <1>8
<1> QED
  BY <1>2, <1>10, <1>11

\* While the bounces go on, every contact after the first is one of them.
LEMMA BouncesMet ==
  ASSUME NEW s, IsTrack(s), NEW i \in 1 .. Len(s), NEW b \in i .. Len(s),
         b # i, b - 1 # i, OnDeck(s[b - 1]) = FALSE, OnDeck(s[b]) = TRUE,
         NEW j \in b .. Len(s), ~Contacts(s, i)[j].over
  PROVE  b <= Contacts(s, i)[j].last
<1> DEFINE c == Contacts(s, i)
<1>0. Len(s) \in Nat /\ i \in Nat /\ b \in Nat /\ j \in Nat
      /\ b - 1 \in i .. Len(s) /\ b - 1 # i /\ (b - 1) - 1 \in i .. Len(s)
      /\ b - 1 \in 1 .. Len(s) /\ i < b - 1
  BY DEF IsTrack
<1>1. \A k \in i .. Len(s) : c[k] \in Bouncing(i, k)
  BY TouchedRuns
<1>2. \A k \in i .. j : ~c[k].over
  <2> SUFFICES ASSUME NEW k \in i .. j, c[k].over PROVE FALSE
    OBVIOUS
  <2>1. k \in i .. Len(s) /\ j \in k .. Len(s)
    BY <1>0
  <2>2. c[j] = c[k]
    BY <2>1, ContactsGrow
  <2> QED
    BY <2>2
<1>3. /\ c[b] = Bounce(s, c[b - 1], b)
      /\ c[b - 1] = Bounce(s, c[(b - 1) - 1], b - 1)
  BY <1>0, TouchedNext
<1>4. ~c[b].over /\ ~c[b - 1].over /\ ~c[(b - 1) - 1].over
  BY <1>0, <1>2
<1> DEFINE m == c[(b - 1) - 1]
<1>5. m = [last |-> m.last, air |-> m.air, peak |-> m.peak, over |-> m.over]
  BY <1>0, <1>1 DEF Bouncing
<1>6. c[b] \in Bouncing(i, b) /\ c[b - 1] \in Bouncing(i, b - 1)
  BY <1>0, <1>1
<1>7. c[b - 1].air = TRUE
  <2> DEFINE h == IF Height(s[b - 1]) = NoValue THEN 0 ELSE Height(s[b - 1])
             m1 == c[b - 1]
  <2>1. m1 = [m EXCEPT !.air = TRUE, !.peak = IF h > @ THEN h ELSE @]
    BY <1>3, <1>4 DEF Bounce
  <2> HIDE DEF m, m1, h
  <2>2. m1.air = TRUE
    BY <1>5, <2>1
  <2> QED
    BY <2>2 DEF m1
<1>8. c[b].last = b
  <2> DEFINE m1 == c[b - 1]
             m2 == c[b]
  <2>1. m1 = [last |-> m1.last, air |-> m1.air, peak |-> m1.peak, over |-> m1.over]
    BY <1>6 DEF Bouncing
  <2>2. m2 = Bounce(s, m1, b) /\ ~m1.over /\ ~m2.over /\ m1.air = TRUE
    BY <1>3, <1>4, <1>7
  <2> HIDE DEF m1, m2
  <2>3. CASE m1.peak > BounceMerge \/ Hard(s, b)
    <3>1. m2 = [m1 EXCEPT !.over = TRUE]
      BY <2>2, <2>3 DEF Bounce
    <3>2. m2.over = TRUE
      BY <2>1, <3>1
    <3> QED
      BY <2>2, <3>2
  <2>4. CASE ~(m1.peak > BounceMerge \/ Hard(s, b))
    <3>1. m2 = [last |-> b, air |-> FALSE, peak |-> 0, over |-> FALSE]
      BY <2>2, <2>4 DEF Bounce
    <3> QED
      BY <3>1 DEF m2
  <2> QED
    BY <2>3, <2>4 DEF m2
<1>9. c[b].last <= c[j].last
  BY <1>0, ContactsGrow
<1> QED
  BY <1>8, <1>9
----------------------------------------
(* More samples at the end of a track that has lost none. *)

LEMMA ClimbOutsSlid ==
  ASSUME NEW s, NEW s2, Slid(s, s2, 0), NEW l \in 1 .. Len(s), NEW j \in 1 .. Len(s)
  PROVE  j \in ClimbOuts(s2, l) <=> j \in ClimbOuts(s, l)
<1>1. Len(s) \in Nat /\ Len(s2) \in Nat /\ Len(s) - 0 = Len(s) /\ Len(s) <= Len(s2) /\ 0 = 0
  <2>1. Len(s) \in Nat /\ Len(s2) \in Nat /\ Len(s) - 0 <= Len(s2)
    BY DEF Slid, IsTrack
  <2> QED
    BY <2>1
<1>2. s2[j] = s[j] /\ s2[l] = s[l]
  <2>1. s2[j] = s[j + 0] /\ s2[l] = s[l + 0]
    BY <1>1, SlidIs
  <2> QED
    BY <1>1, <2>1
<1>3. Climbing(s2, j) <=> Climbing(s, j)
  BY <1>1, HardSlid
<1>4. (j \in (l + 1) .. Len(s2)) <=> (j \in (l + 1) .. Len(s))
  BY <1>1
<1> QED
  BY <1>2, <1>3, <1>4 DEF ClimbOuts

LEMMA LastSlid ==
  ASSUME NEW s, NEW s2, Slid(s, s2, 0), NEW i \in 1 .. Len(s)
  PROVE  /\ LastContact(s2, i) = LastContact(s, i) \/ Len(s) < LastContact(s2, i)
         /\ Len(s) < LastContact(s2, i) => ~Contacts(s, i)[Len(s)].over
<1> DEFINE n == Len(s)
           c == Contacts(s2, i)
           last == LastContact(s, i)
           Bad == {k \in n .. Len(s2) : ~(c[k].last = last \/ n < c[k].last)}
<1>1. /\ IsTrack(s) /\ IsTrack(s2) /\ n \in Nat /\ Len(s2) \in Nat /\ n <= Len(s2) /\ i \in Nat /\ i \in 1 .. Len(s2)
      /\ n \in i .. n /\ n \in i .. Len(s2) /\ n - 0 = n /\ n + 0 = n /\ i + 0 = i /\ Len(s2) \in n .. Len(s2)
  <2>1. IsTrack(s) /\ IsTrack(s2) /\ n \in Nat /\ Len(s2) \in Nat /\ n - 0 <= Len(s2)
    BY DEF Slid, IsTrack
  <2> QED
    BY <2>1
<1>2. c[n] = Contacts(s, i)[n] /\ c[n].last = last
  <2>1. Follows(Contacts(s, i + 0)[n + 0], Contacts(s2, i)[n], 0)
    BY <1>1, ContactsSlid
  <2> QED
    BY <1>1, <2>1 DEF Follows, LastContact
<1>3. last \in i .. n /\ LastContact(s2, i) = c[Len(s2)].last
  BY LastContactIs, <1>1 DEF LastContact
<1>4. c[n].over => c[Len(s2)] = c[n]
  BY <1>1, ContactsGrow
<1>5. ASSUME NEW k \in n .. Len(s2), k # n PROVE c[k].last \in {c[k - 1].last, k}
  <2>1. k \in i .. Len(s2) /\ k - 1 \in i .. Len(s2) /\ k # i /\ k \in 1 .. Len(s2) /\ i < k
    <3> HIDE DEF n, c, last, Bad
    <3>1. i <= n /\ n < k /\ k <= Len(s2) /\ k \in Int /\ 1 <= i
      BY <1>1, <1>5
    <3> QED
      BY <1>1, <3>1
  <2>2. c[k] = Bounce(s2, c[k - 1], k) /\ c[k - 1] \in Bouncing(i, k - 1)
    BY <1>1, <2>1, TouchedNext, TouchedRuns
  <2> HIDE DEF c
  <2> QED
    BY <1>1, <2>1, <2>2, BounceMoves
<1> HIDE DEF c, last, n
<1>6. Bad = {}
  <2> SUFFICES ASSUME Bad # {} PROVE FALSE
    OBVIOUS
  <2>1. PICK k \in Bad : \A l \in Bad : k <= l
    <3>1. Bad \subseteq Nat
      BY <1>1
    <3> HIDE DEF Bad
    <3> QED
      BY <3>1, Smallest
  <2>2. k \in n .. Len(s2) /\ k # n /\ c[k].last # last /\ ~(n < c[k].last)
    BY <1>2, <2>1
  <2>3. k - 1 \in n .. Len(s2) /\ ~(k <= k - 1) /\ n < k
    BY <1>1, <2>2
  <2>4. c[k - 1].last = last \/ n < c[k - 1].last
    BY <2>1, <2>3
  <2> QED
    BY <1>5, <2>2, <2>3, <2>4
<1>7. LastContact(s2, i) = last \/ n < LastContact(s2, i)
  BY <1>1, <1>3, <1>6
<1>8. n < LastContact(s2, i) => ~Contacts(s, i)[n].over
  BY <1>1, <1>2, <1>3, <1>4
<1> QED
  BY <1>7, <1>8 DEF n, last

LEMMA ReachSlid ==
  ASSUME NEW s, NEW s2, Slid(s, s2, 0), NEW i \in 1 .. Len(s)
  PROVE  Reach(s2, i) \in Int /\ (Reach(s2, i) = Reach(s, i) \/ Len(s) < Reach(s2, i))
<1> DEFINE n == Len(s)
           last == LastContact(s, i)
           last2 == LastContact(s2, i)
           out == ClimbOuts(s, last)
           out2 == ClimbOuts(s2, last2)
           r == Reach(s, i)
           r2 == Reach(s2, i)
<1>1. IsTrack(s) /\ IsTrack(s2) /\ n \in Nat /\ Len(s2) \in Nat /\ n <= Len(s2) /\ i \in Nat /\ i \in 1 .. Len(s2)
  <2>1. IsTrack(s) /\ IsTrack(s2) /\ n \in Nat /\ Len(s2) \in Nat /\ n - 0 <= Len(s2)
    BY DEF Slid, IsTrack
  <2> QED
    BY <2>1
<1>2. last \in i .. n /\ (last2 = last \/ n < last2) /\ last2 \in i .. Len(s2)
  BY <1>1, LastContactIs, LastSlid
<1>3. /\ r \in last .. n /\ (r = last \/ r \in out)
      /\ out # {} => r \in out /\ \A j \in out : r <= j
  BY <1>1, ReachIs
<1>4. /\ r2 \in last2 .. Len(s2) /\ (r2 = last2 \/ r2 \in out2)
      /\ out2 # {} => r2 \in out2 /\ \A j \in out2 : r2 <= j
  BY <1>1, ReachIs
<1>7. r2 \in Int
  BY <1>1, <1>2, <1>4
<1>5. CASE n < last2
  BY <1>1, <1>2, <1>4, <1>5
<1>6. CASE last2 = last
  <2>1. \A j \in 1 .. n : (j \in out2) <=> (j \in out)
    <3> TAKE j \in 1 .. n
    <3>1. last \in 1 .. n
      BY <1>1, <1>2
    <3>2. (j \in ClimbOuts(s2, last)) <=> (j \in ClimbOuts(s, last))
      BY <3>1, ClimbOutsSlid
    <3> QED
      BY <1>6, <3>2
  <2>2. out \subseteq (last + 1) .. n /\ out2 \subseteq (last2 + 1) .. Len(s2)
    BY DEF ClimbOuts
  <2>3. out \subseteq 1 .. n
    BY <1>1, <1>2, <2>2
  <2> HIDE DEF n, last, last2, out, out2, r, r2
  <2>4. CASE out2 = {}
    <3>1. out = {}
      BY <2>1, <2>3, <2>4
    <3> QED
      BY <1>3, <1>4, <1>6, <2>4, <3>1 DEF r, r2
  <2>5. CASE out2 # {}
    <3>1. r2 \in out2 /\ \A j \in out2 : r2 <= j
      BY <1>4, <2>5
    <3>2. CASE r2 \in 1 .. n
      <4>1. r2 \in out /\ r \in out /\ r <= r2
        BY <1>3, <2>1, <3>1, <3>2
      <4>2. r2 <= r
        BY <2>1, <2>3, <3>1, <4>1
      <4>3. r2 = r
        BY <1>1, <1>2, <1>3, <3>2, <4>1, <4>2
      <4> QED
        BY <1>7, <4>3 DEF r, r2
    <3>3. CASE r2 \notin 1 .. n
      <4>1. n < r2
        BY <1>1, <1>2, <1>4, <3>3
      <4> QED
        BY <1>7, <4>1 DEF r2, n
    <3> QED
      BY <3>2, <3>3
  <2> QED
    BY <2>4, <2>5
<1> QED
  BY <1>2, <1>5, <1>6

\* No older contact becomes a landing when a sample comes in.
LEMMA LandedSlid ==
  ASSUME NEW s, NEW s2, Slid(s, s2, 0), NEW now, NEW now2
  PROVE  \A j \in 1 .. Len(s) : IsLanding(s2, now2, j) => IsLanding(s, now, j)
<1> DEFINE n == Len(s)
           Bad == {j \in 1 .. n : IsLanding(s2, now2, j) /\ ~IsLanding(s, now, j)}
<1>0. /\ IsTrack(s) /\ IsTrack(s2) /\ n \in Nat /\ 1 .. n \subseteq 1 .. Len(s2)
      /\ n - 0 = n /\ 0 = 0
  <2>1. IsTrack(s) /\ IsTrack(s2) /\ n \in Nat /\ Len(s2) \in Nat /\ n - 0 <= Len(s2)
    BY DEF Slid, IsTrack
  <2> QED
    BY <2>1
<1>1. SUFFICES ASSUME Bad # {} PROVE FALSE
  OBVIOUS
<1>2. PICK j \in Bad : \A l \in Bad : j <= l
  <2>1. Bad \subseteq Nat
    BY <1>0
  <2> HIDE DEF Bad
  <2> QED
    BY <1>1, <2>1, Smallest
<1>3. j \in 1 .. n /\ IsLanding(s2, now2, j) /\ ~IsLanding(s, now, j)
      /\ \A l \in 1 .. (j - 1) : IsLanding(s2, now2, l) => IsLanding(s, now, l)
  <2>1. j \in 1 .. n /\ \A l \in 1 .. (j - 1) : l \in 1 .. n /\ ~(j <= l)
    BY <1>0, <1>2
  <2> QED
    BY <1>2, <2>1
<1>4. Candidate(s2, j) /\ ~Sinks(s2, j) /\ ~UsedUp(s2, now2, j)
  BY <1>0, <1>3, LandedIs
<1>5. j > 1 /\ j - 1 \in 1 .. n /\ OnDeck(s2[j - 1]) = FALSE
  <2>1. j > 1 /\ OnDeck(s2[j - 1]) = FALSE
    BY <1>4 DEF Candidate
  <2> QED
    BY <1>0, <1>3, <2>1
<1>6. Candidate(s, j)
  BY <1>0, <1>3, <1>4, <1>5, CandidateSlid
<1>7. ~Sinks(s, j)
  BY <1>3, <1>4, SinksSlid
<1>8. UsedUp(s, now, j)
  BY <1>0, <1>3, <1>6, <1>7, LandedIs
<1>9. PICK i \in 1 .. (j - 1) : IsLanding(s, now, i) /\ j <= Reach(s, i)
  BY <1>8 DEF UsedUp
<1>10. i \in 1 .. n /\ i \in 1 .. Len(s2) /\ i < j /\ j - 1 \in i .. n /\ i \in Nat /\ j \in Nat
  BY <1>0, <1>3, <1>9
<1>11. Candidate(s, i) /\ ~Sinks(s, i) /\ ~UsedUp(s, now, i)
  BY <1>0, <1>9, <1>10, LandedIs
<1>12. Candidate(s2, i) /\ i > 1
  <2>1. i > 1
    BY <1>11 DEF Candidate
  <2> QED
    BY <1>0, <1>10, <1>11, <2>1, CandidateSlid
<1>13. ~Sinks(s2, i)
  <2>1. s2[j - 1] = s[j - 1]
    <3>1. s2[j - 1] = s[(j - 1) + 0] /\ (j - 1) + 0 = j - 1
      BY <1>0, <1>5, SlidIs
    <3> QED
      BY <3>1
  <2>2. ~\A k \in i .. n : OnDeck(s[k]) # FALSE
    BY <1>5, <1>10, <2>1
  <2> QED
    BY <1>10, <1>11, <2>2, SinksSlid
<1>14. Reach(s2, i) \in Int /\ (Reach(s2, i) = Reach(s, i) \/ n < Reach(s2, i))
  BY <1>10, ReachSlid
<1>16. CASE ~UsedUp(s2, now2, i)
  <2>1. IsLanding(s2, now2, i)
    BY <1>0, <1>10, <1>12, <1>13, <1>16, LandedIs
  <2>2. j <= Reach(s2, i)
    BY <1>0, <1>3, <1>9, <1>14
  <2> QED
    BY <1>4, <1>9, <2>1, <2>2 DEF UsedUp
<1>17. CASE UsedUp(s2, now2, i)
  <2>1. PICK h \in 1 .. (i - 1) : IsLanding(s2, now2, h) /\ i <= Reach(s2, h)
    BY <1>17 DEF UsedUp
  <2>2. h \in 1 .. (j - 1) /\ h \in 1 .. n
    BY <1>3, <1>10, <2>1
  <2>3. IsLanding(s, now, h)
    BY <1>3, <2>1, <2>2
  <2>4. ~(i <= Reach(s, h))
    BY <1>11, <2>1, <2>3 DEF UsedUp
  <2>5. Reach(s2, h) \in Int /\ (Reach(s2, h) = Reach(s, h) \/ n < Reach(s2, h))
    BY <2>2, ReachSlid
  <2>6. n < Reach(s2, h)
    BY <2>1, <2>4, <2>5
  <2>7. j <= Reach(s2, h)
    BY <1>0, <1>3, <2>5, <2>6
  <2> QED
    BY <1>4, <2>1, <2>2, <2>7 DEF UsedUp
<1> QED
  BY <1>16, <1>17

\* Nor does an earlier one come to reach a landing by its bounces.
LEMMA NeverUsed ==
  ASSUME NEW s, NEW s2, Slid(s, s2, 0), NEW now, NEW now2, NEW i \in 1 .. Len(s), IsLanding(s, now, i),
         NEW h \in 1 .. (i - 1), IsLanding(s2, now2, h)
  PROVE  LastContact(s2, h) < i
<1> DEFINE n == Len(s)
<1>1. /\ IsTrack(s) /\ n \in Nat /\ i \in Nat /\ h \in Nat /\ h < i /\ h \in 1 .. n /\ i \in h .. n /\ n \in i .. n
      /\ LastContact(s2, h) \in Int
  <2>1. IsTrack(s) /\ IsTrack(s2) /\ Len(s) \in Nat /\ Len(s2) \in Nat /\ Len(s) - 0 <= Len(s2)
    BY DEF Slid, IsTrack
  <2>2. h \in 1 .. n /\ h \in 1 .. Len(s2)
    BY <2>1
  <2>3. LastContact(s2, h) \in h .. Len(s2)
    BY <2>1, <2>2, LastContactIs
  <2> QED
    BY <2>1, <2>2, <2>3
<1>2. IsLanding(s, now, h)
  BY <1>1, LandedSlid
<1>3. ~(i <= Reach(s, h))
  BY <1>1, <1>2, LandedIs DEF UsedUp
<1>4. LastContact(s, h) \in Int /\ LastContact(s, h) < i
  <2>1. LastContact(s, h) \in h .. n /\ Reach(s, h) \in LastContact(s, h) .. n
    BY <1>1, LastContactIs, ReachIs
  <2> QED
    BY <1>1, <1>3, <2>1
<1>5. Candidate(s, i) /\ Candidate(s, h)
  BY <1>2 DEF IsLanding
<1>6. Contacts(s, h)[n].over
  <2> SUFFICES ASSUME ~Contacts(s, h)[n].over PROVE FALSE
    OBVIOUS
  <2>1. OnDeck(s[i - 1]) = FALSE /\ OnDeck(s[i]) = TRUE /\ OnDeck(s[h]) = TRUE
    BY <1>5 DEF Candidate
  <2>2. i # h /\ i - 1 # h
    BY <1>1, <2>1
  <2>3. i <= Contacts(s, h)[n].last
    BY <1>1, <2>1, <2>2, BouncesMet
  <2> QED
    BY <1>1, <1>4, <2>3 DEF LastContact
<1> QED
  BY <1>1, <1>4, <1>6, LastSlid
\* A landing keeps its contact when the track slides, unless it sinks, or an
\* earlier landing climbs out after it or, with samples lost, bounces on to it.
Overtakes(s, now, d, h, j) ==
  LET last == LastContact(s, h) IN
  /\ IsLanding(s, now, h)
  /\ \/ ClimbOuts(s, last) # {} /\ s[j].t - s[last].t <= TouchAndGo
     \/ d # 0 /\ s[j].t <= s[last].t
LEMMA ContactSlid ==
  ASSUME NEW s, NEW s2, NEW d, Slid(s, s2, d), NEW now, NEW now2,
         NEW j \in 2 .. (Len(s) - d), IsLanding(s, now, j + d)
  PROVE  \/ IsLanding(s2, now2, j) /\ s[LastContact(s, j + d)].t <= s2[LastContact(s2, j)].t
         \/ Sinks(s2, j)
         \/ \E h \in 1 .. (j - 1) : Overtakes(s2, now2, d, h, j)
<1> DEFINE n == Len(s) - d
           i == j + d
<1>1. /\ IsTrack(s) /\ IsTrack(s2) /\ Len(s) \in Nat /\ Len(s2) \in Nat /\ d \in Nat /\ j \in Nat
      /\ j \in 1 .. n /\ j > 1 /\ n \in Nat /\ n <= Len(s2) /\ n = Len(s) - d
      /\ j \in 1 .. Len(s2) /\ i \in 1 .. Len(s) /\ s2[j] = s[i] /\ i = j + d
  <2>1. /\ IsTrack(s) /\ IsTrack(s2) /\ Len(s) \in Nat /\ Len(s2) \in Nat /\ n <= Len(s2) /\ d \in 0 .. Len(s)
    BY DEF Slid, IsTrack
  <2>2. d \in Nat /\ n \in Nat /\ j \in 1 .. n /\ j > 1 /\ j \in Nat
    BY <2>1
  <2>3. s2[j] = s[i]
    BY <2>2, SlidIs
  <2> QED
    BY <2>1, <2>2, <2>3
<1>2. Candidate(s, i) /\ ~Sinks(s, i) /\ ~UsedUp(s, now, i)
  BY <1>1, LandedIs
<1>3. Candidate(s2, j)
  BY <1>1, <1>2, CandidateSlid
<1>4. SUFFICES ASSUME ~Sinks(s2, j)
               PROVE  \/ IsLanding(s2, now2, j) /\ s[LastContact(s, i)].t <= s2[LastContact(s2, j)].t
                      \/ \E h \in 1 .. (j - 1) : Overtakes(s2, now2, d, h, j)
  OBVIOUS
<1> HIDE DEF n, i
<1>5. CASE ~UsedUp(s2, now2, j)
  <2> DEFINE last == LastContact(s, i)
             last2 == LastContact(s2, j)
  <2>1. IsLanding(s2, now2, j)
    BY <1>1, <1>3, <1>4, <1>5, LandedIs
  <2>2. last <= last2 + d
    <3>1. n \in j .. n /\ n \in j .. Len(s2) /\ Len(s2) \in n .. Len(s2)
      BY <1>1
    <3>2. Follows(Contacts(s, i)[n + d], Contacts(s2, j)[n], d)
      BY <1>1, <3>1, ContactsSlid
    <3>3. last <= Contacts(s2, j)[n].last + d
      BY <1>1, <3>2 DEF Follows, LastContact
    <3>4. Contacts(s2, j)[n].last <= last2
      BY <1>1, <3>1, ContactsGrow DEF LastContact
    <3>5. Contacts(s2, j)[n].last \in Int
      <4>1. Contacts(s2, j)[n] \in Bouncing(j, n)
        BY <1>1, <3>1, TouchedRuns
      <4> QED
        BY <1>1, <4>1 DEF Bouncing
    <3>6. last \in Int /\ last2 \in Int
      <4>1. last \in i .. Len(s) /\ last2 \in j .. Len(s2)
        BY <1>1, LastContactIs
      <4> QED
        BY <4>1
    <3>7. d \in Nat
      BY <1>1
    <3> HIDE DEF last, last2
    <3> QED
      BY <3>3, <3>4, <3>5, <3>6, <3>7
  <2>3. last \in i .. Len(s) /\ last2 \in j .. Len(s2)
    BY <1>1, LastContactIs
  <2>4. s[last].t <= s2[last2].t
    <3> HIDE DEF last, last2
    <3>1. last - d \in 1 .. n /\ (last - d) + d = last /\ last - d <= last2 /\ last2 \in 1 .. Len(s2)
          /\ last - d \in 1 .. Len(s2)
      <4>1. last \in Int /\ last2 \in Int /\ j + d <= last /\ last <= Len(s) /\ j <= last2
            /\ last2 <= Len(s2)
        BY <1>1, <2>3
      <4>2. last - d \in 1 .. n /\ last2 \in 1 .. Len(s2) /\ (last - d) + d = last
        BY <1>1, <4>1
      <4>3. last - d <= last2
        BY <1>1, <2>2, <4>1
      <4> QED
        BY <4>1, <4>2, <4>3, <1>1
    <3>2. s[last] = s2[last - d]
      <4>1. last - d \in 1 .. (Len(s) - d)
        BY <1>1, <3>1
      <4> QED
        BY <3>1, <4>1, SlidIs
    <3>3. s2[last - d].t \in Int /\ s2[last2].t \in Int
      BY <1>1, <3>1, SamplesAre
    <3>4. last - d < last2 => s2[last - d].t < s2[last2].t
      BY <1>1, <3>1 DEF IsTrack
    <3>5. CASE last - d < last2
      BY <3>2, <3>3, <3>4, <3>5
    <3>6. CASE ~(last - d < last2)
      <4>1. last - d = last2
        BY <1>1, <2>3, <3>1, <3>6
      <4> QED
        BY <3>2, <3>3, <4>1
    <3> QED
      BY <3>5, <3>6
  <2> QED
    BY <2>1, <2>4
<1>6. CASE UsedUp(s2, now2, j)
  <2>1. PICK h \in 1 .. (j - 1) : IsLanding(s2, now2, h) /\ j <= Reach(s2, h)
    BY <1>6 DEF UsedUp
  <2> DEFINE last == LastContact(s2, h)
             r == Reach(s2, h)
  <2>2. h \in 1 .. Len(s2) /\ h \in 1 .. n /\ h < j /\ h \in Nat
    BY <1>1, <2>1
  <2>3. last \in h .. Len(s2) /\ r \in last .. Len(s2) /\ (r = last \/ r \in ClimbOuts(s2, last))
    BY <1>1, <2>2, LastContactIs, ReachIs
  <2>4. \A k, l \in 1 .. Len(s2) : k <= l => s2[k].t <= s2[l].t
    <3> SUFFICES ASSUME NEW k \in 1 .. Len(s2), NEW l \in 1 .. Len(s2), k <= l PROVE s2[k].t <= s2[l].t
      OBVIOUS
    <3>1. s2[k].t \in Int /\ s2[l].t \in Int
      BY <1>1, SamplesAre
    <3>2. k < l => s2[k].t < s2[l].t
      BY <1>1 DEF IsTrack
    <3> QED
      BY <3>1, <3>2
  <2> HIDE DEF last, r
  <2>5. CASE j <= last
    <3>1. s2[j].t <= s2[last].t
      <4>1. last \in 1 .. Len(s2)
        BY <1>1, <2>2, <2>3
      <4> QED
        BY <1>1, <2>4, <2>5, <4>1
    <3>2. d # 0
      <4>1. SUFFICES ASSUME d = 0 PROVE FALSE
        OBVIOUS
      <4>2. Slid(s, s2, 0) /\ n = Len(s) /\ i = j
        BY <1>1, <4>1
      <4>3. i \in 1 .. Len(s) /\ h \in 1 .. (i - 1)
        BY <1>1, <2>1, <4>2
      <4>4. last < i
        <5>1. IsLanding(s, now, i)
          BY DEF i
        <5> QED
          BY <2>1, <4>2, <4>3, <5>1, NeverUsed DEF last
      <4> QED
        BY <1>1, <2>3, <2>5, <4>2, <4>4
    <3> QED
      BY <2>1, <3>1, <3>2 DEF Overtakes, last
  <2>6. CASE ~(j <= last)
    <3>1. r \in ClimbOuts(s2, last)
      BY <1>1, <2>1, <2>2, <2>3, <2>6 DEF r
    <3>2. r \in 1 .. Len(s2) /\ s2[r].t - s2[last].t <= TouchAndGo
      BY <1>1, <2>2, <2>3, <3>1 DEF ClimbOuts
    <3>3. s2[j].t <= s2[r].t
      BY <1>1, <2>1, <2>4, <3>2 DEF r
    <3>4. last \in 1 .. Len(s2) /\ s2[j].t \in Int /\ s2[r].t \in Int /\ s2[last].t \in Int
      <4>1. last \in 1 .. Len(s2)
        BY <1>1, <2>2, <2>3
      <4> QED
        BY <1>1, <3>2, <4>1, SamplesAre
    <3>5. s2[j].t - s2[last].t <= TouchAndGo
      <4>1. TouchAndGo \in Int
        BY ScaleAssumption
      <4> QED
        BY <3>2, <3>3, <3>4, <4>1
    <3> QED
      BY <2>1, <3>1, <3>5 DEF Overtakes, last
  <2> QED
    BY <2>5, <2>6
<1> QED
  BY <1>5, <1>6
\* What Keep leaves of a track: it loses its oldest samples, and the first one
\* left is another when it loses any.
LEMMA KeepIs ==
  ASSUME NEW s, IsTrack(s), NEW y \in Received, \A k \in 1 .. Len(s) : s[k].t < y.t
  PROVE  \E d \in 0 .. Len(s) :
           /\ Slid(s, Keep(s, y), d)
           /\ Len(Keep(s, y)) = Len(s) - d + 1 /\ Keep(s, y)[Len(s) - d + 1] = y
           /\ d = Len(s) => Keep(s, y)[1] = y
<1> DEFINE n == Len(s)
           all == Append(s, y)
           young == {k \in 1 .. Len(all) : all[k].t >= y.t - MaxAge}
           a == Least(young)
           d == a - 1
           u == Keep(s, y)
<1>1. s \in Seq(Received) /\ n \in Nat /\ y.t \in Int /\ MaxAge \in Nat
  BY ScaleAssumption DEF IsTrack, Received
<1>2. /\ all \in Seq(Received) /\ Len(all) = n + 1 /\ all[n + 1] = y
      /\ \A k \in 1 .. n : all[k] = s[k]
  BY <1>1
<1> HIDE DEF all
<1>3. n + 1 \in young /\ young \subseteq Nat
  <2>1. n + 1 \in 1 .. Len(all) /\ all[n + 1].t >= y.t - MaxAge
    BY <1>1, <1>2
  <2> QED
    BY <1>1, <1>2, <2>1
<1>4. a \in 1 .. (n + 1)
  <2>1. young \subseteq 1 .. (n + 1)
    BY <1>2
  <2> HIDE DEF young
  <2>2. Least(young) \in young
    BY <1>3, LeastIs
  <2> QED
    BY <2>1, <2>2
<1>5. u = SubSeq(all, a, n + 1)
  BY <1>2 DEF Keep, all
<1> HIDE DEF young, a, u, n
<1>6. /\ u \in Seq(Received) /\ Len(u) = n - d + 1 /\ d \in 0 .. n
      /\ \A k \in 1 .. (n - d + 1) : u[k] = all[k + d]
  <2>1. a \in 1 .. (n + 2) /\ n + 1 \in (a - 1) .. Len(all)
    BY <1>1, <1>2, <1>4
  <2>2. /\ u \in Seq(Received)
        /\ Len(u) = (n + 1) - a + 1
        /\ \A k \in 1 .. ((n + 1) - a + 1) : u[k] = all[a + k - 1]
    BY <1>1, <1>2, <1>4, <1>5, <2>1, SubSeqProperties
  <2>3. d \in 0 .. n /\ (n + 1) - a + 1 = n - d + 1
    BY <1>1, <1>4
  <2>4. ASSUME NEW k \in 1 .. (n - d + 1) PROVE u[k] = all[k + d]
    <3>1. k \in Int /\ a + k - 1 = k + d
      BY <1>1, <1>4
    <3> HIDE DEF d
    <3>2. u[k] = all[a + k - 1]
      BY <2>2, <2>3
    <3> QED
      BY <3>1, <3>2
  <2> HIDE DEF d
  <2> QED
    BY <2>2, <2>3, <2>4
<1> HIDE DEF d
<1>7. u[n - d + 1] = y
  <2>1. n - d + 1 \in 1 .. (n - d + 1) /\ n - d + 1 + d = n + 1
    BY <1>1, <1>6
  <2> QED
    BY <1>2, <1>6, <2>1
<1>8. \A k \in 1 .. (n - d) : u[k] = s[k + d]
  <2> TAKE k \in 1 .. (n - d)
  <2>1. k \in 1 .. (n - d + 1) /\ k + d \in 1 .. n
    BY <1>1, <1>6
  <2> QED
    BY <1>2, <1>6, <2>1
<1>9. ASSUME NEW j \in 1 .. Len(u), NEW k \in 1 .. Len(u), j < k PROVE u[j].t < u[k].t
  <2>1. j \in 1 .. (n - d) /\ j + d \in 1 .. n /\ k + d \in 1 .. (n + 1)
    BY <1>1, <1>6, <1>9
  <2>2. u[j] = s[j + d]
    BY <1>8, <2>1
  <2>3. CASE k = n - d + 1
    BY <1>7, <2>1, <2>2, <2>3 DEF n
  <2>4. CASE k # n - d + 1
    <3>1. k \in 1 .. (n - d) /\ k + d \in 1 .. n /\ j + d < k + d
      BY <1>1, <1>6, <1>9, <2>4
    <3>2. u[k] = s[k + d]
      BY <1>8, <3>1
    <3> QED
      BY <2>1, <2>2, <3>1, <3>2 DEF IsTrack, n
  <2> QED
    BY <2>3, <2>4
<1>10. IsTrack(u)
  BY <1>6, <1>9 DEF IsTrack
<1>11. Slid(s, u, d)
  BY <1>1, <1>6, <1>8, <1>10 DEF Slid, n
<1>12. d = n => u[1] = y
  <2>1. d = n => n - d + 1 = 1
    BY <1>1, <1>6
  <2> QED
    BY <1>7, <2>1
<1> QED
  BY <1>6, <1>7, <1>11, <1>12 DEF n, u
\* Of two analyses, the second on the track slid on: each landing of the first
\* stays, or one of the reasons holds.
Stays(s, s2, f, found) ==
  \/ \E l \in DOMAIN found : found[l].first = f.first /\ found[l].time >= f.time
  \/ s2[1].t >= f.first
  \/ Drowned(s2, f)
  \/ Swallowed(f, found)
  \/ s2[1] # s[1] /\ Merged(f, found)
LEMMA EventsStay ==
  ASSUME NEW s, NEW s2, NEW d, Slid(s, s2, d), NEW now, NEW now2,
         d = Len(s) => \A k \in 1 .. Len(s) : s[k].t <= s2[1].t,
         NEW k \in DOMAIN AnalyzeTrack(s, now)
  PROVE  Stays(s, s2, AnalyzeTrack(s, now)[k], AnalyzeTrack(s2, now2))
<1> DEFINE n == Len(s) - d
           f == AnalyzeTrack(s, now)[k]
           found == AnalyzeTrack(s2, now2)
<1>1. /\ IsTrack(s) /\ IsTrack(s2) /\ Len(s) \in Nat /\ Len(s2) \in Nat /\ d \in Nat /\ d <= Len(s)
      /\ n = Len(s) - d /\ n <= Len(s2)
  BY DEF Slid, IsTrack
<1>2. PICK i \in 1 .. Len(s) : IsLanding(s, now, i) /\ f = At(s, i, now)
  BY <1>1, AnalysisIs
<1>3. f.first = s[i].t /\ f.time = s[LastContact(s, i)].t
  BY <1>2, TimesAre
<1>4. \A h \in 1 .. Len(s2) : IsLanding(s2, now2, h) => \E l \in DOMAIN found : found[l] = At(s2, h, now2)
  BY <1>1, AnalysisIs
<1> SUFFICES Stays(s, s2, f, found)
  OBVIOUS
<1> HIDE DEF n, f, found
<1>5. CASE i <= d + 1
  <2>1. s2[1].t >= s[i].t
    <3>1. CASE d = Len(s)
      <4>1. s[i].t <= s2[1].t
        BY <3>1
      <4> QED
        BY <4>1
    <3>2. CASE d # Len(s)
      <4>1. 1 \in 1 .. (Len(s) - d) /\ 1 + d \in 1 .. Len(s) /\ i <= 1 + d
        BY <1>1, <1>5, <3>2
      <4>2. s2[1] = s[1 + d]
        BY <4>1, SlidIs
      <4>3. s[i].t \in Int /\ s[1 + d].t \in Int
        BY <1>1, <4>1, SamplesAre
      <4>4. i < 1 + d => s[i].t < s[1 + d].t
        BY <1>1, <4>1 DEF IsTrack
      <4>5. CASE i < 1 + d
        BY <4>2, <4>3, <4>4, <4>5
      <4>6. CASE ~(i < 1 + d)
        <5>1. i = 1 + d
          BY <1>1, <4>1, <4>6
        <5> QED
          BY <4>2, <4>3, <5>1
      <4> QED
        BY <4>5, <4>6
    <3> QED
      BY <3>1, <3>2
  <2> QED
    BY <1>3, <2>1 DEF Stays
<1>6. CASE ~(i <= d + 1)
  <2> DEFINE j == i - d
  <2>1. j \in 2 .. (Len(s) - d) /\ j + d = i /\ j \in 1 .. (Len(s) - d) /\ j \in 1 .. Len(s2) /\ j \in Nat
    BY <1>1, <1>6
  <2> HIDE DEF j
  <2>2. s2[j] = s[i]
    BY <2>1, SlidIs
  <2>3. \/ IsLanding(s2, now2, j) /\ s[LastContact(s, j + d)].t <= s2[LastContact(s2, j)].t
        \/ Sinks(s2, j)
        \/ \E h \in 1 .. (j - 1) : Overtakes(s2, now2, d, h, j)
    BY <1>2, <2>1, ContactSlid
  <2>4. CASE IsLanding(s2, now2, j) /\ s[LastContact(s, j + d)].t <= s2[LastContact(s2, j)].t
    <3>1. PICK l \in DOMAIN found : found[l] = At(s2, j, now2)
      BY <1>4, <2>1, <2>4
    <3>2. found[l].first = s2[j].t /\ found[l].time = s2[LastContact(s2, j)].t
      BY <3>1, TimesAre
    <3>3. LastContact(s, i) \in 1 .. Len(s) /\ LastContact(s2, j) \in 1 .. Len(s2)
      <4>1. LastContact(s, i) \in i .. Len(s) /\ LastContact(s2, j) \in j .. Len(s2)
        BY <1>1, <2>1, LastContactIs
      <4> QED
        BY <1>1, <2>1, <4>1
    <3>4. s[LastContact(s, i)].t \in Int /\ s2[LastContact(s2, j)].t \in Int
      BY <1>1, <3>3, SamplesAre
    <3>5. found[l].time >= f.time
      BY <1>3, <2>1, <2>4, <3>2, <3>4
    <3> QED
      BY <1>3, <2>2, <3>2, <3>5 DEF Stays
  <2>5. CASE Sinks(s2, j)
    <3>1. DOMAIN s2 = 1 .. Len(s2)
      BY <1>1 DEF IsTrack
    <3> QED
      BY <1>3, <2>1, <2>2, <2>5, <3>1 DEF Stays, Drowned
  <2>6. ASSUME NEW h \in 1 .. (j - 1), Overtakes(s2, now2, d, h, j)
        PROVE  Stays(s, s2, f, found)
    <3> DEFINE last == LastContact(s2, h)
    <3>1. /\ IsLanding(s2, now2, h)
          /\ \/ ClimbOuts(s2, last) # {} /\ s2[j].t - s2[last].t <= TouchAndGo
             \/ d # 0 /\ s2[j].t <= s2[last].t
      BY <2>6 DEF Overtakes
    <3>2. h \in 1 .. Len(s2) /\ h < j
      BY <1>1, <2>1
    <3>3. PICK l \in DOMAIN found : found[l] = At(s2, h, now2)
      BY <1>4, <3>1, <3>2
    <3>4. found[l].first = s2[h].t /\ found[l].time = s2[last].t
          /\ (found[l].outcome = "full_stop" <=> ClimbOuts(s2, last) = {})
      <4>1. At(s2, h, now2).first = s2[h].t /\ At(s2, h, now2).time = s2[last].t
        BY TimesAre
      <4>2. At(s2, h, now2).outcome = "full_stop" <=> ClimbOuts(s2, last) = {}
        BY LandingIs
      <4> QED
        BY <3>3, <4>1, <4>2
    <3>5. s2[h].t < s2[j].t
      BY <1>1, <2>1, <3>2 DEF IsTrack
    <3>6. found[l].first < f.first
      BY <1>3, <2>2, <3>4, <3>5
    <3>7. CASE ClimbOuts(s2, last) # {} /\ s2[j].t - s2[last].t <= TouchAndGo
      BY <1>3, <2>2, <3>4, <3>6, <3>7 DEF Stays, Swallowed
    <3>8. CASE d # 0 /\ s2[j].t <= s2[last].t
      <4>1. 1 \in 1 .. (Len(s) - d) /\ 1 + d \in 1 .. Len(s) /\ 1 \in 1 .. Len(s) /\ 1 < 1 + d
        BY <1>1, <2>1, <3>8
      <4>2. s2[1] = s[1 + d]
        BY <4>1, SlidIs
      <4>3. s2[1] # s[1]
        <5>1. s[1].t < s[1 + d].t
          BY <1>1, <4>1 DEF IsTrack
        <5>2. s[1].t \in Int
          BY <1>1, <4>1, SamplesAre
        <5> QED
          BY <4>2, <5>1, <5>2
      <4> QED
        BY <1>3, <2>2, <3>4, <3>6, <3>8, <4>3 DEF Stays, Merged
    <3> QED
      BY <3>1, <3>7, <3>8
  <2> QED
    BY <2>3, <2>4, <2>5, <2>6
<1> QED
  BY <1>5, <1>6

\* With one more sample and none lost, a landing that is new begins with it.
LEMMA EventsAppear ==
  ASSUME NEW s, NEW s2, Slid(s, s2, 0), Len(s2) = Len(s) + 1, NEW now, NEW now2
  PROVE  Firsts(AnalyzeTrack(s2, now2)) \ Firsts(AnalyzeTrack(s, now)) \subseteq {s2[Len(s2)].t}
<1> DEFINE n == Len(s)
           found == AnalyzeTrack(s, now)
           found2 == AnalyzeTrack(s2, now2)
<1>1. IsTrack(s) /\ IsTrack(s2) /\ n \in Nat /\ n - 0 = n
  BY DEF Slid, IsTrack
<1>2. \A k \in DOMAIN found2 : \E j \in 1 .. Len(s2) : IsLanding(s2, now2, j) /\ found2[k] = At(s2, j, now2)
  BY <1>1, AnalysisIs
<1>3. \A j \in 1 .. n : IsLanding(s, now, j) => \E k \in DOMAIN found : found[k] = At(s, j, now)
  BY <1>1, AnalysisIs
<1> HIDE DEF found, found2
<1>4. ASSUME NEW k \in DOMAIN found2, found2[k].first # s2[Len(s2)].t
      PROVE  \E l \in DOMAIN found : found[l].first = found2[k].first
  <2>1. PICK j \in 1 .. Len(s2) : IsLanding(s2, now2, j) /\ found2[k] = At(s2, j, now2)
    BY <1>2
  <2>2. found2[k].first = s2[j].t
    BY <2>1, TimesAre
  <2>3. j \in 1 .. n /\ j + 0 = j
    BY <1>1, <1>4, <2>2
  <2>4. IsLanding(s, now, j)
    BY <2>1, <2>3, LandedSlid
  <2>5. s2[j] = s[j]
    <3>1. s2[j] = s[j + 0]
      BY <1>1, <2>3, SlidIs
    <3> QED
      BY <2>3, <3>1
  <2>6. PICK l \in DOMAIN found : found[l] = At(s, j, now)
    BY <1>3, <2>3, <2>4
  <2>7. found[l].first = s[j].t
    BY <2>6, TimesAre
  <2> QED
    BY <2>2, <2>5, <2>7
<1>5. Firsts(found2) \ Firsts(found) \subseteq {s2[Len(s2)].t}
  BY <1>4 DEF Firsts
<1> QED
  BY <1>5 DEF found, found2
----------------------------------------
(* The detector. *)

\* The buffer is a track that ends with the last sample received, and the events
\* are an analysis of it: at that sample's time, or the final one.
TrackInv ==
  /\ scene \in Scenes /\ log \in Seq(Received) /\ IsTrack(buffer)
  /\ log = <<>> <=> buffer = <<>>
  /\ Now(buffer) = Now(log)
  /\ \E now \in {NoValue, Now(buffer)} : events = AnalyzeTrack(buffer, now)

LEMMA NowIs ==
  ASSUME NEW s \in Seq(Received)
  PROVE  Now(s) \in Int
<1>1. CASE s = <<>>
  BY <1>1 DEF Now
<1>2. CASE s # <<>>
  <2>1. Len(s) \in 1 .. Len(s)
    BY <1>2
  <2>2. s[Len(s)] \in Received
    BY <2>1
  <2> QED
    BY <1>2, <2>2 DEF Now, Received
<1> QED
  BY <1>1, <1>2

LEMMA TrackInvInit == DetectInit => TrackInv
<1> SUFFICES ASSUME DetectInit PROVE TrackInv
  OBVIOUS
<1>1. scene \in Scenes /\ log = <<>> /\ buffer = <<>> /\ events = <<>>
  BY DEF DetectInit
<1>2. IsTrack(<<>>) /\ <<>> \in Seq(Received) /\ Len(<<>>) = 0
  BY DEF IsTrack
<1>3. AnalyzeTrack(<<>>, NoValue) = <<>>
  BY <1>2 DEF AnalyzeTrack
<1>4. Now(buffer) = Now(log)
  BY <1>1
<1> QED
  BY <1>1, <1>2, <1>3, <1>4 DEF TrackInv

LEMMA TimesGrow ==
  ASSUME NEW s, IsTrack(s), NEW a \in 1 .. Len(s), NEW b \in 1 .. Len(s), a <= b
  PROVE  s[a].t \in Int /\ s[b].t \in Int /\ s[a].t <= s[b].t /\ (a < b => s[a].t < s[b].t)
<1>1. s[a].t \in Int /\ s[b].t \in Int /\ Len(s) \in Nat
  BY SamplesAre
<1>2. a < b => s[a].t < s[b].t
  BY DEF IsTrack
<1>3. a < b \/ a = b
  BY <1>1
<1> QED
  BY <1>1, <1>2, <1>3

\* The sample of an update line comes after all others.
LEMMA SampleIs ==
  ASSUME TrackInv, NEW x \in scene, NEW gap \in Gaps, Sample(x, gap)
  PROVE  \E y \in Received :
           /\ log' = Append(log, y) /\ buffer' = Keep(buffer, y)
           /\ events' = AnalyzeTrack(buffer', y.t) /\ final' = Record(events')
           /\ y.t \in Int /\ Now(log) \in Int /\ Now(log) < y.t
<1> DEFINE y == [t |-> Now(log) + gap, alt |-> x.alt, deck |-> x.deck]
<1>1. scene \in Scenes /\ log \in Seq(Received)
  BY DEF TrackInv
<1>2. /\ log' = Append(log, y) /\ buffer' = Keep(buffer, y) /\ events' = AnalyzeTrack(buffer', y.t)
      /\ final' = Record(events')
  BY DEF Sample
<1>3. gap \in Nat /\ gap > 0 /\ Now(log) \in Int
  BY <1>1, ScaleAssumption, NowIs
<1>4. scene \subseteq [alt : Int \cup {NoValue}, deck : BOOLEAN]
  BY <1>1, ScaleAssumption
<1>5. x.alt \in Int \cup {NoValue} /\ x.deck \in BOOLEAN
  BY <1>4
<1>6. y \in Received /\ y.t \in Int /\ Now(log) < y.t
  BY <1>3, <1>5 DEF Received
<1> HIDE DEF y
<1> QED
  BY <1>2, <1>3, <1>6
LEMMA NowIsLast ==
  ASSUME NEW s, IsTrack(s), NEW u \in Int, Now(s) < u
  PROVE  \A k \in 1 .. Len(s) : s[k].t < u
<1> TAKE k \in 1 .. Len(s)
<1>1. Len(s) \in 1 .. Len(s) /\ k <= Len(s) /\ s # <<>>
  BY DEF IsTrack
<1>2. Now(s) = s[Len(s)].t
  BY <1>1 DEF Now
<1>3. s[k].t \in Int /\ s[Len(s)].t \in Int /\ s[k].t <= s[Len(s)].t
  BY <1>1, TimesGrow
<1> QED
  BY <1>2, <1>3

\* An update line slides the buffer by one sample.
LEMMA SampleSlides ==
  ASSUME TrackInv, NEW x \in scene, NEW gap \in Gaps, Sample(x, gap)
  PROVE  /\ log' \in Seq(Received) /\ log' # <<>> /\ buffer' # <<>> /\ Now(buffer') = Now(log')
         /\ events' = AnalyzeTrack(buffer', Now(buffer'))
         /\ \E d \in 0 .. Len(buffer) :
              /\ Slid(buffer, buffer', d) /\ Len(buffer') = Len(buffer) - d + 1
              /\ d = Len(buffer) => \A k \in 1 .. Len(buffer) : buffer[k].t <= buffer'[1].t
<1> DEFINE n == Len(buffer)
<1>1. /\ log \in Seq(Received) /\ IsTrack(buffer) /\ Now(buffer) = Now(log) /\ n \in Nat
  BY DEF TrackInv, IsTrack
<1>2. PICK y \in Received :
        /\ log' = Append(log, y) /\ buffer' = Keep(buffer, y) /\ events' = AnalyzeTrack(buffer', y.t)
        /\ y.t \in Int /\ Now(log) < y.t
  BY SampleIs
<1>6. \A k \in 1 .. n : buffer[k].t < y.t
  BY <1>1, <1>2, NowIsLast
<1>7. PICK d \in 0 .. n :
        /\ Slid(buffer, Keep(buffer, y), d)
        /\ Len(Keep(buffer, y)) = n - d + 1 /\ Keep(buffer, y)[n - d + 1] = y
        /\ d = n => Keep(buffer, y)[1] = y
  BY <1>1, <1>6, KeepIs
<1>8. Slid(buffer, buffer', d) /\ Len(buffer') = n - d + 1 /\ buffer'[Len(buffer')] = y
      /\ (d = n => buffer'[1] = y)
  BY <1>2, <1>7
<1>9. IsTrack(buffer') /\ buffer' \in Seq(Received) /\ Len(buffer') >= 1
  BY <1>1, <1>8 DEF Slid, IsTrack
<1>10. buffer' # <<>> /\ Now(buffer') = y.t
  <2>1. buffer' # <<>>
    BY <1>9
  <2> QED
    BY <1>8, <2>1 DEF Now
<1>11. log' \in Seq(Received) /\ log' # <<>> /\ Now(log') = y.t
  <2>1. Append(log, y) \in Seq(Received) /\ Len(Append(log, y)) = Len(log) + 1 /\ Len(log) \in Nat
        /\ Append(log, y)[Len(log) + 1] = y
    BY <1>1
  <2>2. log' # <<>>
    BY <1>2, <2>1
  <2> QED
    BY <1>2, <2>1, <2>2 DEF Now
<1>12. d = n => \A k \in 1 .. n : buffer[k].t <= buffer'[1].t
  <2> SUFFICES ASSUME d = n, NEW k \in 1 .. n PROVE buffer[k].t <= buffer'[1].t
    OBVIOUS
  <2>1. buffer'[1].t = y.t /\ buffer[k].t < y.t /\ buffer[k].t \in Int
    BY <1>1, <1>6, <1>8, SamplesAre
  <2> QED
    BY <1>2, <2>1
<1>13. events' = AnalyzeTrack(buffer', Now(buffer'))
  BY <1>2, <1>10
<1> QED
  BY <1>8, <1>10, <1>11, <1>12, <1>13

LEMMA TrackInvNext == TrackInv /\ [DetectNext]_detectVars => TrackInv'
<1> SUFFICES ASSUME TrackInv, [DetectNext]_detectVars PROVE TrackInv'
  OBVIOUS
<1>1. ASSUME NEW x \in scene, NEW gap \in Gaps, Sample(x, gap) PROVE TrackInv'
  <2>1. /\ log' \in Seq(Received) /\ log' # <<>> /\ buffer' # <<>> /\ Now(buffer') = Now(log')
        /\ events' = AnalyzeTrack(buffer', Now(buffer'))
    BY <1>1, SampleSlides
  <2>2. IsTrack(buffer')
    <3>1. PICK d \in 0 .. Len(buffer) : Slid(buffer, buffer', d)
      BY <1>1, SampleSlides
    <3> QED
      BY <3>1 DEF Slid
  <2>3. scene' \in Scenes
    BY <1>1 DEF Sample, TrackInv
  <2> QED
    BY <2>1, <2>2, <2>3 DEF TrackInv
<1>2. CASE Vanish
  <2>1. events' = AnalyzeTrack(buffer', NoValue) /\ UNCHANGED <<scene, log, buffer>>
    BY <1>2 DEF Vanish
  <2>2. Now(buffer)' = Now(buffer) /\ Now(log)' = Now(log) /\ IsTrack(buffer)' = IsTrack(buffer)
    BY <2>1
  <2> QED
    BY <2>1, <2>2 DEF TrackInv
<1>3. CASE UNCHANGED detectVars
  BY <1>3 DEF TrackInv, detectVars, Now, IsTrack
<1> QED
  BY <1>1, <1>2, <1>3 DEF DetectNext

THEOREM DetectIsAnalysis == DetectSpec => []TrackInv
<1> QED
  BY TrackInvInit, TrackInvNext, PTL DEF DetectSpec

\* LandingsApart: two landings of one analysis share no contact, and no stored
\* approach reaches back over a contact (used_through, _cut_approach).
THEOREM LandingsAreApart == DetectSpec => []LandingsApart
<1>1. TrackInv => LandingsApart
  <2> SUFFICES ASSUME TrackInv PROVE LandingsApart
    OBVIOUS
  <2>1. PICK now : events = AnalyzeTrack(buffer, now)
    BY DEF TrackInv
  <2>2. IsTrack(buffer)
    BY DEF TrackInv
  <2>3. /\ InOrder(events)
        /\ \A k \in DOMAIN events : \E j \in 1 .. Len(buffer) : events[k] = At(buffer, j, now)
    BY <2>1, <2>2, AnalysisIs
  <2>4. ASSUME NEW k \in DOMAIN events, NEW n \in DOMAIN events[k].cut,
               events[k].cut[n].t < events[k].first
        PROVE  OnDeck(events[k].cut[n]) # TRUE
    <3>1. PICK j \in 1 .. Len(buffer) : events[k] = At(buffer, j, now)
      BY <2>3
    <3> QED
      BY <2>2, <2>4, <3>1, CutIsClear
  <2> QED
    BY <2>3, <2>4 DEF LandingsApart, InOrder
<1> QED
  BY <1>1, DetectIsAnalysis, PTL

\* AppearsAtOnce: while the buffer loses nothing, a landing the analysis had not
\* found before begins with the sample just received (new_contact).
THEOREM LandingsAppearAtOnce == DetectSpec => AppearsAtOnce
<1> DEFINE P == Len(buffer') > Len(buffer) =>
                  Firsts(events') \ Firsts(events) \subseteq {Now(log')}
<1>1. TrackInv /\ [DetectNext]_detectVars => [P]_detectVars
  <2> SUFFICES ASSUME TrackInv, [DetectNext]_detectVars, Len(buffer') > Len(buffer)
               PROVE  Firsts(events') \ Firsts(events) \subseteq {Now(log')}
    OBVIOUS
  <2>1. PICK now : events = AnalyzeTrack(buffer, now)
    BY DEF TrackInv
  <2>2. Len(buffer) \in Nat
    BY DEF TrackInv, IsTrack
  <2>3. PICK x \in scene, gap \in Gaps : Sample(x, gap)
    <3>1. ~(UNCHANGED buffer)
      BY <2>2
    <3> QED
      BY <3>1 DEF DetectNext, Vanish, detectVars
  <2>4. /\ buffer' # <<>> /\ Now(buffer') = Now(log')
        /\ events' = AnalyzeTrack(buffer', Now(buffer'))
    BY <2>3, SampleSlides
  <2>5. PICK d \in 0 .. Len(buffer) : Slid(buffer, buffer', d) /\ Len(buffer') = Len(buffer) - d + 1
    BY <2>3, SampleSlides
  <2>6. d = 0
    BY <2>2, <2>5
  <2>7. Slid(buffer, buffer', 0) /\ Len(buffer') = Len(buffer) + 1
    BY <2>2, <2>5, <2>6
  <2>8. Firsts(events') \ Firsts(events) \subseteq {buffer'[Len(buffer')].t}
    BY <2>1, <2>4, <2>7, EventsAppear
  <2> QED
    BY <2>4, <2>8 DEF Now
<1> QED
  BY <1>1, DetectIsAnalysis, PTL DEF DetectSpec, AppearsAtOnce

\* ContactsStay: a landing keeps its first contact from one analysis to the next,
\* and its touchdown only moves forward, unless one of the named reasons holds.
THEOREM LandingsKeepContact == DetectSpec => ContactsStay
<1> DEFINE P == \A k \in DOMAIN events : Stays(buffer, buffer', events[k], events')
           Q == \A k \in DOMAIN events :
                  \/ \E l \in DOMAIN events' : /\ events'[l].first = events[k].first
                                               /\ events'[l].time >= events[k].time
                  \/ buffer'[1].t >= events[k].first
                  \/ Drowned(buffer', events[k])
                  \/ Swallowed(events[k], events')
                  \/ buffer'[1] # buffer[1] /\ Merged(events[k], events')
<1>1. TrackInv /\ [DetectNext]_detectVars => [P]_detectVars
  <2> SUFFICES ASSUME TrackInv, DetectNext, NEW k \in DOMAIN events
               PROVE  Stays(buffer, buffer', events[k], events')
    OBVIOUS
  <2>1. PICK now : events = AnalyzeTrack(buffer, now)
    BY DEF TrackInv
  <2>2. CASE \E x \in scene, gap \in Gaps : Sample(x, gap)
    <3>1. PICK x \in scene, gap \in Gaps : Sample(x, gap)
      BY <2>2
    <3>2. events' = AnalyzeTrack(buffer', Now(buffer'))
      BY <3>1, SampleSlides
    <3>3. PICK d \in 0 .. Len(buffer) :
            /\ Slid(buffer, buffer', d)
            /\ d = Len(buffer) => \A i \in 1 .. Len(buffer) : buffer[i].t <= buffer'[1].t
      BY <3>1, SampleSlides
    <3> QED
      BY <2>1, <3>2, <3>3, EventsStay
  <2>3. CASE Vanish
    <3>1. buffer' = buffer /\ events' = AnalyzeTrack(buffer', NoValue)
      BY <2>3 DEF Vanish
    <3>2. Slid(buffer, buffer', 0)
      <4>1. IsTrack(buffer) /\ Len(buffer) \in Nat
        BY DEF TrackInv, IsTrack
      <4> QED
        BY <3>1, <4>1 DEF Slid
    <3>3. 0 = Len(buffer) => \A i \in 1 .. Len(buffer) : buffer[i].t <= buffer'[1].t
      OBVIOUS
    <3> QED
      BY <2>1, <3>1, <3>2, <3>3, EventsStay
  <2> QED
    BY <2>2, <2>3 DEF DetectNext
<1>2. [P]_detectVars => [Q]_detectVars
  BY DEF Stays
<1> QED
  BY <1>1, <1>2, DetectIsAnalysis, PTL DEF DetectSpec, ContactsStay
----------------------------------------
(* A part of a track: without its d oldest samples, and some of the newest.*)

Part(s, p, d) ==
  /\ IsTrack(s) /\ IsTrack(p) /\ d \in Nat /\ Len(p) + d <= Len(s)
  /\ \A j \in 1 .. Len(p) : p[j] = s[j + d]

\* The beginning of a track, sample by sample.
LEMMA FrontIs ==
  ASSUME NEW s, IsTrack(s), NEW n \in 0 .. Len(s)
  PROVE  /\ IsTrack(SubSeq(s, 1, n)) /\ Len(SubSeq(s, 1, n)) = n
         /\ \A j \in 1 .. n : SubSeq(s, 1, n)[j] = s[j]
         /\ Slid(SubSeq(s, 1, n), s, 0)
<1>1. s \in Seq(Received) /\ Len(s) \in Nat /\ n \in Nat
  BY DEF IsTrack
<1> DEFINE q == SubSeq(s, 1, n)
<1>2. q \in Seq(Received) /\ Len(q) = n /\ \A j \in 1 .. n : q[j] = s[j]
  <2>1. /\ q \in Seq(Received) /\ Len(q) = n - 1 + 1
        /\ \A i \in 1 .. (n - 1 + 1) : q[i] = s[1 + i - 1]
    BY <1>1, PartIs
  <2>2. n - 1 + 1 = n /\ \A i \in 1 .. n : 1 + i - 1 = i
    BY <1>1
  <2> QED
    BY <2>1, <2>2
<1> HIDE DEF q
<1>3. \A j, k \in 1 .. Len(q) : j < k => q[j].t < q[k].t
  <2> TAKE j, k \in 1 .. Len(q)
  <2>1. j \in 1 .. Len(s) /\ k \in 1 .. Len(s) /\ q[j] = s[j] /\ q[k] = s[k]
    BY <1>1, <1>2
  <2> QED
    BY <2>1 DEF IsTrack
<1>4. IsTrack(q)
  BY <1>2, <1>3 DEF IsTrack
<1>5. Slid(q, s, 0)
  <2>1. \A j \in 1 .. (n - 0) : s[j] = q[j + 0]
    BY <1>1, <1>2
  <2> QED
    BY <1>1, <1>2, <1>4, <2>1 DEF Slid
<1> QED
  BY <1>2, <1>4, <1>5 DEF q

\* A bounce that makes a sample the last contact starts afresh from it.
LEMMA BounceLands ==
  ASSUME NEW s, IsTrack(s), NEW i \in 1 .. Len(s), NEW j \in 1 .. Len(s), i < j, NEW m \in Bouncing(i, j - 1),
         Bounce(s, m, j).last = j
  PROVE  Bounce(s, m, j) = Touched(j)
<1>1. m.last \in i .. (j - 1) /\ m.last # j /\ Len(s) \in Nat
  BY DEF Bouncing, IsTrack
<1>2. CASE m.over
  BY <1>1, <1>2 DEF Bounce
<1>3. CASE ~m.over /\ OnDeck(s[j]) = FALSE
  <2>1. Bounce(s, m, j).last = m.last
    BY <1>3 DEF Bounce, Bouncing
  <2> QED
    BY <1>1, <2>1
<1>4. CASE ~m.over /\ OnDeck(s[j]) # FALSE /\ ~m.air
  BY <1>1, <1>4 DEF Bounce
<1>5. CASE ~m.over /\ OnDeck(s[j]) # FALSE /\ m.air
  <2>1. CASE m.peak > BounceMerge \/ Hard(s, j)
    <3>1. Bounce(s, m, j) = [m EXCEPT !.over = TRUE]
      BY <1>5, <2>1 DEF Bounce
    <3>2. Bounce(s, m, j).last = m.last
      BY <3>1 DEF Bouncing
    <3> QED
      BY <1>1, <3>2
  <2>2. CASE ~(m.peak > BounceMerge \/ Hard(s, j))
    BY <1>5, <2>2 DEF Bounce, Touched
  <2> QED
    BY <2>1, <2>2
<1>6. m.air \in BOOLEAN /\ m.over \in BOOLEAN
  BY DEF Bouncing
<1> QED
  BY <1>2, <1>3, <1>4, <1>5, <1>6

\* The bounce loop starts afresh from the last contact, and was not over before.
LEMMA LastMet ==
  ASSUME NEW s, IsTrack(s), NEW i \in 1 .. Len(s), NEW l, l = LastContact(s, i)
  PROVE  /\ Contacts(s, i)[l] = Touched(l)
         /\ \A k \in i .. l : ~Contacts(s, i)[k].over
<1> DEFINE c == Contacts(s, i)
           At_l == {k \in i .. Len(s) : c[k].last = l}
<1>0. Len(s) \in Nat /\ i \in Nat /\ l \in i .. Len(s) /\ Len(s) \in i .. Len(s) /\ l \in Nat
  BY LastContactIs DEF IsTrack
<1>1. \A k \in i .. Len(s) : c[k] \in Bouncing(i, k) /\ c[k].last \in i .. k
  <2>1. \A k \in i .. Len(s) : c[k] \in Bouncing(i, k)
    BY TouchedRuns
  <2> QED
    BY <2>1 DEF Bouncing
<1>2. c[i] = Touched(i) /\ \A k \in i .. Len(s) : k # i => c[k] = Bounce(s, c[k - 1], k)
  <2>1. i \in i .. Len(s)
    BY <1>0
  <2> QED
    BY <2>1, TouchedNext
<1>3. c[Len(s)].last = l
  BY DEF LastContact
<1> HIDE DEF c
<1>4. PICK k \in At_l : \A n \in At_l : k <= n
  <2>1. At_l \subseteq Nat /\ At_l # {}
    BY <1>0, <1>3
  <2> HIDE DEF At_l
  <2> QED
    BY <2>1, Smallest
<1>5. k \in i .. Len(s) /\ c[k].last = l
  BY <1>4
<1>6. k = l
  <2> SUFFICES ASSUME k # l PROVE FALSE
    OBVIOUS
  <2>1. k # i /\ k > l
    <3>1. c[k].last \in i .. k
      BY <1>1, <1>5
    <3> QED
      BY <1>0, <1>5, <3>1
  <2>2. k - 1 \in i .. Len(s) /\ k \in 1 .. Len(s) /\ i < k /\ ~(k <= k - 1)
    BY <1>0, <1>5, <2>1
  <2>3. c[k].last \in {c[k - 1].last, k}
    BY <1>1, <1>2, <1>5, <2>1, <2>2, BounceMoves
  <2>4. c[k - 1].last = l
    BY <1>5, <2>3
  <2> QED
    BY <1>4, <2>2, <2>4
<1>7. c[l] = Touched(l)
  <2>1. CASE l = i
    BY <1>2, <2>1
  <2>2. CASE l # i
    <3>1. l - 1 \in i .. Len(s) /\ l \in 1 .. Len(s) /\ i < l /\ c[l - 1] \in Bouncing(i, l - 1)
      BY <1>0, <1>1, <2>2
    <3>2. c[l] = Bounce(s, c[l - 1], l)
      BY <1>0, <1>2, <2>2
    <3> QED
      BY <1>5, <1>6, <3>1, <3>2, BounceLands
  <2> QED
    BY <2>1, <2>2
<1>8. ASSUME NEW n \in i .. l PROVE ~c[n].over
  <2> SUFFICES ASSUME c[n].over PROVE FALSE
    OBVIOUS
  <2>1. n \in i .. Len(s) /\ l \in n .. Len(s)
    BY <1>0
  <2>2. c[l] = c[n]
    BY <2>1, ContactsGrow DEF c
  <2> QED
    BY <1>7, <2>2 DEF Touched
<1> QED
  BY <1>7, <1>8 DEF c

\* Two landings of which the earlier bounces on to the later end together.
LEMMA Joined ==
  ASSUME NEW s, IsTrack(s), NEW h \in 1 .. Len(s), NEW b \in 1 .. Len(s), h < b - 1,
         OnDeck(s[b - 1]) = FALSE, OnDeck(s[b]) = TRUE, b <= LastContact(s, h)
  PROVE  LastContact(s, h) = LastContact(s, b)
<1> DEFINE c == Contacts(s, h)
           e == Contacts(s, b)
           Bad == {k \in b .. Len(s) : c[k] # e[k]}
<1>0. Len(s) \in Nat /\ h \in Nat /\ b \in Nat /\ b \in h .. Len(s) /\ b # h /\ b - 1 # h /\ b \in b .. Len(s)
      /\ b - 1 \in h .. Len(s) /\ h < b
  BY DEF IsTrack
<1>1. ~c[b].over
  <2>1. LastContact(s, h) \in h .. Len(s)
    BY LastContactIs
  <2>2. b \in h .. LastContact(s, h)
    BY <1>0, <2>1
  <2> QED
    BY <2>2, LastMet
<1>2. b <= c[b].last
  BY <1>0, <1>1, BouncesMet
<1>3. c[b].last \in h .. b /\ c[b - 1] \in Bouncing(h, b - 1)
  <2>1. c[b] \in Bouncing(h, b) /\ c[b - 1] \in Bouncing(h, b - 1)
    BY <1>0, TouchedRuns
  <2> QED
    BY <2>1 DEF Bouncing
<1>4. c[b] = Bounce(s, c[b - 1], b)
  BY <1>0, TouchedNext
<1>5. c[b].last = b
  <2> HIDE DEF c
  <2> QED
    BY <1>0, <1>2, <1>3
<1>6. c[b] = Touched(b)
  <2> HIDE DEF c
  <2> QED
    BY <1>0, <1>3, <1>4, <1>5, BounceLands
<1>7. e[b] = Touched(b)
  BY <1>0, TouchedNext
<1>8. \A k \in b .. Len(s) : k # b => c[k] = Bounce(s, c[k - 1], k) /\ e[k] = Bounce(s, e[k - 1], k)
  <2> TAKE k \in b .. Len(s)
  <2>1. k \in h .. Len(s) /\ k # h
    BY <1>0
  <2> QED
    BY <2>1, TouchedNext
<1>9. LastContact(s, h) = c[Len(s)].last /\ LastContact(s, b) = e[Len(s)].last
  BY DEF LastContact
<1> HIDE DEF c, e
<1>10. Bad = {}
  <2> SUFFICES ASSUME Bad # {} PROVE FALSE
    OBVIOUS
  <2>1. PICK k \in Bad : \A n \in Bad : k <= n
    <3>1. Bad \subseteq Nat
      BY <1>0
    <3> HIDE DEF Bad
    <3> QED
      BY <3>1, Smallest
  <2>2. k \in b .. Len(s) /\ c[k] # e[k] /\ k # b
    BY <1>6, <1>7, <2>1
  <2>3. k - 1 \in b .. Len(s) /\ ~(k <= k - 1)
    BY <1>0, <2>2
  <2>4. c[k - 1] = e[k - 1]
    BY <2>1, <2>3
  <2> QED
    BY <1>8, <2>2, <2>4
<1>11. Len(s) \in b .. Len(s)
  BY <1>0
<1> QED
  BY <1>9, <1>10, <1>11

\* What is hard in a part is hard in the whole, and if no oldest sample is gone
\* the other way round.
LEMMA PartHard ==
  ASSUME NEW s, NEW p, NEW d, Part(s, p, d), NEW j \in 1 .. Len(p)
  PROVE  (Hard(p, j) => Hard(s, j + d)) /\ (d = 0 => (Hard(p, j) <=> Hard(s, j)))
<1> DEFINE m == Len(p) + d
           q == SubSeq(s, 1, m)
<1>1. /\ IsTrack(s) /\ IsTrack(p) /\ d \in Nat /\ Len(p) \in Nat /\ Len(s) \in Nat /\ m \in 0 .. Len(s)
      /\ \A k \in 1 .. Len(p) : p[k] = s[k + d]
  <2>1. IsTrack(s) /\ IsTrack(p) /\ d \in Nat /\ Len(p) + d <= Len(s)
    BY DEF Part
  <2>2. Len(p) \in Nat /\ Len(s) \in Nat
    BY <2>1 DEF IsTrack
  <2> QED
    BY <2>1, <2>2 DEF Part
<1>2. IsTrack(q) /\ Len(q) = m /\ Slid(q, s, 0) /\ \A k \in 1 .. m : q[k] = s[k]
  BY <1>1, FrontIs
<1> HIDE DEF q
<1>3. Slid(q, p, d)
  <2>1. Len(q) - d = Len(p) /\ d \in 0 .. Len(q)
    BY <1>1, <1>2
  <2>2. ASSUME NEW k \in 1 .. Len(p) PROVE p[k] = q[k + d]
    <3>1. k + d \in 1 .. m
      BY <1>1
    <3> QED
      BY <1>1, <1>2, <3>1
  <2> QED
    BY <1>1, <1>2, <2>1, <2>2 DEF Slid
<1>4. j \in 1 .. (Len(q) - d) /\ j + d \in 1 .. (Len(q) - 0) /\ (d = 0 => j + d = j)
  BY <1>1, <1>2
<1>5. /\ Hard(p, j) => Hard(q, j + d)
      /\ d = 0 => (Hard(p, j) <=> Hard(q, j))
  BY <1>3, <1>4, HardSlid
<1>6. Hard(s, j + d) <=> Hard(q, j + d)
  BY <1>2, <1>4, HardSlid
<1> QED
  BY <1>4, <1>5, <1>6

\* Two landings' bounce loops that stand at the same place, each counted from its
\* own first contact.
Level(m, m2, i, j) ==
  ~m.over /\ ~m2.over /\ m.air = m2.air /\ m.peak = m2.peak /\ m.last - i = m2.last - j
LEMMA TouchedLevel ==
  ASSUME NEW i \in Int, NEW j \in Int, NEW k \in Int
  PROVE  Level(Touched(i + k), Touched(j + k), i, j)
<1>1. \A n \in Int : /\ Touched(n).last = n /\ Touched(n).air = FALSE
                     /\ Touched(n).peak = 0 /\ Touched(n).over = FALSE
  BY DEF Touched
<1>2. i + k \in Int /\ j + k \in Int /\ (i + k) - i = (j + k) - j
  OBVIOUS
<1> QED
  BY <1>1, <1>2 DEF Level
LEMMA StepsIn ==
  ASSUME NEW i \in Int, NEW l \in Int, NEW n \in Int, i + l <= n, NEW k \in 0 .. l
  PROVE  i + k \in i .. n /\ i + k \in i .. (i + l) /\ k \in Nat
  OBVIOUS
LEMMA BounceLevel ==
  ASSUME NEW s, NEW p, NEW i \in Int, NEW j \in Int, NEW k \in Int, p[j + k] = s[i + k],
         Hard(s, i + k) => Hard(p, j + k),
         NEW a, NEW m \in Bouncing(i, a), NEW b, NEW m2 \in Bouncing(j, b), Level(m, m2, i, j),
         ~Bounce(p, m2, j + k).over
  PROVE  Level(Bounce(s, m, i + k), Bounce(p, m2, j + k), i, j)
<1> DEFINE x == s[i + k]
<1>1. m.air \in BOOLEAN /\ m.air = m2.air /\ m.peak = m2.peak /\ ~m.over /\ ~m2.over
  BY DEF Bouncing, Level
<1>2. CASE OnDeck(x) = FALSE
  <2> DEFINE h == IF Height(x) = NoValue THEN 0 ELSE Height(x)
  <2>1. /\ Bounce(s, m, i + k) = [m EXCEPT !.air = TRUE, !.peak = IF h > @ THEN h ELSE @]
        /\ Bounce(p, m2, j + k) = [m2 EXCEPT !.air = TRUE, !.peak = IF h > @ THEN h ELSE @]
    BY <1>1, <1>2 DEF Bounce
  <2> HIDE DEF h
  <2>2. /\ Bounce(s, m, i + k).last = m.last /\ Bounce(p, m2, j + k).last = m2.last
        /\ Bounce(s, m, i + k).peak = IF h > m.peak THEN h ELSE m.peak
        /\ Bounce(p, m2, j + k).peak = IF h > m2.peak THEN h ELSE m2.peak
    BY <2>1 DEF Bouncing
  <2>3. /\ Bounce(s, m, i + k).air /\ Bounce(p, m2, j + k).air
        /\ Bounce(s, m, i + k).air = Bounce(p, m2, j + k).air
        /\ ~Bounce(s, m, i + k).over /\ ~Bounce(p, m2, j + k).over
    BY <1>1, <2>1 DEF Bouncing
  <2> QED
    BY <2>2, <2>3 DEF Level
<1>3. CASE OnDeck(x) # FALSE /\ ~m.air
  <2>1. Bounce(s, m, i + k) = m /\ Bounce(p, m2, j + k) = m2
    BY <1>1, <1>3 DEF Bounce
  <2> QED
    BY <2>1
<1>4. CASE OnDeck(x) # FALSE /\ m.air
  <2>1. ~(m.peak > BounceMerge \/ Hard(p, j + k))
    <3> SUFFICES ASSUME m.peak > BounceMerge \/ Hard(p, j + k) PROVE FALSE
      OBVIOUS
    <3>1. Bounce(p, m2, j + k) = [m2 EXCEPT !.over = TRUE]
      BY <1>1, <1>4 DEF Bounce
    <3> QED
      BY <3>1 DEF Bouncing
  <2>2. Bounce(s, m, i + k) = Touched(i + k) /\ Bounce(p, m2, j + k) = Touched(j + k)
    BY <1>1, <1>4, <2>1 DEF Bounce, Touched
  <2> QED
    BY <2>2, TouchedLevel
<1> QED
  BY <1>1, <1>2, <1>3, <1>4

\* A landing found in one track bounces on at least as long in another that has
\* the same samples from its first contact on, none of them hard that was not.
LEMMA ChainGoesOn ==
  ASSUME NEW s, IsTrack(s), NEW p, IsTrack(p), NEW i \in 1 .. Len(s), NEW j \in 1 .. Len(p),
         NEW l, l = LastContact(p, j) - j, i + l <= Len(s),
         \A k \in 0 .. l : p[j + k] = s[i + k] /\ (Hard(s, i + k) => Hard(p, j + k))
  PROVE  i + l <= LastContact(s, i)
<1> DEFINE c == Contacts(s, i)
           e == Contacts(p, j)
           Bad == {k \in 0 .. l : ~Level(c[i + k], e[j + k], i, j)}
<1>1. /\ Len(s) \in Nat /\ Len(p) \in Nat /\ i \in Nat /\ j \in Nat /\ l \in Nat
      /\ LastContact(p, j) = j + l /\ j + l <= Len(p)
  <2>1. LastContact(p, j) \in j .. Len(p)
    BY LastContactIs
  <2>2. Len(p) \in Nat /\ Len(s) \in Nat
    BY DEF IsTrack
  <2> QED
    BY <2>1, <2>2
<1>2. \A k \in 0 .. l : /\ i + k \in i .. Len(s) /\ j + k \in j .. Len(p) /\ j + k \in j .. (j + l)
                        /\ k \in Int
  <2> TAKE k \in 0 .. l
  <2>1. i \in Int /\ j \in Int /\ l \in Int /\ Len(s) \in Int /\ Len(p) \in Int
    BY <1>1
  <2>2. i + k \in i .. Len(s)
    BY <2>1, StepsIn
  <2>3. j + k \in j .. Len(p) /\ j + k \in j .. (j + l) /\ k \in Nat
    BY <1>1, <2>1, StepsIn
  <2> QED
    BY <2>2, <2>3
<1>3. \A k \in 0 .. l : c[i + k] \in Bouncing(i, i + k) /\ e[j + k] \in Bouncing(j, j + k)
  BY <1>2, TouchedRuns
<1>4. e[j + l] = Touched(j + l) /\ \A n \in j .. (j + l) : ~e[n].over
  BY <1>1, LastMet
<1>5. c[i] = Touched(i) /\ e[j] = Touched(j)
  <2>1. i \in i .. Len(s) /\ j \in j .. Len(p)
    BY <1>1
  <2> QED
    BY <2>1, TouchedNext
<1>6. ASSUME NEW k \in 0 .. l, k # 0
      PROVE  c[i + k] = Bounce(s, c[i + (k - 1)], i + k) /\ e[j + k] = Bounce(p, e[j + (k - 1)], j + k)
  <2>1. i + k # i /\ j + k # j /\ (i + k) - 1 = i + (k - 1) /\ (j + k) - 1 = j + (k - 1)
    BY <1>1, <1>6
  <2> QED
    BY <1>2, <2>1, TouchedNext
<1>7. LastContact(s, i) = c[Len(s)].last
  BY DEF LastContact
<1>8. c[i + l].last <= c[Len(s)].last
  <2>1. i + l \in i .. Len(s) /\ Len(s) \in (i + l) .. Len(s)
    BY <1>1
  <2> QED
    BY <2>1, ContactsGrow
<1> HIDE DEF c, e
<1>9. Bad = {}
  <2> SUFFICES ASSUME Bad # {} PROVE FALSE
    OBVIOUS
  <2>1. PICK k \in Bad : \A n \in Bad : k <= n
    <3>1. Bad \subseteq Nat
      OBVIOUS
    <3> HIDE DEF Bad
    <3> QED
      BY <3>1, Smallest
  <2>2. k \in 0 .. l /\ ~Level(c[i + k], e[j + k], i, j)
    BY <2>1
  <2>3. k # 0
    <3>1. Level(c[i + 0], e[j + 0], i, j)
      <4>1. i + 0 = i /\ j + 0 = j
        BY <1>1
      <4>2. Level(Touched(i), Touched(j), i, j)
        BY <1>1 DEF Level, Touched
      <4> QED
        BY <1>5, <4>1, <4>2
    <3> QED
      BY <2>2, <3>1
  <2>4. k - 1 \in 0 .. l /\ ~(k <= k - 1) /\ k \in Int
    BY <1>1, <2>2, <2>3
  <2>5. Level(c[i + (k - 1)], e[j + (k - 1)], i, j)
    BY <2>1, <2>4
  <2>6. /\ c[i + k] = Bounce(s, c[i + (k - 1)], i + k)
        /\ e[j + k] = Bounce(p, e[j + (k - 1)], j + k) /\ ~e[j + k].over
    BY <1>2, <1>4, <1>6, <2>2, <2>3
  <2>7. Level(Bounce(s, c[i + (k - 1)], i + k), Bounce(p, e[j + (k - 1)], j + k), i, j)
    <3>1. p[j + k] = s[i + k] /\ (Hard(s, i + k) => Hard(p, j + k))
      BY <2>2
    <3>2. /\ c[i + (k - 1)] \in Bouncing(i, i + (k - 1)) /\ e[j + (k - 1)] \in Bouncing(j, j + (k - 1))
          /\ ~Bounce(p, e[j + (k - 1)], j + k).over
      BY <1>3, <2>4, <2>6
    <3>3. i \in Int /\ j \in Int /\ k \in Int
      BY <1>1, <2>4
    <3> HIDE DEF Bad
    <3> QED
      BY <2>5, <3>1, <3>2, <3>3, BounceLevel
  <2> QED
    BY <2>2, <2>6, <2>7
<1>10. c[i + l].last = i + l
  <2>1. Level(c[i + l], e[j + l], i, j) /\ e[j + l].last = j + l
    BY <1>1, <1>4, <1>9 DEF Touched
  <2>2. c[i + l].last \in Int
    <3>1. c[i + l] \in Bouncing(i, i + l)
      <4>1. l \in 0 .. l
        BY <1>1
      <4> QED
        BY <1>3, <4>1
    <3> QED
      BY <3>1 DEF Bouncing
  <2> QED
    BY <1>1, <2>1, <2>2 DEF Level
<1> QED
  BY <1>7, <1>8, <1>10

\* The rows a rebuild reads for the time of a sample are a part with that sample.
LEMMA ReadsArePart ==
  ASSUME NEW s, IsTrack(s), NEW n \in 1 .. Len(s)
  PROVE  \E d : Part(s, RebuildReads(s, s[n].t), d) /\ n - d \in 1 .. Len(RebuildReads(s, s[n].t))
<1> DEFINE time == s[n].t
           Around == {k \in DOMAIN s : /\ time - (RebuildMargin + ApproachWindow) <= s[k].t
                                       /\ s[k].t <= time + RebuildMargin}
           a == Least(Around)
           b == Greatest(Around)
           r == RebuildReads(s, time)
<1>1. /\ s \in Seq(Received) /\ Len(s) \in Nat /\ DOMAIN s = 1 .. Len(s)
      /\ RebuildMargin \in Nat /\ ApproachWindow \in Nat /\ time \in Int
  <2>1. time \in Int
    BY SamplesAre
  <2> HIDE DEF time
  <2> QED
    BY <2>1, ScaleAssumption DEF IsTrack
<1>2. n \in Around /\ Around \subseteq 1 .. Len(s)
  BY <1>1
<1>3. r = SubSeq(s, a, b)
  BY <1>2 DEF RebuildReads
<1> HIDE DEF Around, r, time
<1>4. a \in Around /\ a <= n
  <2>1. Around \subseteq Nat /\ Around # {}
    BY <1>1, <1>2
  <2> QED
    BY <1>2, <2>1, LeastIs
<1>5. b \in Around /\ n <= b
  <2>1. Around \subseteq 0 .. Len(s) /\ Around # {}
    BY <1>1, <1>2
  <2> QED
    BY <1>1, <1>2, <2>1, GreatestIs
<1>6. a \in 1 .. Len(s) /\ b \in 1 .. Len(s)
  BY <1>2, <1>4, <1>5
<1> HIDE DEF a, b
<1>7. /\ r \in Seq(Received) /\ Len(r) = b - a + 1
      /\ \A k \in 1 .. (b - a + 1) : a + k - 1 \in 1 .. Len(s) /\ r[k] = s[a + k - 1]
  <2>1. a \in Nat /\ b \in Nat /\ 1 <= a /\ a <= b + 1 /\ b <= Len(s)
    BY <1>1, <1>4, <1>5, <1>6
  <2> QED
    BY <1>1, <1>3, <2>1, PartIs
<1>8. a - 1 \in Nat /\ Len(r) + (a - 1) <= Len(s) /\ n - (a - 1) \in 1 .. Len(r)
  BY <1>1, <1>4, <1>5, <1>6, <1>7
<1>9. \A k \in 1 .. Len(r) : k + (a - 1) \in 1 .. Len(s) /\ r[k] = s[k + (a - 1)]
  <2> TAKE k \in 1 .. Len(r)
  <2>1. k \in 1 .. (b - a + 1) /\ a + k - 1 = k + (a - 1)
    BY <1>6, <1>7
  <2> QED
    BY <1>7, <2>1
<1>10. \A j, k \in 1 .. Len(r) : j < k => r[j].t < r[k].t
  <2> TAKE j, k \in 1 .. Len(r)
  <2>1. j + (a - 1) < k + (a - 1) <=> j < k
    BY <1>6, <1>7
  <2> QED
    BY <1>9, <2>1 DEF IsTrack
<1>11. Part(s, r, a - 1)
  BY <1>7, <1>8, <1>9, <1>10 DEF Part, IsTrack
<1> QED
  BY <1>8, <1>11 DEF r, time

\* Of two parts that lack no oldest sample, no landing of one begins among the
\* contacts of an earlier landing of the other.
LEMMA FrontsAgree ==
  ASSUME NEW s, NEW p, Part(s, p, 0), NEW w, Part(s, w, 0), NEW now,
         NEW i \in 1 .. Len(p), IsLanding(p, now, i), i <= Len(w),
         NEW h \in 1 .. (i - 1), IsLanding(w, NoValue, h)
  PROVE  LastContact(w, h) < i
<1>1. /\ IsTrack(p) /\ IsTrack(w) /\ Len(p) \in Nat /\ Len(w) \in Nat /\ i \in Nat
      /\ Len(p) <= Len(s) /\ Len(w) <= Len(s) /\ Len(s) \in Nat
      /\ \A k \in 1 .. Len(p) : p[k] = s[k]
      /\ \A k \in 1 .. Len(w) : w[k] = s[k]
  <2>1. IsTrack(p) /\ IsTrack(w) /\ IsTrack(s) /\ Len(p) + 0 <= Len(s) /\ Len(w) + 0 <= Len(s)
    BY DEF Part
  <2>2. Len(p) \in Nat /\ Len(w) \in Nat /\ Len(s) \in Nat
    BY <2>1 DEF IsTrack
  <2>3. (\A k \in 1 .. Len(p) : p[k] = s[k + 0]) /\ \A k \in 1 .. Len(w) : w[k] = s[k + 0]
    BY DEF Part
  <2> QED
    BY <2>1, <2>2, <2>3
<1>2. CASE Len(p) <= Len(w)
  <2>1. Slid(p, w, 0)
    BY <1>1, <1>2 DEF Slid
  <2> QED
    BY <2>1, NeverUsed
<1>3. CASE Len(w) < Len(p)
  <2>1. Slid(w, p, 0)
    BY <1>1, <1>3 DEF Slid
  <2>2. i \in 1 .. Len(w) /\ h \in 1 .. Len(w) /\ h < i
    BY <1>1
  <2>3. IsLanding(w, NoValue, i)
    BY <2>1, <2>2, LandedSlid
  <2>4. ~(i <= Reach(w, h))
    BY <1>1, <2>2, <2>3, LandedIs DEF UsedUp
  <2>5. LastContact(w, h) \in h .. Len(w) /\ Reach(w, h) \in LastContact(w, h) .. Len(w)
    BY <1>1, <2>2, LastContactIs, ReachIs
  <2> QED
    BY <1>1, <2>4, <2>5
<1> QED
  BY <1>1, <1>2, <1>3

\* What an analysis of a part found, and what becomes of it in one of another.
Found(p, now, j, f) ==
  IsLanding(p, now, j) /\ f.first = p[j].t /\ f.time = p[LastContact(p, j)].t
Spanned(w, lost, f) == \E h \in 1 .. Len(w) :
  /\ IsLanding(w, NoValue, h)
  /\ w[h].t = f.first \/ (lost /\ w[h].t < f.first)
  /\ w[h].t <= f.time /\ f.time <= w[LastContact(w, h)].t
LEMMA PartFound ==
  ASSUME NEW s, NEW p, NEW d, Part(s, p, d), NEW w, NEW e, Part(s, w, e), NEW now,
         NEW j \in 1 .. Len(p), NEW f, Found(p, now, j, f),
         e + 1 < j + d, LastContact(p, j) + d <= Len(w) + e
  PROVE  \/ Spanned(w, d # 0 \/ e # 0, f)
         \/ Drowned(w, f)
         \/ d # 0 /\ Crashed(w, f)
         \/ Swallowed(f, AnalyzeTrack(w, NoValue))
<1> DEFINE l == LastContact(p, j) - j
           i == j + d - e
<1>1. /\ IsTrack(w) /\ IsTrack(p) /\ d \in Nat /\ e \in Nat /\ Len(p) + d <= Len(s) /\ Len(w) + e <= Len(s)
      /\ \A k \in 1 .. Len(p) : p[k] = s[k + d]
      /\ \A k \in 1 .. Len(w) : w[k] = s[k + e]
  BY DEF Part
<1>2. Len(p) \in Nat /\ Len(w) \in Nat /\ j \in Nat /\ DOMAIN w = 1 .. Len(w)
  BY <1>1 DEF IsTrack
<1>3. /\ IsLanding(p, now, j) /\ f.first = p[j].t /\ f.time = p[LastContact(p, j)].t
  BY DEF Found
<1>4. l \in Nat /\ LastContact(p, j) = j + l /\ j + l <= Len(p)
  <2>1. LastContact(p, j) \in j .. Len(p)
    BY <1>1, LastContactIs
  <2> QED
    BY <1>2, <2>1
<1>16. i \in Int /\ i + e = j + d
  BY <1>1, <1>2
<1>5. Candidate(p, j)
  BY <1>3 DEF IsLanding
<1>6. j > 1 /\ OnDeck(p[j - 1]) = FALSE /\ OnDeck(p[j]) = TRUE /\ ~Hard(p, j)
  BY <1>5 DEF Candidate
<1>7. /\ i \in 1 .. Len(w) /\ i - 1 \in 1 .. Len(w) /\ i + l \in 1 .. Len(w) /\ i > 1
      /\ j - 1 \in 1 .. Len(p) /\ j + l \in 1 .. Len(p) /\ i \in Nat /\ i <= i + l
  <2>1. j > 1 /\ i > 1 /\ (j + l) + d <= Len(w) + e /\ l \in Int /\ l >= 0
    BY <1>1, <1>2, <1>4, <1>6, <1>16
  <2> HIDE DEF i, l
  <2> QED
    BY <1>1, <1>2, <1>4, <1>16, <2>1
<1> HIDE DEF i, l
<1>8. /\ p[j - 1] = w[i - 1]
      /\ \A k \in 0 .. l : /\ i + k \in 1 .. Len(w) /\ j + k \in 1 .. Len(p) /\ p[j + k] = w[i + k]
                           /\ (i + k) + e = (j + k) + d
  <2>1. p[j - 1] = s[(j - 1) + d] /\ w[i - 1] = s[(i - 1) + e] /\ (j - 1) + d = (i - 1) + e
    <3>1. p[j - 1] = s[(j - 1) + d] /\ w[i - 1] = s[(i - 1) + e]
      BY <1>1, <1>7
    <3> QED
      BY <1>1, <1>2, <1>16, <3>1
  <2>2. ASSUME NEW k \in 0 .. l
        PROVE  /\ i + k \in 1 .. Len(w) /\ j + k \in 1 .. Len(p) /\ p[j + k] = w[i + k]
               /\ (i + k) + e = (j + k) + d
    <3>1. i + k \in 1 .. Len(w) /\ j + k \in 1 .. Len(p) /\ (i + k) + e = (j + k) + d
      <4>1. i \in Int /\ l \in Int /\ Len(w) \in Int /\ i + l <= Len(w) /\ 1 <= i
        BY <1>2, <1>4, <1>7, <1>16
      <4>2. i + k \in i .. Len(w) /\ k \in Nat
        BY <4>1, StepsIn
      <4>3. j + k \in j .. Len(p)
        BY <1>2, <1>4, <4>1, StepsIn
      <4>4. (i + k) + e = (j + k) + d
        BY <1>1, <1>2, <1>16, <4>2
      <4> QED
        BY <1>2, <4>1, <4>2, <4>3, <4>4
    <3>2. p[j + k] = s[(j + k) + d] /\ w[i + k] = s[(i + k) + e]
      BY <1>1, <3>1
    <3> QED
      BY <3>1, <3>2
  <2> QED
    BY <2>1, <2>2
<1>9. p[j] = w[i] /\ 0 \in 0 .. l /\ l \in 0 .. l
  <2>1. 0 \in 0 .. l /\ j + 0 = j /\ i + 0 = i /\ l \in 0 .. l
    BY <1>2, <1>4, <1>16
  <2>2. p[j + 0] = w[i + 0]
    BY <1>8, <2>1
  <2> QED
    BY <2>1, <2>2
<1>10. /\ f.first = w[i].t /\ f.time = w[i + l].t /\ w[i].t <= w[i + l].t
       /\ w[i].t \in Int /\ w[i + l].t \in Int /\ OnDeck(w[i - 1]) = FALSE /\ OnDeck(w[i]) = TRUE
  <2>1. p[j + l] = w[i + l]
    BY <1>8, <1>9
  <2>2. w[i].t <= w[i + l].t /\ w[i].t \in Int /\ w[i + l].t \in Int
    BY <1>1, <1>7, TimesGrow
  <2> QED
    BY <1>3, <1>4, <1>6, <1>8, <1>9, <2>1, <2>2
<1>15. f.first = w[i].t /\ f.time = w[i + l].t /\ w[i].t <= w[i + l].t /\ w[i].t \in Int /\ w[i + l].t \in Int
  BY <1>10
\* A contact of the landing that the other part alone shows hard.
<1>11. ASSUME NEW k \in 0 .. l, Hard(w, i + k), ~Hard(p, j + k)
       PROVE  d # 0 /\ Crashed(w, f)
  <2>1. d # 0
    <3> SUFFICES ASSUME d = 0 PROVE FALSE
      OBVIOUS
    <3>1. Hard(s, (i + k) + e) /\ (i + k) + e = j + k
      <4>1. (i + k) + e = (j + k) + 0 /\ j + k \in 1 .. Len(p) /\ i + k \in 1 .. Len(w)
        BY <1>8
      <4>2. Hard(s, (i + k) + e)
        BY <1>11, <4>1, PartHard
      <4> QED
        BY <4>1, <4>2
    <3> QED
      BY <1>8, <1>11, <3>1, PartHard
  <2>2. i + k \in 1 .. Len(w) /\ i <= i + k /\ i + k <= i + l
    BY <1>4, <1>7, <1>8
  <2>3. w[i].t <= w[i + k].t /\ w[i + k].t <= w[i + l].t
    BY <1>1, <1>7, <2>2, TimesGrow
  <2> QED
    BY <1>2, <1>10, <1>11, <2>1, <2>2, <2>3 DEF Crashed
<1>12. CASE \E k \in 0 .. l : Hard(w, i + k) /\ ~Hard(p, j + k)
  BY <1>11, <1>12
<1>13. CASE Sinks(w, i)
  BY <1>2, <1>7, <1>10, <1>13 DEF Drowned
<1>14. CASE (\A k \in 0 .. l : Hard(w, i + k) => Hard(p, j + k)) /\ ~Sinks(w, i)
  <2>1. LastContact(w, i) \in i .. Len(w) /\ i + l <= LastContact(w, i)
    <3>1. LastContact(w, i) \in i .. Len(w)
      BY <1>1, <1>7, LastContactIs
    <3>2. i + l <= Len(w) /\ l = LastContact(p, j) - j
      BY <1>7 DEF l
    <3> QED
      BY <1>1, <1>7, <1>8, <1>14, <3>1, <3>2, ChainGoesOn
  <2>2. f.time <= w[LastContact(w, i)].t
    <3>1. LastContact(w, i) \in 1 .. Len(w)
      BY <1>7, <2>1
    <3> QED
      BY <1>1, <1>7, <1>10, <2>1, <3>1, TimesGrow
  <2>3. ~Hard(w, i)
    <3>1. i + 0 = i /\ j + 0 = j
      BY <1>2, <1>7
    <3>2. Hard(w, i + 0) => Hard(p, j + 0)
      BY <1>9, <1>14
    <3> QED
      BY <1>6, <3>1, <3>2
  <2>4. Candidate(w, i)
    BY <1>7, <1>10, <2>3 DEF Candidate
  <2>5. CASE ~UsedUp(w, NoValue, i)
    <3>1. IsLanding(w, NoValue, i)
      BY <1>1, <1>7, <1>14, <2>4, <2>5, LandedIs
    <3>2. w[i].t = f.first /\ w[i].t <= f.time /\ f.time <= w[LastContact(w, i)].t
      BY <1>10, <2>2
    <3> QED
      BY <1>7, <3>1, <3>2 DEF Spanned
  <2>6. CASE UsedUp(w, NoValue, i)
    <3>1. PICK h \in 1 .. (i - 1) : IsLanding(w, NoValue, h) /\ i <= Reach(w, h)
      BY <2>6 DEF UsedUp
    <3>2. h \in 1 .. Len(w) /\ h \in Nat /\ h < i /\ h <= i
      BY <1>2, <1>7
    <3>3. w[h].t \in Int /\ w[h].t < w[i].t
      BY <1>1, <1>7, <3>2, TimesGrow
    <3>4. LastContact(w, h) \in h .. Len(w) /\ Reach(w, h) \in LastContact(w, h) .. Len(w)
      BY <1>1, <3>2, LastContactIs, ReachIs
    <3>5. CASE i <= LastContact(w, h)
      <4>1. d # 0 \/ e # 0
        <5> SUFFICES ASSUME d = 0, e = 0 PROVE FALSE
          OBVIOUS
        <5>1. i = j
          BY <1>2, <1>16
        <5>2. i <= Len(w) /\ Part(s, p, 0) /\ Part(s, w, 0) /\ h \in 1 .. (j - 1)
          BY <1>7, <5>1
        <5>3. LastContact(w, h) < j
          BY <1>3, <3>1, <5>1, <5>2, FrontsAgree
        <5> QED
          BY <1>7, <3>4, <3>5, <5>1, <5>3
      <4>2. h < i - 1
        <5>1. OnDeck(w[h]) = TRUE
          BY <3>1 DEF IsLanding, Candidate
        <5>2. h # i - 1
          BY <1>10, <5>1
        <5> QED
          BY <1>7, <3>2, <5>2
      <4>3. LastContact(w, h) = LastContact(w, i)
        BY <1>1, <1>7, <1>10, <3>2, <3>5, <4>2, Joined
      <4>4. w[h].t < f.first /\ w[h].t <= f.time /\ f.time <= w[LastContact(w, h)].t
        BY <1>15, <2>2, <3>3, <4>3
      <4> QED
        BY <3>1, <3>2, <4>1, <4>4 DEF Spanned
    <3>6. CASE ~(i <= LastContact(w, h))
      <4> DEFINE last == LastContact(w, h)
                 r == Reach(w, h)
      <4>1. last < i /\ last \in 1 .. Len(w) /\ last \in Nat /\ r \in 1 .. Len(w) /\ i <= r /\ r # last
        BY <1>2, <1>7, <3>1, <3>2, <3>4, <3>6
      <4>2. r \in ClimbOuts(w, last)
        BY <1>1, <3>2, <4>1, ReachIs
      <4>3. w[r].t - w[last].t <= TouchAndGo
        BY <4>2 DEF ClimbOuts
      <4> HIDE DEF last, r
      <4>4. w[i].t <= w[r].t /\ w[r].t \in Int /\ w[last].t \in Int
        <5>1. last <= i
          BY <1>7, <4>1
        <5> QED
          BY <1>1, <1>7, <4>1, <5>1, TimesGrow
      <4>5. w[i].t - w[last].t <= TouchAndGo
        <5>1. TouchAndGo \in Nat
          BY ScaleAssumption
        <5> QED
          BY <1>15, <4>3, <4>4, <5>1
      <4>6. PICK k \in DOMAIN AnalyzeTrack(w, NoValue) : AnalyzeTrack(w, NoValue)[k] = At(w, h, NoValue)
        BY <1>1, <3>1, <3>2, AnalysisIs
      <4>7. /\ At(w, h, NoValue).first = w[h].t /\ At(w, h, NoValue).time = w[last].t
            /\ At(w, h, NoValue).outcome # "full_stop"
        BY <4>2, LandingIs DEF last
      <4>8. w[h].t < f.first /\ f.first - w[last].t <= TouchAndGo
        BY <1>10, <3>3, <4>5
      <4> QED
        BY <4>6, <4>7, <4>8 DEF Swallowed
    <3> QED
      BY <3>5, <3>6
  <2> QED
    BY <2>5, <2>6
<1> QED
  BY <1>12, <1>13, <1>14

\* pick_event chooses the landing whose contacts span the time, or an earlier one
\* that was over before it by no more than the tolerance.
LEMMA PickIs ==
  ASSUME NEW S, NEW found \in Seq(S), InOrder(found), NEW time \in Int,
         \A k \in DOMAIN found : found[k].first \in Int /\ found[k].time \in Int /\ found[k].first <= found[k].time,
         NEW here \in DOMAIN found, found[here].first <= time, time <= found[here].time
  PROVE  /\ PickEvent(found, time) \in DOMAIN found
         /\ \/ PickEvent(found, time) = here
            \/ /\ found[PickEvent(found, time)].time < time
               /\ time - found[PickEvent(found, time)].time <= Tolerance
<1> DEFINE Spans == {k \in DOMAIN found : /\ found[k].first - Tolerance <= time
                                          /\ time <= found[k].time + Tolerance}
           Off(k) == IF found[k].time < time THEN time - found[k].time ELSE found[k].time - time
           IsPicked(k) == k \in Spans /\ \A l \in Spans : Off(k) < Off(l) \/ (Off(k) = Off(l) /\ k <= l)
           e == PickEvent(found, time)
<1>1. Tolerance \in Nat /\ DOMAIN found = 1 .. Len(found) /\ Len(found) \in Nat
  BY ScaleAssumption
<1>2. here \in Spans
  BY <1>1
<1>3. \A k \in DOMAIN found : Off(k) \in Nat /\ k \in Nat
  BY <1>1
<1>4. e = CHOOSE k : IsPicked(k)
  BY <1>2 DEF PickEvent
<1>5. \E k : IsPicked(k)
  <2> DEFINE Apart == {Off(k) : k \in Spans}
  <2>1. Apart \subseteq Nat /\ Apart # {}
    BY <1>2, <1>3
  <2>2. PICK a \in Apart : \A b \in Apart : a <= b
    <3> HIDE DEF Apart
    <3> QED
      BY <2>1, Smallest
  <2> DEFINE Near == {k \in Spans : Off(k) = a}
  <2>3. Near \subseteq Nat /\ Near # {}
    BY <1>3, <2>2
  <2>4. PICK k \in Near : \A b \in Near : k <= b
    <3> HIDE DEF Near
    <3> QED
      BY <2>3, Smallest
  <2>5. ASSUME NEW b \in Spans PROVE Off(k) < Off(b) \/ (Off(k) = Off(b) /\ k <= b)
    <3>1. Off(k) = a /\ a <= Off(b) /\ Off(b) \in Nat /\ a \in Nat
      BY <1>3, <2>1, <2>2, <2>4
    <3>2. Off(b) = a => k <= b
      BY <2>4
    <3> HIDE DEF Off
    <3> QED
      BY <3>1, <3>2
  <2> QED
    BY <2>4, <2>5
<1>6. IsPicked(e)
  <2> HIDE DEF IsPicked, e
  <2> QED
    BY <1>4, <1>5
<1>7. e \in DOMAIN found /\ found[e].first - Tolerance <= time /\ time <= found[e].time + Tolerance
  BY <1>6
<1>8. Off(e) < Off(here) \/ (Off(e) = Off(here) /\ e <= here)
  BY <1>2, <1>6
<1> HIDE DEF e, IsPicked, Spans
<1>9. CASE e < here
  <2>1. found[e].time < found[here].first
    BY <1>7, <1>9 DEF InOrder
  <2> HIDE DEF Off
  <2>2. found[e].time \in Int /\ found[here].first \in Int /\ found[here].first <= time
    BY <1>7
  <2>3. found[e].time < time
    BY <2>1, <2>2
  <2>4. time - found[e].time <= Tolerance
    BY <1>1, <1>7, <2>2
  <2> QED
    BY <1>7, <2>3, <2>4 DEF e
<1>10. CASE here < e
  <2>1. found[here].time < found[e].first
    BY <1>7, <1>10 DEF InOrder
  <2>2. found[here].time < found[e].time
    BY <1>7, <2>1
  <2>3. Off(here) < Off(e)
    BY <1>7, <2>2
  <2>4. Off(here) \in Nat /\ Off(e) \in Nat
    BY <1>3, <1>7
  <2> HIDE DEF Off
  <2> QED
    BY <1>8, <2>3, <2>4
<1>11. CASE here = e
  BY <1>7, <1>11 DEF e
<1>12. e \in Nat /\ here \in Nat
  BY <1>1, <1>7
<1> QED
  BY <1>9, <1>10, <1>11, <1>12

\* Everything reported as final was found in a part of the log, and in one with
\* its oldest samples gone only if the buffer has lost some.
RebuildInv ==
  /\ \E d \in Nat : Part(log, buffer, d) /\ Len(buffer) + d = Len(log)
  /\ \A f \in final : \E p, d, now : \E j \in 1 .. Len(p) :
       /\ Part(log, p, d) /\ (d # 0 => Len(buffer) < Len(log))
       /\ Found(p, now, j, f)

\* A track grows by a later sample, and its parts stay parts.
LEMMA TrackGrows ==
  ASSUME NEW s, IsTrack(s), NEW y \in Received, \A k \in 1 .. Len(s) : s[k].t < y.t
  PROVE  /\ IsTrack(Append(s, y)) /\ Len(Append(s, y)) = Len(s) + 1
         /\ Append(s, y)[Len(s) + 1] = y
         /\ \A k \in 1 .. Len(s) : Append(s, y)[k] = s[k]
         /\ \A p, d : Part(s, p, d) => Part(Append(s, y), p, d)
<1> DEFINE u == Append(s, y)
<1>1. s \in Seq(Received) /\ Len(s) \in Nat /\ \A j, k \in 1 .. Len(s) : j < k => s[j].t < s[k].t
  BY DEF IsTrack
<1>2. u \in Seq(Received) /\ Len(u) = Len(s) + 1 /\ u[Len(s) + 1] = y /\ \A k \in 1 .. Len(s) : u[k] = s[k]
  BY <1>1
<1> HIDE DEF u
<1>3. ASSUME NEW j \in 1 .. Len(u), NEW k \in 1 .. Len(u), j < k PROVE u[j].t < u[k].t
  <2>1. j \in 1 .. Len(s) /\ (k \in 1 .. Len(s) \/ k = Len(s) + 1)
    BY <1>1, <1>2, <1>3
  <2> QED
    BY <1>1, <1>2, <1>3, <2>1
<1>4. IsTrack(u)
  BY <1>2, <1>3 DEF IsTrack
<1>5. ASSUME NEW p, NEW d, Part(s, p, d) PROVE Part(u, p, d)
  <2>1. IsTrack(p) /\ d \in Nat /\ Len(p) + d <= Len(s) /\ \A j \in 1 .. Len(p) : p[j] = s[j + d]
    BY <1>5 DEF Part
  <2>2. Len(p) \in Nat
    BY <2>1 DEF IsTrack
  <2>3. Len(p) + d <= Len(u)
    BY <1>1, <1>2, <2>1, <2>2
  <2>4. ASSUME NEW j \in 1 .. Len(p) PROVE p[j] = u[j + d]
    <3>1. j + d \in 1 .. Len(s)
      BY <1>1, <2>1, <2>2
    <3> QED
      BY <1>2, <2>1, <3>1
  <2> QED
    BY <1>4, <2>1, <2>3, <2>4 DEF Part
<1> QED
  BY <1>2, <1>4, <1>5 DEF u

\* What is newly recorded was found in the analysis.
LEMMA RecordedIs ==
  ASSUME NEW s, IsTrack(s), NEW now, NEW f \in Record(AnalyzeTrack(s, now))
  PROVE  f \in final \/ \E j \in 1 .. Len(s) : Found(s, now, j, f)
<1> DEFINE found == AnalyzeTrack(s, now)
<1>1. SUFFICES ASSUME f \notin final PROVE \E j \in 1 .. Len(s) : Found(s, now, j, f)
  OBVIOUS
<1>2. PICK k \in DOMAIN found : f = [first |-> found[k].first, time |-> found[k].time,
                                     outcome |-> found[k].outcome]
  BY <1>1 DEF Record
<1>3. PICK j \in 1 .. Len(s) : IsLanding(s, now, j) /\ found[k] = At(s, j, now)
  BY AnalysisIs
<1>4. f.first = s[j].t /\ f.time = s[LastContact(s, j)].t
  BY <1>2, <1>3, TimesAre
<1> QED
  BY <1>3, <1>4 DEF Found

LEMMA RebuildInit == DetectInit => RebuildInv
<1> SUFFICES ASSUME DetectInit PROVE RebuildInv
  OBVIOUS
<1>1. log = <<>> /\ buffer = <<>> /\ final = {}
  BY DEF DetectInit
<1>2. Len(<<>>) = 0 /\ IsTrack(<<>>) /\ 0 \in Nat /\ 1 .. 0 = {}
  BY DEF IsTrack
<1>3. Part(<<>>, <<>>, 0)
  BY <1>2 DEF Part
<1> QED
  BY <1>1, <1>2, <1>3 DEF RebuildInv

LEMMA RebuildSample ==
  ASSUME TrackInv, RebuildInv, NEW x \in scene, NEW gap \in Gaps, Sample(x, gap)
  PROVE  RebuildInv'
<1> DEFINE n == Len(buffer)
<1>1. PICK d \in Nat : Part(log, buffer, d) /\ n + d = Len(log)
  BY DEF RebuildInv
<1>2. /\ IsTrack(log) /\ IsTrack(buffer) /\ n \in Nat /\ Len(log) \in Nat /\ Now(buffer) = Now(log)
      /\ \A k \in 1 .. n : buffer[k] = log[k + d]
  BY <1>1 DEF Part, IsTrack, TrackInv
<1>3. PICK y \in Received :
        /\ log' = Append(log, y) /\ buffer' = Keep(buffer, y) /\ events' = AnalyzeTrack(buffer', y.t)
        /\ final' = Record(events') /\ y.t \in Int /\ Now(log) < y.t
  BY SampleIs
<1>6. \A k \in 1 .. Len(log) : log[k].t < y.t
  BY <1>2, <1>3, NowIsLast
<1>7. \A k \in 1 .. n : buffer[k].t < y.t
  BY <1>2, <1>3, NowIsLast
<1>8. PICK a \in 0 .. n :
        /\ Slid(buffer, buffer', a)
        /\ Len(buffer') = n - a + 1 /\ buffer'[n - a + 1] = y
  BY <1>2, <1>3, <1>7, KeepIs
<1>4. a \in Nat /\ a <= n /\ n \in Nat /\ d \in Nat /\ n + d = Len(log) /\ Len(log) \in Nat
  BY <1>1, <1>2
<1>9. /\ IsTrack(log') /\ Len(log') = Len(log) + 1 /\ log'[Len(log) + 1] = y
      /\ \A k \in 1 .. Len(log) : log'[k] = log[k]
      /\ \A p, e : Part(log, p, e) => Part(log', p, e)
  BY <1>2, <1>3, <1>6, TrackGrows
<1> HIDE DEF n
<1>10. Part(log', buffer', a + d) /\ Len(buffer') + (a + d) = Len(log') /\ a + d \in Nat
  <2>1. Len(buffer') + (a + d) = Len(log') /\ a + d \in Nat /\ Len(buffer') \in Nat
    BY <1>4, <1>8, <1>9
  <2>2. ASSUME NEW k \in 1 .. Len(buffer') PROVE buffer'[k] = log'[k + (a + d)]
    <3>1. CASE k = n - a + 1
      <4>1. k + (a + d) = Len(log) + 1
        BY <1>4, <3>1
      <4> QED
        BY <1>8, <1>9, <3>1, <4>1
    <3>2. CASE k # n - a + 1
      <4>1. k \in 1 .. (n - a) /\ k + a \in 1 .. n /\ k + (a + d) \in 1 .. Len(log) /\ k + (a + d) = (k + a) + d
        BY <1>4, <1>8, <3>2
      <4>2. buffer'[k] = buffer[k + a]
        BY <1>8, <4>1 DEF Slid, n
      <4> QED
        BY <1>2, <1>9, <4>1, <4>2 DEF n
    <3> QED
      BY <3>1, <3>2
  <2>3. IsTrack(buffer')
    BY <1>8 DEF Slid
  <2>4. Len(buffer') + (a + d) <= Len(log')
    BY <1>2, <1>9, <2>1
  <2> QED
    BY <1>9, <2>1, <2>2, <2>3, <2>4 DEF Part
<1>11. Len(buffer) < Len(log) => Len(buffer') < Len(log')
  BY <1>4, <1>8, <1>9 DEF n
<1>12. a + d # 0 => Len(buffer') < Len(log')
  BY <1>4, <1>8, <1>9
<1>13. ASSUME NEW f \in final'
       PROVE  \E p, e, now : \E j \in 1 .. Len(p) :
                /\ Part(log', p, e) /\ (e # 0 => Len(buffer') < Len(log'))
                /\ Found(p, now, j, f)
  <2>1. f \in final \/ \E j \in 1 .. Len(buffer') : Found(buffer', y.t, j, f)
    <3>1. IsTrack(buffer') /\ f \in Record(AnalyzeTrack(buffer', y.t))
      BY <1>3, <1>8, <1>13 DEF Slid
    <3> QED
      BY <3>1, RecordedIs
  <2>2. CASE f \in final
    <3>1. PICK p, e, now : \E j \in 1 .. Len(p) :
            /\ Part(log, p, e) /\ (e # 0 => Len(buffer) < Len(log))
            /\ Found(p, now, j, f)
      BY <2>2 DEF RebuildInv
    <3> QED
      BY <1>9, <1>11, <3>1
  <2>3. CASE \E j \in 1 .. Len(buffer') : Found(buffer', y.t, j, f)
    BY <1>10, <1>12, <2>3
  <2> QED
    BY <2>1, <2>2, <2>3
<1> QED
  BY <1>10, <1>13 DEF RebuildInv

LEMMA RebuildNext == TrackInv /\ RebuildInv /\ [DetectNext]_detectVars => RebuildInv'
<1> SUFFICES ASSUME TrackInv, RebuildInv, [DetectNext]_detectVars PROVE RebuildInv'
  OBVIOUS
<1>1. ASSUME NEW x \in scene, NEW gap \in Gaps, Sample(x, gap) PROVE RebuildInv'
  BY <1>1, RebuildSample
<1>2. CASE Vanish
  <2>1. log' = log /\ buffer' = buffer /\ final' = Record(AnalyzeTrack(buffer, NoValue))
    BY <1>2 DEF Vanish
  <2>2. PICK d \in Nat : Part(log, buffer, d) /\ Len(buffer) + d = Len(log)
    BY DEF RebuildInv
  <2>3. d # 0 => Len(buffer) < Len(log)
    <3>1. Len(buffer) \in Nat /\ Len(log) \in Nat
      BY <2>2 DEF Part, IsTrack
    <3> QED
      BY <2>2, <3>1
  <2>4. ASSUME NEW f \in final'
        PROVE  \E p, e, now : \E j \in 1 .. Len(p) :
                 /\ Part(log, p, e) /\ (e # 0 => Len(buffer) < Len(log))
                 /\ Found(p, now, j, f)
    <3>1. f \in final \/ \E j \in 1 .. Len(buffer) : Found(buffer, NoValue, j, f)
      BY <2>1, <2>2, <2>4, RecordedIs DEF Part
    <3>2. CASE f \in final
      BY <3>2 DEF RebuildInv
    <3>3. CASE \E j \in 1 .. Len(buffer) : Found(buffer, NoValue, j, f)
      BY <2>2, <2>3, <3>3
    <3> QED
      BY <3>1, <3>2, <3>3
  <2> QED
    BY <2>1, <2>2, <2>4 DEF RebuildInv
<1>3. CASE UNCHANGED detectVars
  <2>1. log' = log /\ buffer' = buffer /\ final' = final
    BY <1>3 DEF detectVars
  <2> QED
    BY <2>1 DEF RebuildInv
<1> QED
  BY <1>1, <1>2, <1>3 DEF DetectNext

\* RebuildFinds of one landing and the rows read for it.
LEMMA FoundAgainIs ==
  ASSUME RebuildInv, NEW f \in final, NEW read, read = RebuildReads(log, f.time)
  PROVE  FoundAgain(read, f)
<1> DEFINE found == AnalyzeTrack(read, NoValue)
           e == PickEvent(found, f.time)
<1>1. PICK p, d, now : \E j \in 1 .. Len(p) :
        /\ Part(log, p, d) /\ (d # 0 => Len(buffer) < Len(log))
        /\ Found(p, now, j, f)
  BY DEF RebuildInv
<1>2. PICK j \in 1 .. Len(p) : Found(p, now, j, f)
  BY <1>1
<1>3. /\ IsTrack(log) /\ IsTrack(p) /\ Len(log) \in Nat /\ Len(p) \in Nat /\ d \in Nat
      /\ Len(p) + d <= Len(log) /\ \A k \in 1 .. Len(p) : p[k] = log[k + d]
  BY <1>1 DEF Part, IsTrack
<1>4. d # 0 => buffer # log
  BY <1>1, <1>3
<1> DEFINE n == LastContact(p, j) + d
<1>10. /\ LastContact(p, j) \in 1 .. Len(p) /\ j + d \in 1 .. Len(log) /\ n \in 1 .. Len(log)
       /\ f.first = log[j + d].t /\ f.time = log[n].t
  <2>1. LastContact(p, j) \in j .. Len(p)
    BY <1>3, LastContactIs
  <2>2. LastContact(p, j) \in 1 .. Len(p) /\ j + d \in 1 .. Len(log) /\ n \in 1 .. Len(log)
    BY <1>3, <2>1
  <2>3. p[j] = log[j + d] /\ p[LastContact(p, j)] = log[n]
    BY <1>3, <2>2
  <2> QED
    BY <1>2, <2>2, <2>3 DEF Found
<1>11. PICK b : Part(log, read, b) /\ n - b \in 1 .. Len(read)
  <2> HIDE DEF n
  <2> QED
    BY <1>3, <1>10, ReadsArePart
<1>12. /\ IsTrack(read) /\ Len(read) \in Nat /\ b \in Nat /\ Len(read) + b <= Len(log)
       /\ 1 \in 1 .. Len(read) /\ b + 1 \in 1 .. Len(log) /\ read[1] = log[b + 1] /\ n <= Len(read) + b
  <2>1. /\ IsTrack(read) /\ Len(read) \in Nat /\ b \in Nat /\ Len(read) + b <= Len(log)
        /\ \A k \in 1 .. Len(read) : read[k] = log[k + b]
    <3>1. IsTrack(read)
      BY <1>11 DEF Part
    <3>2. Len(read) \in Nat
      BY <3>1 DEF IsTrack
    <3> QED
      BY <1>11, <3>2 DEF Part
  <2> HIDE DEF n
  <2>2. 1 \in 1 .. Len(read) /\ b + 1 \in 1 .. Len(log) /\ n <= Len(read) + b /\ 1 + b = b + 1
    BY <1>3, <1>10, <1>11, <2>1
  <2>3. read[1] = log[1 + b]
    BY <2>1, <2>2
  <2> QED
    BY <2>1, <2>2, <2>3
<1>13. b # 0 => read[1] # log[1]
  <2> SUFFICES ASSUME b # 0 PROVE log[b + 1].t # log[1].t
    BY <1>12
  <2>1. 1 \in 1 .. Len(log) /\ 1 < b + 1 /\ 1 <= b + 1
    BY <1>3, <1>12
  <2>2. log[1].t < log[b + 1].t /\ log[1].t \in Int /\ log[b + 1].t \in Int
    BY <1>3, <1>12, <2>1, TimesGrow
  <2> QED
    BY <2>2
<1>14. CASE b + 1 >= j + d
  <2>1. j + d <= b + 1
    BY <1>3, <1>12, <1>14
  <2>2. log[j + d].t <= log[b + 1].t /\ log[j + d].t \in Int /\ log[b + 1].t \in Int
    BY <1>3, <1>10, <1>12, <2>1, TimesGrow
  <2>3. read[1].t >= f.first
    BY <1>10, <1>12, <2>2
  <2> QED
    BY <2>3 DEF FoundAgain
<1>15. CASE b + 1 < j + d
  <2>1. \/ Spanned(read, d # 0 \/ b # 0, f)
        \/ Drowned(read, f)
        \/ d # 0 /\ Crashed(read, f)
        \/ Swallowed(f, found)
    BY <1>1, <1>2, <1>11, <1>12, <1>15, PartFound
  <2>2. CASE Spanned(read, d # 0 \/ b # 0, f)
    <3>1. PICK h \in 1 .. Len(read) :
            /\ IsLanding(read, NoValue, h)
            /\ read[h].t = f.first \/ ((d # 0 \/ b # 0) /\ read[h].t < f.first)
            /\ read[h].t <= f.time /\ f.time <= read[LastContact(read, h)].t
      BY <2>2 DEF Spanned
    <3>2. /\ found \in Seq(Landings(read, NoValue)) /\ InOrder(found)
          /\ \A k \in DOMAIN found : \E i \in 1 .. Len(read) : found[k] = At(read, i, NoValue)
          /\ \E k \in DOMAIN found : found[k] = At(read, h, NoValue)
      BY <1>12, <3>1, AnalysisIs
    <3>3. PICK here \in DOMAIN found : found[here] = At(read, h, NoValue)
      BY <3>2
    <3>4. found[here].first = read[h].t /\ found[here].time = read[LastContact(read, h)].t
      BY <3>3, TimesAre
    <3>5. ASSUME NEW k \in DOMAIN found
          PROVE  found[k].first \in Int /\ found[k].time \in Int /\ found[k].first <= found[k].time
      <4>1. PICK i \in 1 .. Len(read) : found[k] = At(read, i, NoValue)
        BY <3>2
      <4>2. LastContact(read, i) \in 1 .. Len(read) /\ i <= LastContact(read, i)
        <5>1. LastContact(read, i) \in i .. Len(read)
          BY <1>12, LastContactIs
        <5> QED
          BY <1>12, <5>1
      <4>3. found[k].first = read[i].t /\ found[k].time = read[LastContact(read, i)].t
        BY <4>1, TimesAre
      <4> QED
        BY <1>12, <4>2, <4>3, TimesGrow
    <3>6. f.time \in Int
      <4> HIDE DEF n
      <4> QED
        BY <1>3, <1>10, SamplesAre
    <3>7. e \in DOMAIN found /\ (e = here \/ (found[e].time < f.time /\ f.time - found[e].time <= Tolerance))
      <4> HIDE DEF found
      <4> QED
        BY <3>1, <3>2, <3>4, <3>5, <3>6, PickIs
    <3>8. e # NoValue
      <4>1. found \in Seq(Landings(read, NoValue))
        BY <3>2
      <4> HIDE DEF found, e
      <4> QED
        BY <3>7, <4>1, ScaleAssumption
    <3> HIDE DEF found, e
    <3>9. CASE e = here
      <4>1. found[e].first = f.first \/ (found[e].first < f.first /\ (buffer # log \/ read[1] # log[1]))
        BY <1>4, <1>13, <3>1, <3>4, <3>9
      <4> QED
        BY <3>8, <4>1 DEF found, e, FoundAgain
    <3>10. CASE found[e].time < f.time /\ f.time - found[e].time <= Tolerance
      BY <3>8, <3>10 DEF found, e, FoundAgain
    <3> QED
      BY <3>7, <3>9, <3>10
  <2> QED
    BY <1>4, <2>1, <2>2 DEF FoundAgain
<1>16. b + 1 >= j + d \/ b + 1 < j + d
  BY <1>3, <1>12
<1> QED
  BY <1>14, <1>15, <1>16

LEMMA RebuildHolds == RebuildInv => RebuildFinds
  BY FoundAgainIs DEF RebuildFinds

\* RebuildFinds: what was reported as final is found again in the stored rows, as
\* the landing pick_event chooses or for one of the reasons stated.
THEOREM RebuildsFind == DetectSpec => []RebuildFinds
<1>1. TrackInv /\ RebuildInv /\ [DetectNext]_detectVars => RebuildInv'
  BY RebuildNext
<1> QED
  BY <1>1, RebuildInit, RebuildHolds, DetectIsAnalysis, PTL DEF DetectSpec
===============================================================================

------------------------ MODULE TrackRetentionProofs ------------------------
(***************************************************************************)
(* Retention for any number of objects, landings and frames, any arrival   *)
(* and refusal.                                                            *)
(*                                                                         *)
(* No row is queued twice because whatever the history still holds and was *)
(* queued lies below the high-water mark (MarkInv).  A rebuild reads whole *)
(* spans because the history keeps every row that may be in time for a     *)
(* landing still to be found (HistoryInv), because the rows below the mark *)
(* that were never queued are too old to be in time (SkipInv), because a   *)
(* row that was in time waits, above the mark, for an open window          *)
(* (CoverInv), and because a window is open from the moment its landing is *)
(* found until no more of its rows can arrive (OpenInv).                   *)
(***************************************************************************)
EXTENDS TrackRetention, SequenceTheorems, FiniteSetTheorems, WellFoundedInduction, TLAPS

Moving == Aircraft \cup Ships
RowSet == Moving \X Time
AnyRow == Objects \X Time

TypeOK ==
  /\ keepAll \in BOOLEAN /\ phase \in {"live", "stopped", "compacted"} /\ now \in Time
  /\ alive \in SUBSET Objects
  /\ seen \in [Objects -> SUBSET Time] /\ history \in [Objects -> SUBSET Time]
  /\ windows \in [Objects -> SUBSET (Int \X Int)]
  /\ through \in [Objects -> Int]
  /\ pending \in Seq(RowSet)
  /\ database \in {"up", "refusing", "back"}
  /\ tracks \in SUBSET AnyRow /\ lost \in SUBSET AnyRow
  /\ landings \in SUBSET Landing
  /\ order \in [Moving -> Nat] /\ IsInjective(order)

\* What arrived, and what became of it.
Has(o, t) == <<o, t>> \in Queued \cup tracks \cup lost
SeenInv ==
  /\ \A o \in Objects : /\ history[o] \subseteq seen[o]
                        /\ \A t \in seen[o] : t <= now
                        /\ through[o] \in seen[o] \cup {-1}
                        /\ WrittenAtOnce(o) => history[o] = {}
  /\ \A o \in alive : seen[o] # {}
  /\ \A row \in Queued \cup tracks \cup lost : row[2] \in seen[row[1]]

\* Whatever is held and was queued lies below the mark.
MarkInv ==
  /\ NoRowTwice
  /\ \A o \in Objects : \A t \in history[o] :
       <<o, t>> \in Queued \cup tracks => t <= through[o]

RowInv == TypeOK /\ SeenInv /\ MarkInv

--------------------------------------------------------------------------------
\* Objects send in every frame, so that none lags behind by more than one.
FrameInv == \A o \in alive \ Statics : {now - 1, now} \cap seen[o] # {}

LandingInv ==
  \A l \in landings : /\ l.first <= l.stored /\ l.stored <= l.touch /\ l.touch <= now
                      /\ l.found <= now

\* What is neither held nor accounted for has left the history.
HistoryInv ==
  \A o \in Objects \ Recycled : \A t \in seen[o] :
    \/ Has(o, t)
    \/ ~WrittenAtOnce(o) /\ (t \in history[o] \/ t < now - (Lead + Trail))

\* The rows below the mark that were passed over are of no use any more.
SkipInv ==
  \A o \in Objects \ Recycled : \A t \in history[o] :
    t <= through[o] => Has(o, t) \/ t < now - (Lead + Trail)

\* Windows are those of landings, or wider, and never meet.
Fits(w) == -Lead <= w[1] /\ w[1] + Lead + Trail <= w[2] /\ w[2] <= MaxTime + Trail
Apart(ws) ==
  \A o \in Objects : /\ \A w \in ws[o] : Fits(w)
                     /\ \A v, w \in ws[o] : v[1] <= w[2] /\ w[1] <= v[2] => v = w
WindowInv == Apart(windows)

\* The rows of a landing that were in time for it: those of its window no older
\* than the windows that were due when it was found.
Owned(l, t) ==
  l.first - Lead <= t /\ t < l.touch + Trail /\ l.found - (Lead + Trail) <= t
\* They are accounted for, or held, above the mark, for an open window.
Waiting(o, t) == t \in history[o] /\ t > through[o] /\ \E w \in windows[o] : In(t, w)
CoverInv ==
  \A l \in landings : \A o \in Targets(l) \ Recycled : \A t \in seen[o] :
    Owned(l, t) => Has(o, t) \/ Waiting(o, t)
OpenInv ==
  \A l \in landings : \A o \in Targets(l) \ Recycled :
    \/ keepAll \/ l.touch + Trail <= now \/ (o \notin alive /\ seen[o] # {})
    \/ \E w \in windows[o] : w[1] <= l.first - Lead /\ l.touch + Trail <= w[2]
LiveInv ==
  FrameInv /\ HistoryInv /\ SkipInv /\ WindowInv /\ CoverInv /\ OpenInv

StoppedInv ==
  /\ \A o \in Objects : windows[o] = {}
  /\ \A l \in landings : \A o \in Targets(l) \ Recycled : \A t \in seen[o] :
       l.first - (Margin + Approach) <= t /\ t <= l.touch + Margin =>
         Has(o, t) \/ PassedOver(l, <<o, t>>) \/ CutShort(l)

IInv ==
  /\ RowInv /\ LandingInv
  /\ phase = "live" => LiveInv
  /\ phase # "live" => StoppedInv

--------------------------------------------------------------------------------
(* The order in which rows are staged, and the newest of some times.       *)

LEMMA Ordered ==
  ASSUME TypeOK
  PROVE  /\ \A p, q \in RowSet : p # q => Before(p, q) \/ Before(q, p)
         /\ \A p, q \in RowSet : Before(p, q) => p # q /\ ~Before(q, p)
         /\ \A p, q, r \in RowSet : Before(p, q) /\ Before(q, r) => Before(p, r)
<1>1. \A p \in RowSet : /\ p[1] \in Moving /\ p[2] \in Int /\ order[p[1]] \in Nat
                        /\ p = <<p[1], p[2]>>
  BY RetentionAssumption DEF TypeOK, RowSet, Time
<1>2. \A a, b \in Moving : order[a] = order[b] => a = b
  BY DEF TypeOK, IsInjective
<1>3. ASSUME NEW p \in RowSet, NEW q \in RowSet, p # q PROVE Before(p, q) \/ Before(q, p)
  BY <1>1, <1>2, <1>3 DEF Before
<1>4. ASSUME NEW p \in RowSet, NEW q \in RowSet, Before(p, q) PROVE p # q /\ ~Before(q, p)
  BY <1>1, <1>2, <1>4 DEF Before
<1>5. ASSUME NEW p \in RowSet, NEW q \in RowSet, NEW r \in RowSet, Before(p, q), Before(q, r)
      PROVE  Before(p, r)
  BY <1>1, <1>2, <1>5 DEF Before
<1> QED
  BY <1>3, <1>4, <1>5

LEMMA Staging ==
  ASSUME TypeOK, NEW rows, rows \subseteq RowSet, IsFiniteSet(rows)
  PROVE  Staged(rows) \in Seq(rows) /\ IsInjective(Staged(rows)) /\ Range(Staged(rows)) = rows
<1> DEFINE Lower(row) == {r \in rows : r = row \/ Before(r, row)}
           n == Cardinality(rows)
           f == [row \in rows |-> Rank(rows, row)]
<1>1. n \in Nat
  BY FS_CardinalityType
<1>2. ASSUME NEW row \in rows
      PROVE  IsFiniteSet(Lower(row)) /\ Cardinality(Lower(row)) \in 1 .. n
  <2>1. IsFiniteSet(Lower(row)) /\ Cardinality(Lower(row)) <= n
    BY FS_Subset
  <2>2. Cardinality(Lower(row)) \in Nat /\ Cardinality(Lower(row)) # 0
    <3>1. row \in Lower(row)
      OBVIOUS
    <3> HIDE DEF Lower
    <3> QED
      BY <2>1, <3>1, FS_CardinalityType, FS_EmptySet
  <2> QED
    BY <1>1, <2>1, <2>2
<1>3. ASSUME NEW p \in rows, NEW q \in rows, Before(p, q) PROVE Rank(rows, p) < Rank(rows, q)
  <2>1. Lower(p) \subseteq Lower(q) /\ q \notin Lower(p) /\ q \in Lower(q)
    BY <1>3, Ordered
  <2>2. Cardinality(Lower(p)) <= Cardinality(Lower(q)) /\ Cardinality(Lower(p)) # Cardinality(Lower(q))
    <3> HIDE DEF Lower
    <3> QED
      BY <1>2, <2>1, FS_Subset
  <2>3. Rank(rows, p) = Cardinality(Lower(p)) /\ Rank(rows, q) = Cardinality(Lower(q))
    BY DEF Rank
  <2> HIDE DEF Lower
  <2>4. Cardinality(Lower(p)) \in Int /\ Cardinality(Lower(q)) \in Int
    BY <1>2
  <2> QED
    BY <2>2, <2>3, <2>4
<1>4. f \in Injection(rows, 1 .. n)
  <2>1. f \in [rows -> 1 .. n]
    BY <1>2 DEF Rank
  <2>2. \A p, q \in rows : f[p] = f[q] => p = q
    <3> SUFFICES ASSUME NEW p \in rows, NEW q \in rows, p # q PROVE f[p] # f[q]
      OBVIOUS
    <3>1. Rank(rows, p) < Rank(rows, q) \/ Rank(rows, q) < Rank(rows, p)
      BY <1>3, Ordered
    <3>2. Rank(rows, p) \in Int /\ Rank(rows, q) \in Int
      BY <2>1
    <3> QED
      BY <3>1, <3>2
  <2> QED
    BY <2>1, <2>2 DEF Injection, IsInjective
<1>5. f \in Surjection(rows, 1 .. n)
  <2>1. IsFiniteSet(1 .. n) /\ Cardinality(1 .. n) = n
    BY <1>1, FS_Interval
  <2> HIDE DEF f
  <2> QED
    BY <1>4, <2>1, FS_Injection
<1>6. \A k \in 1 .. n : Staged(rows)[k] \in rows /\ Rank(rows, Staged(rows)[k]) = k
  <2>1. \A k \in 1 .. n : \E row \in rows : Rank(rows, row) = k
    BY <1>5 DEF Surjection
  <2>2. \A k \in 1 .. n : Staged(rows)[k] = CHOOSE row \in rows : Rank(rows, row) = k
    BY DEF Staged
  <2> QED
    BY <2>1, <2>2
<1>7. DOMAIN Staged(rows) = 1 .. n /\ Staged(rows) \in Seq(rows)
  <2>1. DOMAIN Staged(rows) = 1 .. n
    BY DEF Staged
  <2>2. Staged(rows) \in [1 .. n -> rows]
    BY <1>6 DEF Staged
  <2> QED
    BY <1>1, <2>1, <2>2
<1>8. IsInjective(Staged(rows))
  BY <1>6, <1>7 DEF IsInjective
<1>9. rows \subseteq Range(Staged(rows))
  <2> SUFFICES ASSUME NEW row \in rows PROVE \E k \in 1 .. n : Staged(rows)[k] = row
    BY <1>7 DEF Range
  <2>1. PICK k \in 1 .. n : k = Rank(rows, row)
    BY <1>4 DEF Injection
  <2>2. f[Staged(rows)[k]] = f[row]
    BY <1>6, <2>1
  <2> QED
    BY <1>4, <1>6, <2>2 DEF Injection, IsInjective
<1> QED
  BY <1>6, <1>7, <1>8, <1>9 DEF Range

LEMMA Numbers ==
  /\ Approach \in Nat /\ Margin \in Nat /\ Slack \in Nat /\ BounceAllowance \in Nat
  /\ MaxPending \in Nat /\ Buffer \in Nat
  /\ MaxTime \in Nat /\ Time \subseteq Nat /\ \A t \in Time : t <= MaxTime
  /\ Lead \in Nat /\ Trail \in Nat
<1>1. /\ Approach \in Nat /\ Margin \in Nat /\ Slack \in Nat /\ BounceAllowance \in Nat
      /\ MaxPending \in Nat /\ Buffer \in Nat
      /\ MaxTime \in Nat
  BY RetentionAssumption
<1> QED
  BY <1>1 DEF Time, Lead, Trail

LEMMA Greatest ==
  ASSUME NEW S, S \subseteq Int, S # {}, NEW hi \in Int, \A x \in S : x <= hi
  PROVE  \E x \in S : \A y \in S : y <= x
<1> DEFINE R == {ss \in Nat \X Nat : ss[1] < ss[2]}
           Below == {hi - x : x \in S}
<1>1. IsWellFoundedOn(R, Nat)
  BY NatLessThanWellFounded DEF OpToRel
<1>2. Below \subseteq Nat /\ Below # {}
  <2>1. \A x \in S : hi - x \in Nat
    OBVIOUS
  <2> QED
    BY <2>1
<1> HIDE DEF R
<1>3. PICK least \in Below : \A y \in Below : ~(<<y, least>> \in R)
  BY <1>1, <1>2, WFMin
<1>4. \A y \in Below : ~(y < least)
  BY <1>2, <1>3 DEF R
<1>5. PICK x \in S : least = hi - x
  OBVIOUS
<1>6. ASSUME NEW y \in S PROVE y <= x
  <2>1. hi - y \in Below
    OBVIOUS
  <2>2. ~(hi - y < hi - x)
    BY <1>4, <1>5, <2>1
  <2> QED
    BY <2>2
<1> QED
  BY <1>6

LEMMA Smallest ==
  ASSUME NEW S, S \subseteq Int, S # {}, NEW lo \in Int, \A x \in S : lo <= x
  PROVE  \E x \in S : \A y \in S : x <= y
<1> DEFINE N == {-x : x \in S}
<1>1. N \subseteq Int /\ N # {} /\ -lo \in Int /\ \A x \in N : x <= -lo
  OBVIOUS
<1> HIDE DEF N
<1>2. PICK n \in N : \A y \in N : y <= n
  BY <1>1, Greatest
<1>3. PICK x \in S : n = -x
  BY DEF N
<1>4. ASSUME NEW y \in S PROVE x <= y
  <2>1. -y \in N
    BY DEF N
  <2>2. -y <= -x
    BY <1>2, <1>3, <2>1
  <2> QED
    BY <2>2
<1> QED
  BY <1>4

LEMMA NewestIs ==
  ASSUME NEW times, times \subseteq Time, times # {}
  PROVE  Newest(times) \in times /\ \A u \in times : u <= Newest(times)
<1>1. times \subseteq Int /\ MaxTime \in Int /\ \A u \in times : u <= MaxTime
  BY Numbers
<1>2. \E v \in times : \A u \in times : u <= v
  BY <1>1, Greatest
<1> QED
  BY <1>2 DEF Newest

LEMMA MarkIs ==
  ASSUME NEW old \in Int, NEW times, times \subseteq Time
  PROVE  /\ times = {} => Mark(old, times) = old
         /\ times # {} => Mark(old, times) \in times /\ \A u \in times : u <= Mark(old, times)
         /\ Mark(old, times) \in Int
<1>1. times \subseteq Int
  BY Numbers
<1> QED
  BY <1>1, NewestIs DEF Mark

--------------------------------------------------------------------------------
(* What merging makes of windows.                                          *)

LEMMA MergedApart ==
  ASSUME NEW ws, ws \subseteq Int \X Int
  PROVE  \A v, m \in Merged(ws) : v[1] <= m[2] /\ m[1] <= v[2] => v = m
<1>1. \A m \in Merged(ws) : m[1] \in Int /\ m[2] \in Int /\ m = <<m[1], m[2]>>
  BY DEF Merged
<1>2. \A w \in ws : w[1] \in Int /\ w[2] \in Int
  OBVIOUS
<1>3. ASSUME NEW v \in Merged(ws), NEW m \in Merged(ws), v[1] < m[1], m[1] <= v[2]
      PROVE  FALSE
  <2>1. m[1] - 1 \in v[1] .. v[2] - 1
    BY <1>1, <1>3
  <2>2. PICK w \in ws : Crosses(w, m[1] - 1)
    BY <2>1 DEF Merged
  <2>3. w[1] < m[1] /\ m[1] <= w[2]
    BY <1>1, <1>2, <2>2 DEF Crosses
  <2> QED
    BY <2>3 DEF Merged
<1>4. ASSUME NEW v \in Merged(ws), NEW m \in Merged(ws), v[1] = m[1], v[2] < m[2]
      PROVE  FALSE
  <2>1. v[2] \in m[1] .. m[2] - 1
    BY <1>1, <1>4 DEF Merged
  <2> QED
    BY <2>1 DEF Merged
<1> SUFFICES ASSUME NEW v \in Merged(ws), NEW m \in Merged(ws), v[1] <= m[2], m[1] <= v[2]
             PROVE  v = m
  OBVIOUS
<1>5. v[1] = m[1]
  BY <1>1, <1>3
<1>6. v[2] = m[2]
  BY <1>1, <1>4, <1>5
<1> QED
  BY <1>1, <1>5, <1>6

LEMMA MergedWithin ==
  ASSUME NEW ws, ws \subseteq Int \X Int, \A w \in ws : w[1] <= w[2],
         NEW m \in Merged(ws)
  PROVE  /\ m \in Int \X Int
         /\ \E w \in ws : m[1] = w[1] /\ w[2] <= m[2]
         /\ \E w \in ws : m[2] = w[2]
<1>1. m[1] \in Int /\ m[2] \in Int /\ m = <<m[1], m[2]>> /\ m[1] <= m[2]
  BY DEF Merged
<1>2. PICK v \in ws : m[1] = v[1]
  BY DEF Merged
<1>3. PICK w \in ws : m[2] = w[2]
  BY DEF Merged
<1>4. v[2] <= m[2]
  <2>1. ~Crosses(v, m[2])
    BY DEF Merged
  <2> QED
    BY <1>1, <1>2, <2>1 DEF Crosses
<1> QED
  BY <1>1, <1>2, <1>3, <1>4

LEMMA MergedSpans ==
  ASSUME NEW ws, ws \subseteq Int \X Int, NEW lo \in Int, NEW hi \in Int,
         \A w \in ws : lo <= w[1] /\ w[1] <= w[2] /\ w[2] <= hi,
         NEW w \in ws
  PROVE  \E m \in Merged(ws) : m[1] <= w[1] /\ w[2] <= m[2]
<1> DEFINE Covered(a, b) == \A t \in Int : a <= t /\ t < b => \E v \in ws : Crosses(v, t)
           Ends == {e \in {v[2] : v \in ws} : w[2] <= e /\ Covered(w[1], e)}
           Starts == {s \in {v[1] : v \in ws} : s <= w[1] /\ Covered(s, w[1])}
<1>1. \A v \in ws : v[1] \in Int /\ v[2] \in Int
  OBVIOUS
<1>2. w[2] \in Ends
  BY <1>1 DEF Crosses
<1>3. w[1] \in Starts
  BY <1>1
<1>4. Ends \subseteq Int /\ \A e \in Ends : e <= hi
  BY <1>1
<1>5. Starts \subseteq Int /\ \A s \in Starts : lo <= s
  BY <1>1
<1>6. PICK e \in Ends : \A y \in Ends : y <= e
  <2> HIDE DEF Ends
  <2> QED
    BY <1>2, <1>4, Greatest
<1>7. PICK s \in Starts : \A y \in Starts : s <= y
  <2> HIDE DEF Starts
  <2> QED
    BY <1>3, <1>5, Smallest
<1>8. s \in Int /\ e \in Int /\ s <= w[1] /\ w[1] <= w[2] /\ w[2] <= e
  BY <1>1, <1>4, <1>5
<1>9. ASSUME NEW t \in s .. e - 1 PROVE \E v \in ws : Crosses(v, t)
  <2>1. t \in Int /\ (t < w[1] \/ w[1] <= t) /\ s <= t /\ t < e
    BY <1>1, <1>8
  <2> QED
    BY <2>1
<1>10. ASSUME NEW v \in ws, v[1] < s, s <= v[2] PROVE FALSE
  <2>1. Covered(v[1], w[1])
    <3> SUFFICES ASSUME NEW t \in Int, v[1] <= t, t < w[1] PROVE \E u \in ws : Crosses(u, t)
      OBVIOUS
    <3>1. CASE t < s
      BY <1>1, <1>8, <1>10, <3>1 DEF Crosses
    <3>2. CASE s <= t
      BY <3>2
    <3> QED
      BY <1>8, <3>1, <3>2
  <2>2. v[1] \in Starts
    BY <1>1, <1>8, <1>10, <2>1
  <2> QED
    BY <1>1, <1>7, <1>8, <1>10, <2>2
<1>11. ASSUME NEW v \in ws, Crosses(v, e) PROVE FALSE
  <2>0. v[1] <= e /\ e < v[2] /\ v[1] \in Int /\ v[2] \in Int
    BY <1>1, <1>11 DEF Crosses
  <2>1. Covered(w[1], v[2])
    <3> SUFFICES ASSUME NEW t \in Int, w[1] <= t, t < v[2] PROVE \E u \in ws : Crosses(u, t)
      OBVIOUS
    <3>1. CASE t < e
      BY <3>1
    <3>2. CASE e <= t
      BY <1>8, <2>0, <3>2 DEF Crosses
    <3> QED
      BY <1>8, <3>1, <3>2
  <2>2. v[2] \in Ends
    BY <1>1, <1>8, <2>0, <2>1
  <2> QED
    BY <1>6, <1>8, <2>0, <2>2
<1>12. <<s, e>> \in {v[1] : v \in ws} \X {v[2] : v \in ws}
  OBVIOUS
<1>13. <<s, e>> \in Merged(ws)
  <2> HIDE DEF Ends, Starts
  <2> QED
    BY <1>8, <1>9, <1>10, <1>11, <1>12 DEF Merged
<1> QED
  BY <1>8, <1>13

LEMMA Spans ==
  /\ \A f, c \in Int : RetentionWindow(f, c) = <<f - Lead, c + Trail>>
  /\ \A c \in Int : RebuildWindow(c) = <<c - (Margin + Approach), c + Margin>>
  /\ RetentionHistory = Lead + Trail + BounceAllowance
<1>1. \A f, c \in Int : RetentionWindow(f, c) = <<f - Lead, c + Trail>>
  BY Numbers DEF RetentionWindow, RebuildWindow, Lead, Trail
<1>2. 0 \in Int /\ RetentionWindow(0, 0) = <<0 - Lead, 0 + Trail>>
  BY <1>1
<1>3. RetentionHistory = Lead + Trail + BounceAllowance
  BY <1>2, Numbers DEF RetentionHistory
<1> QED
  BY <1>1, <1>3 DEF RebuildWindow

--------------------------------------------------------------------------------
(* What is queued and committed.                                           *)

LEMMA Joining ==
  ASSUME NEW S, NEW s \in Seq(S), NEW r \in Seq(S), IsInjective(s), IsInjective(r),
         Range(s) \cap Range(r) = {}
  PROVE  s \o r \in Seq(S) /\ IsInjective(s \o r) /\ Range(s \o r) = Range(s) \cup Range(r)
<1> DEFINE n == Len(s)  m == Len(r)  c == s \o r
<1>1. /\ n \in Nat /\ m \in Nat /\ c \in Seq(S) /\ DOMAIN c = 1 .. n + m
      /\ DOMAIN s = 1 .. n /\ DOMAIN r = 1 .. m
      /\ \A i \in 1 .. n + m : c[i] = IF i <= n THEN s[i] ELSE r[i - n]
  BY ConcatProperties
<1>2. Range(c) = Range(s) \cup Range(r)
  BY RangeConcatenation
<1> HIDE DEF n, m, c
<1>3. \A i \in 1 .. n + m : IF i <= n THEN i \in 1 .. n ELSE i - n \in 1 .. m
  BY <1>1
<1>4. ASSUME NEW i \in 1 .. n + m, NEW j \in 1 .. n + m, c[i] = c[j] PROVE i = j
  <2>1. CASE i <= n /\ j <= n
    BY <1>1, <1>3, <1>4, <2>1 DEF IsInjective
  <2>2. CASE ~(i <= n) /\ ~(j <= n)
    <3>1. i - n = j - n
      BY <1>1, <1>3, <1>4, <2>2 DEF IsInjective
    <3> QED
      BY <1>1, <3>1
  <2>3. \A k, l \in 1 .. n + m : k <= n /\ ~(l <= n) => c[k] # c[l]
    <3> SUFFICES ASSUME NEW k \in 1 .. n + m, NEW l \in 1 .. n + m, k <= n, ~(l <= n)
                 PROVE  c[k] # c[l]
      OBVIOUS
    <3>1. c[k] = s[k] /\ c[l] = r[l - n] /\ k \in DOMAIN s /\ l - n \in DOMAIN r
      BY <1>1, <1>3
    <3>2. c[k] \in Range(s) /\ c[l] \in Range(r)
      BY <3>1 DEF Range
    <3> QED
      BY <3>2
  <2> QED
    BY <1>4, <2>1, <2>2, <2>3
<1> QED
  BY <1>1, <1>2, <1>4 DEF c, IsInjective

LEMMA Committed ==
  ASSUME TypeOK, NEW b, b \subseteq AnyRow, NEW freed, freed \subseteq AnyRow,
         NEW q \in Seq(RowSet), IsInjective(q), Range(q) \cap (tracks \cup b) = {},
         Commit(b, q, freed)
  PROVE  /\ pending' \in Seq(RowSet) /\ tracks' \subseteq AnyRow /\ lost' \subseteq AnyRow
         /\ IsInjective(pending') /\ Range(pending') \cap tracks' = {}
         /\ Range(pending') \cup tracks' \cup lost' = Range(q) \cup tracks \cup lost \cup b \cup freed
         /\ Range(pending') \cup tracks' \subseteq Range(q) \cup tracks \cup b
<1> DEFINE over == IF Len(q) > MaxPending THEN Len(q) - MaxPending ELSE 0
           kept == SubSeq(q, over + 1, Len(q))
           out == {q[i] : i \in 1 .. over}
<1>1. /\ Len(q) \in Nat /\ over \in Nat /\ over <= Len(q) /\ DOMAIN q = 1 .. Len(q)
      /\ \A i \in DOMAIN q : q[i] \in RowSet
  BY Numbers
<1>2. IF database = "refusing"
      THEN pending' = kept /\ lost' = lost \cup (freed \cup out) \cup b /\ UNCHANGED tracks
      ELSE pending' = <<>> /\ lost' = lost \cup (freed \cup out) /\ tracks' = tracks \cup b \cup Range(kept)
  BY DEF Commit
<1> HIDE DEF over
<1>3. /\ kept \in Seq(RowSet) /\ Len(kept) = Len(q) - over /\ DOMAIN kept = 1 .. Len(q) - over
      /\ \A i \in 1 .. Len(q) - over : kept[i] = q[over + i] /\ over + i \in DOMAIN q
  <2>1. over + 1 \in Int /\ Len(q) \in Int /\ \A i \in over + 1 .. Len(q) : q[i] \in RowSet
    BY <1>1
  <2>2. /\ kept \in Seq(RowSet) /\ Len(kept) = IF over + 1 <= Len(q) THEN Len(q) - (over + 1) + 1 ELSE 0
        /\ \A i \in 1 .. Len(q) - (over + 1) + 1 : kept[i] = q[over + 1 + i - 1]
    BY <2>1, SubSeqProperties
  <2> HIDE DEF kept
  <2>3. Len(kept) = Len(q) - over /\ Len(q) - (over + 1) + 1 = Len(q) - over
    <3>1. Len(q) \in Nat /\ over \in Nat /\ over <= Len(q)
      BY <1>1
    <3>2. Len(kept) = IF over + 1 <= Len(q) THEN Len(q) - (over + 1) + 1 ELSE 0
      BY <2>2
    <3> HIDE DEF out
    <3> QED
      BY <3>1, <3>2
  <2>4. \A i \in 1 .. Len(q) - over : over + 1 + i - 1 = over + i /\ over + i \in DOMAIN q
    <3> SUFFICES ASSUME NEW i \in 1 .. Len(q) - over
                 PROVE  over + 1 + i - 1 = over + i /\ over + i \in DOMAIN q
      OBVIOUS
    <3>1. over \in Nat /\ Len(q) \in Nat /\ i \in Nat /\ 1 <= i /\ i <= Len(q) - over
      BY <1>1
    <3>2. over + i \in 1 .. Len(q)
      BY <3>1
    <3> QED
      BY <1>1, <3>1, <3>2
  <2>5. DOMAIN kept = 1 .. Len(q) - over
    BY <2>2, <2>3
  <2> QED
    BY <2>2, <2>3, <2>4, <2>5
<1> HIDE DEF kept
<1>4. IsInjective(kept)
  <2> SUFFICES ASSUME NEW i \in 1 .. Len(q) - over, NEW j \in 1 .. Len(q) - over, kept[i] = kept[j]
               PROVE  i = j
    BY <1>3 DEF IsInjective
  <2>1. over + i = over + j
    BY <1>3 DEF IsInjective
  <2> QED
    BY <1>1, <2>1
<1>5. Range(q) = Range(kept) \cup out
  <2>1. Range(kept) \subseteq Range(q)
    BY <1>3 DEF Range
  <2>4. out \subseteq Range(q)
    BY <1>1 DEF Range
  <2>2. ASSUME NEW i \in DOMAIN q PROVE q[i] \in Range(kept) \cup out
    <3>1. CASE i <= over
      <4>1. i \in 1 .. over
        BY <1>1, <3>1
      <4> QED
        BY <4>1
    <3>2. CASE i > over
      <4>1. i - over \in 1 .. Len(q) - over /\ over + (i - over) = i
        BY <1>1, <3>2
      <4> QED
        BY <1>3, <4>1 DEF Range
    <3> QED
      BY <1>1, <3>1, <3>2
  <2>3. Range(q) \subseteq Range(kept) \cup out
    BY <2>2 DEF Range
  <2> QED
    BY <2>1, <2>3, <2>4
<1>6. Range(kept) \subseteq RowSet /\ Range(q) \subseteq RowSet /\ RowSet \subseteq AnyRow
  <2>1. RowSet \subseteq AnyRow
    BY DEF RowSet, AnyRow, Moving, Objects
  <2>2. \A i \in DOMAIN kept : kept[i] \in RowSet
    BY <1>3
  <2> QED
    BY <1>1, <2>1, <2>2 DEF Range
<1>7. <<>> \in Seq(RowSet) /\ IsInjective(<<>>) /\ Range(<<>>) = {}
  BY DEF IsInjective, Range
<1> HIDE DEF out
<1> QED
  BY <1>2, <1>3, <1>4, <1>5, <1>6, <1>7 DEF TypeOK

RowsOf(times) == {row \in Objects \X Time : row[2] \in times[row[1]]}

LEMMA Writing ==
  ASSUME TypeOK, NEW times \in [Objects -> SUBSET Time], \A o \in Statics : times[o] = {},
         NEW b, b \subseteq AnyRow, NEW freed, freed \subseteq AnyRow,
         NEW queue \in Seq(RowSet), IsInjective(queue), Range(queue) \cap (tracks \cup b) = {},
         RowsOf(times) \cap (Range(queue) \cup tracks \cup b) = {},
         Commit(b, queue \o Staged(RowsOf(times)), freed)
  PROVE  /\ pending' \in Seq(RowSet) /\ tracks' \subseteq AnyRow /\ lost' \subseteq AnyRow
         /\ NoRowTwice'
         /\ Queued' \cup tracks' \cup lost'
              = Range(queue) \cup RowsOf(times) \cup tracks \cup lost \cup b \cup freed
         /\ Queued' \cup tracks' \subseteq Range(queue) \cup RowsOf(times) \cup tracks \cup b
<1> DEFINE rows == RowsOf(times)  q == queue \o Staged(RowsOf(times))
<1>1. rows \subseteq RowSet
  BY DEF RowsOf, RowSet, Moving, Objects
<1>2. IsFiniteSet(rows)
  <2>1. IsFiniteSet(Time)
    BY Numbers, FS_Interval DEF Time
  <2>2. IsFiniteSet(Objects \X Time)
    BY <2>1, FS_Product, RetentionAssumption
  <2> QED
    BY <2>2, FS_Subset DEF RowsOf
<1>3. Staged(rows) \in Seq(rows) /\ IsInjective(Staged(rows)) /\ Range(Staged(rows)) = rows
  BY <1>1, <1>2, Staging
<1>4. Staged(rows) \in Seq(RowSet)
  BY <1>1, <1>3, SeqMonotonic
<1>5. q \in Seq(RowSet) /\ IsInjective(q) /\ Range(q) = Range(queue) \cup rows
  BY <1>3, <1>4, Joining
<1>6. Commit(b, q, freed)
  OBVIOUS
<1> HIDE DEF rows, q
<1>7. Range(q) \cap (tracks \cup b) = {}
  BY <1>5 DEF rows
<1>8. /\ pending' \in Seq(RowSet) /\ tracks' \subseteq AnyRow /\ lost' \subseteq AnyRow
      /\ IsInjective(pending') /\ Range(pending') \cap tracks' = {}
      /\ Range(pending') \cup tracks' \cup lost' = Range(q) \cup tracks \cup lost \cup b \cup freed
      /\ Range(pending') \cup tracks' \subseteq Range(q) \cup tracks \cup b
  BY <1>5, <1>6, <1>7, Committed
<1> QED
  BY <1>5, <1>8 DEF rows, NoRowTwice, Queued

--------------------------------------------------------------------------------
(* A row arrives.                                                          *)

Arrives(o, t) ==
  /\ phase = "live" /\ InFrame(o, t)
  /\ now' = t
  /\ alive' = alive \cup {o}
  /\ seen' = [seen EXCEPT ![o] = @ \cup {t}]
  /\ history' = [history EXCEPT ![o] = Held(o, t) \ Leaving(o, t)]
  /\ UNCHANGED <<keepAll, phase, database, order>>
MarksOf(o, t) == [through EXCEPT ![o] = Mark(@, OnTheWayOut(o, t))]
AtOnce(o, t) == IF WrittenAtOnce(o) THEN {<<o, t>>} ELSE {}
Writes(o, t, ws) ==
  LET times == DueRows(history', ws, MarksOf(o, t), Objects, t)
  IN  /\ WriteWindows(times, ws, Objects, t, pending \o Staged({o} \X OnTheWayOut(o, t)),
                      AtOnce(o, t), {})
      /\ through' = [p \in Objects |-> Mark(MarksOf(o, t)[p], times[p])]

LEMMA UpdateSplit ==
  ASSUME NEW o \in Objects, Update(o)
  PROVE  \E t \in Time :
           /\ Arrives(o, t)
           /\ \/ Writes(o, t, windows) /\ landings' = landings
              \/ /\ o \in Aircraft
                 /\ \E ls \in Detect(o, t, t) :
                      landings' = ls /\ Writes(o, t, RetainLandings(windows, EventsOf(ls, o, t)))
BY DEF Update, Arrives, Writes, MarksOf, AtOnce

LEMMA WayOut ==
  ASSUME RowInv, NEW o \in Objects, NEW t \in Time, Arrives(o, t)
  PROVE  /\ OnTheWayOut(o, t) \subseteq history[o] /\ OnTheWayOut(o, t) \subseteq Time
         /\ \A u \in OnTheWayOut(o, t) : u > through[o] /\ u < t - RetentionHistory
         /\ \A u \in seen[o] : u < t
         /\ MarksOf(o, t) \in [Objects -> Int]
         /\ \A p \in Objects : p # o => MarksOf(o, t)[p] = through[p]
         /\ through[o] <= MarksOf(o, t)[o]
         /\ \A u \in OnTheWayOut(o, t) : u <= MarksOf(o, t)[o]
         /\ MarksOf(o, t)[o] \in OnTheWayOut(o, t) \cup {through[o]}
         /\ WrittenAtOnce(o) => OnTheWayOut(o, t) = {}
         /\ history' \in [Objects -> SUBSET Time]
         /\ \A p \in Objects : history'[p] = IF p # o THEN history[p]
                                ELSE IF WrittenAtOnce(o) THEN {}
                                ELSE {u \in history[o] \cup {t} : u >= t - RetentionHistory}
         /\ \A p \in Objects : WrittenAtOnce(p) => history'[p] = {}
         /\ \A p \in Objects : \A u \in history'[p] : u \in history[p] \/ (p = o /\ u = t)
         /\ \A p \in Objects : p # o => history'[p] = history[p]
         /\ ~WrittenAtOnce(o) => \A u : u \in history'[o] <=>
              u \in history[o] \cup {t} /\ u >= t - RetentionHistory
<1> DEFINE out == OnTheWayOut(o, t)
<1>0. RetentionHistory \in Nat /\ Time \subseteq Nat /\ t \in Nat
  BY Numbers, Spans
<1>1. /\ history \in [Objects -> SUBSET Time] /\ through \in [Objects -> Int] /\ history[o] \subseteq Time
      /\ \A p \in Objects : WrittenAtOnce(p) => history[p] = {}
  BY DEF RowInv, TypeOK, SeenInv
<1>2. \A u \in seen[o] : u < t
  BY DEF Arrives, InFrame
<1>3. Leaving(o, t) \subseteq history[o] /\ \A u \in Leaving(o, t) : u < t - RetentionHistory
  BY <1>0, <1>1 DEF Leaving, Held
<1>4. out \subseteq history[o] /\ \A u \in out : u > through[o] /\ u < t - RetentionHistory
  BY <1>3 DEF OnTheWayOut
<1>5. WrittenAtOnce(o) => Leaving(o, t) = {} /\ out = {}
  BY <1>1, <1>3, <1>4
<1>6. /\ out = {} => Mark(through[o], out) = through[o]
      /\ out # {} => Mark(through[o], out) \in out /\ \A u \in out : u <= Mark(through[o], out)
      /\ Mark(through[o], out) \in Int
  BY <1>1, <1>4, MarkIs
<1>7. /\ MarksOf(o, t) \in [Objects -> Int] /\ MarksOf(o, t)[o] = Mark(through[o], out)
      /\ \A p \in Objects : p # o => MarksOf(o, t)[p] = through[p]
  BY <1>1, <1>6 DEF MarksOf
<1> HIDE DEF out
<1>8. through[o] <= Mark(through[o], out)
  BY <1>1, <1>4, <1>6
<1>9. \A p \in Objects : history'[p] = IF p # o THEN history[p]
                                ELSE IF WrittenAtOnce(o) THEN {}
                                ELSE {u \in history[o] \cup {t} : u >= t - RetentionHistory}
  <2>1. history' = [history EXCEPT ![o] = Held(o, t) \ Leaving(o, t)]
    BY DEF Arrives
  <2>2. ~WrittenAtOnce(o) => Held(o, t) \ Leaving(o, t)
                              = {u \in history[o] \cup {t} : u >= t - RetentionHistory}
    <3>1. \A u \in history[o] \cup {t} : ~(u < t - RetentionHistory) <=> u >= t - RetentionHistory
      BY <1>0, <1>1
    <3> QED
      BY <3>1 DEF Held, Leaving
  <2>3. WrittenAtOnce(o) => Held(o, t) \ Leaving(o, t) = {}
    BY DEF Held
  <2> QED
    BY <1>1, <2>1, <2>2, <2>3
<1>10. history' \in [Objects -> SUBSET Time]
  <2>1. Held(o, t) \subseteq Time
    BY <1>1 DEF Held
  <2> QED
    BY <1>1, <2>1 DEF Arrives
<1>11. \A p \in Objects : \A u \in history'[p] : u \in history[p] \/ (p = o /\ u = t)
  <2> SUFFICES ASSUME NEW p \in Objects, NEW u \in history'[p], p = o
               PROVE  u \in history[p] \/ u = t
    BY <1>9
  <2>1. u \in IF WrittenAtOnce(o) THEN {} ELSE {v \in history[o] \cup {t} : v >= t - RetentionHistory}
    BY <1>9
  <2> QED
    BY <2>1
<1>12. ~WrittenAtOnce(o) => \A u : u \in history'[o] <=>
         u \in history[o] \cup {t} /\ u >= t - RetentionHistory
  BY <1>9
<1>13. \A p \in Objects : p # o => history'[p] = history[p]
  BY <1>9
<1> QED
  BY <1>1, <1>2, <1>4, <1>5, <1>6, <1>7, <1>8, <1>9, <1>10, <1>11, <1>12, <1>13 DEF out

LEMMA Dues ==
  ASSUME NEW hist \in [Objects -> SUBSET Time], NEW ws, NEW marks, NEW objs, NEW dueBy,
         NEW times, times = DueRows(hist, ws, marks, objs, dueBy)
  PROVE  /\ times \in [Objects -> SUBSET Time]
         /\ \A p \in Objects : \A u : u \in times[p] <=>
              /\ p \in objs /\ u \in hist[p] /\ u > marks[p]
              /\ \E w \in ws[p] : w[2] <= dueBy /\ In(u, w)
<1>1. times = [p \in Objects |-> IF p \in objs THEN DueTimes(hist[p], ws[p], marks[p], dueBy) ELSE {}]
  BY DEF DueRows
<1>2. \A p \in Objects : \A u : u \in DueTimes(hist[p], ws[p], marks[p], dueBy) <=>
        /\ u \in hist[p] /\ u > marks[p] /\ \E w \in ws[p] : w[2] <= dueBy /\ In(u, w)
  BY DEF DueTimes, Due
<1>3. \A p \in Objects : \A u : u \in times[p] <=>
        /\ p \in objs /\ u \in hist[p] /\ u > marks[p]
        /\ \E w \in ws[p] : w[2] <= dueBy /\ In(u, w)
  BY <1>1, <1>2
<1>4. times \in [Objects -> SUBSET Time]
  <2>1. \A p \in Objects : times[p] \subseteq hist[p]
    BY <1>3
  <2> QED
    BY <1>1, <2>1
<1> QED
  BY <1>3, <1>4

LEMMA OutQueue ==
  ASSUME RowInv, NEW o \in Objects, NEW t \in Time, Arrives(o, t)
  PROVE  LET queue == pending \o Staged({o} \X OnTheWayOut(o, t))
         IN  /\ queue \in Seq(RowSet) /\ IsInjective(queue)
             /\ Range(queue) = Queued \cup ({o} \X OnTheWayOut(o, t))
<1> DEFINE out == {o} \X OnTheWayOut(o, t)
<1>1. out \subseteq RowSet
  BY WayOut DEF RowSet, Moving, Objects, WrittenAtOnce
<1>2. IsFiniteSet(out)
  <2>1. IsFiniteSet(Time)
    BY Numbers, FS_Interval DEF Time
  <2>2. OnTheWayOut(o, t) \subseteq Time
    BY WayOut
  <2>3. IsFiniteSet(OnTheWayOut(o, t)) /\ IsFiniteSet({o})
    BY <2>1, <2>2, FS_Subset, FS_Singleton
  <2> QED
    BY <2>3, FS_Product
<1>3. Staged(out) \in Seq(out) /\ IsInjective(Staged(out)) /\ Range(Staged(out)) = out
  BY <1>1, <1>2, Staging DEF RowInv
<1>4. Staged(out) \in Seq(RowSet)
  BY <1>1, <1>3, SeqMonotonic
<1>5. pending \in Seq(RowSet) /\ IsInjective(pending)
  BY DEF RowInv, TypeOK, MarkInv, NoRowTwice
<1>6. Range(pending) \cap out = {}
  <2> SUFFICES ASSUME NEW u \in OnTheWayOut(o, t), <<o, u>> \in Queued PROVE FALSE
    BY DEF Queued
  <2>1. u \in history[o] /\ u > through[o] /\ u \in Nat /\ through[o] \in Int
    BY WayOut, Numbers DEF RowInv, TypeOK
  <2>2. u <= through[o]
    BY <2>1 DEF RowInv, MarkInv
  <2> QED
    BY <2>1, <2>2
<1> HIDE DEF out
<1>7. pending \o Staged(out) \in Seq(RowSet) /\ IsInjective(pending \o Staged(out))
      /\ Range(pending \o Staged(out)) = Range(pending) \cup out
  BY <1>3, <1>4, <1>5, <1>6, Joining
<1> QED
  BY <1>7 DEF out, Queued

DueNow(o, t, ws) == DueRows(history', ws, MarksOf(o, t), Objects, t)

LEMMA UpdateWrites ==
  ASSUME RowInv, NEW o \in Objects, NEW t \in Time, Arrives(o, t), NEW ws, Writes(o, t, ws),
         NEW times, times = DueNow(o, t, ws)
  PROVE  /\ times \in [Objects -> SUBSET Time]
         /\ \A p \in Objects : \A u : u \in times[p] <=>
              /\ u \in history'[p] /\ u > MarksOf(o, t)[p]
              /\ \E w \in ws[p] : w[2] <= t /\ In(u, w)
         /\ pending' \in Seq(RowSet) /\ tracks' \subseteq AnyRow /\ lost' \subseteq AnyRow
         /\ NoRowTwice'
         /\ Queued' \cup tracks' \cup lost'
              = Queued \cup ({o} \X OnTheWayOut(o, t)) \cup RowsOf(times) \cup tracks \cup lost
                  \cup AtOnce(o, t)
         /\ Queued' \cup tracks'
              \subseteq Queued \cup ({o} \X OnTheWayOut(o, t)) \cup RowsOf(times) \cup tracks
                  \cup AtOnce(o, t)
         /\ windows' = [p \in Objects |-> ws[p] \ Due(ws[p], t)]
         /\ through' = [p \in Objects |-> Mark(MarksOf(o, t)[p], times[p])]
<1> DEFINE queue == pending \o Staged({o} \X OnTheWayOut(o, t))
<1>1. /\ windows' = [p \in Objects |-> IF p \in Objects THEN ws[p] \ Due(ws[p], t) ELSE ws[p]]
      /\ Commit(AtOnce(o, t), queue \o Staged(RowsOf(times)), {})
      /\ through' = [p \in Objects |-> Mark(MarksOf(o, t)[p], times[p])]
  BY DEF Writes, WriteWindows, RowsOf, DueNow
<1>2. history' \in [Objects -> SUBSET Time]
  BY WayOut
<1>3. /\ times \in [Objects -> SUBSET Time]
      /\ \A p \in Objects : \A u : u \in times[p] <=>
           /\ u \in history'[p] /\ u > MarksOf(o, t)[p]
           /\ \E w \in ws[p] : w[2] <= t /\ In(u, w)
  BY <1>2, Dues DEF DueNow
<1>4. \A p \in Statics : times[p] = {}
  BY <1>3, WayOut DEF WrittenAtOnce, Objects
<1>5. queue \in Seq(RowSet) /\ IsInjective(queue) /\ Range(queue) = Queued \cup ({o} \X OnTheWayOut(o, t))
  BY OutQueue
<1> HIDE DEF queue
<1>6. AtOnce(o, t) \subseteq AnyRow
  BY DEF AtOnce, AnyRow
<1>7. \A u \in seen[o] : u < t
  BY WayOut
<1>8. /\ t \in Int /\ through \in [Objects -> Int] /\ seen \in [Objects -> SUBSET Time]
      /\ history \in [Objects -> SUBSET Time] /\ MarksOf(o, t) \in [Objects -> Int]
  BY WayOut, Numbers DEF RowInv, TypeOK
<1>9. t \notin seen[o]
  BY <1>7, <1>8
<1>10. \A row \in Queued \cup tracks : row[2] \in seen[row[1]]
  BY DEF RowInv, SeenInv
<1>11. \A row \in AtOnce(o, t) : row = <<o, t>> /\ WrittenAtOnce(o)
  BY DEF AtOnce
<1>12. Range(queue) \cap (tracks \cup AtOnce(o, t)) = {}
  <2>1. Queued \cap tracks = {}
    BY DEF RowInv, MarkInv, NoRowTwice
  <2>2. Queued \cap AtOnce(o, t) = {}
    BY <1>9, <1>10, <1>11
  <2>3. ({o} \X OnTheWayOut(o, t)) \cap AtOnce(o, t) = {}
    BY <1>11, WayOut
  <2>4. \A u \in OnTheWayOut(o, t) : <<o, u>> \notin tracks
    <3> SUFFICES ASSUME NEW u \in OnTheWayOut(o, t), <<o, u>> \in tracks PROVE FALSE
      OBVIOUS
    <3>1. u \in history[o] /\ u > through[o]
      BY WayOut
    <3>2. u <= through[o] /\ u \in Int /\ through[o] \in Int
      BY <1>8, <3>1, Numbers DEF RowInv, MarkInv
    <3> QED
      BY <3>1, <3>2
  <2> QED
    BY <1>5, <2>1, <2>2, <2>3, <2>4
<1>13. ASSUME NEW p \in Objects, NEW u \in times[p]
       PROVE  <<p, u>> \notin Range(queue) \cup tracks \cup AtOnce(o, t)
  <2>1. u \in Time /\ u \in Int /\ MarksOf(o, t)[p] \in Int /\ u > MarksOf(o, t)[p] /\ u \in history'[p]
    <3>1. u \in history'[p] /\ u > MarksOf(o, t)[p]
      BY <1>3
    <3>2. u \in Time
      BY <1>2, <3>1
    <3>3. Time \subseteq Int
      BY Numbers
    <3>4. MarksOf(o, t)[p] \in Int
      BY <1>8
    <3> QED
      BY <3>1, <3>2, <3>3, <3>4
  <2>2. <<p, u>> \notin AtOnce(o, t)
    BY <1>11, <2>1, WayOut
  <2>3. ~(p = o /\ u \in OnTheWayOut(o, t))
    BY <2>1, WayOut
  <2>4. ASSUME <<p, u>> \in Queued \cup tracks PROVE FALSE
    <3>1. u \in seen[p]
      BY <1>10, <2>4
    <3>2. u \in history[p]
      <4>1. u \in history[p] \/ (p = o /\ u = t)
        BY <2>1, WayOut
      <4> QED
        BY <1>9, <3>1, <4>1
    <3>3. u <= through[p]
      BY <2>4, <3>2 DEF RowInv, MarkInv
    <3>4. through[p] <= MarksOf(o, t)[p] /\ through[p] \in Int
      BY <1>8, WayOut
    <3> QED
      BY <2>1, <3>3, <3>4
  <2> QED
    BY <1>5, <2>2, <2>3, <2>4
<1>14. RowsOf(times) \cap (Range(queue) \cup tracks \cup AtOnce(o, t)) = {}
  BY <1>13 DEF RowsOf
<1>15. /\ pending' \in Seq(RowSet) /\ tracks' \subseteq AnyRow /\ lost' \subseteq AnyRow
       /\ NoRowTwice'
       /\ Queued' \cup tracks' \cup lost'
            = Range(queue) \cup RowsOf(times) \cup tracks \cup lost \cup AtOnce(o, t) \cup {}
       /\ Queued' \cup tracks' \subseteq Range(queue) \cup RowsOf(times) \cup tracks \cup AtOnce(o, t)
  <2>1. TypeOK /\ {} \subseteq AnyRow
    BY DEF RowInv
  <2> QED
    BY <1>1, <1>3, <1>4, <1>5, <1>6, <1>12, <1>14, <2>1, Writing
<1>16. windows' = [p \in Objects |-> ws[p] \ Due(ws[p], t)]
  BY <1>1
<1> QED
  BY <1>1, <1>3, <1>5, <1>15, <1>16

LEMMA UpdateMarks ==
  ASSUME RowInv, NEW o \in Objects, NEW t \in Time, Arrives(o, t), NEW ws, Writes(o, t, ws)
  PROVE  /\ through' \in [Objects -> Int]
         /\ \A p \in Objects : /\ through[p] <= through'[p]
                               /\ MarksOf(o, t)[p] <= through'[p]
                               /\ \A u \in DueNow(o, t, ws)[p] : u <= through'[p]
                               /\ through'[p] \in DueNow(o, t, ws)[p] \cup {MarksOf(o, t)[p]}
<1>0. PICK times : times = DueNow(o, t, ws)
  OBVIOUS
<1>1. /\ times \in [Objects -> SUBSET Time]
      /\ \A p \in Objects : \A u \in times[p] : u > MarksOf(o, t)[p]
      /\ through' = [p \in Objects |-> Mark(MarksOf(o, t)[p], times[p])]
  BY <1>0, UpdateWrites
<1>2. /\ MarksOf(o, t) \in [Objects -> Int] /\ through \in [Objects -> Int]
      /\ \A p \in Objects : through[p] <= MarksOf(o, t)[p]
  <2>1. through \in [Objects -> Int]
    BY DEF RowInv, TypeOK
  <2> QED
    BY <2>1, WayOut
<1>3. ASSUME NEW p \in Objects
      PROVE  /\ through'[p] \in Int /\ MarksOf(o, t)[p] <= through'[p]
             /\ \A u \in times[p] : u <= through'[p]
             /\ through'[p] \in times[p] \cup {MarksOf(o, t)[p]}
  <2>1. PICK m \in Int, d \in SUBSET Time : m = MarksOf(o, t)[p] /\ d = times[p]
    BY <1>1, <1>2
  <2>2. /\ d = {} => Mark(m, d) = m
        /\ d # {} => Mark(m, d) \in d /\ \A u \in d : u <= Mark(m, d)
        /\ Mark(m, d) \in Int
    BY MarkIs
  <2>3. m <= Mark(m, d)
    BY <1>1, <2>1, <2>2
  <2>4. through'[p] = Mark(m, d)
    BY <1>1, <2>1
  <2> QED
    BY <2>1, <2>2, <2>3, <2>4
<1>4. \A p \in Objects : through[p] <= through'[p]
  <2> SUFFICES ASSUME NEW p \in Objects PROVE through[p] <= through'[p]
    OBVIOUS
  <2>1. through[p] \in Int /\ MarksOf(o, t)[p] \in Int /\ through'[p] \in Int
    BY <1>2, <1>3
  <2> QED
    BY <1>2, <1>3, <2>1
<1>5. through' \in [Objects -> Int]
  BY <1>1, <1>3
<1> QED
  BY <1>0, <1>3, <1>4, <1>5

LEMMA Retained ==
  ASSUME NEW ws \in [Objects -> SUBSET (Int \X Int)], NEW events, events \subseteq Landing
  PROVE  RetainLandings(ws, events) \in [Objects -> SUBSET (Int \X Int)]
<1>1. \A l \in events : RetentionWindow(l.first, l.touch) \in Int \X Int
  <2> SUFFICES ASSUME NEW l \in events PROVE RetentionWindow(l.first, l.touch) \in Int \X Int
    OBVIOUS
  <2>0. l \in Landing /\ Time \subseteq Int
    BY Numbers
  <2>1. l.first \in Int /\ l.touch \in Int
    BY <2>0 DEF Landing
  <2>2. l.first - Lead \in Int /\ l.touch + Trail \in Int
    BY <2>1, Numbers
  <2> QED
    BY <2>1, <2>2, Spans
<1>2. \A es \in SUBSET events : WindowsOf(es) \subseteq Int \X Int
  BY <1>1 DEF WindowsOf
<1>3. \A s \in SUBSET (Int \X Int) : Merged(s) \subseteq Int \X Int
  BY DEF Merged
<1>4. \A o \in Objects : Merged(ws[o] \cup WindowsOf({l \in events : o \in Targets(l)}))
                           \subseteq Int \X Int
  <2> SUFFICES ASSUME NEW o \in Objects
               PROVE  Merged(ws[o] \cup WindowsOf({l \in events : o \in Targets(l)})) \subseteq Int \X Int
    OBVIOUS
  <2>1. WindowsOf({l \in events : o \in Targets(l)}) \subseteq Int \X Int
    BY <1>2
  <2>2. ws[o] \cup WindowsOf({l \in events : o \in Targets(l)}) \in SUBSET (Int \X Int)
    BY <2>1
  <2> QED
    BY <1>3, <2>2
<1> QED
  BY <1>4 DEF RetainLandings

LEMMA Detected ==
  ASSUME landings \subseteq Landing, NEW a \in Aircraft, NEW t \in Time, NEW at \in Time,
         NEW ls \in Detect(a, t, at)
  PROVE  /\ ls \subseteq Landing
         /\ EventsOf(ls, a, t) \subseteq Landing
<1>1. CASE ls = landings
  BY <1>1 DEF EventsOf
<1>2. ASSUME NEW n \in Found(a, t, at), ls = landings \cup {n} PROVE ls \subseteq Landing
  BY <1>2 DEF Found, Landing, Recent
<1>3. ASSUME NEW l \in landings, ls = Instead(l, [l EXCEPT !.touch = t])
      PROVE  ls \subseteq Landing
  <2>1. [l EXCEPT !.touch = t] \in Landing
    BY DEF Landing
  <2> QED
    BY <1>3, <2>1 DEF Instead
<1>4. ASSUME NEW l \in landings, ls = Instead(l, [l EXCEPT !.stored = l.touch])
      PROVE  ls \subseteq Landing
  <2>1. [l EXCEPT !.stored = l.touch] \in Landing
    BY DEF Landing
  <2> QED
    BY <1>4, <2>1 DEF Instead
<1>5. ls \subseteq Landing
  BY <1>1, <1>2, <1>3, <1>4 DEF Detect
<1> QED
  BY <1>5 DEF EventsOf

LEMMA ArrivedRows ==
  ASSUME RowInv, NEW o \in Objects, NEW t \in Time, Arrives(o, t),
         NEW ws \in [Objects -> SUBSET (Int \X Int)], Writes(o, t, ws), landings' \subseteq Landing
  PROVE  RowInv'
<1> DEFINE out == OnTheWayOut(o, t)
<1>0. PICK times : times = DueNow(o, t, ws)
  OBVIOUS
<1>1. /\ times \in [Objects -> SUBSET Time]
      /\ \A p \in Objects : \A u \in times[p] : u \in history'[p]
      /\ pending' \in Seq(RowSet) /\ tracks' \subseteq AnyRow /\ lost' \subseteq AnyRow
      /\ NoRowTwice'
      /\ Queued' \cup tracks' \cup lost'
           = Queued \cup ({o} \X out) \cup RowsOf(times) \cup tracks \cup lost \cup AtOnce(o, t)
      /\ Queued' \cup tracks'
           \subseteq Queued \cup ({o} \X out) \cup RowsOf(times) \cup tracks \cup AtOnce(o, t)
      /\ windows' = [p \in Objects |-> ws[p] \ Due(ws[p], t)]
  BY <1>0, UpdateWrites
<1>2. /\ through' \in [Objects -> Int]
      /\ \A p \in Objects : /\ through[p] <= through'[p]
                            /\ MarksOf(o, t)[p] <= through'[p]
                            /\ \A u \in times[p] : u <= through'[p]
                            /\ through'[p] \in times[p] \cup {MarksOf(o, t)[p]}
  BY <1>0, UpdateMarks
<1>3. /\ out \subseteq history[o]
      /\ \A u \in out : u <= MarksOf(o, t)[o]
      /\ MarksOf(o, t)[o] \in out \cup {through[o]}
      /\ \A p \in Objects : p # o => MarksOf(o, t)[p] = through[p]
      /\ history' \in [Objects -> SUBSET Time]
      /\ \A p \in Objects : WrittenAtOnce(p) => history'[p] = {}
      /\ \A u \in seen[o] : u < t
  BY WayOut
<1>11. \A p \in Objects : \A u \in history'[p] : u \in history[p] \/ (p = o /\ u = t)
  BY WayOut
<1> HIDE DEF out
<1>4. /\ now' = t /\ alive' = alive \cup {o} /\ seen' = [seen EXCEPT ![o] = @ \cup {t}]
      /\ UNCHANGED <<keepAll, phase, database, order>> /\ t \in {now, now + 1}
  BY DEF Arrives, InFrame
<1>5. /\ seen \in [Objects -> SUBSET Time] /\ now \in Int /\ Time \subseteq Int
      /\ through \in [Objects -> Int]
  BY Numbers DEF RowInv, TypeOK
<1>6. \A p \in Objects : seen'[p] = IF p = o THEN seen[o] \cup {t} ELSE seen[p]
  BY <1>4, <1>5
<1>7. TypeOK'
  <2>1. windows' \in [Objects -> SUBSET (Int \X Int)]
    BY <1>1
  <2>2. seen' \in [Objects -> SUBSET Time] /\ alive' \in SUBSET Objects
    BY <1>4, <1>5 DEF RowInv, TypeOK
  <2> QED
    BY <1>1, <1>2, <1>3, <1>4, <2>1, <2>2 DEF RowInv, TypeOK
<1>8. SeenInv'
  <2>0. /\ \A p \in Objects : /\ history[p] \subseteq seen[p] /\ \A u \in seen[p] : u <= now
                              /\ through[p] \in seen[p] \cup {-1}
        /\ \A row \in Queued \cup tracks \cup lost : row[2] \in seen[row[1]] /\ row[1] \in Objects
    BY DEF RowInv, SeenInv, TypeOK, AnyRow, Queued, RowSet, Moving, Objects, Range
  <2>1. ASSUME NEW p \in Objects PROVE history'[p] \subseteq seen'[p]
    BY <1>3, <1>6, <1>11, <2>0
  <2>2. ASSUME NEW p \in Objects, NEW u \in seen'[p] PROVE u <= now'
    <3>1. u \in Int /\ t \in Int
      BY <1>5, <1>6
    <3>2. u <= now \/ u = t
      BY <1>6, <2>0
    <3> QED
      BY <1>4, <1>5, <3>1, <3>2
  <2>3. ASSUME NEW p \in Objects PROVE through'[p] \in seen'[p] \cup {-1}
    <3>1. MarksOf(o, t)[p] \in seen[p] \cup {-1}
      BY <1>3, <2>0
    <3>2. through'[p] \in history'[p] \cup seen[p] \cup {-1}
      BY <1>1, <1>2, <3>1
    <3> QED
      BY <1>6, <2>1, <3>2
  <2>4. ASSUME NEW row \in Queued' \cup tracks' \cup lost' PROVE row[2] \in seen'[row[1]]
    <3>1. CASE row \in Queued \cup tracks \cup lost
      BY <1>6, <2>0, <3>1
    <3>2. CASE row \in {o} \X out
      BY <1>3, <1>6, <2>0, <3>2
    <3>3. CASE row \in RowsOf(times)
      BY <1>1, <2>1, <3>3 DEF RowsOf
    <3>4. CASE row \in AtOnce(o, t)
      BY <1>6, <3>4 DEF AtOnce
    <3> QED
      BY <1>1, <3>1, <3>2, <3>3, <3>4
  <2>5. \A p \in Objects : WrittenAtOnce(p)' => history'[p] = {}
    BY <1>3, <1>4 DEF WrittenAtOnce
  <2>6. \A p \in alive' : seen'[p] # {}
    BY <1>4, <1>6 DEF RowInv, SeenInv, TypeOK
  <2> QED
    BY <2>1, <2>2, <2>3, <2>4, <2>5, <2>6 DEF SeenInv, WrittenAtOnce
<1>9. ASSUME NEW p \in Objects, NEW u \in history'[p], <<p, u>> \in Queued' \cup tracks'
      PROVE  u <= through'[p]
  <2>0. u \in Int /\ through[p] \in Int /\ through'[p] \in Int /\ t \in Int
        /\ through[p] <= through'[p]
    BY <1>2, <1>3, <1>5
  <2>1. CASE <<p, u>> \in Queued \cup tracks
    <3>1. u \in seen[p]
      BY <2>1 DEF RowInv, SeenInv
    <3>2. u \in history[p]
      BY <1>3, <1>11, <2>0, <3>1
    <3>3. u <= through[p]
      BY <2>1, <3>2 DEF RowInv, MarkInv
    <3> QED
      BY <2>0, <3>3
  <2>2. CASE <<p, u>> \in {o} \X out
    <3>1. u <= MarksOf(o, t)[o] /\ MarksOf(o, t)[o] <= through'[o] /\ MarksOf(o, t)[o] \in Int /\ p = o
      <4>1. MarksOf(o, t) \in [Objects -> Int]
        BY WayOut
      <4> QED
        BY <1>2, <1>3, <2>2, <4>1
    <3> QED
      BY <2>0, <3>1
  <2>3. CASE <<p, u>> \in RowsOf(times)
    BY <1>2, <2>3 DEF RowsOf
  <2>4. CASE <<p, u>> \in AtOnce(o, t)
    BY <1>3, <2>4 DEF AtOnce
  <2> QED
    BY <1>1, <1>9, <2>1, <2>2, <2>3, <2>4
<1>10. MarkInv'
  BY <1>1, <1>9 DEF MarkInv
<1> QED
  BY <1>7, <1>8, <1>10 DEF RowInv

LEMMA UpdateRows ==
  ASSUME RowInv, NEW o \in Objects, Update(o)
  PROVE  RowInv'
<1>1. PICK t \in Time :
        /\ Arrives(o, t)
        /\ \/ Writes(o, t, windows) /\ landings' = landings
           \/ /\ o \in Aircraft
              /\ \E ls \in Detect(o, t, t) :
                   landings' = ls /\ Writes(o, t, RetainLandings(windows, EventsOf(ls, o, t)))
  BY UpdateSplit
<1>2. windows \in [Objects -> SUBSET (Int \X Int)] /\ landings \subseteq Landing
  BY DEF RowInv, TypeOK
<1>3. CASE Writes(o, t, windows) /\ landings' = landings
  BY <1>1, <1>2, <1>3, ArrivedRows
<1>4. ASSUME o \in Aircraft, NEW ls \in Detect(o, t, t), landings' = ls,
             Writes(o, t, RetainLandings(windows, EventsOf(ls, o, t)))
      PROVE  RowInv'
  <2>1. ls \subseteq Landing /\ EventsOf(ls, o, t) \subseteq Landing
    BY <1>2, <1>4, Detected
  <2>2. RetainLandings(windows, EventsOf(ls, o, t)) \in [Objects -> SUBSET (Int \X Int)]
    BY <1>2, <2>1, Retained
  <2> QED
    BY <1>1, <1>4, <2>1, <2>2, ArrivedRows
<1> QED
  BY <1>1, <1>3, <1>4

--------------------------------------------------------------------------------
(* An object goes away, or the ingestor is closed: what is due is written. *)

LEMMA FlushWrites ==
  ASSUME RowInv, NEW ws, NEW objs, NEW freed, freed \subseteq AnyRow,
         NEW times, times = DueRows(history, ws, through, objs, Everything),
         WriteWindows(times, ws, objs, Everything, pending, {}, freed)
  PROVE  /\ times \in [Objects -> SUBSET Time]
         /\ \A p \in Objects : \A u : u \in times[p] <=>
              /\ p \in objs /\ u \in history[p] /\ u > through[p]
              /\ \E w \in ws[p] : w[2] <= Everything /\ In(u, w)
         /\ pending' \in Seq(RowSet) /\ tracks' \subseteq AnyRow /\ lost' \subseteq AnyRow
         /\ NoRowTwice'
         /\ Queued' \cup tracks' \cup lost'
              = Queued \cup RowsOf(times) \cup tracks \cup lost \cup freed
         /\ Queued' \cup tracks' \subseteq Queued \cup RowsOf(times) \cup tracks
         /\ windows' = [p \in Objects |-> IF p \in objs THEN ws[p] \ Due(ws[p], Everything)
                                                        ELSE ws[p]]
<1>1. /\ windows' = [p \in Objects |-> IF p \in objs THEN ws[p] \ Due(ws[p], Everything) ELSE ws[p]]
      /\ Commit({}, pending \o Staged(RowsOf(times)), freed)
  BY DEF WriteWindows, RowsOf
<1>2. history \in [Objects -> SUBSET Time] /\ through \in [Objects -> Int]
  BY DEF RowInv, TypeOK
<1>3. /\ times \in [Objects -> SUBSET Time]
      /\ \A p \in Objects : \A u : u \in times[p] <=>
           /\ p \in objs /\ u \in history[p] /\ u > through[p]
           /\ \E w \in ws[p] : w[2] <= Everything /\ In(u, w)
  BY <1>2, Dues
<1>4. \A p \in Statics : times[p] = {}
  BY <1>3 DEF RowInv, SeenInv, WrittenAtOnce, Objects
<1>5. pending \in Seq(RowSet) /\ IsInjective(pending) /\ Range(pending) \cap (tracks \cup {}) = {}
  BY DEF RowInv, TypeOK, MarkInv, NoRowTwice, Queued
<1>6. ASSUME NEW p \in Objects, NEW u \in times[p] PROVE <<p, u>> \notin Range(pending) \cup tracks \cup {}
  <2>1. u \in Int /\ through[p] \in Int /\ u \in history[p] /\ u > through[p]
    BY <1>2, <1>3, Numbers
  <2> QED
    BY <2>1 DEF RowInv, MarkInv, Queued
<1>7. RowsOf(times) \cap (Range(pending) \cup tracks \cup {}) = {}
  BY <1>6 DEF RowsOf
<1>8. /\ pending' \in Seq(RowSet) /\ tracks' \subseteq AnyRow /\ lost' \subseteq AnyRow
      /\ NoRowTwice'
      /\ Queued' \cup tracks' \cup lost'
           = Range(pending) \cup RowsOf(times) \cup tracks \cup lost \cup {} \cup freed
      /\ Queued' \cup tracks' \subseteq Range(pending) \cup RowsOf(times) \cup tracks \cup {}
  <2>1. TypeOK /\ {} \subseteq AnyRow
    BY DEF RowInv
  <2> QED
    BY <1>1, <1>3, <1>4, <1>5, <1>7, <2>1, Writing
<1> QED
  BY <1>1, <1>3, <1>8 DEF Queued

LEMMA FlushedRows ==
  ASSUME RowInv, NEW ws \in [Objects -> SUBSET (Int \X Int)], NEW objs, objs \subseteq Objects,
         NEW freed, freed \subseteq AnyRow, \A row \in freed : row[2] \in history[row[1]],
         WriteWindows(DueRows(history, ws, through, objs, Everything), ws, objs, Everything,
                      pending, {}, freed),
         history' = [p \in Objects |-> IF p \in objs THEN {} ELSE history[p]],
         through' = [p \in Objects |-> IF p \in objs THEN -1 ELSE through[p]],
         phase' \in {"live", "stopped", "compacted"}, alive' \subseteq alive, landings' \subseteq Landing,
         UNCHANGED <<keepAll, now, seen, database, order>>
  PROVE  RowInv'
<1>0. PICK times : times = DueRows(history, ws, through, objs, Everything)
  OBVIOUS
<1>1. /\ times \in [Objects -> SUBSET Time]
      /\ \A p \in Objects : \A u : u \in times[p] =>
           /\ p \in objs /\ u \in history[p]
      /\ pending' \in Seq(RowSet) /\ tracks' \subseteq AnyRow /\ lost' \subseteq AnyRow
      /\ NoRowTwice'
      /\ Queued' \cup tracks' \cup lost'
           = Queued \cup RowsOf(times) \cup tracks \cup lost \cup freed
      /\ Queued' \cup tracks' \subseteq Queued \cup RowsOf(times) \cup tracks
      /\ windows' = [p \in Objects |-> IF p \in objs THEN ws[p] \ Due(ws[p], Everything) ELSE ws[p]]
  BY <1>0, FlushWrites
<1>2. TypeOK'
  <2>1. windows' \in [Objects -> SUBSET (Int \X Int)]
    BY <1>1
  <2>2. history' \in [Objects -> SUBSET Time] /\ through' \in [Objects -> Int]
    BY DEF RowInv, TypeOK
  <2> QED
    BY <1>1, <2>1, <2>2 DEF RowInv, TypeOK
<1>3. SeenInv'
  <2>0. /\ \A p \in Objects : /\ history[p] \subseteq seen[p] /\ \A u \in seen[p] : u <= now
                              /\ through[p] \in seen[p] \cup {-1}
                              /\ WrittenAtOnce(p) => history[p] = {}
        /\ \A row \in Queued \cup tracks \cup lost : row[2] \in seen[row[1]]
        /\ \A p \in alive : seen[p] # {}
    BY DEF RowInv, SeenInv
  <2>1. ASSUME NEW row \in Queued' \cup tracks' \cup lost' PROVE row[2] \in seen[row[1]]
    <3>1. CASE row \in RowsOf(times)
      BY <1>1, <2>0, <3>1 DEF RowsOf
    <3>2. CASE row \in freed
      BY <2>0, <3>2 DEF AnyRow
    <3> QED
      BY <1>1, <2>0, <2>1, <3>1, <3>2
  <2> QED
    BY <2>0, <2>1 DEF SeenInv, WrittenAtOnce
<1>4. MarkInv'
  <2>1. ASSUME NEW p \in Objects, NEW u \in history'[p], <<p, u>> \in Queued' \cup tracks'
        PROVE  u <= through'[p]
    <3>1. p \notin objs /\ u \in history[p] /\ through'[p] = through[p]
      BY <2>1
    <3>2. <<p, u>> \notin RowsOf(times)
      BY <1>1, <3>1 DEF RowsOf
    <3>3. <<p, u>> \in Queued \cup tracks
      BY <1>1, <2>1, <3>2
    <3> QED
      BY <3>1, <3>3 DEF RowInv, MarkInv
  <2> QED
    BY <1>1, <2>1 DEF MarkInv
<1> QED
  BY <1>2, <1>3, <1>4 DEF RowInv

LEMMA VanishSplit ==
  ASSUME RowInv, NEW o \in Objects, Vanish(o)
  PROVE  \E ls, ws :
           /\ landings' = ls /\ ls \subseteq Landing
           /\ ws \in [Objects -> SUBSET (Int \X Int)]
           /\ Newest(seen[o]) \in seen[o] /\ Newest(seen[o]) \in Time
           /\ \A u \in seen[o] : u <= Newest(seen[o])
           /\ IF o \in Aircraft THEN ls \in Detect(o, Newest(seen[o]), now) ELSE ls = landings
           /\ ws = RetainLandings(windows, EventsOf(ls, o, Newest(seen[o])))
           /\ WriteWindows(DueRows(history, ws, through, {o}, Everything), ws, {o}, Everything,
                           pending, {}, {o} \X Unclaimed(o, ls))
<1>1. seen[o] \subseteq Time /\ seen[o] # {}
  BY DEF RowInv, TypeOK, SeenInv, Vanish
<1>2. PICK t \in Time : t = Newest(seen[o]) /\ t \in seen[o] /\ \A u \in seen[o] : u <= t
  BY <1>1, NewestIs
<1>3. PICK ls \in IF o \in Aircraft THEN Detect(o, t, now) ELSE {landings} :
        /\ landings' = ls
        /\ WriteWindows(DueRows(history, RetainLandings(windows, EventsOf(ls, o, t)), through, {o}, Everything),
                        RetainLandings(windows, EventsOf(ls, o, t)), {o}, Everything,
                        pending, {}, {o} \X Unclaimed(o, ls))
  BY <1>2 DEF Vanish
<1>4. windows \in [Objects -> SUBSET (Int \X Int)] /\ landings \subseteq Landing /\ now \in Time
  BY DEF RowInv, TypeOK
<1>5. ls \subseteq Landing /\ EventsOf(ls, o, t) \subseteq Landing
  BY <1>3, <1>4, Detected DEF EventsOf
<1>6. RetainLandings(windows, EventsOf(ls, o, t)) \in [Objects -> SUBSET (Int \X Int)]
  BY <1>4, <1>5, Retained
<1> QED
  BY <1>2, <1>3, <1>5, <1>6

LEMMA VanishRows ==
  ASSUME RowInv, NEW o \in Objects, Vanish(o)
  PROVE  RowInv'
<1>1. PICK ls, ws :
        /\ landings' = ls /\ ls \subseteq Landing
        /\ ws \in [Objects -> SUBSET (Int \X Int)]
        /\ WriteWindows(DueRows(history, ws, through, {o}, Everything), ws, {o}, Everything,
                        pending, {}, {o} \X Unclaimed(o, ls))
  BY VanishSplit
<1>2. /\ history \in [Objects -> SUBSET Time] /\ through \in [Objects -> Int]
      /\ phase \in {"live", "stopped", "compacted"}
  BY DEF RowInv, TypeOK
<1>3. /\ {o} \X Unclaimed(o, ls) \subseteq AnyRow
      /\ \A row \in {o} \X Unclaimed(o, ls) : row[2] \in history[row[1]]
  BY <1>2 DEF Unclaimed, AnyRow
<1>4. /\ history' = [p \in Objects |-> IF p \in {o} THEN {} ELSE history[p]]
      /\ through' = [p \in Objects |-> IF p \in {o} THEN -1 ELSE through[p]]
      /\ alive' \subseteq alive /\ phase' \in {"live", "stopped", "compacted"}
      /\ UNCHANGED <<keepAll, now, seen, database, order>>
  BY <1>2 DEF Vanish
<1>5. {o} \subseteq Objects /\ landings' \subseteq Landing
  BY <1>1
<1> QED
  BY <1>1, <1>3, <1>4, <1>5, FlushedRows

LEMMA CloseRows ==
  ASSUME RowInv, Close
  PROVE  RowInv'
<1>1. /\ windows \in [Objects -> SUBSET (Int \X Int)] /\ {} \subseteq AnyRow
      /\ \A row \in {} : row[2] \in history[row[1]]
      /\ landings' \subseteq Landing
  BY DEF RowInv, TypeOK, Close
<1>2. /\ history' = [p \in Objects |-> IF p \in Objects THEN {} ELSE history[p]]
      /\ through' = [p \in Objects |-> IF p \in Objects THEN -1 ELSE through[p]]
      /\ alive' \subseteq alive /\ phase' \in {"live", "stopped", "compacted"} /\ Objects \subseteq Objects
      /\ UNCHANGED <<keepAll, now, seen, database, order>>
      /\ WriteWindows(DueRows(history, windows, through, Objects, Everything), windows, Objects,
                      Everything, pending, {}, {})
  BY DEF Close
<1> QED
  BY <1>1, <1>2, FlushedRows

--------------------------------------------------------------------------------
LEMMA RestRows ==
  ASSUME RowInv, Refuse \/ Accept \/ Compact \/ \E l \in landings : Rebuild(l)
  PROVE  RowInv'
<1>1. CASE Refuse
  BY <1>1 DEF Refuse, RowInv, TypeOK, SeenInv, MarkInv, NoRowTwice, Queued, WrittenAtOnce
<1>2. CASE Accept
  <2>1. Range(pending) \subseteq RowSet /\ RowSet \subseteq AnyRow
    BY DEF RowInv, TypeOK, RowSet, AnyRow, Moving, Objects, Range
  <2>2. <<>> \in Seq(RowSet) /\ IsInjective(<<>>) /\ Range(<<>>) = {}
    BY DEF IsInjective, Range
  <2>3. pending' = <<>> /\ tracks' = tracks \cup Range(pending)
        /\ UNCHANGED <<keepAll, phase, now, alive, seen, history, windows, through,
                       lost, landings, order>> /\ database' = "back"
    BY <1>2 DEF Accept
  <2>4. TypeOK'
    BY <2>1, <2>2, <2>3 DEF RowInv, TypeOK
  <2>5. SeenInv'
    BY <2>2, <2>3 DEF RowInv, SeenInv, Queued, WrittenAtOnce
  <2>6. MarkInv'
    BY <2>2, <2>3 DEF RowInv, MarkInv, NoRowTwice, Queued
  <2> QED
    BY <2>4, <2>5, <2>6 DEF RowInv
<1>3. CASE Compact
  BY <1>3 DEF Compact, Kept, RowInv, TypeOK, SeenInv, MarkInv, NoRowTwice, Queued, WrittenAtOnce
<1>4. ASSUME NEW l \in landings, Rebuild(l) PROVE RowInv'
  <2> DEFINE shown == {c \in l.first .. l.touch : /\ In(c, RebuildWindow(l.stored))
                                                  /\ <<l.obj, c>> \in tracks}
  <2>1. shown # {} /\ landings' = Instead(l, [l EXCEPT !.stored = Newest(shown)])
        /\ UNCHANGED <<keepAll, phase, now, alive, seen, history, windows, through,
                       pending, database, tracks, lost, order>>
    BY <1>4 DEF Rebuild
  <2>2. shown \subseteq Time
    BY DEF RowInv, TypeOK, AnyRow
  <2> HIDE DEF shown
  <2>3. Newest(shown) \in Time
    BY <2>1, <2>2, NewestIs
  <2>4. [l EXCEPT !.stored = Newest(shown)] \in Landing
    BY <2>3 DEF RowInv, TypeOK, Landing
  <2>5. landings' \subseteq Landing
    BY <2>1, <2>4 DEF RowInv, TypeOK, Instead
  <2> QED
    BY <2>1, <2>5 DEF RowInv, TypeOK, SeenInv, MarkInv, NoRowTwice, Queued, WrittenAtOnce
<1> QED
  BY <1>1, <1>2, <1>3, <1>4

LEMMA StepRows ==
  ASSUME RowInv, [Next]_vars
  PROVE  RowInv'
<1>1. ASSUME NEW o \in Objects, Update(o) PROVE RowInv'
  BY <1>1, UpdateRows
<1>2. ASSUME NEW o \in Objects, Vanish(o) PROVE RowInv'
  BY <1>2, VanishRows
<1>3. CASE UNCHANGED vars
  BY <1>3 DEF vars, RowInv, TypeOK, SeenInv, MarkInv, NoRowTwice, Queued, WrittenAtOnce
<1> QED
  BY <1>1, <1>2, <1>3, CloseRows, RestRows DEF Next

LEMMA InitRows ==
  ASSUME Init
  PROVE  RowInv
<1>1. 0 \in Time /\ Cardinality(Moving) \in Nat
  <2>1. Moving \subseteq Objects
    BY DEF Moving, Objects
  <2> QED
    BY <2>1, Numbers, RetentionAssumption, FS_Subset, FS_CardinalityType DEF Time
<1>2. order \in [Moving -> Nat] /\ IsInjective(order)
  BY <1>1 DEF Init, Moving
<1>3. pending = <<>> /\ <<>> \in Seq(RowSet) /\ IsInjective(<<>>) /\ Range(<<>>) = {}
  BY DEF Init, IsInjective, Range
<1>4. TypeOK
  BY <1>1, <1>2, <1>3 DEF Init, TypeOK
<1> QED
  BY <1>3, <1>4 DEF Init, RowInv, SeenInv, MarkInv, NoRowTwice, Queued

--------------------------------------------------------------------------------
(* What an analysis pass leaves: landings, and windows around them.        *)

LEMMA RetainSpans ==
  ASSUME TypeOK, WindowInv, NEW events, events \subseteq Landing,
         \A l \in events : l.first <= l.touch,
         NEW ws, ws = RetainLandings(windows, events)
  PROVE  /\ ws \in [Objects -> SUBSET (Int \X Int)]
         /\ Apart(ws)
         /\ \A p \in Objects : \A w \in windows[p] : \E m \in ws[p] : m[1] <= w[1] /\ w[2] <= m[2]
         /\ ~keepAll => \A l \in events : \A p \in Targets(l) \cap Objects :
              \E m \in ws[p] : m[1] <= l.first - Lead /\ l.touch + Trail <= m[2]
<1>1. windows \in [Objects -> SUBSET (Int \X Int)] /\ ws \in [Objects -> SUBSET (Int \X Int)]
  BY Retained DEF TypeOK
<1>2. CASE keepAll
  <2>1. ws = windows
    BY <1>2 DEF RetainLandings
  <2>2. \A p \in Objects : \A w \in windows[p] : w[1] <= w[1] /\ w[2] <= w[2]
    BY <1>1
  <2> QED
    BY <1>1, <1>2, <2>1, <2>2 DEF WindowInv
<1>3. CASE ~keepAll
  <2> DEFINE All(p) == windows[p] \cup WindowsOf({l \in events : p \in Targets(l)})
  <2>1. \A p \in Objects : ws[p] = Merged(All(p))
    BY <1>3 DEF RetainLandings
  <2>2. \A l \in events : /\ l.first \in Int /\ l.touch \in Int /\ l.first <= l.touch
                          /\ 0 <= l.first /\ l.touch <= MaxTime
                          /\ RetentionWindow(l.first, l.touch) = <<l.first - Lead, l.touch + Trail>>
    <3> SUFFICES ASSUME NEW l \in events
                 PROVE  /\ l.first \in Int /\ l.touch \in Int /\ l.first <= l.touch
                        /\ 0 <= l.first /\ l.touch <= MaxTime
                        /\ RetentionWindow(l.first, l.touch) = <<l.first - Lead, l.touch + Trail>>
      OBVIOUS
    <3>1. l.first \in Time /\ l.touch \in Time
      BY DEF Landing
    <3>2. l.first \in Nat /\ l.touch \in Nat /\ l.touch <= MaxTime
      BY <3>1, Numbers
    <3> QED
      BY <3>2, Spans
  <2>3. ASSUME NEW p \in Objects, NEW w \in All(p)
        PROVE  \/ w \in windows[p]
               \/ \E l \in events : p \in Targets(l) /\ w = <<l.first - Lead, l.touch + Trail>>
    BY <2>2 DEF WindowsOf
  <2>4. \A l \in events : \A p \in Targets(l) : <<l.first - Lead, l.touch + Trail>> \in All(p)
    BY <2>2 DEF WindowsOf
  <2> HIDE DEF All
  <2>5. ASSUME NEW p \in Objects, NEW w \in All(p)
        PROVE  w \in Int \X Int /\ Fits(w)
    <3>1. CASE w \in windows[p]
      BY <1>1, <3>1 DEF WindowInv, Apart
    <3>2. ASSUME NEW l \in events, w = <<l.first - Lead, l.touch + Trail>>
          PROVE  w \in Int \X Int /\ Fits(w)
      <4>1. l.first \in Int /\ l.touch \in Int /\ 0 <= l.first /\ l.first <= l.touch /\ l.touch <= MaxTime
        BY <2>2
      <4>2. w[1] = l.first - Lead /\ w[2] = l.touch + Trail
        BY <3>2
      <4> QED
        BY <3>2, <4>1, <4>2, Numbers DEF Fits
    <3> QED
      BY <2>3, <3>1, <3>2
  <2>6. \A p \in Objects : All(p) \subseteq Int \X Int /\ \A w \in All(p) : Fits(w)
    BY <2>5
  <2>7. \A w \in Int \X Int : Fits(w) => w[1] <= w[2]
    BY Numbers DEF Fits
  <2>8. ASSUME NEW p \in Objects
        PROVE  /\ \A w \in ws[p] : Fits(w)
               /\ \A v, w \in ws[p] : v[1] <= w[2] /\ w[1] <= v[2] => v = w
    <3>1. \A v, w \in ws[p] : v[1] <= w[2] /\ w[1] <= v[2] => v = w
      BY <2>1, <2>6, MergedApart
    <3>2. ASSUME NEW m \in ws[p] PROVE Fits(m)
      <4>1. PICK v \in All(p) : m[1] = v[1] /\ v[2] <= m[2]
        BY <2>1, <2>6, <2>7, MergedWithin
      <4>2. PICK w \in All(p) : m[2] = w[2]
        BY <2>1, <2>6, <2>7, MergedWithin
      <4>3. m \in Int \X Int /\ v \in Int \X Int /\ w \in Int \X Int /\ Fits(v) /\ Fits(w)
        BY <1>1, <2>6
      <4> QED
        BY <4>1, <4>2, <4>3, Numbers DEF Fits
    <3> QED
      BY <3>1, <3>2
  <2>9. ASSUME NEW p \in Objects, NEW w \in All(p)
        PROVE  \E m \in ws[p] : m[1] <= w[1] /\ w[2] <= m[2]
    <3>1. PICK lo \in Int, hi \in Int : lo = -Lead /\ hi = MaxTime + Trail
      BY Numbers
    <3>2. \A x \in All(p) : lo <= x[1] /\ x[1] <= x[2] /\ x[2] <= hi
      BY <2>6, <2>7, <3>1 DEF Fits
    <3> QED
      BY <2>1, <2>6, <3>2, MergedSpans
  <2>10. \A l \in events : \A p \in Targets(l) \cap Objects :
           \E m \in ws[p] : m[1] <= l.first - Lead /\ l.touch + Trail <= m[2]
    <3> SUFFICES ASSUME NEW l \in events, NEW p \in Targets(l) \cap Objects
                 PROVE  \E m \in ws[p] : m[1] <= l.first - Lead /\ l.touch + Trail <= m[2]
      OBVIOUS
    <3>1. PICK w \in All(p) : w = <<l.first - Lead, l.touch + Trail>>
      BY <2>4
    <3>2. PICK m \in ws[p] : m[1] <= w[1] /\ w[2] <= m[2]
      BY <2>9
    <3> QED
      BY <3>1, <3>2
  <2>11. Apart(ws)
    BY <2>8 DEF Apart
  <2>12. \A p \in Objects : \A w \in windows[p] : \E m \in ws[p] : m[1] <= w[1] /\ w[2] <= m[2]
    BY <2>9 DEF All
  <2> QED
    BY <1>1, <2>10, <2>11, <2>12
<1> QED
  BY <1>2, <1>3

\* A landing a pass over rows up to t, at time at, may leave: one that was
\* there, whose bounces may have gone on, or a new one.
KindOf(l, o, t, at) ==
  \/ \E m \in landings : /\ m.obj = l.obj /\ m.ship = l.ship /\ m.first = l.first
                         /\ m.found = l.found /\ m.touch <= l.touch
                         /\ m.touch = l.touch \/ (l.obj = o /\ l.first >= t - Buffer)
  \/ l.obj = o /\ l.first >= t - Buffer /\ l.found = at
FoundAt(ls, o, t, at) ==
  /\ ls \subseteq Landing
  /\ \A l \in ls : /\ KindOf(l, o, t, at)
                   /\ l.first <= l.stored /\ l.stored <= l.touch
                   /\ l.touch <= now \/ l.touch <= t
                   /\ l.found <= now \/ l.found <= at

LEMMA LandingTimes ==
  ASSUME NEW l \in Landing
  PROVE  /\ l.first \in Nat /\ l.touch \in Nat /\ l.stored \in Nat /\ l.found \in Nat
         /\ l.first \in Time /\ l.touch \in Time /\ l.stored \in Time
         /\ Targets(l) \subseteq Moving /\ Targets(l) \subseteq Objects
         /\ l.obj \in Aircraft /\ l.ship \in Ships \cup {NoShip}
<1>1. /\ l.first \in Time /\ l.touch \in Time /\ l.stored \in Time /\ l.found \in Time
      /\ l.obj \in Aircraft /\ l.ship \in Ships \cup {NoShip}
  BY DEF Landing
<1>2. Targets(l) \subseteq Moving /\ Moving \subseteq Objects
  BY <1>1 DEF Targets, Moving, Objects
<1> QED
  BY <1>1, <1>2, Numbers

LEMMA SameKinds ==
  ASSUME TypeOK, LandingInv, NEW o, NEW t, NEW at
  PROVE  FoundAt(landings, o, t, at)
<1>1. landings \subseteq Landing
  BY DEF TypeOK
<1>2. ASSUME NEW l \in landings
      PROVE  /\ KindOf(l, o, t, at)
             /\ l.first <= l.stored /\ l.stored <= l.touch
             /\ l.touch <= now /\ l.found <= now
  <2>1. l.touch \in Nat
    BY <1>1, LandingTimes
  <2> QED
    BY <2>1 DEF LandingInv, KindOf
<1> QED
  BY <1>1, <1>2 DEF FoundAt

LEMMA DetectKinds ==
  ASSUME TypeOK, LandingInv, NEW o \in Aircraft, NEW t \in Time, NEW at \in Time,
         NEW ls \in Detect(o, t, at)
  PROVE  FoundAt(ls, o, t, at)
<1> DEFINE Fine(l) == /\ KindOf(l, o, t, at)
                      /\ l.first <= l.stored /\ l.stored <= l.touch
                      /\ l.touch <= now \/ l.touch <= t
                      /\ l.found <= now \/ l.found <= at
<1>1. \A l \in landings : Fine(l)
  BY SameKinds DEF FoundAt
<1>2. landings \subseteq Landing /\ ls \subseteq Landing
  BY Detected DEF TypeOK
<1>3. t \in Nat /\ at \in Nat
  BY Numbers
<1>4. ASSUME NEW n \in Found(o, t, at) PROVE Fine(n)
  <2>1. /\ n.obj = o /\ n.first \in Recent(t) /\ n.touch \in Recent(t) /\ n.stored = n.touch
        /\ n.first <= n.touch /\ n.found = at
    BY DEF Found
  <2>2. t - Buffer <= n.first /\ n.touch <= t /\ n.first \in Nat /\ n.touch \in Nat
    BY <2>1, Numbers DEF Recent
  <2> QED
    BY <1>3, <2>1, <2>2, Numbers DEF KindOf
<1>5. ASSUME NEW l \in landings, l.obj = o, l.touch < t, t - l.first <= Buffer,
             NEW n, n = [l EXCEPT !.touch = t]
      PROVE  Fine(n)
  <2>0. l \in Landing
    BY <1>2
  <2>1. /\ n.obj = l.obj /\ n.ship = l.ship /\ n.first = l.first /\ n.touch = t
        /\ n.stored = l.stored /\ n.found = l.found
    BY <1>5, <2>0 DEF Landing
  <2>2. l.first \in Nat /\ l.touch \in Nat /\ l.stored \in Nat
    BY <2>0, LandingTimes
  <2>3. l.first <= l.stored /\ l.stored <= l.touch /\ l.found <= now
    BY DEF LandingInv
  <2>4. l.first >= t - Buffer
    BY <1>3, <1>5, <2>2, Numbers
  <2>5. KindOf(n, o, t, at)
    BY <1>3, <1>5, <2>1, <2>2, <2>4 DEF KindOf
  <2>6. n.first <= n.stored /\ n.stored <= n.touch /\ n.touch <= t /\ n.found <= now
    BY <1>3, <1>5, <2>1, <2>2, <2>3
  <2> QED
    BY <2>5, <2>6
<1>6. ASSUME NEW l \in landings, NEW n, n = [l EXCEPT !.stored = l.touch]
      PROVE  Fine(n)
  <2>0. l \in Landing
    BY <1>2
  <2>1. /\ n.obj = l.obj /\ n.ship = l.ship /\ n.first = l.first /\ n.touch = l.touch
        /\ n.stored = l.touch /\ n.found = l.found
    BY <1>6, <2>0 DEF Landing
  <2>2. l.first \in Nat /\ l.touch \in Nat /\ l.stored \in Nat
    BY <2>0, LandingTimes
  <2>3. l.first <= l.stored /\ l.stored <= l.touch /\ l.touch <= now /\ l.found <= now
    BY DEF LandingInv
  <2>4. KindOf(n, o, t, at)
    BY <2>1, <2>2 DEF KindOf
  <2> QED
    BY <2>1, <2>2, <2>3, <2>4
<1> HIDE DEF Fine
<1>7. \A l \in ls : Fine(l)
  <2>1. \/ ls = landings
        \/ \E n \in Found(o, t, at) : ls = landings \cup {n}
        \/ \E l \in landings : /\ l.obj = o /\ l.touch < t /\ t - l.first <= Buffer
                               /\ ls = (landings \ {l}) \cup {[l EXCEPT !.touch = t]}
        \/ \E l \in landings : ls = (landings \ {l}) \cup {[l EXCEPT !.stored = l.touch]}
    BY DEF Detect, Instead
  <2> QED
    BY <1>1, <1>4, <1>5, <1>6, <2>1
<1> QED
  BY <1>2, <1>7 DEF FoundAt, Fine

\* What a pass at t relies on: the rows that are in time for its landings are
\* accounted for, or within a window and still to be queued, no later than the
\* history reaches unless an earlier window has them; and the landings are
\* within windows.
Ready(p, u, t) ==
  \/ Has(p, u)
  \/ /\ u \in history[p] /\ u > through[p]
     /\ (\E w \in windows[p] : In(u, w)) \/ u >= t - (Lead + Trail)
PassInv(ls, ws, t) ==
  /\ ws \in [Objects -> SUBSET (Int \X Int)] /\ Apart(ws)
  /\ \A l \in ls : \A p \in Targets(l) \ Recycled : \A u \in seen[p] :
       Owned(l, u) => Has(p, u) \/ (Ready(p, u, t) /\ \E w \in ws[p] : In(u, w))
  /\ \A l \in ls : \A p \in Targets(l) \ Recycled :
       \/ keepAll \/ l.touch + Trail <= now \/ (p \notin alive /\ seen[p] # {})
       \/ \E w \in ws[p] : w[1] <= l.first - Lead /\ l.touch + Trail <= w[2]

LEMMA PassNone ==
  ASSUME RowInv, LiveInv, NEW t
  PROVE  PassInv(landings, windows, t)
<1>1. \A l \in landings : \A p \in Targets(l) \ Recycled : \A u \in seen[p] :
        Owned(l, u) => Has(p, u) \/ (Ready(p, u, t) /\ \E w \in windows[p] : In(u, w))
  BY DEF LiveInv, CoverInv, Waiting, Ready
<1> QED
  BY <1>1 DEF RowInv, TypeOK, LiveInv, WindowInv, OpenInv, PassInv

\* The rows that are in time for a landing of a pass are still to be had.
LEMMA Reach ==
  ASSUME RowInv, LandingInv, LiveInv, ~keepAll, NEW o, NEW t \in Time, now - 1 <= t,
         NEW at \in Time, now <= at, t <= at,
         NEW ls, FoundAt(ls, o, t, at), NEW l \in ls, l.obj = o, l.first >= t - Buffer,
         NEW p \in Targets(l) \ Recycled, NEW u \in seen[p], Owned(l, u)
  PROVE  Ready(p, u, t)
<1>1. l \in Landing
  BY DEF FoundAt
<1>2. p \in Moving /\ p \in Objects /\ l.first \in Nat /\ l.touch \in Nat
  BY <1>1, LandingTimes
<1>3. u \in Int /\ t \in Int /\ now \in Int /\ through[p] \in Int /\ at \in Int
  BY <1>2, Numbers DEF RowInv, TypeOK
<1>4. ~WrittenAtOnce(p)
  BY <1>2, RetentionAssumption DEF WrittenAtOnce, Moving
<1>5. CASE u >= now - (Lead + Trail) /\ u >= t - (Lead + Trail)
  <2>1. ~(u < now - (Lead + Trail))
    BY <1>3, <1>5, Numbers
  <2>2. Has(p, u) \/ u \in history[p]
    BY <1>2, <1>4, <2>1 DEF LiveInv, HistoryInv
  <2>3. Has(p, u) \/ ~(u <= through[p])
    BY <1>2, <2>1, <2>2 DEF LiveInv, SkipInv
  <2> QED
    BY <1>3, <1>5, <2>2, <2>3 DEF Ready
<1>6. CASE l.found = at
  <2>1. at - (Lead + Trail) <= u
    BY <1>6 DEF Owned
  <2>2. u >= now - (Lead + Trail) /\ u >= t - (Lead + Trail)
    BY <1>3, <2>1, Numbers
  <2> QED
    BY <1>5, <2>2
<1>7. ASSUME NEW m \in landings, m.obj = l.obj, m.ship = l.ship, m.first = l.first,
             m.found = l.found, m.touch <= l.touch
      PROVE  Ready(p, u, t)
  <2>1. m \in Landing /\ p \in Targets(m)
    BY <1>7 DEF RowInv, TypeOK, Targets
  <2>2. m.touch \in Nat /\ m.first \in Nat
    BY <2>1, LandingTimes
  <2>3. CASE u < m.touch + Trail
    <3>1. Owned(m, u)
      BY <1>7, <2>3 DEF Owned
    <3>2. Has(p, u) \/ Waiting(p, u)
      BY <1>7, <2>1, <3>1 DEF LiveInv, CoverInv
    <3> QED
      BY <3>2 DEF Ready, Waiting
  <2>4. CASE u >= m.touch + Trail
    <3>1. m.first <= m.touch
      <4>1. m.first <= m.stored /\ m.stored <= m.touch /\ m.stored \in Nat
        BY <2>1, LandingTimes DEF LandingInv
      <4> QED
        BY <2>2, <4>1
    <3>2. Buffer + 1 <= Lead + Trail + Trail
      BY Numbers, RetentionTimes DEF Lead, Trail
    <3>3. u >= t - Buffer + Trail
      BY <1>3, <1>7, <2>2, <2>4, <3>1, Numbers
    <3>4. u >= t + 1 - (Lead + Trail)
      BY <1>3, <3>2, <3>3, Numbers
    <3>5. u >= now - (Lead + Trail) /\ u >= t - (Lead + Trail)
      BY <1>3, <3>4, Numbers
    <3> QED
      BY <1>5, <3>5
  <2>5. u < m.touch + Trail \/ u >= m.touch + Trail
    BY <1>3, <2>2, Numbers
  <2> QED
    BY <2>3, <2>4, <2>5
<1> QED
  BY <1>6, <1>7 DEF FoundAt, KindOf

LEMMA PassFound ==
  ASSUME RowInv, LandingInv, LiveInv, NEW o, NEW t \in Time, now - 1 <= t,
         NEW at \in Time, now <= at, t <= at, NEW ls, FoundAt(ls, o, t, at)
  PROVE  PassInv(ls, RetainLandings(windows, EventsOf(ls, o, t)), t)
<1> DEFINE events == EventsOf(ls, o, t)
<1>1. PICK ws : ws = RetainLandings(windows, events)
  OBVIOUS
<1>2. \A l \in events : l \in ls /\ l.obj = o /\ l.first >= t - Buffer
  BY DEF EventsOf
<1>3. \A l \in ls : l \in Landing
  BY DEF FoundAt
<1>4. \A l \in ls : l.first <= l.touch
  <2> SUFFICES ASSUME NEW l \in ls PROVE l.first <= l.touch
    OBVIOUS
  <2>1. l.first <= l.stored /\ l.stored <= l.touch
    BY DEF FoundAt
  <2> QED
    BY <1>3, <2>1, LandingTimes
<1>5. \A l \in ls : l.obj = o /\ l.first >= t - Buffer => l \in events
  BY DEF EventsOf
<1> HIDE DEF events
<1>6. TypeOK /\ WindowInv
  BY DEF RowInv, LiveInv
<1>7. /\ ws \in [Objects -> SUBSET (Int \X Int)]
      /\ Apart(ws)
      /\ \A p \in Objects : \A w \in windows[p] : \E m \in ws[p] : m[1] <= w[1] /\ w[2] <= m[2]
      /\ ~keepAll => \A l \in events : \A p \in Targets(l) \cap Objects :
           \E m \in ws[p] : m[1] <= l.first - Lead /\ l.touch + Trail <= m[2]
  <2>1. events \subseteq Landing /\ \A l \in events : l.first <= l.touch
    BY <1>2, <1>3, <1>4
  <2> QED
    BY <1>1, <1>6, <2>1, RetainSpans
<1>8. \A p \in Objects : seen[p] \subseteq Int /\ windows[p] \subseteq Int \X Int /\ ws[p] \subseteq Int \X Int
  <2>1. seen \in [Objects -> SUBSET Time] /\ windows \in [Objects -> SUBSET (Int \X Int)]
    BY <1>6 DEF TypeOK
  <2>2. \A p \in Objects : windows[p] \subseteq Int \X Int /\ ws[p] \subseteq Int \X Int
    BY <1>7, <2>1
  <2>3. Time \subseteq Int
    BY Numbers
  <2>4. \A p \in Objects : seen[p] \subseteq Int
    BY <2>1, <2>3
  <2> QED
    BY <2>2, <2>4
<1>10. ASSUME ~keepAll, NEW l \in ls, l.obj = o, l.first >= t - Buffer, NEW p \in Targets(l)
       PROVE  \E w \in ws[p] : w[1] <= l.first - Lead /\ l.touch + Trail <= w[2]
  <2>1. p \in Objects /\ l \in events
    BY <1>3, <1>5, <1>10, LandingTimes
  <2> QED
    BY <1>7, <1>10, <2>1
<1>11. ASSUME NEW p \in Objects, NEW u \in seen[p], NEW w \in windows[p], In(u, w)
       PROVE  \E m \in ws[p] : In(u, m)
  <2>1. PICK m \in ws[p] : m[1] <= w[1] /\ w[2] <= m[2]
    BY <1>7
  <2>2. u \in Int /\ m[1] \in Int /\ m[2] \in Int /\ w[1] \in Int /\ w[2] \in Int
    BY <1>8
  <2>3. In(u, m)
    BY <1>11, <2>1, <2>2 DEF In
  <2> QED
    BY <2>3
<1>12. ASSUME NEW l \in ls
       PROVE  \/ l.obj = o /\ l.first >= t - Buffer
              \/ \E m \in landings : /\ Targets(m) = Targets(l) /\ m.first = l.first
                                     /\ m.touch = l.touch /\ m.found = l.found
  BY DEF FoundAt, KindOf, Targets
<1>13. ASSUME NEW l \in ls, NEW p \in Targets(l) \ Recycled, NEW u \in seen[p], Owned(l, u)
       PROVE  Has(p, u) \/ (Ready(p, u, t) /\ \E w \in ws[p] : In(u, w))
  <2>0. p \in Objects /\ u \in Int /\ l.first \in Nat /\ l.touch \in Nat
    BY <1>3, <1>8, LandingTimes
  <2>1. CASE keepAll
    <3>1. WrittenAtOnce(p)
      BY <2>1 DEF WrittenAtOnce
    <3> QED
      BY <2>0, <3>1 DEF LiveInv, HistoryInv
  <2>2. CASE ~keepAll /\ l.obj = o /\ l.first >= t - Buffer
    <3>1. PICK w \in ws[p] : w[1] <= l.first - Lead /\ l.touch + Trail <= w[2]
      BY <1>10, <2>2
    <3>2. w[1] \in Int /\ w[2] \in Int
      BY <1>8, <2>0
    <3>3. In(u, w)
      BY <1>13, <2>0, <3>1, <3>2, Numbers DEF In, Owned
    <3>4. Ready(p, u, t)
      BY <1>13, <2>2, Reach
    <3> QED
      BY <3>3, <3>4
  <2>3. ASSUME NEW m \in landings, Targets(m) = Targets(l), m.first = l.first, m.touch = l.touch,
               m.found = l.found
        PROVE  Has(p, u) \/ (Ready(p, u, t) /\ \E w \in ws[p] : In(u, w))
    <3>1. Owned(m, u)
      BY <1>13, <2>3 DEF Owned
    <3>2. Has(p, u) \/ Waiting(p, u)
      BY <2>3, <3>1 DEF LiveInv, CoverInv
    <3>3. Waiting(p, u) => Ready(p, u, t) /\ \E w \in ws[p] : In(u, w)
      BY <1>11, <2>0 DEF Waiting, Ready
    <3> QED
      BY <3>2, <3>3
  <2> QED
    BY <1>12, <2>1, <2>2, <2>3
<1>14. ASSUME NEW l \in ls, NEW p \in Targets(l) \ Recycled
       PROVE  \/ keepAll \/ l.touch + Trail <= now \/ (p \notin alive /\ seen[p] # {})
              \/ \E w \in ws[p] : w[1] <= l.first - Lead /\ l.touch + Trail <= w[2]
  <2>1. CASE ~keepAll /\ l.obj = o /\ l.first >= t - Buffer
    BY <1>10, <2>1
  <2>2. ASSUME NEW m \in landings, Targets(m) = Targets(l), m.first = l.first, m.touch = l.touch
        PROVE  \/ keepAll \/ l.touch + Trail <= now \/ (p \notin alive /\ seen[p] # {})
               \/ \E w \in ws[p] : w[1] <= l.first - Lead /\ l.touch + Trail <= w[2]
    <3>1. \/ keepAll \/ m.touch + Trail <= now \/ (p \notin alive /\ seen[p] # {})
          \/ \E w \in windows[p] : w[1] <= m.first - Lead /\ m.touch + Trail <= w[2]
      BY <2>2 DEF LiveInv, OpenInv
    <3>2. ASSUME NEW w \in windows[p], w[1] <= m.first - Lead, m.touch + Trail <= w[2]
          PROVE  \E x \in ws[p] : x[1] <= l.first - Lead /\ l.touch + Trail <= x[2]
      <4>1. p \in Objects /\ l.first \in Nat /\ l.touch \in Nat
        BY <1>3, LandingTimes
      <4>2. PICK x \in ws[p] : x[1] <= w[1] /\ w[2] <= x[2]
        BY <1>7, <4>1
      <4>3. x[1] \in Int /\ x[2] \in Int /\ w[1] \in Int /\ w[2] \in Int
        BY <1>8, <4>1
      <4>4. x[1] <= l.first - Lead /\ l.touch + Trail <= x[2]
        BY <2>2, <3>2, <4>1, <4>2, <4>3, Numbers
      <4> QED
        BY <4>4
    <3> QED
      BY <2>2, <3>1, <3>2
  <2> QED
    BY <1>12, <2>1, <2>2
<1> QED
  BY <1>1, <1>7, <1>13, <1>14 DEF PassInv, events

--------------------------------------------------------------------------------
(* What a row that arrives leaves.                                         *)

LEMMA ArrivedFacts ==
  ASSUME RowInv, LiveInv, NEW o \in Objects, NEW t \in Time, Arrives(o, t),
         NEW ws, Writes(o, t, ws), NEW ls, PassInv(ls, ws, t),
         NEW p \in Objects \ Recycled, NEW u \in seen'[p], u \in seen[p] => Ready(p, u, t),
         NEW w \in ws[p], In(u, w)
  PROVE  \/ <<p, u>> \in Queued' \cup tracks' \cup lost'
         \/ u \in history'[p] /\ u > MarksOf(o, t)[p] /\ w[2] > t
<1>0. PICK times : times = DueNow(o, t, ws)
  OBVIOUS
<1>1. /\ times \in [Objects -> SUBSET Time]
      /\ \A v \in ws[p] : u \in history'[p] /\ u > MarksOf(o, t)[p] /\ v[2] <= t /\ In(u, v)
                            => u \in times[p]
      /\ Queued' \cup tracks' \cup lost'
           = Queued \cup ({o} \X OnTheWayOut(o, t)) \cup RowsOf(times) \cup tracks \cup lost
               \cup AtOnce(o, t)
  BY <1>0, UpdateWrites
<1>2. /\ seen' = [seen EXCEPT ![o] = @ \cup {t}] /\ seen \in [Objects -> SUBSET Time]
      /\ through \in [Objects -> Int] /\ windows \in [Objects -> SUBSET (Int \X Int)]
      /\ ws \in [Objects -> SUBSET (Int \X Int)]
  BY DEF Arrives, RowInv, TypeOK, PassInv
<1>3. seen'[p] \subseteq Time /\ u \in Time /\ u \in Int /\ t \in Int /\ w[2] \in Int
      /\ (u \in seen[p] \/ (p = o /\ u = t))
  <2>1. Time \subseteq Int
    BY Numbers
  <2> QED
    BY <1>2, <2>1
<1>4. /\ \A x \in OnTheWayOut(o, t) : x < t - RetentionHistory
      /\ MarksOf(o, t)[o] \in OnTheWayOut(o, t) \cup {through[o]}
      /\ \A x \in Objects : x # o => MarksOf(o, t)[x] = through[x]
      /\ MarksOf(o, t) \in [Objects -> Int]
      /\ OnTheWayOut(o, t) \subseteq history[o] /\ OnTheWayOut(o, t) \subseteq Time
      /\ \A x \in seen[o] : x < t
  BY WayOut
<1>5. /\ \A x \in Objects : x # o => history'[x] = history[x]
      /\ ~WrittenAtOnce(o) => \A v : v \in history'[o] <=>
           v \in history[o] \cup {t} /\ v >= t - RetentionHistory
  BY WayOut
<1>6. RetentionHistory \in Nat /\ RetentionHistory >= Lead + Trail /\ Lead + Trail \in Nat
  BY Spans, Numbers
<1>7. /\ \A x \in Objects : WrittenAtOnce(x) => history[x] = {}
      /\ through[o] \in seen[o] \cup {-1}
  BY DEF RowInv, SeenInv
<1> HIDE DEF RowsOf
<1>8. \/ <<p, u>> \in Queued' \cup tracks' \cup lost'
      \/ u \in history'[p] /\ u > MarksOf(o, t)[p]
  <2>1. CASE u \in seen[p]
    <3>1. Ready(p, u, t)
      BY <2>1
    <3>2. CASE Has(p, u)
      BY <1>1, <3>2 DEF Has
    <3>3. CASE /\ u \in history[p] /\ u > through[p]
               /\ (\E x \in windows[p] : In(u, x)) \/ u >= t - (Lead + Trail)
      <4>1. CASE p # o
        BY <1>4, <1>5, <3>3, <4>1
      <4>2. CASE p = o /\ u < t - RetentionHistory
        <5>1. ~(u >= t - (Lead + Trail))
          BY <1>3, <1>6, <4>2
        <5>2. u \in OnTheWayOut(o, t)
          BY <1>7, <3>3, <4>2, <5>1 DEF OnTheWayOut, Leaving, Held
        <5> QED
          BY <1>1, <4>2, <5>2
      <4>3. CASE p = o /\ u >= t - RetentionHistory
        <5>2. u \in history'[p]
          BY <1>5, <1>7, <3>3, <4>3
        <5>3. u > MarksOf(o, t)[p]
          <6>1. CASE MarksOf(o, t)[o] = through[o]
            BY <3>3, <4>3, <6>1
          <6>2. CASE MarksOf(o, t)[o] \in OnTheWayOut(o, t)
            <7>1. MarksOf(o, t)[o] < t - RetentionHistory /\ MarksOf(o, t)[o] \in Int
              BY <1>4, <6>2
            <7> QED
              BY <1>3, <1>6, <4>3, <7>1
          <6> QED
            BY <1>4, <6>1, <6>2
        <5> QED
          BY <5>2, <5>3
      <4>4. u < t - RetentionHistory \/ u >= t - RetentionHistory
        BY <1>3, <1>6
      <4> QED
        BY <4>1, <4>2, <4>3, <4>4
    <3> QED
      BY <3>1, <3>2, <3>3 DEF Ready
  <2>2. CASE p = o /\ u = t
    <3>1. CASE WrittenAtOnce(o)
      BY <1>1, <2>2, <3>1 DEF AtOnce
    <3>2. CASE ~WrittenAtOnce(o)
      <4>1. t >= t - RetentionHistory
        BY <1>3, <1>6
      <4>2. u \in history'[p]
        BY <1>5, <2>2, <3>2, <4>1
      <4>3. through[o] < t
        <5>1. t \in Nat
          BY Numbers
        <5>2. CASE through[o] \in seen[o]
          BY <1>4, <5>2
        <5>3. CASE through[o] = -1
          BY <5>1, <5>3
        <5> QED
          BY <1>7, <5>2, <5>3
      <4>4. \A x \in OnTheWayOut(o, t) : x < t
        <5> SUFFICES ASSUME NEW x \in OnTheWayOut(o, t) PROVE x < t
          OBVIOUS
        <5>1. x < t - RetentionHistory /\ x \in Time
          BY <1>4
        <5>2. x \in Int
          BY <5>1, Numbers
        <5> QED
          BY <1>3, <1>6, <5>1, <5>2
      <4>5. MarksOf(o, t)[o] < t /\ MarksOf(o, t)[o] \in Int
        BY <1>4, <4>3, <4>4
      <4> QED
        BY <1>3, <2>2, <4>2, <4>5
    <3> QED
      BY <3>1, <3>2
  <2> QED
    BY <1>3, <2>1, <2>2
<1>9. u \in times[p] => <<p, u>> \in Queued' \cup tracks' \cup lost'
  BY <1>1, <1>3 DEF RowsOf
<1>10. w[2] <= t \/ w[2] > t
  BY <1>3
<1> QED
  BY <1>1, <1>8, <1>9, <1>10

LEMMA ArrivedFrame ==
  ASSUME RowInv, LandingInv, LiveInv, NEW o \in Objects, NEW t \in Time, Arrives(o, t),
         FoundAt(landings', o, t, t)
  PROVE  FrameInv' /\ LandingInv'
<1>1. /\ now' = t /\ alive' = alive \cup {o} /\ t \in {now, now + 1}
      /\ seen' = [seen EXCEPT ![o] = @ \cup {t}] /\ seen \in [Objects -> SUBSET Time]
      /\ alive \subseteq Objects
      /\ \A p \in alive \ Statics : t = 0 \/ {t - 1, t} \cap seen[p] # {}
  BY DEF Arrives, InFrame, RowInv, TypeOK
<1>2. now \in Nat /\ t \in Nat
  BY Numbers DEF RowInv, TypeOK
<1>3. ASSUME NEW p \in alive' \ Statics PROVE {now' - 1, now'} \cap seen'[p] # {}
  <2>1. CASE p = o
    BY <1>1, <2>1
  <2>2. CASE p # o /\ {t - 1, t} \cap seen[p] # {}
    BY <1>1, <2>2
  <2>3. CASE p # o /\ t = 0
    <3>1. now = 0 /\ p \in alive \ Statics /\ seen'[p] = seen[p]
      BY <1>1, <1>2, <2>3
    <3>2. {now - 1, now} \cap seen[p] # {}
      BY <3>1 DEF LiveInv, FrameInv
    <3> QED
      BY <1>1, <2>3, <3>1, <3>2
  <2> QED
    BY <1>1, <2>1, <2>2, <2>3
<1>4. ASSUME NEW l \in landings'
      PROVE  /\ l.first <= l.stored /\ l.stored <= l.touch /\ l.touch <= now'
             /\ l.found <= now'
  <2>1. /\ l \in Landing /\ l.first <= l.stored /\ l.stored <= l.touch
        /\ l.touch <= now \/ l.touch <= t
        /\ l.found <= now \/ l.found <= t
    BY DEF FoundAt
  <2>2. l.touch \in Nat /\ l.found \in Nat
    BY <2>1, LandingTimes
  <2> QED
    BY <1>1, <1>2, <2>1, <2>2
<1> QED
  BY <1>3, <1>4 DEF FrameInv, LandingInv

LEMMA ArrivedHistory ==
  ASSUME RowInv, LiveInv, NEW o \in Objects, NEW t \in Time, Arrives(o, t),
         NEW ws, Writes(o, t, ws), NEW ls, PassInv(ls, ws, t)
  PROVE  HistoryInv' /\ SkipInv'
<1>0. PICK times : times = DueNow(o, t, ws)
  OBVIOUS
<1>1. /\ times \in [Objects -> SUBSET Time]
      /\ \A p \in Objects : \A u : u \in times[p] <=>
           /\ u \in history'[p] /\ u > MarksOf(o, t)[p]
           /\ \E w \in ws[p] : w[2] <= t /\ In(u, w)
      /\ Queued' \cup tracks' \cup lost'
           = Queued \cup ({o} \X OnTheWayOut(o, t)) \cup RowsOf(times) \cup tracks \cup lost
               \cup AtOnce(o, t)
  BY <1>0, UpdateWrites
<1>2. /\ seen' = [seen EXCEPT ![o] = @ \cup {t}] /\ seen \in [Objects -> SUBSET Time]
      /\ through \in [Objects -> Int] /\ ws \in [Objects -> SUBSET (Int \X Int)]
      /\ now' = t /\ t \in {now, now + 1} /\ keepAll' = keepAll
  BY DEF Arrives, InFrame, RowInv, TypeOK, PassInv
<1>3. now \in Int /\ t \in Int /\ Time \subseteq Int /\ now <= t
  BY <1>2, Numbers DEF RowInv, TypeOK
<1>4. /\ \A x \in OnTheWayOut(o, t) : x < t - RetentionHistory
      /\ MarksOf(o, t)[o] \in OnTheWayOut(o, t) \cup {through[o]}
      /\ \A x \in Objects : x # o => MarksOf(o, t)[x] = through[x]
      /\ MarksOf(o, t) \in [Objects -> Int]
      /\ OnTheWayOut(o, t) \subseteq Time
      /\ \A x \in seen[o] : x < t
  BY WayOut
<1>5. /\ \A x \in Objects : x # o => history'[x] = history[x]
      /\ ~WrittenAtOnce(o) => \A v : v \in history'[o] <=>
           v \in history[o] \cup {t} /\ v >= t - RetentionHistory
      /\ \A x \in Objects : \A v \in history'[x] : v \in history[x] \/ (x = o /\ v = t)
  BY WayOut
<1>6. RetentionHistory \in Nat /\ RetentionHistory >= Lead + Trail /\ Lead + Trail \in Nat
  BY Spans, Numbers
<1> HIDE DEF RowsOf
<1>7. ASSUME NEW p \in Objects \ Recycled, NEW u \in seen'[p]
      PROVE  \/ <<p, u>> \in Queued' \cup tracks' \cup lost'
             \/ ~WrittenAtOnce(p) /\ (u \in history'[p] \/ u < now' - (Lead + Trail))
  <2>1. CASE u \in seen[p]
    <3>1. \/ Has(p, u)
          \/ ~WrittenAtOnce(p) /\ (u \in history[p] \/ u < now - (Lead + Trail))
      BY <2>1 DEF LiveInv, HistoryInv
    <3>2. u \in Int
      BY <1>2, <1>3, <2>1
    <3>3. u < now - (Lead + Trail) => u < now' - (Lead + Trail)
      BY <1>2, <1>3, <1>6, <3>2
    <3>4. u \in history[p] /\ ~WrittenAtOnce(p) => u \in history'[p] \/ u < now' - (Lead + Trail)
      BY <1>2, <1>3, <1>5, <1>6, <3>2
    <3>5. Has(p, u) => <<p, u>> \in Queued' \cup tracks' \cup lost'
      BY <1>1 DEF Has
    <3> QED
      BY <3>1, <3>3, <3>4, <3>5
  <2>2. CASE p = o /\ u = t
    <3>1. WrittenAtOnce(o) => <<p, u>> \in Queued' \cup tracks' \cup lost'
      BY <1>1, <2>2 DEF AtOnce
    <3>2. t >= t - RetentionHistory
      BY <1>3, <1>6
    <3> QED
      BY <1>5, <2>2, <3>1, <3>2
  <2> QED
    BY <1>2, <2>1, <2>2
<1>8. ASSUME NEW p \in Objects \ Recycled, NEW u \in history'[p], u <= through'[p]
      PROVE  <<p, u>> \in Queued' \cup tracks' \cup lost' \/ u < now' - (Lead + Trail)
  <2>0. /\ u \in Int /\ through[p] \in Int /\ MarksOf(o, t)[p] \in Int
        /\ through' \in [Objects -> Int] /\ through'[p] \in times[p] \cup {MarksOf(o, t)[p]}
    <3>1. through' \in [Objects -> Int] /\ through'[p] \in times[p] \cup {MarksOf(o, t)[p]}
      BY <1>0, UpdateMarks
    <3>2. history' \in [Objects -> SUBSET Time]
      BY WayOut
    <3> QED
      BY <1>2, <1>3, <1>4, <3>1, <3>2
  <2>1. CASE u <= through[p]
    <3>1. ~(p = o /\ u = t)
      <4> SUFFICES ASSUME p = o, u = t PROVE FALSE
        OBVIOUS
      <4>1. through[o] \in seen[o] \cup {-1}
        BY DEF RowInv, SeenInv
      <4>2. t \in Nat
        BY Numbers
      <4>3. through[o] < t
        <5>1. CASE through[o] = -1
          BY <4>2, <5>1
        <5> QED
          BY <1>4, <4>1, <5>1
      <4> QED
        BY <1>3, <2>0, <2>1, <4>3
    <3>2. u \in history[p]
      BY <1>5, <3>1
    <3>3. Has(p, u) \/ u < now - (Lead + Trail)
      BY <2>1, <3>2 DEF LiveInv, SkipInv
    <3>4. u < now - (Lead + Trail) => u < now' - (Lead + Trail)
      BY <1>2, <1>3, <1>6, <2>0
    <3>5. Has(p, u) => <<p, u>> \in Queued' \cup tracks' \cup lost'
      BY <1>1 DEF Has
    <3> QED
      BY <3>3, <3>4, <3>5
  <2>2. CASE u <= MarksOf(o, t)[p] /\ ~(u <= through[p])
    <3>1. p = o /\ MarksOf(o, t)[o] \in OnTheWayOut(o, t)
      BY <1>4, <2>2
    <3>2. MarksOf(o, t)[o] < t - RetentionHistory
      BY <1>4, <3>1
    <3>3. u < t - (Lead + Trail)
      BY <1>3, <1>6, <2>0, <2>2, <3>1, <3>2
    <3> QED
      BY <1>2, <3>3
  <2>3. CASE ~(u <= MarksOf(o, t)[p])
    <3>1. PICK m \in times[p] : m = through'[p]
      BY <1>8, <2>0, <2>3
    <3>2. PICK w \in ws[p] : w[2] <= t /\ In(m, w)
      BY <1>1
    <3>3. w[1] \in Int /\ w[2] \in Int /\ m \in Int /\ u <= m /\ w[1] + Lead + Trail <= w[2]
      <4>1. w[1] + Lead + Trail <= w[2]
        BY DEF PassInv, Apart, Fits
      <4>2. w \in Int \X Int
        BY <1>2
      <4>3. m = through'[p] /\ through'[p] \in Int
        BY <2>0, <3>1
      <4> QED
        BY <1>8, <4>1, <4>2, <4>3
    <3>4. CASE w[1] <= u
      <4>0. m <= w[2]
        BY <3>2 DEF In
      <4>1. In(u, w) /\ u > MarksOf(o, t)[p]
        <5>1. u <= w[2]
          BY <2>0, <3>3, <4>0
        <5>2. u > MarksOf(o, t)[p]
          BY <2>0, <2>3
        <5> QED
          BY <3>4, <5>1, <5>2 DEF In
      <4>2. u \in times[p]
        BY <1>1, <3>2, <4>1
      <4>3. <<p, u>> \in RowsOf(times)
        BY <1>1, <4>2 DEF RowsOf
      <4> QED
        BY <1>1, <4>3
    <3>5. CASE ~(w[1] <= u)
      <4>1. u < t - (Lead + Trail)
        BY <1>3, <2>0, <3>2, <3>3, <3>5, Numbers
      <4> QED
        BY <1>2, <4>1
    <3> QED
      BY <3>4, <3>5
  <2> QED
    BY <2>1, <2>2, <2>3
<1>9. HistoryInv'
  BY <1>2, <1>7 DEF HistoryInv, Has, WrittenAtOnce
<1>10. SkipInv'
  BY <1>8 DEF SkipInv, Has
<1> QED
  BY <1>9, <1>10

LEMMA ArrivedWindows ==
  ASSUME RowInv, LiveInv, NEW o \in Objects, NEW t \in Time, Arrives(o, t),
         NEW ws, Writes(o, t, ws), PassInv(landings', ws, t), landings' \subseteq Landing
  PROVE  WindowInv' /\ CoverInv' /\ OpenInv'
<1>0. PICK times : times = DueNow(o, t, ws)
  OBVIOUS
<1>1. /\ times \in [Objects -> SUBSET Time]
      /\ \A p \in Objects : \A u \in times[p] : \E w \in ws[p] : w[2] <= t /\ In(u, w)
      /\ windows' = [p \in Objects |-> ws[p] \ Due(ws[p], t)]
  BY <1>0, UpdateWrites
<1>2. /\ through' \in [Objects -> Int]
      /\ \A p \in Objects : through'[p] \in times[p] \cup {MarksOf(o, t)[p]}
  BY <1>0, UpdateMarks
<1>3. /\ seen' = [seen EXCEPT ![o] = @ \cup {t}] /\ seen \in [Objects -> SUBSET Time]
      /\ ws \in [Objects -> SUBSET (Int \X Int)] /\ Apart(ws)
      /\ now' = t /\ t \in {now, now + 1} /\ keepAll' = keepAll /\ alive' = alive \cup {o}
      /\ o \notin alive => seen[o] = {} \/ o \in Recycled
  BY DEF Arrives, InFrame, RowInv, TypeOK, PassInv
<1>4. now \in Int /\ t \in Int /\ Time \subseteq Int /\ now <= t
  BY <1>3, Numbers DEF RowInv, TypeOK
<1>5. /\ \A p \in Objects : seen'[p] \subseteq Int /\ ws[p] \subseteq Int \X Int
      /\ \A p \in Objects : \A u \in seen'[p] : u \in seen[p] \/ (p = o /\ u = t)
  BY <1>3, <1>4
<1>6. ASSUME NEW p \in Objects, NEW w \in ws[p] PROVE w[2] <= t \/ w \in windows'[p]
  BY <1>1 DEF Due
<1>7. ASSUME NEW p \in Objects, NEW w \in windows'[p] PROVE w \in ws[p] /\ w[2] > t
  <2>1. w \in ws[p] /\ ~(w[2] <= t)
    BY <1>1 DEF Due
  <2>2. w[2] \in Int
    BY <1>5, <2>1
  <2> QED
    BY <1>4, <2>1, <2>2
<1>8. WindowInv'
  BY <1>3, <1>7 DEF WindowInv, Apart
<1>9. ASSUME NEW p \in Objects \ Recycled, NEW w \in windows'[p], NEW u \in seen'[p], In(u, w),
             u \in seen[p] => Ready(p, u, t)
      PROVE  \/ <<p, u>> \in Queued' \cup tracks' \cup lost'
             \/ u \in history'[p] /\ u > through'[p]
  <2>1. w \in ws[p] /\ w[2] > t /\ w[1] \in Int /\ w[2] \in Int /\ u \in Int /\ w[1] <= u /\ u <= w[2]
    BY <1>5, <1>7, <1>9 DEF In
  <2>2. \/ <<p, u>> \in Queued' \cup tracks' \cup lost'
        \/ u \in history'[p] /\ u > MarksOf(o, t)[p]
    BY <1>9, <2>1, ArrivedFacts
  <2>3. CASE through'[p] \in times[p] /\ ~(u > through'[p])
    <3>1. PICK v \in ws[p] : v[2] <= t /\ v[1] <= through'[p] /\ through'[p] <= v[2]
      BY <1>1, <2>3 DEF In
    <3>2. v[1] \in Int /\ v[2] \in Int /\ through'[p] \in Int
      BY <1>2, <1>5
    <3>3. v[1] <= w[2] /\ w[1] <= v[2] /\ v # w
      BY <1>4, <2>1, <2>3, <3>1, <3>2
    <3> QED
      BY <1>3, <2>1, <3>3 DEF Apart
  <2> QED
    BY <1>2, <2>2, <2>3
<1>10. ASSUME NEW l \in landings', NEW p \in Targets(l) \ Recycled,
              ~keepAll, ~(l.touch + Trail <= now'), ~(p \notin alive' /\ seen'[p] # {})
       PROVE  \E w \in windows'[p] : w[1] <= l.first - Lead /\ l.touch + Trail <= w[2]
  <2>1. p \in Objects /\ l.touch \in Nat /\ l.first \in Nat
    BY LandingTimes
  <2>2. ~(l.touch + Trail <= now)
    BY <1>3, <1>4, <1>10, <2>1, Numbers
  <2>3. ~(p \notin alive /\ seen[p] # {})
    BY <1>3, <1>10, <2>1
  <2>4. PICK w \in ws[p] : w[1] <= l.first - Lead /\ l.touch + Trail <= w[2]
    BY <1>10, <2>2, <2>3 DEF PassInv
  <2>5. ~(w[2] <= t)
    <3>1. w[2] \in Int
      BY <1>5, <2>1
    <3> QED
      BY <1>3, <1>4, <1>10, <2>1, <2>4, <3>1, Numbers
  <2>6. w \in windows'[p]
    BY <1>6, <2>1, <2>5
  <2> QED
    BY <2>4, <2>6
<1>12. \A u \in seen[o] : u < t
  BY WayOut
<1>11. ASSUME NEW l \in landings', NEW p \in Targets(l) \ Recycled, NEW u \in seen'[p],
              Owned(l, u)
       PROVE  \/ <<p, u>> \in Queued' \cup tracks' \cup lost'
              \/ u \in history'[p] /\ u > through'[p] /\ \E w \in windows'[p] : In(u, w)
  <2>1. p \in Objects /\ l.touch \in Nat /\ l.first \in Nat /\ u \in Int
    <3>1. p \in Objects /\ l.touch \in Nat /\ l.first \in Nat
      BY LandingTimes
    <3> QED
      BY <1>5, <3>1
  <2>2. ASSUME NEW w \in ws[p], In(u, w), u \in seen[p] => Ready(p, u, t)
        PROVE  \/ <<p, u>> \in Queued' \cup tracks' \cup lost'
               \/ u \in history'[p] /\ u > through'[p] /\ \E v \in windows'[p] : In(u, v)
    <3>1. CASE w \in windows'[p]
      BY <1>9, <2>1, <2>2, <3>1
    <3>2. CASE w[2] <= t
      <4>1. ~(w[2] > t)
        BY <1>4, <1>5, <2>1, <3>2
      <4> QED
        BY <2>1, <2>2, <4>1, ArrivedFacts
    <3> QED
      BY <1>6, <2>1, <3>1, <3>2
  <2>3. CASE u \in seen[p]
    <3>1. CASE Has(p, u)
      <4>1. PICK x : x = DueNow(o, t, ws)
        OBVIOUS
      <4>2. Queued' \cup tracks' \cup lost'
              = Queued \cup ({o} \X OnTheWayOut(o, t)) \cup RowsOf(x) \cup tracks \cup lost
                  \cup AtOnce(o, t)
        BY <4>1, UpdateWrites
      <4> QED
        BY <3>1, <4>2 DEF Has
    <3>2. Has(p, u) \/ (Ready(p, u, t) /\ \E w \in ws[p] : In(u, w))
      BY <1>11, <2>3 DEF PassInv
    <3> QED
      BY <2>2, <3>1, <3>2
  <2>4. CASE p = o /\ u = t
    <3>1. CASE keepAll
      <4>1. PICK x : x = DueNow(o, t, ws)
        OBVIOUS
      <4>2. Queued' \cup tracks' \cup lost'
              = Queued \cup ({o} \X OnTheWayOut(o, t)) \cup RowsOf(x) \cup tracks \cup lost
                  \cup AtOnce(o, t)
        BY <4>1, UpdateWrites
      <4>3. <<p, u>> \in AtOnce(o, t)
        BY <2>4, <3>1 DEF AtOnce, WrittenAtOnce
      <4> QED
        BY <4>2, <4>3
    <3>2. CASE ~keepAll
      <4>1. ~(l.touch + Trail <= now')
        BY <1>3, <1>4, <1>11, <2>1, <2>4, Numbers DEF Owned
      <4>2. ~(p \notin alive' /\ seen'[p] # {})
        BY <1>3, <2>4
      <4>3. PICK w \in windows'[p] : w[1] <= l.first - Lead /\ l.touch + Trail <= w[2]
        BY <1>10, <3>2, <4>1, <4>2
      <4>4. w[1] \in Int /\ w[2] \in Int
        BY <1>5, <1>7, <2>1
      <4>5. In(u, w)
        BY <1>11, <2>1, <4>3, <4>4, Numbers DEF In, Owned
      <4>6. u \notin seen[p]
        BY <1>4, <1>12, <2>4
      <4> QED
        BY <1>7, <1>9, <1>12, <2>1, <2>4, <4>3, <4>5, <4>6
    <3> QED
      BY <3>1, <3>2
  <2> QED
    BY <1>5, <2>1, <2>3, <2>4
<1>13. CoverInv'
  BY <1>11 DEF CoverInv, Waiting, Has, Owned
<1>14. OpenInv'
  BY <1>3, <1>10 DEF OpenInv
<1> QED
  BY <1>8, <1>13, <1>14

LEMMA UpdateLive ==
  ASSUME RowInv, LandingInv, LiveInv, NEW o \in Objects, Update(o)
  PROVE  LandingInv' /\ LiveInv'
<1>1. PICK t \in Time :
        /\ Arrives(o, t)
        /\ \/ Writes(o, t, windows) /\ landings' = landings
           \/ /\ o \in Aircraft
              /\ \E ls \in Detect(o, t, t) :
                   landings' = ls /\ Writes(o, t, RetainLandings(windows, EventsOf(ls, o, t)))
  BY UpdateSplit
<1>2. TypeOK /\ now - 1 <= t /\ now <= t /\ t <= t
  <2>1. now \in Int /\ t \in {now, now + 1} /\ TypeOK
    BY <1>1, Numbers DEF Arrives, InFrame, RowInv, TypeOK
  <2> QED
    BY <2>1
<1>3. PICK ws : /\ Writes(o, t, ws) /\ PassInv(landings', ws, t) /\ FoundAt(landings', o, t, t)
  <2>1. CASE Writes(o, t, windows) /\ landings' = landings
    BY <1>2, <2>1, PassNone, SameKinds
  <2>2. ASSUME o \in Aircraft, NEW ls \in Detect(o, t, t), landings' = ls,
               Writes(o, t, RetainLandings(windows, EventsOf(ls, o, t)))
        PROVE  \E ws : /\ Writes(o, t, ws) /\ PassInv(landings', ws, t) /\ FoundAt(landings', o, t, t)
    <3>1. FoundAt(ls, o, t, t)
      BY <1>2, <2>2, DetectKinds
    <3>2. PassInv(ls, RetainLandings(windows, EventsOf(ls, o, t)), t)
      BY <1>2, <3>1, PassFound
    <3> QED
      BY <2>2, <3>1, <3>2
  <2> QED
    BY <1>1, <2>1, <2>2
<1>4. landings' \subseteq Landing
  BY <1>3 DEF FoundAt
<1>5. FrameInv' /\ LandingInv'
  BY <1>1, <1>3, ArrivedFrame
<1>6. HistoryInv' /\ SkipInv'
  BY <1>1, <1>3, ArrivedHistory
<1>7. WindowInv' /\ CoverInv' /\ OpenInv'
  BY <1>1, <1>3, <1>4, ArrivedWindows
<1> QED
  BY <1>5, <1>6, <1>7 DEF LiveInv

--------------------------------------------------------------------------------
(* An object goes away, or the ingestor is closed: what its windows have.  *)

LEMMA FlushedFacts ==
  ASSUME RowInv, NEW ls, NEW ws, NEW t, PassInv(ls, ws, t),
         NEW objs, NEW freed, freed \subseteq AnyRow,
         WriteWindows(DueRows(history, ws, through, objs, Everything), ws, objs, Everything,
                      pending, {}, freed)
  PROVE  /\ \A p \in objs : p \in Objects => \A w \in ws[p] : \A u \in seen[p] :
              In(u, w) /\ Ready(p, u, t) => <<p, u>> \in Queued' \cup tracks' \cup lost'
         /\ \A p \in Objects : windows'[p] = IF p \in objs THEN {} ELSE ws[p]
         /\ \A row \in Queued \cup tracks \cup lost : row \in Queued' \cup tracks' \cup lost'
         /\ freed \subseteq Queued' \cup tracks' \cup lost'
<1>0. PICK times : times = DueRows(history, ws, through, objs, Everything)
  OBVIOUS
<1>1. /\ times \in [Objects -> SUBSET Time]
      /\ \A p \in Objects : \A u : u \in times[p] <=>
           /\ p \in objs /\ u \in history[p] /\ u > through[p]
           /\ \E w \in ws[p] : w[2] <= Everything /\ In(u, w)
      /\ Queued' \cup tracks' \cup lost' = Queued \cup RowsOf(times) \cup tracks \cup lost \cup freed
      /\ windows' = [p \in Objects |-> IF p \in objs THEN ws[p] \ Due(ws[p], Everything) ELSE ws[p]]
  BY <1>0, FlushWrites
<1>2. Everything = MaxTime + Trail
  BY Numbers DEF Everything, Trail
<1>3. \A p \in Objects : \A w \in ws[p] : w[2] <= Everything
  BY <1>2 DEF PassInv, Apart, Fits
<1>4. \A p \in Objects : windows'[p] = IF p \in objs THEN {} ELSE ws[p]
  BY <1>1, <1>3 DEF Due
<1>5. ASSUME NEW p \in Objects, p \in objs, NEW w \in ws[p], NEW u \in seen[p], In(u, w),
             Ready(p, u, t)
      PROVE  <<p, u>> \in Queued' \cup tracks' \cup lost'
  <2>2. CASE Has(p, u)
    BY <1>1, <2>2 DEF Has
  <2>3. CASE u \in history[p] /\ u > through[p]
    <3>1. u \in times[p]
      BY <1>1, <1>3, <1>5, <2>3
    <3>2. <<p, u>> \in RowsOf(times)
      BY <1>1, <3>1 DEF RowsOf
    <3> QED
      BY <1>1, <3>2
  <2> QED
    BY <1>5, <2>2, <2>3 DEF Ready
<1>6. /\ \A row \in Queued \cup tracks \cup lost : row \in Queued' \cup tracks' \cup lost'
      /\ freed \subseteq Queued' \cup tracks' \cup lost'
  BY <1>1
<1> QED
  BY <1>4, <1>5, <1>6

LEMMA VanishLive ==
  ASSUME RowInv, LandingInv, LiveInv, NEW o \in Objects, Vanish(o)
  PROVE  LandingInv' /\ LiveInv'
<1>1. PICK ls, ws :
        /\ landings' = ls /\ ls \subseteq Landing
        /\ ws \in [Objects -> SUBSET (Int \X Int)]
        /\ Newest(seen[o]) \in seen[o] /\ Newest(seen[o]) \in Time
        /\ \A u \in seen[o] : u <= Newest(seen[o])
        /\ IF o \in Aircraft THEN ls \in Detect(o, Newest(seen[o]), now) ELSE ls = landings
        /\ ws = RetainLandings(windows, EventsOf(ls, o, Newest(seen[o])))
        /\ WriteWindows(DueRows(history, ws, through, {o}, Everything), ws, {o}, Everything,
                        pending, {}, {o} \X Unclaimed(o, ls))
  BY VanishSplit
<1>2. PICK t \in Time : t = Newest(seen[o])
  BY <1>1
<1>3. /\ o \in alive /\ alive' = alive \ {o} /\ UNCHANGED <<keepAll, now, seen>>
      /\ \A p \in Objects : /\ p # o => history'[p] = history[p] /\ through'[p] = through[p]
                            /\ p = o => history'[p] = {}
  BY DEF Vanish, RowInv, TypeOK
<1>4. now \in Time /\ now \in Int /\ t \in Int /\ seen \in [Objects -> SUBSET Time] /\ Time \subseteq Int
  BY Numbers DEF RowInv, TypeOK
<1>5. t <= now /\ now <= now
  BY <1>1, <1>2, <1>4 DEF RowInv, SeenInv
<1>6. FoundAt(ls, o, t, now) /\ \E x : PassInv(ls, ws, x)
  <2>1. CASE o \in Aircraft
    <3>1. now - 1 <= t
      <4>1. {now - 1, now} \cap seen[o] # {}
        BY <1>3, <2>1, RetentionAssumption DEF LiveInv, FrameInv
      <4>2. now - 1 <= t \/ now <= t
        BY <1>1, <1>2, <4>1
      <4> QED
        BY <1>4, <4>2
    <3>2. FoundAt(ls, o, t, now)
      BY <1>1, <1>2, <1>4, <2>1, DetectKinds DEF RowInv
    <3> QED
      BY <1>1, <1>2, <1>4, <1>5, <3>1, <3>2, PassFound
  <2>2. CASE o \notin Aircraft
    <3>1. FoundAt(ls, o, t, now) /\ FoundAt(ls, o, now, now)
      BY <1>1, <2>2, SameKinds DEF RowInv
    <3>2. EventsOf(ls, o, t) = EventsOf(ls, o, now)
      <4>1. \A l \in ls : l.obj # o
        BY <1>1, <2>2, LandingTimes
      <4> QED
        BY <4>1 DEF EventsOf
    <3>3. now - 1 <= now
      BY <1>4
    <3>4. PassInv(ls, RetainLandings(windows, EventsOf(ls, o, now)), now)
      BY <1>4, <1>5, <3>1, <3>3, PassFound
    <3> QED
      BY <1>1, <1>2, <3>1, <3>2, <3>4
  <2> QED
    BY <2>1, <2>2
<1>7. PICK x : PassInv(ls, ws, x)
  BY <1>6
<1>8. {o} \X Unclaimed(o, ls) \subseteq AnyRow
  BY DEF Unclaimed, AnyRow, RowInv, TypeOK
<1>9. /\ \A w \in ws[o] : \A u \in seen[o] :
           In(u, w) /\ Ready(o, u, x) => <<o, u>> \in Queued' \cup tracks' \cup lost'
      /\ \A p \in Objects : windows'[p] = IF p = o THEN {} ELSE ws[p]
      /\ \A row \in Queued \cup tracks \cup lost : row \in Queued' \cup tracks' \cup lost'
      /\ \A u \in Unclaimed(o, ls) : <<o, u>> \in Queued' \cup tracks' \cup lost'
  <2>1. PICK objs : objs = {o}
    OBVIOUS
  <2>2. PICK freed : freed = {o} \X Unclaimed(o, ls)
    OBVIOUS
  <2>3. /\ \A p \in objs : p \in Objects => \A w \in ws[p] : \A u \in seen[p] :
              In(u, w) /\ Ready(p, u, x) => <<p, u>> \in Queued' \cup tracks' \cup lost'
        /\ \A p \in Objects : windows'[p] = IF p \in objs THEN {} ELSE ws[p]
        /\ \A row \in Queued \cup tracks \cup lost : row \in Queued' \cup tracks' \cup lost'
        /\ freed \subseteq Queued' \cup tracks' \cup lost'
    BY <1>1, <1>7, <1>8, <2>1, <2>2, FlushedFacts
  <2> QED
    BY <2>1, <2>2, <2>3
<1>10. LandingInv'
  <2> SUFFICES ASSUME NEW l \in ls
               PROVE  /\ l.first <= l.stored /\ l.stored <= l.touch /\ l.touch <= now
                      /\ l.found <= now
    BY <1>1, <1>3 DEF LandingInv
  <2>1. /\ l \in Landing /\ l.first <= l.stored /\ l.stored <= l.touch /\ l.found <= now
        /\ l.touch <= now \/ l.touch <= t
    BY <1>6 DEF FoundAt
  <2>2. l.touch \in Nat
    BY <2>1, LandingTimes
  <2> QED
    BY <1>4, <1>5, <2>1, <2>2
<1>11. FrameInv'
  BY <1>3 DEF LiveInv, FrameInv
<1>12. ASSUME NEW l \in ls, NEW p \in Targets(l) \ Recycled, NEW u \in seen[p], Owned(l, u)
       PROVE  \/ <<p, u>> \in Queued' \cup tracks' \cup lost'
              \/ /\ p # o /\ u \in history'[p] /\ u > through'[p]
                 /\ \E w \in windows'[p] : In(u, w)
  <2>1. p \in Objects
    BY <1>1, LandingTimes
  <2>2. Has(p, u) \/ (Ready(p, u, x) /\ \E w \in ws[p] : In(u, w))
    BY <1>7, <1>12 DEF PassInv
  <2>3. Has(p, u) => <<p, u>> \in Queued' \cup tracks' \cup lost'
    BY <1>9 DEF Has
  <2>4. CASE p = o
    BY <1>9, <2>2, <2>3, <2>4
  <2>5. CASE p # o
    BY <1>3, <1>9, <2>1, <2>2, <2>3, <2>5 DEF Ready
  <2> QED
    BY <2>4, <2>5
<1>13. ASSUME NEW p \in Objects \ Recycled, NEW u \in seen[p]
       PROVE  \/ <<p, u>> \in Queued' \cup tracks' \cup lost'
              \/ ~WrittenAtOnce(p) /\ (u \in history'[p] \/ u < now - (Lead + Trail))
  <2>1. \/ Has(p, u)
        \/ ~WrittenAtOnce(p) /\ (u \in history[p] \/ u < now - (Lead + Trail))
    BY DEF LiveInv, HistoryInv
  <2>2. Has(p, u) => <<p, u>> \in Queued' \cup tracks' \cup lost'
    BY <1>9 DEF Has
  <2>3. CASE p = o /\ u \in history[o] /\ u \notin Unclaimed(o, ls)
    <3>1. PICK l \in ls : o \in Targets(l) /\ In(u, MayRead(l))
      BY <2>3 DEF Unclaimed
    <3>2. l.first \in Nat /\ l.touch \in Nat /\ l.found \in Nat /\ l.found <= now
      BY <1>1, <1>3, <1>10, LandingTimes DEF LandingInv
    <3>3. MayRead(l) = <<l.first - (Margin + Approach), l.touch + Margin>>
      BY <3>2, Spans DEF MayRead
    <3>4. l.first - (Margin + Approach) <= u /\ u <= l.touch + Margin /\ u \in Int
      BY <1>4, <3>1, <3>3 DEF In
    <3>5. l.first - Lead <= u /\ u < l.touch + Trail
      BY <3>2, <3>4, Numbers, RetentionTimes DEF Lead, Trail
    <3>6. CASE l.found - (Lead + Trail) <= u
      <4>1. Owned(l, u)
        BY <3>5, <3>6 DEF Owned
      <4> QED
        BY <1>12, <2>3, <3>1, <4>1
    <3>7. CASE ~(l.found - (Lead + Trail) <= u)
      <4>1. u < now - (Lead + Trail)
        BY <1>4, <3>2, <3>4, <3>7, Numbers
      <4> QED
        BY <2>1, <2>2, <2>3, <4>1 DEF RowInv, SeenInv
    <3> QED
      BY <3>6, <3>7
  <2> QED
    BY <1>3, <1>9, <2>1, <2>2, <2>3
<1>14. HistoryInv'
  BY <1>3, <1>13 DEF HistoryInv, Has, WrittenAtOnce
<1>15. SkipInv'
  <2>1. ASSUME NEW p \in Objects \ Recycled, NEW u \in history'[p], u <= through'[p]
        PROVE  <<p, u>> \in Queued' \cup tracks' \cup lost' \/ u < now - (Lead + Trail)
    <3>1. u \in history[p] /\ u <= through[p]
      BY <1>3, <2>1
    <3>2. Has(p, u) \/ u < now - (Lead + Trail)
      BY <3>1 DEF LiveInv, SkipInv
    <3> QED
      BY <1>9, <3>2 DEF Has
  <2> QED
    BY <1>3, <2>1 DEF SkipInv, Has
<1>16. WindowInv'
  BY <1>7, <1>9 DEF WindowInv, Apart, PassInv
<1>18. CoverInv'
  BY <1>1, <1>3, <1>12 DEF CoverInv, Waiting, Has, Owned
<1>19. OpenInv'
  <2>1. ASSUME NEW l \in ls, NEW p \in Targets(l) \ Recycled
        PROVE  \/ keepAll \/ l.touch + Trail <= now \/ (p \notin alive' /\ seen[p] # {})
               \/ \E w \in windows'[p] : w[1] <= l.first - Lead /\ l.touch + Trail <= w[2]
    <3>1. p \in Objects
      BY <1>1, LandingTimes
    <3>2. CASE p = o
      BY <1>1, <1>3, <3>2
    <3>3. CASE p # o
      BY <1>3, <1>7, <1>9, <3>1, <3>3 DEF PassInv
    <3> QED
      BY <3>2, <3>3
  <2> QED
    BY <1>1, <1>3, <2>1 DEF OpenInv
<1> QED
  BY <1>10, <1>11, <1>14, <1>15, <1>16, <1>18, <1>19 DEF LiveInv

LEMMA CloseStopped ==
  ASSUME RowInv, LandingInv, LiveInv, Close
  PROVE  LandingInv' /\ StoppedInv'
<1>1. /\ WriteWindows(DueRows(history, windows, through, Objects, Everything), windows, Objects,
                      Everything, pending, {}, {})
      /\ UNCHANGED <<now, seen, landings>>
  BY DEF Close
<1>2. PassInv(landings, windows, now)
  BY PassNone
<1>3. PICK objs : objs = Objects
  OBVIOUS
<1>4. /\ \A p \in objs : p \in Objects => \A w \in windows[p] : \A u \in seen[p] :
            In(u, w) /\ Ready(p, u, now) => <<p, u>> \in Queued' \cup tracks' \cup lost'
      /\ \A p \in Objects : windows'[p] = IF p \in objs THEN {} ELSE windows[p]
      /\ \A row \in Queued \cup tracks \cup lost : row \in Queued' \cup tracks' \cup lost'
  <2>1. PICK freed : freed = {}
    OBVIOUS
  <2>2. freed \subseteq AnyRow
    BY <2>1
  <2> QED
    BY <1>1, <1>2, <1>3, <2>1, <2>2, FlushedFacts
<1>5. ASSUME NEW l \in landings, NEW p \in Targets(l) \ Recycled, NEW u \in seen[p],
             l.first - (Margin + Approach) <= u, u <= l.touch + Margin
      PROVE  <<p, u>> \in Queued' \cup tracks' \cup lost' \/ PassedOver(l, <<p, u>>)
  <2>1. l \in Landing /\ seen \in [Objects -> SUBSET Time]
    BY DEF RowInv, TypeOK
  <2>2. p \in Objects /\ l.first \in Nat /\ l.touch \in Nat /\ l.found \in Nat
    BY <2>1, LandingTimes
  <2>3. u \in Int
    BY <2>1, <2>2, Numbers
  <2>4. l.first - Lead <= u /\ u < l.touch + Trail
    BY <1>5, <2>2, <2>3, Numbers, RetentionTimes DEF Lead, Trail
  <2>5. Owned(l, u) \/ PassedOver(l, <<p, u>>)
    BY <2>2, <2>3, <2>4, Numbers DEF Owned, PassedOver
  <2>6. Owned(l, u) => Has(p, u) \/ Waiting(p, u)
    BY DEF LiveInv, CoverInv
  <2> QED
    BY <1>3, <1>4, <2>2, <2>5, <2>6 DEF Has, Waiting, Ready
<1>6. LandingInv'
  BY <1>1 DEF LandingInv
<1>7. StoppedInv'
  BY <1>1, <1>3, <1>4, <1>5 DEF StoppedInv, Has, PassedOver
<1> QED
  BY <1>6, <1>7

--------------------------------------------------------------------------------
(* The database, rebuilds and compactions lose nothing a rebuild reads.    *)

LEMMA SameWindows ==
  ASSUME UNCHANGED <<keepAll, phase, now, alive, seen, history, windows, through>>,
         \A row \in Queued \cup tracks \cup lost : row \in Queued' \cup tracks' \cup lost',
         \A l \in landings' : \E m \in landings :
           Targets(m) = Targets(l) /\ m.first = l.first /\ m.touch = l.touch /\ m.found = l.found
  PROVE  /\ LiveInv => LiveInv'
         /\ StoppedInv => StoppedInv'
<1>1. ASSUME LiveInv PROVE LiveInv'
  <2>1. FrameInv' /\ WindowInv'
    BY <1>1 DEF LiveInv, FrameInv, WindowInv, Apart
  <2>2. HistoryInv'
    BY <1>1 DEF LiveInv, HistoryInv, Has, WrittenAtOnce
  <2>3. SkipInv'
    BY <1>1 DEF LiveInv, SkipInv, Has
  <2>5. CoverInv'
    <3> SUFFICES ASSUME NEW l \in landings', NEW p \in Targets(l) \ Recycled, NEW u \in seen[p],
                        Owned(l, u)
                 PROVE  <<p, u>> \in Queued' \cup tracks' \cup lost' \/ Waiting(p, u)
      BY DEF CoverInv, Has, Owned, Waiting
    <3>1. PICK m \in landings : /\ Targets(m) = Targets(l) /\ m.first = l.first
                                /\ m.touch = l.touch /\ m.found = l.found
      OBVIOUS
    <3>2. Owned(m, u)
      BY <3>1 DEF Owned
    <3> QED
      BY <1>1, <3>1, <3>2 DEF LiveInv, CoverInv, Has
  <2>6. OpenInv'
    <3> SUFFICES ASSUME NEW l \in landings', NEW p \in Targets(l) \ Recycled
                 PROVE  \/ keepAll \/ l.touch + Trail <= now \/ (p \notin alive /\ seen[p] # {})
                        \/ \E w \in windows[p] : w[1] <= l.first - Lead /\ l.touch + Trail <= w[2]
      BY DEF OpenInv
    <3>1. PICK m \in landings : Targets(m) = Targets(l) /\ m.first = l.first /\ m.touch = l.touch
      OBVIOUS
    <3> QED
      BY <1>1, <3>1 DEF LiveInv, OpenInv
  <2> QED
    BY <2>1, <2>2, <2>3, <2>5, <2>6 DEF LiveInv
<1>2. ASSUME StoppedInv PROVE StoppedInv'
  <2> SUFFICES ASSUME NEW l \in landings', NEW p \in Targets(l) \ Recycled, NEW u \in seen[p],
                      l.first - (Margin + Approach) <= u, u <= l.touch + Margin
               PROVE  \/ <<p, u>> \in Queued' \cup tracks' \cup lost'
                      \/ PassedOver(l, <<p, u>>) \/ CutShort(l)
    BY <1>2 DEF StoppedInv, Has, PassedOver, CutShort
  <2>1. PICK m \in landings : /\ Targets(m) = Targets(l) /\ m.first = l.first
                              /\ m.touch = l.touch /\ m.found = l.found
    OBVIOUS
  <2> QED
    BY <1>2, <2>1 DEF StoppedInv, Has, PassedOver, CutShort
<1> QED
  BY <1>1, <1>2

LEMMA RebuildKeeps ==
  ASSUME IInv, NEW l \in landings, Rebuild(l)
  PROVE  LandingInv' /\ (LiveInv => LiveInv') /\ (StoppedInv => StoppedInv')
<1> DEFINE shown == {c \in l.first .. l.touch : /\ In(c, RebuildWindow(l.stored))
                                                /\ <<l.obj, c>> \in tracks}
<1>1. /\ shown # {} /\ landings' = Instead(l, [l EXCEPT !.stored = Newest(shown)])
      /\ UNCHANGED <<keepAll, phase, now, alive, seen, history, windows, through,
                     pending, database, tracks, lost, order>>
  BY DEF Rebuild
<1>2. shown \subseteq l.first .. l.touch /\ shown \subseteq Time
  BY DEF IInv, RowInv, TypeOK, AnyRow
<1> HIDE DEF shown
<1>3. Newest(shown) \in l.first .. l.touch
  BY <1>1, <1>2, NewestIs
<1>4. PICK n : n = [l EXCEPT !.stored = Newest(shown)]
  OBVIOUS
<1>5. l \in Landing
  BY DEF IInv, RowInv, TypeOK
<1>6. /\ n.obj = l.obj /\ n.ship = l.ship /\ n.first = l.first /\ n.touch = l.touch
      /\ n.stored = Newest(shown) /\ n.found = l.found
  BY <1>4, <1>5 DEF Landing
<1>7. landings' = (landings \ {l}) \cup {n}
  BY <1>1, <1>4 DEF Instead
<1>8. \A k \in landings' : \E m \in landings :
        Targets(m) = Targets(k) /\ m.first = k.first /\ m.touch = k.touch /\ m.found = k.found
  BY <1>6, <1>7 DEF Targets
<1>9. LandingInv'
  <2>1. l.first \in Nat /\ l.touch \in Nat
    BY <1>5, LandingTimes
  <2>2. n.first <= n.stored /\ n.stored <= n.touch
    BY <1>3, <1>6, <2>1
  <2>3. n.touch <= now /\ n.found <= now
    BY <1>6 DEF IInv, LandingInv
  <2> QED
    BY <1>1, <1>7, <2>2, <2>3 DEF IInv, LandingInv
<1>10. /\ UNCHANGED <<keepAll, phase, now, alive, seen, history, windows, through>>
       /\ \A row \in Queued \cup tracks \cup lost : row \in Queued' \cup tracks' \cup lost'
  BY <1>1 DEF Queued
<1> QED
  BY <1>8, <1>9, <1>10, SameWindows

LEMMA AcceptKeeps ==
  ASSUME IInv, Refuse \/ Accept \/ UNCHANGED vars
  PROVE  LandingInv' /\ (LiveInv => LiveInv') /\ (StoppedInv => StoppedInv')
<1>1. UNCHANGED <<keepAll, phase, now, alive, seen, history, windows, through, landings>>
  BY DEF Refuse, Accept, vars
<1>2. \A row \in Queued \cup tracks \cup lost : row \in Queued' \cup tracks' \cup lost'
  BY DEF Refuse, Accept, vars, Queued
<1>3. \A l \in landings' : \E m \in landings :
        Targets(m) = Targets(l) /\ m.first = l.first /\ m.touch = l.touch /\ m.found = l.found
  BY <1>1
<1>4. LandingInv'
  BY <1>1 DEF IInv, LandingInv
<1> QED
  BY <1>1, <1>2, <1>3, <1>4, SameWindows

LEMMA CompactKeeps ==
  ASSUME IInv, StoppedInv, Compact
  PROVE  LandingInv' /\ StoppedInv'
<1>1. /\ UNCHANGED <<now, seen, windows, pending, lost, landings>>
      /\ tracks' = Kept /\ phase' = "compacted"
  BY DEF Compact
<1>2. ASSUME NEW l \in landings, NEW p \in Targets(l) \ Recycled, NEW u \in seen[p],
             l.first - (Margin + Approach) <= u, u <= l.touch + Margin,
             ~(l.touch - l.first > Slack), ~PassedOver(l, <<p, u>>)
      PROVE  <<p, u>> \in Queued' \cup tracks' \cup lost'
  <2>1. l \in Landing /\ seen \in [Objects -> SUBSET Time]
    BY DEF IInv, RowInv, TypeOK
  <2>2. p \in Objects /\ l.first \in Nat /\ l.touch \in Nat /\ l.stored \in Nat
    BY <2>1, LandingTimes
  <2>3. u \in Int
    BY <2>1, <2>2, Numbers
  <2>4. l.first <= l.stored /\ l.stored <= l.touch
    BY DEF IInv, LandingInv
  <2>5. KeepWindow(l) = <<l.stored - Lead, l.stored + Trail>>
    BY <2>2, Spans DEF KeepWindow
  <2>6. l.stored - Lead <= u /\ u <= l.stored + Trail
    BY <1>2, <2>2, <2>3, <2>4, Numbers, RetentionTimes DEF Lead, Trail
  <2>7. In(u, KeepWindow(l))
    BY <2>5, <2>6 DEF In
  <2>8. Has(p, u)
    BY <1>2 DEF StoppedInv, CutShort
  <2>9. <<p, u>> \in tracks => <<p, u>> \in Kept
    BY <2>7 DEF Kept, Explained
  <2> QED
    BY <1>1, <2>8, <2>9 DEF Has, Queued
<1>3. LandingInv'
  BY <1>1 DEF IInv, LandingInv
<1>4. StoppedInv'
  BY <1>1, <1>2 DEF StoppedInv, Has, PassedOver, CutShort
<1> QED
  BY <1>3, <1>4

LEMMA StepInv ==
  ASSUME IInv, [Next]_vars
  PROVE  IInv'
<1>1. RowInv'
  BY StepRows DEF IInv
<1>3. ASSUME NEW o \in Objects, Update(o) \/ Vanish(o) PROVE IInv'
  <2>1. phase = "live" /\ phase' = "live"
    BY <1>3 DEF Update, Vanish
  <2> QED
    BY <1>1, <1>3, <2>1, UpdateLive, VanishLive DEF IInv
<1>4. CASE Close
  <2>1. phase = "live" /\ phase' = "stopped"
    BY <1>4 DEF Close
  <2> QED
    BY <1>1, <1>4, <2>1, CloseStopped DEF IInv
<1>5. ASSUME NEW l \in landings, Rebuild(l) PROVE IInv'
  <2>1. phase' = phase
    BY <1>5 DEF Rebuild
  <2> QED
    BY <1>1, <1>5, <2>1, RebuildKeeps DEF IInv
<1>6. CASE Refuse \/ Accept \/ UNCHANGED vars
  <2>1. phase' = phase
    BY <1>6 DEF Refuse, Accept, vars
  <2> QED
    BY <1>1, <1>6, <2>1, AcceptKeeps DEF IInv
<1>7. CASE Compact
  <2>1. phase # "live" /\ phase' # "live"
    BY <1>7 DEF Compact
  <2> QED
    BY <1>1, <1>7, <2>1, CompactKeeps DEF IInv
<1> QED
  BY <1>3, <1>4, <1>5, <1>6, <1>7 DEF Next

LEMMA InitInv ==
  ASSUME Init
  PROVE  IInv
<1>1. RowInv
  BY InitRows
<1>2. LandingInv /\ phase = "live"
  BY DEF Init, LandingInv
<1>3. LiveInv
  BY DEF Init, LiveInv, FrameInv, HistoryInv, SkipInv, WindowInv, Apart, CoverInv, OpenInv
<1> QED
  BY <1>1, <1>2, <1>3 DEF IInv

LEMMA ReadsWhole ==
  ASSUME IInv
  PROVE  RebuildReadsWhole
<1> SUFFICES ASSUME NEW l \in landings, NEW row \in RebuildReads(l)
             PROVE  Accounted(row) \/ StillHeld(row) \/ PassedOver(l, row) \/ CutShort(l)
  BY DEF RebuildReadsWhole
<1>1. PICK p \in Targets(l) \ Recycled, u \in Time :
        row = <<p, u>> /\ u \in seen[p] /\ In(u, RebuildWindow(l.stored))
  BY DEF RebuildReads
<1>2. l \in Landing
  BY DEF IInv, RowInv, TypeOK
<1>3. l.first \in Nat /\ l.touch \in Nat /\ l.stored \in Nat /\ l.found \in Nat /\ u \in Nat
  BY <1>2, LandingTimes, Numbers
<1>4. RebuildWindow(l.stored) = <<l.stored - (Margin + Approach), l.stored + Margin>>
  BY <1>3, Spans
<1>5. l.stored - (Margin + Approach) <= u /\ u <= l.stored + Margin
  BY <1>1, <1>4 DEF In
<1>6. l.first <= l.stored /\ l.stored <= l.touch
  BY DEF IInv, LandingInv
<1>7. l.first - (Margin + Approach) <= u /\ u <= l.touch + Margin
  BY <1>3, <1>5, <1>6, Numbers
<1>8. CASE phase = "live"
  <2>1. l.first - Lead <= u /\ u < l.touch + Trail
    BY <1>3, <1>7, Numbers, RetentionTimes DEF Lead, Trail
  <2>2. Owned(l, u) \/ PassedOver(l, row)
    BY <1>1, <1>3, <2>1, Numbers DEF Owned, PassedOver
  <2>3. Owned(l, u) => Has(p, u) \/ Waiting(p, u)
    BY <1>1, <1>8 DEF IInv, LiveInv, CoverInv
  <2> QED
    BY <1>1, <1>8, <2>2, <2>3 DEF Has, Accounted, Waiting, StillHeld
<1>9. CASE phase # "live"
  BY <1>1, <1>7, <1>9 DEF IInv, StoppedInv, Has, Accounted
<1> QED
  BY <1>8, <1>9

--------------------------------------------------------------------------------
(* Every variable has the values its code gives it: rows of known objects  *)
(* and frames, marks that a row set, and windows between whole times.      *)
THEOREM TypeCorrect == Spec => []TypeOK
<1>1. Init => RowInv
  BY InitRows
<1>2. RowInv /\ [Next]_vars => RowInv'
  BY StepRows
<1>3. RowInv => TypeOK
  BY DEF RowInv
<1> QED
  BY <1>1, <1>2, <1>3, PTL DEF Spec

(* No row is queued twice, or again once it is in the table, however the   *)
(* windows of a flight overlap, whatever the history lets go, and whatever *)
(* the database refuses (_retained_through).                               *)
THEOREM NeverTwice == Spec => []NoRowTwice
<1>1. Init => RowInv
  BY InitRows
<1>2. RowInv /\ [Next]_vars => RowInv'
  BY StepRows
<1>3. RowInv => NoRowTwice
  BY DEF RowInv, MarkInv
<1> QED
  BY <1>1, <1>2, <1>3, PTL DEF Spec

(* Every row that the rebuild of a stored landing reads is in the table,   *)
(* on its way there, still held while the ingestor runs, or was given up   *)
(* with a batch or an object -- for any flight, however late a landing is  *)
(* found and however long it bounces, in any order of landings, removals   *)
(* and refusals, and after any rebuilds and compactions -- unless it was   *)
(* older than every window due when its landing was found, or a compaction *)
(* kept the slack around the contact stored for a longer landing           *)
(* (retention.py, ingest.py, compact.py).                                  *)
THEOREM ReadWhole == Spec => []RebuildReadsWhole
<1>1. Init => IInv
  BY InitInv
<1>2. IInv /\ [Next]_vars => IInv'
  BY StepInv
<1>3. IInv => RebuildReadsWhole
  BY ReadsWhole
<1> QED
  BY <1>1, <1>2, <1>3, PTL DEF Spec
=============================================================================

------------------------------- MODULE MCGrading -------------------------------
EXTENDS Grading

(* Landings at the edges of the descent rate bands in every class, and     *)
(* landings that deviate in any of the other components.                   *)
McPattern == [alignment |-> 300, break_altitude |-> 20, downwind_course |-> 30, downwind_altitude |-> None]
McRates == [class : Classes, descent_rate : {100, 250, 300, 350, 450, 650, 849, 1100, 1500},
            touchdown_speed : {100}, glideslope : {20}, centerline : {20}, aoa : {810},
            band : {"hornet"}, pattern : {McPattern}]
McOffs == [class : {"carrier", "helicopter"}, descent_rate : {450}, touchdown_speed : {85, 112, None},
           glideslope : {20, 80, 140}, centerline : {20, 120, None}, aoa : {700, 810, 1000},
           band : {"hornet", None}, pattern : {McPattern}]
McLands == McRates \cup McOffs
McTraps == [gs : {-50, -25, 0, 40, None}, lateral : {10, 40, None}, range : {20, 90},
            ratio : {90, 100, 110, None}, aoa : {650, 700, 810, 900, 1000, None},
            band : {"hornet", None}, bolter : BOOLEAN]
McStarts == {0, -360}

(* An approach recorded from the crosswind on.                             *)
McLateStarts == {-180}

McHeights(deck, final, flare) ==
  [deck |-> deck, final |-> final, flare |-> flare, low |-> 5, middle |-> 100, high |-> 400]
McLandProfiles == {McHeights(0, 0, 1), McHeights(0, 2, 1), McHeights(0, 2, 3), McHeights(2, 2, 2),
                   [McHeights(0, 2, 2) EXCEPT !.high = 20, !.middle = 20]}
McTrapProfiles == {McHeights(0, 2, 1), McHeights(2, 2, 1)}
McGrooveOk == <<15, 19>>
=============================================================================

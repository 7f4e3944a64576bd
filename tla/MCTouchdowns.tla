---------------------------- MODULE MCTouchdowns ----------------------------
(***************************************************************************)
(* TLC instance of Touchdowns: a time unit is five seconds, an altitude    *)
(* unit one metre. The heights step below and above the climb-out rate,    *)
(* the bounce limit and the crash rate of the default configuration.       *)
(***************************************************************************)
EXTENDS Touchdowns

Over(deck, alts) == {[alt |-> a, deck |-> deck] : a \in alts}
Field == Over(FALSE, {0, 7, 21})
Hops == Over(FALSE, {0, 14, 21})
Crashes == Over(FALSE, {0, 14, 70, NoValue})
AtSea == Over(TRUE, {Deck, Deck + 7, Deck + 25, Deck - 15}) \cup Over(FALSE, {Deck})
MCScenes == {Field, Hops, Crashes, AtSea}
MCMaxReceived == [S \in MCScenes |-> IF S = Hops THEN 7 ELSE 6]
=============================================================================

--------------------------- MODULE MCRunwayCache ---------------------------
EXTENDS RunwayCache

CONSTANTS A, B, a1, a2, b1

(* Two maps, one with two airbases. *)
MCOn == [b \in {a1, a2, b1} |-> IF b = b1 THEN B ELSE A]
=============================================================================

---------------------------- MODULE LandingLifecycle ----------------------------
(***************************************************************************)
(* What the two-phase confirmation promises about one landing, without the *)
(* machinery that keeps the promise: a landing is stored, as provisional   *)
(* or at once as final, and a provisional one is later settled.  Nothing   *)
(* leads back: a stored landing is never forgotten, a final one never      *)
(* reopened.  (entities.py: "stored as provisional ... and flipped to      *)
(* final once the outcome can no longer change".)                          *)
(***************************************************************************)
CONSTANT Landing        \* the landings that can happen

VARIABLE status         \* status[l]: what the landings table says of l

Status == {"unseen", "provisional", "final"}

Init == status = [l \in Landing |-> "unseen"]

\* The touchdown is stored while its outcome is still under observation.
StoreProvisional(l) ==
  /\ status[l] = "unseen"
  /\ status' = [status EXCEPT ![l] = "provisional"]

\* The touchdown is stored with its outcome already known.
StoreFinal(l) ==
  /\ status[l] = "unseen"
  /\ status' = [status EXCEPT ![l] = "final"]

\* One update settles some of the provisional landings: one of them when its
\* outcome is confirmed, all the old ones when the reaper runs.
Settle(S) ==
  /\ \A l \in S : status[l] = "provisional"
  /\ status' = [l \in Landing |-> IF l \in S THEN "final" ELSE status[l]]

Next ==
  \/ \E l \in Landing : StoreProvisional(l) \/ StoreFinal(l)
  \/ \E S \in SUBSET Landing : Settle(S)

Spec == Init /\ [][Next]_status
================================================================================

------------------------------ MODULE MCDashboard ------------------------------
EXTENDS Dashboard

(* A dashboard that shows its list, and one that goes away.                *)
McScenes == {[messages |-> 2, requests |-> 1, leaves |-> FALSE],
             [messages |-> 2, requests |-> 0, leaves |-> TRUE]}
=============================================================================

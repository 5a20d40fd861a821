----------------------------- MODULE MCEndToEnd -----------------------------
(* Instances of EndToEnd for TLC.                                           *)
EXTENDS EndToEnd, TLC

AtFirstTick == [n \in Notifs |-> IF n \in Scheduled THEN 1 ELSE 0]

\* Requests differ in nothing but their names.
Interchangeable == Permutations(Requests)
=============================================================================

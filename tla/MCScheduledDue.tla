--------------------------- MODULE MCScheduledDue ---------------------------
(* Instances of ScheduledDue for TLC.                                       *)
EXTENDS ScheduledDue

CONSTANTS A, B,        \* A has a row
          m1, m2, m3   \* the due events: two for A, one for B

TwiceAndOnce == [m \in Msgs |-> IF m = m3 THEN B ELSE A]

ASSUME KnownFaults == FaultSets \subseteq SUBSET FaultClasses
=============================================================================

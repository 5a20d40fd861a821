------------------------ MODULE MCDeliveryScheduler ------------------------
(* Instances of DeliveryScheduler for TLC.                                  *)
EXTENDS DeliveryScheduler

CONSTANTS A, B,  \* the notifications, A to be delivered before B
          S,     \* the event that schedules them
          X,     \* the event that cancels A
          i1     \* the instance that may be stopped

\* A is due at once, B one tick later.
OneTickApart == [n \in Notifs |-> IF n = A THEN 0 ELSE 1]

\* A batch request schedules both with one event S, which X partly cancels.
Together == [m \in Msgs |-> IF m = X THEN {A} ELSE Notifs]

\* One of the instances is told to stop while A is due and B is not.
FirstOfTwo == {<<i1, 0>>}

\* The widest set of conditions of DispatchedOnce, that of RemovedStaysOut, two
\* of ScheduleNotLost and EventuallyDispatched, dying instances, and an instance
\* that is stopped, whose calls then fail with and without effect.
MixedFaults ==
    {{"db", "requeue"},
     {"db", "requeue", "publish"},
     {"db", "publish"},
     {"settle"},
     {"crash"},
     {"stop"}}

ASSUME KnownFaults == FaultSets \subseteq SUBSET FaultClasses
=============================================================================

----------------------- MODULE MCNotificationService -----------------------
(* Instances of NotificationService for TLC.                                *)
EXTENDS NotificationService

CONSTANT N  \* the notification the processor may report on

\* One result message for each verdict on N.
BothVerdicts == [notif : {N}, status : {"delivered", "failed"}]

Itself == [m \in Results |-> m]

ASSUME KnownFaults == FaultSets \subseteq SUBSET FaultClasses
=============================================================================

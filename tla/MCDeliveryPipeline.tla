------------------------- MODULE MCDeliveryPipeline -------------------------
(* Instances of DeliveryPipeline for TLC: the messages all ask for the      *)
(* delivery of one notification, so that every pair of them competes.       *)
EXTENDS DeliveryPipeline, TLC

CONSTANT N  \* the one notification

AllForN == [m \in Msgs |-> N]

OneAttempt == [n \in Notifs |-> 1]

TwoAttempts == [n \in Notifs |-> 2]

\* For each property the widest set of conditions it is stated for.
SafetyFaults ==
    {FaultClasses \ {"ttl"},
     FaultClasses \ {"stop", "slow", "unlock", "reply"},
     FaultClasses \ {"stop", "crash", "unlock", "reply"},
     {"ttl", "unlock", "redis", "reply", "limit"}}

\* The widest set of EventuallyReported, that of CallsWithinBudget, and lost acks.
RetryFaults ==
    {{"ttl", "timeout"},
     FaultClasses \ {"slow", "crash", "publish", "settle"},
     {"settle"}}

\* Workers are interchangeable, and so are the messages of one notification.
Interchangeable == Permutations(Workers) \union Permutations(Msgs)

ASSUME KnownFaults == FaultSets \subseteq SUBSET FaultClasses
=============================================================================

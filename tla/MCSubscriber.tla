---------------------------- MODULE MCSubscriber ----------------------------
(* Instances of Subscriber for TLC.                                        *)
EXTENDS Subscriber

CONSTANTS p1, p2, m1, m2, m3

\* The processor's subscriptions give up a message, those for batches do not.
BothCalls ==
    {[batched |-> FALSE, maxDeliver |-> 2], [batched |-> TRUE, maxDeliver |-> 0]}
=============================================================================

-------------------------- MODULE MCCreateRequest --------------------------
(* Instances of CreateRequest for TLC.                                     *)
EXTENDS CreateRequest, SequencesExt

Good == [channel |-> "sms", recipient |-> "phone", content |-> "text", priority |-> "high",
         max_attempts |-> Missing, deliver_after |-> ""]

\* Two items that differ in what matters to delivery, one that is scheduled and
\* one whose recipient does not fit its channel.
Items ==
    {Good,
     [Good EXCEPT !.channel = "email", !.recipient = "email", !.priority = "low", !.max_attempts = 2],
     [Good EXCEPT !.channel = "push", !.recipient = "other", !.deliver_after = "time"],
     [Good EXCEPT !.recipient = "email"]}

\* For every other check an item that fails it.
BadItems ==
    {[Good EXCEPT !.channel = "bad"], [Good EXCEPT !.recipient = ""],
     [Good EXCEPT !.content = ""], [Good EXCEPT !.priority = "bad"],
     [Good EXCEPT !.max_attempts = 0], [Good EXCEPT !.deliver_after = "bad"]}

\* Up to three items, one of which may be any of the bad ones, and one too many.
MCBodies ==
    BoundedSeq(Items, 3) \union {<<i>> : i \in BadItems}
        \union {<<Good, i>> : i \in BadItems} \union {<<Good, Good, Good, Good>>}

AllFaults == SUBSET FaultClasses
=============================================================================

------------------------------ MODULE JetStream ------------------------------
(***************************************************************************)
(* One message of the NOTIFICATIONS stream as its durable pull consumer    *)
(* sees it.  NATS JetStream is a library and a server outside this         *)
(* repository; the operators below say what the code relies on when it     *)
(* subscribes (AckExplicit, MaxDeliver, AckWait), fetches, and settles a   *)
(* message with Ack, Nak or NakWithDelay.  The stream has WorkQueuePolicy  *)
(* retention: a message stays stored until some delivery of it is acked.   *)
(***************************************************************************)
EXTENDS Naturals

(***************************************************************************)
(* "none": never published.  "ready": stored, waiting to be handed out.    *)
(* "inflight": handed out, the AckWait timer running.  "delayed": put back *)
(* by NakWithDelay, its delay running.  "gone": acked and removed.         *)
(***************************************************************************)
QueueStatus == {"none", "ready", "inflight", "delayed", "gone"}

\* A message that has not been published yet.
Unpublished == [st |-> "none", count |-> 0]

\* The publisher's message is stored by the stream.
Stored(q) == [q EXCEPT !.st = "ready"]

\* MaxDeliver bounds the deliveries; zero is the server's "no bound".
Deliverable(q, maxDeliver) ==
    /\ q.st = "ready"
    /\ maxDeliver = 0 \/ q.count < maxDeliver

\* NumDelivered is counted only for a bounded consumer: the handlers of the
\* unbounded ones never look at it.
Delivered(q, maxDeliver) ==
    [st |-> "inflight", count |-> IF maxDeliver = 0 THEN 0 ELSE q.count + 1]

\* Out of deliveries: stored for ever, handed out never again.
Exhausted(q, maxDeliver) ==
    q.st = "ready" /\ maxDeliver # 0 /\ q.count >= maxDeliver

\* An ack of any delivery, an old one too, removes the message.
Acked(q) == [q EXCEPT !.st = "gone"]

\* A nak puts an outstanding message back at once.
Naked(q) == IF q.st \in {"inflight", "delayed"} THEN [q EXCEPT !.st = "ready"] ELSE q

\* A nak with a delay restarts the timer of an outstanding message.
NakedWithDelay(q) == IF q.st = "inflight" THEN [q EXCEPT !.st = "delayed"] ELSE q

\* The AckWait timer or the nak's delay runs out.
TimedOut(q) == [q EXCEPT !.st = "ready"]
==============================================================================

----------------------------- MODULE Subscriber -----------------------------
(***************************************************************************)
(* Subscribe and SubscribeBatch with the loops that drain their channels   *)
(* (ForEach, ForEachBatch).  In every process a fetch loop takes messages  *)
(* from the broker, decodes them and sends them into a bounded channel,    *)
(* and a handler loop takes them out.  Both loops look at the context,     *)
(* which may be cancelled at any moment.  The processes share one durable  *)
(* consumer of the broker.                                                 *)
(***************************************************************************)
EXTENDS Integers, Sequences, FiniteSets, SequencesExt

CONSTANTS
    Msgs,        \* the messages of the subject
    Bad,         \* those whose payload cannot be decoded
    Processes,   \* the processes that subscribe with the same durable name
    Calls,       \* the calls to consider: SubscribeBatch or not, and maxDeliver
    FetchSize,   \* how many messages a fetch asks for (32)
    ChanCap,     \* capacity of the channel (32 messages, or 4 batches)
    MaxStops,    \* bound on cancellations and crashes
    MaxExpiries  \* bound on AckWait running out while a process has the message

ASSUME SubscriberAssumption ==
    /\ Bad \subseteq Msgs
    /\ IsFiniteSet(Msgs)
    /\ Calls \subseteq [batched : BOOLEAN, maxDeliver : Nat]
    /\ FetchSize \in Nat \ {0}
    /\ ChanCap \in Nat \ {0}
    /\ MaxStops \in Nat
    /\ MaxExpiries \in Nat

VARIABLES
    call,     \* whether this is SubscribeBatch, and maxDeliver (0 for no limit)
    ready,    \* the broker: what it delivers next, redeliveries first
    out,      \* the broker: delivered and not settled
    count,    \* count[m]: NumDelivered, as far as it matters
    acked,    \* the broker: acknowledged and removed
    unsent,   \* the messages not yet published
    done,     \* done[p]: the context of process p is cancelled
    pc,       \* pc[p]: where the fetch loop of p is
    msgs,     \* msgs[p]: fetched and not yet decoded
    held,     \* held[p]: decoded, on its way into the channel
    chan,     \* chan[p]: the channel, a sequence of sets of messages
    job,      \* job[p]: what the handler works on
    running,  \* running[p]: whether the handler loop runs
    stops,    \* number of cancellations and crashes
    expiries  \* number of AckWaits that ran out while a process had the message

brokerVars == <<ready, out, count, acked, unsent>>
fetchVars == <<pc, msgs, held>>
handlerVars == <<job, running>>
bounds == <<call, stops, expiries>>
vars == <<brokerVars, done, fetchVars, chan, handlerVars, bounds>>

\* The messages process p has in its memory.
InMemory(p) ==
    msgs[p] \union held[p] \union job[p] \union UNION {chan[p][k] : k \in DOMAIN chan[p]}

\* Delivery counts are not told apart beyond this number.
MaxCount == IF call.maxDeliver = 0 THEN 1 ELSE call.maxDeliver

TypeOK ==
    /\ ToSet(ready) \subseteq Msgs /\ IsInjective(ready)
    /\ out \subseteq Msgs /\ out \intersect ToSet(ready) = {}
    /\ count \in [Msgs -> 0 .. MaxCount]
    /\ acked \subseteq Msgs
    /\ unsent \subseteq Msgs
    /\ done \in [Processes -> BOOLEAN]
    /\ pc \in [Processes -> {"top", "fetch", "decode", "send", "closed"}]
    /\ msgs \in [Processes -> SUBSET Msgs]
    /\ held \in [Processes -> SUBSET Msgs]
    /\ \A p \in Processes :
          /\ \A k \in DOMAIN chan[p] : chan[p][k] # {}
          /\ held[p] # {} <=> pc[p] = "send"
          /\ InMemory(p) \subseteq Msgs
    /\ running \in [Processes -> BOOLEAN]
    /\ call \in Calls
    /\ stops \in 0 .. MaxStops
    /\ expiries \in 0 .. MaxExpiries

-----------------------------------------------------------------------------
\* What an undelivered message may still be: the broker gives up a message that
\* was delivered maxDeliver times.
Exhausted(m) == call.maxDeliver # 0 /\ count[m] >= call.maxDeliver

\* The broker has S back: it delivers them again, before what it never delivered.
Requeue(S) ==
    LET back == SetToSeq({m \in S \intersect out : ~Exhausted(m)})
        fresh == {m \in ToSet(ready) : count[m] = 0}
    IN  /\ ready' = SelectSeq(ready, LAMBDA m : m \notin fresh) \o back
                    \o SelectSeq(ready, LAMBDA m : m \in fresh)
        /\ out' = out \ S

Init ==
    /\ call \in Calls
    /\ ready = <<>>
    /\ out = {}
    /\ count = [m \in Msgs |-> 0]
    /\ acked = {}
    /\ unsent = Msgs
    /\ done = [p \in Processes |-> FALSE]
    /\ pc = [p \in Processes |-> "top"]
    /\ msgs = [p \in Processes |-> {}]
    /\ held = [p \in Processes |-> {}]
    /\ chan = [p \in Processes |-> <<>>]
    /\ job = [p \in Processes |-> {}]
    /\ running = [p \in Processes |-> TRUE]
    /\ stops = 0
    /\ expiries = 0

Goto(p, s) == pc' = [pc EXCEPT ![p] = s]

\* A message is published.
Produce(m) ==
    /\ m \in unsent
    /\ unsent' = unsent \ {m}
    /\ ready' = Append(ready, m)
    /\ UNCHANGED <<out, count, acked, done, fetchVars, chan, handlerVars, bounds>>

\* for ctx.Err() == nil: the loop ends only here, and when a send is given up.
LoopTop(p) ==
    /\ pc[p] = "top"
    /\ Goto(p, IF done[p] THEN "closed" ELSE "fetch")
    /\ UNCHANGED <<brokerVars, done, msgs, held, chan, handlerVars, bounds>>

\* Fetch returns what the broker has, up to FetchSize messages.
Fetch(p) ==
    /\ pc[p] = "fetch"
    /\ ready # <<>>
    /\ LET k == IF Len(ready) < FetchSize THEN Len(ready) ELSE FetchSize
           S == ToSet(SubSeq(ready, 1, k))
       IN  /\ ready' = SubSeq(ready, k + 1, Len(ready))
           /\ out' = out \union S
           /\ count' = [m \in Msgs |->
                 IF m \in S /\ count[m] < MaxCount THEN count[m] + 1 ELSE count[m]]
           /\ msgs' = [msgs EXCEPT ![p] = S]
    /\ Goto(p, "decode")
    /\ UNCHANGED <<acked, unsent, done, held, chan, handlerVars, bounds>>

\* Fetch returns without messages, or with an error.
FetchEmpty(p) ==
    /\ pc[p] = "fetch"
    /\ Goto(p, "top")
    /\ UNCHANGED <<brokerVars, done, msgs, held, chan, handlerVars, bounds>>

\* What is decoded in one go: the whole fetch, or its next message.
Decoded(p) == IF call.batched THEN msgs[p] ELSE {CHOOSE m \in msgs[p] : TRUE}

\* Mutant of Decode: a message that cannot be decoded ends the pass.
DecodeUpToBad(p) ==
    /\ pc[p] = "decode"
    /\ msgs[p] # {}
    /\ LET bad == Decoded(p) \intersect Bad
       IN  /\ msgs' = [msgs EXCEPT ![p] = IF bad = {} THEN @ \ Decoded(p) ELSE {}]
           /\ held' = [held EXCEPT ![p] = IF bad = {} THEN Decoded(p) ELSE {}]
           /\ Requeue(bad)
           /\ Goto(p, IF bad = {} THEN "send" ELSE "decode")
    /\ UNCHANGED <<count, acked, unsent, done, chan, handlerVars, bounds>>

\* Messages are decoded; decode naks those it cannot, and the loop passes over
\* them.
Decode(p) ==
    /\ pc[p] = "decode"
    /\ msgs[p] # {}
    /\ msgs' = [msgs EXCEPT ![p] = @ \ Decoded(p)]
    /\ held' = [held EXCEPT ![p] = Decoded(p) \ Bad]
    /\ Requeue(Decoded(p) \intersect Bad)
    /\ Goto(p, IF Decoded(p) \subseteq Bad THEN "decode" ELSE "send")
    /\ UNCHANGED <<count, acked, unsent, done, chan, handlerVars, bounds>>

\* All that was fetched is passed on.
DecodeEnds(p) ==
    /\ pc[p] = "decode"
    /\ msgs[p] = {}
    /\ Goto(p, "top")
    /\ UNCHANGED <<brokerVars, done, msgs, held, chan, handlerVars, bounds>>

\* select, case out <- : the channel has room, or the handler waits at it.
Send(p) ==
    /\ pc[p] = "send"
    /\ Len(chan[p]) < ChanCap
    /\ chan' = [chan EXCEPT ![p] = Append(@, held[p])]
    /\ held' = [held EXCEPT ![p] = {}]
    /\ Goto(p, "decode")
    /\ UNCHANGED <<brokerVars, done, msgs, handlerVars, bounds>>

\* Mutant of GiveUp: the send does not look at the context.
GiveUpNever(p) == FALSE /\ UNCHANGED vars

\* Mutant of GiveUp: what is in the channel is nacked too.
GiveUpAll(p) ==
    /\ pc[p] = "send"
    /\ done[p]
    /\ Requeue(InMemory(p))
    /\ held' = [held EXCEPT ![p] = {}]
    /\ Goto(p, "closed")
    /\ UNCHANGED <<count, acked, unsent, done, msgs, chan, handlerVars, bounds>>

\* select, case <-ctx.Done() : what was to be sent is nacked.  The rest of the
\* fetch is forgotten.
GiveUp(p) ==
    /\ pc[p] = "send"
    /\ done[p]
    /\ Requeue(held[p])
    /\ held' = [held EXCEPT ![p] = {}]
    /\ msgs' = [msgs EXCEPT ![p] = {}]
    /\ Goto(p, "closed")
    /\ UNCHANGED <<count, acked, unsent, done, chan, handlerVars, bounds>>

\* ForEach takes the next message, or ForEachBatch the next batch.  With a
\* cancelled context it may also end (EndHandler).
Take(p) ==
    /\ running[p] /\ job[p] = {}
    /\ chan[p] # <<>>
    /\ job' = [job EXCEPT ![p] = Head(chan[p])]
    /\ chan' = [chan EXCEPT ![p] = Tail(@)]
    /\ UNCHANGED <<brokerVars, done, fetchVars, running, bounds>>

\* The handler acks one of the messages it has.
Finish(p, m) ==
    /\ m \in job[p]
    /\ job' = [job EXCEPT ![p] = @ \ {m}]
    /\ acked' = acked \union {m}
    /\ out' = out \ {m}
    /\ ready' = SelectSeq(ready, LAMBDA k : k # m)
    /\ UNCHANGED <<count, unsent, done, fetchVars, chan, running, bounds>>

\* ForEach returns: the context is cancelled, or the channel closed and empty.
EndHandler(p) ==
    /\ running[p] /\ job[p] = {}
    /\ done[p] \/ (pc[p] = "closed" /\ chan[p] = <<>>)
    /\ running' = [running EXCEPT ![p] = FALSE]
    /\ UNCHANGED <<brokerVars, done, fetchVars, chan, job, bounds>>

-----------------------------------------------------------------------------
\* SIGTERM: the context of process p is cancelled.
Cancel(p) ==
    /\ ~done[p] /\ stops < MaxStops
    /\ done' = [done EXCEPT ![p] = TRUE]
    /\ stops' = stops + 1
    /\ UNCHANGED <<brokerVars, fetchVars, chan, handlerVars, call, expiries>>

\* Process p starts with nothing in memory.
Fresh(p) ==
    /\ done' = [done EXCEPT ![p] = FALSE]
    /\ Goto(p, "top")
    /\ msgs' = [msgs EXCEPT ![p] = {}]
    /\ held' = [held EXCEPT ![p] = {}]
    /\ chan' = [chan EXCEPT ![p] = <<>>]
    /\ job' = [job EXCEPT ![p] = {}]
    /\ running' = [running EXCEPT ![p] = TRUE]
    /\ UNCHANGED <<brokerVars, call, expiries>>

\* Process p is started again after it ended.
Restart(p) == pc[p] = "closed" /\ ~running[p] /\ Fresh(p) /\ UNCHANGED stops

\* Process p is killed, and started again.
Crash(p) == stops < MaxStops /\ stops' = stops + 1 /\ Fresh(p)

\* AckWait runs out for a message that no process has any more.
Redeliver(m) ==
    /\ m \in out
    /\ \A p \in Processes : m \notin InMemory(p)
    /\ Requeue({m})
    /\ UNCHANGED <<count, acked, unsent, done, fetchVars, chan, handlerVars, bounds>>

\* It runs out while a process still has it.
Expire(m) ==
    /\ m \in out /\ expiries < MaxExpiries
    /\ \E p \in Processes : m \in InMemory(p)
    /\ Requeue({m})
    /\ expiries' = expiries + 1
    /\ UNCHANGED <<count, acked, unsent, done, fetchVars, chan, handlerVars, call, stops>>

FetchLoop(p) ==
    LoopTop(p) \/ Fetch(p) \/ Decode(p) \/ DecodeEnds(p) \/ Send(p) \/ GiveUp(p)

Handler(p) == Take(p) \/ \E m \in Msgs : Finish(p, m)

Next ==
    \/ \E p \in Processes :
          \/ FetchLoop(p) \/ FetchEmpty(p) \/ Handler(p) \/ EndHandler(p)
          \/ Cancel(p) \/ Restart(p) \/ Crash(p)
    \/ \E m \in Msgs : Produce(m) \/ Redeliver(m) \/ Expire(m)

Spec == Init /\ [][Next]_vars

(***************************************************************************)
(* The goroutines are scheduled; a fetch returns, for MaxWait bounds it,   *)
(* and not always empty while the broker has messages; a process that      *)
(* ended is started again; AckWait runs out.                               *)
(***************************************************************************)
FairSpec ==
    /\ Spec
    /\ \A p \in Processes :
          /\ WF_vars(FetchLoop(p) \/ FetchEmpty(p)) /\ SF_vars(Fetch(p))
          /\ WF_vars(Handler(p) \/ EndHandler(p)) /\ WF_vars(Restart(p))
    /\ \A m \in Msgs : WF_vars(Redeliver(m))

-----------------------------------------------------------------------------
\* How many messages process p has in memory, counting copies.
Load(p) ==
    Cardinality(msgs[p]) + Cardinality(held[p]) + Cardinality(job[p])
        + FoldFunction(LAMBDA S, n : Cardinality(S) + n, 0, chan[p])

(***************************************************************************)
(* As long as no AckWait ran out on a message that a process still has, a  *)
(* message is in the memory of one process at most, once, and the broker   *)
(* does not deliver it to another: what is nacked on cancellation is not   *)
(* in the channel at the same time.                                        *)
(***************************************************************************)
OneOwner ==
    expiries = 0 =>
        \A p \in Processes :
            /\ InMemory(p) \subseteq out
            /\ Load(p) = Cardinality(InMemory(p))
            /\ \A q \in Processes \ {p} : InMemory(p) \intersect InMemory(q) = {}

\* The broker will not deliver m any more, although nobody acked it.
GivenUp(m) ==
    /\ m \notin unsent \union ToSet(ready) \union out \union acked
    /\ \A p \in Processes : m \notin InMemory(p)

(***************************************************************************)
(* A message that can be decoded is handled in the end, although others    *)
(* cannot and are delivered again and again (fewer than a fetch returns),  *)
(* and although processes are stopped and started.  The broker may give it *)
(* up only when processes were stopped, or too slow, as often as it may be *)
(* delivered: no step of the loops forgets a message in a process that     *)
(* goes on.                                                                *)
(***************************************************************************)
GoodAreHandled ==
    \A m \in Msgs \ Bad :
        m \notin unsent ~>
            m \in acked \/ (GivenUp(m) /\ stops + expiries >= call.maxDeliver)

(***************************************************************************)
(* A process whose context is cancelled ends: the fetch loop does not wait *)
(* for ever at the channel of a handler loop that is gone.                 *)
(***************************************************************************)
CancelledEnds ==
    \A p \in Processes : done[p] ~> (~done[p] \/ (pc[p] = "closed" /\ ~running[p]))
=============================================================================

-------------------------- MODULE DeliveryScheduler --------------------------
(***************************************************************************)
(* The delivery scheduler: several instances share one table of scheduled  *)
(* notifications.  In each instance one goroutine stores the rows that     *)
(* NotificationsScheduledEvents ask for, one deletes the rows that cancel  *)
(* events name, and the dispatcher claims due rows by deleting them and    *)
(* publishes a due event for each.  A claimed row lives only in the memory *)
(* of its dispatcher until the events are stored or the rows are put back. *)
(***************************************************************************)
EXTENDS JetStream, FiniteSets

CONSTANTS
    Notifs,       \* the scheduled notifications
    ScheduledAt,  \* ScheduledAt[n]: the time n asks for
    MaxTime,      \* the clock stops there
    Schedules,    \* the NotificationsScheduledEvents
    Cancels,      \* the NotificationScheduleCancelledEvents
    ItemsOf,      \* ItemsOf[m]: the notifications message m is about
    Instances,    \* the processes
    Stops,        \* bound: which instances may be told to stop, and when
    Batch,        \* POLL_BATCH_SIZE
    MaxCopies,    \* bound on the unhandled deliveries of one message
    NoJob,        \* what an idle consumer handles
    FaultSets     \* the sets of adverse conditions to consider

(***************************************************************************)
(* "db"       a consumer's statement fails and is not applied              *)
(* "reply"    a statement is applied but its answer is lost                *)
(* "requeue"  putting claimed rows back fails                              *)
(* "publish"  publishing a batch fails, some of its events being stored    *)
(* "slow"     a message waits longer than AckWait in the process           *)
(* "settle"   an ack or nak does not reach the broker                      *)
(* "crash"    an instance dies and is started again                        *)
(* "stop"     an instance is told to stop and is started again             *)
(***************************************************************************)
FaultClasses == {"db", "reply", "requeue", "publish", "slow", "settle", "crash", "stop"}

Msgs == Schedules \union Cancels

ASSUME SchedulerAssumption ==
    /\ MaxTime \in Nat
    /\ ScheduledAt \in [Notifs -> 0 .. MaxTime]
    /\ Schedules \intersect Cancels = {}
    /\ ItemsOf \in [Msgs -> SUBSET Notifs]
    /\ Batch \in Nat \ {0}
    /\ MaxCopies \in Nat \ {0}
    /\ Stops \subseteq Instances \X Nat
    /\ NoJob \notin Msgs

\* The durable consumers; each instance runs a goroutine for either.
Durables == {"ds-scheduled", "ds-cancel"}

DurableOf(m) == IF m \in Schedules THEN "ds-scheduled" ELSE "ds-cancel"

Goroutines == Instances \X Durables

VARIABLES
    faults,   \* the adverse conditions this behaviour may meet
    now,         \* the clock
    table,       \* the notifications with a row in scheduled_notifications
    queue,       \* queue[m]: message m as JetStream sees it
    buffer,      \* buffer[i][m]: deliveries of m waiting in instance i
    up,          \* up[i]: the context of instance i is not cancelled
    pc,          \* pc[g]: the call goroutine g makes next
    job,         \* job[g]: the message goroutine g handles
    verdict,     \* verdict[g]: how it will be settled
    dpc,         \* dpc[i]: the call the dispatcher of i makes next
    claimed,     \* claimed[i]: the rows the dispatcher of i holds
    dispatched,  \* history: due events stored for n; 2 is two or more
    removed      \* history: the notifications whose row a cancel deleted

consumerVars == <<queue, buffer, pc, job, verdict>>
dispatcherVars == <<dpc, claimed, dispatched>>
vars == <<faults, now, table, up, consumerVars, dispatcherVars, removed>>

TypeOK ==
    /\ faults \in FaultSets
    /\ now \in 0 .. MaxTime
    /\ table \subseteq Notifs
    /\ queue \in [Msgs -> [st : QueueStatus, count : Nat]]
    /\ buffer \in [Instances -> [Msgs -> 0 .. MaxCopies]]
    /\ up \in [Instances -> BOOLEAN]
    /\ pc \in [Goroutines -> {"idle", "write", "settle", "halted"}]
    /\ job \in [Goroutines -> Msgs \union {NoJob}]
    /\ \A g \in Goroutines :
          pc[g] \in {"write", "settle"} => job[g] \in Msgs /\ DurableOf(job[g]) = g[2]
    /\ verdict \in [Goroutines -> {"ack", "nak"}]
    /\ dpc \in [Instances -> {"idle", "publish", "requeue"}]
    /\ claimed \in [Instances -> SUBSET Notifs]
    /\ \A i \in Instances : dpc[i] = "idle" <=> claimed[i] = {}
    /\ dispatched \in [Notifs -> 0 .. 2]
    /\ removed \subseteq Notifs

Init ==
    /\ faults \in FaultSets
    /\ now = 0
    /\ table = {}
    /\ queue = [m \in Msgs |-> Unpublished]
    /\ buffer = [i \in Instances |-> [m \in Msgs |-> 0]]
    /\ up = [i \in Instances |-> TRUE]
    /\ pc = [g \in Goroutines |-> "idle"]
    /\ job = [g \in Goroutines |-> NoJob]
    /\ verdict = [g \in Goroutines |-> "nak"]
    /\ dpc = [i \in Instances |-> "idle"]
    /\ claimed = [i \in Instances |-> {}]
    /\ dispatched = [n \in Notifs |-> 0]
    /\ removed = {}

-----------------------------------------------------------------------------
Tick ==
    /\ now < MaxTime
    /\ now' = now + 1
    /\ UNCHANGED <<faults, table, up, consumerVars, dispatcherVars, removed>>

\* The API publishes message m.  Nothing orders the event that schedules a
\* notification and the one that cancels it: they are on different subjects.
Store(m) ==
    /\ queue[m].st = "none"
    /\ queue' = [queue EXCEPT ![m] = Stored(@)]
    /\ UNCHANGED <<faults, now, table, up, buffer, pc, job, verdict, dispatcherVars, removed>>

\* The fetch loop of Subscribe; neither durable has a MaxDeliver.
Fetch(i, m) ==
    /\ up[i]
    /\ Deliverable(queue[m], 0)
    /\ buffer[i][m] < MaxCopies
    /\ queue' = [queue EXCEPT ![m] = Delivered(@, 0)]
    /\ buffer' = [buffer EXCEPT ![i][m] = @ + 1]
    /\ UNCHANGED <<faults, now, table, up, pc, job, verdict, dispatcherVars, removed>>

\* A delivery of m is in the memory of some instance.
Live(m) ==
    \/ \E i \in Instances : buffer[i][m] > 0
    \/ \E g \in Goroutines : pc[g] \in {"write", "settle"} /\ job[g] = m

AckWaitExpires(m) ==
    /\ queue[m].st = "inflight"
    /\ "slow" \in faults \/ ~ Live(m)
    /\ queue' = [queue EXCEPT ![m] = TimedOut(@)]
    /\ UNCHANGED <<faults, now, table, up, buffer, pc, job, verdict, dispatcherVars, removed>>

-----------------------------------------------------------------------------
\* ForEach hands over the next message, also when the context is cancelled
\* but the select has picked the channel.
Take(g, m) ==
    /\ pc[g] = "idle"
    /\ DurableOf(m) = g[2]
    /\ buffer[g[1]][m] > 0
    /\ buffer' = [buffer EXCEPT ![g[1]][m] = @ - 1]
    /\ job' = [job EXCEPT ![g] = m]
    /\ pc' = [pc EXCEPT ![g] = "write"]
    /\ UNCHANGED <<faults, now, table, up, queue, verdict, dispatcherVars, removed>>

\* The statements of the two handlers.
UpsertAll(S) == table' = table \union S /\ UNCHANGED removed

DeleteByNotificationID(S) ==
    /\ table' = table \ S
    /\ removed' = removed \union (S \intersect table)

Handle(m) ==
    IF m \in Schedules THEN UpsertAll(ItemsOf[m]) ELSE DeleteByNotificationID(ItemsOf[m])

\* Mutant of Write: the statement's error is not looked at.
WriteErrorIgnored(g) ==
    /\ pc[g] = "write"
    /\ Handle(job[g]) \/ ("db" \in faults /\ UNCHANGED <<table, removed>>)
    /\ pc' = [pc EXCEPT ![g] = "settle"]
    /\ verdict' = [verdict EXCEPT ![g] = "ack"]
    /\ UNCHANGED <<faults, now, up, queue, buffer, job, dispatcherVars>>

\* handleScheduledEvents and handleCancelEvent run their statement in the
\* message's context: an error, or a cancelled context, makes them nak.
Write(g) ==
    /\ pc[g] = "write"
    /\ \/ /\ up[g[1]]
          /\ Handle(job[g])
          /\ verdict' = [verdict EXCEPT ![g] = "ack"]
       \/ /\ \/ {"db", "reply"} \intersect faults # {}
             \/ ~ up[g[1]]
          /\ \/ ("db" \in faults \/ ~ up[g[1]]) /\ UNCHANGED <<table, removed>>
             \/ ("reply" \in faults \/ ~ up[g[1]]) /\ Handle(job[g])
          /\ verdict' = [verdict EXCEPT ![g] = "nak"]
    /\ pc' = [pc EXCEPT ![g] = "settle"]
    /\ UNCHANGED <<faults, now, up, queue, buffer, job, dispatcherVars>>

\* Mutant of Settle: the goroutine does not go back to its channel.
SettlesAndGoesOn(g) ==
    /\ pc[g] = "settle"
    /\ queue' = [queue EXCEPT ![job[g]] = IF verdict[g] = "ack" THEN Acked(@) ELSE Naked(@)]
    /\ job' = [job EXCEPT ![g] = NoJob]
    /\ UNCHANGED <<faults, now, table, up, buffer, pc, verdict, dispatcherVars, removed>>

\* The handlers end with an Ack or a Nak whose error is ignored; ForEach goes
\* round its loop or leaves it.
Settle(g) ==
    /\ pc[g] = "settle"
    /\ \/ queue' = [queue EXCEPT ![job[g]] = IF verdict[g] = "ack" THEN Acked(@)
                                                                  ELSE Naked(@)]
       \/ "settle" \in faults /\ UNCHANGED queue
    /\ pc' = [pc EXCEPT ![g] = IF up[g[1]] THEN "idle" ELSE "halted"]
    /\ job' = [job EXCEPT ![g] = NoJob]
    /\ verdict' = [verdict EXCEPT ![g] = "nak"]
    /\ UNCHANGED <<faults, now, table, up, buffer, dispatcherVars, removed>>

-----------------------------------------------------------------------------
\* Mutant of Due: rows are claimed whatever their time.
DueAtOnce == table

\* WHERE scheduled_at <= now.
Due == {n \in table : ScheduledAt[n] <= now}

\* The rows the claiming statement may select: the first Batch due rows by
\* scheduled_at, passing over those another instance's statement has locked.
Claimable(i) ==
    {S \in SUBSET Due :
        \E locked \in IF Instances = {i} THEN {{}} ELSE SUBSET (Due \ S) :
            LET free == Due \ locked IN
            /\ S # {}
            /\ Cardinality(S) = IF Cardinality(free) < Batch THEN Cardinality(free)
                                                             ELSE Batch
            /\ \A n \in S, k \in free \ S : ScheduledAt[n] <= ScheduledAt[k]}

\* Mutant of Claim: the rows are selected first and deleted when published.
ClaimWithoutDelete(i) ==
    /\ dpc[i] = "idle"
    /\ up[i]
    /\ \E S \in Claimable(i) : claimed' = [claimed EXCEPT ![i] = S]
    /\ dpc' = [dpc EXCEPT ![i] = "publish"]
    /\ UNCHANGED <<faults, now, table, up, consumerVars, dispatched, removed>>

\* The dispatcher's Tick claims rows with one DELETE ... RETURNING.  When its
\* answer is lost, or the context is cancelled meanwhile, so are the rows.
Claim(i) ==
    /\ dpc[i] = "idle"
    /\ \E S \in Claimable(i) :
          /\ table' = table \ S
          /\ \/ /\ up[i]
                /\ claimed' = [claimed EXCEPT ![i] = S]
                /\ dpc' = [dpc EXCEPT ![i] = "publish"]
             \/ /\ "reply" \in faults \/ ~ up[i]
                /\ UNCHANGED <<claimed, dpc>>
    /\ UNCHANGED <<faults, now, up, consumerVars, dispatched, removed>>

\* Due events are stored for the notifications in S.
StoreDue(S) ==
    dispatched' = [n \in Notifs |->
                      IF n \in S /\ dispatched[n] < 2 THEN dispatched[n] + 1
                                                      ELSE dispatched[n]]

\* Mutant of PublishBatch: a failed batch is only logged.
PublishesBestEffort(i) ==
    /\ dpc[i] = "publish"
    /\ \E S \in SUBSET claimed[i] :
          /\ S = claimed[i] \/ "publish" \in faults
          /\ StoreDue(S)
    /\ claimed' = [claimed EXCEPT ![i] = {}]
    /\ dpc' = [dpc EXCEPT ![i] = "idle"]
    /\ UNCHANGED <<faults, now, table, up, consumerVars, removed>>

\* PublishBatch sends every event before it waits for the broker's answers.
\* An error, or a context cancelled while it waits, says nothing about which
\* events were stored.
PublishBatch(i) ==
    /\ dpc[i] = "publish"
    /\ \/ /\ StoreDue(claimed[i])
          /\ claimed' = [claimed EXCEPT ![i] = {}]
          /\ dpc' = [dpc EXCEPT ![i] = "idle"]
       \/ /\ "publish" \in faults \/ ~ up[i]
          /\ \E S \in SUBSET claimed[i] : StoreDue(S)
          /\ dpc' = [dpc EXCEPT ![i] = "requeue"]
          /\ UNCHANGED claimed
    /\ UNCHANGED <<faults, now, table, up, consumerVars, removed>>

\* After a failed batch Tick puts every row back, in the same context; when
\* that fails too the error is logged and the rows are forgotten.
Requeue(i) ==
    /\ dpc[i] = "requeue"
    /\ \/ up[i] /\ table' = table \union claimed[i]
       \/ ("requeue" \in faults \/ ~ up[i]) /\ table' \in {table, table \union claimed[i]}
    /\ claimed' = [claimed EXCEPT ![i] = {}]
    /\ dpc' = [dpc EXCEPT ![i] = "idle"]
    /\ UNCHANGED <<faults, now, up, consumerVars, dispatched, removed>>

-----------------------------------------------------------------------------
\* The context is cancelled.  Either fetch loop naks at most the one delivery
\* it is handing over; the rest of a fetch is forgotten.
Stop(i) ==
    /\ "stop" \in faults
    /\ <<i, now>> \in Stops
    /\ up[i]
    /\ up' = [up EXCEPT ![i] = FALSE]
    /\ \E naked \in SUBSET {m \in Msgs : buffer[i][m] > 0} :
          /\ \A l, m \in naked : DurableOf(l) = DurableOf(m) => l = m
          /\ buffer' = [buffer EXCEPT ![i] =
                           [m \in Msgs |-> IF m \in naked THEN @[m] - 1 ELSE @[m]]]
          /\ queue' = [m \in Msgs |-> IF m \in naked THEN Naked(queue[m]) ELSE queue[m]]
    /\ UNCHANGED <<faults, now, table, pc, job, verdict, dispatcherVars, removed>>

\* ForEach sees the cancelled context and returns.
Halt(g) ==
    /\ ~ up[g[1]]
    /\ pc[g] = "idle"
    /\ pc' = [pc EXCEPT ![g] = "halted"]
    /\ UNCHANGED <<faults, now, table, up, queue, buffer, job, verdict, dispatcherVars, removed>>

\* Instance i starts with empty channels and idle goroutines.
Fresh(i) ==
    /\ up' = [up EXCEPT ![i] = TRUE]
    /\ buffer' = [buffer EXCEPT ![i] = [m \in Msgs |-> 0]]
    /\ pc' = [g \in Goroutines |-> IF g[1] = i THEN "idle" ELSE pc[g]]
    /\ job' = [g \in Goroutines |-> IF g[1] = i THEN NoJob ELSE job[g]]
    /\ verdict' = [g \in Goroutines |-> IF g[1] = i THEN "nak" ELSE verdict[g]]
    /\ dpc' = [dpc EXCEPT ![i] = "idle"]
    /\ claimed' = [claimed EXCEPT ![i] = {}]
    /\ UNCHANGED <<faults, now, table, queue, dispatched, removed>>

\* All goroutines of i have returned; the process ends and is started again.
Restart(i) ==
    /\ ~ up[i]
    /\ dpc[i] = "idle"
    /\ \A d \in Durables : pc[<<i, d>>] = "halted"
    /\ Fresh(i)

\* The process dies where it stands and is started again.
Crash(i) == "crash" \in faults /\ Fresh(i)

-----------------------------------------------------------------------------
Consume(g) == (\E m \in Msgs : Take(g, m)) \/ Write(g) \/ Settle(g) \/ Halt(g)

Dispatch(i) == Claim(i) \/ PublishBatch(i) \/ Requeue(i)

Next ==
    \/ Tick
    \/ \E m \in Msgs : Store(m) \/ AckWaitExpires(m) \/ \E i \in Instances : Fetch(i, m)
    \/ \E g \in Goroutines : Consume(g)
    \/ \E i \in Instances : Dispatch(i) \/ Stop(i) \/ Restart(i) \/ Crash(i)

Spec == Init /\ [][Next]_vars

\* Time passes, the broker's timers run out, neither the consumers of a durable
\* nor the dispatchers all stand still, and what has to succeed for a schedule to
\* be dispatched, and is tried again for ever, succeeds at last.
Fairness ==
    /\ WF_vars(Tick)
    /\ \A e \in Schedules :
          /\ WF_vars(AckWaitExpires(e))
          /\ SF_vars(\E i \in Instances : Fetch(i, e))
          /\ SF_vars(\E g \in Goroutines : Write(g) /\ job[g] = e /\ verdict'[g] = "ack")
          /\ SF_vars(\E g \in Goroutines : Settle(g) /\ queue[e].st # "gone" /\ queue'[e].st = "gone")
    /\ \A d \in Durables : WF_vars(\E i \in Instances : Consume(<<i, d>>))
    /\ WF_vars(\E i \in Instances : Dispatch(i))
    /\ SF_vars(\E i \in Instances : PublishBatch(i) /\ dpc'[i] = "idle")

FairSpec == Spec /\ Fairness

-----------------------------------------------------------------------------
(***************************************************************************)
(* Safety.                                                                 *)
(***************************************************************************)

\* No due event is published before scheduled_at, whatever is redelivered,
\* put back or lost (DeleteByScheduledAtBeforeReturning).
NeverEarly == \A n \in Notifs : dispatched[n] > 0 => ScheduledAt[n] <= now

\* A notification whose scheduling event was acked is in the table, in a
\* dispatcher's hands or dispatched, unless a cancel deleted its row: failed
\* statements and failed batches lose nothing (Tick, handleScheduledEvents)
\* while claims are answered, rows can be put back and nobody stops or dies.
ScheduleNotLost ==
    {"reply", "requeue", "stop", "crash"} \intersect faults = {} =>
    \A e \in Schedules : queue[e].st = "gone" =>
        \A n \in ItemsOf[e] :
            \/ n \in table \union removed
            \/ dispatched[n] > 0
            \/ \E i \in Instances : n \in claimed[i]

\* A notification is dispatched once, however many instances poll the table,
\* while publishing works and every ack arrives in time.
DispatchedOnce ==
    {"slow", "settle", "reply", "publish", "stop", "crash"} \intersect faults = {} =>
        \A n \in Notifs : dispatched[n] <= 1

\* A cancel that found the row is final: no batch that is put back and no
\* statement that is retried dispatches the notification afterwards.
RemovedStaysOut ==
    [][{"slow", "settle", "reply", "stop", "crash"} \intersect faults = {} =>
          \A n \in removed : dispatched'[n] = dispatched[n]]_vars

(***************************************************************************)
(* Liveness.                                                               *)
(***************************************************************************)

\* Every notification of event e has been dispatched, or a cancel deleted it.
Dispatched(e) == \A n \in ItemsOf[e] : dispatched[n] > 0 \/ n \in removed

\* Every scheduled notification is dispatched in the end, unless a cancel
\* deletes its row: while statements and batches fail, messages are delivered
\* again and acks are lost, but no claimed row disappears (Tick).
EventuallyDispatched ==
    \A e \in Schedules :
        faults \subseteq {"db", "publish", "slow", "settle"} /\ queue[e].st = "ready"
            ~> Dispatched(e)
=============================================================================

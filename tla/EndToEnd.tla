------------------------------ MODULE EndToEnd ------------------------------
(***************************************************************************)
(* The services together.  Each component keeps the variables and actions  *)
(* of its own module; here the environment of one is the other.  An action *)
(* that publishes is one step with the arrival of the message in the queue *)
(* of its consumer, for that is the moment JetStream stores it:            *)
(*                                                                         *)
(*   the API announces a notification      ->  scheduler, or processor     *)
(*   the API withdraws one                 ->  scheduler                   *)
(*   the scheduler dispatches one          ->  the API's due consumer      *)
(*   the due consumer readies one          ->  processor                   *)
(*   the processor reports on one          ->  the API's result consumer   *)
(*                                                                         *)
(* The adverse conditions are those of the components, by name.            *)
(***************************************************************************)
EXTENDS JetStream, FiniteSets

CONSTANTS
    Notifs,             \* the notifications
    Scheduled,          \* those with a deliver_after
    ScheduledAt,        \* ScheduledAt[n]: the time n asks for
    MaxTime,            \* the clock stops there
    Requests,           \* the HTTP requests
    Duplicates,         \* bound on the messages of one kind a message leads to
    Attempts,           \* max_attempts of every event, and MAX_ATTEMPTS
    Process,            \* the API process
    Instances,          \* the scheduler processes
    Workers,            \* the processor's workers
    Nothing,            \* what an idle goroutine holds
    FaultSets           \* the sets of adverse conditions to consider

ASSUME EndToEndAssumption ==
    /\ Scheduled \subseteq Notifs
    /\ MaxTime \in Nat
    /\ ScheduledAt \in [Notifs -> 0 .. MaxTime]
    /\ \A n \in Notifs \ Scheduled : ScheduledAt[n] = 0
    /\ Duplicates \in 1 .. 2
    /\ Attempts \in Nat \ {0}

\* What the API publishes for the scheduler.
Schedules == [kind : {"scheduled"}, by : Requests, items : (SUBSET Scheduled) \ {{}}]
Cancels == [kind : {"cancelled"}, by : Requests, items : {{n} : n \in Notifs}]

\* The due events of the scheduler, the nth for its notification.
DueMsgs == [notif : Scheduled, nth : 1 .. Duplicates]

\* The ready events: one from the API, or the nth on behalf of a due event.
AtOnce(n) == [notif |-> n, due |-> 0, nth |-> 1]
ReadyMsgs ==
    {AtOnce(n) : n \in Notifs \ Scheduled}
    \union [notif : Scheduled, due : 1 .. Duplicates, nth : 1 .. Duplicates]

\* The status events of the processor.
Results == [msg : ReadyMsgs, attempt : 1 .. Attempts + 1, status : {"delivered", "failed"}]

ASSUME NothingIsNoMessage ==
    /\ Nothing \notin Results
    /\ Nothing \notin Schedules \union Cancels
    /\ Nothing \notin [msg : ReadyMsgs, attempt : Nat]

VARIABLES
    faults,
    row, past, announced, withdrawn, rpc, op, todo, reply, accepted,
    rqueue, rbuffer, cpc, cjob, cverdict,
    now, table, squeue, sbuffer, sup, spc, sjob, sverdict, dpc, claimed, dispatched, removed,
    dqueue, batches, phase, batch, found, dverdict, readied,
    pqueue, pbuffer, pup, ppc, pjob, pverdict, keys, calls, events

Api == INSTANCE NotificationService WITH
    pc <- rpc, queue <- rqueue, buffer <- rbuffer, NoResult <- Nothing, MaxCopies <- 1,
    Consumers <- {Process},
    ResultOf <- [e \in Results |-> [notif |-> e.msg.notif, status |-> e.status]]

Sched == INSTANCE DeliveryScheduler WITH
    Notifs <- Scheduled, ScheduledAt <- [n \in Scheduled |-> ScheduledAt[n]],
    ItemsOf <- [m \in Schedules \union Cancels |-> m.items \intersect Scheduled],
    queue <- squeue, buffer <- sbuffer, up <- sup, pc <- spc, job <- sjob, verdict <- sverdict,
    Stops <- Instances \X (0 .. MaxTime), Batch <- 1, MaxCopies <- 1,
    NoJob <- Nothing

Due == INSTANCE ScheduledDue WITH
    Notifs <- Scheduled, Rows <- Scheduled, Msgs <- DueMsgs,
    NotifOf <- [m \in DueMsgs |-> m.notif],
    Consumers <- {Process}, BatchSize <- 2, Waiting <- 1, queue <- dqueue, verdict <- dverdict

Pipe == INSTANCE DeliveryPipeline WITH
    Msgs <- ReadyMsgs, NotifOf <- [m \in ReadyMsgs |-> m.notif],
    EvtMaxAttempts <- [n \in Notifs |-> Attempts], ConfigMaxAttempts <- Attempts,
    NoJob <- Nothing,
    queue <- pqueue, buffer <- pbuffer, up <- pup, pc <- ppc, job <- pjob, verdict <- pverdict

apiVars == <<row, past, announced, withdrawn, rpc, op, todo, reply, accepted,
             rqueue, rbuffer, cpc, cjob, cverdict>>
schedulerVars == <<now, table, squeue, sbuffer, sup, spc, sjob, sverdict, dpc, claimed,
                   dispatched, removed>>
dueVars == <<dqueue, batches, phase, batch, found, dverdict, readied>>
processorVars == <<pqueue, pbuffer, pup, ppc, pjob, pverdict, keys, calls, events>>
vars == <<faults, apiVars, schedulerVars, dueVars, processorVars>>

Init == Api!Init /\ Sched!Init /\ Due!Init /\ Pipe!Init

-----------------------------------------------------------------------------
\* Steps of one component that concern no other.
OfApi(A) == A /\ UNCHANGED <<schedulerVars, dueVars, processorVars>>
OfScheduler(A) == A /\ UNCHANGED <<apiVars, dueVars, processorVars>>
OfDue(A) == A /\ UNCHANGED <<apiVars, schedulerVars, processorVars>>
OfProcessor(A) == A /\ UNCHANGED <<apiVars, schedulerVars, dueVars>>

\* The API's publish reaches the scheduler or the processor.
Announce(r) ==
    /\ Api!publish(r)
    /\ LET new == announced' \ announced IN
       \/ new = {} /\ UNCHANGED <<schedulerVars, processorVars>>
       \/ /\ new \intersect Scheduled # {}
          /\ Sched!Store([kind |-> "scheduled", by |-> r, items |-> new])
          /\ UNCHANGED processorVars
       \/ /\ \E n \in new \ Scheduled : Pipe!Store(AtOnce(n))
          /\ UNCHANGED schedulerVars
    /\ UNCHANGED dueVars

\* The cancel event of request r reaches the scheduler; when publishing it
\* failed and an earlier one was stored already, it may or may not have.
Withdraw(r) ==
    /\ Api!PublishCancelled(r)
    /\ \/ /\ Api!Target(r) \in withdrawn'
          /\ Sched!Store([kind |-> "cancelled", by |-> r, items |-> op[r].items])
       \/ /\ reply'[r] # 200
          /\ withdrawn' = withdrawn
          /\ UNCHANGED schedulerVars
    /\ UNCHANGED <<dueVars, processorVars>>

\* A turn of the handler of request r.
Serve(r) ==
    \/ Announce(r)
    \/ Withdraw(r)
    \/ OfApi(Api!persist(r) \/ Api!ReadForCancel(r) \/ Api!WriteCancelled(r))

\* The events of a batch the dispatcher publishes reach the due consumer.
DispatchDue(i) ==
    /\ Sched!PublishBatch(i)
    /\ dqueue' = [m \in DueMsgs |->
                     IF dispatched[m.notif] < m.nth /\ m.nth <= dispatched'[m.notif]
                     THEN Stored(dqueue[m]) ELSE dqueue[m]]
    /\ UNCHANGED <<batches, phase, batch, found, dverdict, readied>>
    /\ UNCHANGED <<apiVars, processorVars>>

Dispatch(i) == DispatchDue(i) \/ OfScheduler(Sched!Claim(i) \/ Sched!Requeue(i))

\* The due consumer's ready event reaches the processor.
Ready(m) ==
    /\ Due!Each(Process, m)
    /\ IF readied[m] < readied'[m] /\ readied'[m] <= Duplicates
       THEN Pipe!Store([notif |-> m.notif, due |-> m.nth, nth |-> readied'[m]])
       ELSE UNCHANGED processorVars
    /\ UNCHANGED <<apiVars, schedulerVars>>

HandleDue ==
    \/ \E m \in DueMsgs : Ready(m)
    \/ OfDue(Due!Take(Process) \/ Due!Lookup(Process) \/ Due!Settle(Process))

\* The processor's status event reaches the result consumer.
ReportBack(w) ==
    /\ Pipe!publishStatus(w)
    /\ IF events' = events THEN UNCHANGED apiVars
                           ELSE \E e \in events' \ events : Api!Report(e)
    /\ UNCHANGED <<schedulerVars, dueVars>>

Work(w) ==
    \/ ReportBack(w)
    \/ OfProcessor(\E c \in pbuffer : Pipe!Take(w, c))
    \/ OfProcessor(Pipe!TryLock(w) \/ Pipe!applyRateLimit(w) \/ Pipe!Send(w))
    \/ OfProcessor(Pipe!Unlock(w) \/ Pipe!processOne(w) \/ Pipe!Halt(w))

\* The broker and its timers, message by message.
CarryResult(e) == OfApi(Api!Fetch(e) \/ Api!AckWaitExpires(e))

CarryToScheduler(m) ==
    OfScheduler(Sched!AckWaitExpires(m) \/ \E i \in Instances : Sched!Fetch(i, m))

CarryDue == OfDue(Due!FetchBatch(Process) \/ \E m \in DueMsgs : Due!AckWaitExpires(m))

CarryReady(m) == OfProcessor(Pipe!Broker(m))

\* The API process dies, with its requests, its result consumer and its due
\* consumer, and is started again.
CrashApi ==
    /\ Api!Crash
    /\ Due!Crash(Process)
    /\ UNCHANGED <<schedulerVars, processorVars>>

\* Processes end and start; the scheduler and the processor also gracefully.
ProcessStep ==
    \/ CrashApi
    \/ \E i \in Instances : OfScheduler(Sched!Stop(i) \/ Sched!Restart(i) \/ Sched!Crash(i))
    \/ OfProcessor(Pipe!Stop \/ Pipe!Restart \/ Pipe!Crash)

Next ==
    \/ \E r \in Requests : OfApi(Api!Arrive(r)) \/ Serve(r)
    \/ OfApi(Api!Consume(Process))
    \/ OfScheduler(Sched!Tick)
    \/ \E g \in Sched!Goroutines : OfScheduler(Sched!Consume(g))
    \/ \E i \in Instances : Dispatch(i)
    \/ HandleDue
    \/ \E w \in Workers : Work(w)
    \/ \E n \in Notifs : OfProcessor(Pipe!LockExpires(n))
    \/ \E e \in Results : CarryResult(e)
    \/ \E m \in Sched!Msgs : CarryToScheduler(m)
    \/ CarryDue
    \/ \E m \in ReadyMsgs : CarryReady(m)
    \/ ProcessStep

Spec == Init /\ [][Next]_vars

\* Goroutines run, time passes and the broker delivers.  Nothing is assumed
\* about statements or calls that may fail: where they may, Fairness is too
\* weak to promise an outcome.
Fairness ==
    /\ \A r \in Requests : WF_vars(Serve(r))
    /\ WF_vars(OfApi(Api!Consume(Process)))
    /\ WF_vars(OfScheduler(Sched!Tick))
    /\ \A g \in Sched!Goroutines : WF_vars(OfScheduler(Sched!Consume(g)))
    /\ \A i \in Instances : WF_vars(Dispatch(i))
    /\ WF_vars(HandleDue)
    /\ \A w \in Workers : WF_vars(Work(w))
    /\ \A e \in Results : WF_vars(CarryResult(e))
    /\ \A m \in Sched!Msgs : WF_vars(CarryToScheduler(m))
    /\ WF_vars(CarryDue)
    /\ \A m \in ReadyMsgs : WF_vars(CarryReady(m))

FairSpec == Spec /\ Fairness

-----------------------------------------------------------------------------
Called(n) == \E c \in calls : c.msg.notif = n

AcceptedByProvider(n) == \E c \in calls : c.msg.notif = n /\ c.accepted

Life == INSTANCE NotificationLife WITH
    NotBefore <- ScheduledAt,
    clock <- now,
    status <- row,
    verdict <- [n \in Notifs |->
                   CASE "delivered" \in past[n] -> "delivered"
                     [] "delivered" \notin past[n] /\ "failed" \in past[n] -> "failed"
                     [] OTHER -> "none"],
    tried <- {n \in Notifs : Called(n)},
    sent <- {n \in Notifs : AcceptedByProvider(n)}

\* The services together keep the promise of NotificationLife: nothing is sent
\* before it is stored or before its time, and the row records an outcome only
\* when the provider's answers support it, and never two.
ImplementsLife == Life!Spec

\* Acks arrive in time, answers and events arrive at all, and nothing stops or
\* dies; statements, locks and rate limits may fail.
NothingLost == {"slow", "settle", "reply", "publish", "stop", "crash"} \intersect faults = {}

\* While nothing is lost and the provider answers, it accepts a notification
\* once, whichever way the notification came.
AcceptedOnce ==
    NothingLost /\ "timeout" \notin faults =>
    \A c, d \in calls : c.accepted /\ d.accepted /\ c.msg.notif = d.msg.notif => c = d

\* While nothing is lost, a notification whose schedule row a cancel deleted
\* never reaches the provider.
RemovedIsNotSent == NothingLost => \A n \in removed : ~ Called(n)

\* What a client was told is created gets an outcome or is cancelled, also when
\* the provider times out or a lock expires under its worker, while the
\* statements of the other services succeed.
AcceptedIsResolved ==
    \A n \in Notifs :
        faults \subseteq {"ttl", "timeout"} /\ n \in accepted
            ~> row[n] \notin {"absent", "pending"}

(***************************************************************************)
(* A claim of the documents that the code does not keep.                   *)
(***************************************************************************)

\* "cancelled -- cancelled via API before delivery" (api/README.md:132): once a
\* client was told that its notification is cancelled, it is not sent any more.
CancelledIsNotSent ==
    [][\A r \in Requests :
          reply[r] = 200 =>
              LET n == Api!Target(r) IN Called(n)' => Called(n)]_vars
=============================================================================

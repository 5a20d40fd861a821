--------------------------- MODULE EndToEndProofs ---------------------------
(***************************************************************************)
(* The services together keep the promise of NotificationLife, for any     *)
(* number of notifications, requests and processes and under every fault.  *)
(* None of the hand-overs between them loses a notification, and while     *)
(* nothing is lost none repeats it.                                        *)
(*                                                                         *)
(* The proof composes what the components' modules prove of their own      *)
(* steps.  Those modules are instantiated here as the components are in    *)
(* EndToEnd; that both instances of an action are the same is a lemma for  *)
(* each component.                                                         *)
(***************************************************************************)
EXTENDS EndToEnd, TLAPS

Service == INSTANCE NotificationServiceProofs WITH
    pc <- rpc, queue <- rqueue, buffer <- rbuffer, NoResult <- Nothing, MaxCopies <- 1,
    Consumers <- {Process},
    ResultOf <- [e \in Results |-> [notif |-> e.msg.notif, status |-> e.status]]

Scheduler == INSTANCE DeliverySchedulerProofs WITH
    Notifs <- Scheduled, ScheduledAt <- [n \in Scheduled |-> ScheduledAt[n]],
    ItemsOf <- [m \in Schedules \union Cancels |-> m.items \intersect Scheduled],
    queue <- squeue, buffer <- sbuffer, up <- sup, pc <- spc, job <- sjob, verdict <- sverdict,
    Stops <- Instances \X (0 .. MaxTime), Batch <- 1, MaxCopies <- 1,
    NoJob <- Nothing

DueConsumer == INSTANCE ScheduledDueProofs WITH
    Notifs <- Scheduled, Rows <- Scheduled, Msgs <- DueMsgs,
    NotifOf <- [m \in DueMsgs |-> m.notif],
    Consumers <- {Process}, BatchSize <- 2, Waiting <- 1, queue <- dqueue, verdict <- dverdict

Processor == INSTANCE DeliveryPipelineProofs WITH
    Msgs <- ReadyMsgs, NotifOf <- [m \in ReadyMsgs |-> m.notif],
    EvtMaxAttempts <- [n \in Notifs |-> Attempts], ConfigMaxAttempts <- Attempts,
    NoJob <- Nothing,
    queue <- pqueue, buffer <- pbuffer, up <- pup, pc <- ppc, job <- pjob, verdict <- pverdict

-----------------------------------------------------------------------------
(***************************************************************************)
(* The components of EndToEnd are those the proofs are about.              *)
(***************************************************************************)

\* The steps a component takes by itself.
ApiStep ==
    \/ \E r \in Requests : Api!Arrive(r) \/ Api!Serve(r)
    \/ \E e \in Results : Api!Fetch(e) \/ Api!AckWaitExpires(e)
    \/ Api!Consume(Process)
    \/ Api!Crash

SchedulerStep ==
    \/ Sched!Tick
    \/ \E m \in Sched!Msgs : Sched!AckWaitExpires(m) \/ \E i \in Instances : Sched!Fetch(i, m)
    \/ \E g \in Sched!Goroutines : Sched!Consume(g)
    \/ \E i \in Instances : Sched!Dispatch(i) \/ Sched!Stop(i) \/ Sched!Restart(i) \/ Sched!Crash(i)

DueStep ==
    \/ \E m \in DueMsgs : Due!AckWaitExpires(m)
    \/ Due!FetchBatch(Process) \/ Due!Handle(Process) \/ Due!Crash(Process)

ProcessorStep ==
    \/ \E m \in ReadyMsgs : Pipe!Broker(m)
    \/ \E w \in Workers : Pipe!WorkerStep(w) \/ \E c \in pbuffer : Pipe!Take(w, c)
    \/ \E n \in Notifs : Pipe!LockExpires(n)
    \/ Pipe!Stop \/ Pipe!Restart \/ Pipe!Crash

LEMMA ApiIsService ==
  /\ ApiStep => Service!Own
  /\ \A e : Api!Report(e) => Service!Report(e)
  /\ Api!Init => Service!Init
  BY Zenon DEF ApiStep,
         Api!Arrive, Api!Serve, Api!Fetch, Api!AckWaitExpires, Api!Consume, Api!Crash,
         Api!Report, Api!Init, Api!Ops, Api!FreshIds, Api!Goto, Api!persist, Api!serviceVars,
         Api!consumerVars, Api!publish, Api!ReadForCancel, Api!WriteCancelled,
         Api!PublishCancelled, Api!Deliverable, Api!Delivered, Api!requestVars, Api!Live,
         Api!TimedOut, Api!Take, Api!ReadForResult, Api!WriteResult, Api!SettleResult,
         Api!Stored, Api!NoOp, Api!Unpublished, Api!Insert, Api!Fails, Api!Respond,
         Api!NextEvents, Api!Target, Api!Transition, Api!SetStatus, Api!ConsumerGoto,
         Api!Acked, Api!Naked, Api!validTransitions, Api!Statuses, Service!Arrive,
         Service!Serve, Service!Fetch, Service!AckWaitExpires, Service!Consume, Service!Crash,
         Service!Report, Service!Init, Service!Ops, Service!FreshIds, Service!Goto,
         Service!persist, Service!serviceVars, Service!consumerVars, Service!publish,
         Service!ReadForCancel, Service!WriteCancelled, Service!PublishCancelled,
         Service!Deliverable, Service!Delivered, Service!requestVars, Service!Live,
         Service!TimedOut, Service!Take, Service!ReadForResult, Service!WriteResult,
         Service!SettleResult, Service!Stored, Service!NoOp, Service!Unpublished,
         Service!Insert, Service!Fails, Service!Respond, Service!NextEvents, Service!Target,
         Service!Transition, Service!SetStatus, Service!ConsumerGoto, Service!Acked,
         Service!Naked, Service!validTransitions, Service!Statuses, Service!Own

LEMMA SchedIsScheduler ==
  /\ SchedulerStep => Scheduler!Own
  /\ \A m : Sched!Store(m) => Scheduler!Store(m)
  /\ Sched!Init => Scheduler!Init
  BY Zenon DEF SchedulerStep,
         Sched!Tick, Sched!Msgs, Sched!AckWaitExpires, Sched!Fetch, Sched!Goroutines,
         Sched!Consume, Sched!Dispatch, Sched!Stop, Sched!Restart, Sched!Crash, Sched!Store,
         Sched!Init, Sched!consumerVars, Sched!dispatcherVars, Sched!Live, Sched!TimedOut,
         Sched!Deliverable, Sched!Delivered, Sched!Durables, Sched!Take, Sched!Write,
         Sched!Settle, Sched!Halt, Sched!Claim, Sched!PublishBatch, Sched!Requeue,
         Sched!DurableOf, Sched!Naked, Sched!Fresh, Sched!Stored, Sched!Unpublished,
         Sched!Handle, Sched!Acked, Sched!Claimable, Sched!StoreDue, Sched!UpsertAll,
         Sched!DeleteByNotificationID, Sched!Due, Scheduler!Tick, Scheduler!Msgs,
         Scheduler!AckWaitExpires, Scheduler!Fetch, Scheduler!Goroutines, Scheduler!Consume,
         Scheduler!Dispatch, Scheduler!Stop, Scheduler!Restart, Scheduler!Crash,
         Scheduler!Store, Scheduler!Init, Scheduler!consumerVars, Scheduler!dispatcherVars,
         Scheduler!Live, Scheduler!TimedOut, Scheduler!Deliverable, Scheduler!Delivered,
         Scheduler!Durables, Scheduler!Take, Scheduler!Write, Scheduler!Settle,
         Scheduler!Halt, Scheduler!Claim, Scheduler!PublishBatch, Scheduler!Requeue,
         Scheduler!DurableOf, Scheduler!Naked, Scheduler!Fresh, Scheduler!Stored,
         Scheduler!Unpublished, Scheduler!Handle, Scheduler!Acked, Scheduler!Claimable,
         Scheduler!StoreDue, Scheduler!UpsertAll, Scheduler!DeleteByNotificationID,
         Scheduler!Due, Scheduler!Own, Sched!Cardinality, Scheduler!Cardinality

LEMMA DueIsDueConsumer ==
  /\ DueStep => DueConsumer!Own
  /\ Due!Init => DueConsumer!Init
  BY Zenon DEF DueStep,
         Due!AckWaitExpires, Due!FetchBatch, Due!Handle, Due!Crash, Due!Init, Due!Live,
         Due!TimedOut, Due!Deliverable, Due!Delivered, Due!Take, Due!Lookup, Due!Each,
         Due!Settle, Due!Unpublished, Due!Indexed, Due!Decide, Due!Readied, Due!Acked,
         Due!Naked, DueConsumer!AckWaitExpires, DueConsumer!FetchBatch, DueConsumer!Handle,
         DueConsumer!Crash, DueConsumer!Init, DueConsumer!Live, DueConsumer!TimedOut,
         DueConsumer!Deliverable, DueConsumer!Delivered, DueConsumer!Take, DueConsumer!Lookup,
         DueConsumer!Each, DueConsumer!Settle, DueConsumer!Unpublished, DueConsumer!Indexed,
         DueConsumer!Decide, DueConsumer!Readied, DueConsumer!Acked, DueConsumer!Naked,
         DueConsumer!Own, Due!Cardinality, DueConsumer!Cardinality

LEMMA PipeIsProcessor ==
  /\ ProcessorStep => Processor!Own
  /\ \A m : Pipe!Store(m) => Processor!Store(m)
  /\ Pipe!Init => Processor!Init
  BY Zenon DEF ProcessorStep,
         Pipe!Broker, Pipe!WorkerStep, Pipe!Take, Pipe!LockExpires, Pipe!Stop, Pipe!Restart,
         Pipe!Crash, Pipe!Store, Pipe!Init, Pipe!Fetch, Pipe!AckWaitExpires,
         Pipe!DelayElapses, Pipe!TryLock, Pipe!applyRateLimit, Pipe!Send, Pipe!publishStatus,
         Pipe!Unlock, Pipe!processOne, Pipe!Halt, Pipe!Goto, Pipe!Orphaned,
         Pipe!Subscriptions, Pipe!Naked, Pipe!Fresh, Pipe!Stored, Pipe!Unpublished,
         Pipe!Deliverable, Pipe!MaxDeliver, Pipe!Delivered, Pipe!Live, Pipe!TimedOut,
         Pipe!Outcomes, Pipe!handleDeliveryResult, Pipe!Settled, Pipe!Holds,
         Pipe!maxAttemptsFor, Pipe!Acked, Pipe!NakedWithDelay, Pipe!InSection,
         Pipe!ServiceMaxAttempts, Processor!Broker, Processor!WorkerStep, Processor!Take,
         Processor!LockExpires, Processor!Stop, Processor!Restart, Processor!Crash,
         Processor!Store, Processor!Init, Processor!Fetch, Processor!AckWaitExpires,
         Processor!DelayElapses, Processor!TryLock, Processor!applyRateLimit, Processor!Send,
         Processor!publishStatus, Processor!Unlock, Processor!processOne, Processor!Halt,
         Processor!Goto, Processor!Orphaned, Processor!Subscriptions, Processor!Naked,
         Processor!Fresh, Processor!Stored, Processor!Unpublished, Processor!Deliverable,
         Processor!MaxDeliver, Processor!Delivered, Processor!Live, Processor!TimedOut,
         Processor!Outcomes, Processor!handleDeliveryResult, Processor!Settled,
         Processor!Holds, Processor!maxAttemptsFor, Processor!Acked, Processor!NakedWithDelay,
         Processor!InSection, Processor!ServiceMaxAttempts, Processor!Own, Pipe!Cardinality,
         Processor!Cardinality

-----------------------------------------------------------------------------
(***************************************************************************)
(* The assumptions of the components.                                      *)
(***************************************************************************)

LEMMA ReadyNotif == \A m \in ReadyMsgs : m.notif \in Notifs
  BY EndToEndAssumption DEF ReadyMsgs, AtOnce, EndToEndAssumption

LEMMA ServiceAssumed == Service!ServiceAssumption /\ \A c, d \in {Process} : c = d
  <1>1. \A e \in Results : e.msg.notif \in Notifs /\ e.status \in {"delivered", "failed"}
    BY ReadyNotif DEF Results
  <1>2. Scheduled \subseteq Notifs /\ Nothing \notin Results
    BY EndToEndAssumption, NothingIsNoMessage DEF EndToEndAssumption, NothingIsNoMessage
  <1> QED BY <1>1, <1>2 DEF Service!ServiceAssumption

LEMMA SchedulerAssumed == Scheduler!SchedulerAssumption
  <1>1. /\ MaxTime \in Nat
        /\ \A n \in Scheduled : ScheduledAt[n] \in 0 .. MaxTime
    BY EndToEndAssumption DEF EndToEndAssumption
  <1>2. Schedules \intersect Cancels = {}
    BY DEF Schedules, Cancels
  <1>3. Nothing \notin Schedules \union Cancels
    BY NothingIsNoMessage DEF NothingIsNoMessage
  <1>4. [n \in Scheduled |-> ScheduledAt[n]] \in [Scheduled -> 0 .. MaxTime]
    BY <1>1
  <1>5. [m \in Schedules \union Cancels |-> m.items \intersect Scheduled]
            \in [Schedules \union Cancels -> SUBSET Scheduled]
    OBVIOUS
  <1>6. Instances \X (0 .. MaxTime) \subseteq Instances \X Nat
    BY <1>1
  <1> QED BY <1>1, <1>2, <1>3, <1>4, <1>5, <1>6 DEF Scheduler!SchedulerAssumption, Scheduler!Msgs

LEMMA DueAssumed == DueConsumer!DueAssumption
  BY DEF DueConsumer!DueAssumption, DueMsgs

LEMMA ProcessorAssumed == Processor!PipelineAssumption
  BY EndToEndAssumption, NothingIsNoMessage, ReadyNotif
     DEF EndToEndAssumption, NothingIsNoMessage, Processor!PipelineAssumption, Processor!Copies

-----------------------------------------------------------------------------
(***************************************************************************)
(* What ties the components: a message in a queue tells the truth about    *)
(* the component that put it there.                                        *)
(***************************************************************************)

\* A ready event is about a row, and not too early.
ReadyTold ==
    \A m \in ReadyMsgs :
        pqueue[m].st # "none" => row[m.notif] # "absent" /\ ScheduledAt[m.notif] <= now

\* So is what the scheduler is asked to do.
ScheduleTold ==
    \A m \in Schedules : squeue[m].st # "none" => \A n \in m.items : row[n] # "absent"

\* The nth due event of a notification is that of its nth dispatch.
DueTold == \A m \in DueMsgs : dqueue[m].st # "none" => m.nth <= dispatched[m.notif]

\* A result was reported.
ResultTold == \A e \in Results : rqueue[e].st # "none" => e \in events

LifeInv ==
    /\ Service!RelyInv
    /\ Scheduler!RelyInv
    /\ DueConsumer!RelyInv
    /\ Processor!RelyInv
    /\ ReadyTold
    /\ ScheduleTold
    /\ DueTold
    /\ ResultTold

LEMMA InitLifeInv == Init => LifeInv
  <1> SUFFICES ASSUME Init PROVE LifeInv
    OBVIOUS
  <1>1. Service!Init /\ Scheduler!Init /\ DueConsumer!Init /\ Processor!Init
    BY ApiIsService, SchedIsScheduler, DueIsDueConsumer, PipeIsProcessor DEF Init
  <1>2. Service!RelyInv
    BY <1>1, ServiceAssumed, Service!InitRelyInv
  <1>3. Scheduler!RelyInv
    BY <1>1, SchedulerAssumed, Scheduler!InitRelyInv
  <1>4. DueConsumer!RelyInv
    BY <1>1, DueAssumed, DueConsumer!InitRelyInv
  <1>5. Processor!RelyInv
    BY <1>1, ProcessorAssumed, Processor!InitRelyInv
  <1>6. ReadyTold
    BY <1>1 DEF Processor!Init, Processor!Unpublished, ReadyTold
  <1>7. ScheduleTold
    BY <1>1 DEF Scheduler!Init, Scheduler!Unpublished, Scheduler!Msgs, ScheduleTold
  <1>8. DueTold
    BY <1>1 DEF DueConsumer!Init, DueConsumer!Unpublished, DueTold
  <1>9. ResultTold
    BY <1>1 DEF Service!Init, Service!Unpublished, ResultTold
  <1> QED BY <1>2, <1>3, <1>4, <1>5, <1>6, <1>7, <1>8, <1>9 DEF LifeInv

-----------------------------------------------------------------------------
(***************************************************************************)
(* A step as each component sees it.                                       *)
(***************************************************************************)

\* The steps of a single component, and those that publish or crash.
LEMMA NextCases ==
  ASSUME Next
  PROVE  \/ ApiStep /\ UNCHANGED <<schedulerVars, dueVars, processorVars>>
         \/ SchedulerStep /\ UNCHANGED <<apiVars, dueVars, processorVars>>
         \/ DueStep /\ UNCHANGED <<apiVars, schedulerVars, processorVars>>
         \/ ProcessorStep /\ UNCHANGED <<apiVars, schedulerVars, dueVars>>
         \/ \E r \in Requests : Announce(r) \/ Withdraw(r)
         \/ \E i \in Instances : DispatchDue(i)
         \/ \E m \in DueMsgs : Ready(m)
         \/ \E w \in Workers : ReportBack(w)
         \/ CrashApi
  BY Zenon DEF Next, OfApi, OfScheduler, OfDue, OfProcessor, Serve, Dispatch, HandleDue, Work, CarryResult,
         CarryToScheduler, CarryDue, CarryReady, ProcessStep, ApiStep, SchedulerStep, DueStep,
         ProcessorStep, Api!Serve, Sched!Dispatch, Due!Handle, Pipe!WorkerStep

LEMMA PublishingSteps ==
  /\ \A r \in Requests : Announce(r) \/ Withdraw(r) => ApiStep
  /\ \A i \in Instances : DispatchDue(i) => SchedulerStep
  /\ \A m \in DueMsgs : Ready(m) => DueStep
  /\ \A w \in Workers : ReportBack(w) => ProcessorStep
  /\ CrashApi => ApiStep /\ DueStep
  BY Zenon DEF Announce, Withdraw, DispatchDue, Ready, ReportBack, CrashApi, ApiStep, SchedulerStep, DueStep,
         ProcessorStep, Api!Serve, Sched!Dispatch, Due!Handle, Pipe!WorkerStep

LEMMA StepsOwn ==
  /\ ApiStep => Service!Own /\ Service!Next /\ faults' = faults
  /\ SchedulerStep => Scheduler!Own /\ Scheduler!Next /\ faults' = faults
  /\ DueStep => DueConsumer!Own /\ DueConsumer!Next /\ faults' = faults
  /\ ProcessorStep => Processor!Own /\ Processor!Next /\ faults' = faults
  <1>1. ApiStep => Service!Own /\ Service!Next
    BY ApiIsService, ServiceAssumed, Service!OwnIsNext
  <1>2. SchedulerStep => Scheduler!Own /\ Scheduler!Next
    BY SchedIsScheduler, SchedulerAssumed, Scheduler!OwnIsNext
  <1>3. DueStep => DueConsumer!Own /\ DueConsumer!Next
    BY DueIsDueConsumer, DueAssumed, DueConsumer!OwnIsNext
  <1>4. ProcessorStep => Processor!Own /\ Processor!Next
    BY PipeIsProcessor, ProcessorAssumed, Processor!OwnIsNext
  <1>5. ApiStep => faults' = faults
    BY <1>1, ServiceAssumed, Service!faultsKept
  <1>6. SchedulerStep => faults' = faults
    BY <1>2, SchedulerAssumed, Scheduler!faultsKept
  <1>7. DueStep => faults' = faults
    BY <1>3, DueAssumed, DueConsumer!faultsKept
  <1>8. ProcessorStep => faults' = faults
    BY <1>4, ProcessorAssumed, Processor!faultsKept
  <1> QED BY <1>1, <1>2, <1>3, <1>4, <1>5, <1>6, <1>7, <1>8

LEMMA FaultsKept == [Next]_vars => faults' = faults
  BY NextCases, PublishingSteps, StepsOwn DEF vars

\* Results come from the processor.
LEMMA ServiceView ==
  ASSUME Service!RelyInv, [Next]_vars
  PROVE  /\ [Service!Next]_(Service!vars)
         /\ \A e \in Results : rqueue'[e].st # "none" => rqueue[e].st # "none" \/ e \in events'
  <1>1. CASE ApiStep
    <2>1. Service!TypeOK /\ Service!HoldsStored
      BY DEF Service!RelyInv, Service!ServiceInv
    <2>2. Service!Own
      BY <1>1, StepsOwn
    <2>3. \A e \in Results : rqueue[e].st = "none" => rqueue'[e].st = "none"
      BY <2>1, <2>2, ServiceAssumed, Service!OnlyReported
    <2> QED BY <1>1, <2>3, StepsOwn
  <1>2. CASE UNCHANGED apiVars
    <2>1. UNCHANGED Service!vars
      BY <1>2, FaultsKept DEF apiVars, Service!vars, Service!serviceVars, Service!requestVars, Service!consumerVars
    <2>2. rqueue' = rqueue
      BY <1>2 DEF apiVars
    <2> QED BY <2>1, <2>2
  <1>3. ASSUME NEW w \in Workers, ReportBack(w), ~ UNCHANGED apiVars
        PROVE  /\ [Service!Next]_(Service!vars)
               /\ \A e \in Results : rqueue'[e].st # "none" => rqueue[e].st # "none" \/ e \in events'
    <2>1. PICK e \in events' : Service!Report(e)
      BY <1>3, ApiIsService DEF ReportBack
    <2>2. rqueue \in [Results -> [st : Service!QueueStatus, count : Nat]]
      BY DEF Service!RelyInv, Service!ServiceInv, Service!TypeOK
    <2>3. rqueue' = [rqueue EXCEPT ![e] = Service!Stored(@)]
      BY <2>1 DEF Service!Report
    <2>4. \A x \in Results : x # e => rqueue'[x] = rqueue[x]
      BY <2>2, <2>3
    <2>5. CASE e \in Results
      BY <2>1, <2>4, <2>5 DEF Service!Next
    <2>6. CASE e \notin Results
      <3>1. rqueue' = rqueue
        BY <2>2, <2>3, <2>6
      <3>2. UNCHANGED Service!vars
        BY <2>1, <3>1 DEF Service!Report, Service!vars, Service!consumerVars
      <3> QED BY <3>1, <3>2
    <2> QED BY <2>5, <2>6
  <1> QED BY <1>1, <1>2, <1>3, NextCases, PublishingSteps DEF vars, DispatchDue, Ready

\* What the API announces in a step are rows it has stored, all scheduled or all
\* to be sent at once.
LEMMA AnnouncedAreStored ==
  ASSUME Service!RelyInv, NEW r \in Requests, Announce(r)
  PROVE  /\ announced' \ announced \subseteq {n \in Notifs : row[n] # "absent"}
         /\ \/ announced' \ announced \subseteq Scheduled
            \/ announced' \ announced \subseteq Notifs \ Scheduled
  <1>1. rpc[r] = "announce"
    BY DEF Announce, Api!publish
  <1>2. /\ todo[r] \subseteq op[r].items
        /\ \A n \in op[r].items : row[n] # "absent"
        /\ todo[r] \subseteq Notifs
    BY <1>1 DEF Service!RelyInv, Service!ServiceInv, Service!InHand, Service!TypeOK
  <1>3. \/ announced' = announced
        \/ \E S \in Api!NextEvents(r) : announced' = announced \union S
    BY Zenon DEF Announce, Api!publish
  <1>4. \A S \in Api!NextEvents(r) :
          S \subseteq todo[r] /\ (S \subseteq Scheduled \/ S \subseteq Notifs \ Scheduled)
    BY <1>2 DEF Api!NextEvents
  <1> QED BY <1>2, <1>3, <1>4

\* The scheduler is asked by the API, with one message for what was announced
\* in the step, and about stored rows.
AskedNow(m) == squeue[m].st = "none" /\ squeue'[m].st # "none"

LEMMA SchedulerView ==
  ASSUME Service!RelyInv, Scheduler!RelyInv, [Next]_vars
  PROVE  /\ [Scheduler!Next]_(Scheduler!vars)
         /\ \A m \in Schedules : AskedNow(m) =>
               m.items = announced' \ announced /\ \A n \in m.items : row[n] # "absent"
         /\ \A l, m \in Schedules : AskedNow(l) /\ AskedNow(m) => l = m
  <1> DEFINE View ==
        /\ [Scheduler!Next]_(Scheduler!vars)
        /\ \A m \in Schedules : AskedNow(m) =>
               m.items = announced' \ announced /\ \A n \in m.items : row[n] # "absent"
        /\ \A l, m \in Schedules : AskedNow(l) /\ AskedNow(m) => l = m
  <1>0. Scheduler!TypeOK /\ Scheduler!HoldsStored /\ Schedules \subseteq Scheduler!Msgs
    BY DEF Scheduler!RelyInv, Scheduler!Msgs
  <1>1. CASE SchedulerStep
    <2>1. \A m \in Scheduler!Msgs : squeue[m].st = "none" => squeue'[m].st = "none"
      BY <1>0, <1>1, StepsOwn, SchedulerAssumed, Scheduler!OnlyStored
    <2> QED BY <1>0, <1>1, <2>1, StepsOwn DEF AskedNow
  <1>2. CASE UNCHANGED schedulerVars
    <2>1. UNCHANGED Scheduler!vars
      BY <1>2, FaultsKept
         DEF schedulerVars, Scheduler!vars, Scheduler!consumerVars, Scheduler!dispatcherVars
    <2>2. squeue' = squeue
      BY <1>2 DEF schedulerVars
    <2> QED BY <2>1, <2>2 DEF AskedNow
  <1>3. ASSUME NEW m \in Scheduler!Msgs, Scheduler!Store(m),
               m \in Schedules =>
                   m.items = announced' \ announced /\ \A n \in m.items : row[n] # "absent"
        PROVE  View
    <2>1. \A l \in Scheduler!Msgs : l # m => squeue'[l] = squeue[l]
      BY <1>0, <1>3 DEF Scheduler!Store, Scheduler!TypeOK
    <2>2. \A l \in Schedules : AskedNow(l) => l = m
      BY <1>0, <2>1 DEF AskedNow
    <2>3. Scheduler!Next
      BY <1>3 DEF Scheduler!Next
    <2> QED BY <1>3, <2>2, <2>3
  <1>4. ASSUME NEW r \in Requests, Announce(r), ~ UNCHANGED schedulerVars PROVE View
    <2> DEFINE m == [kind |-> "scheduled", by |-> r, items |-> announced' \ announced]
    <2>1. (announced' \ announced) \intersect Scheduled # {} /\ Scheduler!Store(m)
      BY <1>4, SchedIsScheduler DEF Announce
    <2>2. m \in Schedules /\ \A n \in m.items : row[n] # "absent"
      BY <1>4, <2>1, AnnouncedAreStored DEF Schedules
    <2> QED BY <1>0, <1>3, <2>1, <2>2
  <1>5. ASSUME NEW r \in Requests, Withdraw(r), ~ UNCHANGED schedulerVars PROVE View
    <2> DEFINE m == [kind |-> "cancelled", by |-> r, items |-> op[r].items]
    <2>1. rpc[r] = "withdraw" /\ Scheduler!Store(m)
      BY <1>5, SchedIsScheduler DEF Withdraw, Api!PublishCancelled
    <2>2. \E n \in Notifs : op[r].items = {n}
      BY <2>1 DEF Service!RelyInv, Service!ServiceInv, Service!InHand
    <2>3. m \in Cancels /\ m \notin Schedules
      BY <2>2 DEF Cancels, Schedules
    <2> QED BY <1>3, <2>1, <2>3 DEF Scheduler!Msgs
  <1> QED BY <1>1, <1>2, <1>4, <1>5, NextCases, PublishingSteps
          DEF vars, Ready, ReportBack, CrashApi

\* A due event's notification was dispatched, so it is stored and its time has come.
LEMMA DispatchedIsReady ==
  ASSUME Scheduler!RelyInv, ScheduleTold, NEW n \in Scheduled, dispatched[n] > 0
  PROVE  row[n] # "absent" /\ ScheduledAt[n] <= now
  <1>1. PICK e \in Schedules : squeue[e].st # "none" /\ n \in e.items
    BY DEF Scheduler!RelyInv, Scheduler!OnlyAsked, Scheduler!Asked
  <1>2. ScheduledAt[n] <= now
    BY DEF Scheduler!RelyInv, Scheduler!OnlyDue, Scheduler!NeverEarly
  <1> QED BY <1>1, <1>2 DEF ScheduleTold

\* The ready events of a due event are counted from one.
LEMMA ReadiedCounts ==
  ASSUME DueConsumer!RelyInv, NEW m \in DueMsgs, Ready(m), readied[m] < readied'[m],
         readied'[m] <= Duplicates
  PROVE  readied'[m] \in 1 .. Duplicates
  <1>1. readied[m] \in 0 .. 2
    BY DEF DueConsumer!RelyInv, DueConsumer!TypeOK
  <1>2. readied'[m] \in 0 .. 2
    <2>1. DueConsumer!TypeOK'
      BY StepsOwn, PublishingSteps, DueAssumed, DueConsumer!NextTypeOK DEF DueConsumer!RelyInv
    <2> QED BY <2>1 DEF DueConsumer!TypeOK
  <1> QED BY <1>1, <1>2, EndToEndAssumption DEF EndToEndAssumption

\* A ready event that stands for a turn of the due consumer.
Turned(m) ==
    m.notif \in Scheduled =>
        \E d \in DueMsgs : /\ d.notif = m.notif /\ d.nth = m.due
                           /\ dqueue[d].st # "none"
                           /\ m.nth <= readied'[d]

\* The processor's messages come from the API or from its due consumer, and are
\* about notifications that may be sent.
LEMMA ProcessorView ==
  ASSUME LifeInv, [Next]_vars
  PROVE  /\ [Processor!Next]_(Processor!vars)
         /\ \A m \in ReadyMsgs : pqueue'[m].st # "none" =>
               pqueue[m].st # "none"
               \/ (row[m.notif] # "absent" /\ ScheduledAt[m.notif] <= now /\ Turned(m))
  <1> DEFINE View ==
        /\ [Processor!Next]_(Processor!vars)
        /\ \A m \in ReadyMsgs : pqueue'[m].st # "none" =>
               pqueue[m].st # "none"
               \/ (row[m.notif] # "absent" /\ ScheduledAt[m.notif] <= now /\ Turned(m))
  <1>0. Processor!TypeOK /\ Processor!HoldsStored
    BY DEF LifeInv, Processor!RelyInv
  <1>1. CASE ProcessorStep
    <2>1. \A m \in ReadyMsgs : pqueue[m].st = "none" => pqueue'[m].st = "none"
      BY <1>0, <1>1, StepsOwn, ProcessorAssumed, Processor!OnlyStored
    <2> QED BY <1>1, <2>1, StepsOwn
  <1>2. CASE UNCHANGED processorVars
    <2>1. UNCHANGED Processor!vars
      BY <1>2, FaultsKept DEF processorVars, Processor!vars
    <2>2. pqueue' = pqueue
      BY <1>2 DEF processorVars
    <2> QED BY <2>1, <2>2
  <1>3. ASSUME NEW m \in ReadyMsgs, Processor!Store(m),
               row[m.notif] # "absent", ScheduledAt[m.notif] <= now, Turned(m)
        PROVE  View
    <2>1. \A l \in ReadyMsgs : l # m => pqueue'[l] = pqueue[l]
      BY <1>0, <1>3 DEF Processor!Store, Processor!TypeOK
    <2> QED BY <1>3, <2>1 DEF Processor!Next
  <1>4. ASSUME NEW r \in Requests, Announce(r), ~ UNCHANGED processorVars PROVE View
    <2>1. PICK n \in (announced' \ announced) \ Scheduled : Processor!Store(AtOnce(n))
      BY <1>4, PipeIsProcessor DEF Announce
    <2>2. n \in Notifs \ Scheduled /\ row[n] # "absent"
      BY <1>4, AnnouncedAreStored DEF LifeInv
    <2>3. AtOnce(n) \in ReadyMsgs /\ AtOnce(n).notif = n
      BY <2>2 DEF ReadyMsgs, AtOnce
    <2>4. ScheduledAt[n] <= now
      BY <2>2, EndToEndAssumption DEF EndToEndAssumption, LifeInv, Scheduler!RelyInv, Scheduler!TypeOK
    <2>5. Turned(AtOnce(n))
      BY <2>2, <2>3 DEF Turned
    <2> QED BY <1>3, <2>1, <2>2, <2>3, <2>4, <2>5
  <1>5. ASSUME NEW d \in DueMsgs, Ready(d), ~ UNCHANGED processorVars PROVE View
    <2> DEFINE m == [notif |-> d.notif, due |-> d.nth, nth |-> readied'[d]]
    <2>1. /\ readied[d] < readied'[d] /\ readied'[d] <= Duplicates
          /\ Processor!Store(m)
      BY <1>5, PipeIsProcessor DEF Ready
    <2>2. d \in batch[Process]
      BY <1>5 DEF Ready, Due!Each
    <2>3. dqueue[d].st # "none"
      BY <2>2 DEF LifeInv, DueConsumer!RelyInv, DueConsumer!HoldsStored, DueConsumer!Has
    <2>4. d.notif \in Scheduled /\ d.nth \in 1 .. Duplicates
      BY DEF DueMsgs
    <2>5. row[d.notif] # "absent" /\ ScheduledAt[d.notif] <= now
      <3>1. d.nth <= dispatched[d.notif]
        BY <2>3 DEF LifeInv, DueTold
      <3>2. dispatched[d.notif] \in 0 .. 2
        BY <2>4 DEF LifeInv, Scheduler!RelyInv, Scheduler!TypeOK
      <3>3. dispatched[d.notif] > 0
        BY <2>4, <3>1, <3>2, EndToEndAssumption DEF EndToEndAssumption
      <3> QED BY <2>4, <3>3, DispatchedIsReady DEF LifeInv
    <2>6. readied'[d] \in 1 .. Duplicates
      BY <1>5, <2>1, ReadiedCounts DEF LifeInv
    <2>7. m \in ReadyMsgs
      BY <2>4, <2>6 DEF ReadyMsgs
    <2>8. Turned(m)
      <3>1. m.nth <= readied'[d]
        BY <2>6, EndToEndAssumption DEF EndToEndAssumption
      <3> QED BY <2>3, <3>1 DEF Turned
    <2> QED BY <1>3, <2>1, <2>5, <2>7, <2>8
  <1> QED BY <1>1, <1>2, <1>4, <1>5, NextCases, PublishingSteps
          DEF vars, Withdraw, DispatchDue, CrashApi

\* The due consumer's messages are what the scheduler dispatched.
LEMMA DueView ==
  ASSUME Scheduler!RelyInv, DueConsumer!RelyInv, [Next]_vars
  PROVE  /\ DueConsumer!RelyInv'
         /\ \A m \in DueMsgs : dqueue'[m].st # "none" =>
               dqueue[m].st # "none" \/ m.nth <= dispatched'[m.notif]
  <1> DEFINE View ==
        /\ DueConsumer!RelyInv'
        /\ \A m \in DueMsgs : dqueue'[m].st # "none" =>
               dqueue[m].st # "none" \/ m.nth <= dispatched'[m.notif]
  <1>0. DueConsumer!TypeOK /\ DueConsumer!HoldsStored
    BY DEF DueConsumer!RelyInv
  <1>1. CASE DueStep
    <2>1. DueConsumer!RelyInv'
      BY <1>1, StepsOwn, DueAssumed, DueConsumer!NextRelyInv
    <2>2. \A m \in DueMsgs : dqueue[m].st = "none" => dqueue'[m].st = "none"
      BY <1>0, <1>1, StepsOwn, DueAssumed, DueConsumer!OnlyStored
    <2> QED BY <2>1, <2>2
  <1>2. CASE UNCHANGED dueVars
    <2>1. UNCHANGED DueConsumer!vars
      BY <1>2, FaultsKept DEF dueVars, DueConsumer!vars
    <2>2. DueConsumer!RelyInv'
      BY <2>1, DueAssumed, DueConsumer!NextRelyInv
    <2>3. dqueue' = dqueue
      BY <1>2 DEF dueVars
    <2> QED BY <2>2, <2>3
  <1>3. ASSUME NEW i \in Instances, DispatchDue(i) PROVE View
    <2> DEFINE S == {m \in DueMsgs : dispatched[m.notif] < m.nth /\ m.nth <= dispatched'[m.notif]}
    <2>1. dqueue' = [m \in DueMsgs |-> IF m \in S THEN DueConsumer!Stored(dqueue[m]) ELSE dqueue[m]]
      BY <1>3 DEF DispatchDue, Stored, DueConsumer!Stored
    <2>2. UNCHANGED <<faults, batches, phase, batch, found, dverdict, readied>>
      BY <1>3, FaultsKept DEF DispatchDue, Next, Dispatch
    <2>3. DueConsumer!RelyInv'
      BY <2>1, <2>2, DueAssumed, DueConsumer!StoresRelyInv
    <2>4. \A m \in DueMsgs : m \notin S => dqueue'[m] = dqueue[m]
      BY <2>1
    <2> QED BY <2>3, <2>4
  <1> QED BY <1>1, <1>2, <1>3, NextCases, PublishingSteps
          DEF vars, Announce, Withdraw, ReportBack

-----------------------------------------------------------------------------
LEMMA NextLifeInv == LifeInv /\ [Next]_vars => LifeInv'
  <1> SUFFICES ASSUME LifeInv, [Next]_vars PROVE LifeInv'
    OBVIOUS
  <1>1. [Service!Next]_(Service!vars) /\ [Scheduler!Next]_(Scheduler!vars)
        /\ [Processor!Next]_(Processor!vars)
    BY ServiceView, SchedulerView, ProcessorView DEF LifeInv
  <1>2. Service!RelyInv'
    BY <1>1, ServiceAssumed, Service!NextRelyInv DEF LifeInv
  <1>3. Scheduler!RelyInv'
    BY <1>1, SchedulerAssumed, Scheduler!NextRelyInv DEF LifeInv
  <1>4. DueConsumer!RelyInv'
    BY DueView DEF LifeInv
  <1>5. Processor!RelyInv'
    BY <1>1, ProcessorAssumed, Processor!NextRelyInv DEF LifeInv
  <1>6. \A n \in Notifs : row[n] # "absent" => row'[n] # "absent"
    BY <1>1, ServiceAssumed, Service!RowsStay DEF LifeInv, Service!RelyInv, Service!ServiceInv
  <1>7. /\ now' = now \/ now' = now + 1
        /\ \A n \in Scheduled : dispatched[n] <= dispatched'[n]
    BY <1>1, SchedulerAssumed, Scheduler!ClockAndHistory DEF LifeInv, Scheduler!RelyInv
  <1>8. events \subseteq events'
    BY <1>1, ProcessorAssumed, Processor!HistoryGrows
  <1>9. ReadyTold'
    <2>1. now \in Nat /\ \A n \in Notifs : ScheduledAt[n] \in Nat
      BY EndToEndAssumption DEF EndToEndAssumption, LifeInv, Scheduler!RelyInv, Scheduler!TypeOK
    <2>2. \A n \in Notifs : ScheduledAt[n] <= now => ScheduledAt[n] <= now'
      BY <1>7, <2>1
    <2> QED BY <1>6, <2>2, ProcessorView, ReadyNotif DEF LifeInv, ReadyTold
  <1>10. ScheduleTold'
    <2>1. \A m \in Schedules : m.items \subseteq Notifs
      BY EndToEndAssumption DEF EndToEndAssumption, Schedules
    <2> QED BY <1>6, <2>1, SchedulerView DEF LifeInv, ScheduleTold, AskedNow
  <1>11. DueTold'
    <2> SUFFICES ASSUME NEW m \in DueMsgs, dqueue'[m].st # "none"
                 PROVE  m.nth <= dispatched'[m.notif]
      BY DEF DueTold
    <2>1. m.notif \in Scheduled /\ m.nth \in Nat
      BY EndToEndAssumption DEF EndToEndAssumption, DueMsgs
    <2>2. dispatched[m.notif] \in 0 .. 2 /\ dispatched'[m.notif] \in 0 .. 2
      BY <1>3, <2>1 DEF LifeInv, Scheduler!RelyInv, Scheduler!TypeOK
    <2>3. CASE dqueue[m].st # "none"
      <3>1. m.nth <= dispatched[m.notif] /\ dispatched[m.notif] <= dispatched'[m.notif]
        BY <1>7, <2>1, <2>3 DEF LifeInv, DueTold
      <3> QED BY <2>1, <2>2, <3>1
    <2> QED BY <2>3, DueView DEF LifeInv
  <1>12. ResultTold'
    BY <1>8, ServiceView DEF LifeInv, ResultTold
  <1> QED BY <1>2, <1>3, <1>4, <1>5, <1>9, <1>10, <1>11, <1>12 DEF LifeInv

-----------------------------------------------------------------------------
(***************************************************************************)
(* Every step is one of NotificationLife's, or changes nothing it speaks   *)
(* of.                                                                     *)
(***************************************************************************)

\* The state of NotificationLife.
Outcome(n) ==
    CASE "delivered" \in past[n] -> "delivered"
      [] "delivered" \notin past[n] /\ "failed" \in past[n] -> "failed"
      [] OTHER -> "none"

Outcomes == [n \in Notifs |-> Outcome(n)]

Tried == {n \in Notifs : Called(n)}

Sent == {n \in Notifs : AcceptedByProvider(n)}

\* No step changes two of the rows, the clock and the calls.
LEMMA OneMoves ==
  ASSUME [Next]_vars
  PROVE  \/ UNCHANGED <<now, calls>>
         \/ UNCHANGED <<row, past, calls>>
         \/ UNCHANGED <<row, past, now>>
  <1>1. CASE UNCHANGED <<schedulerVars, processorVars>>
    BY <1>1 DEF schedulerVars, processorVars
  <1>2. CASE UNCHANGED <<apiVars, processorVars>>
    BY <1>2 DEF apiVars, processorVars
  <1>3. CASE UNCHANGED <<apiVars, schedulerVars>>
    BY <1>3 DEF apiVars, schedulerVars
  <1>4. ASSUME NEW r \in Requests, Announce(r) \/ Withdraw(r) PROVE UNCHANGED <<now, calls>>
    BY <1>4 DEF Announce, Withdraw, schedulerVars, processorVars, Sched!Store, Pipe!Store
  <1>5. ASSUME NEW w \in Workers, ReportBack(w) PROVE UNCHANGED <<now, calls>>
    BY <1>5 DEF ReportBack, Pipe!publishStatus, schedulerVars
  <1> QED BY <1>1, <1>2, <1>3, <1>4, <1>5, NextCases DEF vars, DispatchDue, Ready, CrashApi

\* Nothing about the calls changes with a row.
LEMMA RowStepIsLife ==
  ASSUME LifeInv, [Next]_vars, UNCHANGED <<now, calls>>
  PROVE  [Life!Next]_(Life!vars)
  <1> DEFINE SetStatus(n, s) == /\ row' = [row EXCEPT ![n] = s]
                                /\ past' = [past EXCEPT ![n] = @ \union {s}]
  <1>0. /\ row \in [Notifs -> Service!Statuses \union {"absent"}]
        /\ past \in [Notifs -> SUBSET Service!Statuses]
    BY DEF LifeInv, Service!RelyInv, Service!ServiceInv, Service!TypeOK
  <1>1. UNCHANGED <<now, Tried, Sent>>
    BY DEF Tried, Sent, Called, AcceptedByProvider
  <1>2. \/ UNCHANGED <<row, past>>
        \/ \E S \in SUBSET {n \in Notifs : row[n] = "absent"} :
              /\ row' = [n \in Notifs |-> IF n \in S THEN "pending" ELSE row[n]]
              /\ past' = [n \in Notifs |-> IF n \in S THEN past[n] \union {"pending"} ELSE past[n]]
        \/ \E n \in Notifs : row[n] # "absent" /\ SetStatus(n, "cancelled")
        \/ \E e \in Results :
              /\ rqueue[e].st # "none"
              /\ row[e.msg.notif] \notin {"absent", Service!Opposite(e.status)}
              /\ Service!Opposite(e.status) \notin past[e.msg.notif]
              /\ SetStatus(e.msg.notif, e.status)
    <2>1. [Service!Next]_(Service!vars) /\ Service!RelyInv
      BY ServiceView DEF LifeInv
    <2>2. \/ UNCHANGED <<row, past>>
          \/ \E S \in SUBSET {n \in Notifs : row[n] = "absent"} : Service!Insert(S)
          \/ \E n \in Notifs : row[n] # "absent" /\ Service!SetStatus(n, "cancelled")
          \/ \E e \in Results :
                /\ rqueue[e].st # "none"
                /\ row[e.msg.notif] \notin {"absent", Service!Opposite(e.status)}
                /\ Service!Opposite(e.status) \notin past[e.msg.notif]
                /\ Service!SetStatus(e.msg.notif, e.status)
      BY <2>1, ServiceAssumed, Service!RowMoves
    <2> QED BY <2>2 DEF Service!Insert, Service!SetStatus
  <1>3. CASE UNCHANGED <<row, past>>
    BY <1>1, <1>3 DEF Life!vars, Tried, Sent
  <1>4. ASSUME NEW S \in SUBSET {n \in Notifs : row[n] = "absent"},
               row' = [n \in Notifs |-> IF n \in S THEN "pending" ELSE row[n]],
               past' = [n \in Notifs |-> IF n \in S THEN past[n] \union {"pending"} ELSE past[n]]
        PROVE  Life!Create
    <2>1. Outcomes' = Outcomes
      BY <1>0, <1>4 DEF Outcomes, Outcome
    <2> QED BY <1>1, <1>4, <2>1 DEF Life!Create, Tried, Sent, Outcomes, Outcome
  <1>5. ASSUME NEW n \in Notifs, row[n] # "absent", SetStatus(n, "cancelled")
        PROVE  Life!Cancel(n)
    <2>1. Outcomes' = Outcomes
      BY <1>0, <1>5 DEF Outcomes, Outcome
    <2> QED BY <1>1, <1>5, <2>1 DEF Life!Cancel, Tried, Sent, Outcomes, Outcome
  <1>6. ASSUME NEW e \in Results, rqueue[e].st # "none",
               row[e.msg.notif] \notin {"absent", Service!Opposite(e.status)},
               Service!Opposite(e.status) \notin past[e.msg.notif],
               SetStatus(e.msg.notif, e.status)
        PROVE  Life!Record(e.msg.notif, e.status)
    <2> DEFINE n == e.msg.notif
               v == e.status
    <2>0. n \in Notifs /\ v \in {"delivered", "failed"} /\ e.msg \in ReadyMsgs
      BY ReadyNotif DEF Results
    <2>1. row[n] \in {"pending", "cancelled", v}
      BY <1>0, <1>6, <2>0 DEF Service!Statuses, Service!Opposite
    <2>2. Outcome(n) \in {"none", v}
      BY <1>6, <2>0 DEF Outcome, Service!Opposite
    <2>3. n \in IF v = "delivered" THEN Sent ELSE Tried
      <3>1. e \in events
        BY <1>6 DEF LifeInv, ResultTold
      <3>2. PICK c \in calls : c.msg = e.msg /\ (v = "delivered" => c.accepted)
        BY <3>1 DEF LifeInv, Processor!RelyInv, Processor!ReportsTruth, Processor!Supported
      <3> QED BY <2>0, <3>2 DEF Sent, Tried, Called, AcceptedByProvider
    <2>4. Outcomes' = [Outcomes EXCEPT ![n] = v]
      <3>1. past'[n] = past[n] \union {v} /\ \A k \in Notifs \ {n} : past'[k] = past[k]
        BY <1>0, <1>6, <2>0
      <3>2. Outcome(n)' = v
        BY <1>6, <2>0, <3>1 DEF Outcome, Service!Opposite
      <3>3. \A k \in Notifs \ {n} : Outcome(k)' = Outcome(k)
        BY <3>1 DEF Outcome
      <3> QED BY <3>2, <3>3 DEF Outcomes
    <2> QED BY <1>1, <1>6, <2>0, <2>1, <2>2, <2>3, <2>4
            DEF Life!Record, Tried, Sent, Outcomes, Outcome
  <1>7. \A e \in Results : e.msg.notif \in Notifs /\ e.status \in {"delivered", "failed"}
    BY ReadyNotif DEF Results
  <1>8. /\ Life!Create => Life!Next
        /\ \A n \in Notifs : Life!Cancel(n) => Life!Next
        /\ \A e \in Results : Life!Record(e.msg.notif, e.status) => Life!Next
    BY <1>7 DEF Life!Next
  <1> QED BY <1>2, <1>3, <1>4, <1>5, <1>6, <1>8

LEMMA ClockStepIsLife ==
  ASSUME LifeInv, [Next]_vars, UNCHANGED <<row, past, calls>>
  PROVE  [Life!Next]_(Life!vars)
  <1>1. UNCHANGED <<row, Outcomes, Tried, Sent>>
    BY DEF Outcomes, Outcome, Tried, Sent, Called, AcceptedByProvider
  <1>2. now' = now \/ now' = now + 1
    BY SchedulerView, SchedulerAssumed, Scheduler!ClockAndHistory DEF LifeInv, Scheduler!RelyInv
  <1>3. now' = now + 1 => Life!Tick
    BY <1>1 DEF Life!Tick, Outcomes, Outcome, Tried, Sent
  <1>4. now' = now => UNCHANGED Life!vars
    BY <1>1 DEF Life!vars, Outcomes, Outcome, Tried, Sent
  <1> QED BY <1>2, <1>3, <1>4 DEF Life!Next

LEMMA CallStepIsLife ==
  ASSUME LifeInv, [Next]_vars, UNCHANGED <<row, past, now>>
  PROVE  [Life!Next]_(Life!vars)
  <1>1. UNCHANGED <<row, Outcomes, now>>
    BY DEF Outcomes, Outcome
  <1>2. CASE calls' = calls
    <2>1. UNCHANGED <<Tried, Sent>>
      BY <1>2 DEF Tried, Sent, Called, AcceptedByProvider
    <2> QED BY <1>1, <2>1 DEF Life!vars, Outcomes, Outcome, Tried, Sent
  <1>3. CASE calls' # calls
    <2>1. PICK m \in ReadyMsgs, a \in Nat, b \in BOOLEAN :
            /\ pqueue[m].st # "none"
            /\ calls' = calls \union {[msg |-> m, attempt |-> a, accepted |-> b]}
      BY <1>3, ProcessorView, ProcessorAssumed, Processor!CallStep DEF LifeInv
    <2>2. m.notif \in Notifs /\ row[m.notif] # "absent" /\ ScheduledAt[m.notif] <= now
      BY <2>1, ReadyNotif DEF LifeInv, ReadyTold
    <2>3. Tried' = Tried \union {m.notif}
      <3> DEFINE c == [msg |-> m, attempt |-> a, accepted |-> b]
      <3>1. c \in calls' /\ c.msg = m /\ \A d \in calls' : d \in calls \/ d = c
        BY <2>1
      <3>2. calls \subseteq calls'
        BY <2>1
      <3> HIDE DEF c
      <3>3. \A n \in Notifs : Called(n)' <=> Called(n) \/ n = m.notif
        BY <3>1, <3>2 DEF Called
      <3> QED BY <2>2, <3>3 DEF Tried
    <2>4. Sent' \in {Sent, Sent \union {m.notif}}
      BY <2>1, <2>2 DEF Sent, AcceptedByProvider
    <2>5. Life!Try(m.notif)
      BY <1>1, <2>2, <2>3, <2>4 DEF Life!Try, Outcomes, Outcome, Tried, Sent
    <2> QED BY <2>2, <2>5 DEF Life!Next
  <1> QED BY <1>2, <1>3

LEMMA InitIsLife == Init => Life!Init
  <1> SUFFICES ASSUME Init PROVE Life!Init
    OBVIOUS
  <1>1. Service!Init /\ Scheduler!Init /\ Processor!Init
    BY ApiIsService, SchedIsScheduler, PipeIsProcessor DEF Init
  <1> QED BY <1>1 DEF Service!Init, Scheduler!Init, Processor!Init, Life!Init, Called, AcceptedByProvider

LEMMA LifeInvHolds == Spec => []LifeInv
  <1>1. Init => LifeInv
    BY InitLifeInv
  <1>2. LifeInv /\ [Next]_vars => LifeInv'
    BY NextLifeInv
  <1> QED BY <1>1, <1>2, PTL DEF Spec

\* The services together keep the promise of NotificationLife, under every
\* fault: the provider is called for nothing that is not stored and for nothing
\* before its time (scheduler.go Tick, due_consumer.go handleBatch), and the API
\* records an outcome only when the provider's answers support it, and never
\* two opposite ones (UpdateStatus), whatever is delivered twice, too late or
\* after a crash.
THEOREM LifeTheorem == Spec => ImplementsLife
  <1>1. Init => Life!Init
    BY InitIsLife
  <1>2. LifeInv /\ [Next]_vars => [Life!Next]_(Life!vars)
    BY OneMoves, RowStepIsLife, ClockStepIsLife, CallStepIsLife
  <1> QED BY <1>1, <1>2, LifeInvHolds, PTL DEF Spec, ImplementsLife, Life!Spec

-----------------------------------------------------------------------------
(***************************************************************************)
(* Once: while nothing is lost, every hand-over happens once.  A           *)
(* notification is named by one schedule message, dispatched in one due    *)
(* event and readied in one ready event, which the provider accepts once.  *)
(***************************************************************************)

\* What the scheduler is asked to do was announced.
ScheduleAnnounced ==
    \A m \in Schedules : squeue[m].st # "none" => m.items \subseteq announced

\* The nth ready event for a due event is that of its nth turn.
ReadyCounted ==
    \A m \in ReadyMsgs :
        pqueue[m].st # "none" /\ m.notif \in Scheduled =>
            \E d \in DueMsgs : /\ d.notif = m.notif /\ d.nth = m.due
                               /\ dqueue[d].st # "none"
                               /\ m.nth <= readied[d]

\* The provider was called for messages that were published.
CallsStored == \A c \in calls : c.msg \in ReadyMsgs /\ pqueue[c.msg].st # "none"

HandOverInv == ScheduleAnnounced /\ Scheduler!AskedOnce /\ ReadyCounted /\ CallsStored

\* Each component repeats nothing under the faults that its own part stands.
ComponentsOnce ==
    /\ Scheduler!Calm => Scheduler!OnceInv
    /\ Scheduler!Quiet => Scheduler!DispatchedIsOut
    /\ DueConsumer!Undisturbed => DueConsumer!OnceInv
    /\ Processor!LocksOnly => Processor!SingleEffectInv

\* The inductive invariant, under every fault.
OnceInv == LifeInv /\ HandOverInv /\ ComponentsOnce

\* What is not lost anywhere is not lost in a component.
LEMMA NothingLostAnywhere ==
  ASSUME NothingLost
  PROVE  /\ Scheduler!Calm /\ Scheduler!Quiet /\ DueConsumer!Undisturbed
         /\ "timeout" \notin faults => Processor!LocksOnly
  BY DEF NothingLost, Scheduler!Calm, Scheduler!Quiet, DueConsumer!Undisturbed,
         Processor!LocksOnly

LEMMA InitOnceInv == Init => OnceInv
  <1> SUFFICES ASSUME Init PROVE OnceInv
    OBVIOUS
  <1>1. Service!Init /\ Scheduler!Init /\ DueConsumer!Init /\ Processor!Init
    BY ApiIsService, SchedIsScheduler, DueIsDueConsumer, PipeIsProcessor DEF Init
  <1>2. LifeInv
    BY InitLifeInv
  <1>3. ScheduleAnnounced /\ Scheduler!AskedOnce
    BY <1>1 DEF Scheduler!Init, Scheduler!Unpublished, Scheduler!Msgs, ScheduleAnnounced,
                Scheduler!AskedOnce
  <1>4. ReadyCounted /\ CallsStored
    BY <1>1 DEF Processor!Init, Processor!Unpublished, ReadyCounted, CallsStored
  <1>5. Scheduler!OnceInv
    BY <1>1, SchedulerAssumed, Scheduler!InitOnceInv
  <1>6. Scheduler!DispatchedIsOut
    BY <1>1 DEF Scheduler!Init, Scheduler!DispatchedIsOut
  <1>7. DueConsumer!OnceInv
    BY <1>1, DueAssumed, DueConsumer!InitOnceInv
  <1>8. Processor!SingleEffectInv
    BY <1>1, ProcessorAssumed, Processor!InitSingleEffect
  <1> QED BY <1>2, <1>3, <1>4, <1>5, <1>6, <1>7, <1>8 DEF OnceInv, HandOverInv, ComponentsOnce

\* A schedule message names what was announced with it and never before.
LEMMA NextAsked ==
  ASSUME LifeInv, ScheduleAnnounced, Scheduler!AskedOnce, [Next]_vars
  PROVE  ScheduleAnnounced' /\ Scheduler!AskedOnce'
  <1>1. announced \subseteq announced'
    BY ServiceView, ServiceAssumed, Service!RowsStay DEF LifeInv, Service!RelyInv, Service!ServiceInv
  <1>2. \A m \in Schedules : squeue'[m].st # "none" =>
           \/ squeue[m].st # "none" /\ m.items \subseteq announced
           \/ AskedNow(m) /\ m.items = announced' \ announced
    BY SchedulerView DEF LifeInv, ScheduleAnnounced, AskedNow
  <1>3. ScheduleAnnounced'
    BY <1>1, <1>2 DEF ScheduleAnnounced
  <1>4. ASSUME NEW l \in Schedules, NEW m \in Schedules, l # m,
               squeue'[l].st # "none", squeue'[m].st # "none"
        PROVE  (l.items \intersect Scheduled) \intersect (m.items \intersect Scheduled) = {}
    <2>1. CASE squeue[l].st # "none" /\ squeue[m].st # "none"
      BY <1>4, <2>1 DEF Scheduler!AskedOnce
    <2>2. ~ (AskedNow(l) /\ AskedNow(m))
      BY <1>4, SchedulerView DEF LifeInv
    <2>3. CASE AskedNow(l) /\ m.items \subseteq announced
      BY <1>2, <1>4, <2>3 DEF AskedNow
    <2>4. CASE AskedNow(m) /\ l.items \subseteq announced
      BY <1>2, <1>4, <2>4 DEF AskedNow
    <2> QED BY <1>2, <1>4, <2>1, <2>2, <2>3, <2>4
  <1>5. Scheduler!AskedOnce'
    BY <1>4 DEF Scheduler!AskedOnce
  <1> QED BY <1>3, <1>5

\* The due events stay in the stream, and the counts of their turns only grow.
LEMMA DueStays ==
  ASSUME LifeInv, [Next]_vars, NEW d \in DueMsgs, dqueue[d].st # "none"
  PROVE  dqueue'[d].st # "none" /\ readied[d] <= readied'[d]
  <1>0. DueConsumer!TypeOK /\ DueConsumer!HoldsStored
    BY DEF LifeInv, DueConsumer!RelyInv
  <1>1. CASE [DueConsumer!Next]_(DueConsumer!vars)
    BY <1>0, <1>1, DueAssumed, DueConsumer!OnlyStored, DueConsumer!ReadiedGrows
  <1>2. readied[d] \in Nat
    BY <1>0 DEF DueConsumer!TypeOK
  <1>3. ASSUME NEW i \in Instances, DispatchDue(i)
        PROVE  dqueue'[d].st # "none" /\ readied[d] <= readied'[d]
    <2>1. dqueue'[d] = DueConsumer!Stored(dqueue[d]) \/ dqueue'[d] = dqueue[d]
      BY <1>3 DEF DispatchDue, Stored, DueConsumer!Stored
    <2>2. DueConsumer!Stored(dqueue[d]).st # "none"
      BY DEF DueConsumer!Stored
    <2>3. readied' = readied
      BY <1>3 DEF DispatchDue
    <2> QED BY <1>2, <2>1, <2>2, <2>3
  <1>4. CASE UNCHANGED dueVars
    <2>1. dqueue' = dqueue /\ readied' = readied
      BY <1>4 DEF dueVars
    <2> QED BY <1>2, <2>1
  <1>5. CASE DueStep
    BY <1>1, <1>5, StepsOwn
  <1> QED BY <1>3, <1>4, <1>5, NextCases, PublishingSteps DEF vars, Announce, Withdraw, ReportBack

LEMMA NextReadyCounted ==
  ASSUME LifeInv, ReadyCounted, [Next]_vars
  PROVE  ReadyCounted'
  <1> SUFFICES ASSUME NEW m \in ReadyMsgs, pqueue'[m].st # "none", m.notif \in Scheduled
               PROVE  \E d \in DueMsgs : /\ d.notif = m.notif /\ d.nth = m.due
                                         /\ dqueue'[d].st # "none"
                                         /\ m.nth <= readied'[d]
    BY DEF ReadyCounted
  <1>1. CASE pqueue[m].st # "none"
    <2>1. PICK d \in DueMsgs : /\ d.notif = m.notif /\ d.nth = m.due
                               /\ dqueue[d].st # "none"
                               /\ m.nth <= readied[d]
      BY <1>1 DEF ReadyCounted
    <2>2. dqueue'[d].st # "none" /\ readied[d] <= readied'[d]
      BY <2>1, DueStays
    <2>3. m.nth \in Nat
      BY EndToEndAssumption DEF EndToEndAssumption, ReadyMsgs, AtOnce
    <2>4. readied[d] \in 0 .. 2 /\ readied'[d] \in 0 .. 2
      BY NextLifeInv DEF LifeInv, DueConsumer!RelyInv, DueConsumer!TypeOK
    <2> QED BY <2>1, <2>2, <2>3, <2>4
  <1>2. CASE pqueue[m].st = "none"
    <2>1. PICK d \in DueMsgs : /\ d.notif = m.notif /\ d.nth = m.due
                               /\ dqueue[d].st # "none"
                               /\ m.nth <= readied'[d]
      BY <1>2, ProcessorView DEF Turned
    <2> QED BY <2>1, DueStays
  <1> QED BY <1>1, <1>2

LEMMA NextCallsStored ==
  ASSUME LifeInv, CallsStored, [Next]_vars
  PROVE  CallsStored'
  <1>0. Processor!RelyInv /\ [Processor!Next]_(Processor!vars)
    BY ProcessorView DEF LifeInv
  <1>1. \A m \in ReadyMsgs : pqueue[m].st # "none" => pqueue'[m].st # "none"
    BY <1>0, ProcessorAssumed, Processor!OnlyStored DEF Processor!RelyInv
  <1>2. CASE calls' = calls
    BY <1>1, <1>2 DEF CallsStored
  <1>3. CASE calls' # calls
    <2>1. PICK m \in ReadyMsgs, a \in Nat, b \in BOOLEAN :
            /\ pqueue[m].st # "none"
            /\ calls' = calls \union {[msg |-> m, attempt |-> a, accepted |-> b]}
      BY <1>0, <1>3, ProcessorAssumed, Processor!CallStep
    <2> QED BY <1>1, <2>1 DEF CallsStored
  <1> QED BY <1>2, <1>3

\* A due event is stored once, for the scheduler counts its dispatches.
LEMMA NextDueOnce ==
  ASSUME LifeInv, DueConsumer!Undisturbed, DueConsumer!OnceInv, [Next]_vars
  PROVE  DueConsumer!OnceInv'
  <1>1. CASE [DueConsumer!Next]_(DueConsumer!vars)
    BY <1>1, DueAssumed, DueConsumer!NextOnceInv
  <1>2. ASSUME NEW i \in Instances, DispatchDue(i) PROVE DueConsumer!OnceInv'
    <2> DEFINE S == {m \in DueMsgs : dispatched[m.notif] < m.nth /\ m.nth <= dispatched'[m.notif]}
    <2>1. dqueue' = [m \in DueMsgs |-> IF m \in S THEN DueConsumer!Stored(dqueue[m]) ELSE dqueue[m]]
      BY <1>2 DEF DispatchDue, Stored, DueConsumer!Stored
    <2>2. UNCHANGED <<faults, batches, phase, batch, found, dverdict, readied>>
      BY <1>2, FaultsKept DEF DispatchDue, Next, Dispatch
    <2>3. \A m \in DueMsgs : m.nth \in Nat /\ dispatched[m.notif] \in 0 .. 2
      BY EndToEndAssumption
         DEF EndToEndAssumption, DueMsgs, LifeInv, Scheduler!RelyInv, Scheduler!TypeOK
    <2>4. \A m \in S : dqueue[m].st = "none"
      BY <2>3 DEF LifeInv, DueTold
    <2>5. S \in SUBSET {m \in DueMsgs : dqueue[m].st = "none"}
      BY <2>4
    <2> HIDE DEF S
    <2> QED BY <2>1, <2>2, <2>5, DueAssumed, DueConsumer!StoresOnceInv
  <1>3. CASE UNCHANGED dueVars
    <2>1. UNCHANGED DueConsumer!vars
      BY <1>3, FaultsKept DEF dueVars, DueConsumer!vars
    <2> QED BY <1>1, <2>1
  <1>4. CASE DueStep
    BY <1>1, <1>4, StepsOwn
  <1> QED BY <1>2, <1>3, <1>4, NextCases, PublishingSteps DEF vars, Announce, Withdraw, ReportBack

LEMMA NextOnceInv == OnceInv /\ [Next]_vars => OnceInv'
  <1> SUFFICES ASSUME OnceInv, [Next]_vars PROVE OnceInv'
    OBVIOUS
  <1> USE DEF OnceInv
  <1>1. LifeInv'
    BY NextLifeInv
  <1>2. HandOverInv'
    BY NextAsked, NextReadyCounted, NextCallsStored DEF HandOverInv
  <1>3. [Scheduler!Next]_(Scheduler!vars) /\ [Processor!Next]_(Processor!vars)
    BY SchedulerView, ProcessorView DEF LifeInv
  <1>4. faults' = faults
    BY FaultsKept
  <1>5. (Scheduler!Calm => Scheduler!OnceInv)'
    <2> SUFFICES ASSUME Scheduler!Calm PROVE Scheduler!OnceInv'
      BY <1>4 DEF Scheduler!Calm
    <2>1. Scheduler!OnceInv /\ Scheduler!RelyInv /\ Scheduler!AskedOnce'
      BY <1>2 DEF ComponentsOnce, LifeInv, HandOverInv
    <2> QED BY <1>3, <2>1, SchedulerAssumed, Scheduler!NextOnceInv
  <1>6. (Scheduler!Quiet => Scheduler!DispatchedIsOut)'
    <2> SUFFICES ASSUME Scheduler!Quiet PROVE Scheduler!DispatchedIsOut'
      BY <1>4 DEF Scheduler!Quiet, Scheduler!Calm
    <2>1. Scheduler!OnceInv /\ Scheduler!DispatchedIsOut
      BY DEF ComponentsOnce, Scheduler!Quiet
    <2> QED BY <1>3, <2>1, SchedulerAssumed, Scheduler!NextDispatchedIsOut
  <1>7. (DueConsumer!Undisturbed => DueConsumer!OnceInv)'
    <2> SUFFICES ASSUME DueConsumer!Undisturbed PROVE DueConsumer!OnceInv'
      BY <1>4 DEF DueConsumer!Undisturbed
    <2> QED BY NextDueOnce DEF ComponentsOnce
  <1>8. (Processor!LocksOnly => Processor!SingleEffectInv)'
    <2> SUFFICES ASSUME Processor!LocksOnly PROVE Processor!SingleEffectInv'
      BY <1>4 DEF Processor!LocksOnly
    <2> QED BY <1>3, ProcessorAssumed, Processor!NextSingleEffect DEF ComponentsOnce
  <1> QED BY <1>1, <1>2, <1>5, <1>6, <1>7, <1>8 DEF ComponentsOnce

LEMMA OnceInvHolds == Spec => []OnceInv
  <1>1. Init => OnceInv
    BY InitOnceInv
  <1>2. OnceInv /\ [Next]_vars => OnceInv'
    BY NextOnceInv
  <1> QED BY <1>1, <1>2, PTL DEF Spec

\* The message that a call for a scheduled notification is about leads back to
\* its one due event and that event's one turn.
LEMMA TheOneReady ==
  ASSUME OnceInv, Scheduler!Quiet, DueConsumer!Undisturbed,
         NEW m \in ReadyMsgs, pqueue[m].st # "none", m.notif \in Scheduled
  PROVE  dispatched[m.notif] > 0 /\ m.due = 1 /\ m.nth = 1
  <1>1. PICK d \in DueMsgs : /\ d.notif = m.notif /\ d.nth = m.due
                             /\ dqueue[d].st # "none"
                             /\ m.nth <= readied[d]
    BY DEF OnceInv, HandOverInv, ReadyCounted
  <1>2. d.nth \in Nat \ {0}
    BY EndToEndAssumption DEF EndToEndAssumption, DueMsgs
  <1>3. m.nth \in Nat \ {0}
    BY EndToEndAssumption DEF EndToEndAssumption, ReadyMsgs, AtOnce
  <1>4. d.nth <= dispatched[d.notif]
    BY <1>1 DEF OnceInv, LifeInv, DueTold
  <1>5. dispatched[d.notif] \in 0 .. 2 /\ dispatched[d.notif] <= 1
    BY <1>1 DEF OnceInv, ComponentsOnce, Scheduler!DispatchedIsOut, LifeInv, Scheduler!RelyInv,
                Scheduler!TypeOK
  <1>6. readied[d] \in 0 .. 2 /\ readied[d] <= 1
    BY DEF OnceInv, ComponentsOnce, DueConsumer!OnceInv, DueConsumer!ReadiedOnce, DueConsumer!TypeOK
  <1>7. dispatched[d.notif] > 0 /\ d.nth = 1 /\ m.nth = 1
    BY <1>1, <1>2, <1>3, <1>4, <1>5, <1>6
  <1> QED BY <1>1, <1>7

\* While nothing is lost, one message stands for a notification.
LEMMA OneReady ==
  ASSUME OnceInv, Scheduler!Quiet, DueConsumer!Undisturbed,
         NEW l \in ReadyMsgs, pqueue[l].st # "none",
         NEW m \in ReadyMsgs, pqueue[m].st # "none", l.notif = m.notif
  PROVE  l = m
  <1>1. CASE m.notif \notin Scheduled
    BY <1>1 DEF ReadyMsgs, AtOnce
  <1>2. CASE m.notif \in Scheduled
    <2>1. l.due = m.due /\ l.nth = m.nth
      BY <1>2, TheOneReady
    <2> QED BY <2>1 DEF ReadyMsgs, AtOnce
  <1> QED BY <1>1, <1>2

\* While nothing is lost, a notification whose schedule row a cancel deleted
\* (notification_schedule_cancelled_consumer.go) is never sent, whatever
\* statements fail, locks expire and calls to the provider time out.  The
\* cancel, the claim and the call are steps of three goroutines in two
\* processes; what the cancel finds in the table was not dispatched, nothing puts
\* it back, and only what was dispatched and readied before reaches the provider.
THEOREM RemovedIsNotSentTheorem == Spec => []RemovedIsNotSent
  <1>1. OnceInv => RemovedIsNotSent
    <2> SUFFICES ASSUME OnceInv, NothingLost, NEW n \in removed, NEW c \in calls, c.msg.notif = n
                 PROVE  FALSE
      BY DEF RemovedIsNotSent, Called
    <2>1. n \in Scheduled
      BY DEF OnceInv, LifeInv, Scheduler!RelyInv, Scheduler!TypeOK
    <2>2. Scheduler!Quiet /\ DueConsumer!Undisturbed
      BY NothingLostAnywhere
    <2>3. c.msg \in ReadyMsgs /\ pqueue[c.msg].st # "none"
      BY DEF OnceInv, HandOverInv, CallsStored
    <2>4. dispatched[n] > 0
      BY <2>1, <2>2, <2>3, TheOneReady
    <2> QED BY <2>1, <2>2, <2>4 DEF OnceInv, ComponentsOnce, Scheduler!DispatchedIsOut
  <1> QED BY <1>1, OnceInvHolds, PTL

\* While nothing is lost and the provider answers, it accepts a notification
\* once, sent at once or through the scheduler, whatever statements fail, locks
\* expire or limits are met, and however often the row, the claim or the message
\* is therefore taken up again (handleBatch, dispatchBatch, processOne).
THEOREM AcceptedOnceTheorem == Spec => []AcceptedOnce
  <1>1. OnceInv => AcceptedOnce
    <2> SUFFICES ASSUME OnceInv, NothingLost, "timeout" \notin faults,
                        NEW c \in calls, NEW d \in calls,
                        c.accepted, d.accepted, c.msg.notif = d.msg.notif
                 PROVE  c = d
      BY DEF AcceptedOnce
    <2>1. Scheduler!Quiet /\ DueConsumer!Undisturbed /\ Processor!LocksOnly
      BY NothingLostAnywhere
    <2>2. c.msg = d.msg
      BY <2>1, OneReady DEF OnceInv, HandOverInv, CallsStored
    <2> QED BY <2>1, <2>2 DEF OnceInv, ComponentsOnce, Processor!SingleEffectInv,
                              Processor!AcceptedSpent
  <1> QED BY <1>1, OnceInvHolds, PTL

-----------------------------------------------------------------------------
(***************************************************************************)
(* Each component is met by the others as its own module assumes, so that  *)
(* what is proved of it there holds here.  (The due consumer gets several  *)
(* due events in one step, for DispatchDue publishes a batch at once.)     *)
(***************************************************************************)

\* The API does here what NotificationService says: results reach it that the
\* processor published, one at a time.
THEOREM ServiceImplemented == Spec => Service!Spec
  <1>1. Init => Service!Init
    BY ApiIsService DEF Init
  <1>2. LifeInv /\ [Next]_vars => [Service!Next]_(Service!vars)
    BY ServiceView DEF LifeInv
  <1> QED BY <1>1, <1>2, LifeInvHolds, PTL DEF Spec, Service!Spec

\* The scheduler does here what DeliveryScheduler says: it is asked for what the
\* API announced or withdrew, each message published once.
THEOREM SchedulerImplemented == Spec => Scheduler!Spec
  <1>1. Init => Scheduler!Init
    BY SchedIsScheduler DEF Init
  <1>2. LifeInv /\ [Next]_vars => [Scheduler!Next]_(Scheduler!vars)
    BY SchedulerView DEF LifeInv
  <1> QED BY <1>1, <1>2, LifeInvHolds, PTL DEF Spec, Scheduler!Spec

\* The processor does here what DeliveryPipeline says: the ready events of the
\* API and the due consumer are stored one at a time.
THEOREM ProcessorImplemented == Spec => Processor!Spec
  <1>1. Init => Processor!Init
    BY PipeIsProcessor DEF Init
  <1>2. LifeInv /\ [Next]_vars => [Processor!Next]_(Processor!vars)
    BY ProcessorView
  <1> QED BY <1>1, <1>2, LifeInvHolds, PTL DEF Spec, Processor!Spec

\* In the composition the scheduler dispatches nothing twice, without the
\* assumption that a notification is in one possible event only: the API
\* announces it once (handleScheduledEvents, dispatchBatch).
THEOREM DispatchedOnceHere == Spec => []Scheduler!DispatchedOnce
  <1>1. OnceInv => Scheduler!DispatchedOnce
    <2>1. {"slow", "settle", "reply", "publish", "stop", "crash"} \intersect faults = {} =>
             Scheduler!Quiet
      BY DEF Scheduler!Quiet, Scheduler!Calm
    <2> QED BY <2>1 DEF OnceInv, ComponentsOnce, Scheduler!DispatchedIsOut,
                        Scheduler!DispatchedOnce
  <1> QED BY <1>1, OnceInvHolds, PTL

\* Nothing is lost on the way, as long as no component loses it: what the
\* scheduler acked waits, is dispatched or was removed (ScheduleNotLost), and
\* what is published for the processor is reported or still deliverable
\* (NotificationNotLost).
THEOREM NothingLostHere ==
  Spec => [](Scheduler!ScheduleNotLost /\ Processor!NotificationNotLost)
  <1>1. Scheduler!Spec => []Scheduler!ScheduleNotLost
    BY SchedulerAssumed, Scheduler!ScheduleKeptTheorem
  <1>2. Processor!Spec => []Processor!NotificationNotLost
    BY ProcessorAssumed, Processor!NotLostTheorem
  <1> QED BY <1>1, <1>2, SchedulerImplemented, ProcessorImplemented, PTL

-----------------------------------------------------------------------------
(***************************************************************************)
(* Nothing is lost between the components: what one has told is stored for *)
(* the next.                                                               *)
(***************************************************************************)

\* What the API announced was stored, for the scheduler or for the processor.
AnnouncedCarried ==
    \A n \in announced :
        IF n \in Scheduled
        THEN \E m \in Schedules : n \in m.items /\ squeue[m].st # "none"
        ELSE pqueue[AtOnce(n)].st # "none"

\* So was every due event that was dispatched.
DispatchedCarried ==
    \A d \in DueMsgs : d.nth <= dispatched[d.notif] => dqueue[d].st # "none"

\* The first ready event on behalf of a due event.
FirstReady(d) == [notif |-> d.notif, due |-> d.nth, nth |-> 1]

\* And the ready event of a due event that was turned.
ReadiedCarried == \A d \in DueMsgs : readied[d] > 0 => pqueue[FirstReady(d)].st # "none"

CarriedInv ==
    /\ LifeInv
    /\ DueConsumer!DueInv
    /\ AnnouncedCarried
    /\ DispatchedCarried
    /\ ReadiedCarried

LEMMA InitCarriedInv == Init => CarriedInv
  <1> SUFFICES ASSUME Init PROVE CarriedInv
    OBVIOUS
  <1>1. Service!Init /\ Scheduler!Init /\ DueConsumer!Init /\ Processor!Init
    BY ApiIsService, SchedIsScheduler, DueIsDueConsumer, PipeIsProcessor DEF Init
  <1>2. LifeInv
    BY InitLifeInv
  <1>3. DueConsumer!DueInv
    BY <1>1, DueAssumed, DueConsumer!InitDueInv
  <1>4. AnnouncedCarried
    BY <1>1 DEF Service!Init, AnnouncedCarried
  <1>5. DispatchedCarried
    BY <1>1, EndToEndAssumption DEF Scheduler!Init, DueMsgs, DispatchedCarried, EndToEndAssumption
  <1>6. ReadiedCarried
    BY <1>1 DEF DueConsumer!Init, ReadiedCarried
  <1> QED BY <1>2, <1>3, <1>4, <1>5, <1>6 DEF CarriedInv

\* Each history that hands over grows in one action only.
LEMMA OnlyAnnounce ==
  ASSUME [Next]_vars, announced' # announced
  PROVE  \E r \in Requests : Announce(r)
  <1>1. \A r \in Requests : OfApi(Api!Arrive(r)) => announced' = announced
    BY DEF OfApi, Api!Arrive, Api!serviceVars
  <1>2. \A r \in Requests :
          OfApi(Api!persist(r) \/ Api!ReadForCancel(r) \/ Api!WriteCancelled(r)) =>
              announced' = announced
    BY DEF OfApi, Api!persist, Api!ReadForCancel, Api!WriteCancelled, Api!serviceVars
  <1>3. \A r \in Requests : Withdraw(r) => announced' = announced
    BY DEF Withdraw, Api!PublishCancelled
  <1>4. OfApi(Api!Consume(Process)) => announced' = announced
    BY DEF OfApi, Api!Consume, Api!Take, Api!ReadForResult, Api!WriteResult, Api!SettleResult,
           Api!serviceVars
  <1>5. \A e \in Results : CarryResult(e) => announced' = announced
    BY DEF CarryResult, OfApi, Api!Fetch, Api!AckWaitExpires, Api!serviceVars
  <1>6. CrashApi => announced' = announced
    BY DEF CrashApi, Api!Crash, Api!serviceVars
  <1>7. UNCHANGED apiVars => announced' = announced
    BY DEF apiVars
  <1>8. \A w \in Workers : ReportBack(w) => announced' = announced
    BY <1>7 DEF ReportBack, Api!Report, Api!serviceVars
  <1> QED BY <1>1, <1>2, <1>3, <1>4, <1>5, <1>6, <1>7, <1>8
          DEF Next, vars, Serve, OfScheduler, OfDue, OfProcessor, Dispatch, DispatchDue, HandleDue,
              Ready, Work, CarryToScheduler, CarryDue, CarryReady, ProcessStep

LEMMA OnlyDispatchDue ==
  ASSUME [Next]_vars, dispatched' # dispatched
  PROVE  \E i \in Instances : DispatchDue(i)
  <1>1. OfScheduler(Sched!Tick) => dispatched' = dispatched
    BY DEF OfScheduler, Sched!Tick, Sched!dispatcherVars
  <1>2. \A g \in Sched!Goroutines : OfScheduler(Sched!Consume(g)) => dispatched' = dispatched
    BY DEF OfScheduler, Sched!Consume, Sched!Take, Sched!Write, Sched!Halt, Sched!Settle,
           Sched!dispatcherVars
  <1>3. \A i \in Instances :
          OfScheduler(Sched!Claim(i) \/ Sched!Requeue(i)) => dispatched' = dispatched
    BY DEF OfScheduler, Sched!Claim, Sched!Requeue
  <1>4. \A m \in Sched!Msgs : CarryToScheduler(m) => dispatched' = dispatched
    BY DEF CarryToScheduler, OfScheduler, Sched!AckWaitExpires, Sched!Fetch, Sched!dispatcherVars
  <1>5. \A i \in Instances :
          OfScheduler(Sched!Stop(i) \/ Sched!Restart(i) \/ Sched!Crash(i)) =>
              dispatched' = dispatched
    BY DEF OfScheduler, Sched!Stop, Sched!Restart, Sched!Crash, Sched!Fresh,
           Sched!dispatcherVars
  <1>6. UNCHANGED schedulerVars => dispatched' = dispatched
    BY DEF schedulerVars
  <1>7. \A r \in Requests : Announce(r) \/ Withdraw(r) => dispatched' = dispatched
    BY <1>6 DEF Announce, Withdraw, Sched!Store, Sched!dispatcherVars
  <1> QED BY <1>1, <1>2, <1>3, <1>4, <1>5, <1>6, <1>7
          DEF Next, vars, Serve, OfApi, OfDue, OfProcessor, Dispatch, HandleDue, Ready, Work,
              ReportBack, CarryResult, CarryDue, CarryReady, ProcessStep, CrashApi

LEMMA OnlyReady ==
  ASSUME [Next]_vars, readied' # readied
  PROVE  \E m \in DueMsgs : Ready(m)
  <1>1. OfDue(Due!Take(Process) \/ Due!Lookup(Process) \/ Due!Settle(Process)) =>
            readied' = readied
    BY DEF OfDue, Due!Take, Due!Lookup, Due!Settle
  <1>2. CarryDue => readied' = readied
    BY DEF CarryDue, OfDue, Due!FetchBatch, Due!AckWaitExpires
  <1>3. CrashApi => readied' = readied
    BY DEF CrashApi, Due!Crash
  <1>4. UNCHANGED dueVars => readied' = readied
    BY DEF dueVars
  <1> QED BY <1>1, <1>2, <1>3, <1>4
          DEF Next, vars, Serve, Announce, Withdraw, OfApi, OfScheduler, OfProcessor, Dispatch,
              DispatchDue, HandleDue, Work, ReportBack, CarryResult, CarryToScheduler, CarryReady,
              ProcessStep

LEMMA NextDueInv ==
  ASSUME LifeInv, DueConsumer!DueInv, [Next]_vars
  PROVE  DueConsumer!DueInv'
  <1>1. CASE [DueConsumer!Next]_(DueConsumer!vars)
    BY <1>1, DueAssumed, DueConsumer!NextDueInv
  <1>2. ASSUME NEW i \in Instances, DispatchDue(i) PROVE DueConsumer!DueInv'
    <2> DEFINE S == {m \in DueMsgs : dispatched[m.notif] < m.nth /\ m.nth <= dispatched'[m.notif]}
    <2>1. dqueue' = [m \in DueMsgs |-> IF m \in S THEN DueConsumer!Stored(dqueue[m]) ELSE dqueue[m]]
      BY <1>2 DEF DispatchDue, Stored, DueConsumer!Stored
    <2>2. UNCHANGED <<faults, batches, phase, batch, found, dverdict, readied>>
      BY <1>2, FaultsKept DEF DispatchDue, Next, Dispatch
    <2>3. S \in SUBSET DueMsgs
      OBVIOUS
    <2> HIDE DEF S
    <2> QED BY <2>1, <2>2, <2>3, DueAssumed, DueConsumer!StoresDueInv
  <1>3. CASE UNCHANGED dueVars
    <2>1. UNCHANGED DueConsumer!vars
      BY <1>3, FaultsKept DEF dueVars, DueConsumer!vars
    <2> QED BY <1>1, <2>1
  <1>4. CASE DueStep
    BY <1>1, <1>4, StepsOwn
  <1> QED BY <1>2, <1>3, <1>4, NextCases, PublishingSteps DEF vars, Announce, Withdraw, ReportBack

\* What is stored for a component stays stored, or is done with.
LEMMA StoredStays ==
  ASSUME LifeInv, [Next]_vars
  PROVE  /\ \A m \in Schedules : squeue[m].st # "none" => squeue'[m].st # "none"
         /\ \A m \in ReadyMsgs : pqueue[m].st # "none" => pqueue'[m].st # "none"
  <1>1. Scheduler!TypeOK /\ Scheduler!HoldsStored /\ [Scheduler!Next]_(Scheduler!vars)
    BY SchedulerView DEF LifeInv, Scheduler!RelyInv
  <1>2. \A m \in Scheduler!Msgs : squeue[m].st # "none" => squeue'[m].st # "none"
    BY <1>1, SchedulerAssumed, Scheduler!OnlyStored
  <1>3. Processor!TypeOK /\ Processor!HoldsStored /\ [Processor!Next]_(Processor!vars)
    BY ProcessorView DEF LifeInv, Processor!RelyInv
  <1>4. \A m \in ReadyMsgs : pqueue[m].st # "none" => pqueue'[m].st # "none"
    BY <1>3, ProcessorAssumed, Processor!OnlyStored
  <1> QED BY <1>2, <1>4 DEF Scheduler!Msgs

LEMMA NextAnnouncedCarried ==
  ASSUME LifeInv, AnnouncedCarried, [Next]_vars
  PROVE  AnnouncedCarried'
  <1>0. \A n \in Notifs \ Scheduled : AtOnce(n) \in ReadyMsgs
    BY DEF ReadyMsgs
  <1>1. announced \subseteq Notifs
    BY DEF LifeInv, Service!RelyInv, Service!ServiceInv, Service!TypeOK
  <1>2. \A n \in announced :
          IF n \in Scheduled
          THEN \E m \in Schedules : n \in m.items /\ squeue'[m].st # "none"
          ELSE pqueue'[AtOnce(n)].st # "none"
    BY <1>0, <1>1, StoredStays DEF AnnouncedCarried
  <1>3. CASE announced' = announced
    BY <1>2, <1>3 DEF AnnouncedCarried
  <1>4. CASE announced' # announced
    <2>1. PICK r \in Requests : Announce(r)
      BY <1>4, OnlyAnnounce
    <2> DEFINE new == announced' \ announced
    <2>2. PICK S \in Api!NextEvents(r) : announced' = announced \union S
      BY <1>4, <2>1 DEF Announce, Api!publish
    <2>3. S \subseteq Scheduled \/ \E n \in Notifs : S = {n}
      <3>1. todo[r] \subseteq Notifs
        BY DEF LifeInv, Service!RelyInv, Service!ServiceInv, Service!TypeOK
      <3> QED BY <2>2, <3>1 DEF Api!NextEvents
    <2>4. new \subseteq S /\ new # {} /\ new \subseteq Notifs
      BY <1>4, <2>1, <2>2, AnnouncedAreStored DEF LifeInv
    <2>5. ASSUME Sched!Store([kind |-> "scheduled", by |-> r, items |-> new]), new \subseteq Scheduled
          PROVE  \A n \in new : \E m \in Schedules : n \in m.items /\ squeue'[m].st # "none"
      <3> DEFINE m == [kind |-> "scheduled", by |-> r, items |-> new]
      <3>1. m \in Schedules /\ m.items = new
        BY <2>4, <2>5 DEF Schedules
      <3>2. squeue'[m].st # "none"
        <4>1. Scheduler!Store(m)
          BY <2>5, SchedIsScheduler
        <4>2. squeue \in [Scheduler!Msgs -> [st : Scheduler!QueueStatus, count : Nat]]
          BY DEF LifeInv, Scheduler!RelyInv, Scheduler!TypeOK
        <4>3. m \in Scheduler!Msgs
          BY <3>1 DEF Scheduler!Msgs
        <4> HIDE DEF m
        <4> QED BY <4>1, <4>2, <4>3 DEF Scheduler!Store, Scheduler!Stored
      <3> HIDE DEF m
      <3> QED BY <3>1, <3>2
    <2>6. ASSUME NEW n \in new \ Scheduled, Pipe!Store(AtOnce(n))
          PROVE  pqueue'[AtOnce(n)].st # "none"
      <3>1. Processor!Store(AtOnce(n))
        BY <2>6, PipeIsProcessor
      <3>2. pqueue \in [ReadyMsgs -> [st : Processor!QueueStatus, count : Nat]]
        BY DEF LifeInv, Processor!RelyInv, Processor!TypeOK
      <3>3. AtOnce(n) \in ReadyMsgs
        BY <1>0, <2>4
      <3> QED BY <3>1, <3>2, <3>3 DEF Processor!Store, Processor!Stored
    <2>7. \A n \in new :
            IF n \in Scheduled
            THEN \E m \in Schedules : n \in m.items /\ squeue'[m].st # "none"
            ELSE pqueue'[AtOnce(n)].st # "none"
      <3>1. CASE new \intersect Scheduled # {}
                 /\ Sched!Store([kind |-> "scheduled", by |-> r, items |-> new])
        <4>1. new \subseteq Scheduled
          BY <2>3, <2>4, <3>1
        <4> QED BY <2>5, <3>1, <4>1
      <3>2. CASE \E n \in new \ Scheduled : Pipe!Store(AtOnce(n))
        <4>1. PICK n \in new \ Scheduled : Pipe!Store(AtOnce(n))
          BY <3>2
        <4>2. new = {n}
          BY <2>3, <2>4, <4>1
        <4> QED BY <2>6, <4>1, <4>2
      <3> QED BY <2>1, <2>4, <3>1, <3>2 DEF Announce
    <2> QED BY <1>2, <2>7 DEF AnnouncedCarried
  <1> QED BY <1>3, <1>4

LEMMA NextDispatchedCarried ==
  ASSUME LifeInv, DispatchedCarried, [Next]_vars
  PROVE  DispatchedCarried'
  <1> SUFFICES ASSUME NEW d \in DueMsgs, d.nth <= dispatched'[d.notif]
               PROVE  dqueue'[d].st # "none"
    BY DEF DispatchedCarried
  <1>1. CASE d.nth <= dispatched[d.notif]
    BY <1>1, DueStays DEF DispatchedCarried
  <1>2. CASE ~ (d.nth <= dispatched[d.notif])
    <2>1. PICK i \in Instances : DispatchDue(i)
      BY <1>2, OnlyDispatchDue
    <2>2. d.notif \in Scheduled /\ d.nth \in Nat
      BY EndToEndAssumption DEF EndToEndAssumption, DueMsgs
    <2>3. dispatched[d.notif] \in 0 .. 2
      BY <2>2 DEF LifeInv, Scheduler!RelyInv, Scheduler!TypeOK
    <2>4. dispatched[d.notif] < d.nth
      BY <1>2, <2>2, <2>3
    <2>5. dqueue[d] \in [st : DueConsumer!QueueStatus, count : Nat]
      BY DEF LifeInv, DueConsumer!RelyInv, DueConsumer!TypeOK
    <2>6. dqueue'[d] = Stored(dqueue[d])
      BY <2>1, <2>4 DEF DispatchDue
    <2> QED BY <2>5, <2>6 DEF Stored
  <1> QED BY <1>1, <1>2

LEMMA NextReadiedCarried ==
  ASSUME LifeInv, ReadiedCarried, [Next]_vars
  PROVE  ReadiedCarried'
  <1> SUFFICES ASSUME NEW d \in DueMsgs, readied'[d] > 0
               PROVE  pqueue'[FirstReady(d)].st # "none"
    BY DEF ReadiedCarried
  <1>1. FirstReady(d) \in ReadyMsgs
    BY EndToEndAssumption DEF EndToEndAssumption, FirstReady, DueMsgs, ReadyMsgs
  <1>2. readied \in [DueMsgs -> 0 .. 2]
    BY DEF LifeInv, DueConsumer!RelyInv, DueConsumer!TypeOK
  <1>3. CASE readied[d] > 0
    BY <1>1, <1>3, StoredStays DEF ReadiedCarried
  <1>4. CASE readied[d] = 0
    <2>1. PICK m \in DueMsgs : Ready(m)
      BY <1>4, OnlyReady
    <2>2. readied' = readied \/ Due!Readied(m)
      BY <2>1 DEF Ready, Due!Each
    <2>3. m = d /\ readied'[d] = 1
      BY <1>2, <1>4, <2>2 DEF Due!Readied
    <2>4. Processor!Store(FirstReady(d))
      <3>1. readied[m] < readied'[m] /\ readied'[m] <= Duplicates
        BY <1>4, <2>3, EndToEndAssumption DEF EndToEndAssumption
      <3>2. Pipe!Store([notif |-> m.notif, due |-> m.nth, nth |-> readied'[m]])
        BY <2>1, <3>1 DEF Ready
      <3>3. FirstReady(d) = [notif |-> m.notif, due |-> m.nth, nth |-> readied'[m]]
        BY <2>3 DEF FirstReady
      <3> QED BY <3>2, <3>3, PipeIsProcessor
    <2>5. pqueue \in [ReadyMsgs -> [st : Processor!QueueStatus, count : Nat]]
      BY DEF LifeInv, Processor!RelyInv, Processor!TypeOK
    <2> QED BY <1>1, <2>4, <2>5 DEF Processor!Store, Processor!Stored
  <1> QED BY <1>2, <1>3, <1>4

LEMMA CarriedInvHolds == Spec => []CarriedInv
  <1>1. Init => CarriedInv
    BY InitCarriedInv
  <1>2. CarriedInv /\ [Next]_vars => CarriedInv'
    BY NextLifeInv, NextDueInv, NextAnnouncedCarried, NextDispatchedCarried, NextReadiedCarried
       DEF CarriedInv
  <1> QED BY <1>1, <1>2, PTL DEF Spec

\* A due event is acked only for a ready event, also where the scheduler stores
\* a batch of due events at once (handleBatch).
THEOREM DueNotLostHere == Spec => []DueConsumer!DueNotLost
  <1>1. CarriedInv => DueConsumer!DueNotLost
    BY DEF CarriedInv, DueConsumer!DueInv
  <1> QED BY <1>1, CarriedInvHolds, PTL

\* Somewhere between the API and the provider, notification n is kept.
OnItsWay(n) ==
    \/ \E m \in Schedules : n \in m.items /\ squeue[m].st \notin {"none", "gone"}
    \/ n \in table \union removed \/ \E i \in Instances : n \in claimed[i]
    \/ \E d \in DueMsgs : d.notif = n /\ dqueue[d].st \notin {"none", "gone"}
    \/ \E m \in ReadyMsgs : m.notif = n /\ pqueue[m].st \notin {"none", "gone"}

AnnouncedNotLost ==
    {"slow", "reply", "requeue", "unlock", "stop", "crash"} \intersect faults = {} =>
        \A n \in announced : OnItsWay(n) \/ \E e \in events : e.msg.notif = n

\* A ready event for n leads to a report or is still in its stream.
LEMMA ReadyNotLost ==
  ASSUME Processor!TypeOK, Processor!NotificationNotLost,
         {"slow", "reply", "unlock", "stop"} \intersect faults = {},
         NEW m \in ReadyMsgs, pqueue[m].st # "none"
  PROVE  OnItsWay(m.notif) \/ \E e \in events : e.msg.notif = m.notif
  <1> DEFINE n == m.notif
  <1>1. n \in Notifs /\ m \in Processor!MsgsOf(n)
    BY ReadyNotif DEF Processor!MsgsOf
  <1>2. CASE pqueue[m].st # "gone"
    BY <1>2 DEF OnItsWay
  <1>3. CASE pqueue[m].st = "gone"
    <2>1. Processor!Reported(n) \/ \E l \in Processor!MsgsOf(n) : Processor!Pending(l)
      BY <1>1, <1>3 DEF Processor!NotificationNotLost
    <2>2. ASSUME Processor!Reported(n) PROVE \E e \in events : e.msg.notif = n
      <3>1. PICK e \in events : [l \in ReadyMsgs |-> l.notif][e.msg] = n
        BY <2>2 DEF Processor!Reported
      <3>2. e.msg \in ReadyMsgs
        BY DEF Processor!TypeOK, Processor!Events
      <3> QED BY <3>1, <3>2
    <2>3. ASSUME NEW l \in Processor!MsgsOf(n), Processor!Pending(l) PROVE OnItsWay(n)
      <3>1. l \in ReadyMsgs /\ l.notif = n
        BY <2>3 DEF Processor!MsgsOf
      <3>2. pqueue[l].st \notin {"none", "gone"}
        BY <2>3 DEF Processor!Pending
      <3> QED BY <3>1, <3>2 DEF OnItsWay
    <2> QED BY <2>1, <2>2, <2>3
  <1> QED BY <1>2, <1>3

\* What the API announced gets a status event, or waits: in a stream, in the
\* scheduler's table or in a dispatcher's hands; or a cancel deleted its row.
\* Statements, publishes and acks may fail, locks and calls time out, and
\* everything may be delivered again, in each of the four services: none of the
\* hand-overs between them loses a notification (publishEvents,
\* handleScheduledEvents, dispatchBatch, handleBatch, processOne), while acks
\* arrive in time, claims, put-backs and unlocks work and no process ends.
THEOREM AnnouncedNotLostTheorem == Spec => []AnnouncedNotLost
  <1>1. CarriedInv /\ Scheduler!ScheduleNotLost /\ Processor!NotificationNotLost => AnnouncedNotLost
    <2> SUFFICES ASSUME CarriedInv, Scheduler!ScheduleNotLost, Processor!NotificationNotLost,
                        {"slow", "reply", "requeue", "unlock", "stop", "crash"}
                            \intersect faults = {},
                        NEW n \in announced
                 PROVE  OnItsWay(n) \/ \E e \in events : e.msg.notif = n
      BY DEF AnnouncedNotLost
    <2>1. /\ {"slow", "reply", "unlock", "stop"} \intersect faults = {}
          /\ {"reply", "requeue", "stop", "crash"} \intersect faults = {}
      OBVIOUS
    <2>2. Processor!TypeOK
      BY DEF CarriedInv, LifeInv, Processor!RelyInv
    <2>3. n \in Notifs
      BY DEF CarriedInv, LifeInv, Service!RelyInv, Service!ServiceInv, Service!TypeOK
    <2>4. CASE n \notin Scheduled
      <3>1. AtOnce(n) \in ReadyMsgs /\ AtOnce(n).notif = n
        BY <2>3, <2>4 DEF ReadyMsgs, AtOnce
      <3>2. pqueue[AtOnce(n)].st # "none"
        BY <2>4 DEF CarriedInv, AnnouncedCarried
      <3> QED BY <2>1, <2>2, <3>1, <3>2, ReadyNotLost
    <2>5. CASE n \in Scheduled
      <3>1. PICK m \in Schedules : n \in m.items /\ squeue[m].st # "none"
        BY <2>5 DEF CarriedInv, AnnouncedCarried
      <3>2. CASE squeue[m].st # "gone"
        BY <3>1, <3>2 DEF OnItsWay
      <3>3. ASSUME dispatched[n] > 0
            PROVE  OnItsWay(n) \/ \E e \in events : e.msg.notif = n
        <4> DEFINE d == [notif |-> n, nth |-> 1]
        <4>1. d \in DueMsgs /\ d.notif = n /\ d.nth = 1
          BY <2>5, EndToEndAssumption DEF EndToEndAssumption, DueMsgs
        <4>2. dispatched[n] \in 0 .. 2
          BY <2>5 DEF CarriedInv, LifeInv, Scheduler!RelyInv, Scheduler!TypeOK
        <4> HIDE DEF d
        <4>3. dqueue[d].st # "none"
          BY <3>3, <4>1, <4>2 DEF CarriedInv, DispatchedCarried
        <4>4. CASE dqueue[d].st # "gone"
          BY <4>1, <4>3, <4>4 DEF OnItsWay
        <4>5. CASE dqueue[d].st = "gone"
          <5>1. pqueue[FirstReady(d)].st # "none"
            BY <4>1, <4>5 DEF CarriedInv, DueConsumer!DueInv, DueConsumer!DueNotLost, ReadiedCarried
          <5>2. FirstReady(d) \in ReadyMsgs /\ FirstReady(d).notif = n
            BY <2>5, <4>1, EndToEndAssumption DEF EndToEndAssumption, FirstReady, ReadyMsgs
          <5> QED BY <2>1, <2>2, <5>1, <5>2, ReadyNotLost
        <4> QED BY <4>4, <4>5
      <3>4. CASE squeue[m].st = "gone"
        <4>1. n \in [l \in Schedules \union Cancels |-> l.items \intersect Scheduled][m]
          BY <2>5, <3>1
        <4>2. \/ n \in table \union removed
              \/ dispatched[n] > 0
              \/ \E i \in Instances : n \in claimed[i]
          BY <2>1, <3>4, <4>1 DEF Scheduler!ScheduleNotLost
        <4> QED BY <3>3, <4>2 DEF OnItsWay
      <3> QED BY <3>2, <3>4
    <2> QED BY <2>4, <2>5
  <1>2. Spec => [](Scheduler!ScheduleNotLost /\ Processor!NotificationNotLost)
    BY NothingLostHere
  <1> QED BY <1>1, <1>2, CarriedInvHolds, PTL

=============================================================================

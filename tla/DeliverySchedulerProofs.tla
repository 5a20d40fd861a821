----------------------- MODULE DeliverySchedulerProofs -----------------------
(***************************************************************************)
(* What holds of the delivery scheduler for any number of notifications,   *)
(* messages and instances: the types, that nothing is dispatched early,    *)
(* that a schedule is not lost while no instance stops or dies, and, for   *)
(* schedules that share no notification, that none is dispatched twice or  *)
(* after a cancel that found its row.                                      *)
(***************************************************************************)
EXTENDS DeliveryScheduler, TLAPS

-----------------------------------------------------------------------------
(***************************************************************************)
(* Lemmas about one step, shared by the theorems.                          *)
(***************************************************************************)

\* A goroutine belongs to an instance and serves a durable.
LEMMA GoroutineParts ==
  ASSUME NEW g \in Goroutines
  PROVE  g[1] \in Instances /\ g[2] \in Durables
  BY DEF Goroutines

\* The broker's operations yield queue entries.
LEMMA QueueEntries ==
  ASSUME NEW q \in [st : QueueStatus, count : Nat]
  PROVE  /\ Stored(q) \in [st : QueueStatus, count : Nat]
         /\ Delivered(q, 0) \in [st : QueueStatus, count : Nat]
         /\ Acked(q) \in [st : QueueStatus, count : Nat]
         /\ Naked(q) \in [st : QueueStatus, count : Nat]
         /\ TimedOut(q) \in [st : QueueStatus, count : Nat]
  BY DEF QueueStatus, Stored, Delivered, Acked, Naked, TimedOut

\* Only an ack removes a message.
LEMMA GoneOnlyByAck ==
  ASSUME NEW q \in [st : QueueStatus, count : Nat]
  PROVE  /\ Stored(q).st = "ready"
         /\ Delivered(q, 0).st = "inflight"
         /\ Naked(q).st = "gone" <=> q.st = "gone"
         /\ TimedOut(q).st = "ready"
  BY DEF QueueStatus, Stored, Delivered, Naked, TimedOut

\* What the statements of the handlers leave behind.
LEMMA HandleEffect ==
  ASSUME SchedulerAssumption, TypeOK, NEW m \in Msgs, Handle(m)
  PROVE  /\ table' \subseteq Notifs
         /\ removed' \subseteq Notifs
         /\ table \union removed \subseteq table' \union removed'
         /\ m \in Schedules => ItemsOf[m] \subseteq table'
  BY DEF SchedulerAssumption, TypeOK, Handle, UpsertAll, DeleteByNotificationID

\* A claim moves due rows out of the table, into the dispatcher or nowhere.
LEMMA ClaimTakesRows ==
  ASSUME NEW i \in Instances, Claim(i)
  PROVE  \E S \in SUBSET Due :
            /\ S # {}
            /\ table' = table \ S
            /\ \/ /\ claimed' = [claimed EXCEPT ![i] = S]
                  /\ dpc' = [dpc EXCEPT ![i] = "publish"]
               \/ ("reply" \in faults \/ ~ up[i]) /\ UNCHANGED <<claimed, dpc>>
  <1>1. PICK S \in Claimable(i) :
          /\ table' = table \ S
          /\ \/ /\ claimed' = [claimed EXCEPT ![i] = S]
                /\ dpc' = [dpc EXCEPT ![i] = "publish"]
             \/ ("reply" \in faults \/ ~ up[i]) /\ UNCHANGED <<claimed, dpc>>
    BY DEF Claim
  <1>2. S \in SUBSET Due /\ S # {}
    BY DEF Claimable
  <1> QED BY <1>1, <1>2

-----------------------------------------------------------------------------
LEMMA InitTypeOK == SchedulerAssumption /\ Init => TypeOK
  BY DEF SchedulerAssumption, Init, TypeOK, Goroutines, Durables, QueueStatus, Unpublished

LEMMA NextTypeOK ==
  ASSUME SchedulerAssumption, TypeOK, [Next]_vars
  PROVE  TypeOK'
  <1> USE DEF TypeOK
  <1>1. CASE UNCHANGED vars
    BY <1>1 DEF vars, consumerVars, dispatcherVars
  <1>2. CASE Tick
    BY <1>2 DEF Tick, consumerVars, dispatcherVars, SchedulerAssumption
  <1>3. ASSUME NEW m \in Msgs, Store(m) \/ AckWaitExpires(m) PROVE TypeOK'
    <2>1. queue[m] \in [st : QueueStatus, count : Nat]
      OBVIOUS
    <2>2. PICK q \in [st : QueueStatus, count : Nat] : queue' = [queue EXCEPT ![m] = q]
      BY <1>3, <2>1, QueueEntries DEF Store, AckWaitExpires
    <2>3. UNCHANGED <<faults, now, table, buffer, up, pc, job, verdict, dpc, claimed, dispatched,
                      removed>>
      BY <1>3 DEF Store, AckWaitExpires, dispatcherVars
    <2> QED BY <2>2, <2>3
  <1>4. ASSUME NEW m \in Msgs, NEW i \in Instances, Fetch(i, m) PROVE TypeOK'
    <2>1. buffer' \in [Instances -> [Msgs -> 0 .. MaxCopies]]
      BY <1>4 DEF Fetch, SchedulerAssumption
    <2> QED BY <1>4, <2>1, QueueEntries DEF Fetch, dispatcherVars
  <1>5. ASSUME NEW g \in Goroutines, NEW m \in Msgs, Take(g, m) PROVE TypeOK'
    <2>1. buffer' \in [Instances -> [Msgs -> 0 .. MaxCopies]]
      BY <1>5, GoroutineParts DEF Take, SchedulerAssumption
    <2> QED BY <1>5, <2>1 DEF Take, dispatcherVars
  <1>6. ASSUME NEW g \in Goroutines, Write(g) PROVE TypeOK'
    <2>1. table' \subseteq Notifs /\ removed' \subseteq Notifs
      BY <1>6, HandleEffect DEF Write
    <2>2. /\ UNCHANGED <<faults, now, queue, buffer, up, job, dpc, claimed, dispatched>>
          /\ pc' = [pc EXCEPT ![g] = "settle"]
          /\ \E v \in {"ack", "nak"} : verdict' = [verdict EXCEPT ![g] = v]
      BY <1>6 DEF Write, dispatcherVars
    <2> QED BY <1>6, <2>1, <2>2 DEF Write
  <1>7. ASSUME NEW g \in Goroutines, Settle(g) PROVE TypeOK'
    <2>0. job[g] \in Msgs /\ queue[job[g]] \in [st : QueueStatus, count : Nat]
      BY <1>7 DEF Settle
    <2>1. PICK q \in [st : QueueStatus, count : Nat] :
             queue' = [queue EXCEPT ![job[g]] = q] \/ queue' = queue
      <3>1. \/ queue' = [queue EXCEPT ![job[g]] = Acked(queue[job[g]])]
            \/ queue' = [queue EXCEPT ![job[g]] = Naked(queue[job[g]])]
            \/ queue' = queue
        BY <1>7, <2>0 DEF Settle
      <3> QED BY <2>0, <3>1, QueueEntries
    <2>2. queue' \in [Msgs -> [st : QueueStatus, count : Nat]]
      <3>1. queue \in [Msgs -> [st : QueueStatus, count : Nat]]
        OBVIOUS
      <3> HIDE DEF TypeOK
      <3> QED BY <2>0, <2>1, <3>1
    <2> QED BY <1>7, <2>2 DEF Settle, dispatcherVars
  <1>8. ASSUME NEW g \in Goroutines, Halt(g) PROVE TypeOK'
    BY <1>8 DEF Halt, dispatcherVars
  <1>9. ASSUME NEW i \in Instances, Claim(i) PROVE TypeOK'
    <2>1. PICK S \in SUBSET Due :
            /\ S # {}
            /\ table' = table \ S
            /\ \/ /\ claimed' = [claimed EXCEPT ![i] = S]
                  /\ dpc' = [dpc EXCEPT ![i] = "publish"]
               \/ UNCHANGED <<claimed, dpc>>
      BY <1>9, ClaimTakesRows
    <2>2. UNCHANGED <<faults, now, queue, buffer, up, pc, job, verdict, dispatched, removed>>
      BY <1>9 DEF Claim, consumerVars
    <2>3. table' \subseteq Notifs /\ S \subseteq Notifs
      BY <2>1 DEF Due
    <2>4. /\ claimed' \in [Instances -> SUBSET Notifs]
          /\ dpc' \in [Instances -> {"idle", "publish", "requeue"}]
          /\ \A j \in Instances : dpc'[j] = "idle" <=> claimed'[j] = {}
      <3>1. CASE claimed' = [claimed EXCEPT ![i] = S] /\ dpc' = [dpc EXCEPT ![i] = "publish"]
        <4>1. claimed' \in [Instances -> SUBSET Notifs]
          BY <2>3, <3>1
        <4>2. dpc' \in [Instances -> {"idle", "publish", "requeue"}]
          BY <3>1
        <4>3. \A j \in Instances : dpc'[j] = "idle" <=> claimed'[j] = {}
          BY <2>1, <3>1
        <4> QED BY <4>1, <4>2, <4>3
      <3>2. CASE UNCHANGED <<claimed, dpc>>
        BY <3>2
      <3> QED BY <2>1, <3>1, <3>2
    <2> QED BY <2>1, <2>2, <2>3, <2>4
  <1>10. ASSUME NEW i \in Instances, PublishBatch(i) PROVE TypeOK'
    <2>1. dispatched' \in [Notifs -> 0 .. 2]
      BY <1>10 DEF PublishBatch, StoreDue
    <2>2. UNCHANGED <<faults, now, table, queue, buffer, up, pc, job, verdict, removed>>
      BY <1>10 DEF PublishBatch, consumerVars
    <2>3. \/ claimed' = [claimed EXCEPT ![i] = {}] /\ dpc' = [dpc EXCEPT ![i] = "idle"]
          \/ UNCHANGED claimed /\ dpc' = [dpc EXCEPT ![i] = "requeue"] /\ dpc[i] = "publish"
      BY <1>10 DEF PublishBatch
    <2>4. /\ claimed' \in [Instances -> SUBSET Notifs]
          /\ dpc' \in [Instances -> {"idle", "publish", "requeue"}]
          /\ \A j \in Instances : dpc'[j] = "idle" <=> claimed'[j] = {}
      <3>1. CASE claimed' = [claimed EXCEPT ![i] = {}] /\ dpc' = [dpc EXCEPT ![i] = "idle"]
        BY <3>1
      <3>2. CASE UNCHANGED claimed /\ dpc' = [dpc EXCEPT ![i] = "requeue"] /\ dpc[i] = "publish"
        <4>1. claimed[i] # {}
          BY <3>2
        <4> QED BY <3>2, <4>1
      <3> QED BY <2>3, <3>1, <3>2
    <2> QED BY <2>1, <2>2, <2>4
  <1>11. ASSUME NEW i \in Instances, Requeue(i) PROVE TypeOK'
    BY <1>11 DEF Requeue, consumerVars
  <1>12. ASSUME NEW i \in Instances, Stop(i) PROVE TypeOK'
    <2>1. PICK naked \in SUBSET {m \in Msgs : buffer[i][m] > 0} :
            /\ buffer' = [buffer EXCEPT ![i] =
                             [m \in Msgs |-> IF m \in naked THEN @[m] - 1 ELSE @[m]]]
            /\ queue' = [m \in Msgs |-> IF m \in naked THEN Naked(queue[m]) ELSE queue[m]]
      BY <1>12 DEF Stop
    <2>2. buffer' \in [Instances -> [Msgs -> 0 .. MaxCopies]]
      BY <2>1 DEF SchedulerAssumption
    <2>3. queue' \in [Msgs -> [st : QueueStatus, count : Nat]]
      BY <2>1, QueueEntries
    <2> QED BY <1>12, <2>2, <2>3 DEF Stop, dispatcherVars
  <1>13. ASSUME NEW i \in Instances, Fresh(i) PROVE TypeOK'
    BY <1>13 DEF Fresh, SchedulerAssumption
  <1> QED
    BY <1>1, <1>2, <1>3, <1>4, <1>5, <1>6, <1>7, <1>8, <1>9, <1>10, <1>11, <1>12, <1>13
    DEF Next, Consume, Dispatch, Restart, Crash

\* The model is well typed, whatever fails.
THEOREM SchedulerTypeCorrect == Spec => []TypeOK
  <1>1. Init => TypeOK
    BY InitTypeOK, SchedulerAssumption
  <1>2. TypeOK /\ [Next]_vars => TypeOK'
    BY NextTypeOK, SchedulerAssumption
  <1> QED BY <1>1, <1>2, PTL DEF Spec

-----------------------------------------------------------------------------
\* Whatever a dispatcher holds is due, and so is whatever was dispatched.
OnlyDue ==
    /\ \A i \in Instances, n \in Notifs : n \in claimed[i] => ScheduledAt[n] <= now
    /\ NeverEarly

EarlyInv == TypeOK /\ OnlyDue

LEMMA NextOnlyDue ==
  ASSUME SchedulerAssumption, TypeOK, OnlyDue, [Next]_vars
  PROVE  OnlyDue'
  <1> USE DEF OnlyDue, NeverEarly
  <1>1. CASE Tick
    BY <1>1 DEF Tick, dispatcherVars, TypeOK, SchedulerAssumption
  <1>2. CASE UNCHANGED <<now, claimed, dispatched>>
    BY <1>2
  <1>3. ASSUME NEW i \in Instances, Claim(i) PROVE OnlyDue'
    <2>1. UNCHANGED <<now, dispatched>>
      BY <1>3 DEF Claim
    <2>2. PICK S \in SUBSET Due :
            claimed' = [claimed EXCEPT ![i] = S] \/ UNCHANGED claimed
      BY <1>3, ClaimTakesRows
    <2>3. \A n \in S : ScheduledAt[n] <= now
      BY DEF Due
    <2> QED BY <2>1, <2>2, <2>3 DEF TypeOK
  <1>4. ASSUME NEW i \in Instances, PublishBatch(i) PROVE OnlyDue'
    BY <1>4 DEF PublishBatch, StoreDue, TypeOK
  <1>5. ASSUME NEW i \in Instances, Requeue(i) \/ Fresh(i) PROVE OnlyDue'
    <2>1. UNCHANGED <<now, dispatched>> /\ claimed' = [claimed EXCEPT ![i] = {}]
      BY <1>5 DEF Requeue, Fresh
    <2> QED BY <2>1 DEF TypeOK
  <1>6. ASSUME NEW g \in Goroutines, Consume(g) PROVE UNCHANGED <<now, claimed, dispatched>>
    BY <1>6 DEF Consume, Take, Write, Settle, Halt, dispatcherVars
  <1> QED
    BY <1>1, <1>2, <1>3, <1>4, <1>5, <1>6
    DEF Next, vars, dispatcherVars, Store, AckWaitExpires, Fetch, Dispatch, Stop, Restart, Crash

\* No due event is ever published before its time: the claim checks the time,
\* and a claimed row that is put back is checked again.
THEOREM NeverEarlyTheorem == Spec => []NeverEarly
  <1>1. Init => EarlyInv
    BY InitTypeOK, SchedulerAssumption DEF Init, EarlyInv, OnlyDue, NeverEarly
  <1>2. EarlyInv /\ [Next]_vars => EarlyInv'
    BY NextTypeOK, NextOnlyDue, SchedulerAssumption DEF EarlyInv
  <1>3. EarlyInv => NeverEarly
    BY DEF EarlyInv, OnlyDue
  <1> QED BY <1>1, <1>2, <1>3, PTL DEF Spec

-----------------------------------------------------------------------------
(***************************************************************************)
(* No schedule is lost, while claims are answered, rows can be put back    *)
(* and no instance stops or dies.  The property alone is not inductive: a  *)
(* goroutine that is about to ack must already have had its effect.        *)
(***************************************************************************)
NoLoss == {"reply", "requeue", "stop", "crash"} \intersect faults = {}

\* What ScheduleNotLost asks for notification n.
Placed(n) ==
    \/ n \in table \union removed
    \/ dispatched[n] > 0
    \/ \E i \in Instances : n \in claimed[i]

AllUp == \A i \in Instances : up[i]

AckedIsPlaced ==
    \A g \in Goroutines :
        pc[g] = "settle" /\ verdict[g] = "ack" /\ job[g] \in Schedules =>
            \A n \in ItemsOf[job[g]] : Placed(n)

KeptInv == TypeOK /\ AllUp /\ AckedIsPlaced /\ ScheduleNotLost

\* The inductive invariant of every behaviour without these conditions.
KeptIInv == NoLoss => KeptInv

\* The adverse conditions are chosen once.
LEMMA faultsKept ==
  ASSUME [Next]_vars
  PROVE  faults' = faults
  BY DEF Next, vars, Tick, Store, AckWaitExpires, Fetch, Consume, Take, Write, Settle, Halt,
         Dispatch, Claim, PublishBatch, Requeue, Stop, Restart, Crash, Fresh

\* Instances that are neither stopped nor killed keep running.
LEMMA NextAllUp ==
  ASSUME {"stop", "crash"} \intersect faults = {}, AllUp, [Next]_vars
  PROVE  /\ AllUp'
         /\ \A i \in Instances : ~ Stop(i) /\ ~ Restart(i) /\ ~ Crash(i)
  <1>1. \A i \in Instances : ~ Stop(i) /\ ~ Restart(i) /\ ~ Crash(i)
    BY DEF AllUp, Stop, Restart, Crash
  <1>2. up' = up
    BY <1>1 DEF Next, vars, Tick, Store, AckWaitExpires, Fetch, Consume, Take, Write, Settle, Halt,
                Dispatch, Claim, PublishBatch, Requeue
  <1> QED BY <1>1, <1>2 DEF AllUp

\* A notification that has its place keeps one.
LEMMA PlacedStays ==
  ASSUME SchedulerAssumption, NoLoss, TypeOK, AllUp, [Next]_vars, NEW n \in Notifs, Placed(n)
  PROVE  Placed(n)'
  <1> USE DEF Placed
  <1>1. CASE UNCHANGED <<table, removed, claimed, dispatched>>
    BY <1>1
  <1>2. ASSUME NEW g \in Goroutines, Write(g) PROVE Placed(n)'
    <2>1. job[g] \in Msgs
      BY <1>2 DEF TypeOK, Write
    <2>2. UNCHANGED <<table, removed>> \/ Handle(job[g])
      BY <1>2 DEF Write
    <2>3. table \union removed \subseteq table' \union removed'
      BY <2>1, <2>2, HandleEffect
    <2>4. UNCHANGED <<claimed, dispatched>>
      BY <1>2 DEF Write, dispatcherVars
    <2> QED BY <2>3, <2>4
  <1>3. ASSUME NEW i \in Instances, Claim(i) PROVE Placed(n)'
    <2>1. PICK S \in SUBSET Due :
            table' = table \ S /\ claimed' = [claimed EXCEPT ![i] = S]
      BY <1>3, ClaimTakesRows DEF NoLoss, AllUp
    <2>2. UNCHANGED <<removed, dispatched>> /\ claimed[i] = {}
      BY <1>3 DEF Claim, TypeOK
    <2> QED BY <2>1, <2>2 DEF TypeOK
  <1>4. ASSUME NEW i \in Instances, PublishBatch(i) PROVE Placed(n)'
    <2>1. UNCHANGED <<table, removed>>
      BY <1>4 DEF PublishBatch
    <2>2. ASSUME NEW S, StoreDue(S)
          PROVE  dispatched'[n] > 0 <=> dispatched[n] > 0 \/ n \in S
      <3>1. dispatched[n] \in 0 .. 2
        BY DEF TypeOK
      <3>2. dispatched'[n] = IF n \in S /\ dispatched[n] < 2 THEN dispatched[n] + 1
                                                            ELSE dispatched[n]
        BY <2>2 DEF StoreDue
      <3> QED BY <3>1, <3>2
    <2>3. \/ UNCHANGED claimed /\ \E S \in SUBSET claimed[i] : StoreDue(S)
          \/ claimed' = [claimed EXCEPT ![i] = {}] /\ StoreDue(claimed[i])
      BY <1>4 DEF PublishBatch
    <2> QED BY <2>1, <2>2, <2>3 DEF TypeOK
  <1>5. ASSUME NEW i \in Instances, Requeue(i) PROVE Placed(n)'
    <2>1. table' = table \union claimed[i]
      BY <1>5 DEF Requeue, NoLoss, AllUp
    <2>2. UNCHANGED <<removed, dispatched>> /\ claimed' = [claimed EXCEPT ![i] = {}]
      BY <1>5 DEF Requeue
    <2> QED BY <2>1, <2>2 DEF TypeOK
  <1>6. ASSUME NEW g \in Goroutines, (\E m \in Msgs : Take(g, m)) \/ Settle(g) \/ Halt(g)
        PROVE  UNCHANGED <<table, removed, claimed, dispatched>>
    BY <1>6 DEF Take, Settle, Halt, dispatcherVars
  <1>7. ASSUME NEW m \in Msgs, NEW i \in Instances,
               Store(m) \/ AckWaitExpires(m) \/ Fetch(i, m)
        PROVE  UNCHANGED <<table, removed, claimed, dispatched>>
    BY <1>7 DEF Store, AckWaitExpires, Fetch, dispatcherVars
  <1>8. CASE Tick \/ UNCHANGED vars
    BY <1>1, <1>8 DEF Tick, vars, dispatcherVars
  <1>9. CASE \E m \in Msgs : Store(m) \/ AckWaitExpires(m)
    BY <1>1, <1>9 DEF Store, AckWaitExpires, dispatcherVars
  <1> QED
    BY <1>1, <1>2, <1>3, <1>4, <1>5, <1>6, <1>7, <1>8, <1>9, NextAllUp
    DEF Next, Consume, Dispatch, NoLoss

\* A goroutine reaches its ack with its own statement and keeps its message
\* until it settles.
LEMMA GoroutineAlone ==
  ASSUME TypeOK, [Next]_vars, NEW g \in Goroutines,
         \A i \in Instances : ~ Restart(i) /\ ~ Crash(i),
         pc'[g] = "settle", verdict'[g] = "ack"
  PROVE  (pc[g] = "settle" /\ verdict[g] = "ack" /\ job[g] = job'[g]) \/ Write(g)
  <1>1. CASE UNCHANGED <<pc, verdict, job>>
    BY <1>1
  <1>2. ASSUME NEW h \in Goroutines, Consume(h), h # g
        PROVE  pc[g] = pc'[g] /\ verdict[g] = verdict'[g] /\ job[g] = job'[g]
    BY <1>2 DEF Consume, Take, Write, Settle, Halt, TypeOK
  <1>3. CASE Consume(g)
    <2>1. ASSUME NEW m \in Msgs, Take(g, m) PROVE FALSE
      BY <2>1 DEF Take, TypeOK
    <2>2. ~ Settle(g) /\ ~ Halt(g)
      BY DEF Settle, Halt, TypeOK
    <2> QED BY <1>3, <2>1, <2>2 DEF Consume
  <1>4. CASE \E h \in Goroutines : Consume(h)
    BY <1>2, <1>3, <1>4
  <1>5. CASE UNCHANGED vars \/ Tick
    BY <1>1, <1>5 DEF vars, consumerVars, Tick
  <1>6. CASE \E m \in Msgs : Store(m) \/ AckWaitExpires(m) \/ \E i \in Instances : Fetch(i, m)
    BY <1>1, <1>6 DEF Store, AckWaitExpires, Fetch
  <1>7. CASE \E i \in Instances : Dispatch(i) \/ Stop(i)
    BY <1>1, <1>7 DEF Dispatch, Claim, PublishBatch, Requeue, Stop, consumerVars
  <1> QED BY <1>4, <1>5, <1>6, <1>7 DEF Next

\* Only the ack of its own delivery makes a message disappear.
LEMMA OnlyAcksRemove ==
  ASSUME TypeOK, [Next]_vars, NEW m \in Msgs,
         \A i \in Instances : ~ Stop(i) /\ ~ Restart(i) /\ ~ Crash(i),
         queue[m].st # "gone", queue'[m].st = "gone"
  PROVE  \E g \in Goroutines : Settle(g) /\ job[g] = m /\ verdict[g] = "ack"
  <1>0. \A l \in Msgs : queue[l] \in [st : QueueStatus, count : Nat]
    BY DEF TypeOK
  <1>1. ~ UNCHANGED queue
    OBVIOUS
  <1>2. ASSUME NEW l \in Msgs, Store(l) \/ AckWaitExpires(l) PROVE FALSE
    <2>1. PICK q \in {Stored(queue[l]), TimedOut(queue[l])} : queue' = [queue EXCEPT ![l] = q]
      BY <1>2 DEF Store, AckWaitExpires
    <2>2. q.st = "ready"
      BY <1>0, GoneOnlyByAck
    <2> QED BY <2>1, <2>2 DEF TypeOK
  <1>3. ASSUME NEW l \in Msgs, NEW i \in Instances, Fetch(i, l) PROVE FALSE
    BY <1>0, <1>3, GoneOnlyByAck DEF Fetch, TypeOK
  <1>4. ASSUME NEW g \in Goroutines, Settle(g) PROVE job[g] = m /\ verdict[g] = "ack"
    BY <1>0, <1>4, GoneOnlyByAck DEF Settle, TypeOK
  <1>5. ASSUME NEW g \in Goroutines, (\E l \in Msgs : Take(g, l)) \/ Write(g) \/ Halt(g)
        PROVE  FALSE
    BY <1>1, <1>5 DEF Take, Write, Halt
  <1>6. ~ Tick /\ ~ UNCHANGED vars /\ \A i \in Instances : ~ Dispatch(i)
    BY <1>1 DEF vars, consumerVars, Tick, Dispatch, Claim, PublishBatch, Requeue
  <1> QED BY <1>2, <1>3, <1>4, <1>5, <1>6 DEF Next, Consume

LEMMA NextKept ==
  ASSUME SchedulerAssumption, NoLoss, KeptInv, [Next]_vars
  PROVE  KeptInv'
  <1> USE DEF KeptInv
  <1>0. AllUp' /\ \A i \in Instances : ~ Stop(i) /\ ~ Restart(i) /\ ~ Crash(i)
    BY NextAllUp DEF NoLoss
  <1>1. TypeOK' /\ AllUp'
    BY <1>0, NextTypeOK
  <1>2. \A e \in Schedules : ItemsOf[e] \subseteq Notifs
    BY DEF SchedulerAssumption, Msgs
  <1>3. \A n \in Notifs : Placed(n) => Placed(n)'
    BY PlacedStays
  <1>4. AckedIsPlaced'
    <2> SUFFICES ASSUME NEW g \in Goroutines,
                        pc'[g] = "settle", verdict'[g] = "ack", job'[g] \in Schedules
                 PROVE  \A n \in ItemsOf[job'[g]] : Placed(n)'
      BY DEF AckedIsPlaced
    <2>1. CASE pc[g] = "settle" /\ verdict[g] = "ack" /\ job[g] = job'[g]
      BY <1>2, <1>3, <2>1 DEF AckedIsPlaced
    <2>2. CASE Write(g)
      <3>1. job'[g] = job[g] /\ Handle(job[g])
        BY <2>2 DEF Write, TypeOK
      <3>2. ItemsOf[job[g]] \subseteq table'
        BY <3>1, HandleEffect DEF Msgs
      <3> QED BY <3>1, <3>2 DEF Placed
    <2>3. (pc[g] = "settle" /\ verdict[g] = "ack" /\ job[g] = job'[g]) \/ Write(g)
      BY <1>0, GoroutineAlone
    <2> QED BY <2>1, <2>2, <2>3
  <1>5. ScheduleNotLost'
    <2> SUFFICES ASSUME NEW e \in Schedules, queue'[e].st = "gone"
                 PROVE  \A n \in ItemsOf[e] : Placed(n)'
      BY DEF ScheduleNotLost, Placed
    <2>1. CASE queue[e].st = "gone"
      BY <1>2, <1>3, <2>1 DEF NoLoss, ScheduleNotLost, Placed
    <2>2. CASE queue[e].st # "gone"
      <3>1. PICK g \in Goroutines : Settle(g) /\ job[g] = e /\ verdict[g] = "ack"
        BY <1>0, <2>2, OnlyAcksRemove DEF Msgs
      <3>2. \A n \in ItemsOf[e] : Placed(n)
        BY <3>1 DEF Settle, AckedIsPlaced
      <3> QED BY <1>2, <1>3, <3>2
    <2> QED BY <2>1, <2>2
  <1> QED BY <1>1, <1>4, <1>5

\* An acked scheduling event is not lost to the dispatcher: failed statements,
\* failed batches, redeliveries and lost acks leave the notification in the
\* table, claimed, dispatched or removed by a cancel.
THEOREM ScheduleKeptTheorem == Spec => []ScheduleNotLost
  <1>1. Init => KeptIInv
    BY InitTypeOK, SchedulerAssumption
    DEF Init, KeptIInv, KeptInv, AllUp, AckedIsPlaced, ScheduleNotLost, Unpublished, Msgs
  <1>2. KeptIInv /\ [Next]_vars => KeptIInv'
    BY NextKept, faultsKept, SchedulerAssumption DEF KeptIInv, NoLoss
  <1>3. KeptIInv => ScheduleNotLost
    BY DEF KeptIInv, NoLoss, KeptInv, ScheduleNotLost
  <1> QED BY <1>1, <1>2, <1>3, PTL DEF Spec
-----------------------------------------------------------------------------
(***************************************************************************)
(* What a composition of the services relies on: the scheduler dispatches  *)
(* nothing that no event asked it to.                                      *)
(***************************************************************************)

\* The steps the scheduler takes itself: its messages are the API's.
Own ==
    \/ Tick
    \/ \E m \in Msgs : AckWaitExpires(m) \/ \E i \in Instances : Fetch(i, m)
    \/ \E g \in Goroutines : Consume(g)
    \/ \E i \in Instances : Dispatch(i) \/ Stop(i) \/ Restart(i) \/ Crash(i)

\* What an instance has in memory was published.
HoldsStored ==
    /\ \A i \in Instances, m \in Msgs : buffer[i][m] > 0 => queue[m].st # "none"
    /\ \A g \in Goroutines : pc[g] \in {"write", "settle"} => queue[job[g]].st # "none"

Asked(n) == \E e \in Schedules : queue[e].st # "none" /\ n \in ItemsOf[e]

OnlyAsked ==
    /\ \A n \in table \union removed : Asked(n)
    /\ \A i \in Instances : \A n \in claimed[i] : Asked(n)
    /\ \A n \in Notifs : dispatched[n] > 0 => Asked(n)

RelyInv == TypeOK /\ OnlyDue /\ HoldsStored /\ OnlyAsked

LEMMA OwnIsNext == Own => Next
  BY DEF Own, Next

\* What was published stays published, and only Store publishes.
LEMMA OnlyStored ==
  ASSUME TypeOK, HoldsStored, NEW m \in Msgs
  PROVE  /\ [Next]_vars /\ queue[m].st # "none" => queue'[m].st # "none"
         /\ Own /\ queue[m].st = "none" => queue'[m].st = "none"
  <1> DEFINE Kept == queue'[m].st = "none" <=> queue[m].st = "none"
  <1>0. queue[m] \in [st : QueueStatus, count : Nat]
    BY DEF TypeOK
  <1>1. ASSUME NEW k \in Msgs, AckWaitExpires(k) \/ \E i \in Instances : Fetch(i, k) PROVE Kept
    BY <1>1 DEF TypeOK, Fetch, AckWaitExpires, Deliverable, Delivered, TimedOut
  <1>2. ASSUME NEW k \in Msgs, Store(k) PROVE queue[m].st # "none" => queue'[m].st # "none"
    BY <1>2 DEF TypeOK, Store, Stored
  <1>3. ASSUME NEW g \in Goroutines, Settle(g) PROVE Kept
    <2>1. job[g] \in Msgs /\ queue[job[g]].st # "none"
      BY <1>3 DEF Settle, TypeOK, HoldsStored
    <2>2. Acked(queue[m]).st # "none" /\ (Naked(queue[m]).st = "none" <=> queue[m].st = "none")
      BY <1>0 DEF Acked, Naked
    <2> QED BY <1>3, <2>1, <2>2 DEF Settle, TypeOK
  <1>4. ASSUME NEW i \in Instances, Stop(i) PROVE Kept
    <2>1. Naked(queue[m]).st = "none" <=> queue[m].st = "none"
      BY <1>0 DEF Naked
    <2> QED BY <1>4, <2>1 DEF Stop
  <1>5. CASE UNCHANGED queue
    BY <1>5
  <1> QED BY <1>1, <1>2, <1>3, <1>4, <1>5
       DEF Own, Next, vars, consumerVars, Tick, Consume, Take, Write, Halt, Dispatch, Claim,
           PublishBatch, Requeue, Restart, Crash, Fresh

\* Deliveries come into an instance by Fetch only.
LEMMA BufferSource ==
  ASSUME SchedulerAssumption, TypeOK, [Next]_vars, NEW i \in Instances, NEW m \in Msgs,
         buffer'[i][m] > 0, ~ Fetch(i, m)
  PROVE  buffer[i][m] > 0
  <1>1. ASSUME NEW g \in Goroutines, NEW l \in Msgs, Take(g, l) PROVE buffer[i][m] > 0
    <2>1. buffer' = [buffer EXCEPT ![g[1]][l] = @ - 1] /\ g[1] \in Instances
      BY <1>1, GoroutineParts DEF Take
    <2>2. buffer'[i][m] \in {buffer[i][m], buffer[i][m] - 1} /\ buffer[i][m] \in Nat
      BY <2>1 DEF TypeOK, SchedulerAssumption
    <2> QED BY <2>2
  <1>2. ASSUME NEW j \in Instances, NEW l \in Msgs, Fetch(j, l) PROVE buffer[i][m] > 0
    <2>1. ~ (j = i /\ l = m)
      BY <1>2
    <2>2. buffer' = [buffer EXCEPT ![j][l] = @ + 1]
      BY <1>2 DEF Fetch
    <2>3. buffer'[i][m] = buffer[i][m]
      BY <2>1, <2>2 DEF TypeOK
    <2> QED BY <2>3
  <1>3. ASSUME NEW j \in Instances, Stop(j) \/ Fresh(j) PROVE buffer[i][m] > 0
    <2>1. buffer[i][m] \in Nat
      BY DEF TypeOK, SchedulerAssumption
    <2>2. buffer'[i][m] \in {0, buffer[i][m], buffer[i][m] - 1}
      <3>1. CASE j # i
        BY <1>3, <3>1 DEF Stop, Fresh, TypeOK
      <3>2. CASE j = i /\ Stop(i)
        <4>1. PICK naked : buffer' = [buffer EXCEPT ![i] =
                             [l \in Msgs |-> IF l \in naked THEN @[l] - 1 ELSE @[l]]]
          BY <3>2 DEF Stop
        <4> QED BY <4>1 DEF TypeOK
      <3>3. CASE j = i /\ Fresh(i)
        BY <3>3 DEF Fresh, TypeOK
      <3> QED BY <1>3, <3>1, <3>2, <3>3
    <2> QED BY <2>1, <2>2
  <1>4. CASE UNCHANGED buffer
    BY <1>4
  <1> QED BY <1>1, <1>2, <1>3, <1>4
       DEF Next, vars, consumerVars, Tick, Store, AckWaitExpires, Consume, Write, Settle, Halt,
           Dispatch, Claim, PublishBatch, Requeue, Restart, Crash

\* A goroutine comes by its message by Take only.
LEMMA JobSource ==
  ASSUME TypeOK, [Next]_vars, NEW g \in Goroutines, pc'[g] \in {"write", "settle"},
         ~ \E m \in Msgs : Take(g, m)
  PROVE  pc[g] \in {"write", "settle"} /\ job'[g] = job[g]
  <1>1. ASSUME NEW h \in Goroutines, Consume(h)
        PROVE  pc[g] \in {"write", "settle"} /\ job'[g] = job[g]
    <2>1. CASE h # g
      <3>1. pc'[g] = pc[g] /\ job'[g] = job[g]
        BY <1>1, <2>1 DEF Consume, Take, Write, Settle, Halt, TypeOK
      <3> QED BY <3>1
    <2>2. CASE h = g
      <3>1. Write(g) \/ Settle(g) \/ Halt(g)
        BY <1>1, <2>2 DEF Consume
      <3>2. Write(g)
        BY <3>1 DEF Settle, Halt, TypeOK
      <3> QED BY <3>2 DEF Write
    <2> QED BY <2>1, <2>2
  <1>2. ASSUME NEW j \in Instances, Fresh(j)
        PROVE  pc[g] \in {"write", "settle"} /\ job'[g] = job[g]
    BY <1>2 DEF Fresh
  <1>3. CASE UNCHANGED <<pc, job>>
    BY <1>3
  <1> QED BY <1>1, <1>2, <1>3
       DEF Next, vars, consumerVars, Tick, Store, AckWaitExpires, Fetch, Dispatch, Claim,
           PublishBatch, Requeue, Stop, Restart, Crash

LEMMA NextHoldsStored ==
  ASSUME SchedulerAssumption, TypeOK, TypeOK', HoldsStored, [Next]_vars
  PROVE  HoldsStored'
  <1>1. \A m \in Msgs : queue[m].st # "none" => queue'[m].st # "none"
    BY OnlyStored
  <1>2. ASSUME NEW i \in Instances, NEW m \in Msgs, buffer'[i][m] > 0
        PROVE  queue'[m].st # "none"
    <2>1. CASE Fetch(i, m)
      BY <1>1, <2>1 DEF Fetch, Deliverable
    <2>2. CASE ~ Fetch(i, m)
      <3>1. buffer[i][m] > 0
        BY <1>2, <2>2, BufferSource
      <3> QED BY <1>1, <3>1 DEF HoldsStored
    <2> QED BY <2>1, <2>2
  <1>3. ASSUME NEW g \in Goroutines, pc'[g] \in {"write", "settle"}
        PROVE  queue'[job'[g]].st # "none"
    <2>1. CASE \E m \in Msgs : Take(g, m)
      <3>1. PICK m \in Msgs : Take(g, m)
        BY <2>1
      <3>2. job'[g] = m /\ queue[m].st # "none"
        BY <3>1, GoroutineParts DEF Take, TypeOK, HoldsStored
      <3> QED BY <1>1, <3>2
    <2>2. CASE ~ \E m \in Msgs : Take(g, m)
      <3>1. pc[g] \in {"write", "settle"} /\ job'[g] = job[g]
        BY <1>3, <2>2, JobSource
      <3>2. job[g] \in Msgs
        BY <3>1 DEF TypeOK
      <3> QED BY <1>1, <3>1, <3>2 DEF HoldsStored
    <2> QED BY <2>1, <2>2
  <1> QED BY <1>2, <1>3 DEF HoldsStored

LEMMA NextOnlyAsked ==
  ASSUME SchedulerAssumption, TypeOK, HoldsStored, OnlyAsked, [Next]_vars
  PROVE  OnlyAsked'
  <1>1. \A n : Asked(n) => Asked(n)'
    BY OnlyStored DEF Asked, Msgs
  <1>2. \A S \in SUBSET Due : \A n \in S : Asked(n)
    BY DEF Due, OnlyAsked
  <1>3. ASSUME NEW g \in Goroutines, Write(g) PROVE OnlyAsked'
    <2>1. job[g] \in Msgs /\ queue[job[g]].st # "none"
      BY <1>3 DEF Write, TypeOK, HoldsStored
    <2>2. \A n \in (table \union removed)' :
             n \in table \union removed \/ (job[g] \in Schedules /\ n \in ItemsOf[job[g]])
      BY <1>3 DEF Write, Handle, UpsertAll, DeleteByNotificationID
    <2>3. \A n \in (table \union removed)' : Asked(n)
      BY <2>1, <2>2 DEF Asked, OnlyAsked
    <2>4. UNCHANGED <<claimed, dispatched>>
      BY <1>3 DEF Write, dispatcherVars
    <2> QED BY <1>1, <2>3, <2>4 DEF OnlyAsked
  <1>4. ASSUME NEW i \in Instances, Claim(i) PROVE OnlyAsked'
    <2>1. PICK S \in SUBSET Due :
            /\ table' = table \ S
            /\ claimed' = [claimed EXCEPT ![i] = S] \/ UNCHANGED claimed
      BY <1>4, ClaimTakesRows
    <2>2. UNCHANGED <<dispatched, removed>>
      BY <1>4 DEF Claim
    <2>3. \A j \in Instances : \A n \in claimed'[j] : Asked(n)
      <3>1. ASSUME NEW j \in Instances PROVE claimed'[j] = claimed[j] \/ claimed'[j] = S
        BY <2>1 DEF TypeOK
      <3> QED BY <1>2, <3>1 DEF OnlyAsked
    <2>4. \A n \in table' : Asked(n)
      BY <2>1 DEF OnlyAsked
    <2> QED BY <1>1, <2>2, <2>3, <2>4 DEF OnlyAsked
  <1>5. ASSUME NEW i \in Instances, PublishBatch(i) PROVE OnlyAsked'
    <2>1. PICK S \in SUBSET claimed[i] : StoreDue(S)
      BY <1>5 DEF PublishBatch
    <2>2. \A n \in Notifs : dispatched'[n] > 0 => Asked(n)
      BY <2>1 DEF StoreDue, OnlyAsked
    <2>3. \A j \in Instances : claimed'[j] \subseteq claimed[j]
      BY <1>5 DEF PublishBatch, TypeOK
    <2>4. UNCHANGED <<table, removed>>
      BY <1>5 DEF PublishBatch
    <2> QED BY <1>1, <2>2, <2>3, <2>4 DEF OnlyAsked
  <1>6. ASSUME NEW i \in Instances, Requeue(i) PROVE OnlyAsked'
    <2>1. \A j \in Instances : claimed'[j] \subseteq claimed[j]
      BY <1>6 DEF Requeue, TypeOK
    <2>2. table' \subseteq table \union claimed[i] /\ UNCHANGED <<dispatched, removed>>
      BY <1>6 DEF Requeue
    <2> QED BY <1>1, <2>1, <2>2 DEF OnlyAsked
  <1>7. ASSUME NEW i \in Instances, Fresh(i) PROVE OnlyAsked'
    <2>1. \A j \in Instances : claimed'[j] \subseteq claimed[j]
      BY <1>7 DEF Fresh, TypeOK
    <2>2. UNCHANGED <<table, dispatched, removed>>
      BY <1>7 DEF Fresh
    <2> QED BY <1>1, <2>1, <2>2 DEF OnlyAsked
  <1>8. CASE UNCHANGED <<table, claimed, dispatched, removed>>
    BY <1>1, <1>8 DEF OnlyAsked
  <1> QED
    BY <1>3, <1>4, <1>5, <1>6, <1>7, <1>8
    DEF Next, vars, dispatcherVars, Tick, Store, AckWaitExpires, Fetch, Consume, Take, Settle, Halt,
        Dispatch, Stop, Restart, Crash

LEMMA InitRelyInv == SchedulerAssumption /\ Init => RelyInv
  BY InitTypeOK DEF Init, RelyInv, OnlyDue, NeverEarly, HoldsStored, OnlyAsked

LEMMA NextRelyInv ==
  ASSUME SchedulerAssumption, RelyInv, [Next]_vars
  PROVE  RelyInv'
  BY NextTypeOK, NextOnlyDue, NextHoldsStored, NextOnlyAsked DEF RelyInv

\* Time goes on, and what was dispatched stays dispatched.
LEMMA ClockAndHistory ==
  ASSUME TypeOK, [Next]_vars
  PROVE  /\ now' = now \/ (Tick /\ now' = now + 1)
         /\ \A n \in Notifs : dispatched[n] <= dispatched'[n]
  <1>1. \A n \in Notifs : dispatched[n] \in 0 .. 2
    BY DEF TypeOK
  <1>2. ASSUME NEW S, StoreDue(S), NEW n \in Notifs
        PROVE  dispatched[n] <= dispatched'[n]
    BY <1>1, <1>2 DEF StoreDue
  <1>3. now' = now \/ (Tick /\ now' = now + 1)
    BY DEF Next, vars, consumerVars, Tick, Store, AckWaitExpires, Fetch, Consume, Take, Write, Settle,
           Halt, Dispatch, Claim, PublishBatch, Requeue, Stop, Restart, Crash, Fresh
  <1>4. UNCHANGED dispatched \/ \E S : StoreDue(S)
    BY DEF Next, vars, consumerVars, dispatcherVars, Tick, Store, AckWaitExpires, Fetch, Consume, Take,
           Write, Settle, Halt, Dispatch, Claim, PublishBatch, Requeue, Stop, Restart, Crash, Fresh
  <1>5. UNCHANGED dispatched => \A n \in Notifs : dispatched[n] <= dispatched'[n]
    BY <1>1
  <1> QED BY <1>2, <1>3, <1>4, <1>5
-----------------------------------------------------------------------------
(***************************************************************************)
(* Once and not any more: what was dispatched or removed does not come     *)
(* back, while acks arrive in time, statements answer and no instance      *)
(* stops or dies.  A message then is in one place at a time, so that a     *)
(* schedule is written once, and a row is in the table, with one           *)
(* dispatcher, or gone.                                                    *)
(***************************************************************************)
Calm == {"slow", "settle", "reply", "stop", "crash"} \intersect faults = {}

\* A notification is created by one request, which announces it in one event:
\* of the possible events, and of those published so far.
ScheduledInOneEvent ==
    \A d, e \in Schedules : d # e => ItemsOf[d] \intersect ItemsOf[e] = {}

AskedOnce ==
    \A d, e \in Schedules :
        queue[d].st # "none" /\ queue[e].st # "none" /\ d # e =>
            ItemsOf[d] \intersect ItemsOf[e] = {}

\* Goroutine g has taken message m and not settled it.
Busy(g, m) == pc[g] \in {"write", "settle"} /\ job[g] = m

\* Message m has at most one unsettled delivery, and none when it is not in flight.
OneDelivery(m) ==
    /\ Live(m) => queue[m].st = "inflight"
    /\ \A i, j \in Instances : buffer[i][m] > 0 /\ buffer[j][m] > 0 => i = j
    /\ \A i \in Instances : buffer[i][m] <= 1
    /\ \A i \in Instances, g \in Goroutines : ~ (buffer[i][m] > 0 /\ Busy(g, m))
    /\ \A g, h \in Goroutines : Busy(g, m) /\ Busy(h, m) => g = h

\* The rows of schedule e have been written.
Written(e) ==
    \/ queue[e].st = "gone"
    \/ \E g \in Goroutines : pc[g] = "settle" /\ job[g] = e /\ verdict[g] = "ack"

\* The scheduler has never heard of n.
Unknown(n) ==
    /\ n \notin table \union removed
    /\ dispatched[n] = 0
    /\ \A i \in Instances : n \notin claimed[i]

\* A row is in one place.
OnePlace(n) ==
    /\ n \in table => n \notin removed /\ \A i \in Instances : n \notin claimed[i]
    /\ n \in removed => \A i \in Instances : n \notin claimed[i]
    /\ \A i, j \in Instances : n \in claimed[i] /\ n \in claimed[j] => i = j

OnceInv ==
    /\ TypeOK
    /\ AllUp
    /\ \A m \in Msgs : OneDelivery(m)
    /\ \A e \in Schedules :
          queue[e].st # "none" /\ ~ Written(e) => \A n \in ItemsOf[e] : Unknown(n)
    /\ \A n \in Notifs : OnePlace(n)

\* The steps of a behaviour in which nothing else goes wrong.
LEMMA CalmStep ==
  ASSUME Calm, AllUp, [Next]_vars
  PROVE  /\ AllUp'
         /\ \A i \in Instances : up[i] /\ ~ Stop(i) /\ ~ Restart(i) /\ ~ Crash(i)
         /\ \A i \in Instances : Claim(i) => \E S \in SUBSET Due :
               table' = table \ S /\ claimed' = [claimed EXCEPT ![i] = S]
         /\ \A g \in Goroutines : Write(g) =>
               \/ Handle(job[g]) /\ verdict' = [verdict EXCEPT ![g] = "ack"]
               \/ UNCHANGED <<table, removed>> /\ verdict' = [verdict EXCEPT ![g] = "nak"]
         /\ \A g \in Goroutines : Settle(g) =>
               queue' = [queue EXCEPT ![job[g]] = IF verdict[g] = "ack" THEN Acked(@)
                                                                       ELSE Naked(@)]
         /\ \A m \in Msgs : AckWaitExpires(m) => ~ Live(m)
  <1>1. AllUp' /\ \A i \in Instances : up[i] /\ ~ Stop(i) /\ ~ Restart(i) /\ ~ Crash(i)
    BY NextAllUp DEF Calm, AllUp
  <1>2. \A i \in Instances : Claim(i) => \E S \in SUBSET Due :
           table' = table \ S /\ claimed' = [claimed EXCEPT ![i] = S]
    BY <1>1, ClaimTakesRows DEF Calm
  <1>3. \A g \in Goroutines : Write(g) =>
           \/ Handle(job[g]) /\ verdict' = [verdict EXCEPT ![g] = "ack"]
           \/ UNCHANGED <<table, removed>> /\ verdict' = [verdict EXCEPT ![g] = "nak"]
    BY <1>1, GoroutineParts DEF Write, Calm
  <1>4. \A g \in Goroutines : Settle(g) =>
           queue' = [queue EXCEPT ![job[g]] = IF verdict[g] = "ack" THEN Acked(@) ELSE Naked(@)]
    BY DEF Settle, Calm
  <1>5. \A m \in Msgs : AckWaitExpires(m) => ~ Live(m)
    BY DEF AckWaitExpires, Calm
  <1> QED BY <1>1, <1>2, <1>3, <1>4, <1>5

\* What becomes of the deliveries of m in a step.
LEMMA NextOneDelivery ==
  ASSUME SchedulerAssumption, Calm, OnceInv, [Next]_vars, NEW m \in Msgs
  PROVE  OneDelivery(m)'
  <1> USE DEF OnceInv
  <1>0. OneDelivery(m) /\ queue[m] \in [st : QueueStatus, count : Nat]
    BY DEF TypeOK
  <1>1. CASE UNCHANGED <<queue, buffer, pc, job>>
    BY <1>0, <1>1 DEF OneDelivery, Live, Busy
  <1>2. ASSUME NEW l \in Msgs, Store(l) \/ AckWaitExpires(l) PROVE OneDelivery(m)'
    <2>1. UNCHANGED <<buffer, pc, job>>
      BY <1>2 DEF Store, AckWaitExpires
    <2>2. CASE l # m
      <3>1. queue'[m] = queue[m]
        BY <1>2, <2>2 DEF Store, AckWaitExpires, TypeOK
      <3> QED BY <1>0, <2>1, <3>1 DEF OneDelivery, Live, Busy
    <2>3. CASE l = m
      <3>1. ~ Live(m)
        BY <1>0, <1>2, <2>3, CalmStep DEF Store, OneDelivery
      <3> QED BY <1>0, <2>1, <3>1 DEF OneDelivery, Live, Busy
    <2> QED BY <2>2, <2>3
  <1>3. ASSUME NEW i \in Instances, NEW l \in Msgs, Fetch(i, l) PROVE OneDelivery(m)'
    <2>1. UNCHANGED <<pc, job>>
      BY <1>3 DEF Fetch
    <2>2. CASE l # m
      <3>1. queue'[m] = queue[m] /\ \A j \in Instances : buffer'[j][m] = buffer[j][m]
        BY <1>3, <2>2 DEF Fetch, TypeOK
      <3> QED BY <1>0, <2>1, <3>1 DEF OneDelivery, Live, Busy
    <2>3. CASE l = m
      <3>1. ~ Live(m)
        BY <1>0, <1>3, <2>3 DEF Fetch, Deliverable, OneDelivery
      <3>2. buffer[i][m] \in 0 .. MaxCopies /\ \A j \in Instances : buffer[j][m] \in 0 .. MaxCopies
        BY DEF TypeOK
      <3>3. \A j \in Instances : buffer[j][m] = 0
        BY <3>1, <3>2 DEF Live
      <3>4. \A j \in Instances : buffer'[j][m] = IF j = i THEN 1 ELSE 0
        BY <1>3, <2>3, <3>3 DEF Fetch, TypeOK
      <3>5. queue'[m].st = "inflight"
        BY <1>0, <1>3, <2>3, GoneOnlyByAck DEF Fetch, TypeOK
      <3> QED BY <2>1, <3>1, <3>4, <3>5 DEF OneDelivery, Live, Busy
    <2> QED BY <2>2, <2>3
  <1>4. ASSUME NEW g \in Goroutines, NEW l \in Msgs, Take(g, l) PROVE OneDelivery(m)'
    <2>1. queue' = queue /\ g[1] \in Instances
      BY <1>4, GoroutineParts DEF Take
    <2>2. \A h \in Goroutines : h # g => pc'[h] = pc[h] /\ job'[h] = job[h]
      BY <1>4 DEF Take, TypeOK
    <2>3. CASE l # m
      <3>1. ~ Busy(g, m)' /\ \A j \in Instances : buffer'[j][m] = buffer[j][m]
        BY <1>4, <2>1, <2>3 DEF Take, TypeOK, Busy
      <3> QED BY <1>0, <2>1, <2>2, <3>1 DEF OneDelivery, Live, Busy
    <2>4. CASE l = m
      <3>1. \A j \in Instances : buffer[j][m] \in 0 .. MaxCopies
        BY DEF TypeOK
      <3>2. \A j \in Instances : buffer[j][m] = IF j = g[1] THEN 1 ELSE 0
        BY <1>0, <1>4, <2>1, <2>4, <3>1 DEF Take, OneDelivery, SchedulerAssumption
      <3>3. \A j \in Instances : buffer'[j][m] = 0
        BY <1>4, <2>1, <2>4, <3>2 DEF Take, TypeOK
      <3>4. queue[m].st = "inflight" /\ \A h \in Goroutines : ~ Busy(h, m)
        BY <1>0, <1>4, <2>1, <2>4 DEF OneDelivery, Live, Take
      <3> QED BY <2>1, <2>2, <3>3, <3>4 DEF OneDelivery, Live, Busy
    <2> QED BY <2>3, <2>4
  <1>5. ASSUME NEW g \in Goroutines, Write(g) PROVE OneDelivery(m)'
    <2>1. UNCHANGED <<queue, buffer, job>>
      BY <1>5 DEF Write
    <2>2. \A h \in Goroutines : pc'[h] \in {"write", "settle"} <=> pc[h] \in {"write", "settle"}
      BY <1>5 DEF Write, TypeOK
    <2> QED BY <1>0, <2>1, <2>2 DEF OneDelivery, Live, Busy
  <1>6. ASSUME NEW g \in Goroutines, Settle(g) PROVE OneDelivery(m)'
    <2>1. buffer' = buffer /\ ~ (pc'[g] \in {"write", "settle"})
      BY <1>6 DEF Settle, TypeOK
    <2>2. \A h \in Goroutines : h # g => pc'[h] = pc[h] /\ job'[h] = job[h]
      BY <1>6 DEF Settle, TypeOK
    <2>3. CASE job[g] # m
      <3>1. queue'[m] = queue[m]
        BY <1>6, <2>3, CalmStep DEF TypeOK
      <3> QED BY <1>0, <2>1, <2>2, <3>1 DEF OneDelivery, Live, Busy
    <2>4. CASE job[g] = m
      <3>1. Busy(g, m)
        BY <1>6, <2>4 DEF Settle, Busy
      <3>2. /\ \A h \in Goroutines : h # g => ~ Busy(h, m)
            /\ \A j \in Instances : ~ (buffer[j][m] > 0) /\ buffer[j][m] <= 1
        BY <1>0, <3>1 DEF OneDelivery
      <3> QED BY <2>1, <2>2, <3>2 DEF OneDelivery, Live, Busy
    <2> QED BY <2>3, <2>4
  <1>7. ASSUME NEW g \in Goroutines, Halt(g) PROVE OneDelivery(m)'
    BY <1>7, CalmStep, GoroutineParts DEF Halt
  <1>8. CASE Tick \/ UNCHANGED vars \/ \E i \in Instances : Dispatch(i)
    BY <1>1, <1>8 DEF Tick, vars, consumerVars, Dispatch, Claim, PublishBatch, Requeue
  <1> QED BY <1>2, <1>3, <1>4, <1>5, <1>6, <1>7, <1>8, CalmStep DEF Next, Consume
\* A schedule that was written stays so: it is acked, and not delivered again.
LEMMA WrittenStays ==
  ASSUME SchedulerAssumption, Calm, OnceInv, [Next]_vars, NEW e \in Schedules, Written(e)
  PROVE  Written(e)'
  <1> USE DEF OnceInv
  <1>0. e \in Msgs /\ \A m \in Msgs : queue[m] \in [st : QueueStatus, count : Nat]
    BY DEF TypeOK, Msgs
  <1>1. CASE queue[e].st = "gone"
    <2>1. ASSUME NEW m \in Msgs, NEW i \in Instances, Store(m) \/ AckWaitExpires(m) \/ Fetch(i, m)
          PROVE  queue'[e] = queue[e]
      BY <1>0, <1>1, <2>1 DEF Store, AckWaitExpires, Fetch, Deliverable, TypeOK
    <2>2. ASSUME NEW m \in Msgs, Store(m) \/ AckWaitExpires(m) PROVE queue'[e] = queue[e]
      BY <1>0, <1>1, <2>2 DEF Store, AckWaitExpires, TypeOK
    <2>3. ASSUME NEW g \in Goroutines, Settle(g) PROVE queue'[e].st = "gone"
      <3>1. Acked(queue[e]).st = "gone" /\ Naked(queue[e]).st = "gone"
        BY <1>0, <1>1 DEF Acked, Naked
      <3>2. queue'[e] \in {queue[e], Acked(queue[e]), Naked(queue[e])}
        <4>1. queue' = [queue EXCEPT ![job[g]] = IF verdict[g] = "ack" THEN Acked(@) ELSE Naked(@)]
          BY <2>3, CalmStep
        <4> QED BY <1>0, <4>1 DEF TypeOK
      <3> QED BY <1>1, <3>1, <3>2
    <2>4. CASE queue' = queue
      BY <1>1, <2>4 DEF Written
    <2> QED BY <1>1, <2>1, <2>2, <2>3, <2>4, CalmStep
         DEF Written, Next, Consume, Dispatch, vars, consumerVars, Tick, Take, Write, Halt, Claim,
             PublishBatch, Requeue
  <1>2. ASSUME NEW g \in Goroutines, pc[g] = "settle", job[g] = e, verdict[g] = "ack"
        PROVE  Written(e)'
    <2>1. CASE Settle(g)
      <3>1. queue' = [queue EXCEPT ![e] = Acked(@)]
        BY <1>2, <2>1, CalmStep
      <3> QED BY <1>0, <3>1 DEF Written, Acked, TypeOK
    <2>2. CASE ~ Settle(g)
      <3>1. pc'[g] = pc[g] /\ job'[g] = job[g] /\ verdict'[g] = verdict[g]
        <4>1. ASSUME NEW h \in Goroutines, Consume(h)
              PROVE  pc'[g] = pc[g] /\ job'[g] = job[g] /\ verdict'[g] = verdict[g]
          <5>1. CASE h # g
            <6>1. ASSUME NEW m \in Msgs, Take(h, m)
                  PROVE  pc'[g] = pc[g] /\ job'[g] = job[g] /\ verdict'[g] = verdict[g]
              BY <1>2, <5>1, <6>1 DEF Take, TypeOK
            <6>2. CASE Write(h)
              BY <1>2, <5>1, <6>2 DEF Write, TypeOK
            <6>3. CASE Settle(h)
              BY <1>2, <5>1, <6>3 DEF Settle, TypeOK
            <6>4. CASE Halt(h)
              BY <1>2, <5>1, <6>4 DEF Halt, TypeOK
            <6> QED BY <4>1, <6>1, <6>2, <6>3, <6>4 DEF Consume
          <5>2. CASE h = g
            BY <1>2, <2>2, <4>1, <5>2 DEF Consume, Take, Write, Settle, Halt, TypeOK
          <5> QED BY <5>1, <5>2
        <4>2. CASE ~ \E h \in Goroutines : Consume(h)
          BY <4>2, CalmStep
          DEF Next, Dispatch, vars, consumerVars, Tick, Store, AckWaitExpires, Fetch, Claim,
              PublishBatch, Requeue
        <4> QED BY <4>1, <4>2
      <3> QED BY <1>2, <3>1 DEF Written
    <2> QED BY <2>1, <2>2
  <1> QED BY <1>1, <1>2 DEF Written

\* The steps that move rows, one instance or one goroutine at a time.
LEMMA RowMoves ==
  ASSUME SchedulerAssumption, Calm, OnceInv, [Next]_vars
  PROVE  \/ UNCHANGED <<table, removed, claimed, dispatched>>
         \/ \E m \in Msgs :
               /\ UNCHANGED <<claimed, dispatched>>
               /\ Handle(m)
               /\ m \in Schedules => queue[m].st # "none" /\ ~ Written(m) /\ Written(m)'
         \/ \E i \in Instances :
               /\ claimed[i] = {}
               /\ UNCHANGED <<removed, dispatched>>
               /\ \E S \in SUBSET table :
                     table' = table \ S /\ claimed' = [claimed EXCEPT ![i] = S]
         \/ \E i \in Instances :
               /\ UNCHANGED <<table, removed>>
               /\ \/ StoreDue(claimed[i]) /\ claimed' = [claimed EXCEPT ![i] = {}]
                  \/ /\ "publish" \in faults /\ UNCHANGED claimed
                     /\ \E S \in SUBSET claimed[i] : StoreDue(S)
         \/ \E i \in Instances :
               /\ UNCHANGED <<removed, dispatched>>
               /\ table' \in {table, table \union claimed[i]}
               /\ claimed' = [claimed EXCEPT ![i] = {}]
  <1> USE DEF OnceInv
  <1>1. ASSUME NEW g \in Goroutines, Write(g), ~ UNCHANGED <<table, removed>>,
               NEW m, m = job[g]
        PROVE  /\ UNCHANGED <<claimed, dispatched>>
               /\ Handle(m) /\ m \in Msgs
               /\ m \in Schedules => queue[m].st # "none" /\ ~ Written(m) /\ Written(m)'
    <2>1. /\ UNCHANGED <<claimed, dispatched, queue, job>> /\ m \in Msgs
          /\ pc[g] = "write" /\ pc'[g] = "settle"
      BY <1>1 DEF Write, TypeOK, dispatcherVars
    <2>2. Handle(m) /\ verdict'[g] = "ack"
      BY <1>1, CalmStep DEF TypeOK
    <2>3. Busy(g, m)
      BY <1>1, <2>1 DEF Busy
    <2>4. queue[m].st = "inflight" /\ \A h \in Goroutines : Busy(h, m) => h = g
      BY <2>1, <2>3 DEF OneDelivery, Live, Busy
    <2>5. ~ Written(m)
      BY <2>1, <2>4 DEF Written, Busy
    <2> QED BY <1>1, <2>1, <2>2, <2>4, <2>5 DEF Written
  <1>2. ASSUME NEW i \in Instances, Claim(i)
        PROVE  /\ claimed[i] = {}
               /\ UNCHANGED <<removed, dispatched>>
               /\ \E S \in SUBSET table :
                     table' = table \ S /\ claimed' = [claimed EXCEPT ![i] = S]
    <2>1. claimed[i] = {} /\ UNCHANGED <<removed, dispatched>>
      BY <1>2 DEF Claim, TypeOK
    <2>2. PICK S \in SUBSET Due : table' = table \ S /\ claimed' = [claimed EXCEPT ![i] = S]
      BY <1>2, CalmStep
    <2>3. S \in SUBSET table
      BY DEF Due
    <2> QED BY <2>1, <2>2, <2>3
  <1>3. ASSUME NEW i \in Instances, PublishBatch(i)
        PROVE  /\ UNCHANGED <<table, removed>>
               /\ \/ StoreDue(claimed[i]) /\ claimed' = [claimed EXCEPT ![i] = {}]
                  \/ /\ "publish" \in faults /\ UNCHANGED claimed
                     /\ \E S \in SUBSET claimed[i] : StoreDue(S)
    BY <1>3, CalmStep DEF PublishBatch
  <1>4. ASSUME NEW i \in Instances, Requeue(i)
        PROVE  /\ UNCHANGED <<removed, dispatched>>
               /\ table' \in {table, table \union claimed[i]}
               /\ claimed' = [claimed EXCEPT ![i] = {}]
    BY <1>4 DEF Requeue
  <1>5. ASSUME NEW g \in Goroutines, Write(g), UNCHANGED <<table, removed>>
        PROVE  UNCHANGED <<table, removed, claimed, dispatched>>
    BY <1>5 DEF Write, dispatcherVars
  <1>6. CASE \/ Tick \/ UNCHANGED vars
             \/ \E m \in Msgs : Store(m) \/ AckWaitExpires(m) \/ \E i \in Instances : Fetch(i, m)
             \/ \E g \in Goroutines : (\E m \in Msgs : Take(g, m)) \/ Settle(g) \/ Halt(g)
    BY <1>6 DEF Tick, vars, dispatcherVars, Store, AckWaitExpires, Fetch, Take, Settle, Halt
  <1>7. CASE \E g \in Goroutines : Write(g)
    BY <1>1, <1>5, <1>7
  <1>8. CASE \E i \in Instances : Claim(i)
    BY <1>2, <1>8
  <1>9. CASE \E i \in Instances : PublishBatch(i)
    BY <1>3, <1>9
  <1>10. CASE \E i \in Instances : Requeue(i)
    BY <1>4, <1>10
  <1> QED BY <1>6, <1>7, <1>8, <1>9, <1>10, CalmStep DEF Next, Consume, Dispatch
\* A notification the scheduler never heard of stays unknown until the event
\* that schedules it is written.
LEMMA UnknownStays ==
  ASSUME SchedulerAssumption, RelyInv, AskedOnce', Calm, OnceInv, [Next]_vars,
         NEW e \in Schedules, queue'[e].st # "none", ~ Written(e)', NEW n \in ItemsOf[e]
  PROVE  Unknown(n)'
  <1>0. \A d \in Schedules : queue[d].st # "none" => queue'[d].st # "none"
    BY OnlyStored DEF RelyInv, Msgs
  <1>1. ~ Written(e)
    BY WrittenStays
  <1>2. Unknown(n) /\ n \in Notifs
    <2>1. n \in Notifs
      BY DEF SchedulerAssumption, Msgs
    <2>2. CASE queue[e].st # "none"
      BY <1>1, <2>1, <2>2 DEF OnceInv
    <2>3. CASE queue[e].st = "none"
      <3>1. ~ Asked(n)
        BY <1>0, <2>3 DEF Asked, AskedOnce
      <3>2. dispatched[n] \in 0 .. 2
        BY <2>1 DEF RelyInv, TypeOK
      <3> QED BY <2>1, <3>1, <3>2 DEF Unknown, RelyInv, OnlyAsked
    <2> QED BY <2>2, <2>3
  <1>3. CASE UNCHANGED <<table, removed, claimed, dispatched>>
    BY <1>2, <1>3 DEF Unknown
  <1>4. ASSUME NEW m \in Msgs, UNCHANGED <<claimed, dispatched>>, Handle(m),
               m \in Schedules => queue[m].st # "none" /\ ~ Written(m) /\ Written(m)'
        PROVE  Unknown(n)'
    <2>1. m \in Schedules => n \notin ItemsOf[m]
      BY <1>0, <1>4 DEF AskedOnce
    <2> QED BY <1>2, <1>4, <2>1 DEF Unknown, Handle, UpsertAll, DeleteByNotificationID
  <1>5. ASSUME NEW i \in Instances, UNCHANGED <<removed, dispatched>>,
               \E S \in SUBSET table : table' = table \ S /\ claimed' = [claimed EXCEPT ![i] = S]
        PROVE  Unknown(n)'
    BY <1>2, <1>5 DEF Unknown, OnceInv, TypeOK
  <1>6. ASSUME NEW i \in Instances, UNCHANGED <<table, removed>>,
               \/ StoreDue(claimed[i]) /\ claimed' = [claimed EXCEPT ![i] = {}]
               \/ UNCHANGED claimed /\ \E S \in SUBSET claimed[i] : StoreDue(S)
        PROVE  Unknown(n)'
    <2>1. PICK S \in SUBSET claimed[i] : StoreDue(S)
      BY <1>6
    <2>2. dispatched'[n] = 0
      BY <1>2, <2>1 DEF Unknown, StoreDue
    <2>3. \A j \in Instances : claimed'[j] \subseteq claimed[j]
      BY <1>6 DEF OnceInv, TypeOK
    <2> QED BY <1>2, <1>6, <2>2, <2>3 DEF Unknown
  <1>7. ASSUME NEW i \in Instances, UNCHANGED <<removed, dispatched>>,
               table' \in {table, table \union claimed[i]},
               claimed' = [claimed EXCEPT ![i] = {}]
        PROVE  Unknown(n)'
    BY <1>2, <1>7 DEF Unknown, OnceInv, TypeOK
  <1> QED BY <1>3, <1>4, <1>5, <1>6, <1>7, RowMoves

\* A row moves from one place to another.
LEMMA NextOnePlace ==
  ASSUME SchedulerAssumption, Calm, OnceInv, [Next]_vars, NEW n \in Notifs
  PROVE  OnePlace(n)'
  <1>1. OnePlace(n) /\ claimed \in [Instances -> SUBSET Notifs]
    BY DEF OnceInv, TypeOK
  <1>2. CASE UNCHANGED <<table, removed, claimed, dispatched>>
    BY <1>1, <1>2 DEF OnePlace
  <1>3. ASSUME NEW m \in Msgs, UNCHANGED <<claimed, dispatched>>, Handle(m),
               m \in Schedules => queue[m].st # "none" /\ ~ Written(m)
        PROVE  OnePlace(n)'
    <2>1. m \in Schedules /\ n \in ItemsOf[m] => Unknown(n)
      BY <1>3 DEF OnceInv
    <2> QED BY <1>1, <1>3, <2>1
         DEF OnePlace, Unknown, Handle, UpsertAll, DeleteByNotificationID
  <1>4. ASSUME NEW i \in Instances, UNCHANGED <<removed, dispatched>>,
               \E S \in SUBSET table : table' = table \ S /\ claimed' = [claimed EXCEPT ![i] = S]
        PROVE  OnePlace(n)'
    <2>1. PICK S \in SUBSET table : table' = table \ S /\ claimed' = [claimed EXCEPT ![i] = S]
      BY <1>4
    <2>2. \A j \in Instances : claimed'[j] = IF j = i THEN S ELSE claimed[j]
      BY <1>1, <2>1
    <2> QED BY <1>1, <1>4, <2>1, <2>2 DEF OnePlace
  <1>5. ASSUME NEW i \in Instances, UNCHANGED <<table, removed>>,
               UNCHANGED claimed \/ claimed' = [claimed EXCEPT ![i] = {}]
        PROVE  OnePlace(n)'
    BY <1>1, <1>5 DEF OnePlace
  <1>6. ASSUME NEW i \in Instances, UNCHANGED <<removed, dispatched>>,
               table' \in {table, table \union claimed[i]},
               claimed' = [claimed EXCEPT ![i] = {}]
        PROVE  OnePlace(n)'
    <2>1. \A j \in Instances : claimed'[j] = IF j = i THEN {} ELSE claimed[j]
      BY <1>1, <1>6
    <2> QED BY <1>1, <1>6, <2>1 DEF OnePlace
  <1> QED BY <1>2, <1>3, <1>4, <1>5, <1>6, RowMoves

LEMMA InitOnceInv == SchedulerAssumption /\ Init => OnceInv
  BY InitTypeOK
  DEF Init, OnceInv, AllUp, OneDelivery, Live, Busy, Unknown, OnePlace, SchedulerAssumption, Msgs

LEMMA NextOnceInv ==
  ASSUME SchedulerAssumption, RelyInv, AskedOnce', Calm, OnceInv, [Next]_vars
  PROVE  OnceInv'
  <1>1. TypeOK'
    BY NextTypeOK DEF OnceInv
  <1>2. AllUp'
    BY CalmStep DEF OnceInv
  <1>3. \A m \in Msgs : OneDelivery(m)'
    BY NextOneDelivery
  <1>4. \A e \in Schedules :
           queue'[e].st # "none" /\ ~ Written(e)' => \A n \in ItemsOf[e] : Unknown(n)'
    BY UnknownStays
  <1>5. \A n \in Notifs : OnePlace(n)'
    BY NextOnePlace
  <1> QED BY <1>1, <1>2, <1>3, <1>4, <1>5 DEF OnceInv

LEMMA RelyInvHolds == Spec => []RelyInv
  <1>1. Init => RelyInv
    BY SchedulerAssumption, InitRelyInv
  <1>2. RelyInv /\ [Next]_vars => RelyInv'
    BY SchedulerAssumption, NextRelyInv
  <1> QED BY <1>1, <1>2, PTL DEF Spec

LEMMA OnceInvHolds ==
  ASSUME ScheduledInOneEvent
  PROVE  Spec => [](Calm => OnceInv)
  <1>1. Init => (Calm => OnceInv)
    BY SchedulerAssumption, InitOnceInv
  <1>2. RelyInv /\ (Calm => OnceInv) /\ [Next]_vars => (Calm => OnceInv)'
    <2>1. AskedOnce'
      BY ScheduledInOneEvent DEF ScheduledInOneEvent, AskedOnce
    <2> QED BY <2>1, SchedulerAssumption, NextOnceInv, faultsKept DEF Calm
  <1> QED BY <1>1, <1>2, RelyInvHolds, PTL DEF Spec

\* A notification whose row a cancel deleted is not dispatched any more, also
\* when batches fail and rows are put back: the cancel finds no row that a
\* dispatcher holds, and nobody puts back a row that it found (handleCancel,
\* ClaimDue, requeue).
THEOREM RemovedStaysOutTheorem ==
  ASSUME ScheduledInOneEvent
  PROVE  Spec => RemovedStaysOut
  <1>1. (Calm => OnceInv) /\ [Next]_vars =>
           [Calm => \A n \in removed : dispatched'[n] = dispatched[n]]_vars
    <2> SUFFICES ASSUME Calm, OnceInv, [Next]_vars, NEW n \in removed
                 PROVE  dispatched'[n] = dispatched[n]
      BY DEF vars
    <2>1. n \in Notifs /\ \A i \in Instances : n \notin claimed[i]
      BY DEF OnceInv, TypeOK, OnePlace
    <2>2. ASSUME NEW i \in Instances, NEW S \in SUBSET claimed[i], StoreDue(S)
          PROVE  dispatched'[n] = dispatched[n]
      BY <2>1, <2>2 DEF StoreDue
    <2> QED BY <2>2, RowMoves, SchedulerAssumption
  <1>2. [][Calm => \A n \in removed : dispatched'[n] = dispatched[n]]_vars => RemovedStaysOut
    BY DEF Calm, RemovedStaysOut
  <1> QED BY <1>1, <1>2, OnceInvHolds, PTL DEF Spec

\* While publishing works.
Quiet == Calm /\ "publish" \notin faults

\* What was dispatched has left the scheduler, and what a cancel removed was
\* not dispatched.
DispatchedIsOut ==
    \A n \in Notifs :
        /\ dispatched[n] <= 1
        /\ dispatched[n] > 0 =>
              n \notin table \union removed /\ \A i \in Instances : n \notin claimed[i]

LEMMA NextDispatchedIsOut ==
  ASSUME SchedulerAssumption, Quiet, OnceInv, DispatchedIsOut, [Next]_vars
  PROVE  DispatchedIsOut'
  <1>0. Calm /\ "publish" \notin faults
    BY DEF Calm, Quiet
  <1>1. TypeOK /\ \A n \in Notifs : OnePlace(n)
    BY DEF OnceInv
  <1> SUFFICES ASSUME NEW n \in Notifs
               PROVE  /\ dispatched'[n] <= 1
                      /\ dispatched'[n] > 0 =>
                            /\ n \notin (table \union removed)'
                            /\ \A i \in Instances : n \notin claimed'[i]
    BY DEF DispatchedIsOut
  <1>2. /\ dispatched[n] \in 0 .. 1 /\ OnePlace(n)
        /\ dispatched[n] > 0 =>
              n \notin table \union removed /\ \A i \in Instances : n \notin claimed[i]
    BY <1>1 DEF DispatchedIsOut, TypeOK
  <1>3. CASE UNCHANGED <<table, removed, claimed, dispatched>>
    BY <1>2, <1>3
  <1>4. ASSUME NEW m \in Msgs, UNCHANGED <<claimed, dispatched>>, Handle(m),
               m \in Schedules => queue[m].st # "none" /\ ~ Written(m)
        PROVE  dispatched'[n] > 0 => n \notin (table \union removed)'
    <2>1. m \in Schedules /\ n \in ItemsOf[m] => dispatched[n] = 0
      BY <1>4 DEF OnceInv, Unknown
    <2> QED BY <1>2, <1>4, <2>1 DEF Handle, UpsertAll, DeleteByNotificationID
  <1>5. ASSUME NEW i \in Instances, UNCHANGED <<removed, dispatched>>,
               \E S \in SUBSET table : table' = table \ S /\ claimed' = [claimed EXCEPT ![i] = S]
        PROVE  dispatched'[n] > 0 =>
                  n \notin (table \union removed)' /\ \A j \in Instances : n \notin claimed'[j]
    BY <1>1, <1>2, <1>5 DEF TypeOK
  <1>6. ASSUME NEW i \in Instances, UNCHANGED <<table, removed>>,
               StoreDue(claimed[i]), claimed' = [claimed EXCEPT ![i] = {}]
        PROVE  /\ dispatched'[n] <= 1
               /\ dispatched'[n] > 0 =>
                     n \notin (table \union removed)' /\ \A j \in Instances : n \notin claimed'[j]
    <2>1. dispatched'[n] = IF n \in claimed[i] /\ dispatched[n] < 2 THEN dispatched[n] + 1
                                                                  ELSE dispatched[n]
      BY <1>6 DEF StoreDue
    <2>2. \A j \in Instances : claimed'[j] = IF j = i THEN {} ELSE claimed[j]
      BY <1>1, <1>6 DEF TypeOK
    <2>3. CASE n \in claimed[i]
      <3>1. /\ dispatched[n] = 0 /\ n \notin table \union removed
            /\ \A j \in Instances : n \in claimed[j] => j = i
        BY <1>2, <2>3 DEF OnePlace
      <3> QED BY <1>6, <2>1, <2>2, <3>1
    <2>4. CASE n \notin claimed[i]
      BY <1>2, <1>6, <2>1, <2>2, <2>4
    <2> QED BY <2>3, <2>4
  <1>7. ASSUME NEW i \in Instances, UNCHANGED <<removed, dispatched>>,
               table' \in {table, table \union claimed[i]},
               claimed' = [claimed EXCEPT ![i] = {}]
        PROVE  dispatched'[n] > 0 =>
                  n \notin (table \union removed)' /\ \A j \in Instances : n \notin claimed'[j]
    BY <1>1, <1>2, <1>7 DEF TypeOK
  <1> QED BY <1>0, <1>2, <1>3, <1>4, <1>5, <1>6, <1>7, RowMoves, SchedulerAssumption

\* No notification is dispatched twice, although its row is moved and its event
\* published in separate calls, while publishing works (dispatchBatch).
THEOREM DispatchedOnceTheorem ==
  ASSUME ScheduledInOneEvent
  PROVE  Spec => []DispatchedOnce
  <1> DEFINE Inv == Quiet => DispatchedIsOut
  <1>1. Init => Inv
    BY DEF Init, DispatchedIsOut
  <1>2. (Calm => OnceInv) /\ Inv /\ [Next]_vars => Inv'
    BY SchedulerAssumption, NextDispatchedIsOut, faultsKept DEF Calm, Quiet
  <1>3. Inv => DispatchedOnce
    <2>1. {"slow", "settle", "reply", "publish", "stop", "crash"} \intersect faults = {} => Quiet
      BY DEF Calm, Quiet
    <2> QED BY <2>1 DEF DispatchedIsOut, DispatchedOnce
  <1> QED BY <1>1, <1>2, <1>3, OnceInvHolds, PTL DEF Spec
=============================================================================

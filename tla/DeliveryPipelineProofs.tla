----------------------- MODULE DeliveryPipelineProofs -----------------------
(***************************************************************************)
(* Proofs about the processor's delivery pipeline, for every set of        *)
(* notifications, messages and workers, every attempt bound and every      *)
(* choice of adverse conditions; each property names those it needs.       *)
(***************************************************************************)
EXTENDS DeliveryPipeline, FiniteSetTheorems, TLAPS

-----------------------------------------------------------------------------
(***************************************************************************)
(* Type correctness.                                                       *)
(***************************************************************************)

\* The initial state is well typed.
LEMMA InitTypeOK == Init => TypeOK
  BY PipelineAssumption DEF Init, TypeOK, Unpublished, QueueStatus, Steps, Verdicts

\* Operations on a message as the broker keeps it return such a message.
LEMMA BrokerTypes ==
  ASSUME NEW q \in [st : QueueStatus, count : Nat]
  PROVE  /\ Stored(q) \in [st : QueueStatus, count : Nat]
         /\ Delivered(q, MaxDeliver) \in [st : QueueStatus, count : Nat]
         /\ Acked(q) \in [st : QueueStatus, count : Nat]
         /\ Naked(q) \in [st : QueueStatus, count : Nat]
         /\ NakedWithDelay(q) \in [st : QueueStatus, count : Nat]
         /\ TimedOut(q) \in [st : QueueStatus, count : Nat]
  BY DEF QueueStatus, Stored, Delivered, Acked, Naked, NakedWithDelay, TimedOut

\* Every step of the broker and of the clocks keeps the types.
LEMMA BrokerTypeOK ==
  ASSUME TypeOK, NEW m \in Msgs, Store(m) \/ Broker(m)
  PROVE  TypeOK'
  <1>q. queue[m] \in [st : QueueStatus, count : Nat]
    BY DEF TypeOK
  <1>1. CASE Store(m)
    BY <1>1, <1>q, BrokerTypes DEF Store, TypeOK
  <1>2. CASE Fetch(m)
    <2>1. queue' \in [Msgs -> [st : QueueStatus, count : Nat]]
      BY <1>2, <1>q, BrokerTypes DEF Fetch, TypeOK
    <2>2. buffer' \subseteq Copies
      BY <1>2, <2>1 DEF Fetch, TypeOK, Copies
    <2> QED BY <1>2, <2>1, <2>2 DEF Fetch, TypeOK
  <1>3. CASE AckWaitExpires(m)
    BY <1>3, <1>q, BrokerTypes DEF AckWaitExpires, TypeOK
  <1>4. CASE DelayElapses(m)
    BY <1>4, <1>q, BrokerTypes DEF DelayElapses, TypeOK
  <1> QED BY <1>1, <1>2, <1>3, <1>4 DEF Broker

\* A worker's step is one of these moves of its pc and verdict.
LEMMA GotoTypes ==
  ASSUME TypeOK, NEW w \in Workers, NEW s \in Steps, NEW v \in Verdicts, Goto(w, s, v),
         s \notin {"publish", "unlock", "settle"} => v = "none",
         s = "publish" => v \in {"delivered", "failed"},
         s \in {"unlock", "settle"} => v \in {"ack", "nak", "delay"}
  PROVE  /\ pc' \in [Workers -> Steps]
         /\ verdict' \in [Workers -> Verdicts]
         /\ \A x \in Workers :
              /\ pc'[x] \notin {"publish", "unlock", "settle"} => verdict'[x] = "none"
              /\ pc'[x] = "publish" => verdict'[x] \in {"delivered", "failed"}
              /\ pc'[x] \in {"unlock", "settle"} => verdict'[x] \in {"ack", "nak", "delay"}
         /\ \A x \in Workers \ {w} : pc'[x] = pc[x]
         /\ pc'[w] = s
  BY DEF TypeOK, Goto

\* A busy worker holds a copy of one of the messages.
LEMMA BusyJob ==
  ASSUME TypeOK, NEW w \in Workers, pc[w] \notin {"idle", "halted"}
  PROVE  /\ job[w] \in Copies
         /\ job[w].msg \in Msgs
         /\ job[w].attempt \in Nat
         /\ NotifOf[job[w].msg] \in Notifs
  BY PipelineAssumption DEF TypeOK, Copies

\* A step of a worker that keeps its message keeps the types of pc, job and
\* verdict.
LEMMA GotoTypeOK ==
  ASSUME TypeOK, NEW w \in Workers, NEW s \in Steps, NEW v \in Verdicts, Goto(w, s, v),
         s \notin {"publish", "unlock", "settle"} => v = "none",
         s = "publish" => v \in {"delivered", "failed"},
         s \in {"unlock", "settle"} => v \in {"ack", "nak", "delay"},
         pc[w] \notin {"idle", "halted"},
         UNCHANGED <<faults, queue, buffer, up, job>>,
         keys' \subseteq Notifs, calls' \subseteq Calls, events' \subseteq Events
  PROVE  TypeOK'
  <1>1. \A x \in Workers : pc'[x] \notin {"idle", "halted"} => job'[x] \in Copies
    BY GotoTypes, BusyJob DEF TypeOK
  <1> QED BY <1>1, GotoTypes DEF TypeOK

\* Every step of a worker keeps the types.
LEMMA WorkerTypeOK ==
  ASSUME TypeOK, NEW w \in Workers, WorkerStep(w)
  PROVE  TypeOK'
  <1> USE DEF Steps, Verdicts
  <1>1. CASE TryLock(w)
    <2>1. pc[w] \notin {"idle", "halted"} /\ keys' \subseteq Notifs
      BY <1>1, BusyJob DEF TryLock, TypeOK
    <2>2. calls' \subseteq Calls /\ events' \subseteq Events
      BY <1>1 DEF TryLock, TypeOK
    <2>3. CASE Goto(w, "limit", "none")
      BY <1>1, <2>1, <2>2, <2>3, GotoTypeOK DEF TryLock
    <2>4. CASE Goto(w, "settle", "ack")
      BY <1>1, <2>1, <2>2, <2>4, GotoTypeOK DEF TryLock
    <2>5. CASE Goto(w, "settle", "nak")
      BY <1>1, <2>1, <2>2, <2>5, GotoTypeOK DEF TryLock
    <2> QED BY <1>1, <2>3, <2>4, <2>5 DEF TryLock
  <1>2. CASE applyRateLimit(w)
    <2>1. pc[w] \notin {"idle", "halted"} /\ keys' \subseteq Notifs
      BY <1>2 DEF applyRateLimit, TypeOK
    <2>2. calls' \subseteq Calls /\ events' \subseteq Events
      BY <1>2 DEF applyRateLimit, TypeOK
    <2>3. CASE Goto(w, "send", "none")
      BY <1>2, <2>1, <2>2, <2>3, GotoTypeOK DEF applyRateLimit
    <2>4. CASE Goto(w, "unlock", "delay")
      BY <1>2, <2>1, <2>2, <2>4, GotoTypeOK DEF applyRateLimit
    <2>5. CASE Goto(w, "unlock", "nak")
      BY <1>2, <2>1, <2>2, <2>5, GotoTypeOK DEF applyRateLimit
    <2> QED BY <1>2, <2>3, <2>4, <2>5 DEF applyRateLimit
  <1>3. CASE Send(w)
    <2> PICK dr \in Outcomes :
               /\ calls' = calls \union {[msg |-> job[w].msg, attempt |-> job[w].attempt,
                                          accepted |-> dr.accepted]}
               /\ handleDeliveryResult(w, dr)
      BY <1>3 DEF Send
    <2>1. pc[w] \notin {"idle", "halted"} /\ keys' \subseteq Notifs /\ events' \subseteq Events
      BY <1>3 DEF Send, TypeOK
    <2>2. calls' \subseteq Calls
      <3>1. dr.accepted \in BOOLEAN
        BY DEF Outcomes
      <3> QED BY <2>1, <3>1, BusyJob DEF Calls, TypeOK
    <2>3. CASE Goto(w, "publish", "delivered")
      BY <1>3, <2>1, <2>2, <2>3, GotoTypeOK DEF Send
    <2>4. CASE Goto(w, "publish", "failed")
      BY <1>3, <2>1, <2>2, <2>4, GotoTypeOK DEF Send
    <2>5. CASE Goto(w, "unlock", "delay")
      BY <1>3, <2>1, <2>2, <2>5, GotoTypeOK DEF Send
    <2> QED BY <2>3, <2>4, <2>5 DEF handleDeliveryResult
  <1>4. CASE publishStatus(w)
    <2>1. pc[w] \notin {"idle", "halted"} /\ keys' \subseteq Notifs /\ calls' \subseteq Calls
      BY <1>4 DEF publishStatus, TypeOK
    <2>2. events' \subseteq Events
      <3>1. [msg |-> job[w].msg, attempt |-> job[w].attempt, status |-> verdict[w]] \in Events
        BY <1>4, BusyJob DEF publishStatus, TypeOK, Events
      <3> QED BY <1>4, <3>1 DEF publishStatus, TypeOK
    <2>3. CASE Goto(w, "unlock", "ack")
      BY <1>4, <2>1, <2>2, <2>3, GotoTypeOK DEF publishStatus
    <2>4. CASE Goto(w, "unlock", "nak")
      BY <1>4, <2>1, <2>2, <2>4, GotoTypeOK DEF publishStatus
    <2> QED BY <1>4, <2>3, <2>4 DEF publishStatus
  <1>5. CASE Unlock(w)
    <2>1. pc[w] \notin {"idle", "halted"} /\ verdict[w] \in {"ack", "nak", "delay"}
      BY <1>5 DEF Unlock, TypeOK
    <2>2. keys' \subseteq Notifs /\ calls' \subseteq Calls /\ events' \subseteq Events
      BY <1>5 DEF Unlock, TypeOK
    <2> QED BY <1>5, <2>1, <2>2, GotoTypeOK DEF Unlock
  <1>6. CASE processOne(w)
    <2>1. queue' \in [Msgs -> [st : QueueStatus, count : Nat]]
      <3>1. queue[job[w].msg] \in [st : QueueStatus, count : Nat]
        BY <1>6, BusyJob DEF processOne, TypeOK
      <3>2. verdict[w] \in {"ack", "nak", "delay"}
        BY <1>6 DEF processOne, TypeOK
      <3>3. Settled(queue[job[w].msg], verdict[w]) \in [st : QueueStatus, count : Nat]
        BY <3>1, <3>2, BrokerTypes DEF Settled
      <3> QED BY <1>6, <3>3 DEF processOne, TypeOK
    <2>2. job' \in [Workers -> Copies \union {NoJob}]
      BY <1>6 DEF processOne, TypeOK
    <2>3. \E s \in {"idle", "halted"} : Goto(w, s, "none")
      BY <1>6 DEF processOne
    <2>4. \A x \in Workers : pc'[x] \notin {"idle", "halted"} => job'[x] \in Copies
      BY <1>6, <2>3 DEF processOne, TypeOK, Goto
    <2> QED BY <1>6, <2>1, <2>2, <2>3, <2>4, GotoTypes DEF processOne, TypeOK
  <1>7. CASE Halt(w)
    BY <1>7 DEF Halt, TypeOK
  <1> QED BY <1>1, <1>2, <1>3, <1>4, <1>5, <1>6, <1>7 DEF WorkerStep

\* Clocks, stops and crashes keep the types.
LEMMA LifecycleTypeOK ==
  ASSUME TypeOK, (\E n \in Notifs : LockExpires(n)) \/ Stop \/ Restart \/ Crash
  PROVE  TypeOK'
  <1>1. CASE \E n \in Notifs : LockExpires(n)
    BY <1>1 DEF LockExpires, TypeOK
  <1>2. CASE Stop
    <2>1. queue' \in [Msgs -> [st : QueueStatus, count : Nat]]
      <3>1. \A m \in Msgs : Naked(queue[m]) \in [st : QueueStatus, count : Nat]
        BY BrokerTypes DEF TypeOK
      <3> QED BY <1>2, <3>1 DEF Stop, TypeOK
    <2> QED BY <1>2, <2>1 DEF Stop, TypeOK
  <1>3. CASE Fresh
    BY <1>3 DEF Fresh, TypeOK, Steps, Verdicts
  <1> QED BY <1>1, <1>2, <1>3 DEF Restart, Crash

\* Taking a copy from the channel keeps the types.
LEMMA TakeTypeOK ==
  ASSUME TypeOK, NEW w \in Workers, NEW c \in buffer, Take(w, c)
  PROVE  TypeOK'
  <1>1. c \in Copies
    BY DEF TypeOK
  <1>2. job' \in [Workers -> Copies \union {NoJob}]
    BY <1>1 DEF Take, TypeOK
  <1>3. \A x \in Workers : pc'[x] \notin {"idle", "halted"} => job'[x] \in Copies
    BY <1>1 DEF Take, TypeOK, Goto
  <1> QED BY <1>2, <1>3, GotoTypes DEF Take, TypeOK, Steps, Verdicts

\* Every step keeps the types.
LEMMA NextTypeOK == TypeOK /\ [Next]_vars => TypeOK'
  <1> SUFFICES ASSUME TypeOK, [Next]_vars PROVE TypeOK'
    OBVIOUS
  <1>1. CASE UNCHANGED vars
    BY <1>1 DEF vars, TypeOK
  <1>2. CASE Next
    BY <1>2, BrokerTypeOK, WorkerTypeOK, TakeTypeOK, LifecycleTypeOK DEF Next
  <1> QED BY <1>1, <1>2

\* The variables keep their types, whatever goes wrong: in particular a worker
\* that is about to publish has a status to publish, and one that is about to
\* settle has a message and knows how.
THEOREM TypeCorrect == Spec => []TypeOK
  BY InitTypeOK, NextTypeOK, PTL DEF Spec

\* The adverse conditions are chosen once.
LEMMA faultsKept ==
  ASSUME [Next]_vars
  PROVE  faults' = faults
  BY DEF Next, vars, Store, Broker, Fetch, AckWaitExpires, DelayElapses, WorkerStep,
         TryLock, applyRateLimit, Send, publishStatus, Unlock, processOne, Halt, Take,
         LockExpires, Stop, Restart, Crash, Fresh

-----------------------------------------------------------------------------
(***************************************************************************)
(* Mutual exclusion.  It is not inductive by itself: a worker could enter  *)
(* next to one whose key has vanished.  What is missing is that the key of *)
(* every worker in its section exists.                                     *)
(***************************************************************************)
LockHeld == \A w \in Workers, n \in Notifs : Holds(w, n) => n \in keys

ExclusionInv == TypeOK /\ LockHeld /\ MutualExclusion

\* The inductive invariant of every behaviour without expiring locks.
ExclusionIInv == "ttl" \notin faults => ExclusionInv

\* A worker comes into its section by taking a lock that was free.
LEMMA SectionEntry ==
  ASSUME TypeOK, [Next]_vars, NEW x \in Workers, NEW n \in Notifs, Holds(x, n)'
  PROVE  \/ Holds(x, n)
         \/ TryLock(x) /\ n \notin keys /\ keys' = keys \union {n}
  <1> USE DEF Holds, InSection
  <1>1. CASE UNCHANGED vars
    BY <1>1 DEF vars
  <1>2. CASE \E m \in Msgs : Store(m) \/ Broker(m)
    BY <1>2 DEF Store, Broker, Fetch, AckWaitExpires, DelayElapses
  <1>3. ASSUME NEW w \in Workers, WorkerStep(w)
        PROVE  \/ Holds(x, n)
               \/ TryLock(x) /\ n \notin keys /\ keys' = keys \union {n}
    <2>1. CASE TryLock(w)
      BY <2>1 DEF TryLock, Goto, TypeOK
    <2>2. CASE applyRateLimit(w)
      BY <2>2 DEF applyRateLimit, Goto, TypeOK
    <2>3. CASE Send(w)
      BY <2>3 DEF Send, handleDeliveryResult, Goto, TypeOK
    <2>4. CASE publishStatus(w)
      BY <2>4 DEF publishStatus, Goto, TypeOK
    <2>5. CASE Unlock(w)
      BY <2>5 DEF Unlock, Goto, TypeOK
    <2>6. CASE processOne(w)
      BY <2>6 DEF processOne, Goto, TypeOK
    <2>7. CASE Halt(w)
      BY <2>7 DEF Halt, TypeOK
    <2> QED BY <1>3, <2>1, <2>2, <2>3, <2>4, <2>5, <2>6, <2>7 DEF WorkerStep
  <1>4. ASSUME NEW w \in Workers, NEW c \in buffer, Take(w, c)
        PROVE Holds(x, n)
    BY <1>4 DEF Take, Goto, TypeOK
  <1>5. CASE (\E k \in Notifs : LockExpires(k)) \/ Stop
    BY <1>5 DEF LockExpires, Stop
  <1>6. CASE Restart \/ Crash
    BY <1>6 DEF Restart, Crash, Fresh
  <1> QED BY <1>1, <1>2, <1>3, <1>4, <1>5, <1>6 DEF Next

\* A key disappears when its holder unlocks or when its TTL is over.
LEMMA KeyRemoval ==
  ASSUME TypeOK, [Next]_vars, NEW n \in Notifs, n \in keys, n \notin keys'
  PROVE  (\E w \in Workers : Unlock(w) /\ Holds(w, n)) \/ LockExpires(n)
  <1> USE DEF Holds, InSection
  <1>1. CASE UNCHANGED vars
    BY <1>1 DEF vars
  <1>2. CASE \E m \in Msgs : Store(m) \/ Broker(m)
    BY <1>2 DEF Store, Broker, Fetch, AckWaitExpires, DelayElapses
  <1>3. ASSUME NEW w \in Workers, WorkerStep(w) PROVE Unlock(w) /\ Holds(w, n)
    BY <1>3 DEF WorkerStep, TryLock, applyRateLimit, Send, publishStatus, Unlock,
                processOne, Halt
  <1>4. ASSUME NEW w \in Workers, NEW c \in buffer PROVE ~ Take(w, c)
    BY DEF Take
  <1>5. CASE \E k \in Notifs : LockExpires(k)
    BY <1>5 DEF LockExpires
  <1>6. CASE Stop \/ Restart \/ Crash
    BY <1>6 DEF Stop, Restart, Crash, Fresh
  <1> QED BY <1>1, <1>2, <1>3, <1>4, <1>5, <1>6 DEF Next

\* While no worker outlives its lock, every step keeps the invariant.
LEMMA NextExclusionInv ==
  ASSUME "ttl" \notin faults, ExclusionInv, [Next]_vars
  PROVE  ExclusionInv'
  <1>1. TypeOK'
    BY NextTypeOK DEF ExclusionInv
  <1>2. ASSUME NEW x \in Workers, NEW n \in Notifs, Holds(x, n)' PROVE n \in keys'
    <2>1. CASE Holds(x, n)
      <3>1. n \in keys
        BY <2>1 DEF ExclusionInv, LockHeld
      <3>2. SUFFICES ASSUME n \notin keys' PROVE FALSE
        OBVIOUS
      <3>3. ~ LockExpires(n)
        BY <2>1 DEF LockExpires, Orphaned
      <3>4. PICK w \in Workers : Unlock(w) /\ Holds(w, n)
        BY <3>1, <3>2, <3>3, KeyRemoval DEF ExclusionInv
      <3>5. w = x
        BY <2>1, <3>4 DEF ExclusionInv, MutualExclusion
      <3> QED BY <1>2, <3>4, <3>5 DEF Unlock, Goto, Holds, InSection, ExclusionInv, TypeOK
    <2>2. CASE TryLock(x) /\ n \notin keys /\ keys' = keys \union {n}
      BY <2>2
    <2> QED BY <1>2, <2>1, <2>2, SectionEntry DEF ExclusionInv
  <1>3. ASSUME NEW v \in Workers, NEW w \in Workers, NEW n \in Notifs,
               Holds(v, n)', Holds(w, n)'
        PROVE  v = w
    <2>1. Holds(v, n) \/ (TryLock(v) /\ n \notin keys)
      BY <1>3, SectionEntry DEF ExclusionInv
    <2>2. Holds(w, n) \/ (TryLock(w) /\ n \notin keys)
      BY <1>3, SectionEntry DEF ExclusionInv
    <2>3. CASE Holds(v, n) /\ Holds(w, n)
      BY <2>3 DEF ExclusionInv, MutualExclusion
    <2>4. CASE TryLock(v) /\ TryLock(w)
      BY <1>3, <2>4 DEF TryLock, Goto, Holds, InSection, ExclusionInv, TypeOK
    <2> QED BY <2>1, <2>2, <2>3, <2>4 DEF ExclusionInv, LockHeld
  <1> QED BY <1>1, <1>2, <1>3 DEF ExclusionInv, LockHeld, MutualExclusion

\* At most one worker at a time is between TryLock and Unlock of one
\* notification, through crashes, stops, lost replies and redeliveries, as
\* long as none is slower than the lock's TTL.
THEOREM ExclusionTheorem == Spec => []MutualExclusion
  <1>1. Init => ExclusionIInv
    BY InitTypeOK DEF Init, ExclusionIInv, ExclusionInv, LockHeld, MutualExclusion, Holds,
                      InSection
  <1>2. ExclusionIInv /\ [Next]_vars => ExclusionIInv'
    BY NextExclusionInv, faultsKept DEF ExclusionIInv
  <1>3. ExclusionIInv => MutualExclusion
    BY DEF ExclusionIInv, ExclusionInv, MutualExclusion
  <1> QED BY <1>1, <1>2, <1>3, PTL DEF Spec
-----------------------------------------------------------------------------
(***************************************************************************)
(* A lock miss means a busy worker, as pipeline.go:64 says, when no key    *)
(* outlives its worker.                                                    *)
(***************************************************************************)
KeyHeld == \A n \in keys : \E w \in Workers : Holds(w, n)

MissInv == TypeOK /\ up /\ KeyHeld

NoKeyLeft == {"stop", "crash", "unlock", "reply"} \intersect faults = {}

\* The inductive invariant of every behaviour in which nobody leaves a key.
MissIInv == NoKeyLeft => MissInv

\* Every step keeps a worker behind every key.
LEMMA NextMissInv ==
  ASSUME NoKeyLeft, MissInv, [Next]_vars
  PROVE  MissInv'
  <1> USE DEF NoKeyLeft, MissInv, Holds, InSection
  <1>1. TypeOK'
    BY NextTypeOK
  <1>2. up' /\ ~ Stop /\ ~ Restart /\ ~ Crash
    BY DEF Next, vars, Store, Broker, Fetch, AckWaitExpires, DelayElapses,
           WorkerStep, TryLock, applyRateLimit, Send, publishStatus, Unlock, processOne,
           Halt, Take, LockExpires, Stop, Restart, Crash, Fresh
  <1>3. ASSUME UNCHANGED vars PROVE KeyHeld'
    BY <1>3 DEF vars, KeyHeld
  <1>4. ASSUME NEW m \in Msgs, Store(m) \/ Broker(m) PROVE KeyHeld'
    BY <1>4 DEF Store, Broker, Fetch, AckWaitExpires, DelayElapses, KeyHeld
  <1>5. ASSUME NEW w \in Workers, WorkerStep(w) PROVE KeyHeld'
    <2>1. CASE TryLock(w)
      BY <2>1 DEF TryLock, Goto, TypeOK, KeyHeld
    <2>2. CASE applyRateLimit(w)
      BY <2>2 DEF applyRateLimit, Goto, TypeOK, KeyHeld
    <2>3. CASE Send(w)
      BY <2>3 DEF Send, handleDeliveryResult, Goto, TypeOK, KeyHeld
    <2>4. CASE publishStatus(w)
      BY <2>4 DEF publishStatus, Goto, TypeOK, KeyHeld
    <2>5. CASE Unlock(w)
      BY <2>5 DEF Unlock, Goto, TypeOK, KeyHeld
    <2>6. CASE processOne(w)
      BY <2>6 DEF processOne, Goto, TypeOK, KeyHeld
    <2>7. CASE Halt(w)
      BY <2>7 DEF Halt
    <2> QED BY <1>5, <2>1, <2>2, <2>3, <2>4, <2>5, <2>6, <2>7 DEF WorkerStep
  <1>6. ASSUME NEW w \in Workers, NEW c \in buffer, Take(w, c) PROVE KeyHeld'
    BY <1>6 DEF Take, Goto, TypeOK, KeyHeld
  <1>7. ASSUME NEW n \in Notifs, LockExpires(n) PROVE KeyHeld'
    BY <1>7 DEF LockExpires, KeyHeld
  <1>8. KeyHeld'
    BY <1>2, <1>3, <1>4, <1>5, <1>6, <1>7 DEF Next
  <1> QED BY <1>1, <1>2, <1>8

\* The verdict "ack" is reached from TryLock only by a miss.
LEMMA MissStep ==
  ASSUME TypeOK, "reply" \notin faults, [Next]_vars,
         NEW w \in Workers, pc[w] = "lock", verdict'[w] = "ack"
  PROVE  NotifOf[job[w].msg] \in keys
  <1>1. verdict[w] = "none"
    BY DEF TypeOK
  <1>2. CASE \E x \in Workers : WorkerStep(x)
    BY <1>1, <1>2 DEF WorkerStep, TryLock, applyRateLimit, Send, handleDeliveryResult,
                      publishStatus, Unlock, processOne, Halt, Goto, TypeOK
  <1>3. CASE \E x \in Workers, c \in buffer : Take(x, c)
    BY <1>1, <1>3 DEF Take, Goto, TypeOK
  <1> QED BY <1>1, <1>2, <1>3 DEF Next, vars, Store, Broker, Fetch, AckWaitExpires,
                                  DelayElapses, LockExpires, Stop, Restart, Crash, Fresh

\* Whenever a message is acked for a lock miss, another worker is processing
\* its notification at that moment, if no key can be left behind.
THEOREM MissTheorem == Spec => MissMeansBusy
  <1>1. Init => MissIInv
    BY InitTypeOK DEF Init, MissIInv, MissInv, KeyHeld
  <1>2. MissIInv /\ [Next]_vars => MissIInv'
    BY NextMissInv, faultsKept DEF MissIInv, NoKeyLeft
  <1>3. MissIInv /\ [Next]_vars =>
          [{"stop", "crash", "unlock", "reply"} \intersect faults = {} => MissedBusy]_vars
    BY MissStep DEF MissIInv, NoKeyLeft, MissInv, KeyHeld, MissedBusy
  <1> QED BY <1>1, <1>2, <1>3, PTL DEF Spec, MissMeansBusy

-----------------------------------------------------------------------------
(***************************************************************************)
(* No notification is lost.  A lock miss acks a message without a report,  *)
(* so the proof has to find, for every missed message, another one that    *)
(* stays: the lock's holder works on a different message, because without  *)
(* a slow worker there is one live copy per message, or the holder died    *)
(* and its message waits for AckWait.                                      *)
(***************************************************************************)
Busy(w) == pc[w] \notin {"idle", "halted"}

\* No message is in the process twice, and one that is there is in flight.
SingleCopy ==
  /\ \A c, d \in buffer : c.msg = d.msg => c = d
  /\ \A c \in buffer, w \in Workers : Busy(w) => job[w].msg # c.msg
  /\ \A v, w \in Workers : Busy(v) /\ Busy(w) /\ job[v].msg = job[w].msg => v = w
  /\ \A m \in Msgs : Live(m) => queue[m].st = "inflight"

\* A delivery of m died with its process; AckWait will bring m back.
Orphan(m) == queue[m].st = "inflight" /\ ~ Live(m)

\* A lock key belongs to a worker or to the message of one that died.
KeyExplained ==
  \A n \in keys : (\E w \in Workers : Holds(w, n)) \/ (\E m \in MsgsOf(n) : Orphan(m))

\* In its section a worker decides to ack only after a report.
AckExplained ==
  \A w \in Workers :
    pc[w] = "unlock" /\ verdict[w] = "ack" => Reported(NotifOf[job[w].msg])

\* The next thing that happens to m is an ack.
Doomed(m) == \E w \in Workers : pc[w] = "settle" /\ verdict[w] = "ack" /\ job[w].msg = m

Survives(n) == Reported(n) \/ \E m \in MsgsOf(n) : Pending(m) /\ ~ Doomed(m)

AllSurvive ==
  \A n \in Notifs : (\E m \in MsgsOf(n) : queue[m].st # "none") => Survives(n)

NotLostInv ==
  TypeOK /\ up /\ SingleCopy /\ KeyExplained /\ AckExplained /\ AllSurvive

NoLosingFault == {"stop", "slow", "unlock", "reply"} \intersect faults = {}

\* The inductive invariant of every behaviour without these four conditions.
NotLostIInv == NoLosingFault => NotLostInv

LiveKept == \A m \in Msgs : Live(m)' <=> Live(m)

\* What survives stays, when messages stay stored and no new ack is due.
LEMMA SurvivalKept ==
  ASSUME AllSurvive, events \subseteq events',
         \A m \in Msgs : queue'[m].st # "none" => queue[m].st # "none",
         \A m \in Msgs : Pending(m) /\ ~ Doomed(m) => Pending(m)' /\ ~ Doomed(m)'
  PROVE  AllSurvive'
  BY DEF AllSurvive, Survives, MsgsOf, Reported

\* Who is about to ack a message has it in memory.
LEMMA DoomedIsLive ==
  ASSUME NEW m \in Msgs, Doomed(m)
  PROVE  Live(m)
  BY DEF Doomed, Live

\* The broker's and the clocks' steps keep the invariant.
LEMMA StoreNotLost ==
  ASSUME NotLostInv, NEW m \in Msgs, Store(m)
  PROVE  SingleCopy' /\ KeyExplained' /\ AckExplained' /\ AllSurvive'
  <1> USE DEF NotLostInv
  <1>1. /\ queue[m].st = "none" /\ queue'[m].st = "ready"
        /\ \A k \in Msgs \ {m} : queue'[k] = queue[k]
    BY DEF Store, Stored, TypeOK
  <1>2. LiveKept
    BY DEF Store, LiveKept, Live
  <1>3. SingleCopy'
    BY <1>1, <1>2 DEF Store, SingleCopy, LiveKept, Busy
  <1>4. KeyExplained'
    BY <1>1, <1>2 DEF Store, KeyExplained, Orphan, LiveKept, MsgsOf, Holds, InSection
  <1>5. AckExplained'
    BY DEF Store, AckExplained, Reported
  <1>6. ~ Live(m)
    BY <1>1 DEF SingleCopy
  <1>7. \A k \in Msgs : Doomed(k)' <=> Doomed(k)
    BY DEF Store, Doomed
  <1>8. Pending(m)' /\ ~ Doomed(m)'
    BY <1>1, <1>6, <1>7, DoomedIsLive DEF Pending
  <1>9. AllSurvive'
    BY <1>1, <1>7, <1>8 DEF Store, AllSurvive, Survives, Pending, MsgsOf, Reported
  <1> QED BY <1>3, <1>4, <1>5, <1>9

LEMMA FetchNotLost ==
  ASSUME NotLostInv, NEW m \in Msgs, Fetch(m)
  PROVE  SingleCopy' /\ KeyExplained' /\ AckExplained' /\ AllSurvive'
  <1> USE DEF NotLostInv
  <1> DEFINE c == [msg |-> m, attempt |-> queue'[m].count]
  <1>1. /\ queue[m].st = "ready" /\ queue'[m].st = "inflight"
        /\ \A k \in Msgs \ {m} : queue'[k] = queue[k]
        /\ buffer' = buffer \union {c} /\ c.msg = m
    BY DEF Fetch, Deliverable, Delivered, TypeOK
  <1>2. ~ Live(m)
    BY <1>1 DEF SingleCopy
  <1> HIDE DEF c
  <1>3. \A k \in Msgs : Live(k)' <=> Live(k) \/ k = m
    BY <1>1 DEF Fetch, Live
  <1>4. SingleCopy'
    <2>1. \A a, b \in buffer' : a.msg = b.msg => a = b
      BY <1>1, <1>2 DEF SingleCopy, Live
    <2>2. \A a \in buffer', w \in Workers : Busy(w)' => job'[w].msg # a.msg
      BY <1>1, <1>2 DEF SingleCopy, Live, Busy, Fetch
    <2>3. \A k \in Msgs : Live(k)' => queue'[k].st = "inflight"
      BY <1>1, <1>3 DEF SingleCopy
    <2> QED BY <2>1, <2>2, <2>3 DEF SingleCopy, Fetch, Busy
  <1>5. KeyExplained'
    BY <1>1, <1>3 DEF Fetch, KeyExplained, Orphan, MsgsOf, Holds, InSection
  <1>6. AckExplained'
    BY DEF Fetch, AckExplained, Reported
  <1>7. \A k \in Msgs : Doomed(k)' <=> Doomed(k)
    BY DEF Fetch, Doomed
  <1>8. AllSurvive'
    BY <1>1, <1>7, SurvivalKept DEF Fetch, Pending
  <1> QED BY <1>4, <1>5, <1>6, <1>8

LEMMA AckWaitNotLost ==
  ASSUME NotLostInv, "slow" \notin faults, NEW m \in Msgs, AckWaitExpires(m)
  PROVE  SingleCopy' /\ KeyExplained' /\ AckExplained' /\ AllSurvive'
  <1> USE DEF NotLostInv
  <1>1. /\ queue[m].st = "inflight" /\ queue'[m].st = "ready"
        /\ \A k \in Msgs \ {m} : queue'[k] = queue[k]
        /\ ~ Live(m) /\ ~ Orphaned(NotifOf[m])
    BY DEF AckWaitExpires, TimedOut, TypeOK
  <1>2. LiveKept
    BY DEF AckWaitExpires, LiveKept, Live
  <1>3. SingleCopy'
    BY <1>1, <1>2 DEF AckWaitExpires, SingleCopy, LiveKept, Busy
  <1>4. KeyExplained'
    BY <1>1, <1>2 DEF AckWaitExpires, KeyExplained, Orphan, Orphaned, LiveKept, MsgsOf,
                      Holds, InSection
  <1>5. AckExplained'
    BY DEF AckWaitExpires, AckExplained, Reported
  <1>6. \A k \in Msgs : Doomed(k)' <=> Doomed(k)
    BY DEF AckWaitExpires, Doomed
  <1>7. AllSurvive'
    BY <1>1, <1>6, SurvivalKept DEF AckWaitExpires, Pending
  <1> QED BY <1>3, <1>4, <1>5, <1>7

LEMMA DelayNotLost ==
  ASSUME NotLostInv, NEW m \in Msgs, DelayElapses(m)
  PROVE  SingleCopy' /\ KeyExplained' /\ AckExplained' /\ AllSurvive'
  <1> USE DEF NotLostInv
  <1>1. /\ queue[m].st = "delayed" /\ queue'[m].st = "ready"
        /\ \A k \in Msgs \ {m} : queue'[k] = queue[k]
    BY DEF DelayElapses, TimedOut, TypeOK
  <1>2. LiveKept
    BY DEF DelayElapses, LiveKept, Live
  <1>3. SingleCopy'
    BY <1>1, <1>2 DEF DelayElapses, SingleCopy, LiveKept, Busy
  <1>4. KeyExplained'
    BY <1>1, <1>2 DEF DelayElapses, KeyExplained, Orphan, LiveKept, MsgsOf, Holds, InSection
  <1>5. AckExplained'
    BY DEF DelayElapses, AckExplained, Reported
  <1>6. \A k \in Msgs : Doomed(k)' <=> Doomed(k)
    BY DEF DelayElapses, Doomed
  <1>7. AllSurvive'
    BY <1>1, <1>6, SurvivalKept DEF DelayElapses, Pending
  <1> QED BY <1>3, <1>4, <1>5, <1>7

LEMMA TakeNotLost ==
  ASSUME NotLostInv, NEW w \in Workers, NEW c \in buffer, Take(w, c)
  PROVE  SingleCopy' /\ KeyExplained' /\ AckExplained' /\ AllSurvive'
  <1> USE DEF NotLostInv
  <1>1. /\ c \in Copies /\ buffer' = buffer \ {c}
        /\ ~ Busy(w) /\ Busy(w)' /\ job'[w] = c
        /\ \A x \in Workers \ {w} : job'[x] = job[x] /\ (Busy(x)' <=> Busy(x))
    BY DEF Take, Goto, TypeOK, Busy
  <1>2. \A k \in Msgs : Live(k)' <=> Live(k)
    BY <1>1 DEF SingleCopy, Live, Busy, TypeOK
  <1>3. SingleCopy'
    BY <1>1, <1>2 DEF Take, SingleCopy
  <1>4. \A x \in Workers, n \in Notifs : Holds(x, n) => Holds(x, n)'
    BY DEF Take, Goto, TypeOK, Holds, InSection
  <1>5. KeyExplained'
    BY <1>2, <1>4 DEF Take, KeyExplained, Orphan, MsgsOf, TypeOK
  <1>6. AckExplained'
    BY DEF Take, Goto, AckExplained, Reported, TypeOK
  <1>7. \A k \in Msgs : Doomed(k)' => Doomed(k)
    BY DEF Take, Goto, Doomed, TypeOK
  <1>8. AllSurvive'
    BY <1>7, SurvivalKept DEF Take, Pending
  <1> QED BY <1>3, <1>5, <1>6, <1>8

\* A step within Run moves one worker and no copy of any message.
LEMMA RunStep ==
  ASSUME NotLostInv, NEW w \in Workers, NEW s \in Steps, NEW v, Goto(w, s, v),
         Busy(w), s \notin {"idle", "halted"}, UNCHANGED <<queue, buffer, up, job>>
  PROVE  /\ SingleCopy'
         /\ LiveKept
         /\ pc'[w] = s /\ verdict'[w] = v
         /\ \A x \in Workers \ {w} : pc'[x] = pc[x] /\ verdict'[x] = verdict[x]
         /\ \A x \in Workers \ {w}, n \in Notifs : Holds(x, n)' <=> Holds(x, n)
         /\ \A m \in Msgs : Pending(m)' <=> Pending(m)
         /\ \A m \in Msgs : Orphan(m)' <=> Orphan(m)
         /\ \A m \in Msgs :
              Doomed(m)' => Doomed(m) \/ (s = "settle" /\ v = "ack" /\ m = job[w].msg)
  <1> USE DEF NotLostInv
  <1>1. /\ pc'[w] = s /\ verdict'[w] = v
        /\ \A x \in Workers \ {w} : pc'[x] = pc[x] /\ verdict'[x] = verdict[x]
        /\ \A x \in Workers : Busy(x)' <=> Busy(x)
    BY DEF Goto, TypeOK, Busy
  <1>2. LiveKept
    BY <1>1 DEF LiveKept, Live, Busy
  <1>3. SingleCopy'
    BY <1>1, <1>2 DEF SingleCopy, LiveKept
  <1>4. \A x \in Workers \ {w}, n \in Notifs : Holds(x, n)' <=> Holds(x, n)
    BY <1>1 DEF Holds, InSection
  <1>5. \A m \in Msgs : (Pending(m)' <=> Pending(m)) /\ (Orphan(m)' <=> Orphan(m))
    BY <1>2 DEF Pending, Orphan, LiveKept
  <1>6. \A m \in Msgs :
          Doomed(m)' => Doomed(m) \/ (s = "settle" /\ v = "ack" /\ m = job[w].msg)
    BY <1>1 DEF Doomed
  <1> QED BY <1>1, <1>2, <1>3, <1>4, <1>5, <1>6

\* A miss dooms its message, and leaves another one of the notification.
LEMMA MissLeavesAnother ==
  ASSUME NotLostInv, NEW w \in Workers, pc[w] = "lock", NotifOf[job[w].msg] \in keys
  PROVE  \E m \in MsgsOf(NotifOf[job[w].msg]) :
            m # job[w].msg /\ Pending(m) /\ ~ Doomed(m)
  <1> USE DEF NotLostInv
  <1> DEFINE n == NotifOf[job[w].msg]
  <1>1. Busy(w) /\ Live(job[w].msg) /\ job[w].msg \in Msgs /\ n \in Notifs
    BY BusyJob DEF Busy, Live
  <1>2. CASE \E x \in Workers : Holds(x, n)
    <2>1. PICK x \in Workers : Holds(x, n)
      BY <1>2
    <2>2. x # w /\ Busy(x) /\ pc[x] # "settle"
      BY <2>1 DEF Holds, InSection, Busy
    <2>3. /\ job[x].msg \in MsgsOf(n) /\ job[x].msg # job[w].msg
          /\ queue[job[x].msg].st = "inflight"
      BY <1>1, <2>1, <2>2, BusyJob DEF SingleCopy, MsgsOf, Holds, Busy, Live
    <2>4. ~ Doomed(job[x].msg)
      BY <2>2 DEF SingleCopy, Doomed, Busy
    <2> QED BY <2>3, <2>4 DEF Pending
  <1>3. CASE \E m \in MsgsOf(n) : Orphan(m)
    BY <1>1, <1>3, DoomedIsLive DEF Orphan, Pending, MsgsOf
  <1> QED BY <1>2, <1>3 DEF KeyExplained

LEMMA TryLockNotLost ==
  ASSUME NotLostInv, "reply" \notin faults, NEW w \in Workers, TryLock(w)
  PROVE  SingleCopy' /\ KeyExplained' /\ AckExplained' /\ AllSurvive'
  <1> USE DEF NotLostInv
  <1> PICK n \in Notifs : n = NotifOf[job[w].msg]
    BY BusyJob DEF TryLock
  <1>1. /\ Busy(w) /\ pc[w] = "lock" /\ ~ InSection(w)
        /\ UNCHANGED <<queue, buffer, up, job, events>>
    BY DEF TryLock, Busy, InSection
  <1>2. CASE n \notin keys /\ keys' = keys \union {n} /\ Goto(w, "limit", "none")
    <2>1. /\ SingleCopy' /\ Holds(w, n)'
          /\ \A m \in Msgs : Orphan(m)' <=> Orphan(m)
          /\ \A x \in Workers, k \in Notifs : Holds(x, k) => Holds(x, k)'
          /\ \A m \in Msgs : Pending(m) /\ ~ Doomed(m) => Pending(m)' /\ ~ Doomed(m)'
          /\ pc'[w] = "limit"
          /\ \A x \in Workers \ {w} : pc'[x] = pc[x] /\ verdict'[x] = verdict[x]
      BY <1>1, <1>2, RunStep DEF Steps, Holds, InSection
    <2>2. ASSUME NEW k \in keys'
          PROVE  (\E x \in Workers : Holds(x, k)') \/ (\E m \in MsgsOf(k) : Orphan(m)')
      <3>1. CASE k = n
        BY <2>1, <3>1
      <3>2. CASE k # n
        <4>1. k \in keys /\ k \in Notifs
          BY <1>2, <2>2, <3>2 DEF TypeOK
        <4> QED BY <2>1, <4>1 DEF KeyExplained, MsgsOf
      <3> QED BY <3>1, <3>2
    <2>3. AckExplained'
      BY <1>1, <2>1 DEF AckExplained, Reported
    <2> QED BY <1>1, <2>1, <2>2, <2>3, SurvivalKept DEF KeyExplained, MsgsOf
  <1>3. CASE Goto(w, "settle", "ack") /\ n \in keys /\ UNCHANGED keys
    <2>1. /\ SingleCopy'
          /\ \A m \in Msgs : Orphan(m)' <=> Orphan(m)
          /\ \A x \in Workers, k \in Notifs : Holds(x, k) => Holds(x, k)'
          /\ \A m \in Msgs : Pending(m)' <=> Pending(m)
          /\ \A m \in Msgs : Doomed(m)' => Doomed(m) \/ m = job[w].msg
          /\ pc'[w] = "settle"
          /\ \A x \in Workers \ {w} : pc'[x] = pc[x] /\ verdict'[x] = verdict[x]
      BY <1>1, <1>3, RunStep DEF Steps, Holds
    <2>2. KeyExplained'
      BY <1>3, <2>1 DEF KeyExplained, MsgsOf, TypeOK
    <2>3. AckExplained'
      BY <1>1, <2>1 DEF AckExplained, Reported
    <2>4. ASSUME NEW k \in Notifs, \E m \in MsgsOf(k) : queue'[m].st # "none"
          PROVE  Survives(k)'
      <3>1. CASE k = n
        BY <1>1, <1>3, <2>1, <3>1, MissLeavesAnother DEF Survives, MsgsOf
      <3>2. CASE k # n
        BY <1>1, <2>1, <2>4, <3>2 DEF AllSurvive, Survives, MsgsOf, Reported
      <3> QED BY <3>1, <3>2
    <2> QED BY <2>1, <2>2, <2>3, <2>4 DEF AllSurvive, MsgsOf
  <1>4. CASE Goto(w, "settle", "nak") /\ UNCHANGED keys
    <2>1. /\ SingleCopy'
          /\ \A m \in Msgs : Orphan(m)' <=> Orphan(m)
          /\ \A x \in Workers, k \in Notifs : Holds(x, k) => Holds(x, k)'
          /\ \A m \in Msgs : Pending(m) /\ ~ Doomed(m) => Pending(m)' /\ ~ Doomed(m)'
          /\ pc'[w] = "settle"
          /\ \A x \in Workers \ {w} : pc'[x] = pc[x] /\ verdict'[x] = verdict[x]
      BY <1>1, <1>4, RunStep DEF Steps, Holds
    <2>2. KeyExplained'
      BY <1>4, <2>1 DEF KeyExplained, MsgsOf, TypeOK
    <2>3. AckExplained'
      BY <1>1, <2>1 DEF AckExplained, Reported
    <2> QED BY <1>1, <2>1, <2>2, <2>3, SurvivalKept
  <1> QED BY <1>2, <1>3, <1>4 DEF TryLock

LEMMA RateLimitNotLost ==
  ASSUME NotLostInv, NEW w \in Workers, applyRateLimit(w)
  PROVE  SingleCopy' /\ KeyExplained' /\ AckExplained' /\ AllSurvive'
  <1> USE DEF NotLostInv
  <1>1. /\ Busy(w) /\ pc[w] = "limit"
        /\ UNCHANGED <<queue, buffer, up, job, keys, events>>
        /\ \/ Goto(w, "send", "none")
           \/ Goto(w, "unlock", "delay")
           \/ Goto(w, "unlock", "nak")
    BY DEF applyRateLimit, Busy
  <1>2. /\ SingleCopy' /\ verdict'[w] # "ack" /\ pc'[w] \in {"send", "unlock"}
        /\ \A m \in Msgs : Orphan(m)' <=> Orphan(m)
        /\ \A m \in Msgs : Pending(m) /\ ~ Doomed(m) => Pending(m)' /\ ~ Doomed(m)'
        /\ \A x \in Workers \ {w} : pc'[x] = pc[x] /\ verdict'[x] = verdict[x]
    BY <1>1, RunStep DEF Steps
  <1>3. KeyExplained'
    BY <1>1, <1>2 DEF KeyExplained, MsgsOf, Holds, InSection, TypeOK
  <1>4. AckExplained'
    BY <1>1, <1>2 DEF AckExplained, Reported
  <1> QED BY <1>1, <1>2, <1>3, <1>4, SurvivalKept

LEMMA SendNotLost ==
  ASSUME NotLostInv, NEW w \in Workers, Send(w)
  PROVE  SingleCopy' /\ KeyExplained' /\ AckExplained' /\ AllSurvive'
  <1> USE DEF NotLostInv
  <1>1. /\ Busy(w) /\ pc[w] = "send"
        /\ UNCHANGED <<queue, buffer, up, job, keys, events>>
        /\ \/ Goto(w, "publish", "delivered")
           \/ Goto(w, "publish", "failed")
           \/ Goto(w, "unlock", "delay")
    BY DEF Send, handleDeliveryResult, Busy
  <1>2. /\ SingleCopy' /\ verdict'[w] # "ack" /\ pc'[w] \in {"publish", "unlock"}
        /\ \A m \in Msgs : Orphan(m)' <=> Orphan(m)
        /\ \A m \in Msgs : Pending(m) /\ ~ Doomed(m) => Pending(m)' /\ ~ Doomed(m)'
        /\ \A x \in Workers \ {w} : pc'[x] = pc[x] /\ verdict'[x] = verdict[x]
    BY <1>1, RunStep DEF Steps
  <1>3. KeyExplained'
    BY <1>1, <1>2 DEF KeyExplained, MsgsOf, Holds, InSection, TypeOK
  <1>4. AckExplained'
    BY <1>1, <1>2 DEF AckExplained, Reported
  <1> QED BY <1>1, <1>2, <1>3, <1>4, SurvivalKept

LEMMA PublishNotLost ==
  ASSUME NotLostInv, NEW w \in Workers, publishStatus(w)
  PROVE  SingleCopy' /\ KeyExplained' /\ AckExplained' /\ AllSurvive'
  <1> USE DEF NotLostInv
  <1> DEFINE e == [msg |-> job[w].msg, attempt |-> job[w].attempt, status |-> verdict[w]]
  <1>1. /\ Busy(w) /\ pc[w] = "publish"
        /\ UNCHANGED <<queue, buffer, up, job, keys>>
        /\ events \subseteq events'
        /\ \/ Goto(w, "unlock", "ack") /\ events' = events \union {e}
           \/ Goto(w, "unlock", "nak")
    BY DEF publishStatus, Busy
  <1>2. /\ SingleCopy' /\ pc'[w] = "unlock"
        /\ verdict'[w] = "ack" => events' = events \union {e}
        /\ \A m \in Msgs : Orphan(m)' <=> Orphan(m)
        /\ \A m \in Msgs : Pending(m) /\ ~ Doomed(m) => Pending(m)' /\ ~ Doomed(m)'
        /\ \A x \in Workers \ {w} : pc'[x] = pc[x] /\ verdict'[x] = verdict[x]
    BY <1>1, RunStep DEF Steps
  <1>3. KeyExplained'
    BY <1>1, <1>2 DEF KeyExplained, MsgsOf, Holds, InSection, TypeOK
  <1>4. AckExplained'
    <2>1. e.msg = job[w].msg
      OBVIOUS
    <2> QED BY <1>1, <1>2, <2>1 DEF AckExplained, Reported
  <1> QED BY <1>1, <1>2, <1>3, <1>4, SurvivalKept

LEMMA UnlockNotLost ==
  ASSUME NotLostInv, "unlock" \notin faults, NEW w \in Workers, Unlock(w)
  PROVE  SingleCopy' /\ KeyExplained' /\ AckExplained' /\ AllSurvive'
  <1> USE DEF NotLostInv
  <1> PICK n \in Notifs : n = NotifOf[job[w].msg]
    BY BusyJob DEF Unlock
  <1>1. /\ Busy(w) /\ pc[w] = "unlock" /\ keys' = keys \ {n}
        /\ UNCHANGED <<queue, buffer, up, job, events>>
        /\ Goto(w, "settle", verdict[w])
    BY DEF Unlock, Busy
  <1>2. /\ SingleCopy' /\ pc'[w] = "settle" /\ verdict'[w] = verdict[w]
        /\ \A m \in Msgs : Orphan(m)' <=> Orphan(m)
        /\ \A m \in Msgs : Pending(m)' <=> Pending(m)
        /\ \A m \in Msgs :
              Doomed(m)' => Doomed(m) \/ (verdict[w] = "ack" /\ m = job[w].msg)
        /\ \A x \in Workers \ {w} : pc'[x] = pc[x] /\ verdict'[x] = verdict[x]
    BY <1>1, RunStep DEF Steps, TypeOK
  <1>3. KeyExplained'
    BY <1>1, <1>2 DEF KeyExplained, MsgsOf, Holds, InSection, TypeOK
  <1>4. AckExplained'
    BY <1>1, <1>2 DEF AckExplained, Reported
  <1>5. verdict[w] = "ack" => Reported(n)
    BY <1>1 DEF AckExplained
  <1>6. AllSurvive'
    BY <1>1, <1>2, <1>5 DEF AllSurvive, Survives, MsgsOf, Reported
  <1> QED BY <1>2, <1>3, <1>4, <1>6

LEMMA ProcessOneNotLost ==
  ASSUME NotLostInv, NEW w \in Workers, processOne(w)
  PROVE  SingleCopy' /\ KeyExplained' /\ AckExplained' /\ AllSurvive'
  <1> USE DEF NotLostInv
  <1> PICK m \in Msgs : m = job[w].msg
    BY BusyJob DEF processOne
  <1>1. /\ Busy(w) /\ pc[w] = "settle" /\ Live(m)
        /\ UNCHANGED <<buffer, up, keys, events>>
        /\ queue[m].st = "inflight"
    BY DEF processOne, Busy, Live, SingleCopy
  <1>2. /\ pc'[w] = "idle" /\ ~ Busy(w)'
        /\ \A x \in Workers \ {w} :
              /\ pc'[x] = pc[x] /\ verdict'[x] = verdict[x] /\ job'[x] = job[x]
              /\ Busy(x)' <=> Busy(x)
    BY DEF processOne, Goto, TypeOK, Busy
  <1>3. \A k \in Msgs \ {m} : queue'[k] = queue[k]
    BY DEF processOne, TypeOK
  <1>4. /\ queue'[m].st # "none"
        /\ verdict[w] # "ack" => queue'[m].st \in {"ready", "inflight", "delayed"}
    <2>1. CASE queue' = [queue EXCEPT ![m] = Settled(@, verdict[w])]
      BY <1>1, <2>1 DEF Settled, Acked, Naked, NakedWithDelay, TypeOK
    <2>2. CASE UNCHANGED queue
      BY <1>1, <2>2
    <2> QED BY <2>1, <2>2 DEF processOne
  <1>5. \A k \in Msgs : Live(k)' <=> Live(k) /\ k # m
    <2>1. ~ Live(m)'
      BY <1>1, <1>2 DEF SingleCopy, Live, Busy
    <2>2. \A k \in Msgs \ {m} : Live(k)' <=> Live(k)
      BY <1>1, <1>2 DEF Live, Busy
    <2> QED BY <2>1, <2>2
  <1>6. SingleCopy'
    BY <1>1, <1>2, <1>3, <1>5 DEF SingleCopy
  <1>7. KeyExplained'
    <2>1. \A x \in Workers, n \in Notifs : Holds(x, n) => Holds(x, n)'
      BY <1>1, <1>2 DEF Holds, InSection
    <2>2. \A k \in Msgs : Orphan(k) => Orphan(k)'
      BY <1>1, <1>3, <1>5 DEF Orphan
    <2> QED BY <1>1, <2>1, <2>2 DEF KeyExplained, MsgsOf, TypeOK
  <1>8. AckExplained'
    BY <1>1, <1>2 DEF AckExplained, Reported
  <1>9. ASSUME NEW k \in Msgs, Pending(k), ~ Doomed(k) PROVE Pending(k)' /\ ~ Doomed(k)'
    <2>1. ~ Doomed(k)'
      BY <1>2, <1>9 DEF Doomed
    <2>2. Pending(k)'
      BY <1>1, <1>3, <1>4, <1>9 DEF Pending, Doomed
    <2> QED BY <2>1, <2>2
  <1>10. AllSurvive'
    BY <1>1, <1>3, <1>9, SurvivalKept
  <1> QED BY <1>6, <1>7, <1>8, <1>10

\* A crash turns every live copy into an orphan, and every key with it.
LEMMA CrashNotLost ==
  ASSUME NotLostInv, Crash
  PROVE  SingleCopy' /\ KeyExplained' /\ AckExplained' /\ AllSurvive'
  <1> USE DEF NotLostInv
  <1>1. /\ \A x \in Workers : pc'[x] = "idle" /\ ~ Busy(x)'
        /\ UNCHANGED <<queue, keys, events>>
    BY DEF Crash, Fresh, Busy
  <1>2. \A m \in Msgs : ~ Live(m)' /\ ~ Doomed(m)'
    BY <1>1 DEF Crash, Fresh, Live, Doomed
  <1>3. SingleCopy'
    BY <1>1, <1>2 DEF Crash, Fresh, SingleCopy
  <1>4. ASSUME NEW n \in keys PROVE \E m \in MsgsOf(n) : Orphan(m)'
    <2>1. CASE \E x \in Workers : Holds(x, n)
      <3>1. PICK x \in Workers : Holds(x, n)
        BY <2>1
      <3>2. job[x].msg \in MsgsOf(n) /\ queue[job[x].msg].st = "inflight"
        BY <3>1, BusyJob DEF SingleCopy, Live, Holds, InSection, MsgsOf
      <3> QED BY <1>1, <1>2, <3>2 DEF Orphan, MsgsOf
    <2>2. CASE \E m \in MsgsOf(n) : Orphan(m)
      BY <1>1, <1>2, <2>2 DEF Orphan, MsgsOf
    <2> QED BY <2>1, <2>2 DEF KeyExplained
  <1>5. KeyExplained'
    BY <1>1, <1>4 DEF KeyExplained, MsgsOf
  <1>6. AckExplained'
    BY <1>1 DEF AckExplained
  <1>7. AllSurvive'
    BY <1>1, <1>2, SurvivalKept DEF Pending
  <1> QED BY <1>3, <1>5, <1>6, <1>7

LEMMA LockExpiresNotLost ==
  ASSUME NotLostInv, NEW n \in Notifs, LockExpires(n)
  PROVE  SingleCopy' /\ KeyExplained' /\ AckExplained' /\ AllSurvive'
  <1> USE DEF NotLostInv, LockExpires
  <1>1. LiveKept /\ SingleCopy'
    BY DEF LiveKept, Live, SingleCopy, Busy
  <1>2. KeyExplained'
    BY <1>1 DEF KeyExplained, Orphan, LiveKept, MsgsOf, Holds, InSection
  <1>3. AckExplained'
    BY DEF AckExplained, Reported
  <1>4. \A m \in Msgs : (Doomed(m)' <=> Doomed(m)) /\ (Pending(m)' <=> Pending(m))
    BY DEF Doomed, Pending
  <1>5. AllSurvive'
    BY <1>4, SurvivalKept
  <1> QED BY <1>1, <1>2, <1>3, <1>5

\* Every step keeps the invariant under the conditions the theorem allows.
LEMMA NextNotLost ==
  ASSUME NoLosingFault, NotLostInv, [Next]_vars
  PROVE  NotLostInv'
  <1> USE DEF NoLosingFault
  <1>1. TypeOK'
    BY NextTypeOK DEF NotLostInv
  <1>2. up'
    BY DEF NotLostInv, Next, vars, Store, Broker, Fetch, AckWaitExpires, DelayElapses,
           WorkerStep, TryLock, applyRateLimit, Send, publishStatus, Unlock, processOne,
           Halt, Take, LockExpires, Stop, Restart, Crash, Fresh
  <1>3. SingleCopy' /\ KeyExplained' /\ AckExplained' /\ AllSurvive'
    <2>1. CASE UNCHANGED vars
      BY <2>1 DEF vars, NotLostInv, SingleCopy, Busy, Live, KeyExplained, Holds, InSection,
                  Orphan, MsgsOf, AckExplained, Reported, AllSurvive, Survives, Pending, Doomed
    <2>2. ASSUME NEW m \in Msgs, Store(m) \/ Broker(m)
          PROVE  SingleCopy' /\ KeyExplained' /\ AckExplained' /\ AllSurvive'
      BY <2>2, StoreNotLost, FetchNotLost, AckWaitNotLost, DelayNotLost DEF Broker
    <2>3. ASSUME NEW w \in Workers, WorkerStep(w)
          PROVE  SingleCopy' /\ KeyExplained' /\ AckExplained' /\ AllSurvive'
      <3>1. ~ Halt(w)
        BY DEF Halt, NotLostInv
      <3> QED BY <2>3, <3>1, TryLockNotLost, RateLimitNotLost, SendNotLost, PublishNotLost,
                 UnlockNotLost, ProcessOneNotLost DEF WorkerStep
    <2>4. ~ Stop /\ ~ Restart
      BY DEF Stop, Restart, NotLostInv
    <2> QED BY <2>1, <2>2, <2>3, <2>4, TakeNotLost, LockExpiresNotLost, CrashNotLost DEF Next
  <1> QED BY <1>1, <1>2, <1>3 DEF NotLostInv

\* Through crashes, lost acks, failed calls, failed publishes and locks that
\* expire too early, a notification whose last message has left the queue has
\* been reported.  The four conditions excluded are the ones that really lose
\* notifications: each leaves a lock key behind that nobody works under, or
\* two live copies of one message.
THEOREM NotLostTheorem == Spec => []NotificationNotLost
  <1>1. Init => NotLostIInv
    BY InitTypeOK DEF Init, NotLostIInv, NotLostInv, SingleCopy, Busy, Live, KeyExplained,
                      AckExplained, AllSurvive, Survives, MsgsOf, Unpublished
  <1>2. NotLostIInv /\ [Next]_vars => NotLostIInv'
    BY NextNotLost, faultsKept DEF NotLostIInv, NoLosingFault
  <1>3. NotLostIInv => NotificationNotLost
    BY DEF NotLostIInv, NoLosingFault, NotLostInv, AllSurvive, Survives, NotificationNotLost
  <1> QED BY <1>1, <1>2, <1>3, PTL DEF Spec

-----------------------------------------------------------------------------
(***************************************************************************)
(* One delivery at a time.  Without a slow worker the copies of a message  *)
(* follow one another, also when the process stops or dies, so that what   *)
(* one of them has done is known before the next one is made.              *)
(***************************************************************************)

\* Nobody but itself, and the end of the process, moves a worker.
LEMMA WorkerAlone ==
  ASSUME TypeOK, [Next]_vars, NEW w \in Workers, ~ Restart, ~ Crash, ~ WorkerStep(w),
         \A c \in buffer : ~ Take(w, c)
  PROVE  pc'[w] = pc[w] /\ job'[w] = job[w] /\ verdict'[w] = verdict[w]
  <1>1. ASSUME NEW x \in Workers, WorkerStep(x), x # w
        PROVE  pc'[w] = pc[w] /\ job'[w] = job[w] /\ verdict'[w] = verdict[w]
    BY <1>1 DEF TypeOK, WorkerStep, TryLock, applyRateLimit, Send, handleDeliveryResult,
                publishStatus, Unlock, processOne, Halt, Goto
  <1>2. ASSUME NEW x \in Workers, NEW c \in buffer, Take(x, c), x # w
        PROVE  pc'[w] = pc[w] /\ job'[w] = job[w] /\ verdict'[w] = verdict[w]
    BY <1>2 DEF TypeOK, Take, Goto
  <1>3. CASE UNCHANGED <<pc, job, verdict>>
    BY <1>3
  <1> QED BY <1>1, <1>2, <1>3
       DEF Next, vars, Store, Broker, Fetch, AckWaitExpires, DelayElapses, LockExpires, Stop

\* Before it settles its message a worker keeps it.
LEMMA RunKeepsJob ==
  ASSUME TypeOK, NEW w \in Workers, WorkerStep(w), ~ processOne(w), ~ Halt(w)
  PROVE  /\ UNCHANGED <<queue, buffer, up, job>>
         /\ Busy(w) /\ Busy(w)'
         /\ \A x \in Workers \ {w} : pc'[x] = pc[x] /\ verdict'[x] = verdict[x]
  BY DEF TypeOK, WorkerStep, TryLock, applyRateLimit, Send, handleDeliveryResult,
         publishStatus, Unlock, Goto, Busy

\* No message ever gets a second copy while no copy is kept past AckWait.
LEMMA NextSingleCopy ==
  ASSUME TypeOK, SingleCopy, "slow" \notin faults, [Next]_vars
  PROVE  SingleCopy'
  <1>0. \A m \in Msgs : queue[m] \in [st : QueueStatus, count : Nat]
    BY DEF TypeOK
  <1>1. ASSUME NEW m \in Msgs, Store(m) \/ AckWaitExpires(m) \/ DelayElapses(m) PROVE SingleCopy'
    <2>1. UNCHANGED <<buffer, pc, job>> /\ \A k \in Msgs \ {m} : queue'[k] = queue[k]
      BY <1>1 DEF Store, AckWaitExpires, DelayElapses, TypeOK
    <2>2. ~ Live(m)
      BY <1>1 DEF Store, AckWaitExpires, DelayElapses, SingleCopy
    <2> QED BY <2>1, <2>2 DEF SingleCopy, Busy, Live
  <1>2. ASSUME NEW m \in Msgs, Fetch(m) PROVE SingleCopy'
    <2> DEFINE c == [msg |-> m, attempt |-> queue'[m].count]
    <2>1. /\ queue[m].st = "ready" /\ queue'[m].st = "inflight"
          /\ \A k \in Msgs \ {m} : queue'[k] = queue[k]
          /\ buffer' = buffer \union {c} /\ c.msg = m
          /\ UNCHANGED <<pc, job>>
      BY <1>2 DEF Fetch, Deliverable, Delivered, TypeOK
    <2>2. ~ Live(m)
      BY <2>1 DEF SingleCopy
    <2> HIDE DEF c
    <2>3. \A k \in Msgs : Live(k)' <=> Live(k) \/ k = m
      BY <2>1 DEF Live
    <2>4. \A a, b \in buffer' : a.msg = b.msg => a = b
      BY <2>1, <2>2 DEF SingleCopy, Live
    <2>5. \A a \in buffer', w \in Workers : Busy(w)' => job'[w].msg # a.msg
      BY <2>1, <2>2 DEF SingleCopy, Live, Busy
    <2>6. \A k \in Msgs : Live(k)' => queue'[k].st = "inflight"
      BY <2>1, <2>3 DEF SingleCopy
    <2> QED BY <2>1, <2>4, <2>5, <2>6 DEF SingleCopy, Busy
  <1>3. ASSUME NEW w \in Workers, NEW c \in buffer, Take(w, c) PROVE SingleCopy'
    <2>1. /\ c \in Copies /\ buffer' = buffer \ {c} /\ queue' = queue
          /\ ~ Busy(w) /\ Busy(w)' /\ job'[w] = c
          /\ \A x \in Workers \ {w} : job'[x] = job[x] /\ (Busy(x)' <=> Busy(x))
      BY <1>3 DEF Take, Goto, TypeOK, Busy
    <2>2. \A k \in Msgs : Live(k)' <=> Live(k)
      BY <2>1 DEF SingleCopy, Live, Busy, TypeOK
    <2> QED BY <2>1, <2>2 DEF SingleCopy
  <1>4. ASSUME NEW w \in Workers, WorkerStep(w), ~ processOne(w), ~ Halt(w) PROVE SingleCopy'
    <2>1. /\ UNCHANGED <<queue, buffer, job>>
          /\ \A x \in Workers : Busy(x)' <=> Busy(x)
      BY <1>4, RunKeepsJob DEF Busy
    <2> QED BY <2>1 DEF SingleCopy, Live, Busy
  <1>5. ASSUME NEW w \in Workers, processOne(w) PROVE SingleCopy'
    <2>1. /\ Busy(w) /\ ~ Busy(w)' /\ buffer' = buffer /\ job[w].msg \in Msgs
          /\ \A x \in Workers \ {w} : pc'[x] = pc[x] /\ job'[x] = job[x]
          /\ \A k \in Msgs \ {job[w].msg} : queue'[k] = queue[k]
      BY <1>5, BusyJob DEF processOne, Goto, TypeOK, Busy
    <2>2. \A k \in Msgs : Live(k)' => Live(k) /\ k # job[w].msg
      BY <2>1 DEF SingleCopy, Live, Busy
    <2> QED BY <2>1, <2>2 DEF SingleCopy, Busy
  <1>6. ASSUME NEW w \in Workers, Halt(w) PROVE SingleCopy'
    <2>1. UNCHANGED <<queue, buffer, job>> /\ \A x \in Workers : Busy(x)' <=> Busy(x)
      BY <1>6 DEF Halt, Busy, TypeOK
    <2> QED BY <2>1 DEF SingleCopy, Live, Busy
  <1>7. CASE Stop
    <2>1. PICK naked \in SUBSET buffer :
            /\ buffer' = buffer \ naked
            /\ queue' = [m \in Msgs |-> IF \E c \in naked : c.msg = m
                                        THEN Naked(queue[m]) ELSE queue[m]]
      BY <1>7 DEF Stop
    <2>2. UNCHANGED <<pc, job>>
      BY <1>7 DEF Stop
    <2>3. \A m \in Msgs : Live(m)' => Live(m) /\ ~ \E c \in naked : c.msg = m
      BY <2>1, <2>2 DEF SingleCopy, Live, Busy
    <2> QED BY <2>1, <2>2, <2>3 DEF SingleCopy, Busy
  <1>8. CASE Restart \/ Crash
    BY <1>8 DEF Restart, Crash, Fresh, SingleCopy, Busy, Live
  <1>9. CASE UNCHANGED vars \/ \E n \in Notifs : LockExpires(n)
    BY <1>9 DEF vars, LockExpires, SingleCopy, Busy, Live
  <1> QED BY <1>1, <1>2, <1>3, <1>4, <1>5, <1>6, <1>7, <1>8, <1>9 DEF Next, Broker

\* A worker has the verdict of message m and is about to publish it.
Reporting(m) == \E w \in Workers : pc[w] = "publish" /\ job[w].msg = m

\* A worker is going to ack message m.
Acking(m) ==
  \E w \in Workers : pc[w] \in {"unlock", "settle"} /\ verdict[w] = "ack" /\ job[w].msg = m

\* No worker will be given message m any more.
Spent(m) == queue[m].st = "gone" \/ Acking(m)

\* Every call in the history was added by a worker that sends.
LEMMA NewCall ==
  ASSUME [Next]_vars, NEW c \in calls', c \notin calls
  PROVE  \E w \in Workers : Send(w) /\ c.msg = job[w].msg /\ c.attempt = job[w].attempt
  BY DEF Next, vars, Store, Broker, Fetch, AckWaitExpires, DelayElapses, WorkerStep,
         TryLock, applyRateLimit, Send, publishStatus, Unlock, processOne, Halt, Take,
         LockExpires, Stop, Restart, Crash, Fresh

\* Every event was added by a worker that publishes.
LEMMA NewEvent ==
  ASSUME [Next]_vars, NEW e \in events', e \notin events
  PROVE  \E w \in Workers :
           publishStatus(w)
           /\ e = [msg |-> job[w].msg, attempt |-> job[w].attempt, status |-> verdict[w]]
  BY DEF Next, vars, Store, Broker, Fetch, AckWaitExpires, DelayElapses, WorkerStep,
         TryLock, applyRateLimit, Send, publishStatus, Unlock, processOne, Halt, Take,
         LockExpires, Stop, Restart, Crash, Fresh

\* The histories only grow.
LEMMA HistoryGrows ==
  ASSUME [Next]_vars
  PROVE  calls \subseteq calls' /\ events \subseteq events'
  BY DEF Next, vars, Store, Broker, Fetch, AckWaitExpires, DelayElapses, WorkerStep,
         TryLock, applyRateLimit, Send, publishStatus, Unlock, processOne, Halt, Take,
         LockExpires, Stop, Restart, Crash, Fresh

\* What was acked stays removed.
LEMMA GoneStays ==
  ASSUME TypeOK, [Next]_vars, NEW m \in Msgs, queue[m].st = "gone"
  PROVE  queue'[m].st = "gone"
  <1>1. ASSUME NEW k \in Msgs, Store(k) \/ Broker(k) PROVE queue'[m].st = "gone"
    BY <1>1 DEF Store, Broker, Fetch, Deliverable, AckWaitExpires, DelayElapses, TypeOK
  <1>2. ASSUME NEW w \in Workers, processOne(w) PROVE queue'[m].st = "gone"
    <2>1. verdict[w] \in {"ack", "nak", "delay"}
      BY <1>2 DEF processOne, TypeOK
    <2>2. queue[m] \in [st : QueueStatus, count : Nat]
      BY DEF TypeOK
    <2>3. Settled(queue[m], verdict[w]).st = "gone"
      BY <2>1, <2>2 DEF Settled, Acked, Naked, NakedWithDelay
    <2> QED BY <1>2, <2>3 DEF processOne, TypeOK
  <1>3. CASE Stop
    BY <1>3 DEF Stop, Naked
  <1> QED BY <1>1, <1>2, <1>3
       DEF Next, vars, WorkerStep, TryLock, applyRateLimit, Send, publishStatus, Unlock,
           Halt, Take, LockExpires, Restart, Crash, Fresh

\* The attempt bound of a notification is at least one.
LEMMA BoundPositive ==
  ASSUME NEW n \in Notifs
  PROVE  maxAttemptsFor(n) \in Nat \ {0}
  BY PipelineAssumption DEF maxAttemptsFor, ServiceMaxAttempts

\* A call on the last permitted attempt is followed by a report.
LEMMA LastCallPublished ==
  ASSUME TypeOK, NEW w \in Workers, Send(w),
         job[w].attempt >= maxAttemptsFor(NotifOf[job[w].msg])
  PROVE  pc'[w] = "publish" /\ job'[w] = job[w]
  <1>1. PICK dr \in Outcomes : handleDeliveryResult(w, dr)
    BY DEF Send
  <1>2. ~ (job[w].attempt < maxAttemptsFor(NotifOf[job[w].msg]))
    BY BusyJob, BoundPositive DEF Send
  <1>3. Goto(w, "publish", "delivered") \/ Goto(w, "publish", "failed")
    BY <1>1, <1>2 DEF handleDeliveryResult
  <1> QED BY <1>3 DEF Send, Goto, TypeOK

\* A worker that is going to ack does it, unless the process dies or the ack
\* does not arrive.
LEMMA SpentStays ==
  ASSUME TypeOK, [Next]_vars, {"crash", "settle"} \intersect faults = {},
         NEW m \in Msgs, Spent(m)
  PROVE  Spent(m)'
  <1>1. CASE queue[m].st = "gone"
    BY <1>1, GoneStays DEF Spent
  <1>2. CASE Acking(m)
    <2> PICK w \in Workers :
               pc[w] \in {"unlock", "settle"} /\ verdict[w] = "ack" /\ job[w].msg = m
      BY <1>2 DEF Acking
    <2>1. CASE Unlock(w)
      <3>1. pc'[w] = "settle" /\ verdict'[w] = "ack" /\ job'[w] = job[w]
        BY <2>1 DEF Unlock, Goto, TypeOK
      <3> QED BY <3>1 DEF Spent, Acking
    <2>2. CASE processOne(w)
      <3>1. queue'[m] = Settled(queue[m], "ack")
        BY <2>2 DEF processOne, TypeOK
      <3>2. Settled(queue[m], "ack").st = "gone"
        BY DEF Settled, Acked, TypeOK
      <3> QED BY <3>1, <3>2 DEF Spent
    <2>3. CASE ~ WorkerStep(w)
      <3>1. ~ Restart /\ ~ Crash /\ \A c \in buffer : ~ Take(w, c)
        BY DEF Restart, Crash, Take
      <3>2. pc'[w] = pc[w] /\ job'[w] = job[w] /\ verdict'[w] = verdict[w]
        BY <2>3, <3>1, WorkerAlone
      <3> QED BY <3>2 DEF Spent, Acking
    <2> QED BY <2>1, <2>2, <2>3 DEF WorkerStep, TryLock, applyRateLimit, Send,
                                    publishStatus, Halt
  <1> QED BY <1>1, <1>2 DEF Spent

\* A message is spent or in work, and never both.
LEMMA BusyNotSpent ==
  ASSUME TypeOK, SingleCopy, NEW w \in Workers,
         pc[w] \in {"lock", "limit", "send", "publish"}
  PROVE  /\ ~ Spent(job[w].msg)
         /\ pc[w] # "publish" => ~ Reporting(job[w].msg)
  BY BusyJob DEF SingleCopy, Busy, Live, Spent, Acking, Reporting

\* A worker with a verdict publishes it, unless the process dies.
LEMMA ReportingStays ==
  ASSUME TypeOK, [Next]_vars, "crash" \notin faults, NEW w \in Workers, pc[w] = "publish",
         ~ publishStatus(w)
  PROVE  pc'[w] = pc[w] /\ job'[w] = job[w] /\ verdict'[w] = verdict[w]
  <1>1. ~ Restart /\ ~ Crash /\ ~ WorkerStep(w) /\ \A c \in buffer : ~ Take(w, c)
    BY DEF Restart, Crash, Take, WorkerStep, TryLock, applyRateLimit, Send, Unlock,
           processOne, Halt
  <1> QED BY <1>1, WorkerAlone

\* Publishing that works leads to an ack.
LEMMA PublishSpends ==
  ASSUME TypeOK, "publish" \notin faults, NEW w \in Workers, publishStatus(w)
  PROVE  /\ Spent(job[w].msg)'
         /\ [msg |-> job[w].msg, attempt |-> job[w].attempt, status |-> verdict[w]] \in events'
  <1>1. pc'[w] = "unlock" /\ verdict'[w] = "ack" /\ job'[w] = job[w]
    BY DEF publishStatus, Goto, TypeOK
  <1>2. Acking(job[w].msg)'
    BY <1>1 DEF Acking
  <1> QED BY <1>2 DEF Spent, publishStatus

-----------------------------------------------------------------------------
(***************************************************************************)
(* A call on the last permitted attempt is reported.                       *)
(***************************************************************************)
LastCallReported ==
  \A c \in calls :
    c.attempt >= maxAttemptsFor(NotifOf[c.msg])
      => Reported(NotifOf[c.msg]) \/ Reporting(c.msg)

LastCallInv == TypeOK /\ SingleCopy /\ LastCallReported

NothingCutShort == {"slow", "crash", "publish"} \intersect faults = {}

\* The inductive invariant of every behaviour without these three conditions.
LastCallIInv == NothingCutShort => LastCallInv

\* Every step keeps it.
LEMMA NextLastCall ==
  ASSUME NothingCutShort, LastCallInv, [Next]_vars
  PROVE  LastCallInv'
  <1> USE DEF NothingCutShort, LastCallInv
  <1>1. TypeOK' /\ SingleCopy'
    BY NextTypeOK, NextSingleCopy
  <1>2. ASSUME NEW c \in calls', c.attempt >= maxAttemptsFor(NotifOf[c.msg])
        PROVE  Reported(NotifOf[c.msg])' \/ Reporting(c.msg)'
    <2>1. CASE c \notin calls
      <3>1. PICK w \in Workers : Send(w) /\ c.msg = job[w].msg /\ c.attempt = job[w].attempt
        BY <2>1, NewCall
      <3>2. pc'[w] = "publish" /\ job'[w] = job[w]
        BY <1>2, <3>1, LastCallPublished
      <3> QED BY <3>1, <3>2 DEF Reporting
    <2>2. CASE c \in calls /\ Reported(NotifOf[c.msg])
      BY <2>2, HistoryGrows DEF Reported
    <2>3. CASE c \in calls /\ Reporting(c.msg)
      <3>1. PICK w \in Workers : pc[w] = "publish" /\ job[w].msg = c.msg
        BY <2>3 DEF Reporting
      <3>2. CASE publishStatus(w)
        BY <3>1, <3>2, PublishSpends DEF Reported
      <3>3. CASE ~ publishStatus(w)
        <4>1. pc'[w] = "publish" /\ job'[w].msg = c.msg
          BY <3>1, <3>3, ReportingStays
        <4> QED BY <4>1 DEF Reporting
      <3> QED BY <3>2, <3>3
    <2> QED BY <1>2, <2>1, <2>2, <2>3 DEF LastCallReported
  <1> QED BY <1>1, <1>2 DEF LastCallReported

\* NATS never gives up on a message that was called for the last permitted time
\* or later and that nobody reported.  Missed locks, failed locks, rate limits,
\* stops and lost acks may all have used up its deliveries.
THEOREM LastCallTheorem == Spec => []ExhaustionOnlyBeforeLastCall
  <1>1. Init => LastCallIInv
    BY InitTypeOK DEF Init, LastCallIInv, LastCallInv, SingleCopy, Busy, Live,
                      LastCallReported
  <1>2. LastCallIInv /\ [Next]_vars => LastCallIInv'
    BY NextLastCall, faultsKept DEF LastCallIInv, NothingCutShort
  <1>3. LastCallIInv => ExhaustionOnlyBeforeLastCall
    <2> SUFFICES ASSUME LastCallInv, NEW m \in Msgs, Exhausted(queue[m], MaxDeliver),
                        ~ Reported(NotifOf[m]), NEW c \in calls, c.msg = m
                 PROVE  c.attempt < maxAttemptsFor(NotifOf[c.msg])
      BY DEF LastCallIInv, NothingCutShort, ExhaustionOnlyBeforeLastCall
    <2>1. ~ Reporting(m)
      BY DEF LastCallInv, SingleCopy, Live, Reporting, Exhausted
    <2>2. c.attempt \in Nat /\ maxAttemptsFor(NotifOf[c.msg]) \in Nat
      BY PipelineAssumption, BoundPositive DEF LastCallInv, TypeOK, Calls
    <2> QED BY <2>1, <2>2 DEF LastCallInv, LastCallReported
  <1> QED BY <1>1, <1>2, <1>3, PTL DEF Spec

-----------------------------------------------------------------------------
(***************************************************************************)
(* One status event and one accepted call per message.  Expired locks let  *)
(* a second worker in, but never with the same message: what was accepted  *)
(* is on its way to the event, and what has an event is acked.             *)
(***************************************************************************)
Delivering(m) == \E w \in Workers : pc[w] = "publish" /\ verdict[w] = "delivered" /\ job[w].msg = m

EventsSpent ==
  /\ \A e \in events : Spent(e.msg)
  /\ \A d, e \in events : d.msg = e.msg => d = e

AcceptedSpent ==
  /\ \A c \in calls : c.accepted => Spent(c.msg) \/ Delivering(c.msg)
  /\ \A c, d \in calls : c.accepted /\ d.accepted /\ c.msg = d.msg => c = d

SingleEffectInv == TypeOK /\ up /\ SingleCopy /\ EventsSpent /\ AcceptedSpent

\* Only locks, limits, or what is no matter of the pipeline, may fail.
LocksOnly == {"crash", "stop", "slow", "publish", "timeout", "settle"} \intersect faults = {}

\* The inductive invariant of every behaviour in which only locks and limits fail.
SingleEffectIInv == LocksOnly => SingleEffectInv

\* While the provider's answers arrive, what it accepts is a success.
LEMMA AcceptedIsDelivered ==
  ASSUME TypeOK, up, "timeout" \notin faults, NEW w \in Workers, Send(w),
         NEW c \in calls', c \notin calls, c.accepted
  PROVE  Delivering(job[w].msg)'
  <1>1. PICK dr \in Outcomes :
           /\ calls' = calls \union {[msg |-> job[w].msg, attempt |-> job[w].attempt,
                                      accepted |-> dr.accepted]}
           /\ handleDeliveryResult(w, dr)
    BY DEF Send
  <1>2. dr.accepted
    BY <1>1
  <1>3. dr.success
    BY <1>2 DEF Outcomes
  <1>4. Goto(w, "publish", "delivered") /\ job' = job
    BY <1>1, <1>3 DEF handleDeliveryResult, Send
  <1>5. pc'[w] = "publish" /\ verdict'[w] = "delivered" /\ job'[w].msg = job[w].msg
    BY <1>4 DEF Goto, TypeOK
  <1> QED BY <1>5 DEF Delivering

\* Every step keeps one event per message.
LEMMA NextEventsSpent ==
  ASSUME LocksOnly, SingleEffectInv, [Next]_vars
  PROVE  EventsSpent'
  <1> USE DEF SingleEffectInv, LocksOnly
  <1>0. \A e \in events : e.msg \in Msgs
    BY DEF TypeOK, Events
  <1>1. \A e \in events : Spent(e.msg)'
    BY <1>0, SpentStays DEF EventsSpent
  <1>2. CASE events' = events
    BY <1>1, <1>2 DEF EventsSpent
  <1>3. CASE events' # events
    <2>1. PICK e \in events' : e \notin events
      BY <1>3, HistoryGrows
    <2>2. PICK w \in Workers :
            publishStatus(w)
            /\ e = [msg |-> job[w].msg, attempt |-> job[w].attempt, status |-> verdict[w]]
      BY <2>1, NewEvent
    <2>3. e.msg = job[w].msg
      BY <2>2
    <2>4. events' = events \union {e}
      BY <1>3, <2>2 DEF publishStatus
    <2>5. Spent(job[w].msg)'
      BY <2>2, PublishSpends
    <2>6. \A d \in events : d.msg # e.msg
      BY <2>2, <2>3, BusyNotSpent DEF EventsSpent, publishStatus
    <2>7. \A d \in events' : Spent(d.msg)'
      <3>1. ASSUME NEW k, k = job[w].msg, Spent(k)' PROVE Spent(e.msg)'
        BY <3>1, <2>3
      <3>2. ASSUME NEW k, k = job[w].msg PROVE Spent(k)'
        BY <2>2, <3>2, PublishSpends DEF publishStatus
      <3> QED BY <1>1, <2>4, <3>1, <3>2
    <2> QED BY <2>4, <2>6, <2>7 DEF EventsSpent
  <1> QED BY <1>2, <1>3

\* Every step keeps one accepted call per message.
LEMMA NextAcceptedSpent ==
  ASSUME LocksOnly, SingleEffectInv, [Next]_vars
  PROVE  AcceptedSpent'
  <1> USE DEF SingleEffectInv, LocksOnly
  <1>0. \A c \in calls : c.msg \in Msgs
    BY DEF TypeOK, Calls
  <1>1. ASSUME NEW c \in calls, c.accepted PROVE Spent(c.msg)' \/ Delivering(c.msg)'
    <2>1. CASE Spent(c.msg)
      BY <1>0, <2>1, SpentStays
    <2>2. CASE Delivering(c.msg)
      <3>1. PICK w \in Workers : pc[w] = "publish" /\ verdict[w] = "delivered" /\ job[w].msg = c.msg
        BY <2>2 DEF Delivering
      <3>2. CASE publishStatus(w)
        <4>1. pc'[w] = "unlock" /\ verdict'[w] = "ack" /\ job'[w].msg = c.msg
          BY <3>1, <3>2 DEF publishStatus, Goto, TypeOK
        <4> QED BY <4>1 DEF Spent, Acking
      <3>3. CASE ~ publishStatus(w)
        <4>1. pc'[w] = "publish" /\ verdict'[w] = "delivered" /\ job'[w].msg = c.msg
          BY <3>1, <3>3, ReportingStays
        <4> QED BY <4>1 DEF Delivering
      <3> QED BY <3>2, <3>3
    <2> QED BY <1>1, <2>1, <2>2 DEF AcceptedSpent
  <1>2. CASE \A c \in calls' : c.accepted => c \in calls
    BY <1>1, <1>2 DEF AcceptedSpent
  <1>3. ASSUME NEW c \in calls', c.accepted, c \notin calls PROVE AcceptedSpent'
    <2>1. PICK w \in Workers : Send(w) /\ c.msg = job[w].msg /\ c.attempt = job[w].attempt
      BY <1>3, NewCall
    <2>2. calls' = calls \union {c}
      BY <1>3, <2>1 DEF Send
    <2>3. ASSUME NEW k, k = c.msg PROVE Delivering(k)'
      <3>1. Delivering(job[w].msg)'
        BY <1>3, <2>1, AcceptedIsDelivered
      <3>2. job'[w] = job[w]
        BY <2>1 DEF Send
      <3> QED BY <2>1, <2>3, <3>1, <3>2 DEF Delivering, Send
    <2>4. \A d \in calls : d.accepted => d.msg # c.msg
      <3>1. ~ Spent(job[w].msg) /\ ~ Reporting(job[w].msg)
        BY <2>1, BusyNotSpent DEF Send
      <3> QED BY <2>1, <3>1 DEF AcceptedSpent, Delivering, Reporting
    <2> QED BY <1>1, <2>2, <2>3, <2>4 DEF AcceptedSpent
  <1> QED BY <1>2, <1>3

\* Nobody stops the process when only locks and limits fail.
LEMMA StaysUp ==
  ASSUME up, "stop" \notin faults, [Next]_vars
  PROVE  up'
  BY DEF Next, vars, Store, Broker, Fetch, AckWaitExpires, DelayElapses, WorkerStep,
         TryLock, applyRateLimit, Send, publishStatus, Unlock, processOne, Halt, Take,
         LockExpires, Stop, Restart, Crash, Fresh

LEMMA NextSingleEffect ==
  ASSUME LocksOnly, SingleEffectInv, [Next]_vars
  PROVE  SingleEffectInv'
  <1>1. TypeOK' /\ SingleCopy' /\ up'
    BY NextTypeOK, NextSingleCopy, StaysUp DEF SingleEffectInv, LocksOnly
  <1> QED BY <1>1, NextEventsSpent, NextAcceptedSpent DEF SingleEffectInv

LEMMA InitSingleEffect == Init => SingleEffectInv
  BY InitTypeOK DEF Init, SingleEffectInv, SingleCopy, Busy, Live, EventsSpent, AcceptedSpent

\* A message has one status event and is accepted once, whatever the locks and
\* the rate limiter do.
THEOREM OnceTheorem == Spec => []OncePerMessage
  <1>1. Init => SingleEffectIInv
    BY InitSingleEffect DEF SingleEffectIInv
  <1>2. SingleEffectIInv /\ [Next]_vars => SingleEffectIInv'
    BY NextSingleEffect, faultsKept DEF SingleEffectIInv, LocksOnly
  <1>3. SingleEffectIInv => OncePerMessage
    BY DEF SingleEffectIInv, LocksOnly, SingleEffectInv, EventsSpent, AcceptedSpent,
           OncePerMessage
  <1> QED BY <1>1, <1>2, <1>3, PTL DEF Spec

-----------------------------------------------------------------------------
(***************************************************************************)
(* The provider is called at most as often as maxAttemptsFor says.  The    *)
(* attempt of a call is the delivery count of its message, which grows     *)
(* with every copy, and a call that reaches the bound is the last one.     *)
(***************************************************************************)

\* A copy of m with this attempt has not led to a call yet.
Unsent(m, a) ==
  \/ [msg |-> m, attempt |-> a] \in buffer
  \/ \E w \in Workers : /\ pc[w] \in {"lock", "limit", "send"}
                        /\ job[w].msg = m /\ job[w].attempt = a

\* The copies in the process carry the present delivery count, and the calls an
\* earlier one while the copy has not been sent.
CountsCurrent ==
  /\ \A c \in buffer : c.attempt = queue[c.msg].count
  /\ \A w \in Workers : Busy(w) => job[w].attempt = queue[job[w].msg].count
  /\ \A m \in Msgs : Live(m) => queue[m].count >= 1
  /\ \A c \in calls : 1 <= c.attempt /\ c.attempt <= queue[c.msg].count
  /\ \A c \in calls, a \in Nat : Unsent(c.msg, a) => c.attempt < a

\* Calls of one message differ in their attempts, and after one that reaches
\* the bound there is none.
CallsDiffer ==
  /\ \A c, d \in calls : c.msg = d.msg /\ c.attempt = d.attempt => c = d
  /\ \A c \in calls :
       c.attempt >= maxAttemptsFor(NotifOf[c.msg]) => Spent(c.msg) \/ Reporting(c.msg)
  /\ \A c, d \in calls :
       /\ c.msg = d.msg
       /\ c.attempt >= maxAttemptsFor(NotifOf[c.msg])
       /\ d.attempt >= maxAttemptsFor(NotifOf[c.msg])
       => c = d

BudgetInv == TypeOK /\ SingleCopy /\ CountsCurrent /\ CallsDiffer

OutcomesArrive == {"slow", "crash", "publish", "settle"} \intersect faults = {}

\* The inductive invariant of every behaviour without these four conditions.
BudgetIInv == OutcomesArrive => BudgetInv

\* Only a fetch changes a delivery count, and it makes the first live copy.
LEMMA CountStep ==
  ASSUME TypeOK, [Next]_vars, NEW m \in Msgs
  PROVE  \/ queue'[m].count = queue[m].count
         \/ /\ Fetch(m)
            /\ queue'[m].count = queue[m].count + 1
  <1>0. queue[m] \in [st : QueueStatus, count : Nat]
    BY DEF TypeOK
  <1>1. ASSUME NEW k \in Msgs, Store(k) \/ AckWaitExpires(k) \/ DelayElapses(k)
        PROVE  queue'[m].count = queue[m].count
    BY <1>1, <1>0 DEF Store, Stored, AckWaitExpires, DelayElapses, TimedOut, TypeOK
  <1>2. ASSUME NEW k \in Msgs, Fetch(k)
        PROVE  \/ queue'[m].count = queue[m].count
               \/ Fetch(m) /\ queue'[m].count = queue[m].count + 1
    <2>1. MaxDeliver # 0
      BY PipelineAssumption DEF MaxDeliver
    <2>2. Delivered(queue[m], MaxDeliver).count = queue[m].count + 1
      BY <2>1 DEF Delivered
    <2>3. CASE k = m
      BY <1>2, <2>2, <2>3 DEF Fetch, TypeOK
    <2>4. CASE k # m
      BY <1>2, <2>4 DEF Fetch, TypeOK
    <2> QED BY <2>3, <2>4
  <1>3. ASSUME NEW w \in Workers, processOne(w) PROVE queue'[m].count = queue[m].count
    <2>1. verdict[w] \in {"ack", "nak", "delay"}
      BY <1>3 DEF processOne, TypeOK
    <2>2. Settled(queue[m], verdict[w]).count = queue[m].count
      BY <1>0, <2>1 DEF Settled, Acked, Naked, NakedWithDelay
    <2> QED BY <1>3, <2>2 DEF processOne, TypeOK
  <1>4. CASE Stop
    BY <1>0, <1>4 DEF Stop, Naked
  <1> QED BY <1>1, <1>2, <1>3, <1>4
       DEF Next, Broker, vars, WorkerStep, TryLock, applyRateLimit, Send, publishStatus, Unlock,
           Halt, Take, LockExpires, Restart, Crash, Fresh

\* Where the copies of the next state come from.
LEMMA CopySource ==
  ASSUME TypeOK, [Next]_vars, NEW m \in Msgs, NEW a \in Nat
  PROVE  /\ [msg |-> m, attempt |-> a] \in buffer'
              => [msg |-> m, attempt |-> a] \in buffer \/ (Fetch(m) /\ a = queue'[m].count)
         /\ \A w \in Workers :
              Busy(w)' /\ job'[w].msg = m /\ job'[w].attempt = a
                => \/ [msg |-> m, attempt |-> a] \in buffer
                   \/ Busy(w) /\ job[w].msg = m /\ job[w].attempt = a
         /\ Unsent(m, a)' => Unsent(m, a) \/ (Fetch(m) /\ a = queue'[m].count)
  <1>1. ASSUME [msg |-> m, attempt |-> a] \in buffer', [msg |-> m, attempt |-> a] \notin buffer
        PROVE  Fetch(m) /\ a = queue'[m].count
    <2>1. PICK k \in Msgs : Fetch(k)
      BY <1>1 DEF Next, vars, Store, Broker, AckWaitExpires, DelayElapses, WorkerStep,
         TryLock, applyRateLimit, Send, publishStatus, Unlock, processOne, Halt, Take,
         LockExpires, Stop, Restart, Crash, Fresh
    <2>2. [msg |-> m, attempt |-> a] = [msg |-> k, attempt |-> queue'[k].count]
      BY <1>1, <2>1 DEF Fetch
    <2> QED BY <2>1, <2>2
  <1>2. ASSUME NEW w \in Workers, Busy(w)', job'[w].msg = m, job'[w].attempt = a
        PROVE  \/ /\ [msg |-> m, attempt |-> a] \in buffer
               \/ /\ Busy(w) /\ job[w].msg = m /\ job[w].attempt = a
                  /\ pc'[w] \in {"lock", "limit", "send"} => pc[w] \in {"lock", "limit", "send"}
    <2>1. ASSUME NEW c \in buffer, Take(w, c)
          PROVE  [msg |-> m, attempt |-> a] \in buffer
      <3>1. c \in Copies /\ job'[w] = c
        BY <2>1 DEF Take, TypeOK
      <3>2. c = [msg |-> m, attempt |-> a]
        BY <1>2, <3>1 DEF Copies
      <3> QED BY <3>2
    <2>2. CASE Restart \/ Crash
      BY <1>2, <2>2 DEF Restart, Crash, Fresh, Busy
    <2>3. CASE processOne(w) \/ Halt(w)
      BY <1>2, <2>3 DEF processOne, Halt, Goto, Busy, TypeOK
    <2>4. CASE WorkerStep(w) /\ ~ processOne(w) /\ ~ Halt(w)
      <3>1. Busy(w) /\ job' = job
        BY <2>4, RunKeepsJob
      <3>2. pc'[w] \in {"lock", "limit", "send"} => pc[w] \in {"lock", "limit", "send"}
        BY <2>4 DEF WorkerStep, TryLock, applyRateLimit, Send, handleDeliveryResult,
                    publishStatus, Unlock, Goto, TypeOK
      <3> QED BY <1>2, <3>1, <3>2
    <2>5. CASE ~ WorkerStep(w) /\ ~ Restart /\ ~ Crash /\ \A c \in buffer : ~ Take(w, c)
      BY <1>2, <2>5, WorkerAlone DEF Busy
    <2> QED BY <2>1, <2>2, <2>3, <2>4, <2>5
  <1>3. ASSUME Unsent(m, a)' PROVE Unsent(m, a) \/ (Fetch(m) /\ a = queue'[m].count)
    BY <1>1, <1>2, <1>3 DEF Unsent, Busy
  <1> QED BY <1>1, <1>2, <1>3

\* Every step keeps the delivery counts of the copies current.
LEMMA NextCountsCurrent ==
  ASSUME OutcomesArrive, BudgetInv, [Next]_vars
  PROVE  CountsCurrent'
  <1> USE DEF BudgetInv, OutcomesArrive
  <1>0. TypeOK' /\ SingleCopy'
    BY NextTypeOK, NextSingleCopy
  <1>1. \A m \in Msgs : Fetch(m) => ~ Live(m) /\ ~ (\E a \in Nat : Unsent(m, a))
    <2> SUFFICES ASSUME NEW m \in Msgs, Fetch(m), NEW a \in Nat, Live(m) \/ Unsent(m, a) PROVE FALSE
      OBVIOUS
    <2>1. queue[m].st = "ready"
      BY DEF Fetch, Deliverable
    <2>2. Live(m)
      BY DEF Unsent, Live
    <2> QED BY <2>1, <2>2 DEF SingleCopy
  <1>2. \A m \in Msgs : queue[m].count \in Nat /\ queue'[m].count \in Nat
    BY <1>0 DEF TypeOK
  <1>3. ASSUME NEW c \in buffer' PROVE c.attempt = queue'[c.msg].count /\ queue'[c.msg].count >= 1
    <2>1. c = [msg |-> c.msg, attempt |-> c.attempt] /\ c.msg \in Msgs /\ c.attempt \in Nat
      BY <1>0 DEF TypeOK, Copies
    <2>2. CASE c \in buffer
      BY <1>1, <1>2, <2>1, <2>2, CountStep DEF CountsCurrent, Live
    <2>3. CASE c \notin buffer
      <3>1. Fetch(c.msg) /\ c.attempt = queue'[c.msg].count
        BY <2>1, <2>3, CopySource
      <3>2. queue'[c.msg].count = Delivered(queue[c.msg], MaxDeliver).count /\ MaxDeliver # 0
        BY <2>1, <3>1, PipelineAssumption DEF Fetch, MaxDeliver, TypeOK
      <3> QED BY <1>2, <2>1, <3>1, <3>2 DEF Delivered
    <2> QED BY <2>2, <2>3
  <1>4. ASSUME NEW w \in Workers, Busy(w)'
        PROVE  job'[w].attempt = queue'[job'[w].msg].count /\ queue'[job'[w].msg].count >= 1
    <2>1. PICK m \in Msgs, a \in Nat : job'[w].msg = m /\ job'[w].attempt = a
      BY <1>0, <1>4 DEF TypeOK, Copies, Busy
    <2>2. \/ [msg |-> m, attempt |-> a] \in buffer
          \/ Busy(w) /\ job[w].msg = m /\ job[w].attempt = a
      BY <1>4, <2>1, CopySource
    <2>3. Live(m) /\ a = queue[m].count
      BY <2>2 DEF Live, Busy, CountsCurrent
    <2>4. queue'[m].count = queue[m].count
      BY <1>1, <2>3, CountStep
    <2> QED BY <2>1, <2>3, <2>4 DEF CountsCurrent
  <1>5. \A m \in Msgs : Live(m)' => queue'[m].count >= 1
    BY <1>3, <1>4 DEF Live, Busy
  <1>6. ASSUME NEW c \in calls'
        PROVE  1 <= c.attempt /\ c.attempt <= queue'[c.msg].count
    <2>0. c.msg \in Msgs /\ c.attempt \in Nat
      BY <1>0 DEF TypeOK, Calls
    <2>1. CASE c \in calls
      BY <1>2, <2>0, <2>1, CountStep DEF CountsCurrent
    <2>2. CASE c \notin calls
      <3>1. PICK w \in Workers : Send(w) /\ c.msg = job[w].msg /\ c.attempt = job[w].attempt
        BY <2>2, NewCall
      <3>2. Busy(w) /\ queue' = queue /\ Live(c.msg)
        BY <3>1 DEF Send, Busy, Live
      <3> QED BY <1>2, <2>0, <3>1, <3>2 DEF CountsCurrent
    <2> QED BY <2>1, <2>2
  <1>7. ASSUME NEW c \in calls', NEW a \in Nat, Unsent(c.msg, a)'
        PROVE  c.attempt < a
    <2>0. c.msg \in Msgs /\ c.attempt \in Nat
      BY <1>0 DEF TypeOK, Calls
    <2>1. CASE c \in calls
      <3>1. CASE Unsent(c.msg, a)
        BY <2>1, <3>1 DEF CountsCurrent
      <3>2. CASE Fetch(c.msg) /\ a = queue'[c.msg].count
        <4>1. queue'[c.msg].count = Delivered(queue[c.msg], MaxDeliver).count /\ MaxDeliver # 0
          BY <2>0, <3>2, PipelineAssumption DEF Fetch, MaxDeliver, TypeOK
        <4>2. queue'[c.msg].count = queue[c.msg].count + 1
          BY <4>1 DEF Delivered
        <4> QED BY <1>2, <2>0, <2>1, <3>2, <4>2 DEF CountsCurrent
      <3> QED BY <1>7, <2>0, <3>1, <3>2, CopySource
    <2>2. CASE c \notin calls
      <3>1. PICK w \in Workers : Send(w) /\ c.msg = job[w].msg /\ c.attempt = job[w].attempt
        BY <2>2, NewCall
      <3>2. PICK m \in Msgs : m = c.msg
        BY <2>0
      <3>3. ~ Unsent(m, a)'
        <4>1. /\ buffer' = buffer /\ job' = job /\ Busy(w)
              /\ pc'[w] \notin {"lock", "limit", "send"}
              /\ \A x \in Workers \ {w} : pc'[x] = pc[x]
          BY <3>1 DEF Send, handleDeliveryResult, Goto, TypeOK, Busy
        <4>2. [msg |-> m, attempt |-> a] \notin buffer
          BY <3>1, <3>2, <4>1 DEF SingleCopy
        <4> QED BY <3>1, <3>2, <4>1, <4>2 DEF Unsent, SingleCopy, Busy
      <3> QED BY <1>7, <3>2, <3>3
    <2> QED BY <2>1, <2>2
  <1> QED BY <1>3, <1>4, <1>5, <1>6, <1>7 DEF CountsCurrent

\* Every step keeps the calls of one message apart.
LEMMA NextCallsDiffer ==
  ASSUME OutcomesArrive, BudgetInv, [Next]_vars
  PROVE  CallsDiffer'
  <1> USE DEF BudgetInv, OutcomesArrive
  <1>0. TypeOK'
    BY NextTypeOK
  <1>1. ASSUME NEW c \in calls, c.attempt >= maxAttemptsFor(NotifOf[c.msg])
        PROVE  Spent(c.msg)' \/ Reporting(c.msg)'
    <2>1. PICK m \in Msgs : m = c.msg
      BY DEF TypeOK, Calls
    <2>2. CASE Spent(m)
      BY <2>1, <2>2, SpentStays
    <2>3. CASE Reporting(m)
      <3>1. PICK w \in Workers : pc[w] = "publish" /\ job[w].msg = m
        BY <2>3 DEF Reporting
      <3>2. CASE publishStatus(w)
        <4>1. pc'[w] = "unlock" /\ verdict'[w] = "ack" /\ job'[w].msg = m
          BY <3>1, <3>2 DEF publishStatus, Goto, TypeOK
        <4> QED BY <2>1, <4>1 DEF Spent, Acking
      <3>3. CASE ~ publishStatus(w)
        <4>1. pc'[w] = "publish" /\ job'[w].msg = m
          BY <3>1, <3>3, ReportingStays
        <4> QED BY <2>1, <4>1 DEF Reporting
      <3> QED BY <3>2, <3>3
    <2> QED BY <1>1, <2>1, <2>2, <2>3 DEF CallsDiffer
  <1>2. CASE calls' = calls
    BY <1>1, <1>2 DEF CallsDiffer
  <1>3. CASE calls' # calls
    <2>1. PICK c \in calls' : c \notin calls
      BY <1>3, HistoryGrows
    <2>2. PICK w \in Workers : Send(w) /\ c.msg = job[w].msg /\ c.attempt = job[w].attempt
      BY <2>1, NewCall
    <2>3. calls' = calls \union {c}
      BY <2>1, <2>2 DEF Send
    <2>4. /\ pc[w] = "send" /\ ~ Spent(job[w].msg) /\ ~ Reporting(job[w].msg)
          /\ Unsent(job[w].msg, job[w].attempt)
      BY <2>2, BusyNotSpent DEF Send, Unsent
    <2>5. \A d \in calls : d.msg = c.msg =>
             d.attempt # c.attempt /\ ~ (d.attempt >= maxAttemptsFor(NotifOf[c.msg]))
      <3>1. \A d \in calls : d.msg = c.msg => d.attempt \in Nat /\ c.attempt \in Nat
        BY <1>0, <2>1 DEF TypeOK, Calls
      <3> QED BY <2>2, <2>4, <3>1 DEF CountsCurrent, CallsDiffer
    <2>6. c.attempt >= maxAttemptsFor(NotifOf[c.msg]) => Spent(c.msg)' \/ Reporting(c.msg)'
      <3> SUFFICES ASSUME c.attempt >= maxAttemptsFor(NotifOf[c.msg])
                   PROVE  Spent(c.msg)' \/ Reporting(c.msg)'
        OBVIOUS
      <3>1. pc'[w] = "publish" /\ job'[w].msg = c.msg
        BY <2>2, LastCallPublished
      <3> QED BY <3>1 DEF Reporting
    <2> QED BY <1>1, <2>3, <2>5, <2>6 DEF CallsDiffer
  <1> QED BY <1>2, <1>3

\* Numbers from 1 to b, of which those that reach b occur once, are at most b.
LEMMA BoundedByAttempt ==
  ASSUME NEW b \in Nat \ {0}, NEW S \in SUBSET Calls,
         \A c \in S : c.attempt >= 1,
         \A c, d \in S : c.attempt = d.attempt => c = d,
         \A c, d \in S : c.attempt >= b /\ d.attempt >= b => c = d
  PROVE  Cardinality(S) <= b
  <1> DEFINE f == [c \in S |-> IF c.attempt >= b THEN b ELSE c.attempt]
  <1>0. \A c \in S : c.attempt \in Nat
    BY DEF Calls
  <1>1. f \in [S -> 1 .. b]
    BY <1>0
  <1>2. \A c, d \in S : f[c] = f[d] => c = d
    BY <1>0
  <1>3. f \in Injection(S, 1 .. b)
    BY <1>1, <1>2 DEF Injection, IsInjective
  <1>4. IsFiniteSet(1 .. b) /\ Cardinality(1 .. b) = b
    BY FS_Interval
  <1> HIDE DEF f
  <1> QED BY <1>3, <1>4, FS_Injection

\* The provider is never called more often for a message than its attempt bound
\* allows, though lock errors, rate limits and stops spend deliveries too.
THEOREM BudgetTheorem == Spec => []CallsWithinBudget
  <1>1. Init => BudgetIInv
    BY InitTypeOK DEF Init, BudgetIInv, BudgetInv, SingleCopy, Busy, Live, CountsCurrent,
                      CallsDiffer
  <1>2. BudgetIInv /\ [Next]_vars => BudgetIInv'
    <2> SUFFICES ASSUME OutcomesArrive, BudgetInv, [Next]_vars PROVE BudgetInv'
      BY faultsKept DEF BudgetIInv, OutcomesArrive
    <2>1. TypeOK' /\ SingleCopy'
      BY NextTypeOK, NextSingleCopy DEF BudgetInv, OutcomesArrive
    <2> QED BY <2>1, NextCountsCurrent, NextCallsDiffer DEF BudgetInv
  <1>3. BudgetIInv => CallsWithinBudget
    <2> SUFFICES ASSUME BudgetInv, NEW m \in Msgs
                 PROVE  Cardinality({c \in calls : c.msg = m}) <= maxAttemptsFor(NotifOf[m])
      BY DEF BudgetIInv, OutcomesArrive, CallsWithinBudget
    <2> DEFINE S == {c \in calls : c.msg = m}
    <2>1. maxAttemptsFor(NotifOf[m]) \in Nat \ {0}
      BY BoundPositive, PipelineAssumption
    <2>2. S \in SUBSET Calls
      BY DEF BudgetInv, TypeOK
    <2>3. /\ \A c \in S : c.attempt >= 1
          /\ \A c, d \in S : c.attempt = d.attempt => c = d
          /\ \A c, d \in S :
               c.attempt >= maxAttemptsFor(NotifOf[m]) /\ d.attempt >= maxAttemptsFor(NotifOf[m])
                 => c = d
      BY <2>2 DEF BudgetInv, CountsCurrent, CallsDiffer, Calls
    <2> HIDE DEF S
    <2>4. Cardinality(S) <= maxAttemptsFor(NotifOf[m])
      BY <2>1, <2>2, <2>3, BoundedByAttempt
    <2> QED BY <2>4 DEF S
  <1> QED BY <1>1, <1>2, <1>3, PTL DEF Spec
-----------------------------------------------------------------------------
(***************************************************************************)
(* The delay before a retry.  What RetryDelay returns is known for every   *)
(* attempt up to LastSound; the rest is that no call is made with an       *)
(* attempt of zero, for which there is no delay on the schedule.           *)
(***************************************************************************)

\* The schedule doubles from one minute to eight and stays there.
LEMMA ScheduleValues ==
  \A n \in 2 .. LastSound :
    Schedule[n] = IF n = 2 THEN 60 ELSE IF n = 3 THEN 120 ELSE IF n = 4 THEN 240 ELSE 480
  <1> USE DEF LastSound
  <1> DEFINE g == [n \in 2 .. LastSound |->
                     IF n = 2 THEN 60 ELSE IF n = 3 THEN 120 ELSE IF n = 4 THEN 240 ELSE 480]
  <1>1. g = [n \in 2 .. LastSound |->
               IF n = 2 THEN 60 ELSE IF 2 * g[n - 1] > 480 THEN 480 ELSE 2 * g[n - 1]]
    <2> SUFFICES ASSUME NEW n \in 2 .. LastSound
                 PROVE  g[n] = IF n = 2 THEN 60
                               ELSE IF 2 * g[n - 1] > 480 THEN 480 ELSE 2 * g[n - 1]
      OBVIOUS
    <2>1. CASE n = 2
      BY <2>1
    <2>2. CASE n # 2
      <3>1. n - 1 \in 2 .. LastSound
        BY <2>2
      <3> QED BY <2>2, <3>1
    <2> QED BY <2>1, <2>2
  <1> HIDE DEF g
  <1>2. Schedule = [n \in 2 .. LastSound |->
               IF n = 2 THEN 60 ELSE IF 2 * Schedule[n - 1] > 480 THEN 480 ELSE 2 * Schedule[n - 1]]
    BY <1>1, ZenonT(60) DEF Schedule
  <1>3. \A n \in 2 .. LastSound : Schedule[n] = 
               IF n = 2 THEN 60 ELSE IF 2 * Schedule[n - 1] > 480 THEN 480 ELSE 2 * Schedule[n - 1]
    BY <1>2
  <1> HIDE DEF LastSound
  <1>4. LastSound = 29
    BY DEF LastSound
  <1>5. Schedule[2] = 60 /\ Schedule[3] = 120 /\ Schedule[4] = 240 /\ Schedule[5] = 480
    BY <1>3, <1>4
  <1>6. \A n \in 6 .. 29 : Schedule[n - 1] = 480 => Schedule[n] = 480
    BY <1>3, <1>4
  <1>7. /\ Schedule[6] = 480 /\ Schedule[7] = 480 /\ Schedule[8] = 480 /\ Schedule[9] = 480
        /\ Schedule[10] = 480 /\ Schedule[11] = 480 /\ Schedule[12] = 480 /\ Schedule[13] = 480
    BY <1>5, <1>6
  <1>8. /\ Schedule[14] = 480 /\ Schedule[15] = 480 /\ Schedule[16] = 480 /\ Schedule[17] = 480
        /\ Schedule[18] = 480 /\ Schedule[19] = 480 /\ Schedule[20] = 480 /\ Schedule[21] = 480
    BY <1>6, <1>7
  <1>9. /\ Schedule[22] = 480 /\ Schedule[23] = 480 /\ Schedule[24] = 480 /\ Schedule[25] = 480
        /\ Schedule[26] = 480 /\ Schedule[27] = 480 /\ Schedule[28] = 480 /\ Schedule[29] = 480
    BY <1>6, <1>8
  <1> QED BY <1>4, <1>5, <1>7, <1>8, <1>9

\* The base of the delay before attempt n is the scheduled one: the conversion
\* is exact, or so large that it is capped.
LEMMA BaseOnSchedule ==
  ASSUME NEW n \in 2 .. LastSound, NEW d \in Converted(n - 2)
  PROVE  Capped(d) = Schedule[n]
  <1> DEFINE e == n - 2
  <1>1. e \in 0 .. 27 /\ n = e + 2
    BY DEF LastSound
  <1>2. CASE e = 0
    <2>1. d = 60
      BY <1>2 DEF Converted, retryBase
    <2> QED BY <1>2, <2>1, ScheduleValues DEF Capped, retryMaxWait
  <1>3. CASE e = 1
    <2>1. d = 120
      BY <1>3 DEF Converted, retryBase
    <2> QED BY <1>3, <2>1, ScheduleValues DEF Capped, retryMaxWait
  <1>4. CASE e = 2
    <2>1. d = 240
      BY <1>4 DEF Converted, retryBase
    <2> QED BY <1>4, <2>1, ScheduleValues DEF Capped, retryMaxWait
  <1>5. CASE e = 3
    <2>1. d = 480
      BY <1>5 DEF Converted, retryBase
    <2> QED BY <1>5, <2>1, ScheduleValues DEF Capped, retryMaxWait
  <1>6. CASE e \in 4 .. 18
    <2>1. d = 60 * 2^e
      BY <1>6 DEF Converted, retryBase
    <2>2. 2^e >= 16
      <3>1. CASE e = 4
        BY <3>1
      <3>2. CASE e = 5
        BY <3>2
      <3>3. CASE e = 6
        BY <3>3
      <3>4. CASE e = 7
        BY <3>4
      <3>5. CASE e = 8
        BY <3>5
      <3>6. CASE e = 9
        BY <3>6
      <3>7. CASE e = 10
        BY <3>7
      <3>8. CASE e = 11
        BY <3>8
      <3>9. CASE e = 12
        BY <3>9
      <3>10. CASE e = 13
        BY <3>10
      <3>11. CASE e = 14
        BY <3>11
      <3>12. CASE e = 15
        BY <3>12
      <3>13. CASE e = 16
        BY <3>13
      <3>14. CASE e = 17
        BY <3>14
      <3>15. CASE e = 18
        BY <3>15
      <3> QED BY <1>6, <3>1, <3>2, <3>3, <3>4, <3>5, <3>6, <3>7, <3>8, <3>9, <3>10, <3>11, <3>12, <3>13, <3>14, <3>15
    <2>3. d > 480
      BY <1>6, <2>1, <2>2
    <2> QED BY <1>1, <1>6, <2>3, ScheduleValues DEF Capped, retryMaxWait
  <1>7. CASE e \in 19 .. 27
    <2>1. d > 480
      BY <1>7 DEF Converted, Highest
    <2> QED BY <1>1, <1>7, <2>1, ScheduleValues DEF Capped, retryMaxWait
  <1> QED BY <1>1, <1>2, <1>3, <1>4, <1>5, <1>6, <1>7

\* A sum that is not negative is not wrapped.
LEMMA WrappedSmall ==
  ASSUME NEW b \in Nat, NEW q \in Nat, 5 * q <= b
  PROVE  /\ b <= Wrapped(b + q)
         /\ 5 * Wrapped(b + q) <= 6 * b
  BY DEF Wrapped, Lowest

\* The jitter adds up to a fifth to any base of the schedule.
LEMMA JitterWithinFifth ==
  ASSUME NEW b \in {60, 120, 240, 480}, NEW j \in Jitters
  PROVE  /\ b <= Wrapped(b + (b * j) \div 50)
         /\ 5 * Wrapped(b + (b * j) \div 50) <= 6 * b
  <1>3. CASE b = 60
    <2>1. (60 * j) \div 50 \in 0 .. 12
      BY DEF Jitters
    <2>2. (b * j) \div 50 = (60 * j) \div 50
      BY <1>3
    <2>3. b \in Nat /\ (b * j) \div 50 \in Nat /\ 5 * ((b * j) \div 50) <= b
      BY <1>3, <2>1, <2>2
    <2> QED BY <2>3, WrappedSmall
  <1>4. CASE b = 120
    <2>1. (120 * j) \div 50 \in 0 .. 24
      BY DEF Jitters
    <2>2. (b * j) \div 50 = (120 * j) \div 50
      BY <1>4
    <2>3. b \in Nat /\ (b * j) \div 50 \in Nat /\ 5 * ((b * j) \div 50) <= b
      BY <1>4, <2>1, <2>2
    <2> QED BY <2>3, WrappedSmall
  <1>5. CASE b = 240
    <2>1. (240 * j) \div 50 \in 0 .. 48
      BY DEF Jitters
    <2>2. (b * j) \div 50 = (240 * j) \div 50
      BY <1>5
    <2>3. b \in Nat /\ (b * j) \div 50 \in Nat /\ 5 * ((b * j) \div 50) <= b
      BY <1>5, <2>1, <2>2
    <2> QED BY <2>3, WrappedSmall
  <1>6. CASE b = 480
    <2>1. (480 * j) \div 50 \in 0 .. 96
      BY DEF Jitters
    <2>2. (b * j) \div 50 = (480 * j) \div 50
      BY <1>6
    <2>3. b \in Nat /\ (b * j) \div 50 \in Nat /\ 5 * ((b * j) \div 50) <= b
      BY <1>6, <2>1, <2>2
    <2> QED BY <2>3, WrappedSmall
  <1> QED BY <1>3, <1>4, <1>5, <1>6

\* RetryDelay keeps its schedule up to the last attempt whose conversion does
\* not overflow.
LEMMA AllOnSchedule == OnSchedule = 2 .. LastSound
  <1> SUFFICES ASSUME NEW n \in 2 .. LastSound, NEW d \in RetryDelay(n)
               PROVE  Schedule[n] <= d /\ 5 * d <= 6 * Schedule[n]
    BY DEF OnSchedule
  <1>1. PICK x \in Converted(n - 2), j \in Jitters :
          d = Wrapped(Capped(x) + (Capped(x) * j) \div 50)
    BY DEF RetryDelay
  <1>2. Capped(x) = Schedule[n]
    BY BaseOnSchedule
  <1>3. Schedule[n] \in {60, 120, 240, 480}
    BY ScheduleValues
  <1> QED BY <1>1, <1>2, <1>3, JitterWithinFifth

\* The deliveries of a message are counted from one.
AttemptsCounted ==
  /\ \A c \in buffer : c.attempt >= 1
  /\ \A w \in Workers : Busy(w) => job[w].attempt >= 1
  /\ \A c \in calls : c.attempt >= 1

AttemptInv == TypeOK /\ AttemptsCounted

\* Every step keeps that, whatever goes wrong.
LEMMA NextAttempt == AttemptInv /\ [Next]_vars => AttemptInv'
  <1> SUFFICES ASSUME AttemptInv, [Next]_vars PROVE AttemptInv'
    OBVIOUS
  <1> USE DEF AttemptInv
  <1>1. TypeOK'
    BY NextTypeOK
  <1>2. ASSUME NEW c \in buffer' PROVE c.attempt >= 1
    <2>1. c = [msg |-> c.msg, attempt |-> c.attempt] /\ c.msg \in Msgs /\ c.attempt \in Nat
      BY <1>1 DEF TypeOK, Copies
    <2>2. CASE Fetch(c.msg) /\ c.attempt = queue'[c.msg].count
      <3>1. queue'[c.msg].count = queue[c.msg].count + 1
        <4>1. queue'[c.msg] = Delivered(queue[c.msg], MaxDeliver)
          BY <2>1, <2>2 DEF Fetch, TypeOK
        <4>2. MaxDeliver # 0
          BY PipelineAssumption DEF MaxDeliver
        <4> QED BY <4>1, <4>2 DEF Delivered
      <3>2. queue[c.msg].count \in Nat
        BY <2>1 DEF TypeOK
      <3> QED BY <2>2, <3>1, <3>2
    <2> QED BY <2>1, <2>2, CopySource DEF AttemptsCounted
  <1>3. ASSUME NEW w \in Workers, Busy(w)' PROVE job'[w].attempt >= 1
    <2>1. PICK m \in Msgs, a \in Nat : job'[w].msg = m /\ job'[w].attempt = a
      BY <1>1, <1>3 DEF TypeOK, Copies, Busy
    <2>2. \/ [msg |-> m, attempt |-> a] \in buffer
          \/ Busy(w) /\ job[w].msg = m /\ job[w].attempt = a
      BY <1>3, <2>1, CopySource
    <2> QED BY <2>1, <2>2 DEF AttemptsCounted
  <1>4. ASSUME NEW c \in calls' PROVE c.attempt >= 1
    <2>1. CASE c \in calls
      BY <2>1 DEF AttemptsCounted
    <2>2. CASE c \notin calls
      <3>1. PICK w \in Workers : Send(w) /\ c.attempt = job[w].attempt
        BY <2>2, NewCall
      <3> QED BY <3>1 DEF AttemptsCounted, Send, Busy
    <2> QED BY <2>1, <2>2
  <1> QED BY <1>1, <1>2, <1>3, <1>4 DEF AttemptsCounted

\* After any call the delay of every later attempt is the one of the schedule,
\* or up to a fifth more, as long as the conversion does not overflow.
THEOREM DelayTheorem == Spec => []DelayOnSchedule
  <1>1. Init => AttemptInv
    BY InitTypeOK DEF Init, AttemptInv, AttemptsCounted, Busy
  <1>2. AttemptInv => DelayOnSchedule
    <2> SUFFICES ASSUME AttemptInv, NEW c \in calls PROVE c.attempt + 1 .. LastSound \subseteq OnSchedule
      BY DEF DelayOnSchedule
    <2>1. c.attempt \in Nat /\ c.attempt >= 1
      BY DEF AttemptInv, AttemptsCounted, TypeOK, Calls
    <2> QED BY <2>1, AllOnSchedule DEF LastSound
  <1> QED BY <1>1, <1>2, NextAttempt, PTL DEF Spec
-----------------------------------------------------------------------------
(***************************************************************************)
(* What a composition of the services relies on: a worker only handles     *)
(* what was published, and it reports what the provider answered.          *)
(***************************************************************************)

\* The steps the processor takes itself: its messages are stored by others.
Own ==
  \/ \E m \in Msgs : Broker(m)
  \/ \E w \in Workers : WorkerStep(w) \/ \E c \in buffer : Take(w, c)
  \/ \E n \in Notifs : LockExpires(n)
  \/ Stop \/ Restart \/ Crash

\* A call for m supports status s: a delivery was accepted, a failure tried.
Supported(m, s) == \E c \in calls : c.msg = m /\ (s = "delivered" => c.accepted)

HoldsStored ==
  /\ \A c \in buffer : queue[c.msg].st # "none"
  /\ \A w \in Workers : Busy(w) => queue[job[w].msg].st # "none"

ReportsTruth ==
  /\ \A w \in Workers : pc[w] = "publish" => Supported(job[w].msg, verdict[w])
  /\ \A e \in events : Supported(e.msg, e.status)

RelyInv == TypeOK /\ HoldsStored /\ ReportsTruth

LEMMA OwnIsNext == Own => Next
  BY DEF Own, Next

\* What was published stays published, and only Store publishes.
LEMMA OnlyStored ==
  ASSUME TypeOK, HoldsStored, NEW m \in Msgs
  PROVE  /\ [Next]_vars /\ queue[m].st # "none" => queue'[m].st # "none"
         /\ Own /\ queue[m].st = "none" => queue'[m].st = "none"
  <1> DEFINE Kept == queue'[m].st = "none" <=> queue[m].st = "none"
  <1>0. queue[m] \in [st : QueueStatus, count : Nat]
    BY DEF TypeOK
  <1>1. ASSUME NEW k \in Msgs, Broker(k) PROVE Kept
    BY <1>1 DEF TypeOK, Broker, Fetch, AckWaitExpires, DelayElapses, Deliverable, Delivered, TimedOut
  <1>2. ASSUME NEW k \in Msgs, Store(k) PROVE queue[m].st # "none" => queue'[m].st # "none"
    BY <1>2 DEF TypeOK, Store, Stored
  <1>3. ASSUME NEW w \in Workers, processOne(w) PROVE Kept
    <2>1. verdict[w] \in {"ack", "nak", "delay"} /\ queue[job[w].msg].st # "none"
      BY <1>3 DEF processOne, TypeOK, HoldsStored, Busy
    <2>2. job[w].msg = m => Settled(queue[m], verdict[w]).st # "none"
      BY <1>0, <2>1 DEF Settled, Acked, Naked, NakedWithDelay
    <2> QED BY <1>3, <2>1, <2>2 DEF processOne, TypeOK
  <1>4. CASE Stop
    BY <1>0, <1>4 DEF Stop, Naked
  <1>5. CASE UNCHANGED queue
    BY <1>5
  <1> QED BY <1>1, <1>2, <1>3, <1>4, <1>5
       DEF Own, Next, vars, WorkerStep, TryLock, applyRateLimit, Send, publishStatus, Unlock,
           Halt, Take, LockExpires, Restart, Crash, Fresh

LEMMA NextHoldsStored ==
  ASSUME TypeOK, TypeOK', HoldsStored, [Next]_vars
  PROVE  HoldsStored'
  <1>1. \A m \in Msgs : queue[m].st # "none" => queue'[m].st # "none"
    BY OnlyStored
  <1>2. ASSUME NEW m \in Msgs, NEW a \in Nat,
               [msg |-> m, attempt |-> a] \in buffer' \/
               \E w \in Workers : Busy(w)' /\ job'[w].msg = m /\ job'[w].attempt = a
        PROVE  queue'[m].st # "none"
    <2>1. CASE Fetch(m)
      BY <1>1, <2>1 DEF Fetch, Deliverable
    <2>2. CASE \/ [msg |-> m, attempt |-> a] \in buffer
               \/ \E w \in Workers : Busy(w) /\ job[w].msg = m
      BY <1>1, <2>2 DEF HoldsStored
    <2> QED BY <1>2, <2>1, <2>2, CopySource
  <1>3. ASSUME NEW c \in buffer' PROVE queue'[c.msg].st # "none"
    <2>1. c = [msg |-> c.msg, attempt |-> c.attempt] /\ c.msg \in Msgs /\ c.attempt \in Nat
      BY DEF TypeOK, Copies
    <2> QED BY <1>2, <2>1
  <1>4. ASSUME NEW w \in Workers, Busy(w)' PROVE queue'[job'[w].msg].st # "none"
    <2>1. job'[w].msg \in Msgs /\ job'[w].attempt \in Nat
      BY <1>4 DEF TypeOK, Copies, Busy
    <2> QED BY <1>2, <1>4, <2>1
  <1> QED BY <1>3, <1>4 DEF HoldsStored

LEMMA NextReportsTruth ==
  ASSUME TypeOK, ReportsTruth, [Next]_vars
  PROVE  ReportsTruth'
  <1>1. \A m, s : Supported(m, s) => Supported(m, s)'
    BY HistoryGrows DEF Supported
  <1>2. ASSUME NEW w \in Workers, pc'[w] = "publish" PROVE Supported(job[w].msg, verdict[w])'
    <2>1. CASE Send(w)
      <3>1. PICK dr \in Outcomes :
               /\ calls' = calls \union {[msg |-> job[w].msg, attempt |-> job[w].attempt,
                                          accepted |-> dr.accepted]}
               /\ handleDeliveryResult(w, dr)
        BY <2>1 DEF Send
      <3>2. verdict'[w] = "delivered" => dr.accepted
        BY <2>1, <3>1 DEF Send, handleDeliveryResult, Goto, TypeOK, Outcomes
      <3>3. job' = job
        BY <2>1 DEF Send
      <3> DEFINE c == [msg |-> job[w].msg, attempt |-> job[w].attempt, accepted |-> dr.accepted]
      <3>4. c \in calls' /\ c.msg = job'[w].msg /\ c.accepted = dr.accepted
        BY <3>1, <3>3
      <3> HIDE DEF c
      <3> QED BY <3>2, <3>4 DEF Supported
    <2>2. CASE ~ Send(w)
      <3>1. pc[w] = "publish" /\ job'[w] = job[w] /\ verdict'[w] = verdict[w]
        <4>1. ~ Restart /\ ~ Crash /\ ~ WorkerStep(w) /\ \A c \in buffer : ~ Take(w, c)
          BY <1>2, <2>2 DEF Restart, Crash, Fresh, Take, WorkerStep, TryLock, applyRateLimit,
                            publishStatus, Unlock, processOne, Halt, Goto, TypeOK
        <4> QED BY <1>2, <4>1, WorkerAlone
      <3> QED BY <1>1, <3>1 DEF ReportsTruth
    <2> QED BY <2>1, <2>2
  <1>3. ASSUME NEW e \in events' PROVE Supported(e.msg, e.status)'
    <2>1. CASE e \in events
      BY <1>1, <2>1 DEF ReportsTruth
    <2>2. CASE e \notin events
      <3>1. PICK w \in Workers : publishStatus(w) /\ e.msg = job[w].msg /\ e.status = verdict[w]
        BY <2>2, NewEvent
      <3>2. Supported(e.msg, e.status)
        BY <3>1 DEF publishStatus, ReportsTruth
      <3> QED BY <1>1, <3>2
    <2> QED BY <2>1, <2>2
  <1> QED BY <1>2, <1>3 DEF ReportsTruth

LEMMA InitRelyInv == PipelineAssumption /\ Init => RelyInv
  BY InitTypeOK DEF Init, RelyInv, HoldsStored, ReportsTruth, Busy

LEMMA NextRelyInv ==
  ASSUME PipelineAssumption, RelyInv, [Next]_vars
  PROVE  RelyInv'
  BY NextTypeOK, NextHoldsStored, NextReportsTruth DEF RelyInv

\* The provider is only called for a message that was published.
LEMMA CallStep ==
  ASSUME RelyInv, [Next]_vars, calls' # calls
  PROVE  \E m \in Msgs, a \in Nat, b \in BOOLEAN :
            /\ queue[m].st # "none"
            /\ calls' = calls \union {[msg |-> m, attempt |-> a, accepted |-> b]}
  <1>1. PICK w \in Workers : Send(w)
    <2>1. PICK c \in calls' : c \notin calls
      BY HistoryGrows
    <2> QED BY <2>1, NewCall
  <1>2. PICK b \in BOOLEAN :
          calls' = calls \union {[msg |-> job[w].msg, attempt |-> job[w].attempt, accepted |-> b]}
    BY <1>1 DEF Send, Outcomes
  <1>3. Busy(w) /\ job[w].msg \in Msgs /\ job[w].attempt \in Nat
    BY <1>1 DEF Send, Busy, RelyInv, TypeOK, Copies
  <1>4. queue[job[w].msg].st # "none"
    BY <1>3 DEF RelyInv, HoldsStored
  <1> QED BY <1>2, <1>3, <1>4
=============================================================================

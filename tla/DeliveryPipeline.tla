-------------------------- MODULE DeliveryPipeline --------------------------
(***************************************************************************)
(* The processor service: a pool of workers takes the messages that ask    *)
(* for a notification's delivery from JetStream, takes a Redis lock on the *)
(* notification, asks the rate limiter, calls the provider, publishes a    *)
(* status event, releases the lock and only then settles the message.      *)
(*                                                                         *)
(* One action stands for one call that leaves the process: Redis, the      *)
(* provider, JetStream.  Whatever runs between two such calls belongs to   *)
(* the action that ends in the second one.  The variable faults says which *)
(* adverse conditions a behaviour may meet.  It is chosen at the start and *)
(* kept, so that each property is stated for exactly the behaviours it is  *)
(* true of.                                                                *)
(***************************************************************************)
EXTENDS JetStream, Integers, FiniteSets, RetryBackoff

CONSTANTS
    Notifs,             \* the notifications
    Msgs,               \* the messages that may be published for them
    NotifOf,            \* NotifOf[m]: the notification of message m
    EvtMaxAttempts,     \* max_attempts in the event; 0 when it is absent
    ConfigMaxAttempts,  \* MAX_ATTEMPTS of the processor
    Workers,            \* the worker goroutines
    FaultSets,          \* the sets of adverse conditions to consider
    NoJob               \* what a worker without a message holds

(***************************************************************************)
(* "crash"    the process dies and is started again                        *)
(* "stop"     the process is told to stop: its context is cancelled        *)
(* "slow"     a message is still unsettled when its AckWait (60s) is over, *)
(*            or was locked less than one lock TTL (10s) before that       *)
(* "ttl"      a worker is still busy when its lock (10s) expires           *)
(* "unlock"   Redis refuses to delete the lock                             *)
(* "redis"    Redis refuses the lock or the limiter call                   *)
(* "reply"    Redis sets the lock but the reply is lost                    *)
(* "limit"    the channel's token bucket is empty                          *)
(* "publish"  publishing a status event returns an error                   *)
(* "timeout"  the provider accepts but the answer is lost                  *)
(* "settle"   an ack or nak does not reach the broker                      *)
(***************************************************************************)
FaultClasses == {"crash", "stop", "slow", "ttl", "unlock", "redis", "reply",
                 "limit", "publish", "timeout", "settle"}

\* A delivery of a message: the message and its NumDelivered.
Copies == [msg : Msgs, attempt : Nat]

ASSUME PipelineAssumption ==
    /\ NotifOf \in [Msgs -> Notifs]
    /\ EvtMaxAttempts \in [Notifs -> Nat]
    /\ ConfigMaxAttempts \in Nat
    /\ NoJob \notin Copies

\* Mutant of MaxDeliver: no bound is passed to the subscription.
MaxDeliverUnset == 0

\* NATS is told to deliver once more than the configured attempts.
MaxDeliver == ConfigMaxAttempts + 1

\* The fallback of the service package.
ServiceMaxAttempts == 4

maxAttemptsFor(n) ==
    IF EvtMaxAttempts[n] > 0 THEN EvtMaxAttempts[n] ELSE ServiceMaxAttempts

\* NewNotificationReadyConsumer opens one subscription per priority.
Subscriptions == 3

VARIABLES
    faults,   \* the adverse conditions this behaviour may meet
    queue,    \* queue[m]: message m as JetStream sees it
    buffer,   \* the copies fetched and not yet taken by a worker
    up,       \* the application context is not cancelled
    pc,       \* pc[w]: the call worker w makes next
    job,      \* job[w]: the copy worker w is processing
    verdict,  \* verdict[w]: what the pipeline has decided so far
    keys,     \* the notifications whose lock key exists in Redis
    calls,    \* history: every provider call
    events    \* history: every status event stored by the broker

vars == <<faults, queue, buffer, up, pc, job, verdict, keys, calls, events>>

Steps == {"idle", "lock", "limit", "send", "publish", "unlock", "settle", "halted"}

Verdicts == {"none", "delivered", "failed", "ack", "nak", "delay"}

Calls == [msg : Msgs, attempt : Nat, accepted : BOOLEAN]

Events == [msg : Msgs, attempt : Nat, status : {"delivered", "failed"}]

TypeOK ==
    /\ faults \in FaultSets
    /\ queue \in [Msgs -> [st : QueueStatus, count : Nat]]
    /\ buffer \subseteq Copies
    /\ up \in BOOLEAN
    /\ pc \in [Workers -> Steps]
    /\ job \in [Workers -> Copies \union {NoJob}]
    /\ \A w \in Workers : pc[w] \notin {"idle", "halted"} => job[w] \in Copies
    /\ verdict \in [Workers -> Verdicts]
    /\ \A w \in Workers :
          /\ pc[w] \notin {"publish", "unlock", "settle"} => verdict[w] = "none"
          /\ pc[w] = "publish" => verdict[w] \in {"delivered", "failed"}
          /\ pc[w] \in {"unlock", "settle"} => verdict[w] \in {"ack", "nak", "delay"}
    /\ keys \subseteq Notifs
    /\ calls \subseteq Calls
    /\ events \subseteq Events

-----------------------------------------------------------------------------
\* Worker w is between taking the lock of its notification and giving it back.
InSection(w) == pc[w] \in {"limit", "send", "publish", "unlock"}

Holds(w, n) == InSection(w) /\ NotifOf[job[w].msg] = n

\* A copy of message m is still in the memory of the process.
Live(m) ==
    \/ \E c \in buffer : c.msg = m
    \/ \E w \in Workers : pc[w] \notin {"idle", "halted"} /\ job[w].msg = m

\* The lock key outlived the worker that set it.
Orphaned(n) == n \in keys /\ ~ \E w \in Workers : Holds(w, n)

MsgsOf(n) == {m \in Msgs : NotifOf[m] = n}

Reported(n) == \E e \in events : NotifOf[e.msg] = n

Pending(m) == queue[m].st \in {"ready", "inflight", "delayed"}

-----------------------------------------------------------------------------
Init ==
    /\ faults \in FaultSets
    /\ queue = [m \in Msgs |-> Unpublished]
    /\ buffer = {}
    /\ up = TRUE
    /\ pc = [w \in Workers |-> "idle"]
    /\ job = [w \in Workers |-> NoJob]
    /\ verdict = [w \in Workers |-> "none"]
    /\ keys = {}
    /\ calls = {}
    /\ events = {}

\* Worker w goes on to step s having decided v.
Goto(w, s, v) ==
    /\ pc' = [pc EXCEPT ![w] = s]
    /\ verdict' = [verdict EXCEPT ![w] = v]

-----------------------------------------------------------------------------
\* The API, or the consumer of due notifications, publishes message m.
Store(m) ==
    /\ queue[m].st = "none"
    /\ queue' = [queue EXCEPT ![m] = Stored(@)]
    /\ UNCHANGED <<faults, buffer, up, pc, job, verdict, keys, calls, events>>

\* The fetch loop of Subscribe receives message m and decodes it.
Fetch(m) ==
    /\ up
    /\ Deliverable(queue[m], MaxDeliver)
    /\ queue' = [queue EXCEPT ![m] = Delivered(@, MaxDeliver)]
    /\ buffer' = buffer \union {[msg |-> m, attempt |-> queue'[m].count]}
    /\ UNCHANGED <<faults, up, pc, job, verdict, keys, calls, events>>

\* AckWait runs out: for a live copy, or before an orphaned lock key has
\* expired, only when the copy waited long.
AckWaitExpires(m) ==
    /\ queue[m].st = "inflight"
    /\ "slow" \in faults \/ (~Live(m) /\ ~Orphaned(NotifOf[m]))
    /\ queue' = [queue EXCEPT ![m] = TimedOut(@)]
    /\ UNCHANGED <<faults, buffer, up, pc, job, verdict, keys, calls, events>>

\* The delay of NakWithDelay runs out.
DelayElapses(m) ==
    /\ queue[m].st = "delayed"
    /\ queue' = [queue EXCEPT ![m] = TimedOut(@)]
    /\ UNCHANGED <<faults, buffer, up, pc, job, verdict, keys, calls, events>>

-----------------------------------------------------------------------------
\* The worker's router.Next returns copy c.  A worker that is already inside
\* Next when the context is cancelled may still be handed a message.
Take(w, c) ==
    /\ pc[w] = "idle"
    /\ c \in buffer
    /\ buffer' = buffer \ {c}
    /\ job' = [job EXCEPT ![w] = c]
    /\ Goto(w, "lock", "none")
    /\ UNCHANGED <<faults, queue, up, keys, calls, events>>

\* Mutant of TryLock: a miss is taken for a lock.
TryLockIgnoresMiss(w) ==
    /\ pc[w] = "lock"
    /\ \/ up /\ keys' = keys \union {NotifOf[job[w].msg]} /\ Goto(w, "limit", "none")
       \/ (~up \/ "redis" \in faults) /\ Goto(w, "settle", "nak") /\ UNCHANGED keys
    /\ UNCHANGED <<faults, queue, buffer, up, job, calls, events>>

\* SET NX: acquired, missed (the message is acked), or an error (nak).  When
\* the reply is lost the Redis client repeats the command: it gives up with an
\* error, or gets through and misses the key it has set itself.
TryLock(w) ==
    LET n == NotifOf[job[w].msg] IN
    /\ pc[w] = "lock"
    /\ \/ /\ up /\ n \notin keys
          /\ keys' = keys \union {n}
          /\ Goto(w, "limit", "none")
       \/ /\ up /\ n \in keys
          /\ Goto(w, "settle", "ack")
          /\ UNCHANGED keys
       \/ /\ ~up \/ "redis" \in faults
          /\ Goto(w, "settle", "nak")
          /\ UNCHANGED keys
       \/ /\ up /\ "reply" \in faults
          /\ Goto(w, "settle", "nak") \/ Goto(w, "settle", "ack")
          /\ keys' = keys \union {n}
    /\ UNCHANGED <<faults, queue, buffer, up, job, calls, events>>

\* The token bucket lets the call through, asks to come back later, or fails.
applyRateLimit(w) ==
    /\ pc[w] = "limit"
    /\ \/ up /\ Goto(w, "send", "none")
       \/ up /\ "limit" \in faults /\ Goto(w, "unlock", "delay")
       \/ (~up \/ "redis" \in faults) /\ Goto(w, "unlock", "nak")
    /\ UNCHANGED <<faults, queue, buffer, up, job, keys, calls, events>>

\* The outcomes of Send: what the provider did, and what the client makes of
\* it.  202 is a success; 400, 401 and 403 are final; everything else, a
\* transport error included, may be retried.  Once the context is cancelled
\* the request fails, accepted or not.
Outcomes ==
    {dr \in [accepted : BOOLEAN, success : BOOLEAN, retryable : BOOLEAN] :
        /\ dr.success => up /\ dr.accepted /\ ~dr.retryable
        /\ ~dr.success /\ ~dr.retryable => up /\ ~dr.accepted
        /\ dr.retryable /\ dr.accepted => ~up \/ "timeout" \in faults}

\* Mutant of handleDeliveryResult: the attempt bound is off by one.
RetriesOnceMore(w, dr) ==
    IF dr.success THEN Goto(w, "publish", "delivered")
    ELSE IF dr.retryable /\ job[w].attempt <= maxAttemptsFor(NotifOf[job[w].msg])
         THEN Goto(w, "unlock", "delay")
         ELSE Goto(w, "publish", "failed")

\* Mutant of handleDeliveryResult: retryable failures are left to MaxDeliver.
RetriesForEver(w, dr) ==
    IF dr.success THEN Goto(w, "publish", "delivered")
    ELSE IF dr.retryable THEN Goto(w, "unlock", "delay")
                         ELSE Goto(w, "publish", "failed")

handleDeliveryResult(w, dr) ==
    LET c == job[w] IN
    IF dr.success THEN Goto(w, "publish", "delivered")
    ELSE IF dr.retryable /\ c.attempt < maxAttemptsFor(NotifOf[c.msg])
         THEN Goto(w, "unlock", "delay")
         ELSE Goto(w, "publish", "failed")

Send(w) ==
    /\ pc[w] = "send"
    /\ \E dr \in Outcomes :
          /\ calls' = calls \union {[msg |-> job[w].msg, attempt |-> job[w].attempt,
                                     accepted |-> dr.accepted]}
          /\ handleDeliveryResult(w, dr)
    /\ UNCHANGED <<faults, queue, buffer, up, job, keys, events>>

\* Mutant of publishStatus: its error is dropped.
PublishErrorIgnored(w) ==
    LET e == [msg |-> job[w].msg, attempt |-> job[w].attempt, status |-> verdict[w]] IN
    /\ pc[w] = "publish"
    /\ \/ events' = events \union {e}
       \/ "publish" \in faults /\ UNCHANGED events
    /\ Goto(w, "unlock", "ack")
    /\ UNCHANGED <<faults, queue, buffer, up, job, keys, calls>>

\* The publish does not look at the context.  When it returns an error the
\* event may be stored all the same.
publishStatus(w) ==
    LET e == [msg |-> job[w].msg, attempt |-> job[w].attempt, status |-> verdict[w]] IN
    /\ pc[w] = "publish"
    /\ \/ events' = events \union {e} /\ Goto(w, "unlock", "ack")
       \/ /\ "publish" \in faults
          /\ events' \in {events, events \union {e}}
          /\ Goto(w, "unlock", "nak")
    /\ UNCHANGED <<faults, queue, buffer, up, job, keys, calls>>

\* Mutant of Unlock: the lock is left to its TTL.
UnlockForgotten(w) ==
    /\ pc[w] = "unlock"
    /\ Goto(w, "settle", verdict[w])
    /\ UNCHANGED <<faults, queue, buffer, up, job, keys, calls, events>>

\* Mutant of Unlock: the message is dropped with the lock.
UnlockDropsJob(w) ==
    /\ pc[w] = "unlock"
    /\ keys' = keys \ {NotifOf[job[w].msg]}
    /\ job' = [job EXCEPT ![w] = NoJob]
    /\ Goto(w, "settle", verdict[w])
    /\ UNCHANGED <<faults, queue, buffer, up, calls, events>>

\* The deferred Unlock deletes the key whoever set it; its error is ignored.
Unlock(w) ==
    /\ pc[w] = "unlock"
    /\ \/ up /\ keys' = keys \ {NotifOf[job[w].msg]}
       \/ (~up \/ "unlock" \in faults) /\ UNCHANGED keys
    /\ Goto(w, "settle", verdict[w])
    /\ UNCHANGED <<faults, queue, buffer, up, job, calls, events>>

\* Mutant of Settled: only failures are settled, with a nak.
SettledByNak(q, v) == Naked(q)

\* What processOne does with the message, by the pipeline's verdict.
Settled(q, v) ==
    CASE v = "ack"   -> Acked(q)
      [] v = "nak"   -> Naked(q)
      [] v = "delay" -> NakedWithDelay(q)

\* The worker settles its message, then goes round its loop or leaves it.
processOne(w) ==
    /\ pc[w] = "settle"
    /\ \/ queue' = [queue EXCEPT ![job[w].msg] = Settled(@, verdict[w])]
       \/ "settle" \in faults /\ UNCHANGED queue
    /\ job' = [job EXCEPT ![w] = NoJob]
    /\ Goto(w, IF up THEN "idle" ELSE "halted", "none")
    /\ UNCHANGED <<faults, buffer, up, keys, calls, events>>

-----------------------------------------------------------------------------
\* The lock key of n expires; under a busy worker only when that is slow.
LockExpires(n) ==
    /\ n \in keys
    /\ "ttl" \in faults \/ Orphaned(n)
    /\ keys' = keys \ {n}
    /\ UNCHANGED <<faults, queue, buffer, up, pc, job, verdict, calls, events>>

\* The context is cancelled.  Each fetch loop naks at most the one message it
\* is handing over and forgets the rest.
Stop ==
    /\ "stop" \in faults
    /\ up
    /\ up' = FALSE
    /\ \E naked \in SUBSET buffer :
          /\ Cardinality(naked) <= Subscriptions
          /\ buffer' = buffer \ naked
          /\ queue' = [m \in Msgs |-> IF \E c \in naked : c.msg = m
                                      THEN Naked(queue[m]) ELSE queue[m]]
    /\ UNCHANGED <<faults, pc, job, verdict, keys, calls, events>>

\* A worker waiting in Next sees the cancelled context and returns.
Halt(w) ==
    /\ ~up
    /\ pc[w] = "idle"
    /\ pc' = [pc EXCEPT ![w] = "halted"]
    /\ UNCHANGED <<faults, queue, buffer, up, job, verdict, keys, calls, events>>

\* A fresh process: empty channels, idle workers.
Fresh ==
    /\ up' = TRUE
    /\ buffer' = {}
    /\ pc' = [w \in Workers |-> "idle"]
    /\ job' = [w \in Workers |-> NoJob]
    /\ verdict' = [w \in Workers |-> "none"]
    /\ UNCHANGED <<faults, queue, keys, calls, events>>

\* Every worker has returned, the process ends and is started again.
Restart == ~up /\ (\A w \in Workers : pc[w] = "halted") /\ Fresh

\* The process dies where it stands and is started again.
Crash == "crash" \in faults /\ Fresh

-----------------------------------------------------------------------------
WorkerStep(w) ==
    \/ TryLock(w)
    \/ applyRateLimit(w)
    \/ Send(w)
    \/ publishStatus(w)
    \/ Unlock(w)
    \/ processOne(w)
    \/ Halt(w)

Broker(m) == Fetch(m) \/ AckWaitExpires(m) \/ DelayElapses(m)

Next ==
    \/ \E m \in Msgs : Store(m) \/ Broker(m)
    \/ \E w \in Workers : WorkerStep(w) \/ \E c \in buffer : Take(w, c)
    \/ \E n \in Notifs : LockExpires(n)
    \/ Stop
    \/ Restart
    \/ Crash

Spec == Init /\ [][Next]_vars

\* Goroutines run, timers fire, an orchestrator restarts the process.  A stop
\* may come between any two fetches, so Fetch needs strong fairness.
Fairness ==
    /\ \A w \in Workers : WF_vars(WorkerStep(w))
    /\ \A m \in Msgs :
          /\ WF_vars(\E w \in Workers, c \in buffer : c.msg = m /\ Take(w, c))
          /\ SF_vars(Fetch(m))
          /\ WF_vars(AckWaitExpires(m))
          /\ WF_vars(DelayElapses(m))
    /\ \A n \in Notifs : WF_vars(Orphaned(n) /\ LockExpires(n))
    /\ WF_vars(Restart)

FairSpec == Spec /\ Fairness

-----------------------------------------------------------------------------
(***************************************************************************)
(* Safety.                                                                 *)
(***************************************************************************)

\* At most one worker is between TryLock and Unlock of one notification
\* (pipeline.go Run), whatever else goes wrong, as long as no worker outlives
\* the TTL of its lock.
MutualExclusion ==
    "ttl" \notin faults =>
    \A v, w \in Workers, n \in Notifs : Holds(v, n) /\ Holds(w, n) => v = w

\* A notification whose messages have all left the queue has had a status
\* event published: neither a lock miss nor a failed call, a crash or an
\* expired lock drops the last message of a notification nobody has reported.
NotificationNotLost ==
    {"stop", "slow", "unlock", "reply"} \intersect faults = {} =>
    \A n \in Notifs :
        (\E m \in MsgsOf(n) : queue[m].st = "gone")
            => Reported(n) \/ \E m \in MsgsOf(n) : Pending(m)

\* A redelivery never publishes a second status event for a message
\* (publishStatus), so the API never sees two verdicts of one message, and the
\* provider never accepts the same message twice (Run calls it again only when
\* it refused), while publishing works and every ack arrives: expired locks do
\* no harm.
OncePerMessage ==
    faults \subseteq {"ttl", "unlock", "redis", "reply", "limit"} =>
        /\ \A d, e \in events : d.msg = e.msg => d = e
        /\ \A c, d \in calls : c.accepted /\ d.accepted /\ c.msg = d.msg => c = d

\* The provider is never called more often for a message than maxAttemptsFor
\* allows, whatever else made the broker deliver it again, as long as outcomes
\* are reported and acks arrive.
CallsWithinBudget ==
    {"slow", "crash", "publish", "settle"} \intersect faults = {} =>
    \A m \in Msgs :
        Cardinality({c \in calls : c.msg = m}) <= maxAttemptsFor(NotifOf[m])

\* When NATS gives up on a message (MaxDeliver) that nobody reported, the
\* provider was never called on the last permitted attempt or later: such a
\* call always ends in a status event (handleDeliveryResult), unless it is cut
\* short or cannot be published.
ExhaustionOnlyBeforeLastCall ==
    {"slow", "crash", "publish"} \intersect faults = {} =>
    \A m \in Msgs :
        Exhausted(queue[m], MaxDeliver) /\ ~Reported(NotifOf[m])
            => \A c \in calls : c.msg = m => c.attempt < maxAttemptsFor(NotifOf[m])

\* From every call on, RetryDelay keeps the schedule of its tests, to whatever
\* attempt number rate limits and lock errors move the next call, as far as the
\* conversion does not overflow.  The retry then also comes after the lock (10s)
\* of the failed call has expired, so that it is not taken for one in work when
\* Unlock failed too.
DelayOnSchedule == \A c \in calls : c.attempt + 1 .. LastSound \subseteq OnSchedule

\* A step in which TryLock misses while another worker is at the notification,
\* or in which nobody misses.
MissedBusy ==
    \A w \in Workers :
        pc[w] = "lock" /\ verdict'[w] = "ack"
            => \E v \in Workers : Holds(v, NotifOf[job[w].msg])

\* A message is acked on a lock miss only while another worker is between the
\* TryLock and the Unlock of the notification (pipeline.go Run), provided that
\* nobody leaves a key behind: also when locks expire under busy workers.
MissMeansBusy ==
    [][{"stop", "crash", "unlock", "reply"} \intersect faults = {} => MissedBusy]_vars

(***************************************************************************)
(* Liveness.                                                               *)
(***************************************************************************)

\* Every published message is acked or runs out of deliveries: no lock, crash
\* or stop leaves it in flight or delayed for ever.
EventuallySettled ==
    \A m \in Msgs :
        queue[m].st = "ready"
            ~> queue[m].st = "gone" \/ Exhausted(queue[m], MaxDeliver)

\* Every published notification gets a status event when calls may fail, time
\* out or outlive the lock, but nothing else spends its deliveries.
EventuallyReported ==
    \A m \in Msgs :
        faults \subseteq {"ttl", "timeout"} /\ queue[m].st = "ready"
            ~> Reported(NotifOf[m])
=============================================================================

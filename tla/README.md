# A TLA+ model of the notification system

The repository is three Go services around one NATS JetStream work-queue stream (`NOTIFICATIONS`,
subjects `notify.>`), with PostgreSQL and Redis behind them:

```
 client --HTTP--> api --notify.high|normal|low----------------------> processor --HTTP--> provider
                  ^ |                                                   |   (Redis: lock, rate limit)
                  | +--notify.scheduled, ...cancelled--> deliveryscheduler
                  | +<-------------scheduled due--------------+ |
                  +<-------------------notify.status------------|-------+
```

The modules translate that code; nothing is taken from the documents except the claim that the one
violating run refutes. Source paths below are relative to `src/`.

## Inventory

| component | state | operations | talks to |
|---|---|---|---|
| api, notification service (`api/internal/service`, `.../http`, `.../db/postgres`) | table `notifications` | create, create batch, cancel, record a result | publishes ready, scheduled and cancelled events; answers clients |
| api, delivery result consumer (`.../delivery_result_consumer.go`) | none of its own | read, check the transition, update, ack or nak | consumes `notify.status` |
| api, scheduled due consumer (`.../scheduled_due_consumer.go`) | a batch in memory, indexed by id | bulk query, publish, ack or nak each | consumes due events, publishes ready events |
| deliveryscheduler (`deliveryscheduler/internal`) | table `scheduled_notifications`, claimed rows in memory | upsert, delete, claim, publish a batch, put back | consumes scheduled and cancelled events, publishes due events |
| processor, priority router (`processor/internal/delivery/priorityrouter.go`) | shared cursor | `Next` | between three channels and the workers |
| processor, pipeline (`.../pipeline.go`) | none of its own | lock, rate limit, send, report, unlock | Redis, provider, publishes results |
| Redis lock (`shared/lock/redis.go`) | a key with a TTL per notification | `SET NX`, `DEL` | used by the pipeline |
| subscriber, publisher, loops (`shared/messaging/nats`) | channels with fetched messages | fetch, decode, hand over, nak on cancellation, publish, publish a batch | JetStream |
| api, create handlers (`http/notification.go`, `dtos.go`, `models.go`) | the items of one request and their results | validate, build the entity, store, announce, answer by position | the service |
| api, list (`http/notification.go`, `notification_repo.go`) | none; the client keeps the position | count, select, next cursor | PostgreSQL |
| processor, back-off (`service/retry.go`) | none | `RetryDelay` | used by the pipeline |

What is hard here: several workers and several instances of every service; every message may be
delivered again (nak, AckWait of 60 s, lost ack); a handler makes several calls to different systems
and any of them may fail, take effect without an answer, or be cut short by a crash or by the
cancelled context; status checks and status updates are different statements; the events that
schedule and cancel one notification are not ordered; retries are counted by the broker.
`PROJECT.json` lists these hazards at their lines with the properties that are about them.

What makes each part correct, and where it is checked:

- pipeline: one worker per notification at a time; no notification dropped without a status event;
  calls within the limit; every message settled in the end;
- router: no priority starves; shutdown ends the workers;
- scheduler: never early, never lost, once, not after an effective cancel, eventually;
- api service: one verdict per notification; what clients and other services are told is true;
  results are recorded;
- scheduled due consumer: a due event is not acked before its ready event, and is answered in the end;
- create: every item is answered at its position with its own row, a rejected item is never announced;
- list: which walks show everything once, although rows are written between any two statements;
- subscriber: a message is with one process, a message that cannot be decoded holds nobody up,
  cancellation ends both loops;
- back-off: the schedule of the tests, and never shorter than a lock can live;
- the services together: a notification's row tells the truth about the provider's answers, nothing
  is sent early, and what a client was told is created gets an outcome.

## Modules

`JetStream` is the vocabulary of the broker as the code uses it: a message is not yet published,
ready, in flight, delayed by a nak, or gone; a bounded consumer counts deliveries. The broker is
external and modelled from its use (explicit acks, `AckWait`, `MaxDeliver`, `NakWithDelay`). An ack
of an old delivery removes the message, a nak of an old delivery puts an outstanding message back.

The modules of the services have a variable `faults`: the classes of adverse conditions (a lost
reply, a failed publish, a crash, ...) the behaviour may meet, chosen in the initial state from the
constant `FaultSets` and never changed. A fault enables extra outcomes of the ordinary actions, never
new behaviour of the code. Properties say in their first line for which `faults` they are stated, so
that one run checks every property under its own conditions, and a theorem covers every choice. A
smaller set of faults allows fewer behaviours, so runs list only the widest ones.

| module | code | state and actions |
|---|---|---|
| `DeliveryPipeline` | `pipeline.go`, `notification_ready_consumer.go`, `redis.go`, `ntfndeliveryclient.go`, `ratelimit.go` | `pc[w]` is the call worker `w` makes next; `TryLock`, `applyRateLimit`, `Send` (with `handleDeliveryResult`), `publishStatus`, `Unlock`, `processOne` in the order of `Run`. `keys` are the lock keys in Redis: `LockExpires`, `Unlock` deletes without asking whose key it is. `Stop` cancels the context: calls of running workers fail from then on, the unlock too. `calls` and `events` are histories of what the provider and the broker saw |
| `PriorityRouter` | `priorityrouter.go`, `StartMessageProcessing` | every receive of `Next` is a step: `CallNext` (cursor), `TrySlot`, `Scan`, `Park`, `Finish`; `Arrive`, `Close` and `Cancel` are the other side of the channels. The cursor is kept modulo the slots |
| `DeliveryScheduler` | `deliveryscheduler/internal` | a goroutine per instance and durable (`Take`, `Write`, `Settle`) and a dispatcher per instance (`Claim`, `PublishBatch`, `Requeue`) on one `table`. `Claimable` states what `DELETE ... FOR UPDATE SKIP LOCKED` may return |
| `NotificationService` | `service/notification.go`, `http/notification.go`, `delivery_result_consumer.go`, `models.go` | requests step through `persist`, `publish` or `ReadForCancel`, `WriteCancelled`, `PublishCancelled`; the consumer through `ReadForResult`, `WriteResult`, `SettleResult`. Reading and writing a row are different steps, as they are different statements |
| `ScheduledDue` | `scheduled_due_consumer.go`, `SubscribeBatch` | `FetchBatch`, `Take` (which fills `resultByID`: of two messages for one id one stays), `Lookup`, `Each`, `Settle` |
| `RetryBackoff` | `service/retry.go` | operators only: `RetryDelay(n)` is the set of delays the function may return, with the conversion to int64 nanoseconds (`Converted`), the cap and the wrap-around of the sum. `DeliveryPipeline` extends it and states what must hold of the delay after each of its calls |
| `CreateRequest` | `http/notification.go` create and createBatch, `dtos.go`, `models.go`, `CreateBatch` | one request step by step with the contents of its items: validation, entities, the INSERT that takes everything back, the events by topic, the answer by position (`InOrder` is the loop that appends the items of one kind to a list) |
| `NotificationReads` | `http/notification.go` list, `notification_repo.go` List | `Count` and `SelectPage` are the two statements of a page, `Start` the client's next walk; `Insert`, `UpdateStatus` and `Tick` write between them. `Select` states what ORDER BY, LIMIT and OFFSET may return when keys tie |
| `Subscriber` | `subscriber.go`, `foreach.go` | the fetch loop (`LoopTop`, `Fetch`, `Decode`, `Send`, `GiveUp`) and the handler loop (`Take`, `Finish`, `EndHandler`) of each process, the durable consumer they share, cancellation, crash, restart |
| `NotificationLife` | none: it is the abstract specification | what a client can rely on: `Create`, `Try`, `Record`, `Cancel`, a clock |
| `EndToEnd` | the messages between the services | instances of the four service modules; an action that publishes is joined with the arrival of the message in the next queue (`Announce`, `Withdraw`, `DispatchDue`, `Ready`, `ReportBack`), every other step is one module's with the rest unchanged |

`MC*` modules only supply constants. The eight `*Proofs` modules hold the theorems. Definitions marked
"Mutant of" are deliberate errors next to the definition they distort; each shows that a property would
notice that error.

`EndToEnd` implements `NotificationLife` by the refinement mapping of its instance `Life`: the
status is the row, the verdict is the first outcome the row ever held, a notification is tried or
sent when the history of calls says so. The abstract specification does not order a cancellation
and a verdict, and allows more than one call, because the code does neither; it does forbid a call
before the row exists or before its time, an outcome that no answer of the provider supports, and
two different outcomes. In the composition the due consumer's lookup always finds a row:
`AnnouncedInOrder` (run `Service`) says that no schedule is announced without one.

Calls are atomic, a handler is not: between two calls every other process may run. A call that
fails may have had its effect (fault `reply`, a failed publish, a cancelled context).

## Runs

Deadlock is checked in `Subscribe`, where something can always happen. In the other runs it is not: a
queue that is empty and stays empty is a legal end.

| run | shows | instance |
|---|---|---|
| `Pipeline` | `MutualExclusion` (every condition but expiring locks), `NotificationNotLost` (every one but stops, slow handlers, failed unlocks, lost lock replies), `OncePerMessage`, one report and one accepted call (expiring locks, failed unlocks, lost replies, rate limits), `MissMeansBusy` (all but what leaves a key behind) | 2 workers, 2 messages of one notification, 2 deliveries each |
| `PipelineRetries` | `CallsWithinBudget`, `ExhaustionOnlyBeforeLastCall` (all but slow handlers, crashes, failed publishes and, for the first, lost settles); `DelayOnSchedule` after every call that is made; `EventuallySettled`; `EventuallyReported` with time-outs and expiring locks | 2 workers, 2 messages, 2 attempts, 3 deliveries |
| `Scheduler` | `NeverEarly` (always), `ScheduleNotLost` (failed statements and batches, redeliveries, lost acks), `DispatchedOnce` (while publishes and acks work), `RemovedStaysOut` (also when batches fail and are put back, or not), `EventuallyDispatched` (statements and publishes fail, or acks are lost) | 2 instances, a schedule of 2 of which one is cancelled |
| `Service` | `OneVerdict`, `AnnouncedInOrder`, `CancelIsDone`, `ReportedIsRecorded` with failing statements and publishes, lost acks, crashes, redeliveries | 2 requests, 2 notifications (one scheduled), both verdicts on one |
| `Router` | `BoundedOvertaking`, `OneLateMessage`, `NotStarved`, `Stops` | weights 3, 2, 1; 2 workers; 1 message per channel |
| `Due` | `DueNotLost`, `EventuallyReadied` (without crashes) | 3 due events, two of one notification, one unknown, one batch |
| `Create` | `EachItemAnswered`, `AnnouncedAsAnswered` for every mix of failing UUIDs, INSERT and publishes | all bodies of up to 3 items of 4 kinds, each kind of invalid item, one item too many |
| `Reads` | `KeysetShowsEachOnce` (a cursor in every request), `DefaultOrderShowsAll` (first page without, ids in the order of distinct times), `OffsetShowsAll` (by page number, distinct times, without a status filter), `CountAgreesWithSelect` | 3 rows, 9 kinds of walk, pages of 1, 2 and 3 |
| `Subscribe` | `OneOwner`, `GoodAreHandled`, `CancelledEnds` | 2 processes, 3 messages of which one cannot be decoded; `Subscribe` with 2 deliveries, `SubscribeBatch` without a limit |
| `EndToEnd` | `ImplementsLife`, `AcceptedOnce` and `RemovedIsNotSent` with failing statements; `ImplementsLife`, `RemovedIsNotSent` and `AcceptedIsResolved` with time-outs and expiring locks | one scheduled notification, 2 racing requests, 2 attempts |
| `EndToEndFaults` | `ImplementsLife` when processes die, are stopped, or publishes fail | one immediate notification, 2 racing requests, 1 attempt, no clock |
| `EndToEndCancelledSent` | a violation: `api/README.md:132` says of `cancelled` "cancelled via API before delivery"; a cancel that finds the row claimed by the dispatcher deletes nothing, and the due consumer sends the notification whatever its status, after the client got 200 | as `EndToEnd`, no faults |

Every module has a type invariant `TypeOK`. `Pipeline` and `Scheduler` check theirs, which the proofs build
on; it is proved wherever there is a proof module, and elsewhere says what values the variables take.

### Disagreements

Other claims of documents and comments that the code does not keep are the reason for a condition in
a property, or were seen while modelling; they have no run of their own.

- `processor/README.md:139`: exhausted retries are published. `MaxDeliver` (`app.go:75`) drops a
  message that is rate-limited on its last deliveries silently (`ExhaustionOnlyBeforeLastCall` says
  when that can happen).
- `pipeline.go:64`: a lock miss means that another worker is at it. After a stop the key is an orphan,
  because Unlock runs in the cancelled context, and the redelivery is acked (`MissMeansBusy` excludes
  stops).
- `pipeline.go:80-82`: a rate limit does not count "against MaxAttempts". `NumDelivered` is the attempt
  number, so it does, for the budget and for the back-off.
- `retry.go:16`: the formula uses `attempt-1`, the code `attempt-2`; the cap is applied after the
  conversion to int64, which overflows from attempt 30 on (`LastSound` is 29).
- `deliveryscheduler/README.md:3`: republished once due. A stop between claim and publish loses the
  rows (`ScheduleNotLost` excludes stops). `deliveryscheduler/README.md:5`: "no duplicate processing".
  A half published batch is put back whole.
- The cancel consumer (lines 13-14): "the dispatcher never publishes it". Not so for a claimed row or
  one that is not stored yet.
- `api/README.md:134`: "optimistic locking". The update is by primary key only, and a result and a
  cancel overwrite each other.
- `api/README.md:172`: results are acknowledged. A refused transition is nacked for ever.
- `api/README.md:157`: only pending notifications are sent. `handleBatch` does not look at the status;
  `api/README.md:154-160` describes a polling goroutine that does not exist (`FindScheduledDue` has no
  caller).
- `notification.go:89`: the cursor "returns items strictly before it". The first page is sorted by a
  time and the next one by id: rows of one batch share `created_at` and may be repeated or skipped,
  and so may rows in any order but the default.
- `notification.go:58`: an unknown id is 404. `errHandler` has no case for it: 500.
- `processor/README.md:169`: four attempts by default. `GetMaxAttempts` makes it 1, and the event
  carries that.
- `README.md:198`: no duplicate sends. A status event that cannot be published repeats an accepted call.

### Bounds

Two workers or instances are what a race needs: the lock, the table and the queue see pairs of
actors. Two messages for one notification come from the scheduler publishing twice. Attempt limits of
one and two, with deliveries up to `ConfigMaxAttempts + 1`, reach the last attempt, the one after it
and exhaustion. The fault sets of a safety run are the widest each property is stated for, except
where the product is out of reach: `Scheduler` takes slow handlers and some pairs of failures not at
all, and stops one of its instances while one notification is due (`NeverEarlyTheorem` and `ScheduleKeptTheorem` cover every set), and `PipelineRetries` checks `EventuallySettled` without crashes and slow
handlers.

Named bounds: `MaxCopies` (unhandled deliveries of a message in a process), `MaxTime` (a clock),
`Capacity`, `Waiting` and `ChanCap` (channels; 32 and 4 in the code), `Batch`, `BatchSize`,
`FetchSize`, `MaxItems` (1000 in the code), `DefaultPageSize` and `MaxPageSize` (20 and 100, scaled to 2
and 3 rows so that both the default and the cap fall inside a table of three), `Stops` (which
schedulers may be told to stop, and when), `MaxStops` and `MaxExpiries` (cancellations and crashes,
and AckWaits that run out under a process, of a subscriber), `LastSound` (attempts whose delay is computed without overflow). Histories that count stop
at two, where a property is broken already.

The composition has one process of each kind and one worker: races between equals are the subject
of the components' own runs. `Duplicates` bounds the due events and the ready events stored for one
notification; a further duplicate is not carried on. Two are enough for the second to compete with the
first. `EndToEndFaults` uses one of each, an immediate notification, one attempt and no clock (nothing
in it waits for one), because crashes of four processes multiply the states.

Symmetry is used for workers and for the messages of one notification in `Pipeline`, and for the
requests in `EndToEndFaults`. Neither run checks liveness (`ImplementsLife` is an initial predicate and
a box of actions), and their constants do not tell the permuted values apart.

### Fairness

`FairSpec` assumes: a goroutine that can run does; the broker hands out what is ready and its timers
run out; locks expire; a stopped process is started again (the operator's doing: a deployment;
the compose file has no restart policy); time passes. Strong fairness is used where the code retries without a bound and the claim is
conditional on the call working at last:

- `DeliveryPipeline`: `Fetch` only, for a stop may come between any two fetches;
- `DeliveryScheduler`: fetching, storing and acking a schedule, and a publish that succeeds; all else
  is weak, and asks only that not all consumers of a durable, nor all dispatchers, stand still;
- `NotificationService`, `ScheduledDue`: fetching, taking from the channel, and the statement, publish or ack that is tried again and again;
- `Subscriber`: a fetch is not always empty while the broker has messages;
- `EndToEnd`: weak fairness only; where calls may fail it promises nothing, which is why
  `AcceptedIsResolved` is stated for time-outs and expiring locks;
- `PriorityRouter`: that workers run. `BoundedOvertaking` and `NotStarved` are what justifies weak
  fairness of `Take` in `DeliveryPipeline`.

## Proofs

For all values of the constants, from the named assumptions of the modules (`PipelineAssumption`,
`SchedulerAssumption` and so on: limits are natural numbers, messages belong to notifications, there are
finitely many workers). Nothing is assumed of `FaultSets`: that a run names no unknown class is an
ASSUME of its MC module. Each theorem is `Spec => []P` (or `Spec => P` for an action property) of exactly
the `P` that a run checks, the type invariants and what is listed below as a theorem of its own apart; the
conditions on `faults` are part of `P`. An inductive invariant has the
form condition => invariant, and a lemma says that `faults` never changes.

`DeliveryPipelineProofs`:

- `TypeCorrect`: the type invariant.
- `ExclusionTheorem`: `MutualExclusion`, stated for behaviours in which no lock expires under a live
  worker. It is not inductive; the invariant adds that whoever is between TryLock and Unlock has its key in Redis, so
  the next TryLock misses.
- `MissTheorem`: `MissMeansBusy` without stops, crashes, failed unlocks and lost lock replies. The
  invariant is the converse: every key in Redis has a worker at it.
- `NotLostTheorem`: `NotificationNotLost` without stops, slow handlers, failed unlocks and lost lock
  replies. The invariant says of every worker about to ack why it may: the notification is
  reported, or another message of it is still there (`AckExplained`), and of every key why it is
  there (`KeyExplained`); it needs that a message has one live copy (`SingleCopy`), which is why
  slow handlers are excluded.
- `LastCallTheorem`: `ExhaustionOnlyBeforeLastCall`. `LastCallInv` adds that a last permitted call whose
  outcome is not published yet is in the hands of a worker on its way to publish it.
- `OnceTheorem`: `OncePerMessage`. `SingleEffectInv` says that a message with an accepted call or a status
  event is in no buffer and in no worker before its call any more, so that nobody can make a second.
- `BudgetTheorem`: `CallsWithinBudget`. `BudgetInv` bounds every call's attempt number by the limit and by
  the broker's count and says that calls of one message differ in it; the set of calls then injects into
  `1 .. maxAttemptsFor` (`BoundedByAttempt`, with `FiniteSetTheorems`).
- `DelayTheorem`: `DelayOnSchedule`. No call has attempt 0, and from attempt 1 on every delay of
  `RetryDelay` lies within the jitter of `Schedule` (`AllOnSchedule`): the conversion does not wrap below
  `LastSound` (`WrappedSmall`), and from the fourth retry on the cap decides.

`DeliverySchedulerProofs`:

- `SchedulerTypeCorrect`: the type invariant.
- `NeverEarlyTheorem`: `NeverEarly` whatever fails; the invariant adds that claimed rows are due.
- `ScheduleKeptTheorem`: `ScheduleNotLost` while claims are answered, rows can be put back and no
  instance stops or dies. The invariant adds that a goroutine about to ack a schedule has its rows
  placed (in the table, claimed, dispatched or removed); its key lemma is that a notification that
  has a place keeps one, and that only its own ack makes a message disappear.
- `DispatchedOnceTheorem`, `RemovedStaysOutTheorem`: `DispatchedOnce` and `RemovedStaysOut`. Both have a
  hypothesis, `ScheduledInOneEvent`: no notification is an item of two schedule messages. The code
  justifies it: an id is drawn for one request, which announces it in at most one event
  (`CreateBatch`). Without it two events would insert a row again after its dispatch. `OnceInv` says that a
  notification is in one place: in an event that nobody has stored, in the table, in one instance's claim,
  dispatched, or removed. The steps need less than the hypothesis: that no two messages that *were
  published* share an item (`AskedOnce`), which the composition proves (`DispatchedOnceHere`).

`NotificationServiceProofs`:

- `ServiceTypeCorrect`: the type invariant.
- `AnnouncedInOrderTheorem`, `CancelIsDoneTheorem`: `AnnouncedInOrder` and `CancelIsDone` whatever fails.
  `ServiceInv` adds what a request in hand has done by each step of it (`InHand`).
- `OneVerdictTheorem`: `OneVerdict`. `VerdictInv` adds that an id belongs to one request (`IdsOnce`), that a
  verdict in a row's past is still its status or was overwritten by a cancel (`Outcome`), and what the
  only consumer may write after its read (`WritesOnce`).

`ScheduledDueProofs`: `DueTypeCorrect`, and `DueNotLostTheorem`: `DueNotLost` for any batches, crashes and
faults. `DueInv` says of every message that a consumer is about to ack that its ready event is
stored. A second invariant, `OnceInv`, has no theorem of its own and serves the composition: while
publishing works, acks arrive in time and nobody dies, a due event is with one consumer, in one place,
and gets one ready event.

`PriorityRouterProofs`:

- `RouterTypeCorrect`, `OneLateMessageTheorem`: the types, and `OneLateMessage`; `LateInv` adds that a
  worker inside `Next` has been handed nothing since the cancellation.
- `BoundedOvertakingTheorem`: `BoundedOvertaking` for any weights and any number of workers. The invariant
  is a potential: what source `s` was overtaken, the calls under way, the slots of other sources up to
  its next one, and a round of them for every further free worker, are together within the bound
  (`RoomFor`). A worker that is sent to a slot of `s` while `s` has messages is stuck there until it
  takes one, so every round costs the others a worker. The lemmas on the slots (`SlotsCover`) say what
  `FlattenSeq` makes of the weights: a run of slots for each source, as long as its weight. Its
  recursive definition is unfolded by a least counterexample (`Least`, from the library's
  `WellFoundedInduction`).

`NotificationReadsProofs` (`ReadsAssumption`: finitely many ids, positive page sizes):

- `KeysetTheorem`, `DefaultOrderTheorem`: `KeysetShowsEachOnce` and `DefaultOrderShowsAll` for any rows, page
  sizes and concurrent writes. `CursorInv` adds where the walk stands: what was shown lies at or above
  the cursor, what still matches and was not shown lies below it. The lemma `CursorPage` is about one
  select: its page lies below the cursor and leaves no row at or above its own last one. For the
  default order it also needs that the first page, by `created_at`, ends at the same row by id.
- `OffsetTheorem`: `OffsetShowsAll`. `OffsetInv` says that every row still to be shown has at least
  `(page - 1) * pageSize` rows ahead of it; a write only adds to them (`AheadGrows`), and the select
  takes whatever has fewer than `page * pageSize` ahead (`OffsetPage`).
- `CountTheorem`: `CountAgreesWithSelect`. While nothing is written the last count is the number of rows
  that match, and a further page is asked for only when some of them lie beyond the last one; the
  rest is the arithmetic of rounding up (`RoundedUp`).

`EndToEndProofs` (`EndToEndAssumption`, and that `Nothing` is no message):

- `LifeTheorem`: `Spec => ImplementsLife`, the refinement of `NotificationLife` by the four components,
  for any notifications, requests, instances and workers and under every fault. The components'
  proof modules are instantiated with the substitutions of `EndToEnd`; `ApiIsService` and its three
  siblings say that either instance of an action is the same, so that what a component's module proves
  of its own steps is cited, never proved again. `LifeInv` is the conjunction of what the components rely
  on (`RelyInv` of each: what they have in memory was published; a row belongs to its history; whatever
  was dispatched was due and asked for; an outcome is supported by a call) and of four ties,
  one for each queue: a message in it tells the truth about the component that put it there
  (`ReadyTold`, `ScheduleTold`, `DueTold`, `ResultTold`). The ties stay true because rows are never deleted,
  time goes on and histories grow. `ServiceView` and its siblings say what a step of the whole is for
  one component; `OneMoves`, that no step changes two of the rows, the clock and the calls; and
  `RowStepIsLife`, `ClockStepIsLife` and `CallStepIsLife` map every step to one of `NotificationLife`'s
  or a stutter.

- `AcceptedOnceTheorem`, `RemovedIsNotSentTheorem`: `AcceptedOnce` and `RemovedIsNotSent`. `OnceInv` follows
  a notification along its way: its schedule message names what was announced with it and never before
  (`ScheduleAnnounced`, `Scheduler!AskedOnce`), the nth due event is that of the nth dispatch (`DueTold`), a
  ready event that of a turn of its due event (`ReadyCounted`), a call is made for a stored ready event
  (`CallsStored`). These hold under every fault; with them go the invariants by which each component
  repeats nothing, each under the faults its part stands (`ComponentsOnce`). While nothing is lost,
  therefore, one ready event stands for a notification (`OneReady`), and the provider accepts that once. What
  a cancel removed from the table was not dispatched, so no ready event leads to a call.
- `AnnouncedNotLostTheorem`: what the API announced has a status event, or is in a stream, in the table, in
  a dispatcher's hands, or was removed by a cancel: no hand-over loses a notification, while acks arrive in
  time, claims, put-backs and unlocks work and no process ends. `CarriedInv` is the converse of the ties: what a
  component has told is stored for the next one (`AnnouncedCarried`, `DispatchedCarried`, `ReadiedCarried`);
  each of these histories grows in one action only (`OnlyAnnounce` and its siblings). The rest is the
  components' own `ScheduleNotLost`, `DueNotLost` and `NotificationNotLost`, which hold in the composition
  (`NothingLostHere`, `DueNotLostHere`). This property is stated by the theorem only.
- `ServiceImplemented`, `SchedulerImplemented`, `ProcessorImplemented`: the composition is a behaviour of each
  of these components, so that every theorem about one holds here. The due consumer is no such case:
  a published batch stores several due events in one step (`StoresDueInv` and its siblings are about that).

`CreateRequestProofs` (`RequestTypeCorrect`, `AnnouncedAsAnsweredTheorem`, `EachItemAnsweredTheorem`): both
properties of the run for any body, limits and mix of failing calls. `RequestInv` says at each step of the
request what the lists that are zipped by position say of each other: the valid items, their entities,
the rows, and the topics announced so far. `InOrderLists` is the lemma about the loop that builds such a list: it
is increasing, without repetition, and has the members of its set; it is proved by a least counterexample,
as `InOrder` is a recursive function. `Complement` and `ListLength` make the rejected and the valid
positions add up to the body.

Only model-checked: everything about liveness (the prover does not reason about fairness and
ENABLED): `EventuallySettled`, `EventuallyReported`, `EventuallyDispatched`, `ReportedIsRecorded`,
`EventuallyReadied`, `NotStarved`, `Stops`, `GoodAreHandled`, `CancelledEnds`, `AcceptedIsResolved`. Of
the safety properties only `OneOwner` of the subscriber has no proof: it is about what `SelectSeq`,
`SetToSeq` and a fold over the channel compute for every input, which takes induction over data.

## Not modelled

How long a delay really takes: any delay may end at any time, `RetryDelay` apart, which is a function.
The token bucket of the rate limiter: a call meets an empty bucket or it does not. `GET` of one
notification, which reads one row and changes nothing; filters of the list on columns that never
change. Metrics, tracing, logging, configuration, health checks, middleware. The deletion of a
durable consumer by the client library when a subscription is drained on shutdown; a fetch that completes
after the cancellation. The handlers of `Subscriber` ack everything: what a handler's nak does is in
the modules of the services. In the modules of the services every payload can be decoded.

## Plan

Done, in this order: pipeline, service, scheduler, router, due consumer; the composition with its
abstract specification; the back-off; the list; the create request; the subscriber; proofs for the
pipeline, the scheduler, the list, the service, the due consumer, the router, the refinement of
`NotificationLife`, the create request, and what the composition repeats and loses.

1. Proof of `OneOwner` of the subscriber, with the broker's queue as a function from messages to
   positions instead of a sequence.
2. Abstract specifications one level down: a set of schedules that the scheduler implements, a lock
   that `keys` implements under the assumptions of `ExclusionTheorem`.
3. The order of shutdown in the three `app.go` files: which of HTTP server, consumers, dispatcher and
   connections ends first.
4. The rate limiter's token bucket as the Lua script of its library computes it.

------------------------ MODULE NotificationService ------------------------
(***************************************************************************)
(* The API service: HTTP requests create and cancel notifications while    *)
(* the DeliveryResultConsumer records what the processor reports.  Each of *)
(* them reads and writes the notifications table and publishes events in   *)
(* separate calls, so every call is an action here and the calls of        *)
(* different requests and of the consumer interleave.                      *)
(***************************************************************************)
EXTENDS JetStream

CONSTANTS
    Notifs,     \* the notifications that may be created
    Scheduled,  \* those with a deliver_after
    Requests,   \* the HTTP requests, each served by a goroutine of its own
    Consumers,  \* the result consumers, one in every API process
    Results,    \* the result messages the processor may publish
    ResultOf,   \* ResultOf[m]: the notification and the status m reports
    NoResult,   \* what an idle consumer handles
    MaxCopies,  \* bound on the unhandled deliveries of one message
    FaultSets   \* the sets of adverse conditions to consider

(***************************************************************************)
(* "db"       a query fails; a failed write may have been applied          *)
(* "publish"  publishing fails; the event may have been stored             *)
(* "slow"     a result waits longer than AckWait in the process            *)
(* "settle"   an ack or nak does not reach the broker                      *)
(* "crash"    the API processes die and are started again                  *)
(***************************************************************************)
FaultClasses == {"db", "publish", "slow", "settle", "crash"}

Statuses == {"pending", "delivered", "failed", "cancelled"}

ASSUME ServiceAssumption ==
    /\ Scheduled \subseteq Notifs
    /\ ResultOf \in [Results -> [notif : Notifs, status : {"delivered", "failed"}]]
    /\ NoResult \notin Results
    /\ MaxCopies \in Nat \ {0}

VARIABLES
    faults,   \* the adverse conditions this behaviour may meet
    row,        \* row[n]: the status column of n, "absent" without a row
    past,       \* history: past[n], every status n has had
    announced,  \* the notifications for which an event was stored
    withdrawn,  \* the notifications for which a cancel event was stored
    pc,         \* pc[r]: the call request r makes next
    op,         \* op[r]: what request r asks for
    todo,       \* todo[r]: persisted and still to be announced by r
    reply,      \* reply[r]: the HTTP status sent to the client, 0 before
    accepted,   \* history: the ids clients were told are created
    queue,      \* queue[m]: result m as JetStream sees it
    buffer,     \* buffer[m]: deliveries of m waiting for the consumer
    cpc,        \* cpc[c]: the call consumer c makes next
    cjob,       \* cjob[c]: the result consumer c handles
    cverdict    \* cverdict[c]: how it will be settled

serviceVars == <<row, past, announced, withdrawn>>
requestVars == <<pc, op, todo, reply, accepted>>
consumerVars == <<queue, buffer, cpc, cjob, cverdict>>
vars == <<faults, serviceVars, requestVars, consumerVars>>

Ops == [kind : {"create", "batch", "cancel"}, items : SUBSET Notifs]

NoOp == [kind |-> "none", items |-> {}]

RequestSteps == {"new", "persist", "announce", "read", "write", "withdraw", "done"}

Replies == {0, 200, 201, 207, 404, 409, 500}

TypeOK ==
    /\ faults \in FaultSets
    /\ row \in [Notifs -> Statuses \union {"absent"}]
    /\ past \in [Notifs -> SUBSET Statuses]
    /\ announced \subseteq Notifs
    /\ withdrawn \subseteq Notifs
    /\ pc \in [Requests -> RequestSteps]
    /\ op \in [Requests -> Ops \union {NoOp}]
    /\ todo \in [Requests -> SUBSET Notifs]
    /\ reply \in [Requests -> Replies]
    /\ accepted \subseteq Notifs
    /\ queue \in [Results -> [st : QueueStatus, count : Nat]]
    /\ buffer \in [Results -> 0 .. MaxCopies]
    /\ cpc \in [Consumers -> {"idle", "read", "write", "settle"}]
    /\ cjob \in [Consumers -> Results \union {NoResult}]
    /\ \A c \in Consumers : cpc[c] # "idle" => cjob[c] \in Results
    /\ cverdict \in [Consumers -> {"ack", "nak"}]

-----------------------------------------------------------------------------
\* The transitions the domain allows.
validTransitions ==
    [from \in Statuses |->
        CASE from = "pending" -> {"delivered", "failed", "cancelled"}
          [] from = "failed" -> {"pending"}
          [] OTHER -> {}]

\* Mutant of Transition: the domain is not asked.
TransitionUnchecked(from, to) == TRUE

\* Asking for the status a notification already has is no error.
Transition(from, to) == from = to \/ to \in validTransitions[from]

\* Statement UPDATE ... SET status, by primary key only.
SetStatus(n, s) ==
    /\ row' = [row EXCEPT ![n] = s]
    /\ past' = [past EXCEPT ![n] = @ \union {s}]

\* The repository's INSERT of the notifications in S, all or none.
Insert(S) ==
    /\ row' = [n \in Notifs |-> IF n \in S THEN "pending" ELSE row[n]]
    /\ past' = [n \in Notifs |-> IF n \in S THEN past[n] \union {"pending"} ELSE past[n]]

\* A failing write: the error may hide that it was applied.
Fails(write) == "db" \in faults /\ (write \/ UNCHANGED <<row, past>>)

\* The ids no request has been given yet: the service generates fresh ones.
FreshIds == {n \in Notifs : \A r \in Requests : op[r].kind # "cancel" => n \notin op[r].items}

Init ==
    /\ faults \in FaultSets
    /\ row = [n \in Notifs |-> "absent"]
    /\ past = [n \in Notifs |-> {}]
    /\ announced = {}
    /\ withdrawn = {}
    /\ pc = [r \in Requests |-> "new"]
    /\ op = [r \in Requests |-> NoOp]
    /\ todo = [r \in Requests |-> {}]
    /\ reply = [r \in Requests |-> 0]
    /\ accepted = {}
    /\ queue = [m \in Results |-> Unpublished]
    /\ buffer = [m \in Results |-> 0]
    /\ cpc = [c \in Consumers |-> "idle"]
    /\ cjob = [c \in Consumers |-> NoResult]
    /\ cverdict = [c \in Consumers |-> "nak"]

\* Request r goes on to step s.
Goto(r, s) == pc' = [pc EXCEPT ![r] = s] /\ UNCHANGED reply

\* Request r is answered with code.
Respond(r, code) ==
    /\ pc' = [pc EXCEPT ![r] = "done"]
    /\ reply' = [reply EXCEPT ![r] = code]

-----------------------------------------------------------------------------
\* A request arrives: POST of one or of several notifications, or a cancel.
Arrive(r) ==
    /\ pc[r] = "new"
    /\ \E o \in Ops :
          /\ o.kind = "batch" \/ \E n \in Notifs : o.items = {n}
          /\ o.kind # "cancel" => o.items \subseteq FreshIds
          /\ op' = [op EXCEPT ![r] = o]
          /\ Goto(r, IF o.kind = "cancel" THEN "read" ELSE "persist")
    /\ UNCHANGED <<faults, serviceVars, todo, accepted, consumerVars>>

\* Create and CreateBatch first INSERT.  A batch whose INSERT fails is answered
\* 207 with every item rejected.
persist(r) ==
    /\ pc[r] = "persist"
    /\ \/ /\ Insert(op[r].items)
          /\ todo' = [todo EXCEPT ![r] = op[r].items]
          /\ Goto(r, "announce")
       \/ /\ Fails(Insert(op[r].items))
          /\ Respond(r, IF op[r].kind = "batch" THEN 207 ELSE 500)
          /\ UNCHANGED todo
    /\ UNCHANGED <<faults, announced, withdrawn, op, accepted, consumerVars>>

\* The events still to be published by r: one for all that are scheduled, then
\* one for each of the others.
NextEvents(r) ==
    IF todo[r] \intersect Scheduled # {}
    THEN {todo[r] \intersect Scheduled}
    ELSE {{n} : n \in todo[r]}

\* Mutant of publish: events that cannot be published are skipped.
PublishErrorIgnored(r) ==
    /\ pc[r] = "announce"
    /\ \/ /\ todo[r] = {}
          /\ Respond(r, IF op[r].kind = "batch" THEN 207 ELSE 201)
          /\ accepted' = accepted \union op[r].items
          /\ UNCHANGED <<announced, todo>>
       \/ /\ \E S \in NextEvents(r) :
             /\ announced' \in {announced \union S}
                              \union (IF "publish" \in faults THEN {announced} ELSE {})
             /\ todo' = [todo EXCEPT ![r] = @ \ S]
          /\ Goto(r, "announce")
          /\ UNCHANGED accepted
    /\ UNCHANGED <<faults, row, past, withdrawn, op, consumerVars>>

\* The first event that cannot be published ends the request.
publish(r) ==
    /\ pc[r] = "announce"
    /\ \/ /\ todo[r] = {}
          /\ Respond(r, IF op[r].kind = "batch" THEN 207 ELSE 201)
          /\ accepted' = accepted \union op[r].items
          /\ UNCHANGED <<announced, todo>>
       \/ /\ UNCHANGED accepted
          /\ \E S \in NextEvents(r) :
             \/ /\ announced' = announced \union S
                /\ todo' = [todo EXCEPT ![r] = @ \ S]
                /\ Goto(r, "announce")
             \/ /\ "publish" \in faults
                /\ announced' \in {announced, announced \union S}
                /\ Respond(r, 500)
                /\ UNCHANGED todo
    /\ UNCHANGED <<faults, row, past, withdrawn, op, consumerVars>>

-----------------------------------------------------------------------------
\* The notification a cancel request is about.
Target(r) == CHOOSE n \in Notifs : op[r].items = {n}

\* Cancel reads the row and asks the domain.
ReadForCancel(r) ==
    LET s == row[Target(r)] IN
    /\ pc[r] = "read"
    /\ \/ s = "absent" /\ Respond(r, 404)
       \/ s # "absent" /\ ~ Transition(s, "cancelled") /\ Respond(r, 409)
       \/ s # "absent" /\ Transition(s, "cancelled") /\ Goto(r, "write")
       \/ "db" \in faults /\ Respond(r, 500)
    /\ UNCHANGED <<faults, serviceVars, op, todo, accepted, consumerVars>>

\* Cancel writes, whatever the row holds by now.
WriteCancelled(r) ==
    /\ pc[r] = "write"
    /\ \/ SetStatus(Target(r), "cancelled") /\ Goto(r, "withdraw")
       \/ Fails(SetStatus(Target(r), "cancelled")) /\ Respond(r, 500)
    /\ UNCHANGED <<faults, announced, withdrawn, op, todo, accepted, consumerVars>>

\* Mutant of PublishCancelled: the cancel event is best effort.
CancelEventBestEffort(r) ==
    /\ pc[r] = "withdraw"
    /\ withdrawn' \in {withdrawn \union {Target(r)}}
                     \union (IF "publish" \in faults THEN {withdrawn} ELSE {})
    /\ Respond(r, 200)
    /\ UNCHANGED <<faults, row, past, announced, op, todo, accepted, consumerVars>>

\* Cancel tells the delivery scheduler.
PublishCancelled(r) ==
    /\ pc[r] = "withdraw"
    /\ \/ withdrawn' = withdrawn \union {Target(r)} /\ Respond(r, 200)
       \/ /\ "publish" \in faults
          /\ withdrawn' \in {withdrawn, withdrawn \union {Target(r)}}
          /\ Respond(r, 500)
    /\ UNCHANGED <<faults, row, past, announced, op, todo, accepted, consumerVars>>

-----------------------------------------------------------------------------
\* The processor reports on a notification it was told about, now or through
\* the scheduler.
Report(m) ==
    /\ ResultOf[m].notif \in announced
    /\ queue[m].st = "none"
    /\ queue' = [queue EXCEPT ![m] = Stored(@)]
    /\ UNCHANGED <<faults, serviceVars, requestVars, buffer, cpc, cjob, cverdict>>

\* The subscription of the consumer has no MaxDeliver.
Fetch(m) ==
    /\ Deliverable(queue[m], 0)
    /\ buffer[m] < MaxCopies
    /\ queue' = [queue EXCEPT ![m] = Delivered(@, 0)]
    /\ buffer' = [buffer EXCEPT ![m] = @ + 1]
    /\ UNCHANGED <<faults, serviceVars, requestVars, cpc, cjob, cverdict>>

Live(m) == buffer[m] > 0 \/ \E c \in Consumers : cpc[c] # "idle" /\ cjob[c] = m

AckWaitExpires(m) ==
    /\ queue[m].st = "inflight"
    /\ "slow" \in faults \/ ~ Live(m)
    /\ queue' = [queue EXCEPT ![m] = TimedOut(@)]
    /\ UNCHANGED <<faults, serviceVars, requestVars, buffer, cpc, cjob, cverdict>>

\* ForEach hands the next message to processOne.
Take(c, m) ==
    /\ cpc[c] = "idle"
    /\ buffer[m] > 0
    /\ buffer' = [buffer EXCEPT ![m] = @ - 1]
    /\ cjob' = [cjob EXCEPT ![c] = m]
    /\ cpc' = [cpc EXCEPT ![c] = "read"]
    /\ UNCHANGED <<faults, serviceVars, requestVars, queue, cverdict>>

\* Consumer c goes on to step s, or to the settling of its message with v.
ConsumerGoto(c, s, v) ==
    /\ cpc' = [cpc EXCEPT ![c] = s]
    /\ cverdict' = [cverdict EXCEPT ![c] = v]
    /\ UNCHANGED <<faults, queue, buffer, cjob>>

\* UpdateStatus reads the row and asks the domain; every error is a nak.
ReadForResult(c) ==
    LET n == ResultOf[cjob[c]].notif
        to == ResultOf[cjob[c]].status
        allowed == row[n] # "absent" /\ Transition(row[n], to) IN
    /\ cpc[c] = "read"
    /\ \/ allowed /\ ConsumerGoto(c, "write", "nak")
       \/ (~ allowed \/ "db" \in faults) /\ ConsumerGoto(c, "settle", "nak")
    /\ UNCHANGED <<faults, serviceVars, requestVars>>

\* UpdateStatus writes, whatever the row holds by now.
WriteResult(c) ==
    LET n == ResultOf[cjob[c]].notif
        to == ResultOf[cjob[c]].status IN
    /\ cpc[c] = "write"
    /\ \/ SetStatus(n, to) /\ ConsumerGoto(c, "settle", "ack")
       \/ Fails(SetStatus(n, to)) /\ ConsumerGoto(c, "settle", "nak")
    /\ UNCHANGED <<faults, announced, withdrawn, requestVars>>

\* Mutant of SettleResult: a result is acked even when it was not recorded.
AcksEverything(c) ==
    /\ cpc[c] = "settle"
    /\ queue' = [queue EXCEPT ![cjob[c]] = Acked(@)]
    /\ cpc' = [cpc EXCEPT ![c] = "idle"]
    /\ cjob' = [cjob EXCEPT ![c] = NoResult]
    /\ cverdict' = [cverdict EXCEPT ![c] = "nak"]
    /\ UNCHANGED <<faults, serviceVars, requestVars, buffer>>

\* The last lines of processOne.
SettleResult(c) ==
    /\ cpc[c] = "settle"
    /\ \/ queue' = [queue EXCEPT ![cjob[c]] = IF cverdict[c] = "ack" THEN Acked(@)
                                                                   ELSE Naked(@)]
       \/ "settle" \in faults /\ UNCHANGED queue
    /\ cpc' = [cpc EXCEPT ![c] = "idle"]
    /\ cjob' = [cjob EXCEPT ![c] = NoResult]
    /\ cverdict' = [cverdict EXCEPT ![c] = "nak"]
    /\ UNCHANGED <<faults, serviceVars, requestVars, buffer>>

\* Every API process dies: requests get no answer, deliveries are forgotten.
Crash ==
    /\ "crash" \in faults
    /\ pc' = [r \in Requests |-> IF pc[r] = "new" THEN "new" ELSE "done"]
    /\ buffer' = [m \in Results |-> 0]
    /\ cpc' = [c \in Consumers |-> "idle"]
    /\ cjob' = [c \in Consumers |-> NoResult]
    /\ cverdict' = [c \in Consumers |-> "nak"]
    /\ UNCHANGED <<faults, serviceVars, op, todo, reply, accepted, queue>>

-----------------------------------------------------------------------------
Serve(r) ==
    \/ persist(r)
    \/ publish(r)
    \/ ReadForCancel(r)
    \/ WriteCancelled(r)
    \/ PublishCancelled(r)

Consume(c) ==
    \/ \E m \in Results : Take(c, m)
    \/ ReadForResult(c)
    \/ WriteResult(c)
    \/ SettleResult(c)

Next ==
    \/ \E r \in Requests : Arrive(r) \/ Serve(r)
    \/ \E m \in Results : Report(m) \/ Fetch(m) \/ AckWaitExpires(m)
    \/ \E c \in Consumers : Consume(c)
    \/ Crash

Spec == Init /\ [][Next]_vars

\* Handlers and the consumer run, the broker delivers, and a query that is
\* retried for ever succeeds at last.
Fairness ==
    /\ \A r \in Requests : WF_vars(Serve(r))
    /\ \A c \in Consumers :
          /\ WF_vars(Consume(c))
          /\ SF_vars(ReadForResult(c) /\ cpc'[c] = "write")
          /\ SF_vars(WriteResult(c) /\ cverdict'[c] = "ack")
          /\ \A m \in Results : SF_vars(Take(c, m))
    /\ \A m \in Results : SF_vars(Fetch(m)) /\ WF_vars(AckWaitExpires(m))

FairSpec == Spec /\ Fairness

-----------------------------------------------------------------------------
(***************************************************************************)
(* Safety.                                                                 *)
(***************************************************************************)

\* A notification never counts as delivered and as failed, whichever results
\* arrive, twice or in any order, and whatever cancels race with them
\* (UpdateStatus), as long as one consumer handles them in turn.
OneVerdict ==
    (\A c, d \in Consumers : c = d)
    => \A n \in Notifs : ~ ({"delivered", "failed"} \subseteq past[n])

\* Rows, events and answers come in this order: an event about a notification is
\* never published before its row is stored, so neither the scheduler nor the
\* consumer meets an unknown id, and what a client was told is created, by a 201
\* or as an item of a 207, has been announced before.
AnnouncedInOrder ==
    /\ \A n \in announced \union withdrawn : row[n] # "absent"
    /\ accepted \subseteq announced

\* 200 to a cancel means that the notification did become cancelled and that
\* the delivery scheduler has been told.
CancelIsDone ==
    \A r \in Requests : reply[r] = 200 =>
        "cancelled" \in past[Target(r)] /\ Target(r) \in withdrawn

(***************************************************************************)
(* Liveness.                                                               *)
(***************************************************************************)

\* A notification the processor has reported on does not stay pending.
ReportedIsRecorded ==
    \A m \in Results :
        queue[m].st = "ready" ~> row[ResultOf[m].notif] # "pending"
=============================================================================

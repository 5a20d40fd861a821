--------------------------- MODULE CreateRequest ---------------------------
(***************************************************************************)
(* POST /notifications and POST /notifications/batch: one request from its *)
(* body to its answer.  The items pass two filters, validation and the     *)
(* creation of the entity, before they are stored and announced, and the   *)
(* answer of a batch has to come back to the positions of the body.  How   *)
(* requests interleave is the subject of NotificationService; here one     *)
(* request is followed with the contents of its items.                     *)
(***************************************************************************)
EXTENDS Integers, Sequences, FiniteSets, Functions

CONSTANTS
    Bodies,    \* the bodies a client may send: sequences of items
    MaxItems,  \* the largest batch
    FaultSets  \* the sets of adverse conditions to consider

(***************************************************************************)
(* "uuid"     no UUID can be drawn for an entity                           *)
(* "db"       the INSERT fails; it may have been applied                   *)
(* "publish"  publishing fails; the event may have been stored             *)
(***************************************************************************)
FaultClasses == {"uuid", "db", "publish"}

ChannelNames == {"sms", "email", "push"}
PriorityNames == {"high", "normal", "low"}

(***************************************************************************)
(* An item as the client wrote it.  A recipient or a text stands for all   *)
(* of its form; max_attempts may be missing (Missing), deliver_after too   *)
(* ("") or no timestamp ("bad").                                           *)
(***************************************************************************)
Missing == -100

Item ==
    [channel : ChannelNames \union {"bad"}, recipient : {"", "email", "phone", "other"},
     content : {"", "text"}, priority : PriorityNames \union {"bad"},
     max_attempts : Int, deliver_after : {"", "bad", "time"}]

ASSUME RequestAssumption ==
    /\ Bodies \subseteq Seq(Item)
    /\ MaxItems \in Nat
    /\ FaultSets \subseteq SUBSET FaultClasses

VARIABLES
    faults,   \* the adverse conditions this request may meet
    kind,     \* "single" or "batch"
    body,     \* the items, in the order of the body
    pc,       \* what the request does next
    valid,    \* the positions of the items that passed validation, in order
    entity,   \* entity[j]: what the service made of the j-th valid item
    results,  \* results[j]: the service's verdict on it
    accepted, \* acceptedEntities: the j that are stored and to be announced
    rows,     \* the notifications table: the rows of this request by id
    events,   \* the events published, in order
    reply     \* the answer

vars == <<faults, kind, body, pc, valid, entity, results, accepted, rows, events, reply>>

NoReply == [code |-> 0, results |-> <<>>, accepted |-> 0, rejected |-> 0]

Topics == {"scheduled"} \union PriorityNames

TypeOK ==
    /\ faults \subseteq FaultClasses
    /\ kind \in {"single", "batch"}
    /\ body \in Bodies
    /\ pc \in {"decode", "create", "insert", "schedule", "ready", "answered"}
    /\ Range(valid) \subseteq DOMAIN body
    /\ DOMAIN entity \subseteq DOMAIN valid
    /\ \A j \in DOMAIN results : results[j].status \in {"accepted", "rejected"}
    /\ accepted \subseteq DOMAIN valid
    /\ DOMAIN rows \subseteq DOMAIN valid
    /\ \A k \in DOMAIN events : events[k].topic \in Topics /\ events[k].ids \subseteq DOMAIN valid
    /\ reply.code \in {0, 201, 207, 422, 500}

-----------------------------------------------------------------------------
\* The format SetRecipient asks for depends on the channel set before.
WellFormed(channel, recipient) ==
    CASE channel = "email" -> recipient = "email"
      [] channel = "sms" -> recipient = "phone"
      [] OTHER -> recipient # ""

\* ToNotification refuses an item when one of the setters does.
Invalid(r) ==
    \/ r.channel \notin ChannelNames
    \/ r.recipient = "" \/ ~WellFormed(r.channel, r.recipient)
    \/ r.content = ""
    \/ r.priority \notin PriorityNames
    \/ r.max_attempts # Missing /\ r.max_attempts <= 0
    \/ r.deliver_after = "bad"

\* The entity From makes of a valid item.
From(r) ==
    [channel |-> r.channel, recipient |-> r.recipient, content |-> r.content,
     priority |-> r.priority, deliver_after |-> r.deliver_after, status |-> "pending",
     max_attempts |-> IF r.max_attempts = Missing THEN 1 ELSE r.max_attempts]

\* The positions up to n that are in S, as a loop over them appends one by one.
InOrder(S, n) ==
    LET passed[i \in 0 .. n] ==
            IF i = 0 THEN <<>>
            ELSE IF i \in S THEN Append(passed[i - 1], i) ELSE passed[i - 1]
    IN  passed[n]

InvalidItems(items) == {i \in DOMAIN items : Invalid(items[i])}

\* Which of the items of a body pass validation, by position.
Valid(items) == InOrder(DOMAIN items \ InvalidItems(items), Len(items))

\* The answers to those that do not.
Rejections(items) ==
    LET bad == InOrder(InvalidItems(items), Len(items))
    IN  [k \in DOMAIN bad |-> [index |-> bad[k], status |-> "rejected", id |-> 0,
                               error |-> "VALIDATION_ERROR"]]

\* An answer that is only a status code.
Refuse(code) == reply' = [NoReply EXCEPT !.code = code] /\ pc' = "answered"

Init ==
    /\ faults \in FaultSets
    /\ body \in Bodies
    /\ kind \in {"single", "batch"}
    /\ kind = "single" => Len(body) = 1
    /\ pc = "decode"
    /\ valid = <<>>
    /\ entity = <<>>
    /\ results = <<>>
    /\ accepted = {}
    /\ rows = <<>>
    /\ events = <<>>
    /\ reply = NoReply

-----------------------------------------------------------------------------
\* The handler decodes and validates.  A single item that is not valid, and a
\* batch that is too large, end the request.
Decode ==
    /\ pc = "decode"
    /\ IF \/ kind = "batch" /\ Len(body) > MaxItems
          \/ kind = "single" /\ Invalid(body[1])
       THEN Refuse(422) /\ UNCHANGED valid
       ELSE pc' = "create" /\ valid' = Valid(body) /\ UNCHANGED reply
    /\ UNCHANGED <<faults, kind, body, entity, results, accepted, rows, events>>

\* Mutant of Verdict: the id is taken by position among the entities made.
VerdictCompacted(j, S) ==
    IF j \in S THEN [status |-> "accepted", id |-> Cardinality(S \intersect 1 .. j)]
               ELSE [status |-> "rejected", id |-> 0]

\* What CreateBatch first notes for the j-th item, S being those it could make.
Verdict(j, S) ==
    IF j \in S THEN [status |-> "accepted", id |-> j]
               ELSE [status |-> "rejected", id |-> 0]

\* The service makes an entity of each item.  Its id is the number j here.
Create ==
    /\ pc = "create"
    /\ \E S \in SUBSET DOMAIN valid :
          /\ "uuid" \in faults \/ S = DOMAIN valid
          /\ IF kind = "single" /\ S = {}
             THEN Refuse(500) /\ UNCHANGED <<entity, results, accepted>>
             ELSE /\ pc' = "insert"
                  /\ entity' = [j \in S |-> From(body[valid[j]])]
                  /\ results' = [j \in DOMAIN valid |-> Verdict(j, S)]
                  /\ accepted' = S
                  /\ UNCHANGED reply
    /\ UNCHANGED <<faults, kind, body, valid, rows, events>>

\* Mutant of InsertFails: acceptedEntities is not cleared.
InsertFailsUncleared ==
    /\ pc = "insert"
    /\ accepted # {}
    /\ "db" \in faults
    /\ rows' \in {rows, [j \in accepted |-> entity[j]]}
    /\ pc' = "schedule"
    /\ results' = [j \in DOMAIN results |-> [status |-> "rejected", id |-> 0]]
    /\ UNCHANGED <<faults, kind, body, valid, entity, accepted, events, reply>>

\* The INSERT fails, or seems to: every item of a batch is rejected.
InsertFails ==
    /\ pc = "insert"
    /\ accepted # {}
    /\ "db" \in faults
    /\ rows' \in {rows, [j \in accepted |-> entity[j]]}
    /\ IF kind = "single"
       THEN Refuse(500) /\ UNCHANGED <<results, accepted>>
       ELSE /\ pc' = "schedule"
            /\ results' = [j \in DOMAIN results |-> [status |-> "rejected", id |-> 0]]
            /\ accepted' = {}
            /\ UNCHANGED reply
    /\ UNCHANGED <<faults, kind, body, valid, entity, events>>

\* All entities are stored in one INSERT; without any there is none.
Insert ==
    /\ pc = "insert"
    /\ rows' = [j \in accepted |-> entity[j]]
    /\ pc' = "schedule"
    /\ UNCHANGED <<faults, kind, body, valid, entity, results, accepted, events, reply>>

Scheduled == {j \in accepted : entity[j].deliver_after # ""}

\* Those of the other entities whose ready event is still to be published.
Immediate ==
    {j \in accepted \ Scheduled :
        \A k \in DOMAIN events : events[k].topic # "scheduled" => j \notin events[k].ids}

ScheduledEvent == [topic |-> "scheduled", ids |-> Scheduled]

ReadyEvent(j) ==
    [topic |-> entity[j].priority, ids |-> {j}, max_attempts |-> entity[j].max_attempts]

\* Publishing evt goes well, and the request goes on to step s, or it fails.
Publish(evt, s) ==
    \/ /\ events' = Append(events, evt)
       /\ pc' = s
       /\ UNCHANGED reply
    \/ /\ "publish" \in faults
       /\ events' \in {events, Append(events, evt)}
       /\ Refuse(500)

\* One event for all that are scheduled.
PublishScheduled ==
    /\ pc = "schedule"
    /\ IF Scheduled = {} THEN pc' = "ready" /\ UNCHANGED <<events, reply>>
                         ELSE Publish(ScheduledEvent, "ready")
    /\ UNCHANGED <<faults, kind, body, valid, entity, results, accepted, rows>>

\* One event for each of the others, in their order.
PublishReady ==
    /\ pc = "ready"
    /\ \E j \in Immediate :
          /\ \A k \in Immediate : j <= k
          /\ Publish(ReadyEvent(j), "ready")
    /\ UNCHANGED <<faults, kind, body, valid, entity, results, accepted, rows>>

\* The answer to the j-th valid item goes back to its position in the body.
ItemResult(j) ==
    [index |-> valid[j], status |-> results[j].status, id |-> results[j].id,
     error |-> IF results[j].id = 0 THEN "INTERNAL_ERROR" ELSE ""]

\* The request is answered: rejections first, then what became of the others.
Answer ==
    /\ pc = "ready" /\ Immediate = {}
    /\ pc' = "answered"
    /\ LET ok == Cardinality({j \in DOMAIN results : results[j].id # 0})
       IN  reply' = [code |-> IF kind = "single" THEN 201 ELSE 207,
                     results |-> Rejections(body) \o [j \in DOMAIN results |-> ItemResult(j)],
                     accepted |-> ok, rejected |-> Len(body) - ok]
    /\ UNCHANGED <<faults, kind, body, valid, entity, results, accepted, rows, events>>

Next ==
    \/ Decode
    \/ Create
    \/ Insert
    \/ InsertFails
    \/ PublishScheduled
    \/ PublishReady
    \/ Answer

Spec == Init /\ [][Next]_vars

-----------------------------------------------------------------------------
Answered == reply.code \in {201, 207}

(***************************************************************************)
(* The answer has exactly one result for every position of the body,       *)
(* though the items went through two filters (createBatch and CreateBatch),*)
(* its two counts tell how many of them carry an id, and the id reported   *)
(* for a position is that of a row with the item the client wrote there.   *)
(***************************************************************************)
EachItemAnswered ==
    Answered =>
        /\ Len(reply.results) = Len(body)
        /\ {reply.results[k].index : k \in DOMAIN reply.results} = DOMAIN body
        /\ reply.rejected =
              Cardinality({k \in DOMAIN reply.results : reply.results[k].status = "rejected"})
        /\ \A k \in DOMAIN reply.results :
              LET res == reply.results[k]
              IN  res.id # 0 => res.id \in DOMAIN rows /\ rows[res.id] = From(body[res.index])

(***************************************************************************)
(* No item that is reported as rejected is ever announced: a failed INSERT *)
(* takes all of them back before the first event.  When the client is told *)
(* that an item is accepted, exactly one event announces it, to the        *)
(* scheduler when it has a deliver_after and else to the topic of its      *)
(* priority (CreateBatch, publish).                                        *)
(***************************************************************************)
AnnouncedAsAnswered ==
    \A j \in DOMAIN results :
        LET mine == {k \in DOMAIN events : j \in events[k].ids}
        IN  /\ results[j].status = "rejected" => mine = {}
            /\ Answered /\ results[j].id # 0 =>
                    /\ Cardinality(mine) = 1
                    /\ \A k \in mine :
                          events[k].topic = IF rows[j].deliver_after = "time" THEN "scheduled"
                                            ELSE rows[j].priority
=============================================================================

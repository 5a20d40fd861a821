---------------------- MODULE NotificationServiceProofs ----------------------
(***************************************************************************)
(* What holds of the API service for any number of notifications,          *)
(* requests, results and consumers: the types, the order of rows, events   *)
(* and answers, what a 200 to a cancel means, and, with one consumer, that *)
(* no notification ever has both outcomes.                                 *)
(***************************************************************************)
EXTENDS NotificationService, TLAPS

-----------------------------------------------------------------------------
(***************************************************************************)
(* Lemmas about one step, shared by the theorems.                          *)
(***************************************************************************)

\* The notification of a cancel stays it while the request's operation does.
LEMMA TargetKept ==
  ASSUME NEW r, op'[r] = op[r]
  PROVE  Target(r)' = Target(r)
  BY DEF Target

\* The broker's operations yield queue entries.
LEMMA QueueEntries ==
  ASSUME NEW q \in [st : QueueStatus, count : Nat]
  PROVE  /\ Stored(q) \in [st : QueueStatus, count : Nat]
         /\ Delivered(q, 0) \in [st : QueueStatus, count : Nat]
         /\ Acked(q) \in [st : QueueStatus, count : Nat]
         /\ Naked(q) \in [st : QueueStatus, count : Nat]
         /\ TimedOut(q) \in [st : QueueStatus, count : Nat]
  BY DEF QueueStatus, Stored, Delivered, Acked, Naked, TimedOut

\* A write to one row, applied or not, adds its status to the history.
LEMMA WriteEffect ==
  ASSUME TypeOK, NEW n \in Notifs, NEW s \in Statuses,
         SetStatus(n, s) \/ Fails(SetStatus(n, s))
  PROVE  /\ row' \in [Notifs -> Statuses \union {"absent"}]
         /\ past' \in [Notifs -> SUBSET Statuses]
         /\ \A k \in Notifs :
              \/ row'[k] = row[k] /\ past'[k] = past[k]
              \/ k = n /\ row'[k] = s /\ past'[k] = past[k] \union {s}
         /\ SetStatus(n, s) => row'[n] = s /\ s \in past'[n]
  BY DEF TypeOK, Fails, SetStatus

\* So does the INSERT of several rows, with the status pending.
LEMMA InsertEffect ==
  ASSUME TypeOK, NEW S \in SUBSET Notifs, Insert(S) \/ Fails(Insert(S))
  PROVE  /\ row' \in [Notifs -> Statuses \union {"absent"}]
         /\ past' \in [Notifs -> SUBSET Statuses]
         /\ \A k \in Notifs :
              \/ row'[k] = row[k] /\ past'[k] = past[k]
              \/ k \in S /\ row'[k] = "pending" /\ past'[k] = past[k] \union {"pending"}
         /\ Insert(S) => \A k \in S : row'[k] = "pending"
  BY DEF TypeOK, Fails, Insert, Statuses

\* What a result reports.
LEMMA ResultParts ==
  ASSUME ServiceAssumption, TypeOK, NEW c \in Consumers, cpc[c] # "idle"
  PROVE  /\ cjob[c] \in Results
         /\ ResultOf[cjob[c]].notif \in Notifs
         /\ ResultOf[cjob[c]].status \in {"delivered", "failed"}
  BY DEF ServiceAssumption, TypeOK

\* The next event of a request is about some of what it has to announce.
LEMMA NextEventsAreTodo ==
  ASSUME TypeOK, NEW r \in Requests, NEW S \in NextEvents(r)
  PROVE  S \subseteq todo[r] /\ S \subseteq Notifs
  BY DEF TypeOK, NextEvents
-----------------------------------------------------------------------------
LEMMA InitTypeOK == ServiceAssumption /\ Init => TypeOK
  BY DEF ServiceAssumption, Init, TypeOK, QueueStatus, Unpublished, RequestSteps, Replies

\* The steps of a request keep the types.
LEMMA ServeTypeOK ==
  ASSUME TypeOK, NEW r \in Requests, Arrive(r) \/ Serve(r),
         pc[r] \in {"read", "write", "withdraw"} => Target(r) \in Notifs
  PROVE  TypeOK'
  <1> USE DEF TypeOK
  <1>1. CASE Arrive(r)
    <2>1. PICK o \in Ops :
            /\ op' = [op EXCEPT ![r] = o]
            /\ Goto(r, IF o.kind = "cancel" THEN "read" ELSE "persist")
      BY <1>1 DEF Arrive
    <2> QED BY <1>1, <2>1 DEF Arrive, Goto, RequestSteps, serviceVars, consumerVars
  <1>2. CASE persist(r)
    <2>1. op[r].items \in SUBSET Notifs
      BY DEF Ops, NoOp
    <2>2. row' \in [Notifs -> Statuses \union {"absent"}] /\ past' \in [Notifs -> SUBSET Statuses]
      BY <1>2, <2>1, InsertEffect DEF persist
    <2>3. pc' \in [Requests -> RequestSteps] /\ reply' \in [Requests -> Replies]
      BY <1>2 DEF persist, Goto, Respond, RequestSteps, Replies
    <2>4. todo' \in [Requests -> SUBSET Notifs]
      BY <1>2, <2>1 DEF persist
    <2> QED BY <1>2, <2>2, <2>3, <2>4 DEF persist, consumerVars
  <1>3. CASE publish(r)
    <2>1. announced' \subseteq Notifs
      BY <1>3, NextEventsAreTodo DEF publish
    <2>2. accepted' \subseteq Notifs
      BY <1>3 DEF publish, Ops, NoOp
    <2>3. todo' \in [Requests -> SUBSET Notifs]
      BY <1>3 DEF publish
    <2>4. pc' \in [Requests -> RequestSteps] /\ reply' \in [Requests -> Replies]
      BY <1>3 DEF publish, Goto, Respond, RequestSteps, Replies
    <2> QED BY <1>3, <2>1, <2>2, <2>3, <2>4 DEF publish, consumerVars
  <1>4. CASE ReadForCancel(r)
    BY <1>4 DEF ReadForCancel, Goto, Respond, RequestSteps, Replies, serviceVars, consumerVars
  <1>5. CASE WriteCancelled(r)
    <2>1. "cancelled" \in Statuses
      BY DEF Statuses
    <2>2. row' \in [Notifs -> Statuses \union {"absent"}] /\ past' \in [Notifs -> SUBSET Statuses]
      BY <1>5, <2>1, WriteEffect DEF WriteCancelled
    <2>3. pc' \in [Requests -> RequestSteps] /\ reply' \in [Requests -> Replies]
      BY <1>5 DEF WriteCancelled, Goto, Respond, RequestSteps, Replies
    <2> QED BY <1>5, <2>2, <2>3 DEF WriteCancelled, consumerVars
  <1>6. CASE PublishCancelled(r)
    BY <1>6 DEF PublishCancelled, Respond, RequestSteps, Replies, consumerVars
  <1> QED BY <1>1, <1>2, <1>3, <1>4, <1>5, <1>6 DEF Serve

\* So do those of the broker, the consumers and the operating system.
LEMMA ConsumeTypeOK ==
  ASSUME ServiceAssumption, TypeOK,
         \/ \E m \in Results : Report(m) \/ Fetch(m) \/ AckWaitExpires(m)
         \/ \E c \in Consumers : Consume(c)
         \/ Crash
  PROVE  TypeOK'
  <1> USE DEF TypeOK
  <1>1. ASSUME NEW m \in Results, Report(m) \/ AckWaitExpires(m) PROVE TypeOK'
    <2>1. PICK q \in [st : QueueStatus, count : Nat] : queue' = [queue EXCEPT ![m] = q]
      BY <1>1, QueueEntries DEF Report, AckWaitExpires
    <2> QED BY <1>1, <2>1 DEF Report, AckWaitExpires, serviceVars, requestVars
  <1>2. ASSUME NEW m \in Results, Fetch(m) PROVE TypeOK'
    <2>1. buffer' \in [Results -> 0 .. MaxCopies]
      BY <1>2 DEF Fetch, ServiceAssumption
    <2> QED BY <1>2, <2>1, QueueEntries DEF Fetch, serviceVars, requestVars
  <1>3. ASSUME NEW c \in Consumers, NEW m \in Results, Take(c, m) PROVE TypeOK'
    <2>1. buffer' \in [Results -> 0 .. MaxCopies]
      BY <1>3 DEF Take, ServiceAssumption
    <2> QED BY <1>3, <2>1 DEF Take, serviceVars, requestVars
  <1>4. ASSUME NEW c \in Consumers, ReadForResult(c) PROVE TypeOK'
    BY <1>4, ResultParts DEF ReadForResult, ConsumerGoto, serviceVars, requestVars
  <1>5. ASSUME NEW c \in Consumers, WriteResult(c) PROVE TypeOK'
    <2>1. cjob[c] \in Results /\ ResultOf[cjob[c]].notif \in Notifs
          /\ ResultOf[cjob[c]].status \in Statuses
      BY <1>5, ResultParts DEF WriteResult, Statuses
    <2>2. row' \in [Notifs -> Statuses \union {"absent"}] /\ past' \in [Notifs -> SUBSET Statuses]
      BY <1>5, <2>1, WriteEffect DEF WriteResult
    <2>3. /\ cpc' = [cpc EXCEPT ![c] = "settle"]
          /\ UNCHANGED <<faults, announced, withdrawn, requestVars, queue, buffer, cjob>>
          /\ \E v \in {"ack", "nak"} : cverdict' = [cverdict EXCEPT ![c] = v]
      BY <1>5 DEF WriteResult, ConsumerGoto
    <2> QED BY <2>1, <2>2, <2>3 DEF requestVars
  <1>6. ASSUME NEW c \in Consumers, SettleResult(c) PROVE TypeOK'
    <2>1. cjob[c] \in Results /\ queue[cjob[c]] \in [st : QueueStatus, count : Nat]
      BY <1>6, ResultParts DEF SettleResult
    <2>2. PICK q \in [st : QueueStatus, count : Nat] :
             queue' = [queue EXCEPT ![cjob[c]] = q] \/ queue' = queue
      BY <1>6, <2>1, QueueEntries DEF SettleResult
    <2>3. queue' \in [Results -> [st : QueueStatus, count : Nat]]
      BY <2>1, <2>2
    <2> QED BY <1>6, <2>3 DEF SettleResult, serviceVars, requestVars
  <1>7. CASE Crash
    <2>1. 0 \in 0 .. MaxCopies
      BY DEF ServiceAssumption
    <2> QED BY <1>7, <2>1 DEF Crash, serviceVars, RequestSteps
  <1> QED BY <1>1, <1>2, <1>3, <1>4, <1>5, <1>6, <1>7 DEF Consume
-----------------------------------------------------------------------------
(***************************************************************************)
(* Requests in turn with the table and the broker.                         *)
(***************************************************************************)

\* What request r has done when it is about to make its next call.
InHand(r) ==
    /\ pc[r] = "new" => op[r] = NoOp
    /\ reply[r] # 0 => pc[r] = "done"
    /\ pc[r] \in {"persist", "announce"} => op[r].kind # "cancel"
    /\ pc[r] = "announce" =>
          /\ \A n \in op[r].items : row[n] # "absent"
          /\ todo[r] \subseteq op[r].items
          /\ op[r].items \ todo[r] \subseteq announced
    /\ pc[r] \in {"read", "write", "withdraw"} =>
          op[r].kind = "cancel" /\ Target(r) \in Notifs /\ op[r].items = {Target(r)}
    /\ pc[r] \in {"write", "withdraw"} => row[Target(r)] # "absent"
    /\ pc[r] = "withdraw" => "cancelled" \in past[Target(r)]

ServiceInv ==
    /\ TypeOK
    /\ \A r \in Requests : InHand(r)
    /\ AnnouncedInOrder
    /\ CancelIsDone

LEMMA NextTypeOK ==
  ASSUME ServiceAssumption, TypeOK, \A r \in Requests : InHand(r), [Next]_vars
  PROVE  TypeOK'
  <1>1. CASE UNCHANGED vars
    BY <1>1 DEF TypeOK, vars, serviceVars, requestVars, consumerVars
  <1>2. CASE \E r \in Requests : Arrive(r) \/ Serve(r)
    BY <1>2, ServeTypeOK DEF InHand
  <1> QED BY <1>1, <1>2, ConsumeTypeOK DEF Next

\* Rows are never deleted, statuses never forgotten, events never taken back.
LEMMA RowsStay ==
  ASSUME ServiceAssumption, TypeOK, \A r \in Requests : InHand(r), [Next]_vars
  PROVE  /\ announced \subseteq announced' /\ withdrawn \subseteq withdrawn'
         /\ \A n \in Notifs : /\ row[n] # "absent" => row'[n] # "absent"
                              /\ past[n] \subseteq past'[n]
  <1>1. CASE \E r \in Requests : persist(r)
    <2>1. PICK r \in Requests : persist(r)
      BY <1>1
    <2>2. op[r].items \in SUBSET Notifs
      BY DEF TypeOK, Ops, NoOp
    <2> QED BY <2>1, <2>2, InsertEffect DEF persist
  <1>2. CASE \E r \in Requests : WriteCancelled(r)
    BY <1>2, WriteEffect DEF WriteCancelled, InHand, Statuses
  <1>3. CASE \E c \in Consumers : WriteResult(c)
    BY <1>3, ResultParts, WriteEffect DEF WriteResult, Statuses
  <1>4. CASE \E r \in Requests : publish(r) \/ PublishCancelled(r)
    BY <1>4 DEF publish, PublishCancelled
  <1>5. CASE UNCHANGED serviceVars
    BY <1>5 DEF serviceVars
  <1> QED BY <1>1, <1>2, <1>3, <1>4, <1>5
       DEF Next, Serve, Consume, vars, Arrive, ReadForCancel, Report, Fetch, AckWaitExpires,
           Take, ReadForResult, SettleResult, Crash

\* Nobody but its own goroutine, and the end of the process, moves a request.
LEMMA RequestAlone ==
  ASSUME TypeOK, [Next]_vars, NEW r \in Requests, ~ (Arrive(r) \/ Serve(r)), ~ Crash
  PROVE  /\ pc'[r] = pc[r] /\ op'[r] = op[r] /\ todo'[r] = todo[r] /\ reply'[r] = reply[r]
  <1>1. ASSUME NEW q \in Requests, q # r, Arrive(q) \/ Serve(q)
        PROVE  pc'[r] = pc[r] /\ op'[r] = op[r] /\ todo'[r] = todo[r] /\ reply'[r] = reply[r]
    BY <1>1 DEF TypeOK, Arrive, Serve, persist, publish, ReadForCancel, WriteCancelled,
                PublishCancelled, Goto, Respond
  <1>2. CASE UNCHANGED requestVars
    BY <1>2 DEF requestVars
  <1>3. ASSUME NEW c \in Consumers, Consume(c) PROVE UNCHANGED requestVars
    BY <1>3 DEF Consume, Take, ReadForResult, WriteResult, SettleResult
  <1>4. ASSUME NEW m \in Results, Report(m) \/ Fetch(m) \/ AckWaitExpires(m)
        PROVE  UNCHANGED requestVars
    BY <1>4 DEF Report, Fetch, AckWaitExpires
  <1> QED BY <1>1, <1>2, <1>3, <1>4 DEF Next, vars

LEMMA NextInHand ==
  ASSUME ServiceAssumption, ServiceInv, [Next]_vars, NEW r \in Requests
  PROVE  InHand(r)'
  <1> USE DEF ServiceInv
  <1>0. /\ InHand(r) /\ announced \subseteq announced'
        /\ \A n \in Notifs : /\ row[n] # "absent" => row'[n] # "absent"
                             /\ past[n] \subseteq past'[n]
    BY RowsStay
  <1>1. CASE Arrive(r)
    <2>1. PICK o \in Ops :
            /\ o.kind = "batch" \/ \E n \in Notifs : o.items = {n}
            /\ op' = [op EXCEPT ![r] = o]
            /\ pc' = [pc EXCEPT ![r] = IF o.kind = "cancel" THEN "read" ELSE "persist"]
            /\ UNCHANGED reply
      BY <1>1 DEF Arrive, Goto
    <2>2. op'[r] = o /\ pc[r] = "new"
      BY <1>1, <2>1 DEF Arrive, TypeOK
    <2>3. o.kind = "cancel" => Target(r)' \in Notifs /\ o.items = {Target(r)'}
      BY <2>1, <2>2 DEF Target
    <2> QED BY <1>0, <2>1, <2>2, <2>3 DEF InHand, TypeOK
  <1>2. CASE persist(r)
    <2>1. op[r].items \in SUBSET Notifs
      BY DEF TypeOK, Ops, NoOp
    <2>2. /\ pc[r] = "persist" /\ op'[r] = op[r]
          /\ pc'[r] \in {"announce", "done"}
          /\ pc'[r] = "announce" => Insert(op[r].items) /\ todo'[r] = op[r].items
                                                        /\ reply'[r] = reply[r]
      BY <1>2 DEF persist, Goto, Respond, TypeOK
    <2>3. pc'[r] = "announce" => \A n \in op[r].items : row'[n] # "absent"
      BY <2>1, <2>2, InsertEffect
    <2> QED BY <1>0, <2>2, <2>3 DEF InHand
  <1>3. CASE publish(r)
    <2>1. op' = op /\ row' = row /\ past' = past /\ op[r].items \subseteq Notifs
      BY <1>3 DEF publish, TypeOK, Ops, NoOp
    <2>2. CASE pc'[r] = "announce"
      <3>1. PICK S \in NextEvents(r) :
              announced' = announced \union S /\ todo' = [todo EXCEPT ![r] = @ \ S]
                                              /\ UNCHANGED reply
        BY <1>3, <2>2 DEF publish, Goto, Respond, TypeOK
      <3>2. todo'[r] = todo[r] \ S /\ reply'[r] = reply[r] /\ pc[r] = "announce"
        BY <1>3, <3>1 DEF publish, TypeOK
      <3> QED BY <1>0, <2>1, <2>2, <3>1, <3>2 DEF InHand
    <2>3. CASE pc'[r] = "done"
      BY <1>0, <1>3, <2>1, <2>3 DEF publish, InHand
    <2> QED BY <1>3, <2>2, <2>3 DEF publish, Goto, Respond, TypeOK
  <1>4. CASE ReadForCancel(r)
    <2>1. Target(r)' = Target(r)
      BY <1>4, TargetKept DEF ReadForCancel
    <2> QED BY <1>0, <1>4, <2>1 DEF ReadForCancel, Goto, Respond, InHand, TypeOK, serviceVars
  <1>5. CASE WriteCancelled(r)
    <2>1. Target(r)' = Target(r)
      BY <1>5, TargetKept DEF WriteCancelled
    <2>2. CASE SetStatus(Target(r), "cancelled") /\ Goto(r, "withdraw")
      BY <1>0, <1>5, <2>1, <2>2, WriteEffect
      DEF WriteCancelled, Goto, InHand, TypeOK, Statuses
    <2>3. CASE Respond(r, 500)
      BY <1>0, <1>5, <2>1, <2>3 DEF WriteCancelled, Respond, InHand, TypeOK
    <2> QED BY <1>5, <2>2, <2>3 DEF WriteCancelled
  <1>6. CASE PublishCancelled(r)
    BY <1>0, <1>6 DEF PublishCancelled, Respond, InHand, TypeOK
  <1>7. CASE Crash
    <2>1. Target(r)' = Target(r)
      BY <1>7, TargetKept DEF Crash
    <2> QED BY <1>0, <1>7, <2>1 DEF Crash, InHand, TypeOK, serviceVars
  <1>8. CASE ~ (Arrive(r) \/ Serve(r)) /\ ~ Crash
    <2>1. pc'[r] = pc[r] /\ op'[r] = op[r] /\ todo'[r] = todo[r] /\ reply'[r] = reply[r]
      BY <1>8, RequestAlone
    <2>2. Target(r)' = Target(r)
      BY <2>1, TargetKept
    <2>3. op[r].items \subseteq Notifs
      BY DEF TypeOK, Ops, NoOp
    <2> QED BY <1>0, <2>1, <2>2, <2>3 DEF InHand
  <1> QED BY <1>1, <1>2, <1>3, <1>4, <1>5, <1>6, <1>7, <1>8 DEF Serve
LEMMA NextAnnouncedInOrder ==
  ASSUME ServiceAssumption, ServiceInv, [Next]_vars
  PROVE  AnnouncedInOrder'
  <1> USE DEF ServiceInv
  <1>0. /\ announced \subseteq announced' /\ withdrawn \subseteq withdrawn'
        /\ \A n \in Notifs : row[n] # "absent" => row'[n] # "absent"
        /\ announced \subseteq Notifs /\ withdrawn \subseteq Notifs
    BY RowsStay DEF TypeOK
  <1>1. CASE \E r \in Requests : publish(r)
    <2>1. PICK r \in Requests : publish(r)
      BY <1>1
    <2>2. /\ op[r].items \subseteq Notifs /\ todo[r] \subseteq op[r].items
          /\ \A n \in op[r].items : row[n] # "absent"
          /\ op[r].items \ todo[r] \subseteq announced
      BY <2>1 DEF publish, InHand, TypeOK, Ops, NoOp
    <2>3. row' = row /\ withdrawn' = withdrawn
      BY <2>1 DEF publish
    <2>4. announced' \subseteq announced \union todo[r]
      BY <2>1, NextEventsAreTodo DEF publish
    <2>5. accepted' \subseteq announced'
      BY <2>1, <2>2 DEF publish, AnnouncedInOrder
    <2> QED BY <2>2, <2>3, <2>4, <2>5 DEF AnnouncedInOrder
  <1>2. CASE \E r \in Requests : PublishCancelled(r)
    BY <1>2 DEF PublishCancelled, InHand, AnnouncedInOrder
  <1>3. CASE UNCHANGED <<announced, withdrawn, accepted>>
    BY <1>0, <1>3 DEF AnnouncedInOrder
  <1> QED BY <1>1, <1>2, <1>3
       DEF Next, Serve, Consume, vars, serviceVars, requestVars, Arrive, persist, ReadForCancel,
           WriteCancelled, Report, Fetch, AckWaitExpires, Take, ReadForResult, WriteResult,
           SettleResult, Crash

LEMMA NextCancelIsDone ==
  ASSUME ServiceAssumption, ServiceInv, [Next]_vars
  PROVE  CancelIsDone'
  <1> SUFFICES ASSUME NEW r \in Requests, reply'[r] = 200
               PROVE  "cancelled" \in past'[Target(r)'] /\ Target(r)' \in withdrawn'
    BY DEF CancelIsDone
  <1> USE DEF ServiceInv
  <1>0. /\ withdrawn \subseteq withdrawn' /\ withdrawn \subseteq Notifs
        /\ \A n \in Notifs : past[n] \subseteq past'[n]
    BY RowsStay DEF TypeOK
  <1>1. CASE reply[r] = 200
    <2>1. pc[r] = "done"
      BY <1>1 DEF InHand
    <2>2. op'[r] = op[r]
      <3>1. ~ (Arrive(r) \/ Serve(r))
        BY <2>1 DEF Arrive, Serve, persist, publish, ReadForCancel, WriteCancelled,
                    PublishCancelled
      <3>2. CASE Crash
        BY <3>2 DEF Crash
      <3> QED BY <3>1, <3>2, RequestAlone
    <2>3. Target(r)' = Target(r)
      BY <2>2, TargetKept
    <2> QED BY <1>0, <1>1, <2>3 DEF CancelIsDone
  <1>2. CASE reply[r] # 200
    <2>1. Arrive(r) \/ Serve(r)
      BY <1>2, RequestAlone DEF Crash
    <2>2. PublishCancelled(r)
      BY <1>2, <2>1 DEF TypeOK, Arrive, Serve, persist, publish, ReadForCancel, WriteCancelled,
                        Goto, Respond
    <2>3. Target(r)' = Target(r)
      BY <2>2, TargetKept DEF PublishCancelled
    <2> QED BY <2>2, <2>3 DEF PublishCancelled, Respond, TypeOK, InHand
  <1> QED BY <1>1, <1>2

LEMMA InitServiceInv == ServiceAssumption /\ Init => ServiceInv
  <1> SUFFICES ASSUME ServiceAssumption, Init PROVE ServiceInv
    OBVIOUS
  <1>1. TypeOK
    BY InitTypeOK
  <1>2. ASSUME NEW r \in Requests PROVE InHand(r)
    BY DEF Init, InHand
  <1>3. AnnouncedInOrder /\ CancelIsDone
    BY DEF Init, AnnouncedInOrder, CancelIsDone
  <1> QED BY <1>1, <1>2, <1>3 DEF ServiceInv

LEMMA NextServiceInv ==
  ASSUME ServiceAssumption, ServiceInv, [Next]_vars
  PROVE  ServiceInv'
  <1>1. TypeOK'
    BY NextTypeOK DEF ServiceInv
  <1>2. \A r \in Requests : InHand(r)'
    BY NextInHand
  <1>3. AnnouncedInOrder' /\ CancelIsDone'
    BY NextAnnouncedInOrder, NextCancelIsDone
  <1> QED BY <1>1, <1>2, <1>3 DEF ServiceInv

LEMMA ServiceInvHolds == Spec => []ServiceInv
  <1>1. Init => ServiceInv
    BY ServiceAssumption, InitServiceInv
  <1>2. ServiceInv /\ [Next]_vars => ServiceInv'
    BY ServiceAssumption, NextServiceInv
  <1> QED BY <1>1, <1>2, PTL DEF Spec

\* Every variable of the service keeps its type.
THEOREM ServiceTypeCorrect == Spec => []TypeOK
  <1>1. ServiceInv => TypeOK
    BY DEF ServiceInv
  <1> QED BY <1>1, ServiceInvHolds, PTL

\* Whatever fails and whenever the processes die, an event about a notification
\* is published after its row is stored, and what a client was told is created
\* was announced before (persist, publish, PublishCancelled).
THEOREM AnnouncedInOrderTheorem == Spec => []AnnouncedInOrder
  <1>1. ServiceInv => AnnouncedInOrder
    BY DEF ServiceInv
  <1> QED BY <1>1, ServiceInvHolds, PTL

\* A 200 to a cancel means that the notification became cancelled and that its
\* cancel event was stored, in every interleaving with other requests, results
\* and crashes (Cancel).
THEOREM CancelIsDoneTheorem == Spec => []CancelIsDone
  <1>1. ServiceInv => CancelIsDone
    BY DEF ServiceInv
  <1> QED BY <1>1, ServiceInvHolds, PTL
-----------------------------------------------------------------------------
(***************************************************************************)
(* One outcome.  Requests are given ids nobody else was given, so an       *)
(* INSERT never makes a notification pending again; a result is written    *)
(* over what its consumer read, but only cancels write in between.         *)
(***************************************************************************)

\* Ids are given to one request each, and stored ones have been given.
IdsOnce ==
    /\ \A r, q \in Requests :
          r # q /\ op[r].kind # "cancel" /\ op[q].kind # "cancel"
              => op[r].items \intersect op[q].items = {}
    /\ \A r \in Requests :
          pc[r] = "persist" => \A n \in op[r].items : row[n] = "absent"
    /\ \A n \in Notifs :
          row[n] # "absent" => \E r \in Requests : op[r].kind # "cancel" /\ n \in op[r].items

Opposite(s) == IF s = "delivered" THEN "failed" ELSE "delivered"

\* The history of n goes with its status.
Outcome(n) ==
    /\ row[n] \in {"absent", "pending"} => {"delivered", "failed"} \intersect past[n] = {}
    /\ row[n] \in {"delivered", "failed"} => Opposite(row[n]) \notin past[n]
    /\ ~ ({"delivered", "failed"} \subseteq past[n])

\* What consumer c is about to write contradicts nothing.
WritesOnce(c) ==
    LET n == ResultOf[cjob[c]].notif IN
    cpc[c] = "write" =>
        row[n] # "absent" /\ Opposite(ResultOf[cjob[c]].status) \notin past[n]

VerdictInv ==
    /\ IdsOnce
    /\ \A n \in Notifs : Outcome(n)
    /\ \A c \in Consumers : WritesOnce(c)

\* The three statements that change the row of a notification.
LEMMA RowStep ==
  ASSUME ServiceAssumption, ServiceInv, [Next]_vars, NEW n \in Notifs,
         ~ (row'[n] = row[n] /\ past'[n] = past[n])
  PROVE  /\ past'[n] = past[n] \union {row'[n]}
         /\ \/ /\ row'[n] = "pending"
               /\ \E r \in Requests : persist(r) /\ n \in op[r].items
            \/ /\ row'[n] = "cancelled"
               /\ \E r \in Requests : WriteCancelled(r) /\ n = Target(r)
            \/ \E c \in Consumers :
                  /\ WriteResult(c) /\ n = ResultOf[cjob[c]].notif
                  /\ row'[n] = ResultOf[cjob[c]].status
  <1> USE DEF ServiceInv
  <1>1. CASE \E r \in Requests : persist(r)
    <2>1. PICK r \in Requests : persist(r)
      BY <1>1
    <2>2. op[r].items \in SUBSET Notifs
      BY DEF TypeOK, Ops, NoOp
    <2>3. Insert(op[r].items) \/ Fails(Insert(op[r].items))
      BY <2>1 DEF persist
    <2> QED BY <2>1, <2>2, <2>3, InsertEffect
  <1>2. CASE \E r \in Requests : WriteCancelled(r)
    <2>1. PICK r \in Requests : WriteCancelled(r)
      BY <1>2
    <2>2. SetStatus(Target(r), "cancelled") \/ Fails(SetStatus(Target(r), "cancelled"))
      BY <2>1 DEF WriteCancelled
    <2>3. Target(r) \in Notifs /\ "cancelled" \in Statuses
      BY <2>1 DEF WriteCancelled, InHand, Statuses
    <2> QED BY <2>1, <2>2, <2>3, WriteEffect
  <1>3. CASE \E c \in Consumers : WriteResult(c)
    <2>1. PICK c \in Consumers : WriteResult(c)
      BY <1>3
    <2> DEFINE k == ResultOf[cjob[c]].notif
               s == ResultOf[cjob[c]].status
    <2>2. SetStatus(k, s) \/ Fails(SetStatus(k, s))
      BY <2>1 DEF WriteResult
    <2>3. k \in Notifs /\ s \in Statuses
      BY <2>1, ResultParts DEF WriteResult, Statuses
    <2> QED BY <2>1, <2>2, <2>3, WriteEffect
  <1>4. CASE UNCHANGED <<row, past>>
    BY <1>4
  <1> QED BY <1>1, <1>2, <1>3, <1>4
       DEF Next, Serve, Consume, vars, serviceVars, Arrive, publish, ReadForCancel,
           PublishCancelled, Report, Fetch, AckWaitExpires, Take, ReadForResult, SettleResult,
           Crash

LEMMA NextIdsOnce ==
  ASSUME ServiceAssumption, ServiceInv, VerdictInv, [Next]_vars
  PROVE  IdsOnce'
  <1> USE DEF ServiceInv, VerdictInv
  <1>1. CASE \E r \in Requests : Arrive(r)
    <2>1. PICK r \in Requests : Arrive(r)
      BY <1>1
    <2>2. PICK o \in Ops :
            /\ o.kind # "cancel" => o.items \subseteq FreshIds
            /\ op' = [op EXCEPT ![r] = o]
            /\ pc' = [pc EXCEPT ![r] = IF o.kind = "cancel" THEN "read" ELSE "persist"]
      BY <2>1 DEF Arrive, Goto
    <2>3. row' = row /\ op[r] = NoOp /\ op'[r] = o /\ o.items \subseteq Notifs
      BY <2>1, <2>2 DEF Arrive, serviceVars, InHand, TypeOK, Ops
    <2>4. \A q \in Requests : q # r => op'[q] = op[q] /\ pc'[q] = pc[q]
      BY <2>2 DEF TypeOK
    <2>5. \A q \in Requests : op[q].items \subseteq Notifs
      BY DEF TypeOK, Ops, NoOp
    <2>6. o.kind # "cancel" => \A n \in o.items : row[n] = "absent"
      BY <2>2, <2>3 DEF IdsOnce, FreshIds
    <2>7. \A q, s \in Requests :
             q # s /\ op'[q].kind # "cancel" /\ op'[s].kind # "cancel"
                 => op'[q].items \intersect op'[s].items = {}
      BY <2>2, <2>3, <2>4, <2>5 DEF IdsOnce, FreshIds
    <2>8. \A q \in Requests : pc'[q] = "persist" => \A n \in op'[q].items : row'[n] = "absent"
      BY <2>2, <2>3, <2>4, <2>6 DEF IdsOnce, TypeOK
    <2>9. \A n \in Notifs :
             row'[n] # "absent" => \E q \in Requests : op'[q].kind # "cancel" /\ n \in op'[q].items
      BY <2>3, <2>4 DEF IdsOnce, NoOp
    <2> QED BY <2>7, <2>8, <2>9 DEF IdsOnce
  <1>2. CASE ~ \E r \in Requests : Arrive(r)
    <2>1. op' = op
      BY <1>2 DEF Next, Serve, Consume, vars, requestVars, persist, publish, ReadForCancel,
              WriteCancelled, PublishCancelled, Report, Fetch, AckWaitExpires, Take,
              ReadForResult, WriteResult, SettleResult, Crash
    <2>2. ASSUME NEW r \in Requests, pc'[r] = "persist"
          PROVE  pc[r] = "persist" /\ ~ persist(r)
      <3>1. CASE Crash
        BY <2>2, <3>1 DEF Crash, TypeOK, persist
      <3>2. CASE ~ Crash
        BY <1>2, <2>2, <3>2, RequestAlone
        DEF Serve, persist, publish, ReadForCancel, WriteCancelled, PublishCancelled, Goto,
            Respond, TypeOK
      <3> QED BY <3>1, <3>2
    <2>3. \A r \in Requests : op[r].items \subseteq Notifs
      BY DEF TypeOK, Ops, NoOp
    <2>4. ASSUME NEW r \in Requests, pc'[r] = "persist", NEW n \in op[r].items
          PROVE  row'[n] = "absent"
      <3>1. row[n] = "absent" /\ n \in Notifs /\ op[r].kind # "cancel"
        BY <2>2, <2>3, <2>4 DEF IdsOnce, InHand
      <3>2. \A q \in Requests : ~ (persist(q) /\ n \in op[q].items)
        BY <2>2, <2>4, <3>1 DEF IdsOnce, persist, InHand
      <3>3. \A q \in Requests : ~ (WriteCancelled(q) /\ n = Target(q))
        BY <3>1 DEF WriteCancelled, InHand
      <3>4. \A c \in Consumers : ~ (WriteResult(c) /\ n = ResultOf[cjob[c]].notif)
        BY <3>1 DEF WriteResult, WritesOnce
      <3> QED BY <3>1, <3>2, <3>3, <3>4, RowStep
    <2>5. ASSUME NEW n \in Notifs, row'[n] # "absent"
          PROVE  \E r \in Requests : op[r].kind # "cancel" /\ n \in op[r].items
      <3>1. CASE row[n] # "absent"
        BY <3>1 DEF IdsOnce
      <3>2. CASE row[n] = "absent"
        <4>1. \A q \in Requests : ~ (WriteCancelled(q) /\ n = Target(q))
          BY <3>2 DEF WriteCancelled, InHand
        <4>2. \A c \in Consumers : ~ (WriteResult(c) /\ n = ResultOf[cjob[c]].notif)
          BY <3>2 DEF WriteResult, WritesOnce
        <4>3. \E r \in Requests : persist(r) /\ n \in op[r].items
          BY <2>5, <3>2, <4>1, <4>2, RowStep
        <4> QED BY <4>3 DEF persist, InHand
      <3> QED BY <3>1, <3>2
    <2>6. \A q, s \in Requests :
             q # s /\ op[q].kind # "cancel" /\ op[s].kind # "cancel"
                 => op[q].items \intersect op[s].items = {}
      BY DEF IdsOnce
    <2> QED BY <2>1, <2>4, <2>5, <2>6 DEF IdsOnce
  <1> QED BY <1>1, <1>2
LEMMA NextOutcome ==
  ASSUME ServiceAssumption, ServiceInv, VerdictInv, [Next]_vars, NEW n \in Notifs
  PROVE  Outcome(n)'
  <1> USE DEF ServiceInv, VerdictInv
  <1>1. CASE row'[n] = row[n] /\ past'[n] = past[n]
    BY <1>1 DEF Outcome, Opposite
  <1>2. CASE ~ (row'[n] = row[n] /\ past'[n] = past[n])
    <2>1. past'[n] = past[n] \union {row'[n]} /\ Outcome(n)
      BY <1>2, RowStep
    <2>2. CASE row'[n] = "pending" /\ \E r \in Requests : persist(r) /\ n \in op[r].items
      <3>1. row[n] = "absent"
        BY <2>2 DEF IdsOnce, persist
      <3> QED BY <2>1, <2>2, <3>1 DEF Outcome
    <2>3. CASE row'[n] = "cancelled"
      BY <2>1, <2>3 DEF Outcome
    <2>4. ASSUME NEW c \in Consumers, WriteResult(c), n = ResultOf[cjob[c]].notif,
                 row'[n] = ResultOf[cjob[c]].status
          PROVE  Outcome(n)'
      <3>1. Opposite(row'[n]) \notin past[n] /\ row'[n] \in {"delivered", "failed"}
        BY <2>4, ResultParts DEF WriteResult, WritesOnce
      <3> QED BY <2>1, <3>1 DEF Outcome, Opposite
    <2> QED BY <1>2, <2>2, <2>3, <2>4, RowStep
  <1> QED BY <1>1, <1>2

LEMMA NextWritesOnce ==
  ASSUME ServiceAssumption, ServiceInv, VerdictInv, [Next]_vars,
         \A c, d \in Consumers : c = d, NEW c \in Consumers
  PROVE  WritesOnce(c)'
  <1> USE DEF ServiceInv, VerdictInv
  <1>1. CASE ReadForResult(c)
    <2> DEFINE n == ResultOf[cjob[c]].notif
    <2>1. cjob' = cjob /\ row' = row /\ past' = past /\ n \in Notifs
      BY <1>1, ResultParts DEF ReadForResult, ConsumerGoto, serviceVars
    <2>2. cpc'[c] = "write" => row[n] # "absent" /\ Transition(row[n], ResultOf[cjob[c]].status)
      BY <1>1 DEF ReadForResult, ConsumerGoto, TypeOK
    <2>3. ResultOf[cjob[c]].status \in {"delivered", "failed"} /\ row[n] \in Statuses \union {"absent"}
      BY <1>1, <2>1, ResultParts DEF ReadForResult, TypeOK
    <2>4. cpc'[c] = "write" => \/ row[n] = ResultOf[cjob[c]].status
                               \/ row[n] = "pending"
      BY <2>2, <2>3 DEF Transition, validTransitions, Statuses
    <2>5. Outcome(n)
      BY <2>1
    <2>6. cpc'[c] = "write" => Opposite(ResultOf[cjob[c]].status) \notin past[n]
      BY <2>3, <2>4, <2>5 DEF Outcome, Opposite
    <2> QED BY <2>1, <2>2, <2>6 DEF WritesOnce
  <1>2. CASE ~ ReadForResult(c) /\ cpc'[c] = "write"
    <2>1. cpc[c] = "write" /\ cjob'[c] = cjob[c] /\ ~ WriteResult(c)
      <3>1. ~ WriteResult(c)
        BY <1>2 DEF WriteResult, ConsumerGoto, TypeOK
      <3>2. ASSUME NEW d \in Consumers, Consume(d)
            PROVE  cpc[c] = "write" /\ cjob'[c] = cjob[c]
        BY <1>2, <3>1, <3>2 DEF Consume, Take, ReadForResult, WriteResult, ConsumerGoto,
                                SettleResult, TypeOK
      <3>3. ASSUME NEW r \in Requests, Arrive(r) \/ Serve(r)
            PROVE  cpc[c] = "write" /\ cjob'[c] = cjob[c]
        BY <1>2, <3>3 DEF Serve, consumerVars, Arrive, persist, publish, ReadForCancel,
                          WriteCancelled, PublishCancelled
      <3>4. ASSUME NEW m \in Results, Report(m) \/ Fetch(m) \/ AckWaitExpires(m)
            PROVE  cpc[c] = "write" /\ cjob'[c] = cjob[c]
        BY <1>2, <3>4 DEF Report, Fetch, AckWaitExpires
      <3>5. CASE Crash
        BY <1>2, <3>1, <3>5 DEF Crash
      <3>6. CASE UNCHANGED vars
        BY <1>2, <3>1, <3>6 DEF vars, consumerVars
      <3> QED BY <3>1, <3>2, <3>3, <3>4, <3>5, <3>6 DEF Next
    <2> DEFINE n == ResultOf[cjob[c]].notif
               s == ResultOf[cjob[c]].status
    <2>2. n \in Notifs /\ s \in {"delivered", "failed"}
      BY <2>1, ResultParts
    <2>3. row[n] # "absent" /\ Opposite(s) \notin past[n]
      BY <2>1 DEF WritesOnce
    <2>4. \/ row'[n] = row[n] /\ past'[n] = past[n]
          \/ row'[n] \in {"pending", "cancelled"} /\ past'[n] = past[n] \union {row'[n]}
      BY <2>1, <2>2, RowStep
    <2> QED BY <2>1, <2>2, <2>3, <2>4 DEF WritesOnce, Opposite
  <1>3. CASE cpc'[c] # "write"
    BY <1>3 DEF WritesOnce
  <1> QED BY <1>1, <1>2, <1>3

\* A notification never has both outcomes in its history, whatever results
\* arrive, twice or out of order, and whatever cancels, failed statements and
\* crashes come between the consumer's reads and writes (UpdateStatus).
THEOREM OneVerdictTheorem == Spec => []OneVerdict
  <1> DEFINE Alone == \A c, d \in Consumers : c = d
             Inv == Alone => VerdictInv
  <1>1. Init => Inv
    BY DEF Init, VerdictInv, IdsOnce, NoOp, Outcome, WritesOnce
  <1>2. ServiceInv /\ Inv /\ [Next]_vars => Inv'
    <2> SUFFICES ASSUME ServiceInv, VerdictInv, Alone, [Next]_vars PROVE VerdictInv'
      OBVIOUS
    <2>1. IdsOnce'
      BY ServiceAssumption, NextIdsOnce
    <2>2. \A n \in Notifs : Outcome(n)'
      BY ServiceAssumption, NextOutcome
    <2>3. \A c \in Consumers : WritesOnce(c)'
      BY ServiceAssumption, NextWritesOnce
    <2> QED BY <2>1, <2>2, <2>3 DEF VerdictInv
  <1>3. Inv => OneVerdict
    BY DEF VerdictInv, Outcome, OneVerdict
  <1> QED BY <1>1, <1>2, <1>3, ServiceInvHolds, PTL DEF Spec

-----------------------------------------------------------------------------
(***************************************************************************)
(* What a composition of the services relies on.  Each lemma is about the  *)
(* service's own step, or about any.                                       *)
(***************************************************************************)

\* The steps the service takes itself: the reports are the processor's.
Own ==
    \/ \E r \in Requests : Arrive(r) \/ Serve(r)
    \/ \E m \in Results : Fetch(m) \/ AckWaitExpires(m)
    \/ \E c \in Consumers : Consume(c)
    \/ Crash

\* What the service has in memory was published.
HoldsStored ==
    /\ \A m \in Results : buffer[m] > 0 => queue[m].st # "none"
    /\ \A c \in Consumers : cpc[c] # "idle" => queue[cjob[c]].st # "none"

\* The status of a notification belongs to its history.
RowInPast == \A n \in Notifs : row[n] # "absent" => row[n] \in past[n]

RelyInv == ServiceInv /\ VerdictInv /\ HoldsStored /\ RowInPast

LEMMA faultsKept ==
  ASSUME [Next]_vars
  PROVE  faults' = faults
  BY DEF Next, vars, Arrive, Serve, persist, publish, ReadForCancel, WriteCancelled,
         PublishCancelled, Report, Fetch, AckWaitExpires, Consume, Take, ReadForResult,
         WriteResult, ConsumerGoto, SettleResult, Crash

LEMMA OwnIsNext == Own => Next
  BY DEF Own, Next

\* What was published stays published, and only Report publishes.
LEMMA OnlyReported ==
  ASSUME TypeOK, HoldsStored, NEW m \in Results
  PROVE  /\ [Next]_vars /\ queue[m].st # "none" => queue'[m].st # "none"
         /\ Own /\ queue[m].st = "none" => queue'[m].st = "none"
  <1> DEFINE Kept == queue'[m].st = "none" <=> queue[m].st = "none"
  <1>1. CASE UNCHANGED queue
    BY <1>1
  <1>2. ASSUME NEW k \in Results, Fetch(k) \/ AckWaitExpires(k) PROVE Kept
    BY <1>2 DEF TypeOK, Fetch, AckWaitExpires, Deliverable, Delivered, TimedOut
  <1>3. ASSUME NEW k \in Results, Report(k) PROVE queue[m].st # "none" => queue'[m].st # "none"
    BY <1>3 DEF TypeOK, Report, Stored
  <1>4. ASSUME NEW c \in Consumers, SettleResult(c) PROVE Kept
    BY <1>4 DEF TypeOK, SettleResult, Acked, Naked, HoldsStored
  <1> QED
    BY <1>1, <1>2, <1>3, <1>4
       DEF Own, Next, vars, consumerVars, Consume, Take, ReadForResult, ConsumerGoto, WriteResult, Crash,
           Arrive, Serve, persist, publish, ReadForCancel, WriteCancelled, PublishCancelled

LEMMA NextHoldsStored ==
  ASSUME ServiceAssumption, ServiceInv, HoldsStored, [Next]_vars
  PROVE  HoldsStored'
  <1> USE DEF ServiceInv
  <1>1. \A m \in Results : queue[m].st # "none" => queue'[m].st # "none"
    BY OnlyReported
  <1>2. \A c \in Consumers : cpc[c] # "idle" => cjob[c] \in Results
    BY DEF TypeOK
  <1>3. ASSUME NEW m \in Results PROVE buffer'[m] > 0 => queue'[m].st # "none"
    <2>1. CASE buffer'[m] > buffer[m]
      <3>1. Fetch(m)
        BY <2>1 DEF TypeOK, Next, vars, consumerVars, Consume, Take, ReadForResult, ConsumerGoto,
             WriteResult, SettleResult, Crash, Arrive, Serve, persist, publish, ReadForCancel,
             WriteCancelled, PublishCancelled, Report, Fetch, AckWaitExpires
      <3> QED BY <1>1, <3>1 DEF Fetch, Deliverable
    <2>2. CASE ~ (buffer'[m] > buffer[m])
      <3>1. buffer \in [Results -> 0 .. MaxCopies] /\ buffer' \in [Results -> 0 .. MaxCopies]
        BY NextTypeOK DEF ServiceInv, TypeOK
      <3>2. buffer'[m] > 0 => buffer[m] > 0
        BY <2>2, <3>1 DEF ServiceAssumption
      <3> QED BY <1>1, <3>2 DEF HoldsStored
    <2> QED BY <2>1, <2>2
  <1>4. ASSUME NEW c \in Consumers, cpc'[c] # "idle" PROVE queue'[cjob'[c]].st # "none"
    <2>1. CASE \E m \in Results : Take(c, m)
      <3>1. PICK m \in Results : Take(c, m)
        BY <2>1
      <3>2. cjob'[c] = m /\ queue[m].st # "none"
        BY <3>1 DEF Take, TypeOK, HoldsStored
      <3> QED BY <1>1, <3>2
    <2>2. CASE ~ \E m \in Results : Take(c, m)
      <3>1. cpc[c] # "idle" /\ cjob'[c] = cjob[c]
        BY <1>4, <2>2 DEF TypeOK, Next, vars, consumerVars, Consume, Take, ReadForResult, ConsumerGoto,
             WriteResult, SettleResult, Crash, requestVars, Arrive, Serve, persist, publish, ReadForCancel,
             WriteCancelled, PublishCancelled, Report, Fetch, AckWaitExpires
      <3> QED BY <1>1, <1>2, <3>1 DEF HoldsStored
    <2> QED BY <2>1, <2>2
  <1> QED BY <1>3, <1>4 DEF HoldsStored

LEMMA InitRelyInv == ServiceAssumption /\ Init => RelyInv
  <1> SUFFICES ASSUME ServiceAssumption, Init PROVE RelyInv
    OBVIOUS
  <1>1. VerdictInv
    BY DEF Init, VerdictInv, IdsOnce, NoOp, Outcome, WritesOnce
  <1>2. HoldsStored
    BY DEF Init, HoldsStored
  <1>3. RowInPast
    BY DEF Init, RowInPast
  <1> QED BY <1>1, <1>2, <1>3, InitServiceInv DEF RelyInv

LEMMA NextRelyInv ==
  ASSUME ServiceAssumption, \A c, d \in Consumers : c = d, RelyInv, [Next]_vars
  PROVE  RelyInv'
  <1> USE DEF RelyInv
  <1>1. ServiceInv'
    BY NextServiceInv
  <1>2. IdsOnce' /\ (\A n \in Notifs : Outcome(n)') /\ \A c \in Consumers : WritesOnce(c)'
    BY NextIdsOnce, NextOutcome, NextWritesOnce
  <1>3. HoldsStored'
    BY NextHoldsStored
  <1>4. RowInPast'
    BY RowStep DEF RowInPast
  <1> QED BY <1>1, <1>2, <1>3, <1>4 DEF VerdictInv

\* How a step changes the rows: it stores new ones, or it writes an outcome that
\* a published result reports and no earlier one contradicts, or a cancel.
LEMMA RowMoves ==
  ASSUME ServiceAssumption, RelyInv, [Next]_vars
  PROVE  \/ UNCHANGED <<row, past>>
         \/ \E S \in SUBSET {n \in Notifs : row[n] = "absent"} : Insert(S)
         \/ \E n \in Notifs : row[n] # "absent" /\ SetStatus(n, "cancelled")
         \/ \E m \in Results :
               /\ queue[m].st # "none"
               /\ row[ResultOf[m].notif] \notin {"absent", Opposite(ResultOf[m].status)}
               /\ Opposite(ResultOf[m].status) \notin past[ResultOf[m].notif]
               /\ SetStatus(ResultOf[m].notif, ResultOf[m].status)
  <1> USE DEF RelyInv, ServiceInv
  <1>1. ASSUME NEW r \in Requests, persist(r), ~ UNCHANGED <<row, past>>
        PROVE  \E S \in SUBSET {n \in Notifs : row[n] = "absent"} : Insert(S)
    <2>1. Insert(op[r].items)
      BY <1>1 DEF persist, Fails
    <2>2. op[r].items \in SUBSET Notifs
      BY DEF TypeOK, Ops, NoOp
    <2>3. \A n \in op[r].items : row[n] = "absent"
      BY <1>1 DEF persist, VerdictInv, IdsOnce
    <2> QED BY <2>1, <2>2, <2>3
  <1>2. ASSUME NEW r \in Requests, WriteCancelled(r), ~ UNCHANGED <<row, past>>
        PROVE  \E n \in Notifs : row[n] # "absent" /\ SetStatus(n, "cancelled")
    <2>1. SetStatus(Target(r), "cancelled")
      BY <1>2 DEF WriteCancelled, Fails
    <2>2. Target(r) \in Notifs /\ row[Target(r)] # "absent"
      BY <1>2 DEF WriteCancelled, InHand
    <2> QED BY <2>1, <2>2
  <1>3. ASSUME NEW c \in Consumers, WriteResult(c), ~ UNCHANGED <<row, past>>
        PROVE  /\ cjob[c] \in Results
               /\ queue[cjob[c]].st # "none"
               /\ row[ResultOf[cjob[c]].notif] \notin {"absent", Opposite(ResultOf[cjob[c]].status)}
               /\ Opposite(ResultOf[cjob[c]].status) \notin past[ResultOf[cjob[c]].notif]
               /\ SetStatus(ResultOf[cjob[c]].notif, ResultOf[cjob[c]].status)
    <2>1. cpc[c] = "write"
      BY <1>3 DEF WriteResult
    <2>2. cjob[c] \in Results /\ ResultOf[cjob[c]].notif \in Notifs
      BY <2>1, ResultParts
    <2>3. queue[cjob[c]].st # "none"
      BY <2>1 DEF HoldsStored
    <2>4. SetStatus(ResultOf[cjob[c]].notif, ResultOf[cjob[c]].status)
      BY <1>3 DEF WriteResult, Fails
    <2>5. /\ row[ResultOf[cjob[c]].notif] # "absent"
          /\ Opposite(ResultOf[cjob[c]].status) \notin past[ResultOf[cjob[c]].notif]
      BY <2>1 DEF VerdictInv, WritesOnce
    <2> QED BY <2>2, <2>3, <2>4, <2>5 DEF RowInPast
  <1>4. \/ UNCHANGED <<row, past>>
        \/ \E r \in Requests : persist(r) \/ WriteCancelled(r)
        \/ \E c \in Consumers : WriteResult(c)
    BY DEF Next, Serve, Consume, vars, serviceVars, Arrive, publish, ReadForCancel,
           PublishCancelled, Report, Fetch, AckWaitExpires, Take, ReadForResult, SettleResult,
           Crash
  <1> HIDE DEF RelyInv, ServiceInv
  <1> QED BY <1>1, <1>2, <1>3, <1>4
=============================================================================

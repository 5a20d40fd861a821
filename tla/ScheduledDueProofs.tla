------------------------- MODULE ScheduledDueProofs -------------------------
(***************************************************************************)
(* What holds of the API's consumer of due events for any number of        *)
(* notifications, events and processes: the types, and that no due event   *)
(* leaves the queue unanswered.                                            *)
(***************************************************************************)
EXTENDS ScheduledDue, FiniteSetTheorems, SequenceTheorems, TLAPS

-----------------------------------------------------------------------------
(***************************************************************************)
(* Lemmas about one step, shared by the theorems.                          *)
(***************************************************************************)

\* The broker's operations yield queue entries.
LEMMA QueueEntries ==
  ASSUME NEW q \in [st : QueueStatus, count : Nat]
  PROVE  /\ Stored(q) \in [st : QueueStatus, count : Nat]
         /\ Delivered(q, 0) \in [st : QueueStatus, count : Nat]
         /\ Acked(q) \in [st : QueueStatus, count : Nat]
         /\ Naked(q) \in [st : QueueStatus, count : Nat]
         /\ TimedOut(q) \in [st : QueueStatus, count : Nat]
  BY DEF QueueStatus, Stored, Delivered, Acked, Naked, TimedOut

\* Only an ack removes a message.
LEMMA GoneOnlyByAck ==
  ASSUME NEW q \in [st : QueueStatus, count : Nat]
  PROVE  /\ Stored(q).st # "gone"
         /\ Delivered(q, 0).st # "gone"
         /\ Naked(q).st = "gone" => q.st = "gone"
         /\ TimedOut(q).st # "gone"
  BY DEF QueueStatus, Stored, Delivered, Naked, TimedOut

\* A batch that was fetched holds something, and its index a message for every
\* notification and never two for one.
LEMMA IndexedOnce ==
  ASSUME DueAssumption, NEW S \in SUBSET Msgs, NEW R \in Indexed(S)
  PROVE  /\ R \subseteq S
         /\ \A l, m \in R : NotifOf[l] = NotifOf[m] => l = m
  BY DEF Indexed

\* The batches waiting for a handler are taken in the order they came.
LEMMA BatchesInLine ==
  ASSUME NEW s \in Seq(Batches)
  PROVE  /\ Len(s) \in Nat
         /\ \A S \in Batches : /\ Append(s, S) \in Seq(Batches)
                              /\ Len(Append(s, S)) = Len(s) + 1
         /\ s # <<>> => /\ Head(s) \in Batches
                        /\ Tail(s) \in Seq(Batches)
                        /\ Len(Tail(s)) = Len(s) - 1
  BY AppendProperties, LenProperties, HeadTailProperties

\* Fetch returns no empty batch.
LEMMA FetchedSome ==
  ASSUME DueAssumption, NEW S, Cardinality(S) \in 1 .. BatchSize
  PROVE  S # {}
  <1>1. Cardinality({}) = 0
    BY FS_EmptySet
  <1>2. Cardinality(S) # 0
    BY DEF DueAssumption
  <1> QED BY <1>1, <1>2

-----------------------------------------------------------------------------
LEMMA InitTypeOK == DueAssumption /\ Init => TypeOK
  BY DEF DueAssumption, Init, TypeOK, QueueStatus, Unpublished, Verdicts

LEMMA NextTypeOK ==
  ASSUME DueAssumption, TypeOK, [Next]_vars
  PROVE  TypeOK'
  <1> USE DEF TypeOK
  <1>1. CASE UNCHANGED vars
    BY <1>1 DEF vars
  <1>2. ASSUME NEW m \in Msgs, Store(m) \/ AckWaitExpires(m) PROVE TypeOK'
    <2>1. PICK q \in [st : QueueStatus, count : Nat] : queue' = [queue EXCEPT ![m] = q]
      BY <1>2, QueueEntries DEF Store, AckWaitExpires
    <2> QED BY <1>2, <2>1 DEF Store, AckWaitExpires
  <1>3. ASSUME NEW c \in Consumers, FetchBatch(c) PROVE TypeOK'
    <2>1. PICK S \in SUBSET Msgs :
            /\ Cardinality(S) \in 1 .. BatchSize
            /\ queue' = [m \in Msgs |-> IF m \in S THEN Delivered(queue[m], 0) ELSE queue[m]]
            /\ batches' = [batches EXCEPT ![c] = Append(@, S)]
      BY <1>3 DEF FetchBatch
    <2>2. S \in Batches
      BY <2>1, FetchedSome DEF Batches
    <2>3. queue' \in [Msgs -> [st : QueueStatus, count : Nat]]
      BY <2>1, QueueEntries
    <2>4. /\ Append(batches[c], S) \in Seq(Batches)
          /\ Len(Append(batches[c], S)) <= Waiting
      BY <1>3, <2>2, BatchesInLine DEF FetchBatch, DueAssumption
    <2>5. /\ batches' \in [Consumers -> Seq(Batches)]
          /\ \A d \in Consumers : Len(batches'[d]) <= Waiting
      BY <2>1, <2>4
    <2> QED BY <1>3, <2>3, <2>5 DEF FetchBatch
  <1>4. ASSUME NEW c \in Consumers, Take(c) PROVE TypeOK'
    <2>0. batches[c] # <<>> /\ batches[c] \in Seq(Batches) /\ Len(batches[c]) <= Waiting
      BY <1>4 DEF Take
    <2>1. /\ Head(batches[c]) \in Batches
          /\ Tail(batches[c]) \in Seq(Batches)
          /\ Len(Tail(batches[c])) <= Waiting
      BY <2>0, BatchesInLine DEF DueAssumption
    <2>2. PICK R \in Indexed(Head(batches[c])) : batch' = [batch EXCEPT ![c] = R]
      BY <1>4 DEF Take
    <2>3. R \subseteq Msgs /\ \A l, m \in R : NotifOf[l] = NotifOf[m] => l = m
      <3>1. Head(batches[c]) \in SUBSET Msgs
        BY <2>1 DEF Batches
      <3> HIDE DEF TypeOK
      <3> QED BY <2>2, <3>1, IndexedOnce
    <2>4. /\ batch' \in [Consumers -> SUBSET Msgs]
          /\ \A d \in Consumers : \A l, m \in batch'[d] : NotifOf[l] = NotifOf[m] => l = m
      BY <2>2, <2>3
    <2>5. /\ batches' \in [Consumers -> Seq(Batches)]
          /\ \A d \in Consumers : Len(batches'[d]) <= Waiting
      BY <1>4, <2>1 DEF Take
    <2>6. /\ phase' = [phase EXCEPT ![c] = "lookup"] /\ phase[c] = "idle"
          /\ UNCHANGED <<faults, queue, found, verdict, readied>>
      BY <1>4 DEF Take
    <2> QED BY <2>4, <2>5, <2>6
  <1>5. ASSUME NEW c \in Consumers, Lookup(c) PROVE TypeOK'
    BY <1>5 DEF Lookup, DueAssumption
  <1>6. ASSUME NEW c \in Consumers, NEW m \in Msgs, Each(c, m) PROVE TypeOK'
    <2>1. PICK v \in {"ack", "nak"} : Decide(c, m, v)
      BY <1>6 DEF Each
    <2>2. readied' \in [Msgs -> 0 .. 2]
      <3>1. \A k \in 0 .. 2 : (IF k < 2 THEN k + 1 ELSE k) \in 0 .. 2
        OBVIOUS
      <3>2. \/ readied' = readied
            \/ readied' = [readied EXCEPT ![m] = IF @ < 2 THEN @ + 1 ELSE @]
        BY <1>6 DEF Each, Readied
      <3> HIDE DEF TypeOK
      <3>3. readied \in [Msgs -> 0 .. 2]
        BY DEF TypeOK
      <3> QED BY <3>1, <3>2, <3>3
    <2>3. /\ <<m, v>> \in Verdicts /\ <<m, v>> # <<>>
          /\ batch' = [batch EXCEPT ![c] = @ \ {m}]
          /\ verdict' = [verdict EXCEPT ![c] = <<m, v>>]
          /\ phase' = [phase EXCEPT ![c] = "settle"]
      BY <2>1 DEF Decide, Verdicts
    <2>4. UNCHANGED <<faults, queue, batches, found>>
      BY <1>6 DEF Each
    <2>5. /\ batch' \in [Consumers -> SUBSET Msgs]
          /\ \A d \in Consumers : batch'[d] \subseteq batch[d]
      BY <2>3
    <2>6. \A d \in Consumers : \A k, l \in batch'[d] : NotifOf[k] = NotifOf[l] => k = l
      BY <2>5
    <2>7. /\ verdict' \in [Consumers -> Verdicts]
          /\ phase' \in [Consumers -> {"idle", "lookup", "each", "settle"}]
          /\ \A d \in Consumers : phase'[d] = "settle" <=> verdict'[d] # <<>>
      BY <2>3
    <2> QED BY <2>2, <2>4, <2>5, <2>6, <2>7
  <1>7. ASSUME NEW c \in Consumers, Settle(c) PROVE TypeOK'
    <2>1. verdict[c][1] \in Msgs
      BY <1>7 DEF Settle, Verdicts
    <2>2. PICK q \in [st : QueueStatus, count : Nat] :
             queue' = [queue EXCEPT ![verdict[c][1]] = q] \/ queue' = queue
      BY <1>7, <2>1, QueueEntries DEF Settle
    <2>3. queue' \in [Msgs -> [st : QueueStatus, count : Nat]]
      BY <2>1, <2>2
    <2>4. verdict' \in [Consumers -> Verdicts] /\ verdict'[c] = <<>>
      BY <1>7 DEF Settle, Verdicts
    <2>5. /\ phase' \in [Consumers -> {"idle", "lookup", "each", "settle"}]
          /\ found' \in [Consumers -> SUBSET Notifs]
          /\ \A d \in Consumers : phase'[d] = "settle" <=> verdict'[d] # <<>>
      BY <1>7, <2>4 DEF Settle
    <2> QED BY <1>7, <2>3, <2>4, <2>5 DEF Settle
  <1>8. ASSUME NEW c \in Consumers, Crash(c) PROVE TypeOK'
    <2>1. <<>> \in Seq(Batches) /\ Len(<<>>) <= Waiting
      BY EmptySeq DEF DueAssumption
    <2>2. /\ batches' \in [Consumers -> Seq(Batches)]
          /\ \A d \in Consumers : Len(batches'[d]) <= Waiting
      BY <1>8, <2>1 DEF Crash
    <2> QED BY <1>8, <2>2 DEF Crash, Verdicts
  <1> QED BY <1>1, <1>2, <1>3, <1>4, <1>5, <1>6, <1>7, <1>8 DEF Next, Handle

-----------------------------------------------------------------------------
(***************************************************************************)
(* A due event is acked only once a ready event is stored for it.          *)
(***************************************************************************)

\* The ack a handler has decided on is earned.
AckEarned(c) ==
    verdict[c] # <<>> /\ verdict[c][2] = "ack" => readied[verdict[c][1]] > 0

DueInv == TypeOK /\ DueNotLost /\ \A c \in Consumers : AckEarned(c)

LEMMA InitDueInv == DueAssumption /\ Init => DueInv
  BY InitTypeOK DEF Init, DueInv, DueNotLost, AckEarned, Unpublished

\* A ready event that is stored is not taken back.
LEMMA ReadiedGrows ==
  ASSUME TypeOK, [Next]_vars, NEW m \in Msgs
  PROVE  readied[m] <= readied'[m] /\ (readied[m] > 0 => readied'[m] > 0)
  <1>0. readied[m] \in 0 .. 2
    BY DEF TypeOK
  <1>1. CASE \E c \in Consumers, l \in Msgs : Each(c, l) /\ Readied(l)
    <2>1. PICK l \in Msgs : Readied(l)
      BY <1>1
    <2>2. readied'[m] = readied[m] \/ readied'[m] = IF readied[m] < 2 THEN readied[m] + 1 ELSE readied[m]
      BY <2>1 DEF Readied, TypeOK
    <2> QED BY <1>0, <2>2
  <1>2. CASE UNCHANGED readied
    BY <1>0, <1>2
  <1> QED BY <1>1, <1>2
       DEF Next, Handle, vars, Store, AckWaitExpires, FetchBatch, Take, Lookup, Each, Settle, Crash

LEMMA NextDueNotLost ==
  ASSUME DueAssumption, DueInv, [Next]_vars, NEW m \in Msgs, queue'[m].st = "gone"
  PROVE  readied'[m] > 0
  <1> USE DEF DueInv
  <1>1. CASE queue[m].st = "gone"
    BY <1>1, ReadiedGrows DEF DueNotLost
  <1>2. CASE queue[m].st # "gone"
    <2>1. PICK c \in Consumers : Settle(c)
      <3>1. queue'[m] # queue[m] /\ queue[m] \in [st : QueueStatus, count : Nat]
        BY <1>2 DEF TypeOK
      <3>2. \A l \in Msgs : ~ (Store(l) \/ AckWaitExpires(l))
        BY <1>2, <3>1, GoneOnlyByAck DEF Store, AckWaitExpires, TypeOK
      <3>3. \A c \in Consumers : ~ FetchBatch(c)
        BY <1>2, <3>1, GoneOnlyByAck DEF FetchBatch
      <3> QED BY <3>1, <3>2, <3>3 DEF Next, Handle, vars, Take, Lookup, Each, Crash
    <2>2. verdict[c] # <<>> /\ verdict[c][1] \in Msgs
      BY <2>1 DEF Settle, TypeOK, Verdicts
    <2>3. m = verdict[c][1] /\ verdict[c][2] = "ack"
      BY <1>2, <2>1, <2>2, GoneOnlyByAck DEF Settle, TypeOK
    <2> QED BY <2>1, <2>2, <2>3 DEF AckEarned, Settle
  <1> QED BY <1>1, <1>2

LEMMA NextAckEarned ==
  ASSUME DueAssumption, DueInv, [Next]_vars, NEW c \in Consumers
  PROVE  AckEarned(c)'
  <1> USE DEF DueInv
  <1>1. CASE verdict'[c] = verdict[c]
    <2>1. verdict[c] # <<>> => verdict[c][1] \in Msgs
      BY DEF TypeOK, Verdicts
    <2> QED BY <1>1, <2>1, ReadiedGrows DEF AckEarned
  <1>2. ASSUME NEW m \in Msgs, Each(c, m) PROVE AckEarned(c)'
    <2>1. CASE Decide(c, m, "nak")
      BY <2>1 DEF Decide, AckEarned, TypeOK
    <2>2. CASE Decide(c, m, "ack") /\ Readied(m)
      <3>1. readied'[m] = IF readied[m] < 2 THEN readied[m] + 1 ELSE readied[m]
        BY <2>2 DEF Readied, TypeOK
      <3>2. readied[m] \in 0 .. 2 /\ verdict'[c] = <<m, "ack">>
        BY <2>2 DEF Decide, TypeOK
      <3> QED BY <3>1, <3>2 DEF AckEarned
    <2> QED BY <1>2, <2>1, <2>2 DEF Each
  <1>3. CASE verdict'[c] = <<>>
    BY <1>3 DEF AckEarned
  <1>4. ASSUME NEW d \in Consumers, d # c, (\E m \in Msgs : Each(d, m)) \/ Settle(d) \/ Crash(d)
        PROVE  verdict'[c] = verdict[c]
    BY <1>4 DEF TypeOK, Each, Decide, Settle, Crash
  <1>5. CASE Settle(c) \/ Crash(c)
    BY <1>3, <1>5 DEF TypeOK, Settle, Crash
  <1> QED BY <1>1, <1>2, <1>4, <1>5
       DEF Next, Handle, vars, Store, AckWaitExpires, FetchBatch, Take, Lookup

LEMMA NextDueInv == DueAssumption /\ DueInv /\ [Next]_vars => DueInv'
  <1> SUFFICES ASSUME DueAssumption, DueInv, [Next]_vars PROVE DueInv'
    OBVIOUS
  <1>1. TypeOK'
    BY NextTypeOK DEF DueInv
  <1>2. DueNotLost'
    BY NextDueNotLost DEF DueNotLost
  <1>3. \A c \in Consumers : AckEarned(c)'
    BY NextAckEarned
  <1> QED BY <1>1, <1>2, <1>3 DEF DueInv

LEMMA DueInvHolds == Spec => []DueInv
  <1>1. Init => DueInv
    BY DueAssumption, InitDueInv
  <1>2. DueInv /\ [Next]_vars => DueInv'
    BY DueAssumption, NextDueInv
  <1> QED BY <1>1, <1>2, PTL DEF Spec

\* Every variable of the consumer keeps its type, and an index never holds two
\* messages for one notification.
THEOREM DueTypeCorrect == Spec => []TypeOK
  <1>1. DueInv => TypeOK
    BY DEF DueInv
  <1> QED BY <1>1, DueInvHolds, PTL

\* Under all faults at once a due event is removed from the queue only after a
\* ready event was stored on its behalf (handleBatch).
THEOREM DueNotLostTheorem == Spec => []DueNotLost
  <1>1. DueInv => DueNotLost
    BY DEF DueInv
  <1> QED BY <1>1, DueInvHolds, PTL
-----------------------------------------------------------------------------
(***************************************************************************)
(* What a composition of the services relies on: the consumer handles only *)
(* what was published.                                                     *)
(***************************************************************************)

\* The steps the consumer takes itself: its messages are the scheduler's.
Own ==
    \/ \E m \in Msgs : AckWaitExpires(m)
    \/ \E c \in Consumers : FetchBatch(c) \/ Handle(c) \/ Crash(c)

\* Consumer c has message m.
Has(c, m) ==
    \/ \E k \in 1 .. Len(batches[c]) : m \in batches[c][k]
    \/ m \in batch[c]
    \/ verdict[c] # <<>> /\ verdict[c][1] = m

HoldsStored == \A c \in Consumers, m \in Msgs : Has(c, m) => queue[m].st # "none"

RelyInv == TypeOK /\ HoldsStored

LEMMA faultsKept ==
  ASSUME [Next]_vars
  PROVE  faults' = faults
  BY DEF Next, vars, Store, AckWaitExpires, FetchBatch, Handle, Take, Lookup, Each, Settle, Crash

LEMMA OwnIsNext == Own => Next
  BY DEF Own, Next

\* What was published stays published, and only Store publishes.
LEMMA OnlyStored ==
  ASSUME TypeOK, HoldsStored, NEW m \in Msgs
  PROVE  /\ [Next]_vars /\ queue[m].st # "none" => queue'[m].st # "none"
         /\ Own /\ queue[m].st = "none" => queue'[m].st = "none"
  <1> DEFINE Kept == queue'[m].st = "none" <=> queue[m].st = "none"
  <1>0. queue[m] \in [st : QueueStatus, count : Nat]
    BY DEF TypeOK
  <1>1. ASSUME NEW k \in Msgs, AckWaitExpires(k) PROVE Kept
    BY <1>1 DEF TypeOK, AckWaitExpires, TimedOut
  <1>2. ASSUME NEW c \in Consumers, FetchBatch(c) PROVE Kept
    BY <1>2 DEF FetchBatch, Deliverable, Delivered
  <1>3. ASSUME NEW k \in Msgs, Store(k) PROVE queue[m].st # "none" => queue'[m].st # "none"
    BY <1>3 DEF TypeOK, Store, Stored
  <1>4. ASSUME NEW c \in Consumers, Settle(c) PROVE Kept
    <2>1. verdict[c] # <<>> /\ verdict[c][1] \in Msgs
      BY <1>4 DEF Settle, TypeOK, Verdicts
    <2>2. queue[verdict[c][1]].st # "none"
      BY <2>1 DEF HoldsStored, Has
    <2>3. Acked(queue[m]).st # "none" /\ (Naked(queue[m]).st = "none" <=> queue[m].st = "none")
      BY <1>0 DEF Acked, Naked
    <2> QED BY <1>4, <2>1, <2>2, <2>3 DEF Settle, TypeOK
  <1>5. CASE UNCHANGED queue
    BY <1>5
  <1> QED BY <1>1, <1>2, <1>3, <1>4, <1>5
       DEF Own, Next, vars, Handle, Take, Lookup, Each, Crash

\* A message comes to a consumer by a fetch only.
LEMMA HasSource ==
  ASSUME DueAssumption, TypeOK, [Next]_vars, NEW c \in Consumers, NEW m \in Msgs, Has(c, m)'
  PROVE  Has(c, m) \/ Deliverable(queue[m], 0)
  <1>1. ASSUME NEW d \in Consumers, d # c, FetchBatch(d) \/ Handle(d) \/ Crash(d)
        PROVE  Has(c, m)
    BY <1>1 DEF Has, TypeOK, FetchBatch, Handle, Take, Lookup, Each, Decide, Settle, Crash
  <1>2. CASE UNCHANGED <<batches, batch, verdict>>
    BY <1>2 DEF Has
  <1>3. CASE FetchBatch(c)
    <2>1. PICK S \in SUBSET {k \in Msgs : Deliverable(queue[k], 0)} :
            batches' = [batches EXCEPT ![c] = Append(@, S)]
      BY <1>3 DEF FetchBatch
    <2>2. batches'[c] = Append(batches[c], S) /\ UNCHANGED <<batch, verdict>>
      BY <1>3, <2>1 DEF FetchBatch, TypeOK
    <2>3. batches[c] \in Seq(Batches)
      BY DEF TypeOK
    <2>4. \A k \in 1 .. Len(batches'[c]) :
             (k \in 1 .. Len(batches[c]) /\ batches'[c][k] = batches[c][k]) \/ batches'[c][k] = S
      BY <2>2, <2>3, AppendProperties
    <2> QED BY <2>1, <2>2, <2>4 DEF Has
  <1>4. CASE Take(c)
    <2>1. PICK R \in Indexed(Head(batches[c])) : batch' = [batch EXCEPT ![c] = R]
      BY <1>4 DEF Take
    <2>2. batches[c] \in Seq(Batches) /\ batches[c] # <<>>
      BY <1>4 DEF Take, TypeOK
    <2>3. batch'[c] \subseteq batches[c][1] /\ 1 \in 1 .. Len(batches[c])
      <3>1. Head(batches[c]) \in Batches /\ Head(batches[c]) = batches[c][1]
        BY <2>2, HeadTailProperties
      <3>2. Len(batches[c]) \in Nat /\ Len(batches[c]) # 0
        BY <2>2, LenProperties, EmptySeq
      <3>3. Head(batches[c]) \in SUBSET Msgs
        BY <3>1 DEF Batches
      <3>4. R \subseteq Head(batches[c])
        BY <2>1, <3>3, IndexedOnce
      <3>5. batch'[c] = R
        BY <2>1 DEF TypeOK
      <3>6. 1 \in 1 .. Len(batches[c])
        BY <3>2
      <3> QED BY <3>1, <3>4, <3>5, <3>6
    <2>4. batches'[c] = Tail(batches[c]) /\ verdict' = verdict
      BY <1>4 DEF Take, TypeOK
    <2>5. \A k \in 1 .. Len(batches'[c]) :
             k + 1 \in 1 .. Len(batches[c]) /\ batches'[c][k] = batches[c][k + 1]
      BY <2>2, <2>4, HeadTailProperties
    <2> QED BY <2>3, <2>4, <2>5 DEF Has
  <1>5. ASSUME NEW l \in Msgs, Each(c, l) PROVE Has(c, m)
    <2>1. PICK v \in {"ack", "nak"} : Decide(c, l, v)
      BY <1>5 DEF Each
    <2>2. /\ batches' = batches
          /\ l \in batch[c]
          /\ batch'[c] \subseteq batch[c]
          /\ verdict'[c] = <<l, v>>
      BY <1>5, <2>1 DEF Each, Decide, TypeOK
    <2>3. <<l, v>>[1] = l
      OBVIOUS
    <2> QED BY <2>2, <2>3 DEF Has
  <1>6. CASE Settle(c)
    <2>1. batches' = batches /\ batch' = batch /\ verdict'[c] = <<>>
      BY <1>6 DEF Settle, TypeOK
    <2> QED BY <2>1 DEF Has
  <1>7. CASE Crash(c)
    <2>1. batches'[c] = <<>> /\ batch'[c] = {} /\ verdict'[c] = <<>>
      BY <1>7 DEF Crash, TypeOK
    <2>2. Len(<<>>) = 0
      OBVIOUS
    <2>3. ~ \E k \in 1 .. Len(batches'[c]) : m \in batches'[c][k]
      BY <2>1, <2>2
    <2> QED BY <2>1, <2>3 DEF Has
  <1>8. \/ UNCHANGED <<batches, batch, verdict>>
        \/ \E d \in Consumers : FetchBatch(d) \/ Handle(d) \/ Crash(d)
    BY DEF Next, vars, Store, AckWaitExpires
  <1>9. CASE Handle(c)
    <2>1. CASE Lookup(c)
      BY <1>2, <2>1 DEF Lookup
    <2>2. CASE \E l \in Msgs : Each(c, l)
      BY <1>5, <2>2
    <2>3. Take(c) \/ Lookup(c) \/ (\E l \in Msgs : Each(c, l)) \/ Settle(c)
      BY <1>9 DEF Handle
    <2> QED BY <1>4, <1>6, <2>1, <2>2, <2>3
  <1>10. ASSUME NEW d \in Consumers, FetchBatch(d) \/ Handle(d) \/ Crash(d)
         PROVE  Has(c, m) \/ Deliverable(queue[m], 0)
    <2>1. CASE d = c
      BY <1>3, <1>7, <1>9, <1>10, <2>1
    <2> QED BY <1>1, <1>10, <2>1
  <1> QED BY <1>2, <1>8, <1>10

LEMMA NextHoldsStored ==
  ASSUME DueAssumption, TypeOK, HoldsStored, [Next]_vars
  PROVE  HoldsStored'
  <1> SUFFICES ASSUME NEW c \in Consumers, NEW m \in Msgs, Has(c, m)'
               PROVE  queue'[m].st # "none"
    BY DEF HoldsStored
  <1>1. Has(c, m) \/ Deliverable(queue[m], 0)
    BY HasSource
  <1>2. queue[m].st # "none"
    BY <1>1 DEF HoldsStored, Deliverable
  <1> QED BY <1>2, OnlyStored

LEMMA InitRelyInv ==
  ASSUME DueAssumption, Init
  PROVE  RelyInv
  <1>1. TypeOK
    BY InitTypeOK
  <1>2. \A c \in Consumers : batches[c] = <<>> /\ batch[c] = {} /\ verdict[c] = <<>>
    BY DEF Init
  <1>3. Len(<<>>) = 0
    OBVIOUS
  <1>4. HoldsStored
    BY <1>2, <1>3 DEF HoldsStored, Has
  <1> QED BY <1>1, <1>4 DEF RelyInv

LEMMA NextRelyInv ==
  ASSUME DueAssumption, RelyInv, [Next]_vars
  PROVE  RelyInv'
  BY NextTypeOK, NextHoldsStored DEF RelyInv

\* The scheduler may publish several messages at once.
LEMMA StoresRelyInv ==
  ASSUME RelyInv, NEW S \in SUBSET Msgs,
         queue' = [m \in Msgs |-> IF m \in S THEN Stored(queue[m]) ELSE queue[m]],
         UNCHANGED <<faults, batches, phase, batch, found, verdict, readied>>
  PROVE  /\ RelyInv'
         /\ \A m \in Msgs : queue[m].st # "none" => queue'[m].st # "none"
  <1>1. \A m \in Msgs : queue'[m] = IF m \in S THEN Stored(queue[m]) ELSE queue[m]
    OBVIOUS
  <1>2. \A m \in Msgs : queue[m] \in [st : QueueStatus, count : Nat]
    BY DEF RelyInv, TypeOK
  <1>3. \A m \in Msgs : queue[m].st # "none" => queue'[m].st # "none"
    BY <1>1, <1>2 DEF Stored
  <1>4. queue' \in [Msgs -> [st : QueueStatus, count : Nat]]
    BY <1>1, <1>2, QueueEntries
  <1>5. TypeOK'
    BY <1>4 DEF RelyInv, TypeOK
  <1>6. HoldsStored'
    BY <1>3 DEF RelyInv, HoldsStored, Has
  <1> QED BY <1>3, <1>5, <1>6 DEF RelyInv

\* Due events that are stored leave the acks earned.
LEMMA StoresDueInv ==
  ASSUME DueInv, NEW S \in SUBSET Msgs,
         queue' = [m \in Msgs |-> IF m \in S THEN Stored(queue[m]) ELSE queue[m]],
         UNCHANGED <<faults, batches, phase, batch, found, verdict, readied>>
  PROVE  DueInv'
  <1>1. \A m \in Msgs : queue'[m] = IF m \in S THEN Stored(queue[m]) ELSE queue[m]
    OBVIOUS
  <1>2. \A m \in Msgs : queue[m] \in [st : QueueStatus, count : Nat]
    BY DEF DueInv, TypeOK
  <1>3. queue' \in [Msgs -> [st : QueueStatus, count : Nat]]
    BY <1>1, <1>2, QueueEntries
  <1>4. TypeOK'
    BY <1>3 DEF DueInv, TypeOK
  <1>5. \A m \in Msgs : queue'[m].st = "gone" => queue[m].st = "gone"
    BY <1>1, <1>2 DEF Stored
  <1>6. DueNotLost'
    BY <1>5 DEF DueInv, DueNotLost
  <1>7. \A c \in Consumers : AckEarned(c)'
    BY DEF DueInv, AckEarned
  <1> QED BY <1>4, <1>6, <1>7 DEF DueInv

-----------------------------------------------------------------------------
(***************************************************************************)
(* One ready event for a due event, while publishing works, acks arrive in *)
(* time and no process dies.  A message is then held in one place at a     *)
(* time, and none that was answered is held any more.                      *)
(***************************************************************************)
Undisturbed == {"publish", "slow", "settle", "crash"} \intersect faults = {}

Waits(c, m) == \E k \in 1 .. Len(batches[c]) : m \in batches[c][k]

Answering(c, m) == verdict[c] # <<>> /\ verdict[c][1] = m

\* Consumer c holds message m in one place at most.
HeldOnce(c, m) ==
    /\ \A k, l \in 1 .. Len(batches[c]) : m \in batches[c][k] /\ m \in batches[c][l] => k = l
    /\ ~ (Waits(c, m) /\ m \in batch[c])
    /\ ~ (Waits(c, m) /\ Answering(c, m))
    /\ ~ (m \in batch[c] /\ Answering(c, m))

\* Message m is in the hands of one consumer, and only while it is in flight.
OneHolder(m) ==
    /\ \A c \in Consumers : Has(c, m) => queue[m].st = "inflight"
    /\ \A c, d \in Consumers : Has(c, m) /\ Has(d, m) => c = d
    /\ \A c \in Consumers : HeldOnce(c, m)

\* What was answered is acked, or about to be.
ReadiedOnce(m) ==
    /\ readied[m] <= 1
    /\ readied[m] > 0 =>
          queue[m].st = "gone" \/ \E c \in Consumers : verdict[c] = <<m, "ack">>

OnceInv == TypeOK /\ \A m \in Msgs : OneHolder(m) /\ ReadiedOnce(m)

\* A step of one consumer leaves it with less of what it held.
LEMMA ConsumerStep ==
  ASSUME NEW m \in Msgs, OneHolder(m), NEW c \in Consumers,
         \A d \in Consumers \ {c} :
            batches'[d] = batches[d] /\ batch'[d] = batch[d] /\ verdict'[d] = verdict[d],
         HeldOnce(c, m)', Has(c, m)' => Has(c, m),
         (\E d \in Consumers : Has(d, m)') => queue'[m].st = queue[m].st
  PROVE  OneHolder(m)'
  <1>1. \A d \in Consumers \ {c} : (Has(d, m)' <=> Has(d, m)) /\ (HeldOnce(d, m)' <=> HeldOnce(d, m))
    BY DEF Has, HeldOnce, Waits, Answering
  <1>2. \A d \in Consumers : HeldOnce(d, m)' /\ (Has(d, m)' => Has(d, m))
    BY <1>1 DEF OneHolder
  <1> QED BY <1>2 DEF OneHolder

LEMMA FetchOneHolder ==
  ASSUME TypeOK, NEW m \in Msgs, OneHolder(m), NEW c \in Consumers, FetchBatch(c)
  PROVE  OneHolder(m)'
  <1>1. PICK S \in SUBSET {k \in Msgs : Deliverable(queue[k], 0)} :
          /\ queue' = [k \in Msgs |-> IF k \in S THEN Delivered(queue[k], 0) ELSE queue[k]]
          /\ batches' = [batches EXCEPT ![c] = Append(@, S)]
    BY DEF FetchBatch
  <1>2. UNCHANGED <<batch, verdict>> /\ batches[c] \in Seq(Batches)
    BY DEF FetchBatch, TypeOK
  <1>3. batches'[c] = Append(batches[c], S) /\ \A d \in Consumers \ {c} : batches'[d] = batches[d]
    BY <1>1 DEF TypeOK
  <1> DEFINE L == Len(batches[c])
  <1>4. /\ L \in Nat /\ Len(batches'[c]) = L + 1 /\ batches'[c][L + 1] = S
        /\ \A k \in 1 .. L : batches'[c][k] = batches[c][k]
    BY <1>2, <1>3, AppendProperties, LenProperties
  <1>5. CASE m \notin S
    <2>1. queue'[m] = queue[m]
      BY <1>1, <1>5
    <2>2. \A k \in 1 .. Len(batches'[c]) :
             m \in batches'[c][k] => k \in 1 .. L /\ m \in batches[c][k]
      BY <1>4, <1>5
    <2> HIDE DEF L
    <2>3. Waits(c, m)' => Waits(c, m)
      BY <2>2 DEF Waits, L
    <2>4. HeldOnce(c, m)
      BY DEF OneHolder
    <2>5. HeldOnce(c, m)'
      BY <1>2, <2>2, <2>3, <2>4 DEF HeldOnce, Answering, L
    <2>6. Has(c, m)' => Has(c, m)
      BY <1>2, <2>3 DEF Has, Waits
    <2> QED BY <1>2, <1>3, <2>1, <2>5, <2>6, ConsumerStep
  <1>6. CASE m \in S
    <2>1. queue[m].st = "ready" /\ queue'[m].st = "inflight"
      BY <1>1, <1>6 DEF Deliverable, Delivered
    <2>2. \A d \in Consumers : ~ Has(d, m)
      BY <2>1 DEF OneHolder
    <2>3. \A d \in Consumers \ {c} : ~ Has(d, m)'
      BY <1>2, <1>3, <2>2 DEF Has
    <2>4. m \notin batch'[c] /\ ~ Answering(c, m)'
      BY <1>2, <2>2 DEF Has, Answering
    <2>5. \A k \in 1 .. Len(batches'[c]) : m \in batches'[c][k] => k = L + 1
      BY <1>4, <2>2 DEF Has
    <2>6. HeldOnce(c, m)'
      BY <2>4, <2>5 DEF HeldOnce
    <2>7. \A d \in Consumers \ {c} : HeldOnce(d, m)'
      BY <1>2, <1>3 DEF OneHolder, HeldOnce, Waits, Answering
    <2> QED BY <2>1, <2>3, <2>6, <2>7 DEF OneHolder
  <1> QED BY <1>5, <1>6

LEMMA TakeOneHolder ==
  ASSUME DueAssumption, TypeOK, NEW m \in Msgs, OneHolder(m), NEW c \in Consumers, Take(c)
  PROVE  OneHolder(m)'
  <1>1. PICK R \in Indexed(Head(batches[c])) : batch' = [batch EXCEPT ![c] = R]
    BY DEF Take
  <1>2. /\ batches[c] \in Seq(Batches) /\ batches[c] # <<>>
        /\ batches' = [batches EXCEPT ![c] = Tail(@)]
        /\ UNCHANGED <<queue, verdict>>
    BY DEF Take, TypeOK
  <1>3. /\ batches'[c] = Tail(batches[c]) /\ batch'[c] = R
        /\ \A d \in Consumers \ {c} : batches'[d] = batches[d] /\ batch'[d] = batch[d]
    BY <1>1, <1>2 DEF TypeOK
  <1>4. /\ Head(batches[c]) = batches[c][1] /\ Head(batches[c]) \in Batches
        /\ Len(batches[c]) \in Nat /\ Len(batches[c]) # 0
        /\ Len(Tail(batches[c])) = Len(batches[c]) - 1
        /\ \A k \in 1 .. Len(Tail(batches[c])) : Tail(batches[c])[k] = batches[c][k + 1]
    BY <1>2, HeadTailProperties, LenProperties, EmptySeq
  <1>5. batch'[c] \subseteq batches[c][1]
    BY <1>1, <1>3, <1>4, IndexedOnce DEF Batches
  <1>6. \A k \in 1 .. Len(batches'[c]) :
           k + 1 \in 1 .. Len(batches[c]) /\ k + 1 # 1 /\ batches'[c][k] = batches[c][k + 1]
    BY <1>3, <1>4
  <1>7. 1 \in 1 .. Len(batches[c])
    BY <1>4
  <1>8. HeldOnce(c, m)
    BY DEF OneHolder
  <1>9. (Waits(c, m)' => Waits(c, m)) /\ (m \in batch'[c] => Waits(c, m))
    BY <1>5, <1>6, <1>7 DEF Waits
  <1>10. ~ (Waits(c, m)' /\ m \in batch'[c])
    BY <1>5, <1>6, <1>7, <1>8 DEF Waits, HeldOnce
  <1>11. \A k, l \in 1 .. Len(batches'[c]) : m \in batches'[c][k] /\ m \in batches'[c][l] => k = l
    <2> SUFFICES ASSUME NEW k \in 1 .. Len(batches'[c]), NEW l \in 1 .. Len(batches'[c]),
                        m \in batches'[c][k], m \in batches'[c][l]
                 PROVE  k = l
      OBVIOUS
    <2>1. k + 1 = l + 1
      BY <1>6, <1>8 DEF HeldOnce
    <2> QED BY <2>1
  <1>12. HeldOnce(c, m)'
    BY <1>2, <1>8, <1>9, <1>10, <1>11 DEF HeldOnce, Answering
  <1>13. Has(c, m)' => Has(c, m)
    BY <1>2, <1>9 DEF Has, Waits
  <1> QED BY <1>2, <1>3, <1>12, <1>13, ConsumerStep

LEMMA EachOneHolder ==
  ASSUME TypeOK, NEW m \in Msgs, OneHolder(m), NEW c \in Consumers, NEW l \in Msgs, Each(c, l)
  PROVE  OneHolder(m)'
  <1>1. PICK v \in {"ack", "nak"} : Decide(c, l, v)
    BY DEF Each
  <1>2. UNCHANGED <<queue, batches>> /\ l \in batch[c]
    BY DEF Each
  <1>3. /\ batch'[c] = batch[c] \ {l} /\ verdict'[c] = <<l, v>>
        /\ \A d \in Consumers \ {c} : batch'[d] = batch[d] /\ verdict'[d] = verdict[d]
    BY <1>1 DEF Decide, TypeOK
  <1>4. Answering(c, m)' <=> l = m
    <2>1. <<l, v>>[1] = l /\ <<l, v>> # <<>>
      OBVIOUS
    <2> QED BY <1>3, <2>1 DEF Answering
  <1>5. HeldOnce(c, m)
    BY DEF OneHolder
  <1>6. HeldOnce(c, m)'
    BY <1>2, <1>3, <1>4, <1>5 DEF HeldOnce, Waits
  <1>7. Has(c, m)' => Has(c, m)
    BY <1>2, <1>3, <1>4 DEF Has, Answering
  <1> QED BY <1>2, <1>3, <1>6, <1>7, ConsumerStep

LEMMA SettleOneHolder ==
  ASSUME TypeOK, NEW m \in Msgs, OneHolder(m), NEW c \in Consumers, Settle(c)
  PROVE  OneHolder(m)'
  <1>1. UNCHANGED <<batches, batch>> /\ verdict[c] # <<>> /\ verdict[c][1] \in Msgs
    BY DEF Settle, TypeOK, Verdicts
  <1>2. verdict'[c] = <<>> /\ \A d \in Consumers \ {c} : verdict'[d] = verdict[d]
    BY DEF Settle, TypeOK
  <1>3. HeldOnce(c, m)'
    BY <1>1, <1>2 DEF OneHolder, HeldOnce, Waits, Answering
  <1>4. Has(c, m)' => Has(c, m)
    BY <1>1, <1>2 DEF Has
  <1>5. (\E d \in Consumers : Has(d, m)') => queue'[m].st = queue[m].st
    <2>1. CASE verdict[c][1] = m
      <3>1. ~ Has(c, m)'
        BY <1>1, <1>2, <2>1 DEF OneHolder, HeldOnce, Waits, Answering, Has
      <3>2. \A d \in Consumers \ {c} : ~ Has(d, m)
        BY <1>1, <2>1 DEF OneHolder, Has
      <3>3. \A d \in Consumers \ {c} : ~ Has(d, m)'
        BY <1>1, <1>2, <3>2 DEF Has
      <3> QED BY <3>1, <3>3
    <2>2. CASE verdict[c][1] # m
      BY <1>1, <2>2 DEF Settle, TypeOK
    <2> QED BY <2>1, <2>2
  <1> QED BY <1>1, <1>2, <1>3, <1>4, <1>5, ConsumerStep

LEMMA NextOneHolder ==
  ASSUME DueAssumption, TypeOK, Undisturbed, NEW m \in Msgs, OneHolder(m), [Next]_vars
  PROVE  OneHolder(m)'
  <1>1. ASSUME NEW l \in Msgs, Store(l) \/ AckWaitExpires(l) PROVE OneHolder(m)'
    <2>1. UNCHANGED <<batches, batch, verdict>>
      BY <1>1 DEF Store, AckWaitExpires
    <2>2. \A c \in Consumers : (Has(c, m)' <=> Has(c, m)) /\ (HeldOnce(c, m)' <=> HeldOnce(c, m))
      BY <2>1 DEF Has, HeldOnce, Waits, Answering
    <2>3. (\E c \in Consumers : Has(c, m)) => queue'[m] = queue[m]
      <3>1. CASE l # m
        BY <1>1, <3>1 DEF Store, AckWaitExpires, TypeOK
      <3>2. CASE l = m
        <4>1. CASE Store(l)
          BY <3>2, <4>1 DEF Store, OneHolder
        <4>2. CASE AckWaitExpires(l)
          <5>1. ~ Live(m)
            BY <3>2, <4>2 DEF AckWaitExpires, Undisturbed
          <5>2. \A c \in Consumers : verdict[c] # <<>> => phase[c] = "settle"
            BY DEF TypeOK
          <5> QED BY <5>1, <5>2 DEF Live, Has
        <4> QED BY <1>1, <4>1, <4>2
      <3> QED BY <3>1, <3>2
    <2> QED BY <2>2, <2>3 DEF OneHolder
  <1>2. CASE UNCHANGED <<queue, batches, batch, verdict>>
    BY <1>2 DEF OneHolder, Has, HeldOnce, Waits, Answering
  <1>3. \A c \in Consumers : Lookup(c) => UNCHANGED <<queue, batches, batch, verdict>>
    BY DEF Lookup
  <1>4. \A c \in Consumers : ~ Crash(c)
    BY DEF Crash, Undisturbed
  <1> QED BY <1>1, <1>2, <1>3, <1>4, FetchOneHolder, TakeOneHolder, EachOneHolder, SettleOneHolder
          DEF Next, Handle, vars

\* Message m is gone, or an ack for it is decided on.
LEMMA NextReadiedOnce ==
  ASSUME DueAssumption, OnceInv, Undisturbed, NEW m \in Msgs, [Next]_vars
  PROVE  ReadiedOnce(m)'
  <1> DEFINE Answered == queue[m].st = "gone" \/ \E c \in Consumers : verdict[c] = <<m, "ack">>
  <1>0. /\ OneHolder(m) /\ ReadiedOnce(m) /\ readied[m] \in 0 .. 2
        /\ \A k \in Msgs : queue[k] \in [st : QueueStatus, count : Nat]
        /\ \A c \in Consumers : verdict[c] # <<>> => verdict[c][1] \in Msgs
    BY DEF OnceInv, TypeOK, Verdicts
  <1>1. ASSUME NEW c \in Consumers, NEW l \in Msgs, Each(c, l) PROVE ReadiedOnce(m)'
    <2>1. l \in batch[c] /\ verdict[c] = <<>> /\ queue' = queue
      BY <1>1 DEF Each, OnceInv, TypeOK
    <2>2. \A d \in Consumers \ {c} : verdict'[d] = verdict[d]
      BY <1>1 DEF Each, Decide, OnceInv, TypeOK
    <2>3. Answered => Answered'
      <3>1. <<m, "ack">> # <<>>
        OBVIOUS
      <3> QED BY <2>1, <2>2, <3>1
    <2>4. CASE readied'[m] = readied[m]
      BY <1>0, <2>3, <2>4 DEF ReadiedOnce
    <2>5. CASE readied'[m] # readied[m]
      <3>1. l = m /\ Decide(c, m, "ack")
        BY <1>1, <2>5 DEF Each, Readied, Undisturbed, OnceInv, TypeOK
      <3>2. readied'[m] = IF readied[m] < 2 THEN readied[m] + 1 ELSE readied[m]
        BY <1>1, <2>5, <3>1 DEF Each, Readied, OnceInv, TypeOK
      <3>3. Has(c, m)
        BY <2>1, <3>1 DEF Has
      <3>4. queue[m].st # "gone"
        BY <1>0, <3>3 DEF OneHolder
      <3>5. ASSUME NEW d \in Consumers, verdict[d] = <<m, "ack">> PROVE FALSE
        <4>1. <<m, "ack">> # <<>> /\ <<m, "ack">>[1] = m
          OBVIOUS
        <4>2. Has(d, m)
          BY <3>5, <4>1 DEF Has
        <4>3. d = c
          BY <1>0, <3>3, <4>2 DEF OneHolder
        <4> QED BY <2>1, <3>5, <4>1, <4>3
      <3>6. readied[m] = 0
        BY <1>0, <3>4, <3>5 DEF ReadiedOnce
      <3>7. verdict'[c] = <<m, "ack">>
        BY <3>1 DEF Decide, OnceInv, TypeOK
      <3> QED BY <3>2, <3>6, <3>7 DEF ReadiedOnce
    <2> QED BY <2>4, <2>5
  <1>2. ASSUME UNCHANGED readied, Answered => Answered' PROVE ReadiedOnce(m)'
    BY <1>0, <1>2 DEF ReadiedOnce
  <1>3. ASSUME NEW c \in Consumers, Settle(c) PROVE ReadiedOnce(m)'
    <2>1. /\ verdict[c] # <<>> /\ readied' = readied
          /\ queue' = [queue EXCEPT ![verdict[c][1]] =
                          IF verdict[c][2] = "ack" THEN Acked(@) ELSE Naked(@)]
          /\ \A d \in Consumers \ {c} : verdict'[d] = verdict[d]
      BY <1>3 DEF Settle, OnceInv, TypeOK, Undisturbed
    <2>2. Acked(queue[m]).st = "gone" /\ (queue[m].st = "gone" => Naked(queue[m]).st = "gone")
      BY <1>0 DEF Acked, Naked
    <2>3. queue[m].st = "gone" => queue'[m].st = "gone"
      BY <1>0, <2>1, <2>2 DEF OnceInv, TypeOK
    <2>4. verdict[c] = <<m, "ack">> => queue'[m].st = "gone"
      <3>1. <<m, "ack">>[1] = m /\ <<m, "ack">>[2] = "ack"
        OBVIOUS
      <3> QED BY <1>0, <2>1, <2>2, <3>1 DEF OnceInv, TypeOK
    <2> QED BY <1>2, <2>1, <2>3, <2>4
  <1>4. ASSUME NEW l \in Msgs, Store(l) \/ AckWaitExpires(l) PROVE ReadiedOnce(m)'
    <2>1. UNCHANGED <<readied, verdict>> /\ (queue[m].st = "gone" => queue'[m] = queue[m])
      BY <1>0, <1>4 DEF Store, AckWaitExpires, OnceInv, TypeOK
    <2> QED BY <1>2, <2>1
  <1>5. ASSUME NEW c \in Consumers, FetchBatch(c) PROVE ReadiedOnce(m)'
    <2>1. UNCHANGED <<readied, verdict>> /\ (queue[m].st = "gone" => queue'[m] = queue[m])
      BY <1>0, <1>5 DEF FetchBatch, Deliverable
    <2> QED BY <1>2, <2>1
  <1>6. ASSUME UNCHANGED <<readied, queue, verdict>> PROVE ReadiedOnce(m)'
    BY <1>2, <1>6
  <1>7. \A c \in Consumers : ~ Crash(c)
    BY DEF Crash, Undisturbed
  <1>8. \A c \in Consumers : Take(c) \/ Lookup(c) => UNCHANGED <<readied, queue, verdict>>
    BY DEF Take, Lookup
  <1> QED BY <1>1, <1>3, <1>4, <1>5, <1>6, <1>7, <1>8 DEF Next, Handle, vars

LEMMA InitOnceInv == DueAssumption /\ Init => OnceInv
  <1> SUFFICES ASSUME DueAssumption, Init PROVE OnceInv
    OBVIOUS
  <1>1. TypeOK
    BY InitTypeOK
  <1>2. /\ \A c \in Consumers : batches[c] = <<>> /\ batch[c] = {} /\ verdict[c] = <<>>
        /\ \A m \in Msgs : readied[m] = 0
    BY DEF Init
  <1>3. Len(<<>>) = 0
    OBVIOUS
  <1>4. \A m \in Msgs, c \in Consumers : ~ Has(c, m) /\ HeldOnce(c, m)
    BY <1>2, <1>3 DEF Has, HeldOnce, Waits, Answering
  <1> QED BY <1>1, <1>2, <1>4 DEF OnceInv, OneHolder, ReadiedOnce

LEMMA NextOnceInv ==
  ASSUME DueAssumption, Undisturbed, OnceInv, [Next]_vars
  PROVE  OnceInv'
  BY NextTypeOK, NextOneHolder, NextReadiedOnce DEF OnceInv

\* The scheduler may publish several messages at once, each for the first time.
LEMMA StoresOnceInv ==
  ASSUME OnceInv, NEW S \in SUBSET {m \in Msgs : queue[m].st = "none"},
         queue' = [m \in Msgs |-> IF m \in S THEN Stored(queue[m]) ELSE queue[m]],
         UNCHANGED <<faults, batches, phase, batch, found, verdict, readied>>
  PROVE  OnceInv'
  <1>1. \A m \in Msgs : queue'[m] = IF m \in S THEN Stored(queue[m]) ELSE queue[m]
    OBVIOUS
  <1>2. \A m \in Msgs : queue[m] \in [st : QueueStatus, count : Nat]
    BY DEF OnceInv, TypeOK
  <1>3. queue' \in [Msgs -> [st : QueueStatus, count : Nat]]
    BY <1>1, <1>2, QueueEntries
  <1>4. TypeOK'
    BY <1>3 DEF OnceInv, TypeOK
  <1>5. \A m \in Msgs : queue[m].st # "none" => queue'[m] = queue[m]
    BY <1>1
  <1>6. \A m \in Msgs : OneHolder(m)'
    <2>1. \A c \in Consumers, m \in Msgs :
             (Has(c, m)' <=> Has(c, m)) /\ (HeldOnce(c, m)' <=> HeldOnce(c, m))
      BY DEF Has, HeldOnce, Waits, Answering
    <2> QED BY <1>5, <2>1 DEF OnceInv, OneHolder
  <1>7. \A m \in Msgs : ReadiedOnce(m)'
    BY <1>5 DEF OnceInv, ReadiedOnce
  <1> QED BY <1>4, <1>6, <1>7 DEF OnceInv
=============================================================================

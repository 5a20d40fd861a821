------------------------ MODULE CreateRequestProofs ------------------------
(***************************************************************************)
(* What holds of a create request for any body and any limit on a batch,   *)
(* whichever ids, statements and publishes fail: that every item gets its  *)
(* answer at its position, and that what is announced agrees with it.      *)
(***************************************************************************)
EXTENDS CreateRequest, FiniteSetTheorems, TLAPS

-----------------------------------------------------------------------------
(***************************************************************************)
(* The two filters: what the loop over the items appends.                  *)
(***************************************************************************)

\* A set of natural numbers has a least element.
LEMMA Least ==
  ASSUME NEW T, T \subseteq Nat, T # {}
  PROVE  \E x \in T : \A y \in T : x <= y
  <1> DEFINE below == {p \in Nat \X Nat : p[1] < p[2]}
  <1>1. OpToRel(<, Nat) = below
    BY DEF OpToRel
  <1>2. IsWellFoundedOn(below, Nat)
    BY <1>1, NatLessThanWellFounded
  <1> HIDE DEF below
  <1>3. PICK x \in T : \A y \in T : ~ (<<y, x>> \in below)
    BY <1>2, WFMin
  <1>4. ASSUME NEW y \in T PROVE x <= y
    <2>1. x \in Nat /\ y \in Nat
      OBVIOUS
    <2>2. y < x => <<y, x>> \in below
      BY <2>1 DEF below
    <2> QED BY <1>3, <2>1, <2>2
  <1> QED BY <1>4

\* What InOrder computes along the way.
BuiltUp(f, S, n) ==
    f = [i \in 0 .. n |->
            IF i = 0 THEN <<>>
            ELSE IF i \in S THEN Append(f[i - 1], i) ELSE f[i - 1]]

\* There is a function that satisfies its recursive definition.
LEMMA PassesExist ==
  ASSUME NEW S, NEW n \in Nat
  PROVE  \E f : BuiltUp(f, S, n)
  <1> DEFINE T == {m \in Nat : ~ \E f : BuiltUp(f, S, m)}
  <1> SUFFICES ASSUME T # {} PROVE FALSE
    OBVIOUS
  <1>1. PICK m \in T : \A y \in T : m <= y
    BY Least
  <1>2. CASE m = 0
    <2>1. BuiltUp([i \in 0 .. 0 |-> <<>>], S, 0)
      BY DEF BuiltUp
    <2> QED BY <1>2, <2>1
  <1>3. CASE m # 0
    <2>1. m - 1 \in Nat /\ m - 1 \notin T
      BY <1>1, <1>3
    <2>2. PICK f : BuiltUp(f, S, m - 1)
      BY <2>1
    <2> DEFINE last == IF m \in S THEN Append(f[m - 1], m) ELSE f[m - 1]
               g == [i \in 0 .. m |-> IF i = m THEN last ELSE f[i]]
    <2>3. ASSUME NEW i \in 0 .. m
          PROVE  g[i] = IF i = 0 THEN <<>>
                        ELSE IF i \in S THEN Append(g[i - 1], i) ELSE g[i - 1]
      <3>1. CASE i = m
        <4>1. g[m - 1] = f[m - 1]
          BY <1>3, <2>1
        <4> QED BY <1>3, <3>1, <4>1
      <3>2. CASE i # m /\ i = 0
        BY <2>2, <3>2 DEF BuiltUp
      <3>3. CASE i # m /\ i # 0
        <4>1. i \in 0 .. m - 1 /\ g[i] = f[i] /\ g[i - 1] = f[i - 1]
          BY <2>1, <3>3
        <4>2. f[i] = IF i \in S THEN Append(f[i - 1], i) ELSE f[i - 1]
          BY <2>2, <3>3, <4>1 DEF BuiltUp
        <4> QED BY <3>3, <4>1, <4>2
      <3> QED BY <3>1, <3>2, <3>3
    <2>4. BuiltUp(g, S, m)
      <3> HIDE DEF last
      <3>1. g = [i \in 0 .. m |-> g[i]]
        OBVIOUS
      <3> HIDE DEF g
      <3> QED BY <2>3, <3>1 DEF BuiltUp
    <2> QED BY <2>4
  <1> QED BY <1>2, <1>3

\* Sequence q lists the members of S up to n, each once.
Lists(q, S, n) ==
    /\ q \in Seq(1 .. n)
    /\ \A k \in 1 .. Len(q) : q[k] \in S
    /\ \A i \in S : i \in 1 .. n => \E k \in 1 .. Len(q) : q[k] = i
    /\ \A k, l \in 1 .. Len(q) : q[k] = q[l] => k = l

LEMMA ListsOneMore ==
  ASSUME NEW S, NEW n \in Nat, NEW q, Lists(q, S, n)
  PROVE  Lists(IF n + 1 \in S THEN Append(q, n + 1) ELSE q, S, n + 1)
  <1>0. q \in Seq(1 .. n + 1) /\ Len(q) \in Nat /\ \A k \in 1 .. Len(q) : q[k] \in 1 .. n
    BY DEF Lists
  <1>1. CASE n + 1 \notin S
    <2>1. \A i \in S : i \in 1 .. n + 1 => i \in 1 .. n
      BY <1>1
    <2> QED BY <1>0, <1>1, <2>1 DEF Lists
  <1>2. CASE n + 1 \in S
    <2> DEFINE r == Append(q, n + 1)
    <2>1. /\ r \in Seq(1 .. n + 1) /\ Len(r) = Len(q) + 1 /\ r[Len(q) + 1] = n + 1
          /\ \A k \in 1 .. Len(q) : r[k] = q[k]
      BY <1>0
    <2> HIDE DEF r
    <2> DEFINE L == Len(q)
    <2>2. L \in Nat /\ Len(r) = L + 1 /\ r[L + 1] = n + 1
      BY <1>0, <2>1
    <2>3. \A k \in 1 .. L : /\ r[k] = q[k] /\ q[k] \in S /\ q[k] \in 1 .. n
                           /\ \A l \in 1 .. L : q[k] = q[l] => k = l
      BY <1>0, <2>1 DEF Lists
    <2>4. \A i \in S : i \in 1 .. n => \E k \in 1 .. L : q[k] = i
      BY DEF Lists
    <2> HIDE DEF L
    <2>5. \A k \in 1 .. L + 1 : k = L + 1 \/ k \in 1 .. L
      BY <2>2
    <2>6. \A k \in 1 .. Len(r) : r[k] \in S
      BY <1>2, <2>2, <2>3, <2>5
    <2>7. \A i \in S : i \in 1 .. n + 1 => \E k \in 1 .. Len(r) : r[k] = i
      <3> SUFFICES ASSUME NEW i \in S, i \in 1 .. n + 1 PROVE \E k \in 1 .. L + 1 : r[k] = i
        BY <2>2
      <3>1. CASE i = n + 1
        BY <2>2, <3>1
      <3>2. CASE i # n + 1
        <4>1. PICK k \in 1 .. L : q[k] = i
          BY <2>4, <3>2
        <4> QED BY <2>2, <2>3, <4>1
      <3> QED BY <3>1, <3>2
    <2>8. \A k, l \in 1 .. Len(r) : r[k] = r[l] => k = l
      <3>1. \A k \in 1 .. L : r[k] # n + 1
        BY <2>3
      <3> QED BY <2>2, <2>3, <2>5, <3>1
    <2>9. Lists(r, S, n + 1)
      BY <2>1, <2>6, <2>7, <2>8 DEF Lists
    <2> QED BY <1>2, <2>9 DEF r
  <1> QED BY <1>1, <1>2

\* The loop lists the positions it is asked for.
LEMMA InOrderLists ==
  ASSUME NEW S, NEW n \in Nat
  PROVE  Lists(InOrder(S, n), S, n)
  <1> DEFINE f == CHOOSE g : BuiltUp(g, S, n)
  <1>1. InOrder(S, n) = f[n]
    BY Zenon DEF InOrder, BuiltUp
  <1>2. BuiltUp(f, S, n)
    BY PassesExist
  <1> HIDE DEF f
  <1>3. \A i \in 0 .. n :
           f[i] = IF i = 0 THEN <<>> ELSE IF i \in S THEN Append(f[i - 1], i) ELSE f[i - 1]
    BY <1>2 DEF BuiltUp
  <1> DEFINE T == {m \in 0 .. n : ~ Lists(f[m], S, m)}
  <1>4. ASSUME T # {} PROVE FALSE
    <2>0. T \subseteq Nat
      OBVIOUS
    <2>1. PICK m \in T : \A y \in T : m <= y
      BY <1>4, <2>0, Least
    <2>2. CASE m = 0
      <3>1. f[0] = <<>>
        BY <1>3
      <3>2. Lists(<<>>, S, 0)
        BY DEF Lists
      <3> QED BY <2>2, <3>1, <3>2
    <2>3. CASE m # 0
      <3> DEFINE p == m - 1
      <3>1. p \in Nat /\ p \in 0 .. n /\ p + 1 = m /\ m \in 0 .. n
        BY <2>3
      <3>2. Lists(f[p], S, p)
        BY <2>1, <3>1
      <3>3. f[m] = IF m \in S THEN Append(f[p], m) ELSE f[p]
        BY <1>3, <2>3, <3>1
      <3> HIDE DEF p
      <3>4. Lists(IF p + 1 \in S THEN Append(f[p], p + 1) ELSE f[p], S, p + 1)
        BY <3>1, <3>2, ListsOneMore
      <3>5. Lists(f[m], S, m)
        BY <3>1, <3>3, <3>4
      <3> QED BY <3>5
    <2> QED BY <2>2, <2>3
  <1> QED BY <1>1, <1>4

LEMMA UpTo ==
  ASSUME NEW b \in Nat
  PROVE  IsFiniteSet(1 .. b) /\ Cardinality(1 .. b) = b
  BY FS_Interval

\* It is as long as there are such positions.
LEMMA ListLength ==
  ASSUME NEW n \in Nat, NEW S, S \subseteq 1 .. n, NEW q, Lists(q, S, n)
  PROVE  IsFiniteSet(S) /\ Len(q) = Cardinality(S)
  <1>1. Len(q) \in Nat /\ q \in [1 .. Len(q) -> S]
    BY DEF Lists
  <1>2. q \in Injection(1 .. Len(q), S)
    BY <1>1 DEF Lists, Injection, IsInjective
  <1>3. q \in Surjection(1 .. Len(q), S)
    BY <1>1 DEF Lists, Surjection
  <1>4. ExistsBijection(1 .. Len(q), S)
    BY <1>2, <1>3 DEF ExistsBijection, Bijection
  <1>5. IsFiniteSet(1 .. Len(q)) /\ Cardinality(1 .. Len(q)) = Len(q)
    BY <1>1, UpTo
  <1> QED BY <1>4, <1>5, FS_Bijection

-----------------------------------------------------------------------------
(***************************************************************************)
(* The inductive invariant, step by step of the request.                   *)
(***************************************************************************)

\* Nothing came of the request yet, or it ended before an entity was made.
Blank ==
    /\ pc \in {"decode", "create", "answered"}
    /\ pc = "create" => valid = Valid(body)
    /\ entity = <<>> /\ results = <<>> /\ accepted = {} /\ rows = <<>> /\ events = <<>>
    /\ ~ Answered

\* The service has a verdict on each valid item, and an entity for those it accepts.
Made ==
    /\ pc \in {"insert", "schedule", "ready", "answered"}
    /\ valid = Valid(body)
    /\ accepted \subseteq DOMAIN entity /\ DOMAIN entity \subseteq DOMAIN valid
    /\ \A j \in DOMAIN entity : entity[j] = From(body[valid[j]])
    /\ results = [j \in DOMAIN valid |-> Verdict(j, accepted)]

\* What is accepted is stored before anything is announced.
Stored ==
    pc \in {"schedule", "ready"} \/ Answered =>
        \A j \in accepted : j \in DOMAIN rows /\ rows[j] = entity[j]

\* The events there may be.
Events == {ScheduledEvent} \union {ReadyEvent(j) : j \in accepted \ Scheduled}

\* An entity is announced once, and all are by the time of the answer.
Announced ==
    /\ events \in Seq(Events)
    /\ \A k, l \in DOMAIN events : k # l => events[k].ids \intersect events[l].ids = {}
    /\ pc \in {"insert", "schedule"} => events = <<>>
    /\ (pc = "ready" \/ Answered) /\ Scheduled # {} =>
            \E k \in DOMAIN events : events[k] = ScheduledEvent
    /\ Answered => Immediate = {}

\* The answer is made of the rejections and the verdicts.
Replied ==
    Answered =>
        /\ reply.results = Rejections(body) \o [j \in DOMAIN results |-> ItemResult(j)]
        /\ reply.rejected = Len(body) - Cardinality({j \in DOMAIN results : results[j].id # 0})

RequestInv ==
    /\ TypeOK
    /\ pc # "answered" => ~ Answered
    /\ \/ Blank
       \/ Made /\ Stored /\ Announced /\ Replied

\* What passes validation is a list of positions, with what the checks promise.
LEMMA ValidItems ==
  ASSUME NEW items \in Seq(Item)
  PROVE  /\ Lists(Valid(items), DOMAIN items \ InvalidItems(items), Len(items))
         /\ Len(Valid(items)) \in Nat /\ DOMAIN Valid(items) = 1 .. Len(Valid(items))
         /\ \A j \in DOMAIN Valid(items) :
               Valid(items)[j] \in DOMAIN items /\ ~ Invalid(items[Valid(items)[j]])
  <1> DEFINE v == Valid(items)
             S == DOMAIN items \ InvalidItems(items)
  <1>1. Len(items) \in Nat
    OBVIOUS
  <1>2. Lists(v, S, Len(items))
    BY <1>1, InOrderLists DEF Valid
  <1> HIDE DEF v
  <1>3. v \in Seq(1 .. Len(items)) /\ \A k \in 1 .. Len(v) : v[k] \in S
    BY <1>2 DEF Lists
  <1>4. Len(v) \in Nat /\ DOMAIN v = 1 .. Len(v)
    BY <1>3
  <1>5. \A j \in DOMAIN v : v[j] \in DOMAIN items /\ ~ Invalid(items[v[j]])
    BY <1>3, <1>4 DEF InvalidItems
  <1> QED BY <1>2, <1>4, <1>5 DEF v

LEMMA BodyItems == TypeOK => body \in Seq(Item)
  BY RequestAssumption DEF TypeOK, RequestAssumption

\* An entity has a topic of its own, and no wrong time.
LEMMA Entities ==
  ASSUME TypeOK, Made, NEW j \in DOMAIN entity
  PROVE  entity[j].priority \in PriorityNames /\ entity[j].deliver_after \in {"", "time"}
  <1>1. j \in DOMAIN valid /\ entity[j] = From(body[valid[j]])
    BY DEF Made
  <1>2. valid[j] \in DOMAIN body /\ ~ Invalid(body[valid[j]])
    BY <1>1, BodyItems, ValidItems DEF Made
  <1>3. body[valid[j]] \in Item
    BY <1>2, BodyItems
  <1>4. body[valid[j]].priority \in PriorityNames /\ body[valid[j]].deliver_after # "bad"
    BY <1>2 DEF Invalid
  <1>5. body[valid[j]].deliver_after \in {"", "bad", "time"}
    BY <1>3 DEF Item
  <1>6. \A r : From(r).priority = r.priority /\ From(r).deliver_after = r.deliver_after
    BY DEF From
  <1> QED BY <1>1, <1>4, <1>5, <1>6

LEMMA InitRequestInv == Init => RequestInv
  <1> SUFFICES ASSUME Init PROVE RequestInv
    OBVIOUS
  <1>1. ~ Answered
    BY DEF Init, NoReply, Answered
  <1>2. TypeOK
    BY RequestAssumption DEF Init, TypeOK, RequestAssumption, NoReply, Range
  <1> QED BY <1>1, <1>2 DEF Init, RequestInv, Blank

\* A request that is refused does not count as answered.
LEMMA Refused ==
  ASSUME NEW code \in {422, 500}, Refuse(code)
  PROVE  reply'.code = code /\ ~ Answered' /\ pc' = "answered"
  BY DEF Refuse, NoReply, Answered

LEMMA DecodeKeepsInv ==
  ASSUME RequestInv, Decode
  PROVE  RequestInv'
  <1>1. pc = "decode" /\ Blank /\ ~ Answered
    BY DEF Decode, RequestInv, Made
  <1>2. UNCHANGED <<faults, kind, body, entity, results, accepted, rows, events>>
    BY DEF Decode
  <1>3. CASE Refuse(422) /\ valid' = valid
    <2>1. ~ Answered' /\ pc' = "answered" /\ reply'.code = 422
      BY <1>3, Refused
    <2>2. TypeOK'
      BY <1>2, <1>3, <2>1 DEF RequestInv, TypeOK
    <2> QED BY <1>1, <1>2, <2>1, <2>2 DEF RequestInv, Blank
  <1>4. CASE pc' = "create" /\ valid' = Valid(body) /\ reply' = reply
    <2>1. Range(valid') \subseteq DOMAIN body
      BY <1>4, BodyItems, ValidItems DEF RequestInv, Range
    <2>2. TypeOK'
      BY <1>1, <1>2, <1>4, <2>1 DEF RequestInv, TypeOK, Blank
    <2> QED BY <1>1, <1>2, <1>4, <2>2 DEF RequestInv, Blank, Answered
  <1> QED BY <1>3, <1>4 DEF Decode

LEMMA CreateKeepsInv ==
  ASSUME RequestInv, Create
  PROVE  RequestInv'
  <1>1. pc = "create" /\ Blank /\ ~ Answered
    BY DEF Create, RequestInv, Made
  <1>2. UNCHANGED <<faults, kind, body, valid, rows, events>>
    BY DEF Create
  <1>3. CASE Refuse(500) /\ UNCHANGED <<entity, results, accepted>>
    <2>1. ~ Answered' /\ pc' = "answered" /\ reply'.code = 500
      BY <1>3, Refused
    <2>2. TypeOK'
      BY <1>2, <1>3, <2>1 DEF RequestInv, TypeOK
    <2> QED BY <1>1, <1>2, <1>3, <2>1, <2>2 DEF RequestInv, Blank
  <1>4. ASSUME NEW S \in SUBSET DOMAIN valid,
               pc' = "insert",
               entity' = [j \in S |-> From(body[valid[j]])],
               results' = [j \in DOMAIN valid |-> Verdict(j, S)],
               accepted' = S,
               reply' = reply
        PROVE  RequestInv'
    <2>1. TypeOK'
      BY <1>1, <1>2, <1>4 DEF RequestInv, TypeOK, Blank, Verdict
    <2>2. ~ Answered'
      BY <1>1, <1>4 DEF Answered
    <2>3. Made'
      BY <1>1, <1>2, <1>4 DEF Made, Blank, Verdict
    <2>4. Announced'
      BY <1>1, <1>2, <1>4, <2>2 DEF Announced, Blank
    <2> QED BY <1>4, <2>1, <2>2, <2>3, <2>4 DEF RequestInv, Stored, Replied
  <1> QED BY <1>3, <1>4 DEF Create

LEMMA InsertKeepsInv ==
  ASSUME RequestInv, Insert
  PROVE  RequestInv'
  <1>1. pc = "insert" /\ Made /\ Announced /\ ~ Answered
    BY DEF Insert, RequestInv, Blank
  <1>2. /\ UNCHANGED <<faults, kind, body, valid, entity, results, accepted, events, reply>>
        /\ pc' = "schedule" /\ rows' = [j \in accepted |-> entity[j]]
    BY DEF Insert
  <1>3. TypeOK'
    BY <1>2 DEF RequestInv, TypeOK
  <1>4. ~ Answered'
    BY <1>1, <1>2 DEF Answered
  <1>5. Made' /\ Stored'
    BY <1>1, <1>2 DEF Made, Stored, Verdict
  <1>6. Announced'
    BY <1>1, <1>2, <1>4 DEF Announced
  <1> QED BY <1>2, <1>3, <1>4, <1>5, <1>6 DEF RequestInv, Replied

LEMMA InsertFailsKeepsInv ==
  ASSUME RequestInv, InsertFails
  PROVE  RequestInv'
  <1>1. pc = "insert" /\ Made /\ Announced /\ ~ Answered
    BY DEF InsertFails, RequestInv, Blank
  <1>2. /\ UNCHANGED <<faults, kind, body, valid, entity, events>>
        /\ rows' \in {rows, [j \in accepted |-> entity[j]]}
    BY DEF InsertFails
  <1>3. events = <<>>
    BY <1>1 DEF Announced
  <1>4. CASE Refuse(500) /\ UNCHANGED <<results, accepted>>
    <2>1. ~ Answered' /\ pc' = "answered" /\ reply'.code = 500
      BY <1>4, Refused
    <2>2. TypeOK'
      BY <1>2, <1>4, <2>1 DEF RequestInv, TypeOK
    <2>3. Made'
      BY <1>1, <1>2, <1>4, <2>1 DEF Made, Verdict
    <2>4. Announced'
      BY <1>2, <1>3, <2>1 DEF Announced
    <2> QED BY <2>1, <2>2, <2>3, <2>4 DEF RequestInv, Stored, Replied
  <1>5. CASE /\ pc' = "schedule" /\ accepted' = {} /\ reply' = reply
             /\ results' = [j \in DOMAIN results |-> [status |-> "rejected", id |-> 0]]
    <2>1. ~ Answered'
      BY <1>1, <1>5 DEF Answered
    <2>2. TypeOK'
      BY <1>1, <1>2, <1>5 DEF RequestInv, TypeOK
    <2>3. Made'
      BY <1>1, <1>2, <1>5 DEF Made, Verdict
    <2>4. Announced'
      BY <1>2, <1>3, <1>5, <2>1 DEF Announced
    <2> QED BY <1>5, <2>1, <2>2, <2>3, <2>4 DEF RequestInv, Stored, Replied
  <1> QED BY <1>4, <1>5 DEF InsertFails
\* What an event may say.
LEMMA EventParts ==
  ASSUME TypeOK, Made, NEW e \in Events
  PROVE  /\ e.topic \in Topics /\ e.ids \subseteq accepted
         /\ e.topic = "scheduled" => e = ScheduledEvent
         /\ e.topic # "scheduled" => \E j \in accepted \ Scheduled : e = ReadyEvent(j)
  <1>1. CASE e = ScheduledEvent
    BY <1>1 DEF ScheduledEvent, Scheduled, Topics
  <1>2. ASSUME NEW j \in accepted \ Scheduled, e = ReadyEvent(j)
        PROVE  e.topic \in Topics /\ e.ids \subseteq accepted /\ e.topic # "scheduled"
    <2>1. entity[j].priority \in PriorityNames
      BY Entities DEF Made
    <2> QED BY <1>2, <2>1 DEF ReadyEvent, Topics, PriorityNames
  <1> QED BY <1>1, <1>2 DEF Events

\* A publish, of an event that names nothing that was announced before.
LEMMA PublishKeeps ==
  ASSUME RequestInv, Made, Announced, pc \in {"schedule", "ready"},
         NEW evt \in Events, Publish(evt, "ready"),
         \A k \in DOMAIN events : events[k].ids \intersect evt.ids = {},
         UNCHANGED <<faults, kind, body, valid, entity, results, accepted, rows>>
  PROVE  /\ TypeOK' /\ Made' /\ ~ Answered'
         /\ (pc' = "ready" /\ events' = Append(events, evt)) \/ pc' = "answered"
         /\ events' \in Seq(Events)'
         /\ \A k, l \in DOMAIN events' : k # l => events'[k].ids \intersect events'[l].ids = {}
  <1>1. ~ Answered
    BY DEF RequestInv
  <1>2. \/ pc' = "ready" /\ events' = Append(events, evt) /\ reply' = reply
        \/ Refuse(500) /\ events' \in {events, Append(events, evt)}
    BY DEF Publish
  <1>3. ~ Answered' /\ pc' \in {"ready", "answered"} /\ reply'.code \in {0, 201, 207, 422, 500}
    <2>1. CASE reply' = reply
      BY <1>1, <1>2, <2>1, Refused DEF RequestInv, TypeOK, Answered
    <2>2. CASE Refuse(500)
      BY <2>2, Refused
    <2> QED BY <1>2, <2>1, <2>2
  <1>4. pc' = "ready" => events' = Append(events, evt)
    BY <1>2, Refused
  <1>5. Events' = Events
    BY DEF Events, ScheduledEvent, ReadyEvent, Scheduled
  <1>6. events \in Seq(Events) /\ Len(events) \in Nat /\ DOMAIN events = 1 .. Len(events)
    BY DEF Announced
  <1>7. events' \in {events, Append(events, evt)}
    BY <1>2
  <1>8. events' \in Seq(Events)
    BY <1>6, <1>7
  <1>9. \A k, l \in DOMAIN events' : k # l => events'[k].ids \intersect events'[l].ids = {}
    <2>1. CASE events' = events
      BY <2>1 DEF Announced
    <2>2. CASE events' = Append(events, evt)
      <3> DEFINE L == Len(events)
      <3>1. /\ DOMAIN events' = 1 .. L + 1 /\ events'[L + 1] = evt
            /\ \A k \in 1 .. L : events'[k] = events[k]
        BY <1>6, <2>2
      <3>2. \A k \in 1 .. L : /\ events[k].ids \intersect evt.ids = {}
                              /\ \A l \in 1 .. L : k # l => events[k].ids \intersect events[l].ids = {}
        BY <1>6 DEF Announced
      <3>3. L \in Nat
        BY <1>6
      <3> HIDE DEF L
      <3>4. \A k \in 1 .. L + 1 : k = L + 1 \/ k \in 1 .. L
        BY <3>3
      <3> QED BY <3>1, <3>2, <3>3, <3>4
    <2> QED BY <1>7, <2>1, <2>2
  <1>10. Made'
    BY <1>3 DEF Made, Verdict
  <1>11. \A k \in DOMAIN events' : events'[k].topic \in Topics /\ events'[k].ids \subseteq DOMAIN valid
    <2> SUFFICES ASSUME NEW k \in DOMAIN events'
                 PROVE  events'[k].topic \in Topics /\ events'[k].ids \subseteq DOMAIN valid
      OBVIOUS
    <2>1. events'[k] \in Events
      BY <1>8
    <2> QED BY <2>1, EventParts DEF RequestInv, TypeOK
  <1>12. TypeOK'
    BY <1>3, <1>11 DEF RequestInv, TypeOK
  <1> QED BY <1>3, <1>4, <1>5, <1>8, <1>9, <1>10, <1>12

LEMMA PublishScheduledKeepsInv ==
  ASSUME RequestInv, PublishScheduled
  PROVE  RequestInv'
  <1>1. pc = "schedule" /\ Made /\ Stored /\ Announced /\ ~ Answered /\ events = <<>>
    BY DEF PublishScheduled, RequestInv, Blank, Announced
  <1>2. UNCHANGED <<faults, kind, body, valid, entity, results, accepted, rows>>
    BY DEF PublishScheduled
  <1>3. Scheduled' = Scheduled /\ ScheduledEvent' = ScheduledEvent
    BY <1>2 DEF Scheduled, ScheduledEvent
  <1>4. CASE Scheduled = {} /\ pc' = "ready" /\ UNCHANGED <<events, reply>>
    <2>1. TypeOK'
      BY <1>2, <1>4 DEF RequestInv, TypeOK
    <2>2. ~ Answered'
      BY <1>1, <1>4 DEF Answered
    <2>3. Made' /\ Stored'
      BY <1>1, <1>2, <1>4 DEF Made, Stored, Verdict
    <2>4. Announced'
      BY <1>1, <1>3, <1>4, <2>2 DEF Announced
    <2> QED BY <2>1, <2>2, <2>3, <2>4 DEF RequestInv, Replied
  <1>5. CASE Publish(ScheduledEvent, "ready")
    <2>1. ScheduledEvent \in Events /\ \A k \in DOMAIN events : FALSE
      BY <1>1 DEF Events
    <2>2. /\ TypeOK' /\ Made' /\ ~ Answered'
          /\ (pc' = "ready" /\ events' = Append(events, ScheduledEvent)) \/ pc' = "answered"
          /\ events' \in Seq(Events)'
          /\ \A k, l \in DOMAIN events' : k # l => events'[k].ids \intersect events'[l].ids = {}
      BY <1>1, <1>2, <1>5, <2>1, PublishKeeps
    <2>3. pc' = "ready" => \E k \in DOMAIN events' : events'[k] = ScheduledEvent
      <3>1. Append(<<>>, ScheduledEvent) = <<ScheduledEvent>>
        OBVIOUS
      <3> QED BY <1>1, <2>2, <3>1
    <2>4. Announced'
      BY <1>3, <2>2, <2>3 DEF Announced
    <2>5. Stored'
      BY <1>1, <1>2, <2>2 DEF Stored
    <2> QED BY <2>2, <2>4, <2>5 DEF RequestInv, Replied
  <1> QED BY <1>4, <1>5 DEF PublishScheduled

LEMMA PublishReadyKeepsInv ==
  ASSUME RequestInv, PublishReady
  PROVE  RequestInv'
  <1>1. pc = "ready" /\ Made /\ Stored /\ Announced /\ ~ Answered
    BY DEF PublishReady, RequestInv, Blank
  <1>2. UNCHANGED <<faults, kind, body, valid, entity, results, accepted, rows>>
    BY DEF PublishReady
  <1>3. PICK j \in Immediate : Publish(ReadyEvent(j), "ready")
    BY DEF PublishReady
  <1> DEFINE evt == ReadyEvent(j)
  <1>4. evt \in Events /\ j \in accepted \ Scheduled /\ evt.ids = {j}
    BY DEF Immediate, Events, ReadyEvent
  <1>5. \A k \in DOMAIN events : events[k].ids \intersect evt.ids = {}
    <2> SUFFICES ASSUME NEW k \in DOMAIN events PROVE j \notin events[k].ids
      BY <1>4
    <2>1. events[k] \in Events
      BY <1>1 DEF Announced
    <2>2. CASE events[k].topic = "scheduled"
      BY <1>1, <1>4, <2>1, <2>2, EventParts DEF RequestInv, ScheduledEvent
    <2>3. CASE events[k].topic # "scheduled"
      BY <2>3 DEF Immediate
    <2> QED BY <2>2, <2>3
  <1> HIDE DEF evt
  <1>6. /\ TypeOK' /\ Made' /\ ~ Answered'
        /\ (pc' = "ready" /\ events' = Append(events, evt)) \/ pc' = "answered"
        /\ events' \in Seq(Events)'
        /\ \A k, l \in DOMAIN events' : k # l => events'[k].ids \intersect events'[l].ids = {}
    BY <1>1, <1>2, <1>3, <1>4, <1>5, PublishKeeps DEF evt
  <1>7. pc' = "ready" /\ Scheduled' # {} => \E k \in DOMAIN events' : events'[k] = ScheduledEvent'
    <2> SUFFICES ASSUME pc' = "ready", Scheduled' # {}
                 PROVE  \E k \in DOMAIN events' : events'[k] = ScheduledEvent'
      OBVIOUS
    <2>1. Scheduled' = Scheduled /\ ScheduledEvent' = ScheduledEvent
      BY <1>2 DEF Scheduled, ScheduledEvent
    <2>2. PICK k \in DOMAIN events : events[k] = ScheduledEvent
      BY <1>1, <2>1 DEF Announced
    <2>3. events \in Seq(Events)
      BY <1>1 DEF Announced
    <2>4. k \in DOMAIN Append(events, evt) /\ Append(events, evt)[k] = events[k]
      BY <2>3
    <2>5. events' = Append(events, evt)
      BY <1>6
    <2> QED BY <2>1, <2>2, <2>4, <2>5
  <1>8. Announced'
    BY <1>6, <1>7 DEF Announced
  <1>9. Stored'
    BY <1>1, <1>2, <1>6 DEF Stored
  <1> QED BY <1>6, <1>8, <1>9 DEF RequestInv, Replied

LEMMA AnswerKeepsInv ==
  ASSUME RequestInv, Answer
  PROVE  RequestInv'
  <1>1. pc = "ready" /\ Immediate = {} /\ Made /\ Stored /\ Announced
    BY DEF Answer, RequestInv, Blank
  <1>2. /\ UNCHANGED <<faults, kind, body, valid, entity, results, accepted, rows, events>>
        /\ pc' = "answered"
    BY DEF Answer
  <1>3. /\ reply'.code \in {201, 207}
        /\ reply'.results = Rejections(body) \o [j \in DOMAIN results |-> ItemResult(j)]
        /\ reply'.rejected = Len(body) - Cardinality({j \in DOMAIN results : results[j].id # 0})
    BY DEF Answer
  <1>4. TypeOK'
    BY <1>2, <1>3 DEF RequestInv, TypeOK
  <1>5. Made' /\ Stored'
    BY <1>1, <1>2 DEF Made, Stored, Verdict
  <1>6. Events' = Events /\ Scheduled' = Scheduled /\ ScheduledEvent' = ScheduledEvent
    BY <1>2 DEF Events, ScheduledEvent, ReadyEvent, Scheduled
  <1>7. Immediate' = Immediate
    BY <1>2, <1>6 DEF Immediate
  <1>8. Announced'
    BY <1>1, <1>2, <1>6, <1>7 DEF Announced
  <1>9. Replied'
    BY <1>2, <1>3 DEF Replied, ItemResult
  <1> QED BY <1>2, <1>4, <1>5, <1>8, <1>9 DEF RequestInv

LEMMA NextRequestInv == RequestInv /\ [Next]_vars => RequestInv'
  <1> SUFFICES ASSUME RequestInv, [Next]_vars PROVE RequestInv'
    OBVIOUS
  <1>1. CASE UNCHANGED vars
    <2>1. TypeOK'
      BY <1>1 DEF vars, RequestInv, TypeOK
    <2>2. (Answered' <=> Answered) /\ (Blank' <=> Blank) /\ (Made' <=> Made) /\ (Stored' <=> Stored)
      BY <1>1 DEF vars, Answered, Blank, Made, Stored, Verdict
    <2>3. Events' = Events /\ Scheduled' = Scheduled /\ ScheduledEvent' = ScheduledEvent
      BY <1>1 DEF vars, Events, ScheduledEvent, ReadyEvent, Scheduled
    <2>4. Immediate' = Immediate
      BY <1>1, <2>3 DEF vars, Immediate
    <2>5. Announced' <=> Announced
      BY <1>1, <2>2, <2>3, <2>4 DEF vars, Announced
    <2>6. Replied' <=> Replied
      BY <1>1, <2>2 DEF vars, Replied, ItemResult
    <2> QED BY <1>1, <2>1, <2>2, <2>5, <2>6 DEF vars, RequestInv
  <1>2. CASE Next
    BY <1>2, DecodeKeepsInv, CreateKeepsInv, InsertKeepsInv, InsertFailsKeepsInv,
       PublishScheduledKeepsInv, PublishReadyKeepsInv, AnswerKeepsInv DEF Next
  <1> QED BY <1>1, <1>2

LEMMA RequestInvHolds == Spec => []RequestInv
  <1>1. Init => RequestInv
    BY InitRequestInv
  <1>2. RequestInv /\ [Next]_vars => RequestInv'
    BY NextRequestInv
  <1> QED BY <1>1, <1>2, PTL DEF Spec
-----------------------------------------------------------------------------
\* Positions, ids and statuses stay what the request's handlers mean by them,
\* whatever is refused on the way (createBatch, CreateBatch).
THEOREM RequestTypeCorrect == Spec => []TypeOK
  <1>1. RequestInv => TypeOK
    BY DEF RequestInv
  <1> QED BY <1>1, RequestInvHolds, PTL

\* No rejected item is ever announced, and each accepted one by exactly one
\* event of its topic: the INSERT that fails takes every item back before the
\* first event (CreateBatch), and a failed publish ends the request before the
\* client is told that anything was accepted.
THEOREM AnnouncedAsAnsweredTheorem == Spec => []AnnouncedAsAnswered
  <1>1. RequestInv => AnnouncedAsAnswered
    <2> DEFINE mine(j) == {k \in DOMAIN events : j \in events[k].ids}
    <2> SUFFICES ASSUME RequestInv, NEW j \in DOMAIN results
                 PROVE  /\ results[j].status = "rejected" => mine(j) = {}
                        /\ Answered /\ results[j].id # 0 =>
                              /\ Cardinality(mine(j)) = 1
                              /\ \A k \in mine(j) :
                                    events[k].topic = IF rows[j].deliver_after = "time" THEN "scheduled"
                                                      ELSE rows[j].priority
      BY DEF AnnouncedAsAnswered
    <2>1. TypeOK /\ Made /\ Stored /\ Announced
      BY DEF RequestInv, Blank
    <2>2. results[j] = Verdict(j, accepted)
      BY <2>1 DEF Made
    <2>3. \A k \in DOMAIN events : events[k] \in Events
      BY <2>1 DEF Announced
    <2>4. results[j].status = "rejected" => mine(j) = {}
      BY <2>1, <2>2, <2>3, EventParts DEF Verdict
    <2>5. ASSUME Answered, results[j].id # 0
          PROVE  /\ Cardinality(mine(j)) = 1
                 /\ \A k \in mine(j) :
                       events[k].topic = IF rows[j].deliver_after = "time" THEN "scheduled"
                                         ELSE rows[j].priority
      <3>1. j \in accepted
        BY <2>2, <2>5 DEF Verdict
      <3>2. rows[j] = entity[j] /\ entity[j].deliver_after \in {"", "time"}
        BY <2>1, <2>5, <3>1, Entities DEF Stored, Made
      <3>3. PICK k \in DOMAIN events : j \in events[k].ids
        <4>1. CASE j \in Scheduled
          BY <2>1, <2>5, <4>1 DEF Announced, ScheduledEvent
        <4>2. CASE j \notin Scheduled
          BY <2>1, <2>5, <3>1, <4>2 DEF Announced, Immediate
        <4> QED BY <4>1, <4>2
      <3>4. mine(j) = {k}
        BY <2>1, <3>3 DEF Announced
      <3>5. Cardinality({k}) = 1
        BY FS_Singleton
      <3>6. events[k].topic = IF rows[j].deliver_after = "time" THEN "scheduled" ELSE rows[j].priority
        <4>1. CASE events[k].topic = "scheduled"
          <5>1. j \in Scheduled
            BY <2>1, <2>3, <3>3, <4>1, EventParts DEF ScheduledEvent
          <5> QED BY <3>2, <4>1, <5>1 DEF Scheduled
        <4>2. CASE events[k].topic # "scheduled"
          <5>1. j \notin Scheduled /\ events[k] = ReadyEvent(j)
            BY <2>1, <2>3, <3>3, <4>2, EventParts DEF ReadyEvent
          <5>2. events[k].topic = entity[j].priority
            BY <5>1 DEF ReadyEvent
          <5>3. entity[j].deliver_after # "time"
            BY <3>1, <5>1 DEF Scheduled
          <5> QED BY <3>2, <5>2, <5>3
        <4> QED BY <4>1, <4>2
      <3> QED BY <3>4, <3>5, <3>6
    <2> QED BY <2>4, <2>5
  <1> QED BY <1>1, RequestInvHolds, PTL

\* A sequence of b answers followed by one of v.
LEMMA Joined ==
  ASSUME NEW X, NEW b \in Nat, NEW v \in Nat, NEW R \in [1 .. b -> X], NEW I \in [1 .. v -> X]
  PROVE  /\ Len(R \o I) = b + v /\ DOMAIN (R \o I) = 1 .. b + v
         /\ \A k \in 1 .. b : (R \o I)[k] = R[k]
         /\ \A j \in 1 .. v : b + j \in 1 .. b + v /\ (R \o I)[b + j] = I[j]
         /\ \A k \in 1 .. b + v : k \in 1 .. b \/ \E j \in 1 .. v : k = b + j
  <1>1. R \in Seq(X) /\ I \in Seq(X) /\ Len(R) = b /\ Len(I) = v
    OBVIOUS
  <1>2. /\ Len(R \o I) = b + v /\ DOMAIN (R \o I) = 1 .. b + v
        /\ \A k \in 1 .. b : (R \o I)[k] = R[k]
        /\ \A j \in 1 .. v : (R \o I)[b + j] = I[j]
    BY <1>1
  <1>3. \A k \in 1 .. b + v : k \in 1 .. b \/ (k - b \in 1 .. v /\ k = b + (k - b))
    OBVIOUS
  <1> QED BY <1>2, <1>3

LEMMA Complement ==
  ASSUME NEW n \in Nat, NEW S, S \subseteq 1 .. n
  PROVE  Cardinality((1 .. n) \ S) = n - Cardinality(S)
  <1>1. IsFiniteSet(1 .. n) /\ Cardinality(1 .. n) = n
    BY UpTo
  <1>2. Cardinality((1 .. n) \ S) = Cardinality(1 .. n) - Cardinality((1 .. n) \intersect S)
    BY <1>1, FS_Difference
  <1>3. (1 .. n) \intersect S = S
    OBVIOUS
  <1> QED BY <1>1, <1>2, <1>3

\* What was shifted by b keeps its number.
LEMMA Shifted ==
  ASSUME NEW v \in Nat, NEW P, P \subseteq 1 .. v, NEW b \in Nat
  PROVE  Cardinality({b + j : j \in P}) = Cardinality(P)
  <1> DEFINE f == [j \in P |-> b + j]
             A == {b + j : j \in P}
  <1>1. IsFiniteSet(P)
    BY UpTo, FS_Subset
  <1>2. f \in [P -> A] /\ IsInjective(f) /\ \A x \in A : \E j \in P : f[j] = x
    BY DEF IsInjective
  <1> HIDE DEF f, A
  <1>3. ExistsBijection(P, A)
    BY <1>2 DEF ExistsBijection, Bijection, Injection, Surjection
  <1>4. Cardinality(A) = Cardinality(P)
    BY <1>1, <1>3, FS_Bijection
  <1> QED BY <1>4 DEF A

\* The answer has exactly one result for every position of the body, its counts
\* agree with them, and the id reported for a position is that of a row with the
\* item written there (createBatch and CreateBatch, whose filters compact the
\* items twice).
THEOREM EachItemAnsweredTheorem == Spec => []EachItemAnswered
  <1>1. RequestInv => EachItemAnswered
    <2> SUFFICES ASSUME RequestInv, Answered
                 PROVE  /\ Len(reply.results) = Len(body)
                        /\ {reply.results[k].index : k \in DOMAIN reply.results} = DOMAIN body
                        /\ reply.rejected =
                              Cardinality({k \in DOMAIN reply.results :
                                              reply.results[k].status = "rejected"})
                        /\ \A k \in DOMAIN reply.results :
                              reply.results[k].id # 0 =>
                                 /\ reply.results[k].id \in DOMAIN rows
                                 /\ rows[reply.results[k].id] = From(body[reply.results[k].index])
      BY DEF EachItemAnswered
    <2> DEFINE bad == InOrder(InvalidItems(body), Len(body))
               n == Len(body)
               b == Len(bad)
               v == Len(valid)
               R == Rejections(body)
               I == [j \in DOMAIN results |-> ItemResult(j)]
               res == reply.results
    <2>1. Made /\ Stored /\ Replied /\ body \in Seq(Item)
      BY BodyItems DEF RequestInv, Blank
    <2>2. n \in Nat /\ DOMAIN body = 1 .. n /\ InvalidItems(body) \subseteq 1 .. n
      BY <2>1 DEF InvalidItems
    <2>3. /\ Lists(bad, InvalidItems(body), n) /\ b \in Nat /\ DOMAIN bad = 1 .. b
          /\ \A k \in 1 .. b : bad[k] \in 1 .. n
      <3>1. Lists(bad, InvalidItems(body), n)
        BY <2>2, InOrderLists
      <3> QED BY <3>1 DEF Lists
    <2>4. /\ Lists(valid, (1 .. n) \ InvalidItems(body), n) /\ v \in Nat /\ DOMAIN valid = 1 .. v
          /\ \A j \in 1 .. v : valid[j] \in 1 .. n
      BY <2>1, <2>2, ValidItems DEF Made
    <2>5. DOMAIN results = 1 .. v /\ \A j \in 1 .. v : results[j] = Verdict(j, accepted)
      BY <2>1, <2>4 DEF Made
    <2>6. /\ R = [k \in 1 .. b |-> [index |-> bad[k], status |-> "rejected", id |-> 0,
                                    error |-> "VALIDATION_ERROR"]]
          /\ I = [j \in 1 .. v |-> ItemResult(j)]
          /\ res = R \o I
      BY <2>1, <2>3, <2>5 DEF Rejections, Replied
    <2>7. /\ \A k \in 1 .. b : R[k].index = bad[k] /\ R[k].status = "rejected" /\ R[k].id = 0
          /\ \A j \in 1 .. v : /\ I[j].index = valid[j]
                               /\ j \in accepted => I[j].status = "accepted" /\ I[j].id = j
                               /\ j \notin accepted => I[j].status = "rejected" /\ I[j].id = 0
      <3>1. \A k \in 1 .. b : R[k].index = bad[k] /\ R[k].status = "rejected" /\ R[k].id = 0
        BY <2>6
      <3>2. ASSUME NEW j \in 1 .. v
            PROVE  /\ I[j].index = valid[j]
                   /\ j \in accepted => I[j].status = "accepted" /\ I[j].id = j
                   /\ j \notin accepted => I[j].status = "rejected" /\ I[j].id = 0
        <4>1. I[j] = ItemResult(j)
          BY <2>6
        <4>2. /\ ItemResult(j).index = valid[j] /\ ItemResult(j).status = results[j].status
              /\ ItemResult(j).id = results[j].id
          BY DEF ItemResult
        <4>3. results[j] = Verdict(j, accepted)
          BY <2>5
        <4> QED BY <4>1, <4>2, <4>3 DEF Verdict
      <3> QED BY <3>1, <3>2
    <2> DEFINE X == {R[k] : k \in 1 .. b} \union {I[j] : j \in 1 .. v}
    <2>8. R \in [1 .. b -> X] /\ I \in [1 .. v -> X]
      BY <2>6
    <2> HIDE DEF R, I, X
    <2>9. /\ Len(res) = b + v /\ DOMAIN res = 1 .. b + v
          /\ \A k \in 1 .. b : res[k] = R[k]
          /\ \A j \in 1 .. v : b + j \in 1 .. b + v /\ res[b + j] = I[j]
          /\ \A k \in 1 .. b + v : k \in 1 .. b \/ \E j \in 1 .. v : k = b + j
      <3>1. res = R \o I
        BY <2>6
      <3>2. b \in Nat /\ v \in Nat
        BY <2>3, <2>4
      <3> HIDE DEF b, v, res
      <3>3. /\ Len(R \o I) = b + v /\ DOMAIN (R \o I) = 1 .. b + v
            /\ \A k \in 1 .. b : (R \o I)[k] = R[k]
            /\ \A j \in 1 .. v : b + j \in 1 .. b + v /\ (R \o I)[b + j] = I[j]
            /\ \A k \in 1 .. b + v : k \in 1 .. b \/ \E j \in 1 .. v : k = b + j
        <4>1. R \in [1 .. b -> X]
          BY <2>8
        <4>2. I \in [1 .. v -> X]
          BY <2>8
        <4> QED BY <3>2, <4>1, <4>2, Joined
      <3> QED BY <3>1, <3>3
    <2>10. b + v = n
      <3>1. b = Cardinality(InvalidItems(body)) /\ v = Cardinality((1 .. n) \ InvalidItems(body))
        <4>1. (1 .. n) \ InvalidItems(body) \subseteq 1 .. n
          OBVIOUS
        <4> QED BY <2>2, <2>3, <2>4, <4>1, ListLength
      <3>2. Cardinality((1 .. n) \ InvalidItems(body)) = n - Cardinality(InvalidItems(body))
        BY <2>2, Complement
      <3>3. n \in Nat /\ b \in Nat /\ v \in Nat
        BY <2>2, <2>3, <2>4
      <3> HIDE DEF n, b, v
      <3> QED BY <3>1, <3>2, <3>3
    <2> HIDE DEF bad, n, b, v, res
    <2>11. {res[k].index : k \in DOMAIN res} = DOMAIN body
      <3>1. ASSUME NEW k \in DOMAIN res PROVE res[k].index \in 1 .. n
        <4>1. CASE k \in 1 .. b
          BY <2>3, <2>7, <2>9, <4>1
        <4>2. ASSUME NEW j \in 1 .. v, k = b + j PROVE res[k].index \in 1 .. n
          <5>1. res[k] = I[j] /\ I[j].index = valid[j]
            BY <2>7, <2>9, <4>2
          <5> QED BY <2>4, <5>1
        <4> QED BY <2>9, <4>1, <4>2
      <3>2. ASSUME NEW i \in 1 .. n PROVE \E k \in DOMAIN res : res[k].index = i
        <4>1. CASE i \in InvalidItems(body)
          <5>1. PICK k \in 1 .. b : bad[k] = i
            BY <2>3, <4>1 DEF Lists, b
          <5>2. k \in 1 .. b + v
            BY <2>3, <2>4
          <5> QED BY <2>7, <2>9, <5>1, <5>2
        <4>2. CASE i \notin InvalidItems(body)
          <5>1. PICK j \in 1 .. v : valid[j] = i
            BY <2>4, <4>2 DEF Lists, v
          <5> QED BY <2>7, <2>9, <5>1
        <4> QED BY <4>1, <4>2
      <3> QED BY <2>2, <3>1, <3>2
    <2>12. reply.rejected = Cardinality({k \in DOMAIN res : res[k].status = "rejected"})
      <3> DEFINE A == {b + j : j \in accepted}
      <3>1. accepted \subseteq 1 .. v
        BY <2>1, <2>4 DEF Made
      <3>2. {j \in DOMAIN results : results[j].id # 0} = accepted
        <4>1. ASSUME NEW j \in 1 .. v PROVE results[j].id # 0 <=> j \in accepted
          <5>1. results[j] = Verdict(j, accepted) /\ j # 0
            BY <2>5
          <5> QED BY <5>1 DEF Verdict
        <4> QED BY <2>5, <3>1, <4>1
      <3>3. Cardinality(A) = Cardinality(accepted)
        BY <2>3, <2>4, <3>1, Shifted
      <3>4. A \subseteq 1 .. n
        BY <2>9, <2>10, <3>1
      <3>5. {k \in DOMAIN res : res[k].status = "rejected"} = (1 .. n) \ A
        <4>1. ASSUME NEW k \in 1 .. n PROVE res[k].status = "rejected" <=> k \notin A
          <5>1. CASE k \in 1 .. b
            <6>1. res[k].status = "rejected"
              BY <2>7, <2>9, <5>1
            <6>2. k \notin A
              BY <2>3, <3>1, <5>1
            <6> QED BY <6>1, <6>2
          <5>2. ASSUME NEW j \in 1 .. v, k = b + j
                PROVE  res[k].status = "rejected" <=> k \notin A
            <6>1. j \in accepted <=> k \in A
              BY <2>3, <2>4, <3>1, <5>2
            <6>2. res[k] = I[j]
              BY <2>9, <5>2
            <6> QED BY <2>7, <6>1, <6>2
          <5> QED BY <2>9, <2>10, <5>1, <5>2
        <4> HIDE DEF A
        <4> QED BY <2>9, <2>10, <4>1
      <3> HIDE DEF A
      <3>6. Cardinality((1 .. n) \ A) = n - Cardinality(A)
        BY <2>2, <3>4, Complement
      <3>7. reply.rejected = n - Cardinality(accepted)
        BY <2>1, <3>2 DEF Replied, n
      <3> QED BY <3>3, <3>5, <3>6, <3>7
    <2>13. ASSUME NEW k \in DOMAIN res, res[k].id # 0
           PROVE  res[k].id \in DOMAIN rows /\ rows[res[k].id] = From(body[res[k].index])
      <3>1. k \notin 1 .. b
        BY <2>7, <2>9, <2>13
      <3>2. PICK j \in 1 .. v : k = b + j
        BY <2>9, <3>1
      <3>3. j \in accepted /\ res[k].id = j /\ res[k].index = valid[j]
        BY <2>7, <2>9, <2>13, <3>2
      <3>4. j \in DOMAIN rows /\ rows[j] = entity[j] /\ entity[j] = From(body[valid[j]])
        BY <2>1, <3>3 DEF Stored, Made
      <3> QED BY <3>3, <3>4
    <2> QED BY <2>9, <2>10, <2>11, <2>12, <2>13 DEF n, res
  <1> QED BY <1>1, RequestInvHolds, PTL
=============================================================================

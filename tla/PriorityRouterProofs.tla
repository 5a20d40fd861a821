------------------------ MODULE PriorityRouterProofs ------------------------
(***************************************************************************)
(* What holds of the router for any weights, channels and number of        *)
(* workers: the types, that a worker is handed at most one message after   *)
(* the cancellation, and that no source is starved.                        *)
(***************************************************************************)
EXTENDS PriorityRouter, FiniteSetTheorems, WellFoundedInduction, TLAPS

-----------------------------------------------------------------------------
(***************************************************************************)
(* The slots.                                                              *)
(***************************************************************************)

\* A set of natural numbers has a least element.
LEMMA Least ==
  ASSUME NEW T, T \subseteq Nat, T # {}
  PROVE  \E x \in T : \A y \in T : x <= y
<1> DEFINE below == {p \in Nat \X Nat : p[1] < p[2]}
<1>1. OpToRel(<, Nat) = below
  BY DEF OpToRel
<1>2. IsWellFoundedOn(below, Nat)
  BY <1>1, NatLessThanWellFounded
<1> HIDE DEF below
<1>3. PICK x \in T : \A y \in T : ~ (<<y, x>> \in below)
  BY <1>2, WFMin
<1>4. ASSUME NEW y \in T
      PROVE  x <= y
  <2>1. x \in Nat /\ y \in Nat
    OBVIOUS
  <2>2. <<y, x>> \notin below
    BY <1>3
  <2>3. y < x => <<y, x>> \in below
    BY <2>1 DEF below
  <2> QED
    BY <2>1, <2>2, <2>3
<1> QED
  BY <1>4

\* The slots of each source, as NewPriorityRouter makes them.
Blocks == [s \in Sources |-> [k \in 1 .. Weights[s] |-> s]]

\* What FlattenSeq computes along the way.
BuiltUp(f, n) ==
  f = [i \in 1 .. n |-> IF i = 1 THEN Blocks[i] ELSE f[i - 1] \o Blocks[i]]

\* There is a function that satisfies its recursive definition.
LEMMA PrefixesExist ==
  ASSUME NEW n \in Nat
  PROVE  \E f : BuiltUp(f, n)
<1> DEFINE T == {m \in Nat : ~ \E f : BuiltUp(f, m)}
<1>1. SUFFICES T = {}
  OBVIOUS
<1>2. SUFFICES ASSUME T # {} PROVE FALSE
  OBVIOUS
<1>3. PICK m \in T : \A y \in T : m <= y
  BY <1>2, Least
<1>4. CASE m = 0
  <2>1. BuiltUp(<<>>, 0)
    BY DEF BuiltUp
  <2> QED
    BY <1>4, <2>1
<1>5. CASE m # 0
  <2>1. m - 1 \in Nat /\ m - 1 \notin T
    BY <1>3, <1>5
  <2>2. PICK f : BuiltUp(f, m - 1)
    BY <2>1
  <2> DEFINE g == [i \in 1 .. m |-> IF i = m THEN IF m = 1 THEN Blocks[m] ELSE f[m - 1] \o Blocks[m]
                                             ELSE f[i]]
  <2>3. ASSUME NEW i \in 1 .. m
        PROVE  g[i] = IF i = 1 THEN Blocks[i] ELSE g[i - 1] \o Blocks[i]
    <3>1. CASE i = m /\ m = 1
      BY <3>1
    <3>2. CASE i = m /\ m # 1
      <4>1. g[m - 1] = f[m - 1]
        BY <1>3, <3>2
      <4> QED
        BY <3>2, <4>1
    <3>3. CASE i # m /\ i = 1
      BY <2>2, <3>3 DEF BuiltUp
    <3>4. CASE i # m /\ i # 1
      <4>1. g[i - 1] = f[i - 1] /\ g[i] = f[i] /\ i \in 1 .. m - 1
        BY <1>3, <3>4
      <4>2. f[i] = f[i - 1] \o Blocks[i]
        BY <2>2, <3>4, <4>1 DEF BuiltUp
      <4> QED
        BY <3>4, <4>1, <4>2
    <3> QED
      BY <3>1, <3>2, <3>3, <3>4
  <2>4. g = [i \in 1 .. m |-> IF i = 1 THEN Blocks[i] ELSE g[i - 1] \o Blocks[i]]
    BY <2>3
  <2>5. BuiltUp(g, m)
    BY <2>4 DEF BuiltUp
  <2> QED
    BY <2>5
<1> QED
  BY <1>4, <1>5

\* The slots of source s are those from number a on, as many as its weight.
RunOf(q, s, a) ==
  /\ a \in 0 .. Len(q) - Weights[s]
  /\ \A c \in 1 .. Len(q) : q[c] = s <=> c \in a + 1 .. a + Weights[s]

\* Sequence q holds the slots of the first n sources.
Covers(q, n) ==
  /\ q \in Seq(1 .. n)
  /\ \A s \in 1 .. n : \E a : RunOf(q, s, a)

\* One more block.
LEMMA CoversOneMore ==
  ASSUME RouterAssumption, NEW n \in Nat, n + 1 \in Sources,
         NEW q, Covers(q, n)
  PROVE  Covers(q \o Blocks[n + 1], n + 1)
<1> DEFINE b == Blocks[n + 1]
           r == q \o b
           w == Weights[n + 1]
<1>1. w \in Nat \ {0} /\ Sources = 1 .. Len(Weights) /\ Len(Weights) \in Nat
  BY DEF RouterAssumption, Sources
<1>2. b \in Seq(1 .. n + 1) /\ Len(b) = w /\ \A k \in 1 .. w : b[k] = n + 1
  <2>1. b = [k \in 1 .. w |-> n + 1]
    BY DEF Blocks
  <2> QED
    BY <1>1, <2>1
<1>3. q \in Seq(1 .. n) /\ Len(q) \in Nat /\ \A c \in 1 .. Len(q) : q[c] \in 1 .. n
  BY DEF Covers
<1>4. r \in Seq(1 .. n + 1)
  <2>1. q \in Seq(1 .. n + 1)
    BY <1>3
  <2> QED
    BY <1>2, <2>1
<1>5. Len(r) = Len(q) + w
  <2>1. q \in Seq(1 .. n + 1) /\ b \in Seq(1 .. n + 1)
    BY <1>2, <1>3
  <2>2. Len(r) = Len(q) + Len(b)
    BY <2>1
  <2> QED
    BY <1>2, <2>2
<1>6. \A c \in 1 .. Len(r) : r[c] = IF c <= Len(q) THEN q[c] ELSE n + 1
  <2> SUFFICES ASSUME NEW c \in 1 .. Len(r)
               PROVE  r[c] = IF c <= Len(q) THEN q[c] ELSE n + 1
    OBVIOUS
  <2>1. r[c] = IF c <= Len(q) THEN q[c] ELSE b[c - Len(q)]
    BY <1>2, <1>3, <1>5
  <2>2. c > Len(q) => c - Len(q) \in 1 .. w
    BY <1>1, <1>3, <1>5
  <2> QED
    BY <1>2, <1>3, <1>5, <2>1, <2>2
<1>7. ASSUME NEW s \in 1 .. n
      PROVE  \E a : RunOf(r, s, a)
  <2>1. PICK a : RunOf(q, s, a)
    BY DEF Covers
  <2>2. Weights[s] \in Nat
    BY <1>1 DEF RouterAssumption, Sources
  <2>3. a \in 0 .. Len(r) - Weights[s]
    BY <1>1, <1>3, <1>5, <2>1, <2>2 DEF RunOf
  <2>4. ASSUME NEW c \in 1 .. Len(r)
        PROVE  r[c] = s <=> c \in a + 1 .. a + Weights[s]
    <3>1. CASE c <= Len(q)
      BY <1>3, <1>6, <2>1, <3>1 DEF RunOf
    <3>2. CASE c > Len(q)
      <4>1. r[c] = n + 1 /\ n + 1 # s
        BY <1>3, <1>6, <3>2
      <4>2. a + Weights[s] <= Len(q)
        BY <1>3, <2>1, <2>2 DEF RunOf
      <4> QED
        BY <1>3, <2>1, <2>2, <3>2, <4>1, <4>2 DEF RunOf
    <3> QED
      BY <1>3, <3>1, <3>2
  <2> QED
    BY <2>3, <2>4 DEF RunOf
<1>8. RunOf(r, n + 1, Len(q))
  <2>1. Len(q) \in 0 .. Len(r) - Weights[n + 1]
    BY <1>1, <1>3, <1>5
  <2>2. ASSUME NEW c \in 1 .. Len(r)
        PROVE  r[c] = n + 1 <=> c \in Len(q) + 1 .. Len(q) + Weights[n + 1]
    BY <1>1, <1>3, <1>5, <1>6
  <2> QED
    BY <2>1, <2>2 DEF RunOf
<1>9. ASSUME NEW s \in 1 .. n + 1
      PROVE  \E a : RunOf(r, s, a)
  BY <1>7, <1>8
<1> QED
  BY <1>4, <1>9 DEF Covers

\* What FlattenSeq makes of the blocks.
LEMMA Flattened ==
  ASSUME RouterAssumption
  PROVE  \E f : BuiltUp(f, Len(Weights)) /\ slots = f[Len(Weights)]
<1>1. Len(Weights) \in Nat \ {0} /\ Sources = 1 .. Len(Weights)
  BY DEF RouterAssumption, Sources
<1>2. Len(Blocks) = Len(Weights)
  BY <1>1 DEF Blocks
<1> DEFINE f == CHOOSE g : g = [i \in 1 .. Len(Blocks) |->
                                  IF i = 1 THEN Blocks[i] ELSE g[i - 1] \o Blocks[i]]
<1>3. slots = FlattenSeq(Blocks)
  BY DEF slots, Blocks
<1>4. FlattenSeq(Blocks) = f[Len(Blocks)]
  BY <1>1, <1>2 DEF FlattenSeq
<1>5. \E g : g = [i \in 1 .. Len(Blocks) |-> IF i = 1 THEN Blocks[i] ELSE g[i - 1] \o Blocks[i]]
  BY <1>1, <1>2, PrefixesExist DEF BuiltUp
<1>6. f = [i \in 1 .. Len(Blocks) |-> IF i = 1 THEN Blocks[i] ELSE f[i - 1] \o Blocks[i]]
  BY <1>5
<1> HIDE DEF f
<1>7. BuiltUp(f, Len(Weights))
  BY <1>2, <1>6 DEF BuiltUp
<1> QED
  BY <1>2, <1>3, <1>4, <1>7

\* Each source has its run of slots, as long as its weight.
LEMMA SlotsCover ==
  ASSUME RouterAssumption
  PROVE  Covers(slots, Len(Weights))
<1> DEFINE N == Len(Weights)
<1>1. N \in Nat \ {0} /\ Sources = 1 .. N
  BY DEF RouterAssumption, Sources
<1>2. PICK f : BuiltUp(f, N) /\ slots = f[N]
  BY Flattened
<1>3. \A i \in 1 .. N : f[i] = IF i = 1 THEN Blocks[i] ELSE f[i - 1] \o Blocks[i]
  BY <1>2 DEF BuiltUp
<1> HIDE DEF N
<1> DEFINE T == {i \in 1 .. N : ~ Covers(f[i], i)}
<1>4. SUFFICES T = {}
  BY <1>1, <1>2 DEF N
<1>5. SUFFICES ASSUME T # {} PROVE FALSE
  OBVIOUS
<1>6. T \subseteq Nat
  BY <1>1
<1>7. PICK i \in T : \A j \in T : i <= j
  BY <1>5, <1>6, Least
<1>8. CASE i = 1
  <2>1. Covers(<<>>, 0)
    BY DEF Covers
  <2>2. 0 + 1 = 1 /\ 1 \in Sources
    BY <1>1
  <2>3. Covers(<<>> \o Blocks[1], 1)
    BY <2>1, <2>2, CoversOneMore
  <2>4. Blocks[1] = [k \in 1 .. Weights[1] |-> 1] /\ Weights[1] \in Nat
    BY <2>2 DEF Blocks, RouterAssumption, Sources
  <2>5. <<>> \o Blocks[1] = Blocks[1]
    <3>1. Blocks[1] \in Seq({1})
      BY <2>4
    <3> QED
      BY <3>1
  <2> QED
    BY <1>1, <1>3, <1>7, <1>8, <2>3, <2>5
<1>9. CASE i # 1
  <2>1. i - 1 \in 1 .. N /\ i - 1 \notin T
    BY <1>1, <1>7, <1>9
  <2>2. Covers(f[i - 1], i - 1)
    BY <2>1
  <2>3. i - 1 \in Nat /\ (i - 1) + 1 = i /\ i \in Sources
    BY <1>1, <1>7, <2>1
  <2>4. Covers(f[i - 1] \o Blocks[i], i)
    BY <2>2, <2>3, CoversOneMore
  <2> QED
    BY <1>3, <1>7, <1>9, <2>4
<1> QED
  BY <1>8, <1>9
\* There is a slot for every source, and every slot belongs to one.
LEMMA SlotFacts ==
  ASSUME RouterAssumption
  PROVE  /\ TotalSlots \in Nat \ {0}
         /\ 1 \in Sources
         /\ \A c \in 1 .. TotalSlots : slots[c] \in Sources
         /\ \A s \in Sources : /\ Weights[s] \in Nat \ {0}
                               /\ \E a : RunOf(slots, s, a)
<1>1. Len(Weights) \in Nat \ {0} /\ Sources = 1 .. Len(Weights)
  BY DEF RouterAssumption, Sources
<1>2. \A s \in Sources : Weights[s] \in Nat \ {0}
  BY <1>1 DEF RouterAssumption, Sources
<1>3. slots \in Seq(1 .. Len(Weights)) /\ \A s \in 1 .. Len(Weights) : \E a : RunOf(slots, s, a)
  BY SlotsCover DEF Covers
<1>4. TotalSlots \in Nat
  BY <1>3 DEF TotalSlots
<1>5. TotalSlots # 0
  <2>1. PICK a : RunOf(slots, 1, a)
    BY <1>1, <1>3
  <2>2. a \in 0 .. TotalSlots - Weights[1] /\ Weights[1] \in Nat \ {0}
    BY <1>1, <1>2, <2>1 DEF RunOf, TotalSlots
  <2> QED
    BY <1>4, <2>2
<1> QED
  BY <1>1, <1>2, <1>3, <1>4, <1>5 DEF TotalSlots

\* The slot after the cursor's, counted from zero.
Following(c) == (c + 1) % TotalSlots

\* The remainder of a number no larger than the divisor.
LEMMA Remainder ==
  ASSUME NEW t \in Nat \ {0}
  PROVE  t % t = 0 /\ \A k \in Nat : k < t => k % t = k
BY SMTT(30)

\* The cursor wraps around.
LEMMA FollowingIs ==
  ASSUME RouterAssumption, NEW c \in 0 .. TotalSlots - 1
  PROVE  /\ Following(c) = IF c + 1 = TotalSlots THEN 0 ELSE c + 1
         /\ Following(c) \in 0 .. TotalSlots - 1
         /\ slots[Following(c) + 1] \in Sources
<1>1. TotalSlots \in Nat \ {0}
  BY SlotFacts
<1>2. CASE c + 1 = TotalSlots
  <2>1. (c + 1) % TotalSlots = 0
    BY <1>1, <1>2, Remainder
  <2> QED
    BY <1>1, <1>2, <2>1, SlotFacts DEF Following
<1>3. CASE c + 1 # TotalSlots
  <2>1. (c + 1) % TotalSlots = c + 1
    <3>1. c + 1 \in Nat /\ c + 1 < TotalSlots
      BY <1>1, <1>3
    <3> QED
      BY <1>1, <3>1, Remainder
  <2>2. c + 2 \in 1 .. TotalSlots
    BY <1>1, <1>3
  <2> QED
    BY <1>1, <1>3, <2>1, <2>2, SlotFacts DEF Following
<1> QED
  BY <1>2, <1>3

-----------------------------------------------------------------------------
(***************************************************************************)
(* The types, and what a worker is handed after the cancellation.          *)
(***************************************************************************)

\* A receive keeps the types.
LEMMA ReceiveTypeOK ==
  ASSUME TypeOK, NEW w \in Workers, NEW s \in Sources, Receive(w, s),
         1 \in Sources, UNCHANGED <<closed, up, cursor>>
  PROVE  TypeOK'
<1>1. chan' \in [Sources -> 0 .. Capacity]
  <2>1. chan[s] \in 0 .. Capacity /\ chan[s] > 0 /\ chan' = [chan EXCEPT ![s] = chan[s] - 1]
    BY DEF TypeOK, Receive
  <2>2. chan[s] - 1 \in 0 .. Capacity
    BY <2>1, RouterAssumption DEF RouterAssumption
  <2> QED
    BY <2>1, <2>2 DEF TypeOK
<1>2. overtaken' \in [Sources -> Nat]
  BY DEF TypeOK, Receive
<1>3. late' \in [Workers -> Nat]
  BY DEF TypeOK, Receive
<1>4. /\ phase' \in [Workers -> {"loop", "slot", "scan", "park", "work", "halted"}]
      /\ at' \in [Workers -> Sources]
  BY DEF TypeOK, Receive, Goto
<1> QED
  BY <1>1, <1>2, <1>3, <1>4 DEF TypeOK

\* Every step does.
LEMMA NextTypeOK ==
  ASSUME RouterAssumption, TypeOK, [Next]_vars
  PROVE  TypeOK'
<1> USE DEF TypeOK
<1>0. TotalSlots \in Nat \ {0} /\ 1 \in Sources
  BY SlotFacts
<1>1. ASSUME NEW s \in Sources, Arrive(s)
      PROVE  TypeOK'
  <2>1. chan[s] \in 0 .. Capacity /\ chan[s] < Capacity /\ chan' = [chan EXCEPT ![s] = chan[s] + 1]
    BY <1>1 DEF Arrive
  <2>2. chan[s] + 1 \in 0 .. Capacity
    BY <2>1 DEF RouterAssumption
  <2> QED
    BY <1>1, <2>1, <2>2 DEF Arrive
<1>2. ASSUME NEW s \in Sources, Close(s)
      PROVE  TypeOK'
  BY <1>2 DEF Close
<1>3. CASE Cancel
  BY <1>3 DEF Cancel
<1>4. ASSUME NEW w \in Workers, CallNext(w)
      PROVE  TypeOK'
  <2>1. CASE up
    <3>1. cursor' = Following(cursor) /\ Goto(w, "slot", slots[Following(cursor) + 1])
      BY <1>4, <2>1 DEF CallNext, Following
    <3>2. cursor' \in 0 .. TotalSlots - 1 /\ slots[Following(cursor) + 1] \in Sources
      BY <3>1, FollowingIs
    <3> QED
      BY <1>4, <3>1, <3>2 DEF CallNext, Goto
  <2>2. CASE ~ up
    BY <1>4, <2>2 DEF CallNext, Goto
  <2> QED
    BY <2>1, <2>2
<1>5. ASSUME NEW w \in Workers, TrySlot(w)
      PROVE  TypeOK'
  <2>1. CASE Receive(w, at[w])
    BY <1>0, <1>5, <2>1, ReceiveTypeOK DEF TrySlot
  <2>2. CASE Goto(w, "scan", 1) /\ UNCHANGED <<chan, overtaken, late>>
    BY <1>0, <1>5, <2>2 DEF TrySlot, Goto
  <2> QED
    BY <1>5, <2>1, <2>2 DEF TrySlot
<1>6. ASSUME NEW w \in Workers, Scan(w)
      PROVE  TypeOK'
  <2>1. CASE Receive(w, at[w])
    BY <1>0, <1>6, <2>1, ReceiveTypeOK DEF Scan
  <2>2. CASE at[w] < Len(Weights) /\ Goto(w, "scan", at[w] + 1) /\ UNCHANGED <<chan, overtaken, late>>
    <3>1. at[w] + 1 \in Sources
      BY <2>2 DEF RouterAssumption, Sources
    <3> QED
      BY <1>6, <2>2, <3>1 DEF Scan, Goto
  <2>3. CASE Goto(w, "park", 1) /\ UNCHANGED <<chan, overtaken, late>>
    BY <1>0, <1>6, <2>3 DEF Scan, Goto
  <2> QED
    BY <1>6, <2>1, <2>2, <2>3 DEF Scan
<1>7. ASSUME NEW w \in Workers, Park(w)
      PROVE  TypeOK'
  <2>1. CASE Receive(w, 1)
    BY <1>0, <1>7, <2>1, ReceiveTypeOK DEF Park
  <2>2. CASE Goto(w, "loop", 1) /\ UNCHANGED <<chan, overtaken, late>>
    BY <1>0, <1>7, <2>2 DEF Park, Goto
  <2> QED
    BY <1>7, <2>1, <2>2 DEF Park
<1>8. ASSUME NEW w \in Workers, Finish(w)
      PROVE  TypeOK'
  BY <1>0, <1>8 DEF Finish, Goto
<1>9. CASE UNCHANGED vars
  BY <1>9 DEF vars
<1> QED
  BY <1>1, <1>2, <1>3, <1>4, <1>5, <1>6, <1>7, <1>8, <1>9 DEF Next, Work

\* The initial state is well typed.
LEMMA InitTypeOK ==
  ASSUME RouterAssumption, Init
  PROVE  TypeOK
BY SlotFacts DEF Init, TypeOK, RouterAssumption
\* What a step of worker w does to its own place and to the others'.
LEMMA GotoIs ==
  ASSUME TypeOK, NEW w \in Workers, NEW p, NEW s, Goto(w, p, s)
  PROVE  /\ phase'[w] = p /\ at'[w] = s
         /\ \A v \in Workers : v # w => phase'[v] = phase[v] /\ at'[v] = at[v]
BY DEF TypeOK, Goto

\* The workers' calls: what they change besides their own place.
LEMMA WorkIs ==
  ASSUME RouterAssumption, TypeOK, NEW w \in Workers, Work(w)
  PROVE  \/ /\ phase[w] = "loop" /\ up
            /\ cursor' = Following(cursor)
            /\ Goto(w, "slot", slots[Following(cursor) + 1])
            /\ UNCHANGED <<chan, up, overtaken, late>>
         \/ /\ phase[w] = "loop" /\ ~ up
            /\ Goto(w, "halted", at[w])
            /\ UNCHANGED <<chan, up, cursor, overtaken, late>>
         \/ \E s \in Sources :
               /\ (phase[w] = "slot" /\ s = at[w]) \/ phase[w] \in {"scan", "park"}
               /\ Receive(w, s)
               /\ UNCHANGED <<up, cursor>>
         \/ /\ phase[w] = "slot" /\ chan[at[w]] = 0
            /\ Goto(w, "scan", 1)
            /\ UNCHANGED <<chan, up, cursor, overtaken, late>>
         \/ /\ phase[w] = "scan"
            /\ \E p \in {"scan", "park"}, s \in Sources : Goto(w, p, s)
            /\ UNCHANGED <<chan, up, cursor, overtaken, late>>
         \/ /\ phase[w] \in {"park", "work"}
            /\ Goto(w, "loop", 1)
            /\ UNCHANGED <<chan, up, cursor, overtaken, late>>
<1>0. 1 \in Sources /\ at[w] \in Sources
  BY SlotFacts DEF TypeOK
<1>1. CASE CallNext(w)
  BY <1>1 DEF CallNext, Following
<1>2. CASE TrySlot(w)
  BY <1>0, <1>2 DEF TrySlot
<1>3. CASE Scan(w)
  <2>1. at[w] < Len(Weights) => at[w] + 1 \in Sources
    BY <1>0 DEF RouterAssumption, Sources
  <2> QED
    BY <1>0, <1>3, <2>1 DEF Scan
<1>4. CASE Park(w)
  BY <1>0, <1>4 DEF Park
<1>5. CASE Finish(w)
  BY <1>5 DEF Finish
<1> QED
  BY <1>1, <1>2, <1>3, <1>4, <1>5 DEF Work

\* Whoever is inside Next has been handed nothing since the cancellation.
LateInv ==
  \A w \in Workers :
     /\ late[w] <= 1
     /\ up \/ phase[w] \in {"slot", "scan", "park"} => late[w] = 0

\* Every step keeps it.
LEMMA LateStep ==
  ASSUME RouterAssumption, TypeOK, LateInv, [Next]_vars
  PROVE  LateInv'
<1>1. SUFFICES ASSUME NEW v \in Workers
               PROVE  /\ late'[v] <= 1
                      /\ up' \/ phase'[v] \in {"slot", "scan", "park"} => late'[v] = 0
  BY DEF LateInv
<1>2. late[v] \in Nat /\ late[v] <= 1 /\ (up \/ phase[v] \in {"slot", "scan", "park"} => late[v] = 0)
  BY DEF LateInv, TypeOK
<1>3. CASE late' = late /\ phase' = phase /\ (up' => up)
  BY <1>2, <1>3
<1>4. ASSUME NEW w \in Workers, Work(w)
      PROVE  /\ late'[v] <= 1
             /\ up' \/ phase'[v] \in {"slot", "scan", "park"} => late'[v] = 0
  <2>1. ASSUME NEW p, NEW s, Goto(w, p, s), late' = late, up' = up,
               p \in {"slot", "scan", "park"} => phase[w] \in {"slot", "scan", "park"} \/ up
        PROVE  /\ late'[v] <= 1
               /\ up' \/ phase'[v] \in {"slot", "scan", "park"} => late'[v] = 0
    BY <1>2, <2>1, GotoIs
  <2>2. ASSUME NEW s \in Sources, Receive(w, s), up' = up, phase[w] \in {"slot", "scan", "park"}
        PROVE  /\ late'[v] <= 1
               /\ up' \/ phase'[v] \in {"slot", "scan", "park"} => late'[v] = 0
    <3>1. late' = [late EXCEPT ![w] = IF up THEN 0 ELSE late[w] + 1] /\ late \in [Workers -> Nat]
      BY <2>2 DEF Receive, TypeOK
    <3>2. late'[v] = IF v = w THEN IF up THEN 0 ELSE late[w] + 1 ELSE late[v]
      BY <3>1
    <3>3. Goto(w, "work", 1)
      BY <2>2 DEF Receive
    <3>4. phase'[v] = IF v = w THEN "work" ELSE phase[v]
      BY <3>3, GotoIs
    <3> QED
      BY <1>2, <2>2, <3>2, <3>4
  <2> QED
    BY <1>4, <2>1, <2>2, WorkIs
<1>5. [\E s \in Sources : Arrive(s) \/ Close(s)]_vars \/ Cancel => late' = late /\ phase' = phase /\ (up' => up)
  BY DEF Arrive, Close, Cancel, vars
<1> QED
  BY <1>3, <1>4, <1>5 DEF Next

\* The router is well typed.
THEOREM RouterTypeCorrect == Spec => []TypeOK
<1>1. Init => TypeOK
  BY RouterAssumption, InitTypeOK
<1>2. TypeOK /\ [Next]_vars => TypeOK'
  BY RouterAssumption, NextTypeOK
<1> QED
  BY <1>1, <1>2, PTL DEF Spec

\* After the cancellation a worker is handed at most one more message: the call
\* of Next it is in may return one, and then its loop looks at the context
\* (StartMessageProcessing).
THEOREM OneLateMessageTheorem == Spec => []OneLateMessage
<1>1. Init => LateInv
  BY DEF Init, LateInv
<1>2. TypeOK /\ LateInv /\ [Next]_vars => LateInv'
  BY RouterAssumption, LateStep
<1>3. LateInv => OneLateMessage
  BY DEF LateInv, OneLateMessage
<1> QED
  BY <1>1, <1>2, <1>3, RouterTypeCorrect, PTL DEF Spec
-----------------------------------------------------------------------------
(***************************************************************************)
(* No source is starved.  While source s has messages, a worker that is    *)
(* sent to one of its slots is stuck there until it takes one.  The other  *)
(* workers can overtake once each with the call they are in, and then once *)
(* for every slot of another source that the cursor passes.  After at most *)
(* Others(s) of these it reaches a slot of s, and one more worker is stuck.*)
(***************************************************************************)

\* Worker w is sent to source s.
Stuck(w, s) == phase[w] = "slot" /\ at[w] = s

\* The workers that are not.
Free(s) == {w \in Workers : ~ Stuck(w, s)}

\* Those of them that are in a call of Next.
Calling(s) == {w \in Free(s) : phase[w] \in {"slot", "scan", "park"}}

\* The slots of the other sources.
Others(s) == TotalSlots - Weights[s]

\* Where the run of s begins, counted from zero.
First(s) == CHOOSE a : RunOf(slots, s, a)

\* How many slots of other sources the cursor passes from slot x on until it
\* meets one of s.
Gap(s, x) ==
  IF x < First(s) THEN First(s) - x
  ELSE IF x < First(s) + Weights[s] THEN 0
  ELSE First(s) + TotalSlots - x

\* How often source s may still be overtaken, r workers being free.
Ahead(s, x, r) == IF r = 0 THEN 0 ELSE Gap(s, x) + (r - 1) * Others(s)

\* The slots of a source, as numbers.
LEMMA RunFacts ==
  ASSUME RouterAssumption, NEW s \in Sources
  PROVE  /\ Others(s) \in Nat
         /\ Weights[s] \in Nat \ {0}
         /\ TotalSlots \in Nat \ {0}
         /\ First(s) \in 0 .. TotalSlots - Weights[s]
         /\ \A x \in 0 .. TotalSlots - 1 :
               slots[x + 1] = s <=> First(s) <= x /\ x < First(s) + Weights[s]
<1>1. TotalSlots \in Nat \ {0} /\ Weights[s] \in Nat \ {0} /\ \E a : RunOf(slots, s, a)
  BY SlotFacts
<1>2. RunOf(slots, s, First(s))
  BY <1>1 DEF First
<1> HIDE DEF First
<1>3. First(s) \in 0 .. TotalSlots - Weights[s]
  BY <1>2 DEF RunOf, TotalSlots
<1>4. ASSUME NEW x \in 0 .. TotalSlots - 1
      PROVE  slots[x + 1] = s <=> First(s) <= x /\ x < First(s) + Weights[s]
  <2>1. x + 1 \in 1 .. TotalSlots
    BY <1>1
  <2>2. slots[x + 1] = s <=> x + 1 \in First(s) + 1 .. First(s) + Weights[s]
    BY <1>2, <2>1 DEF RunOf, TotalSlots
  <2> QED
    BY <1>1, <1>3, <2>2
<1>5. Others(s) \in Nat
  BY <1>1, <1>3 DEF Others
<1> QED
  BY <1>1, <1>3, <1>4, <1>5

\* The gap is the others' slots at most; it is closed at a slot of s, and every
\* other slot that is passed narrows it.
LEMMA GapFacts ==
  ASSUME RouterAssumption, NEW s \in Sources, NEW c \in 0 .. TotalSlots - 1
  PROVE  LET x == Following(c)
         IN  /\ x \in 0 .. TotalSlots - 1
             /\ Gap(s, x) \in 0 .. Others(s)
             /\ slots[x + 1] = s => Gap(s, x) = 0
             /\ slots[x + 1] # s => Gap(s, x) = Gap(s, Following(x)) + 1
<1> DEFINE x == Following(c)
           y == Following(x)
           a == First(s)
           W == Weights[s]
           T == TotalSlots
<1>1. /\ T \in Nat \ {0} /\ W \in Nat \ {0} /\ a \in 0 .. T - W
      /\ \A z \in 0 .. T - 1 : slots[z + 1] = s <=> a <= z /\ z < a + W
  BY RunFacts
<1>2. x \in 0 .. T - 1
  BY FollowingIs
<1>3. y = IF x + 1 = T THEN 0 ELSE x + 1
  BY <1>2, FollowingIs
<1> HIDE DEF x, y, a, T, W
<1>4. /\ Gap(s, x) = IF x < a THEN a - x ELSE IF x < a + W THEN 0 ELSE a + T - x
      /\ Gap(s, y) = IF y < a THEN a - y ELSE IF y < a + W THEN 0 ELSE a + T - y
      /\ Others(s) = T - W
  BY DEF Gap, Others, a, T, W
<1>5. Gap(s, x) \in 0 .. Others(s)
  BY <1>1, <1>2, <1>4
<1>6. slots[x + 1] = s => Gap(s, x) = 0
  BY <1>1, <1>2, <1>4
<1>7. ASSUME slots[x + 1] # s
      PROVE  Gap(s, x) = Gap(s, y) + 1
  <2>1. x < a \/ x >= a + W
    BY <1>1, <1>2, <1>7
  <2>2. CASE x < a
    BY <1>1, <1>2, <1>3, <1>4, <2>2
  <2>3. CASE x >= a + W
    <3>1. Gap(s, x) = a + T - x
      BY <1>1, <1>2, <1>4, <2>3
    <3>2. CASE x + 1 = T
      BY <1>1, <1>2, <1>3, <1>4, <3>1, <3>2
    <3>3. CASE x + 1 # T
      BY <1>1, <1>2, <1>3, <1>4, <2>3, <3>1, <3>3
    <3> QED
      BY <3>2, <3>3
  <2> QED
    BY <2>1, <2>2, <2>3
<1> QED
  BY <1>2, <1>5, <1>6, <1>7 DEF x, y, T

\* A part of a finite set is finite and no larger.
LEMMA SmallerSet ==
  ASSUME NEW S, IsFiniteSet(S), NEW T \in SUBSET S
  PROVE  IsFiniteSet(T) /\ Cardinality(T) \in Nat /\ Cardinality(T) <= Cardinality(S)
BY FS_Subset, FS_CardinalityType

\* The sets of workers are finite, and a worker that calls is free.
LEMMA FreeFacts ==
  ASSUME RouterAssumption, NEW s
  PROVE  /\ IsFiniteSet(Free(s)) /\ IsFiniteSet(Calling(s)) /\ Calling(s) \subseteq Free(s)
         /\ Cardinality(Workers) \in Nat
         /\ Cardinality(Free(s)) \in 0 .. Cardinality(Workers)
         /\ Cardinality(Calling(s)) \in 0 .. Cardinality(Free(s))
         /\ Cardinality(Free(s)) = 0 <=> Free(s) = {}
<1>1. IsFiniteSet(Workers) /\ Free(s) \in SUBSET Workers /\ Calling(s) \in SUBSET Free(s)
  BY DEF RouterAssumption, Free, Calling
<1>2. IsFiniteSet(Free(s)) /\ Cardinality(Free(s)) <= Cardinality(Workers)
  BY <1>1, FS_Subset
<1>3. IsFiniteSet(Calling(s)) /\ Cardinality(Calling(s)) <= Cardinality(Free(s))
  BY <1>1, <1>2, FS_Subset
<1>4. Cardinality(Workers) \in Nat /\ Cardinality(Free(s)) \in Nat /\ Cardinality(Calling(s)) \in Nat
  BY <1>1, <1>2, <1>3, FS_CardinalityType
<1> QED
  BY <1>1, <1>2, <1>3, <1>4, FS_EmptySet

\* Multiplication, for the solver.
LEMMA Rounds ==
  ASSUME NEW r \in Nat, NEW k \in Nat, NEW z \in Nat, r <= k, r > 0
  PROVE  /\ (r - 1) * z \in Nat
         /\ (r - 1) * z + z = r * z
         /\ r * z <= k * z
         /\ r > 1 => (r - 1) * z = (r - 2) * z + z
         /\ k * (z + 1) = k * z + k
  <1>1. (r - 1) * z + z = r * z /\ k * (z + 1) = k * z + k
    OBVIOUS
  <1>2. (r - 1) * z \in Nat
    <2>1. r - 1 \in Nat
      OBVIOUS
    <2> QED BY <2>1
  <1>3. r * z <= k * z
    <2>1. k - r \in Nat
      OBVIOUS
    <2>2. (k - r) * z >= 0
      BY <2>1
    <2>3. (k - r) * z = k * z - r * z
      OBVIOUS
    <2> QED BY <2>2, <2>3
  <1>4. r > 1 => (r - 1) * z = (r - 2) * z + z
    OBVIOUS
  <1> QED BY <1>1, <1>2, <1>3, <1>4
\* How often source s was overtaken, and how often it may still be, are within
\* the bound.
RoomFor(s) ==
  overtaken[s] + Cardinality(Calling(s)) + Ahead(s, Following(cursor), Cardinality(Free(s)))
    <= MaxOvertaken(s)

OvertakingInv ==
  \A s \in Sources : RoomFor(s) /\ (chan[s] = 0 => overtaken[s] = 0)

\* After a message of s there is room for all that may come before the next.
LEMMA RoomAtFirst ==
  ASSUME RouterAssumption, TypeOK, NEW s \in Sources, overtaken[s] = 0
  PROVE  RoomFor(s)
<1> DEFINE K == Cardinality(Workers)
           r == Cardinality(Free(s))
           f == Cardinality(Calling(s))
           z == Others(s)
           g == Gap(s, Following(cursor))
<1>1. K \in Nat /\ r \in 0 .. K /\ f \in 0 .. r
  BY FreeFacts
<1>2. z \in Nat /\ g \in 0 .. z
  BY RunFacts, GapFacts DEF TypeOK
<1>3. MaxOvertaken(s) = K * (z + 1)
  BY DEF MaxOvertaken, Others
<1>4. Ahead(s, Following(cursor), r) = IF r = 0 THEN 0 ELSE g + (r - 1) * z
  BY DEF Ahead
<1> HIDE DEF K, r, f, z, g
<1>5. CASE r = 0
  <2>1. K * (z + 1) >= 0
    BY <1>1, <1>2
  <2> QED
    BY <1>1, <1>3, <1>4, <1>5, <2>1 DEF RoomFor, K, r, f
<1>6. CASE r # 0
  <2>1. /\ (r - 1) * z \in Nat
        /\ (r - 1) * z + z = r * z
        /\ r * z <= K * z
        /\ K * (z + 1) = K * z + K
    BY <1>1, <1>2, <1>6, Rounds
  <2>2. f + (g + (r - 1) * z) <= K * (z + 1)
    <3> DEFINE A == (r - 1) * z
               B == r * z
               C == K * z
               D == K * (z + 1)
    <3>1. A \in Nat /\ A + z = B /\ B <= C /\ D = C + K /\ C \in Nat
      BY <1>1, <1>2, <2>1
    <3> HIDE DEF A, B, C, D
    <3>2. f + (g + A) <= D
      BY <1>1, <1>2, <3>1
    <3> QED
      BY <3>2 DEF A, D
  <2>3. 0 + f + (g + (r - 1) * z) <= K * (z + 1)
    BY <1>1, <1>2, <2>1, <2>2
  <2> QED
    BY <1>3, <1>4, <1>6, <2>3 DEF RoomFor, r, f
<1> QED
  BY <1>5, <1>6

\* Room that suffices goes on to do so when nothing of the sum has grown.
LEMMA RoomKept ==
  ASSUME RouterAssumption, TypeOK, TypeOK', NEW s \in Sources, RoomFor(s),
         Free(s)' = Free(s), cursor' = cursor,
         overtaken'[s] + Cardinality(Calling(s)') <= overtaken[s] + Cardinality(Calling(s))
  PROVE  RoomFor(s)'
<1>1. /\ overtaken[s] \in Nat /\ overtaken'[s] \in Nat
      /\ Cardinality(Calling(s)) \in Nat /\ Cardinality(Free(s)) \in Nat
      /\ Cardinality(Calling(s)) \in 0 .. Cardinality(Free(s))
  BY FreeFacts DEF TypeOK
<1>2. IsFiniteSet(Workers) /\ Calling(s)' \in SUBSET Workers
  BY DEF RouterAssumption, Calling, Free
<1>3. Cardinality(Calling(s)') \in Nat
  BY <1>2, FS_Subset, FS_CardinalityType
<1>4. Ahead(s, Following(cursor), Cardinality(Free(s))) \in Nat
  <2>1. Gap(s, Following(cursor)) \in Nat /\ Others(s) \in Nat
    BY GapFacts, RunFacts DEF TypeOK
  <2>2. Cardinality(Free(s)) # 0 => (Cardinality(Free(s)) - 1) * Others(s) \in Nat
    BY <1>1, <2>1, Rounds
  <2> QED
    BY <1>1, <2>1, <2>2 DEF Ahead
<1>5. MaxOvertaken(s) \in Nat
  <2>1. Cardinality(Workers) \in Nat /\ Others(s) + 1 \in Nat
    BY FreeFacts, RunFacts
  <2>2. Cardinality(Workers) * (Others(s) + 1) \in Nat
    BY <2>1
  <2> QED
    BY <2>2 DEF MaxOvertaken, Others
<1> DEFINE A == Ahead(s, Following(cursor), Cardinality(Free(s)))
           o == overtaken[s]
           f == Cardinality(Calling(s))
           M == MaxOvertaken(s)
           oo == overtaken'[s]
           ff == Cardinality(Calling(s)')
<1>6. o + f + A <= M
  BY DEF RoomFor
<1>7. RoomFor(s)' <=> oo + ff + A <= M
  BY DEF RoomFor, MaxOvertaken, TotalSlots, Ahead, Gap, First, Others, Following
<1>8. o \in Nat /\ oo \in Nat /\ f \in Nat /\ ff \in Nat /\ A \in Nat /\ M \in Nat /\ oo + ff <= o + f
  BY <1>1, <1>3, <1>4, <1>5
<1> HIDE DEF A, o, oo, f, ff, M
<1>9. oo + ff + A <= M
  BY <1>6, <1>8
<1> QED
  BY <1>7, <1>9
\* A call of Next moves the cursor by one slot.
LEMMA RoomAfterCall ==
  ASSUME RouterAssumption, TypeOK, TypeOK', NEW s \in Sources, RoomFor(s),
         NEW w \in Workers, phase[w] = "loop",
         cursor' = Following(cursor), Goto(w, "slot", slots[Following(cursor) + 1]),
         UNCHANGED overtaken
  PROVE  RoomFor(s)'
<1> DEFINE x == Following(cursor)
           y == Following(x)
           F == Free(s)
           C == Calling(s)
<1>1. /\ x \in 0 .. TotalSlots - 1
      /\ Gap(s, x) \in 0 .. Others(s)
      /\ slots[x + 1] = s => Gap(s, x) = 0
      /\ slots[x + 1] # s => Gap(s, x) = Gap(s, y) + 1
  BY GapFacts DEF TypeOK
<1>2. Gap(s, y) \in 0 .. Others(s) /\ Others(s) \in Nat
  BY <1>1, GapFacts, RunFacts
<1>3. /\ phase'[w] = "slot" /\ at'[w] = slots[x + 1]
      /\ \A v \in Workers : v # w => phase'[v] = phase[v] /\ at'[v] = at[v]
  BY GotoIs
<1>4. w \in F /\ w \notin C
  BY DEF Free, Calling, Stuck
<1>5. /\ IsFiniteSet(F) /\ IsFiniteSet(C) /\ C \subseteq F
      /\ Cardinality(F) \in 0 .. Cardinality(Workers) /\ Cardinality(C) \in 0 .. Cardinality(F)
      /\ Cardinality(F) # 0 /\ Cardinality(Workers) \in Nat
      /\ overtaken[s] \in Nat
  BY <1>4, FreeFacts DEF TypeOK
<1>6. MaxOvertaken(s)' = MaxOvertaken(s)
  BY DEF MaxOvertaken, TotalSlots
<1>7. MaxOvertaken(s) \in Nat
  <2>1. Cardinality(Workers) * (Others(s) + 1) \in Nat
    BY <1>2, <1>5
  <2> QED
    BY <2>1 DEF MaxOvertaken, Others
<1>8. Ahead(s, x, Cardinality(F)) = Gap(s, x) + (Cardinality(F) - 1) * Others(s)
  BY <1>5 DEF Ahead
<1>9. RoomFor(s)' <=>
        overtaken[s] + Cardinality(C') + Ahead(s, y, Cardinality(F')) <= MaxOvertaken(s)
  BY <1>6 DEF RoomFor, Ahead, Gap, First, Others, TotalSlots, Following
<1>10. (Cardinality(F) - 1) * Others(s) \in Nat
  BY <1>2, <1>5, Rounds
<1> DEFINE n == Cardinality(F)
           m == Cardinality(C)
           z == Others(s)
           M == MaxOvertaken(s)
           o == overtaken[s]
           A == (n - 1) * z
           g == Gap(s, x)
           h == Gap(s, y)
<1>11. o + m + (g + A) <= M
  BY <1>8 DEF RoomFor
<1>12. CASE slots[x + 1] = s
  <2>1. F' = F \ {w} /\ C' = C
    BY <1>3, <1>12, SMTT(30) DEF Free, Calling, Stuck
  <2>2. Cardinality(F') = n - 1
    <3>1. Cardinality(F \ {w}) = Cardinality(F) - 1
      BY <1>4, <1>5, FS_RemoveElement
    <3> QED
      BY <2>1, <3>1
  <2>3. CASE n = 1
    <3>1. Ahead(s, y, Cardinality(F')) = 0
      BY <2>2, <2>3 DEF Ahead
    <3>2. o + m + 0 <= M
      <4> HIDE DEF o, m, g, A, M, n
      <4>1. o \in Nat /\ m \in Nat /\ g \in Nat /\ A \in Nat /\ M \in Nat
        BY <1>1, <1>2, <1>5, <1>7, <1>10 DEF o, m, g, A, M, n
      <4> QED
        BY <1>11, <4>1
    <3> QED
      BY <1>9, <2>1, <3>1, <3>2
  <2>4. CASE n # 1
    <3> DEFINE B == (n - 2) * z
    <3>1. Ahead(s, y, Cardinality(F')) = h + B
      BY <1>5, <2>2, <2>4 DEF Ahead
    <3>2. n > 1 /\ A = B + z
      BY <1>2, <1>5, <2>4, Rounds
    <3>3. B \in Nat
      <4>1. n - 1 \in Nat /\ n - 1 > 0 /\ (n - 1) - 1 = n - 2
        BY <1>5, <3>2
      <4>2. ((n - 1) - 1) * z \in Nat
        BY <1>2, <4>1, Rounds
      <4> QED
        BY <4>1, <4>2
    <3>4. o + m + (h + B) <= M
      <4>1. o \in Nat /\ m \in Nat /\ g = 0 /\ h \in Nat /\ h <= z /\ z \in Nat /\ M \in Nat /\ B \in Nat
        BY <1>1, <1>2, <1>5, <1>7, <1>12, <3>3
      <4> HIDE DEF o, m, g, h, A, B, M, n, z
      <4> QED
        BY <1>11, <3>2, <4>1
    <3> QED
      BY <1>9, <2>1, <3>1, <3>4
  <2> QED
    BY <2>3, <2>4
<1>13. CASE slots[x + 1] # s
  <2>1. F' = F /\ C' = C \union {w}
    BY <1>3, <1>13 DEF Free, Calling, Stuck
  <2>2. Cardinality(C') = m + 1 /\ Cardinality(F') = n
    BY <1>4, <1>5, <2>1, FS_AddElement
  <2>3. Ahead(s, y, Cardinality(F')) = h + A
    BY <1>5, <2>2 DEF Ahead
  <2>4. o + (m + 1) + (h + A) <= M
    <3>1. o \in Nat /\ m \in Nat /\ g = h + 1 /\ h \in Nat /\ A \in Nat /\ M \in Nat
      BY <1>1, <1>2, <1>5, <1>7, <1>10, <1>13
    <3> HIDE DEF o, m, g, h, A, M, n
    <3> QED
      BY <1>11, <3>1
  <2> QED
    BY <1>9, <2>2, <2>3, <2>4
<1> QED
  BY <1>12, <1>13
\* A receive overtakes every other source that has messages, and ends a call.
LEMMA RoomAfterReceive ==
  ASSUME RouterAssumption, TypeOK, TypeOK', NEW s \in Sources, RoomFor(s),
         NEW w \in Workers, NEW k \in Sources, Receive(w, k), UNCHANGED cursor,
         (phase[w] = "slot" /\ k = at[w]) \/ phase[w] \in {"scan", "park"}
  PROVE  RoomFor(s)' /\ (chan'[s] = 0 => overtaken'[s] = 0)
<1>1. overtaken'[s] = IF s # k /\ chan[s] > 0 THEN overtaken[s] + 1 ELSE 0
  BY DEF Receive
<1>2. CASE s = k \/ ~ (chan[s] > 0)
  <2>1. overtaken'[s] = 0
    BY <1>1, <1>2
  <2>2. RoomFor(s)'
    <3>1. (RouterAssumption /\ TypeOK /\ overtaken[s] = 0 => RoomFor(s))'
      BY RoomAtFirst, PTL
    <3> QED
      BY <2>1, <3>1
  <2> QED
    BY <2>1, <2>2
<1>3. CASE s # k /\ chan[s] > 0
  <2>1. Goto(w, "work", 1)
    BY DEF Receive
  <2>2. phase'[w] = "work" /\ \A v \in Workers : v # w => phase'[v] = phase[v] /\ at'[v] = at[v]
    BY <2>1, GotoIs
  <2>3. w \in Calling(s) /\ Calling(s)' = Calling(s) \ {w} /\ Free(s)' = Free(s)
    BY <1>3, <2>2 DEF Free, Calling, Stuck
  <2>4. IsFiniteSet(Calling(s)) /\ Cardinality(Calling(s)) \in Nat /\ overtaken[s] \in Nat
    <3>1. overtaken[s] \in Nat
      BY DEF TypeOK
    <3>2. IsFiniteSet(Calling(s))
      BY FreeFacts
    <3> QED
      BY <3>1, <3>2, FS_CardinalityType
  <2>5. Cardinality(Calling(s)') = Cardinality(Calling(s)) - 1
    BY <2>3, <2>4, FS_RemoveElement
  <2>6. overtaken'[s] + Cardinality(Calling(s)') <= overtaken[s] + Cardinality(Calling(s))
    BY <1>1, <1>3, <2>4, <2>5
  <2>7. cursor' = cursor
    OBVIOUS
  <2>8. RoomFor(s)'
    BY <2>3, <2>6, <2>7, RoomKept
  <2>9. chan'[s] = chan[s]
    BY <1>3 DEF Receive, TypeOK
  <2> QED
    BY <1>3, <2>8, <2>9
<1> QED
  BY <1>2, <1>3

\* Every step leaves room.
LEMMA OvertakingStep ==
  ASSUME RouterAssumption, TypeOK, TypeOK', OvertakingInv, [Next]_vars
  PROVE  OvertakingInv'
<1>1. SUFFICES ASSUME NEW s \in Sources
               PROVE  RoomFor(s)' /\ (chan'[s] = 0 => overtaken'[s] = 0)
  BY DEF OvertakingInv
<1>2. RoomFor(s) /\ (chan[s] = 0 => overtaken[s] = 0)
  BY DEF OvertakingInv
<1>3. ASSUME UNCHANGED <<cursor, phase, at, overtaken>>
      PROVE  RoomFor(s)'
  BY <1>2, <1>3 DEF RoomFor, Calling, Free, Stuck, Ahead, Gap, First, Others, MaxOvertaken,
                    TotalSlots, Following
<1>4. ASSUME NEW k \in Sources, Arrive(k)
      PROVE  chan'[s] = 0 => overtaken'[s] = 0
  BY <1>2, <1>4 DEF Arrive, TypeOK
<1>5. ASSUME NEW w \in Workers, Work(w)
      PROVE  RoomFor(s)' /\ (chan'[s] = 0 => overtaken'[s] = 0)
  <2>1. CASE /\ phase[w] = "loop" /\ up
             /\ cursor' = Following(cursor)
             /\ Goto(w, "slot", slots[Following(cursor) + 1])
             /\ UNCHANGED <<chan, up, overtaken, late>>
    BY <1>2, <2>1, RoomAfterCall
  <2>2. ASSUME NEW p, NEW k, Goto(w, p, k), UNCHANGED <<chan, cursor, overtaken>>,
               ~ Stuck(w, s), p # "slot",
               p \in {"scan", "park"} => phase[w] \in {"slot", "scan", "park"}
        PROVE  RoomFor(s)' /\ (chan'[s] = 0 => overtaken'[s] = 0)
    <3>1. phase'[w] = p /\ \A v \in Workers : v # w => phase'[v] = phase[v] /\ at'[v] = at[v]
      BY <2>2, GotoIs
    <3>2. Free(s)' = Free(s) /\ Calling(s)' \in SUBSET Calling(s)
      <4>1. \A v \in Workers : Stuck(v, s)' <=> Stuck(v, s)
        BY <2>2, <3>1 DEF Stuck
      <4>2. \A v \in Workers : phase'[v] \in {"slot", "scan", "park"}
                                 => phase[v] \in {"slot", "scan", "park"}
        BY <2>2, <3>1
      <4>3. Free(s)' = Free(s)
        BY <4>1 DEF Free
      <4>4. Calling(s)' = {v \in Free(s) : phase'[v] \in {"slot", "scan", "park"}}
        BY <4>3 DEF Calling
      <4>5. Free(s) \subseteq Workers
        BY DEF Free
      <4> QED
        BY <4>2, <4>3, <4>4, <4>5 DEF Calling
    <3>3. IsFiniteSet(Calling(s))
      BY FreeFacts
    <3>4. Cardinality(Calling(s)') <= Cardinality(Calling(s)) /\ Cardinality(Calling(s)') \in Nat
      BY <3>2, <3>3, SmallerSet
    <3>5. overtaken[s] \in Nat /\ overtaken'[s] = overtaken[s] /\ Cardinality(Calling(s)) \in Nat
      BY <2>2, <3>3, FS_CardinalityType DEF TypeOK
    <3>6. overtaken'[s] + Cardinality(Calling(s)') <= overtaken[s] + Cardinality(Calling(s))
      BY <3>4, <3>5
    <3>7. RoomFor(s)'
      BY <1>2, <2>2, <3>2, <3>6, RoomKept
    <3> QED
      BY <1>2, <2>2, <3>7
  <2>3. CASE /\ phase[w] = "loop" /\ ~ up
             /\ Goto(w, "halted", at[w])
             /\ UNCHANGED <<chan, up, cursor, overtaken, late>>
    BY <2>2, <2>3 DEF Stuck
  <2>4. CASE \E k \in Sources :
               /\ (phase[w] = "slot" /\ k = at[w]) \/ phase[w] \in {"scan", "park"}
               /\ Receive(w, k)
               /\ UNCHANGED <<up, cursor>>
    BY <1>2, <2>4, RoomAfterReceive
  <2>5. CASE /\ phase[w] = "slot" /\ chan[at[w]] = 0
             /\ Goto(w, "scan", 1)
             /\ UNCHANGED <<chan, up, cursor, overtaken, late>>
    <3>1. CASE at[w] = s
      <4>1. overtaken'[s] = 0
        BY <1>2, <2>5, <3>1
      <4>2. (RouterAssumption /\ TypeOK /\ overtaken[s] = 0 => RoomFor(s))'
        BY RoomAtFirst, PTL
      <4> QED
        BY <4>1, <4>2
    <3>2. CASE at[w] # s
      BY <2>2, <2>5, <3>2 DEF Stuck
    <3> QED
      BY <3>1, <3>2
  <2>6. CASE /\ phase[w] = "scan"
             /\ \E p \in {"scan", "park"}, k \in Sources : Goto(w, p, k)
             /\ UNCHANGED <<chan, up, cursor, overtaken, late>>
    BY <2>2, <2>6 DEF Stuck
  <2>7. CASE /\ phase[w] \in {"park", "work"}
             /\ Goto(w, "loop", 1)
             /\ UNCHANGED <<chan, up, cursor, overtaken, late>>
    BY <2>2, <2>7 DEF Stuck
  <2> QED
    BY <1>5, <2>1, <2>3, <2>4, <2>5, <2>6, <2>7, WorkIs
<1>6. ASSUME NEW k \in Sources, Arrive(k) \/ Close(k)
      PROVE  RoomFor(s)' /\ (chan'[s] = 0 => overtaken'[s] = 0)
  BY <1>2, <1>3, <1>4, <1>6 DEF Arrive, Close
<1>7. CASE Cancel \/ UNCHANGED vars
  BY <1>2, <1>3, <1>7 DEF Cancel, vars
<1> QED
  BY <1>5, <1>6, <1>7 DEF Next

\* In the beginning there is room.
LEMMA OvertakingInit ==
  ASSUME RouterAssumption, Init
  PROVE  OvertakingInv
<1>1. TypeOK
  BY InitTypeOK
<1>2. \A s \in Sources : overtaken[s] = 0
  BY DEF Init
<1> QED
  BY <1>1, <1>2, RoomAtFirst DEF OvertakingInv

\* The room bounds what it is room for.
LEMMA RoomBounds ==
  ASSUME RouterAssumption, TypeOK, NEW s \in Sources, RoomFor(s)
  PROVE  overtaken[s] <= MaxOvertaken(s)
<1>1. /\ overtaken[s] \in Nat /\ Cardinality(Calling(s)) \in Nat
      /\ Cardinality(Free(s)) \in Nat /\ Cardinality(Workers) \in Nat
  BY FreeFacts DEF TypeOK
<1>2. Gap(s, Following(cursor)) \in Nat /\ Others(s) \in Nat
  BY GapFacts, RunFacts DEF TypeOK
<1>3. Ahead(s, Following(cursor), Cardinality(Free(s))) \in Nat
  <2>1. Cardinality(Free(s)) # 0 => (Cardinality(Free(s)) - 1) * Others(s) \in Nat
    BY <1>1, <1>2, Rounds
  <2> QED
    BY <1>1, <1>2, <2>1 DEF Ahead
<1>4. MaxOvertaken(s) \in Nat
  <2>1. Cardinality(Workers) * (Others(s) + 1) \in Nat
    BY <1>1, <1>2
  <2> QED
    BY <2>1 DEF MaxOvertaken, Others
<1> QED
  BY <1>1, <1>3, <1>4 DEF RoomFor

\* No source is starved, whatever the weights: between two of its own messages a
\* source that has some is overtaken at most once by each worker that is past
\* the cursor already, and once for each slot of the others that the cursor
\* passes on the way to as many of its slots as there are workers (Next).
THEOREM BoundedOvertakingTheorem == Spec => []BoundedOvertaking
<1>1. Init => OvertakingInv
  BY RouterAssumption, OvertakingInit
<1>2. TypeOK /\ TypeOK' /\ OvertakingInv /\ [Next]_vars => OvertakingInv'
  BY RouterAssumption, OvertakingStep
<1>3. TypeOK /\ OvertakingInv => BoundedOvertaking
  BY RouterAssumption, RoomBounds DEF OvertakingInv, BoundedOvertaking
<1> QED
  BY <1>1, <1>2, <1>3, RouterTypeCorrect, PTL DEF Spec
=============================================================================

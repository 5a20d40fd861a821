--------------------------- MODULE PriorityRouter ---------------------------
(***************************************************************************)
(* The weighted round-robin router in front of the processor's workers.    *)
(* The workers share one cursor and call Next concurrently.  Next makes up *)
(* to three attempts: the source of the slot the cursor points at, every   *)
(* source in priority order, and a wait of at most a second on the first   *)
(* one.  Each receive is a step of its own, so the sources fill up and     *)
(* drain while a worker walks through them.                                *)
(***************************************************************************)
EXTENDS Naturals, FiniteSets, SequencesExt

CONSTANTS
    Weights,   \* the weights of the sources, highest priority first
    Workers,   \* the worker goroutines
    Capacity   \* bound on the messages a channel holds

ASSUME RouterAssumption ==
    /\ Weights \in Seq(Nat \ {0})
    /\ Weights # <<>>
    /\ IsFiniteSet(Workers)
    /\ Capacity \in Nat \ {0}

VARIABLES
    chan,       \* chan[s]: messages waiting in the channel of source s
    closed,     \* the sources whose channel is closed
    up,         \* the context is not cancelled
    cursor,     \* the shared cursor, modulo the number of slots
    phase,      \* phase[w]: where worker w is in its loop or in Next
    at,         \* at[w]: the source worker w tries next
    overtaken,  \* history: receives elsewhere while source s had messages
    late        \* history: messages worker w received after the cancellation

vars == <<chan, closed, up, cursor, phase, at, overtaken, late>>

Sources == DOMAIN Weights

\* NewPriorityRouter repeats each source as often as its weight says.
slots == FlattenSeq([s \in Sources |-> [k \in 1 .. Weights[s] |-> s]])

TotalSlots == Len(slots)

\* Every worker may be past the cursor already when a message arrives; then a
\* round of the other sources' slots goes by before each worker in turn is sent
\* to source s, and the last of them has nobody left to overtake it.
MaxOvertaken(s) == Cardinality(Workers) * (TotalSlots - Weights[s] + 1)

TypeOK ==
    /\ chan \in [Sources -> 0 .. Capacity]
    /\ closed \subseteq Sources
    /\ up \in BOOLEAN
    /\ cursor \in 0 .. TotalSlots - 1
    /\ phase \in [Workers -> {"loop", "slot", "scan", "park", "work", "halted"}]
    /\ at \in [Workers -> Sources]
    /\ overtaken \in [Sources -> Nat]
    /\ late \in [Workers -> Nat]

Init ==
    /\ chan = [s \in Sources |-> 0]
    /\ closed = {}
    /\ up = TRUE
    /\ cursor = 0
    /\ phase = [w \in Workers |-> "loop"]
    /\ at = [w \in Workers |-> 1]
    /\ overtaken = [s \in Sources |-> 0]
    /\ late = [w \in Workers |-> 0]

Goto(w, p, s) ==
    /\ phase' = [phase EXCEPT ![w] = p]
    /\ at' = [at EXCEPT ![w] = s]

-----------------------------------------------------------------------------
\* The fetch loop of source s hands over a message.
Arrive(s) ==
    /\ s \notin closed
    /\ chan[s] < Capacity
    /\ chan' = [chan EXCEPT ![s] = @ + 1]
    /\ UNCHANGED <<closed, up, cursor, phase, at, overtaken, late>>

\* The application is told to stop.
Cancel ==
    /\ up
    /\ up' = FALSE
    /\ UNCHANGED <<chan, closed, cursor, phase, at, overtaken, late>>

\* The fetch loop of s sees it and closes its channel.
Close(s) ==
    /\ ~ up
    /\ s \notin closed
    /\ closed' = closed \union {s}
    /\ UNCHANGED <<chan, up, cursor, phase, at, overtaken, late>>

-----------------------------------------------------------------------------
\* Mutant of CallNext: the context is never asked.
CallNextAlways(w) ==
    /\ phase[w] = "loop"
    /\ cursor' = (cursor + 1) % TotalSlots
    /\ Goto(w, "slot", slots[cursor' + 1])
    /\ UNCHANGED <<chan, closed, up, overtaken, late>>

\* Mutant of CallNext: every call starts with the first slot.
CursorStuck(w) ==
    /\ phase[w] = "loop"
    /\ IF up THEN Goto(w, "slot", slots[cursor + 1])
             ELSE Goto(w, "halted", at[w])
    /\ UNCHANGED <<chan, closed, up, cursor, overtaken, late>>

\* The worker's loop: it ends once the context is cancelled, and otherwise
\* calls Next, which advances the cursor before it reads the slot.
CallNext(w) ==
    /\ phase[w] = "loop"
    /\ IF up
       THEN /\ cursor' = (cursor + 1) % TotalSlots
            /\ Goto(w, "slot", slots[cursor' + 1])
       ELSE /\ Goto(w, "halted", at[w])
            /\ UNCHANGED cursor
    /\ UNCHANGED <<chan, closed, up, overtaken, late>>

\* Worker w receives a message from source s: every other source that has one
\* is overtaken.
Receive(w, s) ==
    /\ chan[s] > 0
    /\ chan' = [chan EXCEPT ![s] = @ - 1]
    /\ overtaken' = [k \in Sources |->
                        IF k # s /\ chan[k] > 0 THEN overtaken[k] + 1 ELSE 0]
    /\ late' = [late EXCEPT ![w] = IF up THEN 0 ELSE @ + 1]
    /\ Goto(w, "work", 1)

\* Step 1 of Next: a receive from the slot's source that does not block.
TrySlot(w) ==
    /\ phase[w] = "slot"
    /\ \/ Receive(w, at[w])
       \/ chan[at[w]] = 0 /\ Goto(w, "scan", 1) /\ UNCHANGED <<chan, overtaken, late>>
    /\ UNCHANGED <<closed, up, cursor>>

\* Step 2 of Next: the sources in priority order, none of them blocking.
Scan(w) ==
    /\ phase[w] = "scan"
    /\ \/ Receive(w, at[w])
       \/ /\ chan[at[w]] = 0
          /\ IF at[w] < Len(Weights) THEN Goto(w, "scan", at[w] + 1)
                                     ELSE Goto(w, "park", 1)
          /\ UNCHANGED <<chan, overtaken, late>>
    /\ UNCHANGED <<closed, up, cursor>>

\* Mutant of Park: there is no idle timeout.
ParkWithoutTimeout(w) ==
    /\ phase[w] = "park"
    /\ \/ Receive(w, 1)
       \/ /\ (chan[1] = 0 /\ 1 \in closed) \/ ~ up
          /\ Goto(w, "loop", 1)
          /\ UNCHANGED <<chan, overtaken, late>>
    /\ UNCHANGED <<closed, up, cursor>>

\* Mutant of Park: a plain receive in place of the select.
ParkReceives(w) ==
    /\ phase[w] = "park"
    /\ \/ Receive(w, 1)
       \/ /\ chan[1] = 0 /\ 1 \in closed
          /\ Goto(w, "loop", 1)
          /\ UNCHANGED <<chan, overtaken, late>>
    /\ UNCHANGED <<closed, up, cursor>>

\* Step 3 of Next: a message from the first source, its end, the cancelled
\* context, or the idle timeout, whichever the select picks.
Park(w) ==
    /\ phase[w] = "park"
    /\ Receive(w, 1) \/ (Goto(w, "loop", 1) /\ UNCHANGED <<chan, overtaken, late>>)
    /\ UNCHANGED <<closed, up, cursor>>

\* processOne is done.
Finish(w) ==
    /\ phase[w] = "work"
    /\ Goto(w, "loop", 1)
    /\ UNCHANGED <<chan, closed, up, cursor, overtaken, late>>

-----------------------------------------------------------------------------
Work(w) == CallNext(w) \/ TrySlot(w) \/ Scan(w) \/ Park(w) \/ Finish(w)

Next ==
    \/ \E s \in Sources : Arrive(s) \/ Close(s)
    \/ Cancel
    \/ \E w \in Workers : Work(w)

Spec == Init /\ [][Next]_vars

\* The goroutines run.
FairSpec == Spec /\ \A w \in Workers : WF_vars(Work(w))

-----------------------------------------------------------------------------
\* No source is starved: while it has messages, the number of messages that
\* any number of concurrent calls of Next hand out from other sources before
\* the next one of its own is bounded, whatever its weight (Next).
BoundedOvertaking == \A s \in Sources : overtaken[s] <= MaxOvertaken(s)

\* After the cancellation a worker is handed at most one more message, the one
\* its running call of Next returns (StartMessageProcessing).
OneLateMessage == \A w \in Workers : late[w] <= 1

\* A channel that is full, so that its fetch loop blocks, is drained, also when
\* it is the last one and all workers are parked on the first (Next).
NotStarved == \A s \in Sources : chan[s] = Capacity ~> chan[s] < Capacity \/ ~ up

\* Cancelling the context ends every worker.
Stops == ~ up ~> \A w \in Workers : phase[w] = "halted"
=============================================================================

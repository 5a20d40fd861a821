---------------------------- MODULE ScheduledDue ----------------------------
(***************************************************************************)
(* The API's consumer of due events.  SubscribeBatch hands over what one   *)
(* Fetch returned; handleBatch looks all notifications of the batch up in  *)
(* one query, then publishes a ready event for each and settles its        *)
(* message.  It indexes the batch by notification, so of two due events    *)
(* for one notification in a batch only the later is ever settled.         *)
(***************************************************************************)
EXTENDS JetStream, FiniteSets, Sequences

CONSTANTS
    Notifs,     \* the notifications
    Rows,       \* those that have a row in the API's database
    Msgs,       \* the due events the scheduler may publish
    NotifOf,    \* NotifOf[m]: the notification due event m names
    Consumers,  \* one fetch loop and one handler in every API process
    BatchSize,  \* the most one Fetch returns
    Waiting,    \* bound on the batches waiting for a handler
    FaultSets   \* the sets of adverse conditions to consider

(***************************************************************************)
(* "db"       the lookup fails                                             *)
(* "publish"  publishing fails; the event may have been stored             *)
(* "slow"     a message waits longer than AckWait in the process           *)
(* "settle"   an ack or nak does not reach the broker                      *)
(* "crash"    an API process dies and is started again                     *)
(***************************************************************************)
FaultClasses == {"db", "publish", "slow", "settle", "crash"}

ASSUME DueAssumption ==
    /\ Rows \subseteq Notifs
    /\ NotifOf \in [Msgs -> Notifs]
    /\ BatchSize \in Nat \ {0}
    /\ Waiting \in Nat \ {0}

VARIABLES
    faults,   \* the adverse conditions this behaviour may meet
    queue,      \* queue[m]: due event m as JetStream sees it
    batches,    \* batches[c]: the batches waiting for the handler of c
    phase,      \* phase[c]: the call the handler of c makes next
    batch,      \* batch[c]: the messages it has not settled and will settle
    found,      \* found[c]: the notifications its query returned
    verdict,    \* verdict[c]: the message in hand and how it is settled
    readied     \* history: ready events stored on behalf of m; 2 is two or more

vars == <<faults, queue, batches, phase, batch, found, verdict, readied>>

Verdicts == {<<>>} \union (Msgs \X {"ack", "nak"})

Batches == (SUBSET Msgs) \ {{}}

TypeOK ==
    /\ faults \in FaultSets
    /\ queue \in [Msgs -> [st : QueueStatus, count : Nat]]
    /\ batches \in [Consumers -> Seq(Batches)]
    /\ \A c \in Consumers : Len(batches[c]) <= Waiting
    /\ phase \in [Consumers -> {"idle", "lookup", "each", "settle"}]
    /\ batch \in [Consumers -> SUBSET Msgs]
    /\ \A c \in Consumers : \A l, m \in batch[c] : NotifOf[l] = NotifOf[m] => l = m
    /\ found \in [Consumers -> SUBSET Notifs]
    /\ verdict \in [Consumers -> Verdicts]
    /\ \A c \in Consumers : phase[c] = "settle" <=> verdict[c] # <<>>
    /\ readied \in [Msgs -> 0 .. 2]

Init ==
    /\ faults \in FaultSets
    /\ queue = [m \in Msgs |-> Unpublished]
    /\ batches = [c \in Consumers |-> <<>>]
    /\ phase = [c \in Consumers |-> "idle"]
    /\ batch = [c \in Consumers |-> {}]
    /\ found = [c \in Consumers |-> {}]
    /\ verdict = [c \in Consumers |-> <<>>]
    /\ readied = [m \in Msgs |-> 0]

-----------------------------------------------------------------------------
\* The scheduler publishes due event m.
Store(m) ==
    /\ queue[m].st = "none"
    /\ queue' = [queue EXCEPT ![m] = Stored(@)]
    /\ UNCHANGED <<faults, batches, phase, batch, found, verdict, readied>>

\* One turn of the fetch loop.
FetchBatch(c) ==
    /\ Len(batches[c]) < Waiting
    /\ \E S \in SUBSET {m \in Msgs : Deliverable(queue[m], 0)} :
          /\ Cardinality(S) \in 1 .. BatchSize
          /\ queue' = [m \in Msgs |-> IF m \in S THEN Delivered(queue[m], 0) ELSE queue[m]]
          /\ batches' = [batches EXCEPT ![c] = Append(@, S)]
    /\ UNCHANGED <<faults, phase, batch, found, verdict, readied>>

\* Some handler will still settle message m.
Live(m) ==
    \E c \in Consumers :
        \/ \E k \in 1 .. Len(batches[c]) : m \in batches[c][k]
        \/ m \in batch[c]
        \/ phase[c] = "settle" /\ verdict[c][1] = m

AckWaitExpires(m) ==
    /\ queue[m].st = "inflight"
    /\ "slow" \in faults \/ ~ Live(m)
    /\ queue' = [queue EXCEPT ![m] = TimedOut(@)]
    /\ UNCHANGED <<faults, batches, phase, batch, found, verdict, readied>>

-----------------------------------------------------------------------------
\* One message for each notification named in S.
Indexed(S) ==
    {R \in SUBSET S : \A m \in S : \E l \in R :
        /\ NotifOf[l] = NotifOf[m]
        /\ \A k \in R : NotifOf[k] = NotifOf[m] => k = l}

\* ForEachBatch hands the next batch to handleBatch, which fills resultByID.
Take(c) ==
    /\ phase[c] = "idle"
    /\ batches[c] # <<>>
    /\ \E R \in Indexed(Head(batches[c])) : batch' = [batch EXCEPT ![c] = R]
    /\ batches' = [batches EXCEPT ![c] = Tail(@)]
    /\ phase' = [phase EXCEPT ![c] = "lookup"]
    /\ UNCHANGED <<faults, queue, found, verdict, readied>>

\* GetByIDs.  A query that fails leaves nothing found, so every message will
\* be put back; the status column is read and not looked at.
Lookup(c) ==
    /\ phase[c] = "lookup"
    /\ found' \in {[found EXCEPT ![c] = {NotifOf[m] : m \in batch[c]} \intersect Rows]}
                  \union (IF "db" \in faults THEN {[found EXCEPT ![c] = {}]} ELSE {})
    /\ phase' = [phase EXCEPT ![c] = "each"]
    /\ UNCHANGED <<faults, queue, batches, batch, verdict, readied>>

\* A ready event is stored on behalf of m.
Readied(m) == readied' = [readied EXCEPT ![m] = IF @ < 2 THEN @ + 1 ELSE @]

\* Consumer c will settle m with v.
Decide(c, m, v) ==
    /\ verdict' = [verdict EXCEPT ![c] = <<m, v>>]
    /\ batch' = [batch EXCEPT ![c] = @ \ {m}]
    /\ phase' = [phase EXCEPT ![c] = "settle"]

\* Mutant of Each: an event that cannot be published is only logged.
EachBestEffort(c, m) ==
    /\ phase[c] = "each"
    /\ m \in batch[c]
    /\ \/ NotifOf[m] \notin found[c] /\ Decide(c, m, "nak") /\ UNCHANGED readied
       \/ NotifOf[m] \in found[c] /\ Decide(c, m, "ack") /\ Readied(m)
       \/ /\ "publish" \in faults
          /\ NotifOf[m] \in found[c] /\ Decide(c, m, "ack") /\ UNCHANGED readied
    /\ UNCHANGED <<faults, queue, batches, found>>

\* One turn of the loop over resultByID, in the order of a Go map.
Each(c, m) ==
    /\ phase[c] = "each"
    /\ m \in batch[c]
    /\ \/ NotifOf[m] \notin found[c] /\ Decide(c, m, "nak") /\ UNCHANGED readied
       \/ NotifOf[m] \in found[c] /\ Decide(c, m, "ack") /\ Readied(m)
       \/ /\ "publish" \in faults
          /\ NotifOf[m] \in found[c] /\ Decide(c, m, "nak")
          /\ Readied(m) \/ UNCHANGED readied
    /\ UNCHANGED <<faults, queue, batches, found>>

\* Mutant of Settle: the ack is left out.
SettleOnlyNaks(c) ==
    /\ phase[c] = "settle"
    /\ queue' = [queue EXCEPT ![verdict[c][1]] = Naked(@)]
    /\ verdict' = [verdict EXCEPT ![c] = <<>>]
    /\ phase' = [phase EXCEPT ![c] = IF batch[c] = {} THEN "idle" ELSE "each"]
    /\ found' = [found EXCEPT ![c] = IF batch[c] = {} THEN {} ELSE @]
    /\ UNCHANGED <<faults, batches, batch, readied>>

\* The Ack or Nak that ends the turn; its error is ignored.
Settle(c) ==
    LET m == verdict[c][1] IN
    /\ phase[c] = "settle"
    /\ \/ queue' = [queue EXCEPT ![m] = IF verdict[c][2] = "ack" THEN Acked(@) ELSE Naked(@)]
       \/ "settle" \in faults /\ UNCHANGED queue
    /\ verdict' = [verdict EXCEPT ![c] = <<>>]
    /\ phase' = [phase EXCEPT ![c] = IF batch[c] = {} THEN "idle" ELSE "each"]
    /\ found' = [found EXCEPT ![c] = IF batch[c] = {} THEN {} ELSE @]
    /\ UNCHANGED <<faults, batches, batch, readied>>

\* The process of consumer c dies and is started again.
Crash(c) ==
    /\ "crash" \in faults
    /\ batches' = [batches EXCEPT ![c] = <<>>]
    /\ phase' = [phase EXCEPT ![c] = "idle"]
    /\ batch' = [batch EXCEPT ![c] = {}]
    /\ found' = [found EXCEPT ![c] = {}]
    /\ verdict' = [verdict EXCEPT ![c] = <<>>]
    /\ UNCHANGED <<faults, queue, readied>>

-----------------------------------------------------------------------------
Handle(c) == Take(c) \/ Lookup(c) \/ (\E m \in Msgs : Each(c, m)) \/ Settle(c)

Next ==
    \/ \E m \in Msgs : Store(m) \/ AckWaitExpires(m)
    \/ \E c \in Consumers : FetchBatch(c) \/ Handle(c) \/ Crash(c)

Spec == Init /\ [][Next]_vars

\* The broker delivers every message that stays deliverable, the goroutines
\* run, and what is tried for ever succeeds at last.
Fairness ==
    /\ \A m \in Msgs :
          /\ SF_vars(\E c \in Consumers : FetchBatch(c) /\ queue'[m].st = "inflight"
                                          /\ queue[m].st = "ready")
          /\ WF_vars(AckWaitExpires(m))
          /\ SF_vars(\E c \in Consumers : Each(c, m) /\ verdict'[c][2] = "ack")
          /\ SF_vars(\E c \in Consumers :
                        Settle(c) /\ queue[m].st # "gone" /\ queue'[m].st = "gone")
    /\ \A c \in Consumers :
          WF_vars(Handle(c)) /\ SF_vars(Lookup(c) /\ found'[c] # {})

FairSpec == Spec /\ Fairness

-----------------------------------------------------------------------------
\* A due event leaves the queue only after a ready event was stored on its
\* behalf, although the batch is looked up at once and settled one by one
\* (handleBatch).
DueNotLost == \A m \in Msgs : queue[m].st = "gone" => readied[m] > 0

\* Every due event of a stored notification is answered with a ready event,
\* also the one whose place in resultByID another took: AckWait brings it back.
EventuallyReadied ==
    \A m \in Msgs :
        "crash" \notin faults /\ queue[m].st = "ready" /\ NotifOf[m] \in Rows
            ~> queue[m].st = "gone"
=============================================================================

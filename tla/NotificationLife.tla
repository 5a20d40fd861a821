-------------------------- MODULE NotificationLife --------------------------
(***************************************************************************)
(* What the three services together promise about a notification, without  *)
(* saying how: it is created, from its time on the provider may be called, *)
(* and its row tells the truth about the calls.  Nothing is said about how *)
(* often the provider is called, nor about the order of a cancellation and *)
(* a verdict: the code leaves both open.                                   *)
(***************************************************************************)
EXTENDS Naturals

CONSTANTS
    Notifs,   \* the notifications
    NotBefore \* NotBefore[n]: the time before which n must not be sent

VARIABLES
    clock,    \* the time
    status,   \* status[n]: what a client that asks is told
    verdict,  \* verdict[n]: the outcome recorded for n, "none" before
    tried,    \* the notifications the provider was called for
    sent      \* the notifications the provider accepted

vars == <<clock, status, verdict, tried, sent>>

Init ==
    /\ clock = 0
    /\ status = [n \in Notifs |-> "absent"]
    /\ verdict = [n \in Notifs |-> "none"]
    /\ tried = {}
    /\ sent = {}

Tick ==
    /\ clock' = clock + 1
    /\ UNCHANGED <<status, verdict, tried, sent>>

\* Some notifications that do not exist yet are created.
Create ==
    /\ \E S \in SUBSET {n \in Notifs : status[n] = "absent"} :
          status' = [n \in Notifs |-> IF n \in S THEN "pending" ELSE status[n]]
    /\ UNCHANGED <<clock, verdict, tried, sent>>

\* The provider is called for n, not too early, and may accept.
Try(n) ==
    /\ status[n] # "absent"
    /\ NotBefore[n] <= clock
    /\ tried' = tried \union {n}
    /\ sent' \in {sent, sent \union {n}}
    /\ UNCHANGED <<clock, status, verdict>>

\* The outcome of n is recorded: one that the provider's answers support, and
\* never the opposite of an earlier one.
Record(n, v) ==
    /\ status[n] \in {"pending", "cancelled", v}
    /\ verdict[n] \in {"none", v}
    /\ n \in IF v = "delivered" THEN sent ELSE tried
    /\ status' = [status EXCEPT ![n] = v]
    /\ verdict' = [verdict EXCEPT ![n] = v]
    /\ UNCHANGED <<clock, tried, sent>>

Cancel(n) ==
    /\ status[n] # "absent"
    /\ status' = [status EXCEPT ![n] = "cancelled"]
    /\ UNCHANGED <<clock, verdict, tried, sent>>

Next ==
    \/ Tick
    \/ Create
    \/ \E n \in Notifs :
          Try(n) \/ Cancel(n) \/ \E v \in {"delivered", "failed"} : Record(n, v)

Spec == Init /\ [][Next]_vars
=============================================================================

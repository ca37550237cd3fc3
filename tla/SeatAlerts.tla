---------------------------- MODULE SeatAlerts ----------------------------
(***************************************************************************)
(* The whole pipeline: polls (Polling) and deliveries (Delivery) over one  *)
(* notifications table.  A poll's commit creates the rows, its fan-out     *)
(* puts the first send_notification messages into the broker, and its loss *)
(* between the two leaves rows that only the sweep can still deliver.      *)
(*                                                                         *)
(* Delivery leaves open when rows appear; here they do as polls commit     *)
(* them.  That a poll does to the table what Delivery supposes, and never  *)
(* more, is checked: the pipeline implements Delivery.                     *)
(***************************************************************************)
EXTENDS Polling

CONSTANTS
    Senders,        \* Celery worker slots running send_notification
    SendRetries,    \* max_retries of send_notification
    MaxAttempts,    \* max_attempts of the sweep
    MaxSendFaults   \* bound: faults that strike alerts

VARIABLES
    row, fan, sendq, spc, sjob, txn, stale, sfaults,
    delivered, unrecorded, failures       \* all as in Delivery

delivery == <<row, fan, sendq, spc, sjob, txn, stale, sfaults,
              delivered, unrecorded, failures>>

D == INSTANCE Delivery WITH
    Notifs <- Alerts, Workers <- Senders, NoMsg <- NoJob,
    MaxRetries <- SendRetries, MaxFaults <- MaxSendFaults,
    pc <- spc, job <- sjob, faults <- sfaults

ASSUME SeatAlertsAssumption ==
    /\ SendRetries \in Nat
    /\ MaxAttempts \in Nat \ {0}
    /\ MaxSendFaults \in Nat
    /\ NoJob \notin D!Messages

-----------------------------------------------------------------------------
SystemInit == Init /\ D!Init

(* queue_notifications' INSERTs, which the commit of the poll publishes to *)
(* the other sessions.                                                     *)
\* Variants (each definition named ...X is the one after it with a seeded bug,
\* kept to show which property notices): rows start as being sent already.
CommitAlertsX(w) ==
    /\ Commit(w)
    /\ row' = [a \in Alerts |-> IF a \in ids[w] THEN [status |-> "sending", attempts |-> 0]
                                               ELSE row[a]]
    /\ fan' = fan \cup ids[w]
    /\ UNCHANGED <<sendq, spc, sjob, txn, stale, sfaults,
                   delivered, unrecorded, failures>>

CommitAlerts(w) ==
    /\ Commit(w)
    /\ row' = [a \in Alerts |-> IF a \in ids[w] THEN [status |-> "pending", attempts |-> 0]
                                               ELSE row[a]]
    /\ fan' = fan \cup ids[w]
    /\ UNCHANGED <<sendq, spc, sjob, txn, stale, sfaults,
                   delivered, unrecorded, failures>>

(* send_notification.delay for one of them.                                *)
FanOutAlert(w, a) ==
    /\ FanOut(w, a)
    /\ fan' = fan \ {a}
    /\ sendq' = D!Publish(sendq, <<a, 0>>)
    /\ UNCHANGED <<row, spc, sjob, txn, stale, sfaults,
                   delivered, unrecorded, failures>>

(* The poll's worker is lost, or out of time; after the commit, with it    *)
(* the messages not sent yet.                                              *)
LosePoll(w) ==
    /\ WorkerLost(w) \/ TimeLimit(w)
    /\ IF pc[w] = "fanout" /\ ids[w] # {}
       THEN /\ sfaults < MaxSendFaults
            /\ sfaults' = sfaults + 1
            /\ fan' = fan \ ids[w]
       ELSE UNCHANGED <<sfaults, fan>>
    /\ UNCHANGED <<row, sendq, spc, sjob, txn, stale, delivered, unrecorded, failures>>

(* What a poll does that no delivery can see.                              *)
PollAlone(w) ==
    /\ \/ \E m \in Messages : Take(w, m)
       \/ RateLimited(w)
       \/ Unavailable(w)
       \/ Raise(w)
       \/ Rollback(w)
       \/ NotOnPage(w)
       \/ Observe(w)
       \/ Flush(w)
       \/ Queue(w)
       \/ Done(w)
    /\ UNCHANGED delivery

PollStep ==
    \/ (World \/ Dispatch) /\ UNCHANGED delivery
    \/ \E w \in Workers :
          \/ PollAlone(w)
          \/ CommitAlerts(w)
          \/ \E a \in Alerts : FanOutAlert(w, a)
          \/ LosePoll(w)

DeliverStep ==
    /\ UNCHANGED vars
    /\ D!Sweep \/ \E v \in Senders : D!SendNotification(v)

SystemNext == PollStep \/ DeliverStep

SystemSpec == SystemInit /\ [][SystemNext]_<<vars, delivery>>

-----------------------------------------------------------------------------
(* The pipeline implements Delivery: overlapping, repeated and lost polls  *)
(* only ever add fresh pending rows and send messages for rows that are    *)
(* committed (poll.py:116-125 against what send_notification relies on).   *)
ImplementsDelivery == D!Spec

(* README.md:52, end to end: a student is reached at most once per opening *)
(* of the schedule and watch, and once more for each change of status that *)
(* an overtaken poll recorded (Polling), not counting acceptances whose    *)
(* record a fault destroyed.                                               *)
Reached(x) == {a \in Alerts : a[1] = x /\ delivered[a] > unrecorded[a]}

OneAlertPerOpening ==
    \A x \in Watches :
        /\ Cardinality(Reached(x)) <= opened[x[1]] + clashes[x[1]]
        /\ \A a \in Reached(x) : delivered[a] = unrecorded[a] + 1

=============================================================================

------------------------------ MODULE Delivery ------------------------------
(***************************************************************************)
(* Delivering queued alerts: the send_notification task, the claim and     *)
(* mark operations it calls, the retry_pending_notifications sweep, and    *)
(* the Celery message that carries a notification id.                      *)
(*                                                                         *)
(* Every task body runs inside one session_scope.  row is what other       *)
(* sessions see (committed, READ COMMITTED); txn[w] is what the open       *)
(* transaction of worker w has flushed to its row and will either commit   *)
(* or roll back as a whole.  A worker that has updated a row holds the     *)
(* row's lock until its transaction ends.                                  *)
(***************************************************************************)
EXTENDS Naturals

CONSTANTS
    Notifs,       \* ids a row of the notifications table may have
    Workers,      \* Celery worker slots running send_notification
    NoMsg,        \* what an idle worker holds
    MaxRetries,   \* max_retries of the task (5 in the code)
    MaxAttempts,  \* max_attempts of the sweep (5 in the code)
    MaxQueued,    \* bound: equal messages the broker model tells apart
    MaxFaults     \* bound: worker losses, time limits, ambiguous answers

Messages == Notifs \X (0..MaxRetries)   \* <<notification id, retries so far>>

ASSUME DeliveryAssumption ==
    /\ MaxRetries \in Nat
    /\ MaxAttempts \in Nat \ {0}
    /\ MaxQueued \in Nat \ {0}
    /\ MaxFaults \in Nat
    /\ NoMsg \notin Messages

VARIABLES
    row,         \* the committed notifications table
    fan,         \* rows committed by a poll whose message is still to be sent
    sendq,       \* the broker: how many copies of each message are waiting
    pc, job,     \* per worker: its place in the task, the message it holds
    txn,         \* per worker: the row as its open transaction has it
    stale,       \* rows the running sweep has still to re-queue
    faults,      \* how many faults have happened
    delivered,   \* history: times the channel accepted the alert
    unrecorded,  \* history: acceptances that no commit recorded
    failures     \* history: transient failures, counted up to MaxAttempts

workerVars  == <<pc, job, txn>>
historyVars == <<delivered, unrecorded, failures>>
vars == <<row, fan, sendq, workerVars, stale, faults, historyVars>>

-----------------------------------------------------------------------------
NotificationStatus == {"pending", "sending", "sent", "failed"}
Row    == [status : NotificationStatus \cup {"absent"}, attempts : Nat]
Absent == [status |-> "absent", attempts |-> 0]

InTxn  == {"send", "commit", "retry", "rollback"}
Labels == {"idle", "claim", "ack"} \cup InTxn

Note(w)     == job[w][1]
Holds(w, n) == pc[w] \in InTxn /\ Note(w) = n    \* w has the row lock of n

TypeOK ==
    /\ row \in [Notifs -> Row]
    /\ fan \subseteq Notifs
    /\ sendq \in [Messages -> 0..MaxQueued]
    /\ pc \in [Workers -> Labels]
    /\ job \in [Workers -> Messages \cup {NoMsg}]
    /\ \A w \in Workers : pc[w] # "idle" => job[w] \in Messages
    /\ txn \in [Workers -> Row]
    /\ stale \subseteq Notifs
    /\ faults \in 0..MaxFaults
    /\ delivered \in [Notifs -> Nat]
    /\ unrecorded \in [Notifs -> Nat]
    /\ failures \in [Notifs -> 0..MaxAttempts]

Init ==
    /\ row = [n \in Notifs |-> Absent]
    /\ fan = {}
    /\ sendq = [m \in Messages |-> 0]
    /\ pc = [w \in Workers |-> "idle"]
    /\ job = [w \in Workers |-> NoMsg]
    /\ txn = [w \in Workers |-> Absent]
    /\ stale = {}
    /\ faults = 0
    /\ delivered = [n \in Notifs |-> 0]
    /\ unrecorded = [n \in Notifs |-> 0]
    /\ failures = [n \in Notifs |-> 0]

-----------------------------------------------------------------------------
(* The broker.  A copy beyond MaxQueued is absorbed by its equals.         *)
Publish(q, m) == IF q[m] < MaxQueued THEN [q EXCEPT ![m] = @ + 1] ELSE q

Bump(count, n) == [count EXCEPT ![n] = @ + 1]

(* The two ways a session_scope ends, and the end of a task's message.     *)
Goto(w, label) == pc' = [pc EXCEPT ![w] = label]
Discard(w)     == txn' = [txn EXCEPT ![w] = Absent]
Release(w)     == Goto(w, "idle") /\ job' = [job EXCEPT ![w] = NoMsg] /\ Discard(w)

(* What mark_sent and mark_failed make of the row that is being sent.      *)
\* Variants (each definition named ...X is the one after it with a seeded bug,
\* kept to show which property notices): attempts is not counted; or counted down.
MarkedUncountedX(r, status) == [status |-> status, attempts |-> r.attempts]
MarkedNegativeX(r, status)  == [status |-> status, attempts |-> r.attempts - 1]

Marked(r, status) == [status |-> status, attempts |-> r.attempts + 1]

-----------------------------------------------------------------------------
(* What poll_section does to this component: its commit creates pending    *)
(* rows, then, outside the transaction, it sends their first messages one  *)
(* by one, unless the worker is lost in between.                           *)
QueueNotifications(S) ==
    /\ S # {} /\ \A n \in S : row[n] = Absent
    /\ row' = [n \in Notifs |-> IF n \in S THEN [status |-> "pending", attempts |-> 0]
                                          ELSE row[n]]
    /\ fan' = fan \cup S
    /\ UNCHANGED <<sendq, workerVars, stale, faults, historyVars>>

FanOut(n) ==
    /\ n \in fan
    /\ fan' = fan \ {n}
    /\ sendq' = Publish(sendq, <<n, 0>>)
    /\ UNCHANGED <<row, workerVars, stale, faults, historyVars>>

LoseFanOut(S) ==
    /\ S # {} /\ S \subseteq fan
    /\ faults < MaxFaults
    /\ faults' = faults + 1
    /\ fan' = fan \ S
    /\ UNCHANGED <<row, sendq, workerVars, stale, historyVars>>

-----------------------------------------------------------------------------
(* send_notification                                                       *)

Take(w, m) ==
    /\ pc[w] = "idle"
    /\ sendq[m] > 0
    /\ sendq' = [sendq EXCEPT ![m] = @ - 1]
    /\ job' = [job EXCEPT ![w] = m]
    /\ Goto(w, "claim")
    /\ UNCHANGED <<row, fan, txn, stale, faults, historyVars>>

(* UPDATE ... WHERE status = 'pending': waits for the row's lock, then     *)
(* matches the row as last committed, or nothing.                          *)
ClaimableAnyX(n) == row[n] # Absent       \* the WHERE lacks the status

Claimable(n) == row[n].status = "pending"

\* The claim is a read followed by a write; or is committed on its own.
ClaimUnlockedX(w) ==
    /\ pc[w] = "claim"
    /\ txn' = [txn EXCEPT ![w] = [row[Note(w)] EXCEPT !.status = "sending"]]
    /\ Goto(w, IF Claimable(Note(w)) THEN "send" ELSE "ack")
    /\ UNCHANGED <<row, fan, sendq, job, stale, faults, historyVars>>

ClaimCommittedX(w) ==
    /\ pc[w] = "claim"
    /\ Claimable(Note(w))
    /\ row' = [row EXCEPT ![Note(w)].status = "sending"]
    /\ txn' = [txn EXCEPT ![w] = row'[Note(w)]]
    /\ Goto(w, "send")
    /\ UNCHANGED <<fan, sendq, job, stale, faults, historyVars>>

Claim(w) ==
    /\ pc[w] = "claim"
    /\ \A v \in Workers : ~Holds(v, Note(w))
    /\ \/ /\ Claimable(Note(w))
          /\ txn' = [txn EXCEPT ![w] = [row[Note(w)] EXCEPT !.status = "sending"]]
          /\ Goto(w, "send")
       \/ /\ ~Claimable(Note(w))
          /\ Goto(w, "ack")
          /\ UNCHANGED txn
    /\ UNCHANGED <<row, fan, sendq, job, stale, faults, historyVars>>

(* The channel takes the alert and says so; mark_sent is flushed.          *)
SendAccepted(w) ==
    /\ pc[w] = "send"
    /\ delivered' = Bump(delivered, Note(w))
    /\ txn' = [txn EXCEPT ![w] = Marked(@, "sent")]
    /\ Goto(w, "commit")
    /\ UNCHANGED <<row, fan, sendq, job, stale, faults, unrecorded, failures>>

(* PermanentDeliveryError: mark_failed(retryable=False), a clean exit.     *)
SendRefused(w) ==
    /\ pc[w] = "send"
    /\ txn' = [txn EXCEPT ![w] = Marked(@, "failed")]
    /\ Goto(w, "commit")
    /\ UNCHANGED <<row, fan, sendq, job, stale, faults, historyVars>>

(* TransientDeliveryError: mark_failed(retryable=True) is flushed, then    *)
(* self.retry raises.  The error may hide an acceptance: a read timeout    *)
(* after Telegram took the POST, an SMTP quit failing after send_message.  *)
SendFailed(w, accepted) ==
    /\ pc[w] = "send"
    /\ IF accepted
       THEN /\ faults < MaxFaults
            /\ faults' = faults + 1
            /\ delivered' = Bump(delivered, Note(w))
            /\ unrecorded' = Bump(unrecorded, Note(w))
       ELSE UNCHANGED <<faults, delivered, unrecorded>>
    /\ failures' = [failures EXCEPT ![Note(w)] = IF @ < MaxAttempts THEN @ + 1 ELSE @]
    /\ txn' = [txn EXCEPT ![w] = Marked(@, "pending")]
    /\ Goto(w, "retry")
    /\ UNCHANGED <<row, fan, sendq, job, stale>>

(* self.retry publishes the follow-up message before it raises; past       *)
(* max_retries it raises the delivery error and publishes nothing.         *)
Retry(w) ==
    /\ pc[w] = "retry"
    /\ sendq' = IF job[w][2] < MaxRetries
                THEN Publish(sendq, <<Note(w), job[w][2] + 1>>)
                ELSE sendq
    /\ Goto(w, "rollback")
    /\ UNCHANGED <<row, fan, job, txn, stale, faults, historyVars>>

(* session_scope.__exit__ with an exception, and without one.              *)
Rollback(w) ==
    /\ pc[w] = "rollback"
    /\ Discard(w)
    /\ Goto(w, "ack")
    /\ UNCHANGED <<row, fan, sendq, job, stale, faults, historyVars>>

Commit(w) ==
    /\ pc[w] = "commit"
    /\ row' = [row EXCEPT ![Note(w)] = txn[w]]
    /\ Discard(w)
    /\ Goto(w, "ack")
    /\ UNCHANGED <<fan, sendq, job, stale, faults, historyVars>>

(* task_acks_late: the message goes only once the task is over.            *)
Ack(w) ==
    /\ pc[w] = "ack"
    /\ Release(w)
    /\ UNCHANGED <<row, fan, sendq, stale, faults, historyVars>>

(* The worker process dies: the database rolls back, the broker gets the   *)
(* unacknowledged message back (task_reject_on_worker_lost).               *)
AcceptedOnly(w) == pc[w] = "commit" /\ txn[w].status = "sent"

Abort(w) ==
    /\ faults < MaxFaults
    /\ faults' = faults + 1
    /\ unrecorded' = IF AcceptedOnly(w) THEN Bump(unrecorded, Note(w)) ELSE unrecorded
    /\ Release(w)
    /\ UNCHANGED <<row, fan, stale, delivered, failures>>

WorkerLost(w) ==
    /\ pc[w] # "idle"
    /\ Abort(w)
    /\ sendq' = Publish(sendq, job[w])

(* task_soft_time_limit and task_time_limit: the transaction is rolled     *)
(* back but the message counts as handled.                                 *)
TimeLimit(w) ==
    /\ pc[w] \in {"claim"} \cup InTxn
    /\ Abort(w)
    /\ UNCHANGED sendq

-----------------------------------------------------------------------------
(* retry_pending_notifications, one run at a time                          *)

\* The sweep also revives failed rows; or looks at stuck "sending" rows only.
SweepableFailedX(n) == row[n].status \in {"pending", "sending", "failed"}
SweepableStuckX(n)  == row[n].status = "sending" /\ row[n].attempts < MaxAttempts

Sweepable(n) == row[n].status \in {"pending", "sending"} /\ row[n].attempts < MaxAttempts

SweepSelect ==
    /\ stale = {}
    /\ \E n \in Notifs : Sweepable(n)
    /\ stale' = {n \in Notifs : Sweepable(n)}
    /\ row' = [n \in Notifs |-> IF Sweepable(n) THEN [row[n] EXCEPT !.status = "pending"]
                                                ELSE row[n]]
    /\ UNCHANGED <<fan, sendq, workerVars, faults, historyVars>>

SweepPublish(n) ==
    /\ n \in stale
    /\ stale' = stale \ {n}
    /\ sendq' = Publish(sendq, <<n, 0>>)
    /\ UNCHANGED <<row, fan, workerVars, faults, historyVars>>

SweepLost ==
    /\ stale # {}
    /\ faults < MaxFaults
    /\ faults' = faults + 1
    /\ stale' = {}
    /\ UNCHANGED <<row, fan, sendq, workerVars, historyVars>>

-----------------------------------------------------------------------------
SendNotification(w) ==
    \/ \E m \in Messages : Take(w, m)
    \/ Claim(w)
    \/ SendAccepted(w)
    \/ SendRefused(w)
    \/ \E accepted \in BOOLEAN : SendFailed(w, accepted)
    \/ Retry(w)
    \/ Rollback(w)
    \/ Commit(w)
    \/ Ack(w)
    \/ WorkerLost(w)
    \/ TimeLimit(w)

Sweep == SweepSelect \/ SweepLost \/ \E n \in Notifs : SweepPublish(n)

Poll ==
    \/ \E S \in SUBSET Notifs : QueueNotifications(S) \/ LoseFanOut(S)
    \/ \E n \in Notifs : FanOut(n)

Next == Poll \/ Sweep \/ \E w \in Workers : SendNotification(w)

Spec == Init /\ [][Next]_vars

-----------------------------------------------------------------------------
(* Safety                                                                  *)

(* The "sending" a claim writes never outlives the transaction that wrote  *)
(* it: no other session, the sweep included, can ever read it, although    *)
(* claim and outcome are two statements with an external call in between   *)
(* (poll.py:150-187 keeps them in one session_scope).                      *)
(* The documentation says the opposite of just this: that a worker killed  *)
(* between claiming and sending leaves the row in "sending" (poll.py:198,  *)
(* tests/test_tasks.py:220).  It leaves it pending, and the sweep's branch *)
(* for "sending" (poll.py:206, 211-214) has nothing to find.               *)
SendingNeverCommitted == \A n \in Notifs : row[n].status # "sending"

(* Two workers handed messages for the same row are never both between     *)
(* their claim and the end of their transaction (polling.py:154-162).      *)
ClaimIsExclusive ==
    \A v, w \in Workers :
        pc[v] \in InTxn /\ pc[w] \in InTxn /\ Note(v) = Note(w) => v = w

(* attempts counts recorded outcomes, never tries: the attempts + 1 of a   *)
(* transient failure is rolled back with everything else when self.retry   *)
(* raises through the session_scope, so a row that may still be claimed    *)
(* reads 0 however often it was tried.                                     *)
AttemptsCountOutcomes ==
    \A n \in Notifs :
        row[n].attempts = IF row[n].status \in {"sent", "failed"} THEN 1 ELSE 0

(* Every acceptance by the channel is the one a "sent" row records, the    *)
(* one a worker is about to record, or one whose record a fault destroyed. *)
(* Retries, duplicated messages and sweeps alone never add a second one.   *)
Recorded(n)  == IF row[n].status = "sent" THEN 1 ELSE 0
Recording(n) == IF \E w \in Workers : Holds(w, n) /\ AcceptedOnly(w) THEN 1 ELSE 0

DeliveryAccounted ==
    \A n \in Notifs : delivered[n] = unrecorded[n] + Recorded(n) + Recording(n)

(* Once a row says sent or failed, nothing changes it and nobody contacts  *)
(* the channel about it again, whatever messages are still queued.         *)
OutcomeIsFinal ==
    [][\A n \in Notifs :
          row[n].status \in {"sent", "failed"}
              => row'[n] = row[n] /\ delivered'[n] = delivered[n]]_vars

(* poll.py:201-202 says max_attempts stops a permanently broken            *)
(* destination from being swept in a loop.  A row that failed MaxAttempts  *)
(* times, every time with a transient error, is swept again.               *)
SweepGivesUp ==
    [][\A n \in Notifs : n \in stale' \ stale => failures[n] < MaxAttempts]_vars

-----------------------------------------------------------------------------
(* Liveness.  Workers keep working, beat keeps scheduling the sweep, the   *)
(* broker's list is FIFO and so is the row lock's queue (hence strong      *)
(* fairness of Take and Claim), and a channel that is asked for ever does  *)
(* not answer with a transient error for ever.                             *)
Answer(w) == SendAccepted(w) \/ SendRefused(w)

Fairness ==
    /\ WF_vars(SweepSelect)
    /\ \A n \in Notifs : WF_vars(SweepPublish(n))
    /\ \A n \in Notifs, r \in 0..MaxRetries :
           SF_vars(\E w \in Workers : Take(w, <<n, r>>))
    /\ \A w \in Workers :
           /\ SF_vars(Claim(w))
           /\ SF_vars(Answer(w))
           /\ WF_vars(SendFailed(w, FALSE) \/ Answer(w))
           /\ WF_vars(Retry(w)) /\ WF_vars(Rollback(w))
           /\ WF_vars(Commit(w)) /\ WF_vars(Ack(w))

FairSpec == Spec /\ Fairness

(* An alert that was queued is sent or refused for good in the end, also   *)
(* when the worker died before its first message was published, when that  *)
(* message was dropped by a time limit, or when its retries ran out.       *)
AlertResolved ==
    \A n \in Notifs :
        row[n].status = "pending" ~> row[n].status \in {"sent", "failed"}

-----------------------------------------------------------------------------
(* Refinement.  For the ledger an acceptance happens at the commit that    *)
(* records it, or when its record is lost, whichever comes.                *)
Verdict(n) ==
    CASE row[n] = Absent -> "none"
      [] row[n].status \in {"sent", "failed"} -> row[n].status
      [] OTHER -> "pending"

Ledger == INSTANCE AlertLedger WITH
    Alerts  <- Notifs,
    verdict <- [n \in Notifs |-> Verdict(n)],
    reached <- [n \in Notifs |-> delivered[n] - Recording(n)],
    lost    <- unrecorded

(* Claims, redeliveries, retries, rollbacks and sweeps together keep the   *)
(* ledger's promise: queued once, one final verdict, and no student is     *)
(* reached again but by a loss before that verdict (poll.py:133-222).      *)
ImplementsLedger == Ledger!Spec

=============================================================================

---------------------------- MODULE AlertLedger ----------------------------
(***************************************************************************)
(* What delivering alerts promises, without workers, messages, locks or    *)
(* transactions: an alert is queued once, and gets one final verdict.      *)
(* Before that it may stray: reach its student without the service         *)
(* learning of it, and each time it does so is a loss on record.           *)
(***************************************************************************)
EXTENDS Naturals

CONSTANT Alerts

VARIABLES
    verdict,  \* what the service says of each alert
    reached,  \* how often each alert reached its student
    lost      \* how many of these the service does not know of

ledger == <<verdict, reached, lost>>

Init ==
    /\ verdict = [a \in Alerts |-> "none"]
    /\ reached = [a \in Alerts |-> 0]
    /\ lost = [a \in Alerts |-> 0]

(* One commit of a poll queues an alert for each of the section's watches. *)
Queue(S) ==
    /\ \A a \in S : verdict[a] = "none"
    /\ verdict' = [a \in Alerts |-> IF a \in S THEN "pending" ELSE verdict[a]]
    /\ UNCHANGED <<reached, lost>>

Send(a) ==
    /\ verdict[a] = "pending"
    /\ verdict' = [verdict EXCEPT ![a] = "sent"]
    /\ reached' = [reached EXCEPT ![a] = @ + 1]
    /\ UNCHANGED lost

Refuse(a) ==
    /\ verdict[a] = "pending"
    /\ verdict' = [verdict EXCEPT ![a] = "failed"]
    /\ UNCHANGED <<reached, lost>>

Stray(a) ==
    /\ verdict[a] = "pending"
    /\ reached' = [reached EXCEPT ![a] = @ + 1]
    /\ lost' = [lost EXCEPT ![a] = @ + 1]
    /\ UNCHANGED verdict

Next ==
    \/ \E S \in SUBSET Alerts : Queue(S)
    \/ \E a \in Alerts : Send(a) \/ Refuse(a) \/ Stray(a)

Spec == Init /\ [][Next]_ledger

=============================================================================

------------------------- MODULE SeatAlertsProofs -------------------------
(* The pipeline implements Delivery, for every set of sections, watchers   *)
(* and workers and every bound.                                            *)
EXTENDS SeatAlerts, PollingProofs

(* What ties the two halves together: the rows of the table are alerts     *)
(* that a poll committed, a delivery is only ever about such a row, and    *)
(* what a poll has still to fan out is its own and nobody else's.          *)
RowsAreNotes ==
    /\ row = [a \in Alerts |-> row[a]]
    /\ \A a \in Alerts : row[a] # D!Absent => a \in notes

DeliveriesAreNotes ==
    /\ spc \in [Senders -> D!Labels]
    /\ sjob \in [Senders -> D!Messages \cup {NoJob}]
    /\ \A v \in Senders :
           /\ spc[v] # "idle" => sjob[v] \in D!Messages
           /\ spc[v] \in D!InTxn => sjob[v][1] \in notes

FanOutsAreApart ==
    /\ \A w \in Workers : pc[w] = "fanout" => ids[w] \subseteq fan
    /\ \A v, w \in Workers :
           pc[v] = "fanout" /\ pc[w] = "fanout" /\ v # w => ids[v] \cap ids[w] = {}

Glue == RowsAreNotes /\ DeliveriesAreNotes /\ FanOutsAreApart

SystemInv == Inv /\ Glue

-----------------------------------------------------------------------------
(* A step of the pipeline is, for the polls, a step of theirs or none.     *)
LEMMA SystemIsPolling == SystemNext => [Next]_vars
<1>1. PollStep => Next
  BY DEF PollStep, PollAlone, CommitAlerts, FanOutAlert, LosePoll, Next, PollSection
<1>2. DeliverStep => UNCHANGED vars
  BY DEF DeliverStep
<1> QED BY <1>1, <1>2 DEF SystemNext

(* The alerts of a poll about to commit are new to the table.              *)
LEMMA CommitsAreFresh ==
    ASSUME Inv, NEW w \in Workers, pc[w] = "commit"
    PROVE  ids[w] \subseteq Alerts /\ ids[w] \cap notes = {}
<1>1. ids[w] \subseteq Alerts
  BY DEF Inv, TypeOK
<1>2. ASSUME NEW a \in ids[w], a \in notes PROVE FALSE
  <2>1. /\ a[1][1] \in Sections
        /\ a[2] = Len(events[a[1][1]]) + 1
        /\ a[2] <= Len(events[a[1][1]])
    BY <1>1, <1>2 DEF Inv, PollShape, AlertsComeFromOpenings, Alerts, Watches
  <2>2. Len(events[a[1][1]]) \in Nat
    BY <2>1 DEF Inv, TypeOK
  <2> QED BY <2>1, <2>2
<1> QED BY <1>1, <1>2

(* Steps of a poll that touch neither the table nor a fan-out.             *)
LEMMA GlueFrame ==
    ASSUME Glue, UNCHANGED <<row, notes, fan, spc, sjob>>,
           \A w \in Workers :
               pc'[w] = "fanout" =>
                   ids'[w] = {} \/ (pc[w] = "fanout" /\ ids'[w] \subseteq ids[w])
    PROVE  Glue'
<1>1. RowsAreNotes' /\ DeliveriesAreNotes'
  BY DEF Glue, RowsAreNotes, DeliveriesAreNotes
<1>2. FanOutsAreApart'
  BY DEF Glue, FanOutsAreApart
<1> QED BY <1>1, <1>2 DEF Glue

LEMMA PollAloneGlue ==
    ASSUME SystemInv, NEW w \in Workers, PollAlone(w)
    PROVE  Glue'
<1> USE DEF SystemInv, Inv, TypeOK, PollAlone, tables, schedule
<1>1. UNCHANGED <<row, notes, fan, spc, sjob>>
  BY DEF delivery, Take, RateLimited, Unavailable, Raise, Rollback, NotOnPage, Observe,
         Flush, Queue, Done
<1>2. \A v \in Workers : v # w => pc'[v] = pc[v] /\ ids'[v] = ids[v]
  BY DEF Take, RateLimited, Unavailable, Raise, Rollback, NotOnPage, Observe, Flush, Queue,
         Done, Goto, Release
<1>3. pc'[w] = "fanout" => ids'[w] = {}
  BY DEF Take, RateLimited, Unavailable, Raise, Rollback, NotOnPage, Observe, Flush, Queue,
         Done, Goto, Release, PollShape, Labels
<1> QED BY <1>1, <1>2, <1>3, GlueFrame

LEMMA CommitGlue ==
    ASSUME SystemInv, NEW w \in Workers, CommitAlerts(w)
    PROVE  Glue'
<1> USE DEF SystemInv, CommitAlerts
<1>1. pc[w] = "commit" /\ notes' = notes \cup ids[w] /\ ids' = ids
  BY DEF Commit
<1>2. pc' = [pc EXCEPT ![w] = "fanout"] /\ pc \in [Workers -> Labels]
  BY DEF Commit, Goto, Inv, TypeOK
<1>3. ids[w] \subseteq Alerts /\ ids[w] \cap notes = {}
  BY <1>1, CommitsAreFresh
<1>4. RowsAreNotes'
  BY <1>1 DEF Glue, RowsAreNotes
<1>5. DeliveriesAreNotes'
  BY <1>1 DEF Glue, DeliveriesAreNotes
<1>6. \A v \in Workers : pc[v] = "fanout" => ids[v] \subseteq notes
  BY DEF Inv, PollShape
<1>7. FanOutsAreApart'
  BY <1>1, <1>2, <1>3, <1>6 DEF Glue, FanOutsAreApart
<1> QED BY <1>4, <1>5, <1>7 DEF Glue

LEMMA FanOutGlue ==
    ASSUME SystemInv, NEW w \in Workers, NEW a \in Alerts, FanOutAlert(w, a)
    PROVE  Glue' /\ a \in fan
<1> USE DEF SystemInv, FanOutAlert, FanOut, tables
<1>1. a \in fan
  BY DEF Glue, FanOutsAreApart
<1>2. ids' = [ids EXCEPT ![w] = ids[w] \ {a}] /\ ids \in [Workers -> SUBSET Alerts]
  BY DEF Inv, TypeOK
<1>3. RowsAreNotes' /\ DeliveriesAreNotes'
  BY DEF Glue, RowsAreNotes, DeliveriesAreNotes
<1>4. FanOutsAreApart'
  BY <1>2 DEF Glue, FanOutsAreApart
<1> QED BY <1>1, <1>3, <1>4 DEF Glue

LEMMA LosePollGlue ==
    ASSUME SystemInv, NEW w \in Workers, LosePoll(w)
    PROVE  Glue'
<1> USE DEF SystemInv, LosePoll
<1>1. Release(w) /\ UNCHANGED tables
  BY DEF WorkerLost, TimeLimit, Abort
<1>2. /\ pc'[w] = "idle"
      /\ \A v \in Workers : v # w => pc'[v] = pc[v] /\ ids'[v] = ids[v]
  BY <1>1 DEF Release, Goto, Inv, TypeOK
<1>3. RowsAreNotes' /\ DeliveriesAreNotes'
  BY <1>1 DEF Glue, RowsAreNotes, DeliveriesAreNotes, tables
<1>4. FanOutsAreApart'
  BY <1>2 DEF Glue, FanOutsAreApart
<1> QED BY <1>3, <1>4 DEF Glue

-----------------------------------------------------------------------------
(* What a delivery does to the rows and to the workers' places.            *)
LEMMA SweepGlue ==
    ASSUME SystemInv, UNCHANGED vars, D!Sweep
    PROVE  Glue'
<1> USE DEF SystemInv, vars, tables, worker
<1>1. UNCHANGED <<spc, sjob, fan>>
  BY DEF D!Sweep, D!SweepSelect, D!SweepLost, D!SweepPublish, D!workerVars
<1>2. \/ row' = row
      \/ row' = [a \in Alerts |-> IF D!Sweepable(a) THEN [row[a] EXCEPT !.status = "pending"]
                                                    ELSE row[a]]
  BY DEF D!Sweep, D!SweepSelect, D!SweepLost, D!SweepPublish
<1>3. \A a \in Alerts : D!Sweepable(a) => row[a] # D!Absent
  BY DEF D!Sweepable, D!Absent
<1>4. RowsAreNotes'
  BY <1>2, <1>3 DEF Glue, RowsAreNotes
<1>5. DeliveriesAreNotes' /\ FanOutsAreApart'
  BY <1>1 DEF Glue, DeliveriesAreNotes, FanOutsAreApart
<1> QED BY <1>4, <1>5 DEF Glue

(* The steps of a sender that leave the table alone.                       *)
LEMMA SenderFrame ==
    ASSUME SystemInv, UNCHANGED vars, UNCHANGED <<row, fan>>, NEW v \in Senders,
           NEW label \in D!Labels, spc' = [spc EXCEPT ![v] = label],
           \/ /\ label \notin D!InTxn
              /\ \E m \in D!Messages \cup {NoJob} :
                     /\ sjob' = [sjob EXCEPT ![v] = m]
                     /\ label = "idle" \/ m \in D!Messages
           \/ /\ sjob' = sjob /\ spc[v] # "idle"
              /\ spc[v] \in D!InTxn \/ sjob[v][1] \in notes
    PROVE  Glue'
<1> USE DEF SystemInv, vars, tables, worker
<1>1. RowsAreNotes' /\ FanOutsAreApart'
  BY DEF Glue, RowsAreNotes, FanOutsAreApart
<1>2. DeliveriesAreNotes'
  BY DEF Glue, DeliveriesAreNotes
<1> QED BY <1>1, <1>2 DEF Glue

LEMMA SenderGlue ==
    ASSUME SystemInv, UNCHANGED vars, NEW v \in Senders, D!SendNotification(v)
    PROVE  Glue'
<1> USE DEF D!workerVars, D!historyVars, D!Goto
<1>1. ASSUME NEW m \in D!Messages, D!Take(v, m) PROVE Glue'
  <2>1. "claim" \notin D!InTxn /\ "claim" \in D!Labels
    BY DEF D!InTxn, D!Labels
  <2> QED BY <1>1, <2>1, SenderFrame DEF D!Take
<1>2. CASE D!Claim(v)
  <2>1. CASE /\ D!Claimable(D!Note(v)) /\ spc' = [spc EXCEPT ![v] = "send"]
    <3>1. sjob[v][1] \in notes
      <4>1. sjob[v] \in D!Messages
        BY <1>2 DEF D!Claim, SystemInv, Glue, DeliveriesAreNotes
      <4>2. sjob[v][1] \in Alerts /\ row[sjob[v][1]] # D!Absent
        BY <2>1, <4>1 DEF D!Claimable, D!Note, D!Absent, D!Messages
      <4> QED BY <4>2 DEF SystemInv, Glue, RowsAreNotes
    <3> QED BY <1>2, <2>1, <3>1, SenderFrame DEF D!Claim, D!Labels, D!InTxn
  <2>2. CASE ~D!Claimable(D!Note(v)) /\ spc' = [spc EXCEPT ![v] = "ack"]
    <3>1. /\ "ack" \notin D!InTxn /\ "ack" \in D!Labels
          /\ sjob' = [sjob EXCEPT ![v] = sjob[v]] /\ sjob[v] \in D!Messages
      BY <1>2 DEF D!InTxn, D!Labels, D!Claim, SystemInv, Glue, DeliveriesAreNotes
    <3> QED BY <1>2, <2>2, <3>1, SenderFrame DEF D!Claim
  <2> QED BY <1>2, <2>1, <2>2 DEF D!Claim
<1>3. CASE \/ D!SendAccepted(v) \/ D!SendRefused(v)
           \/ \E accepted \in BOOLEAN : D!SendFailed(v, accepted)
  <2>1. spc[v] \in D!InTxn /\ spc[v] # "idle"
    BY <1>3 DEF D!SendAccepted, D!SendRefused, D!SendFailed, D!InTxn
  <2> QED BY <1>3, <2>1, SenderFrame DEF D!SendAccepted, D!SendRefused, D!SendFailed, D!Labels, D!InTxn
<1>4. CASE D!Retry(v)
  <2>1. spc[v] \in D!InTxn /\ spc[v] # "idle"
    BY <1>4 DEF D!Retry, D!InTxn
  <2> QED BY <1>4, <2>1, SenderFrame DEF D!Retry, D!Labels, D!InTxn
<1>5. CASE D!Rollback(v)
  <2>1. spc[v] \in D!InTxn /\ spc[v] # "idle"
    BY <1>5 DEF D!Rollback, D!InTxn
  <2> QED BY <1>5, <2>1, SenderFrame DEF D!Rollback, D!Labels, D!InTxn
<1>6. CASE D!Commit(v)
  <2>1. /\ spc[v] \in D!InTxn /\ spc[v] # "idle" /\ sjob[v][1] \in notes
        /\ row' = [row EXCEPT ![sjob[v][1]] = txn[v]]
        /\ spc' = [spc EXCEPT ![v] = "ack"] /\ "ack" \notin D!InTxn
        /\ "ack" \in D!Labels /\ UNCHANGED <<fan, sjob>>
    BY <1>6 DEF D!Commit, D!Note, D!InTxn, D!Labels, SystemInv, Glue, DeliveriesAreNotes
  <2>2. RowsAreNotes'
    <3>1. row = [a \in Alerts |-> row[a]] /\ \A a \in Alerts : row[a] # D!Absent => a \in notes
      BY DEF SystemInv, Glue, RowsAreNotes
    <3>2. row' = [a \in Alerts |-> IF a = sjob[v][1] THEN txn[v] ELSE row[a]]
      BY <2>1, <3>1
    <3>3. \A a \in Alerts : row'[a] # D!Absent => a \in notes
      BY <2>1, <3>1, <3>2
    <3>4. row' = [a \in Alerts |-> row'[a]]
      BY <3>2
    <3>5. UNCHANGED notes
      BY DEF vars, tables
    <3> QED BY <3>3, <3>4, <3>5 DEF RowsAreNotes, D!Absent
  <2>3. DeliveriesAreNotes'
    BY <2>1 DEF SystemInv, Glue, DeliveriesAreNotes, vars, tables
  <2>4. FanOutsAreApart'
    BY <2>1 DEF SystemInv, Glue, FanOutsAreApart, vars, worker
  <2> QED BY <2>2, <2>3, <2>4 DEF Glue
<1>7. CASE D!Ack(v) \/ D!WorkerLost(v) \/ D!TimeLimit(v)
  <2>1. D!Release(v) /\ UNCHANGED <<row, fan>> /\ "idle" \notin D!InTxn
    BY <1>7 DEF D!Ack, D!WorkerLost, D!TimeLimit, D!Abort, D!InTxn
  <2>2. /\ spc' = [spc EXCEPT ![v] = "idle"] /\ "idle" \in D!Labels
        /\ sjob' = [sjob EXCEPT ![v] = NoJob]
    BY <2>1 DEF D!Release, D!Labels
  <2> QED BY <2>1, <2>2, SenderFrame
<1> QED BY <1>1, <1>2, <1>3, <1>4, <1>5, <1>6, <1>7 DEF D!SendNotification

-----------------------------------------------------------------------------
LEMMA SystemStart == SystemInit => SystemInv
<1> SUFFICES ASSUME SystemInit PROVE SystemInv
  OBVIOUS
<1>1. Inv
  BY InitInv DEF SystemInit
<1>2. RowsAreNotes
  BY DEF SystemInit, D!Init, RowsAreNotes
<1>3. DeliveriesAreNotes
  BY DEF SystemInit, D!Init, DeliveriesAreNotes, D!InTxn, D!Labels
<1>4. FanOutsAreApart
  BY DEF SystemInit, Init, FanOutsAreApart
<1> QED BY <1>1, <1>2, <1>3, <1>4 DEF SystemInv, Glue

LEMMA SystemStep == SystemInv /\ [SystemNext]_<<vars, delivery>> => SystemInv'
<1> SUFFICES ASSUME SystemInv, [SystemNext]_<<vars, delivery>> PROVE SystemInv'
  OBVIOUS
<1>1. Inv'
  BY SystemIsPolling, NextInv DEF SystemInv
<1>2. CASE UNCHANGED <<vars, delivery>>
  <2>1. /\ UNCHANGED <<row, notes, fan, spc, sjob>>
        /\ \A w \in Workers : pc'[w] = pc[w] /\ ids'[w] = ids[w]
    BY <1>2 DEF vars, tables, worker, delivery
  <2> QED BY <1>1, <2>1, GlueFrame DEF SystemInv
<1>3. CASE (World \/ Dispatch) /\ UNCHANGED delivery
  <2>1. /\ UNCHANGED <<row, notes, fan, spc, sjob>>
        /\ \A w \in Workers : pc'[w] = pc[w] /\ ids'[w] = ids[w]
    BY <1>3 DEF World, Dispatch, Opens, Closes, BecomesDue, Watch, Unwatch, DispatchSelect,
                DispatchPublish, DispatchLost, schedule, tables, worker, history, delivery
  <2> QED BY <1>1, <2>1, GlueFrame DEF SystemInv
<1>4. CASE DeliverStep
  <2>1. Glue'
    BY <1>4, SweepGlue, SenderGlue DEF DeliverStep
  <2> QED BY <1>1, <2>1 DEF SystemInv
<1>5. CASE \E w \in Workers :
               PollAlone(w) \/ CommitAlerts(w) \/ LosePoll(w)
               \/ \E a \in Alerts : FanOutAlert(w, a)
  BY <1>1, <1>5, PollAloneGlue, CommitGlue, FanOutGlue, LosePollGlue DEF SystemInv
<1> QED BY <1>2, <1>3, <1>4, <1>5 DEF SystemNext, PollStep

(* What each step of the pipeline is for Delivery.                         *)
LEMMA CommitIsQueueing ==
    ASSUME SystemInv, NEW w \in Workers, CommitAlerts(w)
    PROVE  [D!Next]_(D!vars)
<1>1. /\ ids[w] \subseteq Alerts
      /\ \A a \in ids[w] : row[a] = D!Absent
  BY CommitsAreFresh DEF SystemInv, Glue, RowsAreNotes, CommitAlerts, Commit
<1>2. CASE ids[w] = {}
  <2>1. row' = row /\ fan' = fan
    BY <1>2 DEF CommitAlerts, SystemInv, Glue, RowsAreNotes
  <2> QED BY <2>1 DEF CommitAlerts, D!vars, D!workerVars, D!historyVars
<1>3. CASE ids[w] # {}
  <2>1. D!QueueNotifications(ids[w])
    BY <1>1, <1>3 DEF CommitAlerts, D!QueueNotifications, D!workerVars, D!historyVars
  <2> QED BY <1>1, <2>1 DEF D!Next, D!Poll
<1> QED BY <1>2, <1>3

LEMMA LosePollIsLosing ==
    ASSUME SystemInv, NEW w \in Workers, LosePoll(w)
    PROVE  [D!Next]_(D!vars)
<1>1. CASE pc[w] = "fanout" /\ ids[w] # {}
  <2>1. ids[w] \subseteq fan /\ ids[w] \in SUBSET Alerts
    BY <1>1 DEF SystemInv, Inv, TypeOK, Glue, FanOutsAreApart
  <2>2. D!LoseFanOut(ids[w])
    BY <1>1, <2>1 DEF LosePoll, D!LoseFanOut, D!workerVars, D!historyVars
  <2> QED BY <2>1, <2>2 DEF D!Next, D!Poll
<1>2. CASE ~(pc[w] = "fanout" /\ ids[w] # {})
  BY <1>2 DEF LosePoll, D!vars, D!workerVars, D!historyVars
<1> QED BY <1>1, <1>2

LEMMA StepIsDelivery ==
    SystemInv /\ [SystemNext]_<<vars, delivery>> => [D!Next]_(D!vars)
<1> SUFFICES ASSUME SystemInv, [SystemNext]_<<vars, delivery>> PROVE [D!Next]_(D!vars)
  OBVIOUS
<1>1. UNCHANGED delivery => UNCHANGED D!vars
  BY DEF delivery, D!vars, D!workerVars, D!historyVars
<1>2. CASE UNCHANGED <<vars, delivery>> \/ ((World \/ Dispatch) /\ UNCHANGED delivery)
  BY <1>1, <1>2
<1>3. CASE DeliverStep
  BY <1>3 DEF DeliverStep, D!Next
<1>4. ASSUME NEW w \in Workers, PollAlone(w) PROVE [D!Next]_(D!vars)
  BY <1>1, <1>4 DEF PollAlone
<1>5. ASSUME NEW w \in Workers, NEW a \in Alerts, FanOutAlert(w, a)
      PROVE  [D!Next]_(D!vars)
  <2>1. D!FanOut(a)
    BY <1>5, FanOutGlue DEF FanOutAlert, D!FanOut, D!workerVars, D!historyVars
  <2> QED BY <2>1 DEF D!Next, D!Poll
<1> QED BY <1>2, <1>3, <1>4, <1>5, CommitIsQueueing, LosePollIsLosing
        DEF SystemNext, PollStep

(* Polls, however they overlap, fail, repeat and die, do to the table and  *)
(* the broker what Delivery supposes, so what is proved of Delivery holds  *)
(* of the alerts the polls create.                                         *)
THEOREM PipelineDelivers == SystemSpec => ImplementsDelivery
<1>1. SystemInit => D!Init
  BY DEF SystemInit
<1> QED BY <1>1, SystemStart, SystemStep, StepIsDelivery, PTL
        DEF SystemSpec, ImplementsDelivery, D!Spec

-----------------------------------------------------------------------------
(* What is proved of Delivery, said of the pipeline's.  DP is D with the   *)
(* theorems of DeliveryProofs: the same definitions under another name.    *)
DP == INSTANCE DeliveryProofs WITH
    Notifs <- Alerts, Workers <- Senders, NoMsg <- NoJob,
    MaxRetries <- SendRetries, MaxFaults <- MaxSendFaults,
    pc <- spc, job <- sjob, faults <- sfaults

LEMMA DeliveryConstants == DP!DeliveryAssumption
BY PollingAssumption, SeatAlertsAssumption
   DEF DP!DeliveryAssumption, DP!Messages, D!Messages

LEMMA SameSpec == D!Spec => DP!Spec
<1>1. D!Init => DP!Init
  BY DEF D!Init, DP!Init, D!Absent, DP!Absent, D!Messages, DP!Messages
<1>2. [D!Next]_(D!vars) => [DP!Next]_(DP!vars)
  BY DEF D!Messages, DP!Messages, D!workerVars, DP!workerVars,
         D!historyVars, DP!historyVars, D!vars, DP!vars, D!Absent, DP!Absent,
         D!InTxn, DP!InTxn, D!Note, DP!Note, D!Holds, DP!Holds, D!Publish, DP!Publish,
         D!Bump, DP!Bump, D!Goto, DP!Goto, D!Discard, DP!Discard,
         D!Release, DP!Release, D!Marked, DP!Marked,
         D!QueueNotifications, DP!QueueNotifications, D!FanOut, DP!FanOut,
         D!LoseFanOut, DP!LoseFanOut, D!Take, DP!Take, D!Claimable, DP!Claimable,
         D!Claim, DP!Claim, D!SendAccepted, DP!SendAccepted,
         D!SendRefused, DP!SendRefused, D!SendFailed, DP!SendFailed, D!Retry, DP!Retry,
         D!Rollback, DP!Rollback, D!Commit, DP!Commit, D!Ack, DP!Ack,
         D!AcceptedOnly, DP!AcceptedOnly, D!Abort, DP!Abort,
         D!WorkerLost, DP!WorkerLost, D!TimeLimit, DP!TimeLimit,
         D!Sweepable, DP!Sweepable, D!SweepSelect, DP!SweepSelect,
         D!SweepPublish, DP!SweepPublish, D!SweepLost, DP!SweepLost,
         D!SendNotification, DP!SendNotification, D!Sweep, DP!Sweep, D!Poll, DP!Poll,
         D!Next, DP!Next
<1> QED BY <1>1, <1>2, PTL DEF D!Spec, DP!Spec

(* End to end: however polls overlap, fail and die and whatever happens to *)
(* messages and senders, the alerts that polls create are queued once, get *)
(* one verdict, and reach nobody again but by a loss before that verdict.  *)
THEOREM PipelineKeepsLedger == SystemSpec => D!ImplementsLedger
<1>1. DP!Spec => DP!ImplementsLedger
  BY DeliveryConstants, DP!LedgerIsKept, PTL
<1>2. DP!ImplementsLedger => D!ImplementsLedger
  BY DEF D!Ledger!Spec, DP!Ledger!Spec, D!Ledger!Init, DP!Ledger!Init,
         D!Ledger!Next, DP!Ledger!Next, D!Ledger!ledger, DP!Ledger!ledger,
         D!Ledger!Queue, DP!Ledger!Queue, D!Ledger!Send, DP!Ledger!Send,
         D!Ledger!Refuse, DP!Ledger!Refuse, D!Ledger!Stray, DP!Ledger!Stray,
         D!ImplementsLedger, DP!ImplementsLedger, D!Verdict, DP!Verdict,
         D!Recording, DP!Recording, D!Absent, DP!Absent, D!Holds, DP!Holds,
         D!AcceptedOnly, DP!AcceptedOnly, D!Note, DP!Note, D!InTxn, DP!InTxn
<1> QED BY <1>1, <1>2, PipelineDelivers, SameSpec, PTL DEF ImplementsDelivery

LEMMA PipelineKeptOnce == SystemSpec => []DP!AtMostOneKept
<1>1. DP!Spec => []DP!AtMostOneKept
  BY DeliveryConstants, DP!OneDeliveryIsKept, PTL
<1> QED BY <1>1, PipelineDelivers, SameSpec, PTL DEF ImplementsDelivery

LEMMA PipelinePolls == SystemSpec => Spec /\ []SystemInv
<1>1. SystemInit => Init
  BY DEF SystemInit
<1>2. [SystemNext]_<<vars, delivery>> => [Next]_vars
  BY SystemIsPolling
<1> QED BY <1>1, <1>2, SystemStart, SystemStep, PTL DEF SystemSpec, Spec

(* End to end, however polls overlap: a student is reached at most once    *)
(* per watch and opening of the school's schedule, and once more for each  *)
(* change an overtaken poll records; and once per alert, not counting      *)
(* deliveries whose record a fault destroyed.                              *)
THEOREM PipelineAlertsOnce == SystemSpec => []OneAlertPerOpening
<1>1. SystemInv /\ FreshInv /\ DP!AtMostOneKept => OneAlertPerOpening
  <2> SUFFICES ASSUME SystemInv, FreshInv, DP!AtMostOneKept, NEW x \in Watches
               PROVE  /\ Cardinality(Reached(x)) <= opened[x[1]] + clashes[x[1]]
                      /\ \A a \in Reached(x) : delivered[a] = unrecorded[a] + 1
    BY DEF OneAlertPerOpening
  <2>1. \A a \in Reached(x) : row[a] # D!Absent /\ delivered[a] = unrecorded[a] + 1
    BY DEF Reached, DP!AtMostOneKept, D!Absent, DP!Absent
  <2>2. Reached(x) \subseteq {a \in notes : a[1] = x}
    BY <2>1 DEF Reached, SystemInv, Glue, RowsAreNotes
  <2>3. Cardinality(Reached(x)) \in Nat /\ Cardinality(Reached(x)) <= Openings(x[1])
    BY <2>2, AlertsFitOpenings DEF SystemInv, Inv
  <2>4. x[1] \in Sections
    BY DEF Watches
  <2>5. /\ Openings(x[1]) \in Nat /\ opened[x[1]] \in Nat /\ clashes[x[1]] \in Nat
        /\ Openings(x[1]) <= opened[x[1]] + clashes[x[1]]
    BY <2>4, AccountType DEF SystemInv, Inv, FreshInv, OpeningsCounted
  <2> QED BY <2>1, <2>3, <2>5
<1> QED BY <1>1, PipelineKeptOnce, PipelinePolls, FreshIsInvariant, PTL

=============================================================================

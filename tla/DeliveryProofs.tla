--------------------------- MODULE DeliveryProofs ---------------------------
(* Proofs about Delivery, for every set of rows and workers and every      *)
(* bound.                                                                  *)
EXTENDS Delivery, Integers, TLAPS

(* What a row and a transaction look like while a worker is between its    *)
(* claim and the end of its transaction: the row is still pending for      *)
(* everyone else (this is what makes a rollback harmless), and what the    *)
(* worker will commit is an outcome.                                       *)
LockedRowsArePending ==
    \A w \in Workers : pc[w] \in InTxn => row[Note(w)].status = "pending"

TxnShape ==
    \A w \in Workers :
        /\ pc[w] = "send"   => txn[w].status = "sending" /\ txn[w].attempts = 0
        /\ pc[w] = "commit" => txn[w].status \in {"sent", "failed"} /\ txn[w].attempts = 1

Inv ==
    /\ TypeOK
    /\ SendingNeverCommitted
    /\ ClaimIsExclusive
    /\ AttemptsCountOutcomes
    /\ LockedRowsArePending
    /\ TxnShape
    /\ DeliveryAccounted

-----------------------------------------------------------------------------
LEMMA MarkedIsRow ==
    ASSUME NEW r \in Row, NEW s \in NotificationStatus
    PROVE  Marked(r, s) \in Row /\ Marked(r, s).status = s
                               /\ Marked(r, s).attempts = r.attempts + 1
BY DEF Marked, Row

LEMMA PublishType ==
    ASSUME NEW q \in [Messages -> 0..MaxQueued], NEW m \in Messages
    PROVE  Publish(q, m) \in [Messages -> 0..MaxQueued]
BY DeliveryAssumption DEF Publish

LEMMA BumpType ==
    ASSUME NEW count \in [Notifs -> Nat], NEW n \in Notifs
    PROVE  /\ Bump(count, n) \in [Notifs -> Nat]
           /\ \A m \in Notifs : m # n => Bump(count, n)[m] = count[m]
BY DEF Bump

(* The lock of a row has at most one holder, so whether an acceptance of   *)
(* the row is about to be recorded is up to that holder alone.             *)
LEMMA HolderDecides ==
    ASSUME ClaimIsExclusive, NEW w \in Workers, pc[w] \in InTxn
    PROVE  Recording(Note(w)) = IF AcceptedOnly(w) THEN 1 ELSE 0
BY DEF ClaimIsExclusive, Recording, Holds

LEMMA NobodyRecording ==
    ASSUME NEW n \in Notifs, \A w \in Workers : ~Holds(w, n)
    PROVE  Recording(n) = 0
BY DEF Recording

(* Where no worker's part changes, neither does Recording.                 *)
LEMMA RecordingFrame ==
    ASSUME NEW n \in Notifs,
           \A v \in Workers : Holds(v, n)' = Holds(v, n),
           \A v \in Workers : Holds(v, n) => AcceptedOnly(v)' = AcceptedOnly(v)
    PROVE  Recording(n)' = Recording(n)
<1>1. (\E v \in Workers : Holds(v, n) /\ AcceptedOnly(v))'
         <=> \E v \in Workers : Holds(v, n) /\ AcceptedOnly(v)
  OBVIOUS
<1> QED BY <1>1 DEF Recording

-----------------------------------------------------------------------------
(* One lemma for the steps that only move messages, then one for each      *)
(* action of a worker that may disturb the invariant.                      *)
core == <<row, pc, job, txn, delivered, unrecorded>>

LEMMA CoreFrame ==
    ASSUME Inv, UNCHANGED core, TypeOK'
    PROVE  Inv'
<1>1. SendingNeverCommitted' /\ AttemptsCountOutcomes'
  BY DEF Inv, core, SendingNeverCommitted, AttemptsCountOutcomes
<1>2. ClaimIsExclusive' /\ LockedRowsArePending' /\ TxnShape'
  BY DEF Inv, core, ClaimIsExclusive, LockedRowsArePending, TxnShape, Note
<1>3. DeliveryAccounted'
  BY DEF Inv, core, DeliveryAccounted, Recorded, Recording, Holds, AcceptedOnly, Note
<1> QED BY <1>1, <1>2, <1>3 DEF Inv

LEMMA InTxnFacts ==
    ASSUME Inv, NEW w \in Workers, pc[w] \in InTxn
    PROVE  /\ job[w] \in Messages /\ Note(w) \in Notifs
           /\ row[Note(w)].status = "pending"
           /\ Recorded(Note(w)) = 0
           /\ Recording(Note(w)) = IF AcceptedOnly(w) THEN 1 ELSE 0
<1>1. job[w] \in Messages /\ Note(w) \in Notifs
  BY DEF Inv, TypeOK, InTxn, Note, Messages
<1>2. row[Note(w)].status = "pending"
  BY DEF Inv, LockedRowsArePending
<1> QED BY <1>1, <1>2, HolderDecides DEF Inv, Recorded

(* Rows are created.                                                       *)
LEMMA QueueNotificationsInv ==
    ASSUME Inv, NEW S \in SUBSET Notifs, QueueNotifications(S)
    PROVE  Inv'
<1> USE DEF Inv, QueueNotifications, workerVars, historyVars
<1>1. TypeOK'
  BY DEF TypeOK, Row, NotificationStatus
<1>2. SendingNeverCommitted' /\ AttemptsCountOutcomes'
  BY DEF TypeOK, SendingNeverCommitted, AttemptsCountOutcomes
<1>3. \A w \in Workers : pc[w] \in InTxn => Note(w) \notin S
  BY DEF LockedRowsArePending, Absent
<1>4. ClaimIsExclusive' /\ LockedRowsArePending' /\ TxnShape'
  <2>1. \A w \in Workers : pc[w] \in InTxn => Note(w) \in Notifs
    BY InTxnFacts
  <2> QED BY <1>3, <2>1 DEF TypeOK, ClaimIsExclusive, LockedRowsArePending, TxnShape, Note
<1>5. DeliveryAccounted'
  BY DEF TypeOK, DeliveryAccounted, Recorded, Recording, Holds, AcceptedOnly, Note, Absent
<1> QED BY <1>1, <1>2, <1>4, <1>5

(* What a step of w leaves alone: the other workers.                       *)
LEMMA OthersKeep ==
    ASSUME TypeOK, NEW w \in Workers,
           \A v \in Workers \ {w} : pc'[v] = pc[v] /\ job'[v] = job[v] /\ txn'[v] = txn[v],
           NEW n \in Notifs,
           ~Holds(w, n), ~Holds(w, n)'
    PROVE  Recording(n)' = Recording(n)
<1>1. \A v \in Workers : Holds(v, n)' = Holds(v, n)
  BY DEF Holds, Note, InTxn
<1>2. \A v \in Workers : Holds(v, n) => AcceptedOnly(v)' = AcceptedOnly(v)
  BY DEF AcceptedOnly
<1> QED BY <1>1, <1>2, RecordingFrame

LEMMA TakeInv ==
    ASSUME Inv, NEW w \in Workers, NEW m \in Messages, Take(w, m)
    PROVE  Inv'
<1> USE DEF Inv, Take, Goto, workerVars, historyVars
<1>1. TypeOK'
  BY DeliveryAssumption DEF TypeOK, Labels, InTxn
<1>2. SendingNeverCommitted' /\ AttemptsCountOutcomes'
  BY DEF SendingNeverCommitted, AttemptsCountOutcomes
<1>3. ClaimIsExclusive' /\ LockedRowsArePending' /\ TxnShape'
  BY DEF TypeOK, ClaimIsExclusive, LockedRowsArePending, TxnShape, Note, InTxn
<1>4. \A n \in Notifs : Recording(n)' = Recording(n)
  <2> SUFFICES ASSUME NEW n \in Notifs PROVE Recording(n)' = Recording(n)
    OBVIOUS
  <2>1. ~Holds(w, n) /\ ~Holds(w, n)'
    BY DEF TypeOK, Holds, InTxn
  <2> QED BY <2>1, OthersKeep DEF TypeOK
<1>5. DeliveryAccounted'
  BY <1>4 DEF DeliveryAccounted, Recorded
<1> QED BY <1>1, <1>2, <1>3, <1>5

LEMMA ClaimInv ==
    ASSUME Inv, NEW w \in Workers, Claim(w)
    PROVE  Inv'
<1> USE DEF Inv, Goto, workerVars, historyVars
<1>1. /\ pc[w] = "claim" /\ Note(w) \in Notifs
      /\ \A v \in Workers : ~Holds(v, Note(w))
      /\ UNCHANGED <<row, fan, sendq, job, stale, faults, historyVars>>
  BY DEF Claim, TypeOK, Note, Messages
<1>2. CASE /\ Claimable(Note(w))
           /\ txn' = [txn EXCEPT ![w] = [row[Note(w)] EXCEPT !.status = "sending"]]
           /\ pc' = [pc EXCEPT ![w] = "send"]
  <2>1. TypeOK'
    BY <1>1, <1>2 DEF TypeOK, Labels, InTxn, Row, NotificationStatus
  <2>2. SendingNeverCommitted' /\ AttemptsCountOutcomes'
    BY <1>1 DEF SendingNeverCommitted, AttemptsCountOutcomes
  <2>3. ClaimIsExclusive'
    BY <1>1, <1>2 DEF TypeOK, ClaimIsExclusive, Holds, Note, InTxn
  <2>4. LockedRowsArePending'
    BY <1>1, <1>2 DEF TypeOK, LockedRowsArePending, Claimable, Note, InTxn
  <2>5. TxnShape'
    BY <1>1, <1>2 DEF TypeOK, TxnShape, AttemptsCountOutcomes, Claimable, Row
  <2>6. \A n \in Notifs : Recording(n)' = Recording(n)
    <3> SUFFICES ASSUME NEW n \in Notifs PROVE Recording(n)' = Recording(n)
      OBVIOUS
    <3>1. CASE n = Note(w)
      <4>1. Recording(n) = 0
        BY <1>1, <3>1, NobodyRecording
      <4>2. ~(\E v \in Workers : Holds(v, n) /\ AcceptedOnly(v))'
        BY <1>1, <1>2, <3>1 DEF TypeOK, Holds, AcceptedOnly, Note, InTxn
      <4> QED BY <4>1, <4>2 DEF Recording
    <3>2. CASE n # Note(w)
      <4>1. ~Holds(w, n) /\ ~Holds(w, n)'
        BY <1>1, <3>2 DEF Holds, Note
      <4> QED BY <1>1, <1>2, <4>1, OthersKeep DEF TypeOK
    <3> QED BY <3>1, <3>2
  <2>7. DeliveryAccounted'
    BY <1>1, <2>6 DEF DeliveryAccounted, Recorded
  <2> QED BY <2>1, <2>2, <2>3, <2>4, <2>5, <2>7
<1>3. CASE /\ ~Claimable(Note(w))
           /\ pc' = [pc EXCEPT ![w] = "ack"]
           /\ UNCHANGED txn
  <2>1. TypeOK'
    BY <1>1, <1>3 DEF TypeOK, Labels
  <2>2. SendingNeverCommitted' /\ AttemptsCountOutcomes'
    BY <1>1 DEF SendingNeverCommitted, AttemptsCountOutcomes
  <2>3. ClaimIsExclusive' /\ LockedRowsArePending' /\ TxnShape'
    BY <1>1, <1>3 DEF TypeOK, ClaimIsExclusive, LockedRowsArePending, TxnShape, Note, InTxn
  <2>4. \A n \in Notifs : Recording(n)' = Recording(n)
    <3> SUFFICES ASSUME NEW n \in Notifs PROVE Recording(n)' = Recording(n)
      OBVIOUS
    <3>1. ~Holds(w, n) /\ ~Holds(w, n)'
      BY <1>1, <1>3 DEF TypeOK, Holds, InTxn
    <3> QED BY <1>1, <1>3, <3>1, OthersKeep DEF TypeOK
  <2>5. DeliveryAccounted'
    BY <1>1, <2>4 DEF DeliveryAccounted, Recorded
  <2> QED BY <2>1, <2>2, <2>3, <2>5
<1> QED BY <1>2, <1>3 DEF Claim

-----------------------------------------------------------------------------
(* The steps of a worker inside its transaction.  Each of them concerns    *)
(* the row the worker holds and leaves the accounts of the others alone.   *)
OnlyWorker(w) ==
    \A v \in Workers \ {w} : pc'[v] = pc[v] /\ job'[v] = job[v] /\ txn'[v] = txn[v]

LEMMA OtherRowsKeep ==
    ASSUME TypeOK, NEW w \in Workers, OnlyWorker(w),
           NEW n \in Notifs, n # Note(w), job'[w] = job[w] \/ pc'[w] \notin InTxn
    PROVE  Recording(n)' = Recording(n)
<1>1. ~Holds(w, n) /\ ~Holds(w, n)'
  BY DEF Holds, Note, InTxn
<1> QED BY <1>1, OthersKeep DEF OnlyWorker

(* A worker that stays in its transaction, with the message it has.        *)
LEMMA StayInTxn ==
    ASSUME Inv, TypeOK', NEW w \in Workers, OnlyWorker(w),
           pc[w] \in InTxn, pc'[w] \in InTxn, job' = job, row' = row
    PROVE  /\ SendingNeverCommitted' /\ AttemptsCountOutcomes'
           /\ ClaimIsExclusive' /\ LockedRowsArePending'
           /\ Recording(Note(w))' = IF AcceptedOnly(w)' THEN 1 ELSE 0
<1>1. \A v \in Workers : (pc'[v] \in InTxn) = (pc[v] \in InTxn)
  BY DEF OnlyWorker
<1>2. \A v \in Workers : Note(v)' = Note(v)
  BY DEF Note
<1>3. SendingNeverCommitted' /\ AttemptsCountOutcomes'
  BY DEF Inv, SendingNeverCommitted, AttemptsCountOutcomes
<1>4. ClaimIsExclusive' /\ LockedRowsArePending'
  BY <1>1, <1>2 DEF Inv, ClaimIsExclusive, LockedRowsArePending, InTxn
<1>5. Recording(Note(w))' = IF AcceptedOnly(w)' THEN 1 ELSE 0
  <2>1. \A v \in Workers : (Holds(v, Note(w)) => v = w)'
    BY <1>1, <1>2, <1>4 DEF ClaimIsExclusive, Holds
  <2>2. Holds(w, Note(w))'
    BY <1>2 DEF Holds, InTxn
  <2> QED BY <2>1, <2>2 DEF Recording
<1> QED BY <1>3, <1>4, <1>5

LEMMA SendAcceptedInv ==
    ASSUME Inv, NEW w \in Workers, SendAccepted(w)
    PROVE  Inv'
<1> USE DEF SendAccepted, Goto
<1>0. pc[w] \in InTxn /\ ~AcceptedOnly(w)
  BY DEF InTxn, AcceptedOnly
<1>1. txn[w].attempts = 0 /\ txn[w] \in Row
  BY DEF Inv, TxnShape, TypeOK
<1>2. /\ Marked(txn[w], "sent") \in Row
      /\ Marked(txn[w], "sent").status = "sent"
      /\ Marked(txn[w], "sent").attempts = 1
  BY <1>1, MarkedIsRow DEF NotificationStatus
<1>3. TypeOK'
  BY <1>0, <1>2, InTxnFacts DEF Inv, TypeOK, Labels, InTxn, Bump
<1>4. OnlyWorker(w) /\ pc'[w] \in InTxn /\ AcceptedOnly(w)'
  BY <1>2 DEF Inv, TypeOK, OnlyWorker, InTxn, AcceptedOnly
<1>5. TxnShape'
  BY <1>2 DEF Inv, TypeOK, TxnShape
<1>6. DeliveryAccounted'
  <2> SUFFICES ASSUME NEW n \in Notifs
               PROVE  delivered'[n] = unrecorded'[n] + Recorded(n)' + Recording(n)'
    BY DEF DeliveryAccounted
  <2>1. delivered[n] = unrecorded[n] + Recorded(n) + Recording(n)
    BY DEF Inv, DeliveryAccounted
  <2>2. delivered \in [Notifs -> Nat] /\ unrecorded \in [Notifs -> Nat]
    BY DEF Inv, TypeOK
  <2>3. CASE n = Note(w)
    <3>1. Recording(n)' = 1
      BY <1>0, <1>3, <1>4, <2>3, StayInTxn DEF Note
    <3>2. Recording(n) = 0 /\ Recorded(n) = 0 /\ Recorded(n)' = 0
      BY <1>0, <2>3, InTxnFacts DEF Recorded
    <3> QED BY <2>1, <2>2, <2>3, <3>1, <3>2 DEF Bump
  <2>4. CASE n # Note(w)
    <3>1. Recording(n)' = Recording(n)
      BY <1>4, <2>4, OtherRowsKeep DEF Inv
    <3> QED BY <2>1, <2>2, <2>4, <3>1 DEF Bump, Recorded
  <2> QED BY <2>3, <2>4
<1> QED BY <1>0, <1>3, <1>4, <1>5, <1>6, StayInTxn DEF Inv

(* Steps that stay in the transaction and accept nothing.                  *)
LEMMA QuietStep ==
    ASSUME Inv, TypeOK', NEW w \in Workers, OnlyWorker(w),
           pc[w] \in InTxn, pc'[w] \in InTxn, job' = job, row' = row,
           ~AcceptedOnly(w), ~AcceptedOnly(w)',
           TxnShape',
           \A n \in Notifs : delivered'[n] - delivered[n] = unrecorded'[n] - unrecorded[n]
    PROVE  Inv'
<1>1. DeliveryAccounted'
  <2> SUFFICES ASSUME NEW n \in Notifs
               PROVE  delivered'[n] = unrecorded'[n] + Recorded(n)' + Recording(n)'
    BY DEF DeliveryAccounted
  <2>1. delivered[n] = unrecorded[n] + Recorded(n) + Recording(n)
    BY DEF Inv, DeliveryAccounted
  <2>2. /\ delivered[n] \in Nat /\ delivered'[n] \in Nat
        /\ unrecorded[n] \in Nat /\ unrecorded'[n] \in Nat
    BY DEF Inv, TypeOK
  <2>3. Recording(n)' = Recording(n)
    <3>1. CASE n = Note(w)
      BY <3>1, StayInTxn, InTxnFacts DEF Note
    <3>2. CASE n # Note(w)
      BY <3>2, OtherRowsKeep DEF Inv
    <3> QED BY <3>1, <3>2
  <2>4. Recorded(n)' = Recorded(n) /\ Recorded(n) \in Nat /\ Recording(n) \in Nat
    BY DEF Recorded, Recording
  <2> QED BY <2>1, <2>2, <2>3, <2>4
<1> QED BY <1>1, StayInTxn DEF Inv

LEMMA SendRefusedInv ==
    ASSUME Inv, NEW w \in Workers, SendRefused(w)
    PROVE  Inv'
<1> USE DEF SendRefused, Goto
<1>1. txn[w].attempts = 0 /\ txn[w] \in Row
  BY DEF Inv, TxnShape, TypeOK
<1>2. /\ Marked(txn[w], "failed") \in Row
      /\ Marked(txn[w], "failed").status = "failed"
      /\ Marked(txn[w], "failed").attempts = 1
  BY <1>1, MarkedIsRow DEF NotificationStatus
<1>3. TypeOK'
  BY <1>2 DEF Inv, TypeOK, Labels, InTxn, historyVars
<1>4. OnlyWorker(w) /\ pc[w] \in InTxn /\ pc'[w] \in InTxn
  BY DEF Inv, TypeOK, OnlyWorker, InTxn
<1>5. ~AcceptedOnly(w) /\ ~AcceptedOnly(w)'
  BY <1>2 DEF Inv, TypeOK, AcceptedOnly
<1>6. TxnShape'
  BY <1>2 DEF Inv, TypeOK, TxnShape
<1>7. \A n \in Notifs : delivered'[n] - delivered[n] = unrecorded'[n] - unrecorded[n]
  BY DEF Inv, TypeOK, historyVars
<1> QED BY <1>3, <1>4, <1>5, <1>6, <1>7, QuietStep

LEMMA SendFailedInv ==
    ASSUME Inv, NEW w \in Workers, NEW accepted \in BOOLEAN, SendFailed(w, accepted)
    PROVE  Inv'
<1> USE DEF SendFailed, Goto
<1>1. Marked(txn[w], "pending") \in Row
  BY MarkedIsRow DEF Inv, TypeOK, NotificationStatus
<1>2. OnlyWorker(w) /\ pc[w] \in InTxn /\ pc'[w] \in InTxn
  BY DEF Inv, TypeOK, OnlyWorker, InTxn
<1>3. Note(w) \in Notifs
  BY <1>2, InTxnFacts
<1>4. TypeOK'
  <2>1. faults' \in 0..MaxFaults
    BY DeliveryAssumption DEF Inv, TypeOK
  <2>2. failures' \in [Notifs -> 0..MaxAttempts]
    BY DeliveryAssumption, <1>3 DEF Inv, TypeOK
  <2>3. delivered' \in [Notifs -> Nat] /\ unrecorded' \in [Notifs -> Nat]
    BY DEF Inv, TypeOK, Bump
  <2>4. row' \in [Notifs -> Row] /\ fan' \subseteq Notifs /\ stale' \subseteq Notifs
        /\ sendq' \in [Messages -> 0..MaxQueued]
    BY DEF Inv, TypeOK
  <2>5. /\ pc' \in [Workers -> Labels] /\ job' \in [Workers -> Messages \cup {NoMsg}]
        /\ txn' \in [Workers -> Row]
        /\ \A v \in Workers : pc'[v] # "idle" => job'[v] \in Messages
    BY <1>1 DEF Inv, TypeOK, Labels, InTxn
  <2> QED BY <2>1, <2>2, <2>3, <2>4, <2>5 DEF TypeOK
<1>5. ~AcceptedOnly(w) /\ ~AcceptedOnly(w)' /\ TxnShape'
  BY DEF Inv, TypeOK, AcceptedOnly, TxnShape
<1>6. \A n \in Notifs : delivered'[n] - delivered[n] = unrecorded'[n] - unrecorded[n]
  BY DEF Inv, TypeOK, Bump
<1> QED BY <1>2, <1>4, <1>5, <1>6, QuietStep

LEMMA RetryInv ==
    ASSUME Inv, NEW w \in Workers, Retry(w)
    PROVE  Inv'
<1> USE DEF Retry, Goto
<1>1. OnlyWorker(w) /\ pc[w] \in InTxn /\ pc'[w] \in InTxn
  BY DEF Inv, TypeOK, OnlyWorker, InTxn
<1>2. sendq' \in [Messages -> 0..MaxQueued]
  <2>1. job[w] \in Messages
    BY <1>1, InTxnFacts
  <2>2. job[w][2] < MaxRetries => <<Note(w), job[w][2] + 1>> \in Messages
    BY <2>1, DeliveryAssumption DEF Messages, Note
  <2> QED BY <2>2, PublishType DEF Inv, TypeOK
<1>3. TypeOK'
  BY <1>2 DEF Inv, TypeOK, Labels, InTxn, historyVars
<1>4. ~AcceptedOnly(w) /\ ~AcceptedOnly(w)' /\ TxnShape'
  BY DEF Inv, TypeOK, AcceptedOnly, TxnShape
<1>5. \A n \in Notifs : delivered'[n] - delivered[n] = unrecorded'[n] - unrecorded[n]
  BY DEF Inv, TypeOK, historyVars
<1> QED BY <1>1, <1>3, <1>4, <1>5, QuietStep DEF Inv

-----------------------------------------------------------------------------
(* The steps that end a transaction, or a task.                            *)
LEMMA Leave ==
    ASSUME Inv, NEW w \in Workers, OnlyWorker(w), pc'[w] \in {"idle", "ack"}
    PROVE  /\ ClaimIsExclusive' /\ TxnShape'
           /\ \A v \in Workers : pc'[v] \in InTxn =>
                 v # w /\ pc[v] \in InTxn /\ Note(v)' = Note(v)
           /\ \A n \in Notifs :
                 Recording(n)' = IF Holds(w, n) THEN 0 ELSE Recording(n)
<1>1. \A v \in Workers : pc'[v] \in InTxn =>
         v # w /\ pc[v] \in InTxn /\ Note(v)' = Note(v)
  BY DEF OnlyWorker, Note, InTxn
<1>2. ClaimIsExclusive'
  BY <1>1 DEF Inv, ClaimIsExclusive
<1>3. TxnShape'
  BY DEF Inv, TxnShape, OnlyWorker
<1>4. ASSUME NEW n \in Notifs
      PROVE  Recording(n)' = IF Holds(w, n) THEN 0 ELSE Recording(n)
  <2>1. ~Holds(w, n)'
    BY DEF Holds, InTxn
  <2>2. CASE Holds(w, n)
    <3>1. \A v \in Workers : ~Holds(v, n)'
      BY <1>1, <2>2 DEF Inv, ClaimIsExclusive, Holds
    <3> QED BY <2>2, <3>1 DEF Recording
  <2>3. CASE ~Holds(w, n)
    BY <2>1, <2>3, OthersKeep DEF Inv, OnlyWorker
  <2> QED BY <2>2, <2>3
<1> QED BY <1>1, <1>2, <1>3, <1>4

(* ... without committing: what the worker accepted and did not record is  *)
(* what unrecorded must grow by.                                           *)
LEMMA LeaveWithoutCommit ==
    ASSUME Inv, TypeOK', NEW w \in Workers, OnlyWorker(w), pc'[w] \in {"idle", "ack"},
           UNCHANGED <<row, delivered>>,
           unrecorded' = IF AcceptedOnly(w) THEN Bump(unrecorded, Note(w)) ELSE unrecorded
    PROVE  Inv'
<1>1. SendingNeverCommitted' /\ AttemptsCountOutcomes'
  BY DEF Inv, SendingNeverCommitted, AttemptsCountOutcomes
<1>2. LockedRowsArePending'
  BY Leave DEF Inv, LockedRowsArePending
<1>3. DeliveryAccounted'
  <2> SUFFICES ASSUME NEW n \in Notifs
               PROVE  delivered'[n] = unrecorded'[n] + Recorded(n)' + Recording(n)'
    BY DEF DeliveryAccounted
  <2>1. /\ delivered[n] = unrecorded[n] + Recorded(n) + Recording(n)
        /\ Recorded(n)' = Recorded(n)
        /\ unrecorded \in [Notifs -> Nat]
        /\ Recorded(n) \in Nat /\ Recording(n) \in Nat
    BY DEF Inv, TypeOK, DeliveryAccounted, Recorded, Recording
  <2>2. Recording(n)' = IF Holds(w, n) THEN 0 ELSE Recording(n)
    BY Leave
  <2>3. CASE Holds(w, n)
    <3>1. Recording(n) = IF AcceptedOnly(w) THEN 1 ELSE 0
      BY <2>3, HolderDecides DEF Inv, Holds
    <3> QED BY <2>1, <2>2, <2>3, <3>1 DEF Bump, Holds
  <2>4. CASE ~Holds(w, n)
    <3>1. unrecorded'[n] = unrecorded[n]
      BY <2>1, <2>4 DEF Bump, Holds, AcceptedOnly, InTxn
    <3> QED BY <2>1, <2>2, <2>4, <3>1
  <2> QED BY <2>3, <2>4
<1> QED BY <1>1, <1>2, <1>3, Leave DEF Inv

LEMMA RollbackInv ==
    ASSUME Inv, NEW w \in Workers, Rollback(w)
    PROVE  Inv'
<1> USE DEF Rollback, Goto, Discard, historyVars
<1>1. TypeOK'
  BY DEF Inv, TypeOK, Labels, InTxn, Absent, Row
<1>2. OnlyWorker(w) /\ pc'[w] \in {"idle", "ack"} /\ ~AcceptedOnly(w)
  BY DEF Inv, TypeOK, OnlyWorker, AcceptedOnly
<1> QED BY <1>1, <1>2, LeaveWithoutCommit

LEMMA AckInv ==
    ASSUME Inv, NEW w \in Workers, Ack(w)
    PROVE  Inv'
<1> USE DEF Ack, Release, Goto, Discard, historyVars
<1>1. TypeOK'
  BY DEF Inv, TypeOK, Labels, Absent, Row
<1>2. OnlyWorker(w) /\ pc'[w] \in {"idle", "ack"} /\ ~AcceptedOnly(w)
  BY DEF Inv, TypeOK, OnlyWorker, AcceptedOnly
<1> QED BY <1>1, <1>2, LeaveWithoutCommit

LEMMA AbortInv ==
    ASSUME Inv, NEW w \in Workers, pc[w] # "idle", Abort(w),
           sendq' \in [Messages -> 0..MaxQueued]
    PROVE  Inv'
<1> USE DEF Abort, Release, Goto, Discard
<1>1. faults' \in 0..MaxFaults
  BY DeliveryAssumption DEF Inv, TypeOK
<1>2. unrecorded' \in [Notifs -> Nat]
  <2>1. unrecorded \in [Notifs -> Nat] /\ Bump(unrecorded, Note(w)) \in [Notifs -> Nat]
    BY BumpType DEF Inv, TypeOK, Note, Messages
  <2> QED BY <2>1
<1>3. TypeOK'
  <2>1. Absent \in Row
    BY DEF Absent, Row
  <2>2. /\ pc' \in [Workers -> Labels] /\ job' \in [Workers -> Messages \cup {NoMsg}]
        /\ txn' \in [Workers -> Row]
        /\ \A v \in Workers : pc'[v] # "idle" => job'[v] \in Messages
    BY <2>1 DEF Inv, TypeOK, Labels
  <2> QED BY <1>1, <1>2, <2>2 DEF Inv, TypeOK
<1>4. OnlyWorker(w) /\ pc'[w] \in {"idle", "ack"}
  BY DEF Inv, TypeOK, OnlyWorker
<1> QED BY <1>3, <1>4, LeaveWithoutCommit

LEMMA CommitInv ==
    ASSUME Inv, NEW w \in Workers, Commit(w)
    PROVE  Inv'
<1> USE DEF Commit, Goto, Discard, historyVars
<1>1. TypeOK'
  BY DEF Inv, TypeOK, Labels, Absent, Row
<1>2. OnlyWorker(w) /\ pc'[w] \in {"idle", "ack"} /\ pc[w] \in InTxn
  BY DEF Inv, TypeOK, OnlyWorker, InTxn
<1>3. Note(w) \in Notifs /\ row'[Note(w)] = txn[w]
  BY <1>2, InTxnFacts DEF Inv, TypeOK
<1>4. \A n \in Notifs \ {Note(w)} : row'[n] = row[n]
  BY DEF Inv, TypeOK
<1>5. txn[w].status \in {"sent", "failed"} /\ txn[w].attempts = 1
  BY DEF Inv, TxnShape
<1>6. SendingNeverCommitted' /\ AttemptsCountOutcomes'
  BY <1>3, <1>4, <1>5 DEF Inv, SendingNeverCommitted, AttemptsCountOutcomes
<1>7. LockedRowsArePending'
  <2> SUFFICES ASSUME NEW v \in Workers, pc'[v] \in InTxn
               PROVE  row'[Note(v)'].status = "pending"
    BY DEF LockedRowsArePending
  <2>1. v # w /\ pc[v] \in InTxn /\ Note(v)' = Note(v)
    BY <1>2, Leave
  <2>2. Note(v) \in Notifs /\ row[Note(v)].status = "pending" /\ Note(v) # Note(w)
    BY <1>2, <2>1, InTxnFacts DEF Inv, ClaimIsExclusive
  <2> QED BY <1>4, <2>1, <2>2
<1>8. DeliveryAccounted'
  <2> SUFFICES ASSUME NEW n \in Notifs
               PROVE  delivered'[n] = unrecorded'[n] + Recorded(n)' + Recording(n)'
    BY DEF DeliveryAccounted
  <2>1. delivered[n] = unrecorded[n] + Recorded(n) + Recording(n)
    BY DEF Inv, DeliveryAccounted
  <2>2. Recording(n)' = IF Holds(w, n) THEN 0 ELSE Recording(n)
    BY <1>2, Leave
  <2>3. unrecorded[n] \in Nat
    BY DEF Inv, TypeOK
  <2>4. CASE n = Note(w)
    <3>1. Recorded(n)' = IF AcceptedOnly(w) THEN 1 ELSE 0
      BY <1>3, <2>4 DEF Recorded, AcceptedOnly
    <3>2. Recorded(n) = 0 /\ Recording(n) = IF AcceptedOnly(w) THEN 1 ELSE 0
      BY <1>2, <2>4, InTxnFacts
    <3> QED BY <1>2, <2>1, <2>2, <2>3, <2>4, <3>1, <3>2 DEF Holds
  <2>5. CASE n # Note(w)
    BY <1>4, <2>1, <2>2, <2>5 DEF Recorded, Holds
  <2> QED BY <2>4, <2>5
<1> QED BY <1>1, <1>2, <1>6, <1>7, <1>8, Leave DEF Inv

-----------------------------------------------------------------------------
(* The sweep's UPDATE finds nothing to change.                             *)
LEMMA SweepKeepsRows ==
    ASSUME Inv, SweepSelect
    PROVE  row' = row
<1>1. ASSUME NEW n \in Notifs, Sweepable(n)
      PROVE  [row[n] EXCEPT !.status = "pending"] = row[n]
  <2>1. row[n] \in Row /\ row[n].status = "pending"
    BY <1>1 DEF Inv, TypeOK, SendingNeverCommitted, Sweepable
  <2> QED BY <2>1 DEF Row
<1> QED BY <1>1 DEF Inv, TypeOK, SweepSelect

-----------------------------------------------------------------------------
(* Messages that poll_section and the sweep send.                          *)
LEMMA MessageStepInv ==
    ASSUME Inv,
           NEW n \in Notifs, NEW S \in SUBSET Notifs,
           FanOut(n) \/ LoseFanOut(S) \/ SweepSelect \/ SweepPublish(n) \/ SweepLost
    PROVE  Inv'
<1> USE DEF historyVars, workerVars
<1>1. <<n, 0>> \in Messages
  BY DeliveryAssumption DEF Messages
<1>2. CASE FanOut(n)
  <2>1. TypeOK'
    BY <1>1, <1>2, PublishType DEF Inv, TypeOK, FanOut
  <2> QED BY <1>2, <2>1, CoreFrame DEF FanOut, core
<1>3. CASE LoseFanOut(S)
  <2>1. TypeOK'
    BY <1>3, DeliveryAssumption DEF Inv, TypeOK, LoseFanOut
  <2> QED BY <1>3, <2>1, CoreFrame DEF LoseFanOut, core
<1>4. CASE SweepSelect
  <2>2. row' = row
    BY <1>4, SweepKeepsRows
  <2>3. TypeOK'
    BY <1>4, <2>2 DEF Inv, TypeOK, SweepSelect
  <2> QED BY <1>4, <2>2, <2>3, CoreFrame DEF SweepSelect, core
<1>5. CASE SweepPublish(n)
  <2>1. TypeOK'
    BY <1>1, <1>5, PublishType DEF Inv, TypeOK, SweepPublish
  <2> QED BY <1>5, <2>1, CoreFrame DEF SweepPublish, core
<1>6. CASE SweepLost
  <2>1. TypeOK'
    BY <1>6, DeliveryAssumption DEF Inv, TypeOK, SweepLost
  <2> QED BY <1>6, <2>1, CoreFrame DEF SweepLost, core
<1> QED BY <1>2, <1>3, <1>4, <1>5, <1>6

LEMMA InitInv == Init => Inv
<1> SUFFICES ASSUME Init PROVE Inv
  OBVIOUS
<1> USE DEF Init
<1>1. TypeOK
  BY DeliveryAssumption DEF TypeOK, Labels, Absent, Row
<1>2. SendingNeverCommitted /\ AttemptsCountOutcomes
  BY DEF SendingNeverCommitted, AttemptsCountOutcomes, Absent
<1>3. ClaimIsExclusive /\ LockedRowsArePending /\ TxnShape
  BY DEF ClaimIsExclusive, LockedRowsArePending, TxnShape, InTxn
<1>4. DeliveryAccounted
  <2>1. \A n \in Notifs : Recording(n) = 0
    <3> SUFFICES ASSUME NEW n \in Notifs PROVE Recording(n) = 0
      OBVIOUS
    <3>1. \A w \in Workers : ~Holds(w, n)
      BY DEF Holds, InTxn
    <3> QED BY <3>1, NobodyRecording
  <2>2. \A n \in Notifs : row[n].status = "absent"
    BY DEF Absent
  <2>3. \A n \in Notifs : delivered[n] = 0 /\ unrecorded[n] = 0 /\ Recorded(n) = 0
    BY <2>2 DEF Recorded
  <2>4. \A n \in Notifs : delivered[n] = unrecorded[n] + Recorded(n) + Recording(n)
    <3> SUFFICES ASSUME NEW n \in Notifs
                 PROVE  delivered[n] = unrecorded[n] + Recorded(n) + Recording(n)
      OBVIOUS
    <3>1. delivered[n] = 0 /\ unrecorded[n] = 0 /\ Recorded(n) = 0 /\ Recording(n) = 0
      BY <2>1, <2>3
    <3> QED BY <3>1
  <2> QED BY <2>4 DEF DeliveryAccounted
<1> QED BY <1>1, <1>2, <1>3, <1>4 DEF Inv

LEMMA NextInv == Inv /\ [Next]_vars => Inv'
<1> SUFFICES ASSUME Inv, [Next]_vars PROVE Inv'
  OBVIOUS
<1>1. ASSUME NEW S \in SUBSET Notifs, QueueNotifications(S) PROVE Inv'
  BY <1>1, QueueNotificationsInv
<1>2. ASSUME NEW S \in SUBSET Notifs, LoseFanOut(S) PROVE Inv'
  <2>1. PICK n \in Notifs : n \in S
    BY <1>2 DEF LoseFanOut
  <2> QED BY <1>2, <2>1, MessageStepInv
<1>2a. ASSUME NEW n \in Notifs, FanOut(n) PROVE Inv'
  <2>1. {n} \in SUBSET Notifs
    OBVIOUS
  <2> QED BY <1>2a, <2>1, MessageStepInv
<1>3. CASE Sweep
  <2>1. PICK n \in Notifs : SweepSelect \/ SweepLost \/ SweepPublish(n)
    BY <1>3 DEF Sweep, SweepSelect, SweepLost, Inv, TypeOK
  <2>2. {n} \in SUBSET Notifs
    OBVIOUS
  <2> QED BY <2>1, <2>2, MessageStepInv
<1>4. ASSUME NEW w \in Workers, SendNotification(w) PROVE Inv'
  <2>1. CASE \E m \in Messages : Take(w, m)
    BY <2>1, TakeInv
  <2>2. CASE Claim(w)
    BY <2>2, ClaimInv
  <2>3. CASE SendAccepted(w)
    BY <2>3, SendAcceptedInv
  <2>4. CASE SendRefused(w)
    BY <2>4, SendRefusedInv
  <2>5. CASE \E accepted \in BOOLEAN : SendFailed(w, accepted)
    BY <2>5, SendFailedInv
  <2>6. CASE Retry(w)
    BY <2>6, RetryInv
  <2>7. CASE Rollback(w)
    BY <2>7, RollbackInv
  <2>8. CASE Commit(w)
    BY <2>8, CommitInv
  <2>9. CASE Ack(w)
    BY <2>9, AckInv
  <2>10. CASE WorkerLost(w)
    <3>1. job[w] \in Messages /\ sendq \in [Messages -> 0..MaxQueued]
      BY <2>10 DEF WorkerLost, Inv, TypeOK
    <3> QED BY <2>10, <3>1, PublishType, AbortInv DEF WorkerLost
  <2>11. CASE TimeLimit(w)
    <3>1. pc[w] # "idle" /\ sendq' \in [Messages -> 0..MaxQueued]
      BY <2>11 DEF TimeLimit, Inv, TypeOK, InTxn
    <3> QED BY <2>11, <3>1, AbortInv DEF TimeLimit
  <2> QED BY <1>4, <2>1, <2>2, <2>3, <2>4, <2>5, <2>6, <2>7, <2>8, <2>9, <2>10, <2>11
          DEF SendNotification
<1>5. CASE UNCHANGED vars
  <2>1. TypeOK' /\ UNCHANGED core
    BY <1>5 DEF vars, core, workerVars, historyVars, Inv, TypeOK
  <2> QED BY <2>1, CoreFrame
<1> QED BY <1>1, <1>2, <1>2a, <1>3, <1>4, <1>5 DEF Next, Poll

THEOREM InvIsInvariant == Spec => []Inv
<1> QED BY InitInv, NextInv, PTL DEF Spec

-----------------------------------------------------------------------------
(* What a reader should take away.                                         *)

THEOREM TypeCorrect == Spec => []TypeOK
<1> QED BY InvIsInvariant, PTL DEF Inv

(* No other session can ever see a row in "sending".                       *)
THEOREM SendingIsPrivate == Spec => []SendingNeverCommitted
<1> QED BY InvIsInvariant, PTL DEF Inv

(* At most one worker is between claiming a notification and the end of    *)
(* its transaction, however many messages name it.                         *)
THEOREM ClaimsAreExclusive == Spec => []ClaimIsExclusive
<1> QED BY InvIsInvariant, PTL DEF Inv

(* A transient failure leaves no trace in attempts.                        *)
THEOREM AttemptsAreOutcomes == Spec => []AttemptsCountOutcomes
<1> QED BY InvIsInvariant, PTL DEF Inv

(* The deliveries of an alert are those that rows and workers record plus  *)
(* those whose record a fault destroyed.                                   *)
THEOREM DeliveriesAreAccounted == Spec => []DeliveryAccounted
<1> QED BY InvIsInvariant, PTL DEF Inv

(* Without a fault there is no second delivery: the doc's claim holds      *)
(* wherever nothing was lost between accepting and committing.             *)
LoseNothingNoDuplicate ==
    \A n \in Notifs : unrecorded[n] = 0 => delivered[n] <= 1

THEOREM NoFaultNoDuplicate == Spec => []LoseNothingNoDuplicate
<1>1. Inv => LoseNothingNoDuplicate
  <2> SUFFICES ASSUME Inv, NEW n \in Notifs, unrecorded[n] = 0
               PROVE  delivered[n] <= 1
    BY DEF LoseNothingNoDuplicate
  <2>1. delivered[n] = Recorded(n) + Recording(n)
    BY DEF Inv, TypeOK, DeliveryAccounted, Recorded, Recording
  <2>2. CASE \E w \in Workers : Holds(w, n)
    <3>1. Recorded(n) = 0
      BY <2>2, InTxnFacts DEF Holds
    <3> QED BY <2>1, <3>1 DEF Recording
  <2>3. CASE \A w \in Workers : ~Holds(w, n)
    BY <2>1, <2>3, NobodyRecording DEF Recorded
  <2> QED BY <2>2, <2>3
<1> QED BY <1>1, InvIsInvariant, PTL

(* Beyond the deliveries whose record a fault destroyed an alert reaches   *)
(* its student once at most, and only if it is a row of the table.         *)
AtMostOneKept ==
    \A n \in Notifs :
        /\ delivered[n] \in Nat /\ unrecorded[n] \in Nat
        /\ delivered[n] > unrecorded[n] =>
               delivered[n] = unrecorded[n] + 1 /\ row[n] # Absent

THEOREM OneDeliveryIsKept == Spec => []AtMostOneKept
<1>1. Inv => AtMostOneKept
  <2> SUFFICES ASSUME Inv, NEW n \in Notifs
               PROVE  /\ delivered[n] \in Nat /\ unrecorded[n] \in Nat
                      /\ delivered[n] > unrecorded[n] =>
                             delivered[n] = unrecorded[n] + 1 /\ row[n] # Absent
    BY DEF AtMostOneKept
  <2>1. /\ delivered[n] \in Nat /\ unrecorded[n] \in Nat
        /\ delivered[n] = unrecorded[n] + Recorded(n) + Recording(n)
    BY DEF Inv, TypeOK, DeliveryAccounted
  <2>2. /\ Recorded(n) \in {0, 1} /\ Recording(n) \in {0, 1}
        /\ Recorded(n) = 1 => row[n].status = "sent"
        /\ Recording(n) = 1 => row[n].status = "pending"
    BY DEF Recorded, Recording, Holds, Inv, LockedRowsArePending
  <2>3. row[n].status \in {"sent", "pending"} => row[n] # Absent
    BY DEF Absent
  <2> QED BY <2>1, <2>2, <2>3
<1> QED BY <1>1, InvIsInvariant, PTL

(* A recorded outcome stays, and ends all contact with the channel.        *)
THEOREM OutcomesAreFinal == Spec => OutcomeIsFinal
<1>1. ASSUME Inv, [Next]_vars, NEW n \in Notifs, row[n].status \in {"sent", "failed"}
      PROVE  row'[n] = row[n] /\ delivered'[n] = delivered[n]
  <2> USE DEF historyVars, workerVars
  <2>1. \A w \in Workers : pc[w] \in InTxn => Note(w) # n
    BY <1>1 DEF Inv, LockedRowsArePending
  <2>2. ASSUME NEW S \in SUBSET Notifs, QueueNotifications(S)
        PROVE  row'[n] = row[n] /\ delivered'[n] = delivered[n]
    BY <1>1, <2>2 DEF QueueNotifications, Absent, Inv, TypeOK
  <2>3. ASSUME NEW m \in Notifs, NEW S \in SUBSET Notifs, FanOut(m) \/ LoseFanOut(S)
        PROVE  row'[n] = row[n] /\ delivered'[n] = delivered[n]
    BY <2>3 DEF FanOut, LoseFanOut
  <2>4. CASE Sweep
    BY <1>1, <2>4 DEF Sweep, SweepSelect, SweepLost, SweepPublish, Sweepable, Inv, TypeOK
  <2>5. ASSUME NEW w \in Workers, SendNotification(w)
        PROVE  row'[n] = row[n] /\ delivered'[n] = delivered[n]
    <3>1. CASE SendAccepted(w)
      BY <2>1, <3>1 DEF SendAccepted, InTxn, Bump, Inv, TypeOK
    <3>2. CASE \E accepted \in BOOLEAN : SendFailed(w, accepted)
      <4>1. PICK accepted \in BOOLEAN : SendFailed(w, accepted)
        BY <3>2
      <4>2. Note(w) # n /\ Note(w) \in Notifs
        BY <1>1, <2>1, <4>1, InTxnFacts DEF SendFailed, InTxn
      <4>3. delivered' = delivered \/ delivered' = Bump(delivered, Note(w))
        BY <4>1 DEF SendFailed
      <4> QED BY <1>1, <4>1, <4>2, <4>3, BumpType DEF SendFailed, Inv, TypeOK
    <3>3. CASE Commit(w)
      BY <1>1, <2>1, <3>3 DEF Commit, InTxn, Inv, TypeOK
    <3>4. CASE \/ \E m \in Messages : Take(w, m)
               \/ Claim(w) \/ SendRefused(w) \/ Retry(w) \/ Rollback(w) \/ Ack(w)
      BY <3>4 DEF Take, Claim, SendRefused, Retry, Rollback, Ack
    <3>5. CASE WorkerLost(w) \/ TimeLimit(w)
      BY <3>5 DEF WorkerLost, TimeLimit, Abort
    <3> QED BY <2>5, <3>1, <3>2, <3>3, <3>4, <3>5 DEF SendNotification
  <2>6. CASE UNCHANGED vars
    BY <2>6 DEF vars
  <2> QED BY <1>1, <2>2, <2>3, <2>4, <2>5, <2>6 DEF Next, Poll
<1>2. Inv /\ [Next]_vars =>
         [\A n \in Notifs :
             row[n].status \in {"sent", "failed"}
                 => row'[n] = row[n] /\ delivered'[n] = delivered[n]]_vars
  BY <1>1
<1> QED BY <1>2, InvIsInvariant, PTL DEF Spec, OutcomeIsFinal

-----------------------------------------------------------------------------
(* Delivery implements AlertLedger.  The accounts of Inv say what the      *)
(* ledger's reached is without looking at the workers, so that a step is   *)
(* seen in the ledger exactly if it changes row or unrecorded.             *)
LEMMA ReachedIsAccounted ==
    ASSUME Inv, NEW n \in Notifs
    PROVE  /\ delivered[n] - Recording(n) = unrecorded[n] + Recorded(n)
           /\ unrecorded[n] \in Nat
<1>1. /\ delivered[n] = unrecorded[n] + Recorded(n) + Recording(n)
      /\ unrecorded[n] \in Nat
  BY DEF Inv, TypeOK, DeliveryAccounted
<1>2. Recorded(n) \in Nat /\ Recording(n) \in Nat
  BY DEF Recorded, Recording
<1> QED BY <1>1, <1>2

LEMMA LedgerStutters ==
    ASSUME Inv, Inv', row' = row, unrecorded' = unrecorded
    PROVE  UNCHANGED Ledger!ledger
<1>1. \A n \in Notifs : Verdict(n)' = Verdict(n)
  BY DEF Verdict
<1>2. ASSUME NEW n \in Notifs
      PROVE  delivered'[n] - Recording(n)' = delivered[n] - Recording(n)
  <2>1. Recorded(n)' = Recorded(n)
    BY DEF Recorded
  <2>2. /\ delivered'[n] = unrecorded'[n] + Recorded(n)' + Recording(n)'
        /\ unrecorded'[n] \in Nat /\ Recorded(n)' \in Nat /\ Recording(n)' \in Nat
    BY DEF Inv, TypeOK, DeliveryAccounted, Recorded, Recording
  <2> QED BY <2>1, <2>2, ReachedIsAccounted
<1> QED BY <1>1, <1>2 DEF Ledger!ledger

LEMMA LedgerStrays ==
    ASSUME Inv, Inv', NEW n \in Notifs, row' = row, row[n].status = "pending",
           unrecorded' = Bump(unrecorded, n)
    PROVE  Ledger!Stray(n)
<1>1. \A m \in Notifs : Verdict(m)' = Verdict(m)
  BY DEF Verdict
<1>2. Verdict(n) = "pending"
  BY DEF Verdict, Absent
<1>3. ASSUME NEW m \in Notifs
      PROVE  delivered'[m] - Recording(m)'
               = IF m = n THEN delivered[m] - Recording(m) + 1
                          ELSE delivered[m] - Recording(m)
  <2>1. Recorded(m)' = Recorded(m) /\ Recorded(m) \in Nat
    BY DEF Recorded
  <2>2. /\ delivered'[m] = unrecorded'[m] + Recorded(m)' + Recording(m)'
        /\ unrecorded'[m] \in Nat /\ Recording(m)' \in Nat
    BY DEF Inv, TypeOK, DeliveryAccounted, Recording
  <2>3. unrecorded'[m] = IF m = n THEN unrecorded[m] + 1 ELSE unrecorded[m]
    BY DEF Inv, TypeOK, Bump
  <2> QED BY <2>1, <2>2, <2>3, ReachedIsAccounted
<1> QED BY <1>1, <1>2, <1>3 DEF Ledger!Stray, Bump

LEMMA LedgerQueues ==
    ASSUME Inv, Inv', NEW S \in SUBSET Notifs, QueueNotifications(S)
    PROVE  Ledger!Queue(S)
<1>1. \A n \in S : Verdict(n) = "none"
  BY DEF QueueNotifications, Verdict, Absent
<1>2. \A n \in Notifs : Verdict(n)' = IF n \in S THEN "pending" ELSE Verdict(n)
  BY DEF QueueNotifications, Verdict, Absent
<1>3. ASSUME NEW n \in Notifs
      PROVE  delivered'[n] - Recording(n)' = delivered[n] - Recording(n)
  BY DEF QueueNotifications, workerVars, historyVars, Recording, Holds, AcceptedOnly, Note
<1> QED BY <1>1, <1>2, <1>3 DEF Ledger!Queue, QueueNotifications, historyVars

(* The commit of an outcome.                                               *)
LEMMA LedgerCommits ==
    ASSUME Inv, Inv', NEW w \in Workers, Commit(w), NEW n \in Notifs, n = Note(w)
    PROVE  Ledger!Send(n) \/ Ledger!Refuse(n)
<1>1. row[n].status = "pending" /\ Recorded(n) = 0
  BY InTxnFacts DEF InTxn, Commit
<1>2. /\ row'[n] = txn[w] /\ txn[w].status \in {"sent", "failed"} /\ unrecorded' = unrecorded
      /\ \A m \in Notifs \ {n} : row'[m] = row[m]
  BY DEF Inv, TypeOK, TxnShape, Commit, historyVars
<1>3. Verdict(n) = "pending" /\ Verdict(n)' = txn[w].status
  <2>1. row[n] # Absent /\ row'[n] # Absent
    BY <1>1, <1>2 DEF Absent
  <2> QED BY <1>1, <1>2, <2>1 DEF Verdict
<1>4. \A m \in Notifs \ {n} : Verdict(m)' = Verdict(m)
  BY <1>2 DEF Verdict
<1>5. ASSUME NEW m \in Notifs
      PROVE  delivered'[m] - Recording(m)'
               = delivered[m] - Recording(m) + (Recorded(m)' - Recorded(m))
  <2>1. /\ delivered'[m] = unrecorded'[m] + Recorded(m)' + Recording(m)'
        /\ unrecorded'[m] \in Nat /\ Recorded(m)' \in Nat /\ Recording(m)' \in Nat
        /\ Recorded(m) \in Nat
    BY DEF Inv, TypeOK, DeliveryAccounted, Recorded, Recording
  <2> QED BY <1>2, <2>1, ReachedIsAccounted
<1>6. \A m \in Notifs \ {n} : Recorded(m)' = Recorded(m) /\ Recorded(m) \in Nat
  BY <1>2 DEF Recorded
<1>7. \A m \in Notifs : delivered[m] - Recording(m) \in Int
  BY DEF Inv, TypeOK, Recording
<1>8. CASE txn[w].status = "sent"
  <2>1. Recorded(n)' = 1
    BY <1>2, <1>8 DEF Recorded
  <2>2. \A m \in Notifs : delivered'[m] - Recording(m)'
           = IF m = n THEN delivered[m] - Recording(m) + 1 ELSE delivered[m] - Recording(m)
    BY <1>1, <1>5, <1>6, <1>7, <2>1
  <2> QED BY <1>2, <1>3, <1>4, <1>8, <2>2 DEF Ledger!Send
<1>9. CASE txn[w].status = "failed"
  <2>1. Recorded(n)' = 0
    BY <1>2, <1>9 DEF Recorded
  <2>2. \A m \in Notifs : delivered'[m] - Recording(m)' = delivered[m] - Recording(m)
    BY <1>1, <1>5, <1>6, <1>7, <2>1
  <2> QED BY <1>2, <1>3, <1>4, <1>9, <2>2 DEF Ledger!Refuse
<1> QED BY <1>2, <1>8, <1>9

(* A step of a worker that is neither a commit nor the loss of an          *)
(* acceptance is not seen in the ledger.                                   *)
LEMMA LedgerWorkerStep ==
    ASSUME Inv, Inv', NEW w \in Workers, SendNotification(w)
    PROVE  [Ledger!Next]_(Ledger!ledger)
<1>1. CASE Commit(w)
  <2>1. PICK n \in Notifs : n = Note(w)
    BY <1>1, InTxnFacts DEF Commit, InTxn
  <2>2. Ledger!Send(n) \/ Ledger!Refuse(n)
    BY <1>1, <2>1, LedgerCommits
  <2> QED BY <2>2 DEF Ledger!Next
<1>2. CASE \E accepted \in BOOLEAN : SendFailed(w, accepted)
  <2>1. Note(w) \in Notifs /\ row[Note(w)].status = "pending"
    BY <1>2, InTxnFacts DEF SendFailed, InTxn
  <2>2. row' = row /\ (unrecorded' = unrecorded \/ unrecorded' = Bump(unrecorded, Note(w)))
    BY <1>2 DEF SendFailed
  <2>3. CASE unrecorded' = unrecorded
    BY <2>2, <2>3, LedgerStutters
  <2>4. CASE unrecorded' = Bump(unrecorded, Note(w))
    BY <2>1, <2>2, <2>4, LedgerStrays DEF Ledger!Next
  <2> QED BY <2>2, <2>3, <2>4
<1>3. CASE WorkerLost(w) \/ TimeLimit(w)
  <2>1. /\ row' = row
        /\ unrecorded' = IF AcceptedOnly(w) THEN Bump(unrecorded, Note(w)) ELSE unrecorded
    BY <1>3 DEF WorkerLost, TimeLimit, Abort
  <2>2. CASE AcceptedOnly(w)
    <3>1. Note(w) \in Notifs /\ row[Note(w)].status = "pending"
      BY <2>2, InTxnFacts DEF AcceptedOnly, InTxn
    <3> QED BY <2>1, <2>2, <3>1, LedgerStrays DEF Ledger!Next
  <2>3. CASE ~AcceptedOnly(w)
    BY <2>1, <2>3, LedgerStutters
  <2> QED BY <2>2, <2>3
<1>4. CASE \/ \E m \in Messages : Take(w, m)
           \/ Claim(w) \/ SendAccepted(w) \/ SendRefused(w)
           \/ Retry(w) \/ Rollback(w) \/ Ack(w)
  <2>1. row' = row /\ unrecorded' = unrecorded
    BY <1>4 DEF Take, Claim, SendAccepted, SendRefused, Retry, Rollback, Ack, historyVars
  <2> QED BY <2>1, LedgerStutters
<1> QED BY <1>1, <1>2, <1>3, <1>4 DEF SendNotification

LEMMA LedgerInit == Init => Ledger!Init
<1> SUFFICES ASSUME Init PROVE Ledger!Init
  OBVIOUS
<1>1. \A n \in Notifs : Verdict(n) = "none"
  BY DEF Init, Verdict, Absent
<1>2. ASSUME NEW n \in Notifs
      PROVE  delivered[n] - Recording(n) = 0
  <2>1. Recording(n) = 0
    BY DEF Init, Recording, Holds, InTxn
  <2>2. delivered[n] = 0
    BY DEF Init
  <2> QED BY <2>1, <2>2
<1> QED BY <1>1, <1>2 DEF Init, Ledger!Init

LEMMA LedgerStep == Inv /\ Inv' /\ [Next]_vars => [Ledger!Next]_(Ledger!ledger)
<1> SUFFICES ASSUME Inv, Inv', [Next]_vars PROVE [Ledger!Next]_(Ledger!ledger)
  OBVIOUS
<1>1. ASSUME NEW S \in SUBSET Notifs, QueueNotifications(S)
      PROVE  [Ledger!Next]_(Ledger!ledger)
  BY <1>1, LedgerQueues DEF Ledger!Next
<1>2. ASSUME NEW w \in Workers, SendNotification(w)
      PROVE  [Ledger!Next]_(Ledger!ledger)
  BY <1>2, LedgerWorkerStep
<1>3. CASE SweepSelect
  <2>1. row' = row /\ unrecorded' = unrecorded
    BY <1>3, SweepKeepsRows DEF SweepSelect, historyVars
  <2> QED BY <2>1, LedgerStutters
<1>4. CASE \/ \E S \in SUBSET Notifs : LoseFanOut(S)
           \/ \E n \in Notifs : FanOut(n) \/ SweepPublish(n)
           \/ SweepLost \/ UNCHANGED vars
  <2>1. row' = row /\ unrecorded' = unrecorded
    BY <1>4 DEF LoseFanOut, FanOut, SweepPublish, SweepLost, vars, historyVars
  <2> QED BY <2>1, LedgerStutters
<1> QED BY <1>1, <1>2, <1>3, <1>4 DEF Next, Poll, Sweep

(* Delivering alerts with workers, messages and transactions keeps the     *)
(* ledger: queued once, one final verdict, no stray after it.              *)
THEOREM LedgerIsKept == Spec => ImplementsLedger
<1> QED BY LedgerInit, LedgerStep, InvIsInvariant, PTL
        DEF Spec, ImplementsLedger, Ledger!Spec

=============================================================================

--------------------------- MODULE PollingProofs ---------------------------
(* Proofs about Polling, for every set of sections, watchers and workers   *)
(* and every bound: what survives however polls of a section overlap, and  *)
(* how far overtaken polls can disturb the rest.                           *)
EXTENDS Polling, FiniteSetTheorems, TLAPS

(* At most one worker is between its UPDATE of a section and the end of    *)
(* its transaction.                                                        *)
LockIsExclusive ==
    \A v, w \in Workers :
        Locks(v) /\ Locks(w) /\ SectionOf(v) = SectionOf(w) => v = w

(* What a poll is about to record.  The number of its event is settled by  *)
(* the flush: the lock keeps everyone else from adding one before it.      *)
PollShape ==
    \A w \in Workers :
        /\ pc[w] \in Labels \ {"commit", "fanout"} => ids[w] = {}
        /\ pc[w] = "fetch" => new[w] = seen[w]
        /\ pc[w] \in {"flush", "queue", "commit"} =>
               new[w].status # "absent" \/ new[w].status = seen[w].status
        /\ pc[w] = "queue" =>
               IsOpening(Change(w)) /\ Len(events[SectionOf(w)]) < MaxEvents
        /\ pc[w] = "commit" =>
               \A a \in ids[w] :
                   /\ a[1][1] = SectionOf(w)
                   /\ a[2] = Len(events[SectionOf(w)]) + 1
                   /\ IsOpening(Change(w))
        /\ pc[w] = "fanout" => ids[w] \subseteq notes

UnknownHasNoHistory == \A s \in Sections : sec[s].status = "absent" => events[s] = <<>>

Inv ==
    /\ TypeOK
    /\ LockIsExclusive
    /\ PollShape
    /\ UnknownHasNoHistory
    /\ HistoryMatchesStatus
    /\ MessageAfterCommit
    /\ AlertsComeFromOpenings

TableInv ==
    /\ UnknownHasNoHistory
    /\ HistoryMatchesStatus
    /\ MessageAfterCommit
    /\ AlertsComeFromOpenings

-----------------------------------------------------------------------------
LEMMA PublishType ==
    ASSUME NEW q \in [Messages -> 0..MaxQueued], NEW m \in Messages
    PROVE  Publish(q, m) \in [Messages -> 0..MaxQueued]
BY PollingAssumption DEF Publish

LEMMA RetriedType ==
    ASSUME TypeOK, NEW w \in Workers, pc[w] # "idle"
    PROVE  Retried(w) \in [Messages -> 0..MaxQueued]
<1>1. job[w] \in Messages /\ pollq \in [Messages -> 0..MaxQueued]
  BY DEF TypeOK
<1>2. CASE job[w][2] < MaxRetries
  <2>1. <<SectionOf(w), job[w][2] + 1>> \in Messages
    BY <1>1, <1>2, PollingAssumption DEF Messages, SectionOf
  <2> QED BY <1>1, <1>2, <2>1, PublishType DEF Retried
<1>3. CASE ~(job[w][2] < MaxRetries)
  BY <1>1, <1>3 DEF Retried
<1> QED BY <1>2, <1>3

LEMMA AlertsForType ==
    ASSUME TypeOK, NEW s \in Sections, Len(events[s]) < MaxEvents
    PROVE  /\ AlertsFor(s) \subseteq Alerts
           /\ \A a \in AlertsFor(s) : a[1][1] = s /\ a[2] = Len(events[s]) + 1
<1>1. events[s] \in Seq(Event) /\ active \subseteq Watches
  BY DEF TypeOK
<1>2. Len(events[s]) + 1 \in 1..MaxEvents
  BY <1>1, PollingAssumption
<1> QED BY <1>1, <1>2 DEF AlertsFor, Alerts

LEMMA SectionFacts ==
    ASSUME TypeOK, NEW w \in Workers, pc[w] # "idle"
    PROVE  job[w] \in Messages /\ SectionOf(w) \in Sections
BY DEF TypeOK, SectionOf, Messages

-----------------------------------------------------------------------------
(* Where the tables do not change, neither does what is said of them.      *)
LEMMA TableFrame ==
    ASSUME TableInv, UNCHANGED <<sec, events, notes, published>>
    PROVE  TableInv'
<1>1. UnknownHasNoHistory' /\ MessageAfterCommit'
  BY DEF TableInv, UnknownHasNoHistory, MessageAfterCommit
<1>2. HistoryMatchesStatus'
  BY DEF TableInv, HistoryMatchesStatus, LastStatus
<1>3. AlertsComeFromOpenings'
  BY DEF TableInv, AlertsComeFromOpenings
<1> QED BY <1>1, <1>2, <1>3 DEF TableInv

LEMMA WorldFrame ==
    ASSUME Inv, TypeOK', UNCHANGED <<sec, events, notes, published, worker>>
    PROVE  Inv'
<1>1. LockIsExclusive' /\ PollShape'
  BY DEF Inv, LockIsExclusive, PollShape, worker, Locks, SectionOf, Change
<1>2. TableInv'
  BY TableFrame DEF Inv, TableInv
<1> QED BY <1>1, <1>2 DEF Inv, TableInv

LEMMA WorldInv ==
    ASSUME Inv, World
    PROVE  Inv'
<1> USE DEF Inv, schedule, tables, history, overlap
<1>1. ASSUME NEW s \in Sections, Opens(s) \/ Closes(s)
      PROVE  Inv'
  <2>1. page' \in [Sections -> {"open", "closed"}]
    BY <1>1 DEF TypeOK, Opens, Closes
  <2>2. opened' \in [Sections -> 0..MaxOpenings]
    <3>1. opened[s] < MaxOpenings => opened[s] + 1 \in 0..MaxOpenings
      BY PollingAssumption DEF TypeOK
    <3> QED BY <1>1, <3>1 DEF TypeOK, Opens, Closes
  <2>3. UNCHANGED <<tables, published, pollq, targets, worker, faults, history>>
    BY <1>1 DEF Opens, Closes
  <2>4. TypeOK'
    BY <2>1, <2>2, <2>3 DEF TypeOK, worker
  <2> QED BY <2>3, <2>4, WorldFrame
<1>2. ASSUME NEW s \in Sections, BecomesDue(s)
      PROVE  Inv'
  <2> USE <1>2 DEF BecomesDue
  <2>1. TypeOK'
    <3>1. \A r \in Section : [r EXCEPT !.next = "due"] \in Section
      BY DEF Section, Wait
    <3>2. sec' \in [Sections -> Section]
      BY <3>1 DEF TypeOK
    <3> QED BY <3>2 DEF TypeOK, worker
  <2>2. LockIsExclusive' /\ PollShape'
    BY DEF LockIsExclusive, PollShape, worker, Locks, SectionOf, Change
  <2>3. \A t \in Sections : sec'[t].status = sec[t].status
    BY DEF TypeOK, Section
  <2>4. UnknownHasNoHistory' /\ HistoryMatchesStatus'
    BY <2>3 DEF UnknownHasNoHistory, HistoryMatchesStatus, LastStatus
  <2>5. MessageAfterCommit' /\ AlertsComeFromOpenings'
    BY DEF MessageAfterCommit, AlertsComeFromOpenings
  <2> QED BY <2>1, <2>2, <2>4, <2>5
<1>3. ASSUME NEW x \in Watches, Watch(x)
      PROVE  Inv'
  <2> DEFINE s == x[1]
  <2> USE <1>3 DEF Watch
  <2>0. s \in Sections
    BY DEF Watches
  <2>1. TypeOK'
    <3>0. [Absent EXCEPT !.status = "unknown"] \in Section
      BY PollingAssumption DEF Section, Wait, Status, Absent
    <3>1. sec' \in [Sections -> Section]
      BY <2>0, <3>0 DEF TypeOK
    <3>2. base' \in [Watches -> 0..MaxOpenings] /\ active' \subseteq Watches
      BY <2>0 DEF TypeOK
    <3> QED BY <3>1, <3>2 DEF TypeOK, worker
  <2>2. LockIsExclusive' /\ PollShape'
    BY DEF LockIsExclusive, PollShape, worker, Locks, SectionOf, Change
  <2>3. \A t \in Sections :
            \/ sec'[t] = sec[t]
            \/ sec[t].status = "absent" /\ sec'[t].status = "unknown"
    BY <2>0 DEF TypeOK, Absent
  <2>4. UnknownHasNoHistory' /\ HistoryMatchesStatus'
    BY <2>3 DEF UnknownHasNoHistory, HistoryMatchesStatus, LastStatus
  <2>5. MessageAfterCommit' /\ AlertsComeFromOpenings'
    BY DEF MessageAfterCommit, AlertsComeFromOpenings
  <2> QED BY <2>1, <2>2, <2>4, <2>5
<1>4. ASSUME NEW x \in Watches, Unwatch(x)
      PROVE  Inv'
  <2>1. active' \subseteq Watches /\ base' \in [Watches -> 0..MaxOpenings]
    BY <1>4, PollingAssumption DEF TypeOK, Unwatch
  <2>2. TypeOK'
    BY <1>4, <2>1 DEF TypeOK, Unwatch, worker
  <2> QED BY <1>4, <2>2, WorldFrame DEF Unwatch
<1> QED BY <1>1, <1>2, <1>3, <1>4 DEF World

LEMMA DispatchInv ==
    ASSUME Inv, Dispatch
    PROVE  Inv'
<1> USE DEF Inv, schedule, tables, history, overlap
<1>1. CASE DispatchSelect
  <2>1. TypeOK'
    BY <1>1 DEF TypeOK, DispatchSelect, worker
  <2> QED BY <1>1, <2>1, WorldFrame DEF DispatchSelect
<1>2. CASE DispatchLost
  <2>1. TypeOK'
    BY <1>2, PollingAssumption DEF TypeOK, DispatchLost, worker
  <2> QED BY <1>2, <2>1, WorldFrame DEF DispatchLost
<1>3. ASSUME NEW s \in Sections, DispatchPublish(s)
      PROVE  Inv'
  <2>1. <<s, 0>> \in Messages
    BY PollingAssumption DEF Messages
  <2>2. pollq' \in [Messages -> 0..MaxQueued]
    BY <1>3, <2>1, PublishType DEF DispatchPublish, TypeOK
  <2>3. TypeOK'
    BY <1>3, <2>2 DEF TypeOK, DispatchPublish, worker
  <2> QED BY <1>3, <2>3, WorldFrame DEF DispatchPublish
<1> QED BY <1>1, <1>2, <1>3 DEF Dispatch

-----------------------------------------------------------------------------
(* A step of one worker w that changes no table.                           *)
OnlyWorker(w) ==
    \A v \in Workers \ {w} :
        /\ pc'[v] = pc[v] /\ job'[v] = job[v] /\ ids'[v] = ids[v]
        /\ seen'[v] = seen[v] /\ new'[v] = new[v]

ShapeOf(w) ==
    /\ pc[w] \in Labels \ {"commit", "fanout"} => ids[w] = {}
    /\ pc[w] = "fetch" => new[w] = seen[w]
    /\ pc[w] \in {"flush", "queue", "commit"} =>
           new[w].status # "absent" \/ new[w].status = seen[w].status
    /\ pc[w] = "queue" =>
           IsOpening(Change(w)) /\ Len(events[SectionOf(w)]) < MaxEvents
    /\ pc[w] = "commit" =>
           \A a \in ids[w] :
               /\ a[1][1] = SectionOf(w)
               /\ a[2] = Len(events[SectionOf(w)]) + 1
               /\ IsOpening(Change(w))
    /\ pc[w] = "fanout" => ids[w] \subseteq notes

LEMMA WorkerFrame ==
    ASSUME Inv, NEW w \in Workers, OnlyWorker(w), TypeOK',
           UNCHANGED <<sec, events, notes>>, MessageAfterCommit',
           ShapeOf(w)',
           Locks(w)' => job'[w] = job[w] /\ (Locks(w) \/ Unlocked(SectionOf(w)))
    PROVE  Inv'
<1>1. LockIsExclusive'
  <2> SUFFICES ASSUME NEW u \in Workers, NEW v \in Workers,
                      Locks(u)', Locks(v)', (SectionOf(u) = SectionOf(v))'
               PROVE  u = v
    BY DEF LockIsExclusive
  <2>0. \A x \in Workers \ {w} : Locks(x)' = Locks(x) /\ SectionOf(x)' = SectionOf(x)
    BY DEF OnlyWorker, Locks, SectionOf
  <2>1. CASE u # w /\ v # w
    BY <2>0, <2>1 DEF Inv, LockIsExclusive
  <2>2. CASE u = w /\ v # w
    BY <2>0, <2>2 DEF Inv, LockIsExclusive, SectionOf, Unlocked
  <2>3. CASE u # w /\ v = w
    BY <2>0, <2>3 DEF Inv, LockIsExclusive, SectionOf, Unlocked
  <2> QED BY <2>1, <2>2, <2>3
<1>2. \A v \in Workers \ {w} : ShapeOf(v)'
  BY DEF Inv, PollShape, ShapeOf, OnlyWorker, SectionOf, Change
<1>3. PollShape'
  BY <1>2 DEF PollShape, ShapeOf
<1>4. UnknownHasNoHistory' /\ HistoryMatchesStatus' /\ AlertsComeFromOpenings'
  BY DEF Inv, UnknownHasNoHistory, HistoryMatchesStatus, LastStatus,
         AlertsComeFromOpenings
<1> QED BY <1>1, <1>3, <1>4 DEF Inv

(* The end of a task, however it ends.                                     *)
LEMMA LeavingInv ==
    ASSUME Inv, NEW w \in Workers, Done(w) \/ WorkerLost(w) \/ TimeLimit(w)
    PROVE  Inv'
<1> USE DEF Inv, schedule, tables
<1>1. /\ pc[w] # "idle" /\ Release(w)
      /\ UNCHANGED <<schedule, tables, published, targets, base, clashes>>
  BY DEF Done, WorkerLost, TimeLimit, Abort
<1>2. pollq' \in [Messages -> 0..MaxQueued]
  <2>1. pollq \in [Messages -> 0..MaxQueued] /\ job[w] \in Messages
    BY <1>1 DEF TypeOK
  <2>2. Publish(pollq, job[w]) \in [Messages -> 0..MaxQueued]
    BY <2>1, PublishType
  <2> QED BY <2>1, <2>2 DEF Done, WorkerLost, TimeLimit
<1>3. faults' \in 0..MaxFaults
  BY PollingAssumption DEF TypeOK, Done, WorkerLost, TimeLimit, Abort
<1> USE DEF Release, Goto, CloseSession
<1>4. TypeOK'
  BY <1>1, <1>2, <1>3, PollingAssumption DEF TypeOK, Labels, Section, Absent, Status, Wait
<1>5. OnlyWorker(w) /\ pc'[w] = "idle" /\ ids'[w] = {}
  BY <1>1 DEF TypeOK, OnlyWorker
<1>6. ShapeOf(w)' /\ ~Locks(w)'
  BY <1>5 DEF ShapeOf, Locks
<1>7. MessageAfterCommit'
  BY <1>1 DEF MessageAfterCommit
<1> QED BY <1>1, <1>4, <1>5, <1>6, <1>7, WorkerFrame

(* A retry is published from inside the transaction, which keeps its lock  *)
(* until the exception has rolled it back.                                 *)
LEMMA RetryInv ==
    ASSUME Inv, NEW w \in Workers, RateLimited(w) \/ Raise(w)
    PROVE  Inv'
<1> USE DEF Inv, schedule, tables, history, overlap
<1>1. /\ pc[w] \in {"fetch", "raise"} /\ pollq' = Retried(w)
      /\ pc' = [pc EXCEPT ![w] = "rollback"]
      /\ UNCHANGED <<schedule, tables, published, targets, job, seen, new, ids,
                     faults, history>>
  BY DEF RateLimited, Raise, Goto
<1>2. TypeOK'
  BY <1>1, RetriedType DEF TypeOK, Labels
<1>3. OnlyWorker(w) /\ pc'[w] = "rollback" /\ ids'[w] = {}
  BY <1>1 DEF TypeOK, OnlyWorker, PollShape, Labels
<1>4. ShapeOf(w)'
  BY <1>3 DEF ShapeOf
<1>5. Locks(w)' => Locks(w)
  BY <1>1 DEF Locks, PollShape, TypeOK
<1>6. MessageAfterCommit'
  BY <1>1 DEF MessageAfterCommit
<1> QED BY <1>1, <1>2, <1>3, <1>4, <1>5, <1>6, WorkerFrame

LEMMA RollbackInv ==
    ASSUME Inv, NEW w \in Workers, Rollback(w)
    PROVE  Inv'
<1> USE DEF Inv, Rollback, CloseSession, Goto, schedule, tables
<1>1. TypeOK'
  BY PollingAssumption DEF TypeOK, Labels, Section, Absent, Status, Wait
<1>2. OnlyWorker(w) /\ pc'[w] = "fanout" /\ ids'[w] = {}
  BY DEF TypeOK, OnlyWorker, PollShape, Labels
<1>3. ShapeOf(w)' /\ ~Locks(w)'
  BY <1>2 DEF ShapeOf, Locks
<1>4. MessageAfterCommit'
  BY DEF MessageAfterCommit
<1> QED BY <1>1, <1>2, <1>3, <1>4, WorkerFrame

-----------------------------------------------------------------------------
(* The steps of a poll inside its transaction, which no other session sees. *)
LEMMA TakeInv ==
    ASSUME Inv, NEW w \in Workers, NEW m \in Messages, Take(w, m)
    PROVE  Inv'
<1> USE DEF Inv, Take, Goto, schedule, tables, history, overlap
<1>1. m[1] \in Sections
  BY DEF Messages
<1>2. Load(m[1]) \in Section
  <2>1. \A r \in Section : [r EXCEPT !.next = "due"] \in Section
    BY DEF Section, Wait
  <2>2. sec[m[1]] \in Section
    BY <1>1 DEF TypeOK
  <2> QED BY <2>1, <2>2 DEF Load
<1>3. pollq' \in [Messages -> 0..MaxQueued]
  BY PollingAssumption DEF TypeOK
<1>4. TypeOK'
  BY <1>2, <1>3 DEF TypeOK, Labels
<1>5. /\ OnlyWorker(w) /\ pc'[w] = "fetch"
      /\ ids'[w] = {} /\ new'[w] = seen'[w]
  BY DEF TypeOK, OnlyWorker, PollShape, Labels
<1>6. ShapeOf(w)' /\ ~Locks(w)'
  BY <1>5 DEF PollShape, ShapeOf, Locks
<1>7. MessageAfterCommit'
  BY DEF MessageAfterCommit
<1> QED BY <1>4, <1>5, <1>6, <1>7, WorkerFrame

LEMMA FailedType ==
    ASSUME NEW r \in Section, r.failures < MaxFailures
    PROVE  Failed(r) \in Section /\ Failed(r).status = r.status
BY PollingAssumption DEF Failed, Section, Wait

LEMMA FailingInv ==
    ASSUME Inv, NEW w \in Workers, Unavailable(w) \/ NotOnPage(w)
    PROVE  Inv'
<1> USE DEF Inv, schedule, tables, history, overlap
<1>1. /\ pc[w] = "fetch" /\ Unlocked(SectionOf(w)) /\ seen[w].failures < MaxFailures
      /\ new' = [new EXCEPT ![w] = Failed(seen[w])]
      /\ \E label \in {"raise", "commit"} : pc' = [pc EXCEPT ![w] = label]
      /\ UNCHANGED <<schedule, tables, published, pollq, targets, job, seen, ids,
                     faults, history>>
  BY DEF Unavailable, NotOnPage, Goto
<1>2. Failed(seen[w]) \in Section /\ Failed(seen[w]).status = seen[w].status
  BY <1>1, FailedType DEF TypeOK
<1>3. TypeOK'
  BY <1>1, <1>2 DEF TypeOK, Labels
<1>4. OnlyWorker(w) /\ pc'[w] \in {"raise", "commit"} /\ ids'[w] = {}
  BY <1>1 DEF TypeOK, OnlyWorker, PollShape, Labels
<1>5. new'[w].status = seen'[w].status
  BY <1>1, <1>2 DEF TypeOK
<1>6. ShapeOf(w)'
  BY <1>4, <1>5 DEF ShapeOf
<1>7. MessageAfterCommit'
  BY <1>1 DEF MessageAfterCommit
<1> QED BY <1>1, <1>3, <1>4, <1>6, <1>7, WorkerFrame

LEMMA ObserveInv ==
    ASSUME Inv, NEW w \in Workers, Observe(w)
    PROVE  Inv'
<1> USE DEF Inv, Observe, Goto, schedule, tables, history, overlap
<1>1. page[SectionOf(w)] \in {"open", "closed"}
  BY SectionFacts DEF TypeOK
<1>2. /\ Observed(seen[w], page[SectionOf(w)]) \in Section
      /\ Observed(seen[w], page[SectionOf(w)]).status # "absent"
  BY <1>1, PollingAssumption DEF Observed, Section, Status, Wait
<1>3. TypeOK'
  BY <1>2 DEF TypeOK, Labels
<1>4. OnlyWorker(w) /\ pc'[w] = "flush" /\ ids'[w] = {}
  BY DEF TypeOK, OnlyWorker, PollShape, Labels
<1>5. ShapeOf(w)' /\ ~Locks(w)'
  BY <1>2, <1>4 DEF TypeOK, ShapeOf, Locks
<1>6. MessageAfterCommit'
  BY DEF MessageAfterCommit
<1> QED BY <1>3, <1>4, <1>5, <1>6, WorkerFrame

LEMMA FlushInv ==
    ASSUME Inv, NEW w \in Workers, Flush(w)
    PROVE  Inv'
<1> USE DEF Inv, Flush, Goto, schedule, tables, history, overlap
<1>1. TypeOK'
  BY DEF TypeOK, Labels
<1>2. /\ OnlyWorker(w) /\ pc'[w] \in {"queue", "commit"} /\ ids'[w] = {}
      /\ pc'[w] = "queue" => IsOpening(Change(w))
  BY DEF TypeOK, OnlyWorker, PollShape, Labels
<1>3. ShapeOf(w)'
  BY <1>2 DEF PollShape, ShapeOf, Change, SectionOf
<1>4. MessageAfterCommit'
  BY DEF MessageAfterCommit
<1> QED BY <1>1, <1>2, <1>3, <1>4, WorkerFrame

LEMMA QueueInv ==
    ASSUME Inv, NEW w \in Workers, Queue(w)
    PROVE  Inv'
<1> USE DEF Inv, Queue, Goto, schedule, tables, history, overlap
<1> DEFINE s == SectionOf(w)
<1>1. s \in Sections /\ Len(events[s]) < MaxEvents /\ IsOpening(Change(w))
  BY SectionFacts DEF PollShape
<1>2. /\ AlertsFor(s) \subseteq Alerts
      /\ \A a \in AlertsFor(s) : a[1][1] = s /\ a[2] = Len(events[s]) + 1
  BY <1>1, AlertsForType
<1>3. TypeOK'
  BY <1>2 DEF TypeOK, Labels
<1>4. OnlyWorker(w) /\ pc'[w] = "commit" /\ ids'[w] = AlertsFor(s)
  BY DEF TypeOK, OnlyWorker
<1>5. ShapeOf(w)'
  BY <1>1, <1>2, <1>4 DEF PollShape, ShapeOf, Change, SectionOf
<1>6. MessageAfterCommit'
  BY DEF MessageAfterCommit
<1> QED BY <1>3, <1>4, <1>5, <1>6, WorkerFrame DEF Locks

LEMMA FanOutInv ==
    ASSUME Inv, NEW w \in Workers, NEW a \in Alerts, FanOut(w, a)
    PROVE  Inv'
<1> USE DEF Inv, FanOut, schedule, tables, history, overlap
<1>1. TypeOK'
  BY DEF TypeOK
<1>2. OnlyWorker(w) /\ pc'[w] = "fanout" /\ ids'[w] \subseteq ids[w]
  BY DEF TypeOK, OnlyWorker
<1>3. ShapeOf(w)' /\ ~Locks(w)'
  BY <1>2 DEF PollShape, ShapeOf, Locks
<1>4. MessageAfterCommit'
  BY DEF PollShape, MessageAfterCommit
<1> QED BY <1>1, <1>2, <1>3, <1>4, WorkerFrame

-----------------------------------------------------------------------------
(* The commit: the one step of a poll that everybody sees.                 *)
LEMMA CommitTables ==
    ASSUME Inv, NEW w \in Workers, Commit(w)
    PROVE  /\ SectionOf(w) \in Sections
           /\ sec' \in [Sections -> Section]
           /\ events' \in [Sections -> Seq(Event)]
           /\ notes' \subseteq Alerts
<1> USE DEF Inv, Commit, Changes
<1>1. SectionOf(w) \in Sections
  BY SectionFacts
<1>2. Written(seen[w], new[w], sec[SectionOf(w)]) \in Section
  BY <1>1 DEF Written, TypeOK, Section
<1>3. Change(w) \in Event
  BY DEF Change, Event, TypeOK, Section
<1>4. sec' \in [Sections -> Section]
  BY <1>1, <1>2 DEF TypeOK
<1>5. events' \in [Sections -> Seq(Event)]
  BY <1>1, <1>3 DEF TypeOK
<1> QED BY <1>1, <1>4, <1>5 DEF TypeOK

LEMMA CommitInv ==
    ASSUME Inv, NEW w \in Workers, Commit(w)
    PROVE  Inv'
<1> DEFINE s == SectionOf(w)
<1> USE DEF Inv, Commit, Changes, Goto, CloseSession, schedule
<1>1. /\ s \in Sections
      /\ sec' \in [Sections -> Section]
      /\ events' \in [Sections -> Seq(Event)]
      /\ notes' \subseteq Alerts
  BY CommitTables
<1>2. Change(w) \in Event /\ Change(w).from = seen[w].status /\ Change(w).to = new[w].status
  BY DEF Change, Event, TypeOK, Section
<1>3. TypeOK'
  <2>0. overtaken \subseteq Workers /\ Overtakes(w) \subseteq Workers
        /\ clashes \in [Sections -> Nat]
    BY DEF TypeOK, Overtakes
  <2>1. overtaken' \subseteq Workers
    <3>1. CASE Change(w).from # Change(w).to
      BY <2>0, <3>1
    <3>2. CASE Change(w).from = Change(w).to
      BY <2>0, <3>2
    <3> QED BY <3>1, <3>2
  <2>2. clashes' \in [Sections -> Nat]
    <3>1. PICK x \in Sections : x = SectionOf(w)
      BY <1>1
    <3>2. [clashes EXCEPT ![x] = @ + 1] \in [Sections -> Nat]
      BY <2>0
    <3>3. clashes' \in {clashes, [clashes EXCEPT ![x] = @ + 1]}
      BY <3>1
    <3> QED BY <2>0, <3>2, <3>3
  <2>3. Absent \in Section /\ "fanout" \in Labels
    BY PollingAssumption DEF Labels, Section, Absent, Status, Wait
  <2>4. /\ pc' \in [Workers -> Labels]
        /\ seen' \in [Workers -> Section]
        /\ new' \in [Workers -> Section]
        /\ \A v \in Workers : pc'[v] # "idle" => pc[v] # "idle"
    BY <2>3 DEF TypeOK
  <2>5. UNCHANGED <<page, opened, active, published, pollq, targets, job, ids, faults, base>>
    OBVIOUS
  <2> HIDE DEF Commit, CloseSession, Goto, Changes
  <2> QED BY <1>1, <2>1, <2>2, <2>4, <2>5 DEF TypeOK
<1>4. OnlyWorker(w) /\ pc'[w] = "fanout" /\ ids'[w] = ids[w]
  BY DEF TypeOK, OnlyWorker
<1>5. \A t \in Sections : t # s => sec'[t] = sec[t] /\ events'[t] = events[t]
  BY <1>1 DEF TypeOK
<1>6. \/ /\ Change(w).from # Change(w).to
         /\ events'[s] = Append(events[s], Change(w))
         /\ sec'[s].status = Change(w).to
         /\ Change(w).to # "absent"
      \/ /\ Change(w).from = Change(w).to
         /\ events'[s] = events[s]
         /\ sec'[s].status = sec[s].status
  BY <1>1, <1>2 DEF TypeOK, Written, PollShape
<1>7. events[s] \in Seq(Event)
  BY <1>1 DEF TypeOK
<1>8. LockIsExclusive'
  BY <1>4 DEF LockIsExclusive, OnlyWorker, Locks, SectionOf
<1>9. PollShape'
  <2> SUFFICES ASSUME NEW v \in Workers PROVE ShapeOf(v)'
    BY DEF PollShape, ShapeOf
  <2>1. CASE v = w
    BY <1>4, <2>1 DEF ShapeOf
  <2>2. CASE v # w
    <3>1. ShapeOf(v)
      BY DEF PollShape, ShapeOf
    <3>2. Locks(v) => SectionOf(v) \in Sections /\ SectionOf(v) # s
      BY <2>2, SectionFacts DEF LockIsExclusive, Locks
    <3>3. Locks(v) => events'[SectionOf(v)] = events[SectionOf(v)]
      BY <1>5, <3>2
    <3> QED BY <1>4, <2>2, <3>1, <3>3 DEF ShapeOf, OnlyWorker, SectionOf, Change, Locks
  <2> QED BY <2>1, <2>2
<1>10. UnknownHasNoHistory'
  BY <1>5, <1>6 DEF UnknownHasNoHistory
<1>11. HistoryMatchesStatus'
  <2> SUFFICES ASSUME NEW t \in Sections, sec'[t].status # "absent"
               PROVE  sec'[t].status = LastStatus(t)'
    BY DEF HistoryMatchesStatus
  <2>1. CASE t # s
    BY <1>5, <2>1 DEF HistoryMatchesStatus, LastStatus
  <2>2. CASE t = s /\ events'[s] = Append(events[s], Change(w))
    <3>1. events'[s] # <<>> /\ events'[s][Len(events'[s])] = Change(w)
      BY <1>2, <1>7, <2>2
    <3>2. Len(events'[s]) # Len(events[s])
      BY <1>2, <1>7, <2>2
    <3> QED BY <1>6, <2>2, <3>1, <3>2 DEF LastStatus
  <2>3. CASE t = s /\ events'[s] = events[s] /\ sec'[s].status = sec[s].status
    BY <2>3 DEF HistoryMatchesStatus, LastStatus
  <2> QED BY <1>6, <2>1, <2>2, <2>3
<1>12. MessageAfterCommit'
  BY DEF MessageAfterCommit
<1>13. AlertsComeFromOpenings'
  <2> SUFFICES ASSUME NEW a \in notes'
               PROVE  /\ a[2] <= Len(events'[a[1][1]])
                      /\ IsOpening(events'[a[1][1]][a[2]])
    BY DEF AlertsComeFromOpenings
  <2>1. a[2] \in 1..MaxEvents /\ a[1][1] \in Sections
    BY <1>1 DEF Alerts, Watches
  <2>2. CASE a \in notes /\ a[1][1] # s
    BY <1>5, <2>1, <2>2 DEF AlertsComeFromOpenings
  <2>3. CASE a \in notes /\ a[1][1] = s
    <3>1. a[2] <= Len(events[s]) /\ IsOpening(events[s][a[2]])
      BY <2>3 DEF AlertsComeFromOpenings
    <3>2. Len(events'[s]) \in Nat /\ Len(events'[s]) >= Len(events[s])
      BY <1>2, <1>6, <1>7
    <3>3. events'[s][a[2]] = events[s][a[2]]
      BY <1>2, <1>6, <1>7, <2>1, <3>1
    <3> QED BY <1>7, <2>1, <2>3, <3>1, <3>2, <3>3
  <2>4. CASE a \in ids[w]
    <3>1. a[1][1] = s /\ a[2] = Len(events[s]) + 1 /\ IsOpening(Change(w))
      BY <2>4 DEF PollShape
    <3>2. events'[s] = Append(events[s], Change(w))
      BY <1>6, <3>1 DEF IsOpening
    <3>3. Len(events'[s]) = Len(events[s]) + 1 /\ events'[s][Len(events[s]) + 1] = Change(w)
      BY <1>2, <1>7, <3>2
    <3> QED BY <1>7, <3>1, <3>3
  <2> QED BY <2>2, <2>3, <2>4
<1> QED BY <1>3, <1>8, <1>9, <1>10, <1>11, <1>12, <1>13

-----------------------------------------------------------------------------
LEMMA InitInv == Init => Inv
<1> SUFFICES ASSUME Init PROVE Inv
  OBVIOUS
<1> USE DEF Init
<1>1. TypeOK
  BY PollingAssumption DEF TypeOK, Section, Absent, Status, Wait, Labels
<1>2. LockIsExclusive /\ PollShape
  BY DEF LockIsExclusive, PollShape, Locks, Labels
<1>3. UnknownHasNoHistory /\ HistoryMatchesStatus
  BY DEF UnknownHasNoHistory, HistoryMatchesStatus, Absent
<1>4. MessageAfterCommit /\ AlertsComeFromOpenings
  BY DEF MessageAfterCommit, AlertsComeFromOpenings
<1> QED BY <1>1, <1>2, <1>3, <1>4 DEF Inv

LEMMA NextInv == Inv /\ [Next]_vars => Inv'
<1> SUFFICES ASSUME Inv, [Next]_vars PROVE Inv'
  OBVIOUS
<1>1. CASE UNCHANGED vars
  <2>1. TypeOK'
    BY <1>1 DEF Inv, TypeOK, vars, schedule, tables, worker, history, overlap
  <2> QED BY <1>1, <2>1, WorldFrame DEF vars, tables
<1>2. ASSUME NEW w \in Workers, PollSection(w)
      PROVE  Inv'
  BY <1>2, TakeInv, LeavingInv, RetryInv, RollbackInv, FailingInv, ObserveInv, FlushInv,
     QueueInv, CommitInv, FanOutInv DEF PollSection
<1> QED BY <1>1, <1>2, WorldInv, DispatchInv DEF Next

THEOREM InvIsInvariant == Spec => []Inv
<1> QED BY InitInv, NextInv, PTL DEF Spec

(* Every variable of Polling stays in its type.                            *)
THEOREM PollingTypes == Spec => []TypeOK
<1> QED BY InvIsInvariant, PTL DEF Inv

(* The section row and the history of its events agree, however polls of   *)
(* the section overlap and fail.                                           *)
THEOREM HistoryAgrees == Spec => []HistoryMatchesStatus
<1> QED BY InvIsInvariant, PTL DEF Inv

(* No message names a row that is not committed.                           *)
THEOREM MessagesFollowCommits == Spec => []MessageAfterCommit
<1> QED BY InvIsInvariant, PTL DEF Inv

(* Every alert stands for a recorded closed -> open event.                 *)
THEOREM AlertsAreOpenings == Spec => []AlertsComeFromOpenings
<1> QED BY InvIsInvariant, PTL DEF Inv

-----------------------------------------------------------------------------
(* Openings and overtaken polls.  What a poll has loaded is what is        *)
(* committed until another poll's change of the status overtakes it, so    *)
(* the events it decides on are the schedule's own; each change that an    *)
(* overtaken poll records can add one opening that was not, or hide one.   *)
Decided == {"flush", "queue", "commit"}

(* One more opening can be recorded within the account.                    *)
Unnoticed(s) == Openings(s) < opened[s] + clashes[s]

QueueKnown ==
    /\ \A s \in targets : sec[s].status # "absent"
    /\ \A m \in Messages : pollq[m] > 0 => sec[m[1]].status # "absent"

FreshOf(w) ==
    /\ pc[w] # "idle" => sec[SectionOf(w)].status # "absent"
    /\ pc[w] \in Loaded /\ w \notin overtaken =>
           seen[w].status = sec[SectionOf(w)].status
    /\ pc[w] \in Decided /\ w \notin overtaken =>
           /\ IsOpening(Change(w)) => Unnoticed(SectionOf(w))
           /\ new[w].status = "closed" /\ page[SectionOf(w)] = "open" =>
                  Unnoticed(SectionOf(w))

OpeningsCounted ==
    \A s \in Sections :
        /\ Openings(s) <= opened[s] + clashes[s]
        /\ sec[s].status = "closed" /\ page[s] = "open" => Unnoticed(s)

FreshInv ==
    /\ QueueKnown
    /\ \A w \in Workers : FreshOf(w)
    /\ OpeningsCounted

(* What a poll is about to write obeys ClosedIsPrompt already, or counts   *)
(* as a failure.                                                           *)
PromptOf(w) ==
    pc[w] \in Decided /\ new[w].status = "closed" =>
        \/ new[w].next = "soon"
        \/ new[w].failures # seen[w].failures /\ new[w].failures # 0

PromptInv == \A w \in Workers : PromptOf(w)

-----------------------------------------------------------------------------
LEMMA OpeningsFinite ==
    ASSUME TypeOK, NEW s \in Sections
    PROVE  IsFiniteSet(OpeningsOf(s)) /\ Openings(s) \in Nat
<1>1. Len(events[s]) \in Nat
  BY DEF TypeOK
<1>2. IsFiniteSet(1..Len(events[s]))
  BY <1>1, FS_Interval
<1>3. OpeningsOf(s) \in SUBSET (1..Len(events[s]))
  BY DEF OpeningsOf
<1>4. IsFiniteSet(OpeningsOf(s))
  BY <1>2, <1>3, FS_Subset
<1> QED BY <1>4, FS_CardinalityType DEF Openings

(* The account of a section is about numbers.                              *)
LEMMA AccountType ==
    ASSUME TypeOK, NEW s \in Sections
    PROVE  Openings(s) \in Nat /\ opened[s] \in Nat /\ clashes[s] \in Nat
BY OpeningsFinite, PollingAssumption DEF TypeOK

(* One more event is one more opening, or none.                            *)
LEMMA OpeningsGrow ==
    ASSUME TypeOK, NEW s \in Sections, NEW e \in Event,
           events'[s] = Append(events[s], e)
    PROVE  /\ Len(events'[s]) = Len(events[s]) + 1
           /\ IsOpening(e)  => /\ Openings(s)' = Openings(s) + 1
                               /\ Len(events'[s]) \in OpeningsOf(s)'
           /\ ~IsOpening(e) => Openings(s)' = Openings(s)
<1> DEFINE n == Len(events[s]) + 1
<1>1. events[s] \in Seq(Event) /\ Len(events[s]) \in Nat
  BY DEF TypeOK
<1>2. Len(events'[s]) = n /\ events'[s][n] = e
  BY <1>1
<1>3. \A k \in 1..Len(events[s]) : events'[s][k] = events[s][k]
  BY <1>1
<1>4. 1..n = (1..Len(events[s])) \cup {n}
  BY <1>1
<1>5. n \notin OpeningsOf(s) /\ IsFiniteSet(OpeningsOf(s)) /\ Openings(s) \in Nat
  <2>1. n \notin OpeningsOf(s)
    BY <1>1 DEF OpeningsOf
  <2> QED BY <2>1, OpeningsFinite
<1>6. CASE IsOpening(e)
  <2>1. OpeningsOf(s)' = OpeningsOf(s) \cup {n}
    BY <1>2, <1>3, <1>4, <1>6 DEF OpeningsOf
  <2>2. Openings(s)' = Openings(s) + 1
    BY <1>5, <2>1, FS_AddElement DEF Openings
  <2> QED BY <1>2, <1>6, <2>1, <2>2
<1>7. CASE ~IsOpening(e)
  <2>1. OpeningsOf(s)' = OpeningsOf(s)
    BY <1>2, <1>3, <1>4, <1>5, <1>7 DEF OpeningsOf
  <2> QED BY <1>2, <1>7, <2>1 DEF Openings
<1> QED BY <1>6, <1>7

LEMMA OpeningsSame ==
    ASSUME NEW s, events'[s] = events[s]
    PROVE  OpeningsOf(s)' = OpeningsOf(s) /\ Openings(s)' = Openings(s)
BY DEF OpeningsOf, Openings

LEMMA PublishKnown ==
    ASSUME QueueKnown, NEW m \in Messages, sec[m[1]].status # "absent",
           pollq \in [Messages -> 0..MaxQueued]
    PROVE  \A k \in Messages : Publish(pollq, m)[k] > 0 => sec[k[1]].status # "absent"
BY DEF QueueKnown, Publish

-----------------------------------------------------------------------------
(* The world outside the tasks: the schedule opens or closes, a deadline   *)
(* passes, a section appears.                                              *)
LEMMA FreshFrame ==
    ASSUME Inv, FreshInv, QueueKnown', UNCHANGED <<events, worker, overlap>>,
           \A s \in Sections :
               /\ \/ sec'[s].status = sec[s].status
                  \/ sec[s].status = "absent" /\ sec'[s].status = "unknown"
               /\ opened'[s] \in Nat /\ opened'[s] >= opened[s]
               /\ page'[s] = "open" => page[s] = "open" \/ opened'[s] > opened[s]
    PROVE  FreshInv'
<1>1. ASSUME NEW s \in Sections
      PROVE  /\ Unnoticed(s) => Unnoticed(s)'
             /\ page'[s] = "open" /\ ~Unnoticed(s)' => page[s] = "open"
             /\ Openings(s)' <= opened'[s] + clashes'[s]
  <2>1. /\ Openings(s) \in Nat /\ opened[s] \in Nat /\ clashes[s] \in Nat
        /\ Openings(s) <= opened[s] + clashes[s]
    BY AccountType DEF Inv, FreshInv, OpeningsCounted
  <2>2. Openings(s)' = Openings(s) /\ clashes'[s] = clashes[s]
    BY OpeningsSame DEF overlap
  <2>3. opened'[s] \in Nat /\ opened'[s] >= opened[s]
    OBVIOUS
  <2>4. page'[s] = "open" => page[s] = "open" \/ opened'[s] > opened[s]
    OBVIOUS
  <2> QED BY <2>1, <2>2, <2>3, <2>4 DEF Unnoticed
<1>2. ASSUME NEW w \in Workers PROVE FreshOf(w)'
  <2>1. FreshOf(w) /\ (pc[w] # "idle" => SectionOf(w) \in Sections)
    BY SectionFacts DEF Inv, FreshInv
  <2>2. /\ SectionOf(w)' = SectionOf(w) /\ Change(w)' = Change(w)
        /\ pc'[w] = pc[w] /\ seen'[w] = seen[w] /\ new'[w] = new[w]
        /\ (w \in overtaken)' <=> w \in overtaken
    BY DEF worker, overlap, SectionOf, Change
  <2>3. CASE pc[w] = "idle"
    BY <2>2, <2>3 DEF FreshOf, Loaded, Decided
  <2>4. CASE pc[w] # "idle"
    <3> PICK s \in Sections : s = SectionOf(w)
      BY <2>1, <2>4
    <3>1. /\ SectionOf(w) = s /\ SectionOf(w)' = s /\ sec[s].status # "absent"
          /\ sec'[s].status = sec[s].status
      BY <2>1, <2>2, <2>4 DEF FreshOf
    <3>2. /\ Unnoticed(s) => Unnoticed(s)'
          /\ page'[s] = "open" /\ ~Unnoticed(s)' => page[s] = "open"
      BY <1>1, <3>1
    <3> QED BY <2>1, <2>2, <3>1, <3>2 DEF FreshOf
  <2> QED BY <2>3, <2>4
<1>3. OpeningsCounted'
  <2> SUFFICES ASSUME NEW s \in Sections
               PROVE  /\ Openings(s)' <= opened'[s] + clashes'[s]
                      /\ sec'[s].status = "closed" /\ page'[s] = "open" => Unnoticed(s)'
    BY DEF OpeningsCounted
  <2>1. sec'[s].status = "closed" => sec[s].status = "closed"
    OBVIOUS
  <2> QED BY <1>1, <2>1 DEF FreshInv, OpeningsCounted
<1> QED BY <1>2, <1>3 DEF FreshInv

LEMMA WorldFresh ==
    ASSUME Inv, FreshInv, World
    PROVE  FreshInv'
<1> USE DEF schedule, tables, history
<1>0. \A s \in Sections : opened[s] \in Nat
  BY PollingAssumption DEF Inv, TypeOK
<1>1. ASSUME NEW t \in Sections, Opens(t) \/ Closes(t)
      PROVE  FreshInv'
  <2>1. UNCHANGED <<tables, pollq, targets, worker, overlap>>
    BY <1>1 DEF Opens, Closes
  <2>2. QueueKnown'
    BY <2>1 DEF FreshInv, QueueKnown
  <2>3. \A s \in Sections :
            /\ opened'[s] \in Nat /\ opened'[s] >= opened[s]
            /\ page'[s] = "open" => page[s] = "open" \/ opened'[s] > opened[s]
    <3>1. page \in [Sections -> {"open", "closed"}]
          /\ opened \in [Sections -> 0..MaxOpenings]
      BY DEF Inv, TypeOK
    <3>2. CASE Opens(t)
      BY <1>0, <3>1, <3>2 DEF Opens
    <3>3. CASE Closes(t)
      BY <1>0, <3>1, <3>3 DEF Closes
    <3> QED BY <1>1, <3>2, <3>3
  <2> QED BY <2>1, <2>2, <2>3, FreshFrame
<1>2. ASSUME NEW t \in Sections, BecomesDue(t)
      PROVE  FreshInv'
  <2>1. \A s \in Sections : sec'[s].status = sec[s].status
    BY <1>2 DEF BecomesDue, Inv, TypeOK, Section
  <2>2. UNCHANGED <<schedule, events, pollq, targets, worker, overlap>>
    BY <1>2 DEF BecomesDue
  <2>3. QueueKnown'
    <3>1. \A m \in Messages : m[1] \in Sections
      BY DEF Messages
    <3> QED BY <2>1, <2>2, <3>1 DEF FreshInv, QueueKnown, Inv, TypeOK
  <2> QED BY <1>0, <2>1, <2>2, <2>3, FreshFrame
<1>3. ASSUME NEW x \in Watches, Watch(x)
      PROVE  FreshInv'
  <2>1. \A s \in Sections :
            \/ sec'[s] = sec[s]
            \/ sec[s].status = "absent" /\ sec'[s].status = "unknown"
    BY <1>3 DEF Watch, Watches, Inv, TypeOK, Absent
  <2>2. UNCHANGED <<schedule, events, pollq, targets, worker, overlap>>
    BY <1>3 DEF Watch
  <2>3. QueueKnown'
    <3>1. \A m \in Messages : m[1] \in Sections
      BY DEF Messages
    <3> QED BY <2>1, <2>2, <3>1 DEF FreshInv, QueueKnown, Inv, TypeOK
  <2> QED BY <1>0, <2>1, <2>2, <2>3, FreshFrame
<1>4. ASSUME NEW x \in Watches, Unwatch(x)
      PROVE  FreshInv'
  <2>1. UNCHANGED <<schedule, sec, events, pollq, targets, worker, overlap>>
    BY <1>4 DEF Unwatch
  <2>2. QueueKnown'
    BY <2>1 DEF FreshInv, QueueKnown
  <2> QED BY <1>0, <2>1, <2>2, FreshFrame
<1> QED BY <1>1, <1>2, <1>3, <1>4 DEF World

LEMMA DispatchFresh ==
    ASSUME Inv, FreshInv, Dispatch
    PROVE  FreshInv'
<1> USE DEF schedule, tables, history
<1>0. \A s \in Sections : opened[s] \in Nat
  BY PollingAssumption DEF Inv, TypeOK
<1>1. UNCHANGED <<schedule, sec, events, worker, overlap>>
  BY DEF Dispatch, DispatchSelect, DispatchLost, DispatchPublish
<1>2. QueueKnown'
  <2>1. CASE DispatchSelect
    BY <2>1 DEF DispatchSelect, Due, FreshInv, QueueKnown
  <2>2. CASE DispatchLost
    BY <2>2 DEF DispatchLost, FreshInv, QueueKnown
  <2>3. ASSUME NEW s \in Sections, DispatchPublish(s)
        PROVE  QueueKnown'
    <3>1. <<s, 0>> \in Messages /\ sec[s].status # "absent"
      BY <2>3, PollingAssumption DEF DispatchPublish, FreshInv, QueueKnown, Messages
    <3>2. \A k \in Messages :
              Publish(pollq, <<s, 0>>)[k] > 0 => sec[k[1]].status # "absent"
      BY <3>1, PublishKnown DEF Inv, TypeOK, FreshInv
    <3> QED BY <2>3, <3>2 DEF DispatchPublish, FreshInv, QueueKnown
  <2> QED BY <2>1, <2>2, <2>3 DEF Dispatch
<1> QED BY <1>0, <1>1, <1>2, FreshFrame

-----------------------------------------------------------------------------
(* A step of one poll before its commit.                                   *)
LEMMA PollFreshFrame ==
    ASSUME Inv, FreshInv, NEW w \in Workers, OnlyWorker(w),
           UNCHANGED <<schedule, sec, events, clashes>>,
           overtaken' \in {overtaken, overtaken \ {w}},
           QueueKnown', FreshOf(w)'
    PROVE  FreshInv'
<1>1. \A s \in Sections : Openings(s)' = Openings(s) /\ Unnoticed(s)' = Unnoticed(s)
  BY OpeningsSame DEF Unnoticed, schedule
<1>2. ASSUME NEW v \in Workers, v # w PROVE FreshOf(v)'
  <2>1. FreshOf(v) /\ (pc[v] # "idle" => SectionOf(v) \in Sections)
    BY SectionFacts DEF Inv, FreshInv
  <2>2. /\ SectionOf(v)' = SectionOf(v) /\ Change(v)' = Change(v)
        /\ pc'[v] = pc[v] /\ seen'[v] = seen[v] /\ new'[v] = new[v]
        /\ (v \in overtaken)' <=> v \in overtaken
    BY <1>2 DEF OnlyWorker, SectionOf, Change
  <2>3. CASE pc[v] = "idle"
    BY <2>2, <2>3 DEF FreshOf, Loaded, Decided
  <2>4. CASE pc[v] # "idle"
    <3> PICK s \in Sections : s = SectionOf(v)
      BY <2>1, <2>4
    <3>1. SectionOf(v) = s /\ SectionOf(v)' = s /\ Unnoticed(s)' = Unnoticed(s)
      BY <1>1, <2>2
    <3> QED BY <2>1, <2>2, <3>1 DEF FreshOf, schedule
  <2> QED BY <2>3, <2>4
<1>3. OpeningsCounted'
  BY <1>1 DEF FreshInv, OpeningsCounted, schedule
<1> QED BY <1>2, <1>3 DEF FreshInv

LEMMA RetriedKnown ==
    ASSUME Inv, FreshInv, NEW w \in Workers, pc[w] # "idle"
    PROVE  /\ \A k \in Messages : Retried(w)[k] > 0 => sec[k[1]].status # "absent"
           /\ \A k \in Messages :
                  Publish(pollq, job[w])[k] > 0 => sec[k[1]].status # "absent"
<1>1. /\ job[w] \in Messages /\ sec[SectionOf(w)].status # "absent"
      /\ pollq \in [Messages -> 0..MaxQueued]
  BY DEF FreshInv, FreshOf, Inv, TypeOK
<1>2. job[w][2] < MaxRetries => <<SectionOf(w), job[w][2] + 1>> \in Messages
  BY <1>1, PollingAssumption DEF Messages, SectionOf
<1>3. \A k \in Messages : Retried(w)[k] > 0 => sec[k[1]].status # "absent"
  BY <1>1, <1>2, PublishKnown DEF Retried, FreshInv, QueueKnown
<1>4. \A k \in Messages : Publish(pollq, job[w])[k] > 0 => sec[k[1]].status # "absent"
  BY <1>1, PublishKnown DEF SectionOf, FreshInv
<1> QED BY <1>3, <1>4

LEMMA LeavingFresh ==
    ASSUME Inv, FreshInv, NEW w \in Workers,
           Done(w) \/ WorkerLost(w) \/ TimeLimit(w)
    PROVE  FreshInv'
<1>1. pc[w] # "idle" /\ Release(w) /\ UNCHANGED <<schedule, tables, targets, clashes>>
  BY DEF Done, WorkerLost, TimeLimit, Abort
<1>2. OnlyWorker(w) /\ pc'[w] = "idle" /\ overtaken' = overtaken \ {w}
  BY <1>1 DEF Release, Goto, CloseSession, OnlyWorker, Inv, TypeOK
<1>3. FreshOf(w)'
  BY <1>2 DEF FreshOf, Loaded, Decided
<1>4. pollq' \in {pollq, Publish(pollq, job[w])}
  BY DEF Done, WorkerLost, TimeLimit
<1>5. QueueKnown'
  BY <1>1, <1>4, RetriedKnown DEF FreshInv, QueueKnown, tables
<1> QED BY <1>1, <1>2, <1>3, <1>5, PollFreshFrame DEF tables

(* A poll that fails for good: its retry, and the end of its transaction.  *)
LEMMA RetryingFresh ==
    ASSUME Inv, FreshInv, NEW w \in Workers,
           RateLimited(w) \/ Raise(w) \/ Rollback(w)
    PROVE  FreshInv'
<1>1. /\ pc[w] \in {"fetch", "raise", "rollback"}
      /\ UNCHANGED <<schedule, tables, targets, job, clashes>>
      /\ overtaken' \in {overtaken, overtaken \ {w}}
      /\ pollq' \in {pollq, Retried(w)}
  BY DEF RateLimited, Raise, Rollback, history, overlap
<1>2. /\ OnlyWorker(w) /\ SectionOf(w)' = SectionOf(w)
      /\ \/ pc'[w] = "fanout"
         \/ pc'[w] = "rollback" /\ seen'[w] = seen[w] /\ overtaken' = overtaken
  BY DEF RateLimited, Raise, Rollback, Goto, CloseSession, history, overlap, OnlyWorker,
         SectionOf, Inv, TypeOK
<1>3. FreshOf(w)'
  BY <1>1, <1>2 DEF FreshInv, FreshOf, Loaded, Labels, Decided, tables
<1>4. QueueKnown'
  BY <1>1, RetriedKnown DEF FreshInv, QueueKnown, tables
<1> QED BY <1>1, <1>2, <1>3, <1>4, PollFreshFrame DEF tables

LEMMA TakeFresh ==
    ASSUME Inv, FreshInv, NEW w \in Workers, NEW m \in Messages, Take(w, m)
    PROVE  FreshInv'
<1> USE DEF Take, Goto, tables, history, overlap
<1>1. OnlyWorker(w) /\ pc'[w] = "fetch" /\ job'[w] = m /\ seen'[w] = Load(m[1])
  BY DEF Inv, TypeOK, OnlyWorker
<1>2. m[1] \in Sections /\ sec[m[1]].status # "absent" /\ sec[m[1]] \in Section
  BY DEF Messages, FreshInv, QueueKnown, Inv, TypeOK
<1>3. seen'[w].status = sec[m[1]].status
  BY <1>1, <1>2 DEF Load, Section
<1>4. FreshOf(w)'
  BY <1>1, <1>2, <1>3 DEF FreshOf, SectionOf, Loaded, Decided
<1>5. QueueKnown'
  BY PollingAssumption DEF FreshInv, QueueKnown, Inv, TypeOK
<1> QED BY <1>1, <1>4, <1>5, PollFreshFrame

LEMMA FailingFresh ==
    ASSUME Inv, FreshInv, NEW w \in Workers, Unavailable(w) \/ NotOnPage(w)
    PROVE  FreshInv'
<1>1. /\ pc[w] = "fetch" /\ seen[w].failures < MaxFailures
      /\ new' = [new EXCEPT ![w] = Failed(seen[w])]
      /\ \E label \in {"raise", "commit"} : pc' = [pc EXCEPT ![w] = label]
      /\ UNCHANGED <<schedule, tables, pollq, targets, job, seen, ids, overlap>>
  BY DEF Unavailable, NotOnPage, Goto, history
<1>2. OnlyWorker(w) /\ pc'[w] \in {"raise", "commit"}
      /\ SectionOf(w)' = SectionOf(w) /\ seen'[w] = seen[w]
  BY <1>1 DEF Inv, TypeOK, OnlyWorker, SectionOf
<1>3. new'[w].status = seen[w].status
  BY <1>1, FailedType DEF Inv, TypeOK
<1>4. ~IsOpening(Change(w)')
  BY <1>2, <1>3 DEF IsOpening, Change
<1>5. /\ SectionOf(w) \in Sections /\ sec[SectionOf(w)].status # "absent"
      /\ w \notin overtaken => seen[w].status = sec[SectionOf(w)].status
  BY <1>1, SectionFacts DEF Inv, FreshInv, FreshOf, Loaded, Labels
<1>6. w \notin overtaken /\ new'[w].status = "closed" /\ page'[SectionOf(w)] = "open"
          => Unnoticed(SectionOf(w))'
  <2>1. Unnoticed(SectionOf(w)) => Unnoticed(SectionOf(w))'
    BY <1>1, <1>2 DEF Unnoticed, Openings, OpeningsOf, schedule, tables, overlap
  <2> QED BY <1>1, <1>3, <1>5, <2>1 DEF FreshInv, OpeningsCounted, schedule
<1>7. FreshOf(w)'
  BY <1>1, <1>2, <1>4, <1>5, <1>6 DEF FreshOf, tables, overlap
<1>8. QueueKnown'
  BY <1>1 DEF FreshInv, QueueKnown, tables
<1> QED BY <1>1, <1>2, <1>7, <1>8, PollFreshFrame DEF tables, overlap

LEMMA ObserveFresh ==
    ASSUME Inv, FreshInv, NEW w \in Workers, Observe(w)
    PROVE  FreshInv'
<1> USE DEF Observe, Goto, tables, history, overlap
<1> DEFINE s == SectionOf(w)
<1>1. /\ s \in Sections /\ sec[s].status # "absent"
      /\ w \notin overtaken => seen[w].status = sec[s].status
  BY SectionFacts DEF Inv, FreshInv, FreshOf, Loaded, Labels
<1>2. OnlyWorker(w) /\ pc'[w] = "flush" /\ SectionOf(w)' = s /\ seen'[w] = seen[w]
  BY DEF Inv, TypeOK, OnlyWorker, SectionOf
<1>3. new'[w].status = page[s] /\ page'[s] = page[s] /\ sec' = sec
  BY DEF Inv, TypeOK, Observed, schedule
<1>4. Change(w)' = [from |-> seen[w].status, to |-> page[s]]
  BY <1>2, <1>3 DEF Change
<1>5. Unnoticed(s) => Unnoticed(SectionOf(w))'
  BY <1>2 DEF Unnoticed, Openings, OpeningsOf, schedule
<1>6. w \notin overtaken /\ IsOpening(Change(w)') => Unnoticed(SectionOf(w))'
  BY <1>1, <1>4, <1>5 DEF IsOpening, FreshInv, OpeningsCounted
<1>7. FreshOf(w)'
  BY <1>1, <1>2, <1>3, <1>6 DEF FreshOf
<1>8. QueueKnown'
  BY DEF FreshInv, QueueKnown
<1> QED BY <1>2, <1>7, <1>8, PollFreshFrame

(* Flush, queue and fan-out: the poll only moves on.                       *)
LEMMA MovingFresh ==
    ASSUME Inv, FreshInv, NEW w \in Workers,
           Flush(w) \/ Queue(w) \/ \E a \in Alerts : FanOut(w, a)
    PROVE  FreshInv'
<1>1. UNCHANGED <<schedule, tables, pollq, targets, job, seen, new, overlap>>
  BY DEF Flush, Queue, FanOut, history
<1>2. OnlyWorker(w) /\ pc[w] # "idle"
      /\ (pc'[w] \in Loaded => pc[w] \in Loaded) /\ (pc'[w] \in Decided => pc[w] \in Decided)
  BY <1>1 DEF Flush, Queue, FanOut, Goto, OnlyWorker, Inv, TypeOK, Loaded, Labels, Decided
<1>3. FreshOf(w) /\ SectionOf(w)' = SectionOf(w) /\ Change(w)' = Change(w)
      /\ (Unnoticed(SectionOf(w)) => Unnoticed(SectionOf(w))')
  BY <1>1 DEF FreshInv, SectionOf, Change, Unnoticed, Openings, OpeningsOf, schedule,
              tables, overlap
<1>4. FreshOf(w)'
  BY <1>1, <1>2, <1>3 DEF FreshOf, schedule, tables, overlap
<1>5. QueueKnown'
  BY <1>1 DEF FreshInv, QueueKnown, tables
<1> QED BY <1>1, <1>2, <1>4, <1>5, PollFreshFrame DEF tables, overlap

(* The commit.  A poll that changes the status overtakes everyone who has  *)
(* the section loaded; an overtaken poll that does so is a clash.          *)
LEMMA CommitEffect ==
    ASSUME Inv, FreshInv, NEW w \in Workers, Commit(w), NEW s, s = SectionOf(w)
    PROVE  /\ s \in Sections /\ sec'[s].status # "absent"
           /\ \A t \in Sections :
                  t # s => sec'[t] = sec[t] /\ events'[t] = events[t]
                           /\ clashes'[t] = clashes[t]
           /\ Changes(w) =>
                  /\ Change(w) \in Event
                  /\ events'[s] = Append(events[s], Change(w))
                  /\ sec'[s].status = new[w].status
                  /\ w \in overtaken => clashes'[s] = clashes[s] + 1
                  /\ w \notin overtaken => clashes'[s] = clashes[s]
           /\ ~Changes(w) =>
                  /\ events'[s] = events[s]
                  /\ sec'[s].status = sec[s].status
                  /\ clashes'[s] = clashes[s]
           /\ w \notin overtaken =>
                  seen[w].status = sec[s].status /\ sec'[s].status = new[w].status
<1> USE DEF Commit
<1>1. /\ s \in Sections /\ sec[s].status # "absent"
      /\ w \notin overtaken => seen[w].status = sec[s].status
  BY SectionFacts DEF Inv, FreshInv, FreshOf, Loaded, Labels
<1>2. sec'[s] = Written(seen[w], new[w], sec[s])
  BY <1>1 DEF Inv, TypeOK
<1>3. /\ Changes(w) => sec'[s].status = new[w].status /\ new[w].status # "absent"
      /\ ~Changes(w) => sec'[s].status = sec[s].status /\ new[w].status = seen[w].status
  BY <1>2 DEF Written, Changes, Change, Inv, PollShape
<1>4. /\ Change(w) \in Event
      /\ Changes(w) => events'[s] = Append(events[s], Change(w))
      /\ ~Changes(w) => events'[s] = events[s]
  BY <1>1 DEF Change, Event, Inv, TypeOK, Section
<1>5. /\ Changes(w) /\ w \in overtaken => clashes'[s] = clashes[s] + 1
      /\ ~(Changes(w) /\ w \in overtaken) => clashes'[s] = clashes[s]
  BY <1>1 DEF Inv, TypeOK
<1>6. \A t \in Sections :
          t # s => sec'[t] = sec[t] /\ events'[t] = events[t] /\ clashes'[t] = clashes[t]
  BY <1>1 DEF Inv, TypeOK
<1> QED BY <1>1, <1>3, <1>4, <1>5, <1>6

LEMMA CommitCounted ==
    ASSUME Inv, FreshInv, NEW w \in Workers, Commit(w)
    PROVE  OpeningsCounted'
<1> PICK s : s = SectionOf(w)
  OBVIOUS
<1>0. s \in Sections
  BY CommitEffect
<1>1. UNCHANGED <<page, opened>>
  BY DEF Commit, schedule
<1>2. /\ Openings(s) \in Nat /\ opened[s] \in Nat /\ clashes[s] \in Nat
      /\ Openings(s) <= opened[s] + clashes[s]
  BY <1>0, AccountType DEF Inv, FreshInv, OpeningsCounted
<1>3. /\ Changes(w) /\ IsOpening(Change(w)) => Openings(s)' = Openings(s) + 1
      /\ ~(Changes(w) /\ IsOpening(Change(w))) => Openings(s)' = Openings(s)
  <2>1. CASE Changes(w)
    BY <1>0, <2>1, CommitEffect, OpeningsGrow DEF Inv
  <2>2. CASE ~Changes(w)
    BY <2>2, CommitEffect, OpeningsSame
  <2> QED BY <2>1, <2>2
<1>4. new[w].status = "closed" => ~IsOpening(Change(w))
  BY DEF IsOpening, Change
<1>5. w \notin overtaken =>
          /\ IsOpening(Change(w)) => Openings(s) < opened[s] + clashes[s]
          /\ new[w].status = "closed" /\ page[s] = "open" =>
                 Openings(s) < opened[s] + clashes[s]
  BY DEF FreshInv, FreshOf, Unnoticed, Commit, Decided
<1>6. /\ Openings(s)' <= opened'[s] + clashes'[s]
      /\ sec'[s].status = "closed" /\ page'[s] = "open" => Unnoticed(s)'
  <2>1. CASE ~Changes(w)
    <3>1. clashes'[s] = clashes[s] /\ sec'[s].status = sec[s].status
      BY <2>1, CommitEffect
    <3> QED BY <1>0, <1>1, <1>2, <1>3, <2>1, <3>1
            DEF FreshInv, OpeningsCounted, Unnoticed
  <2>2. CASE Changes(w) /\ w \in overtaken
    <3>1. clashes'[s] = clashes[s] + 1 /\ sec'[s].status = new[w].status
      BY <2>2, CommitEffect
    <3> QED BY <1>1, <1>2, <1>3, <1>4, <3>1 DEF Unnoticed
  <2>3. CASE Changes(w) /\ w \notin overtaken
    <3>1. clashes'[s] = clashes[s] /\ sec'[s].status = new[w].status
      BY <2>3, CommitEffect
    <3> QED BY <1>1, <1>2, <1>3, <1>4, <1>5, <2>3, <3>1 DEF Unnoticed
  <2> QED BY <2>1, <2>2, <2>3
<1> SUFFICES ASSUME NEW t \in Sections
             PROVE  /\ Openings(t)' <= opened'[t] + clashes'[t]
                    /\ sec'[t].status = "closed" /\ page'[t] = "open" => Unnoticed(t)'
  BY DEF OpeningsCounted
<1>7. CASE t = s
  BY <1>6, <1>7
<1>8. CASE t # s
  <2>1. sec'[t] = sec[t] /\ events'[t] = events[t] /\ clashes'[t] = clashes[t]
    BY <1>8, CommitEffect
  <2> QED BY <1>1, <2>1, OpeningsSame DEF FreshInv, OpeningsCounted, Unnoticed
<1> QED BY <1>7, <1>8

LEMMA CommitFresh ==
    ASSUME Inv, FreshInv, NEW w \in Workers, Commit(w)
    PROVE  FreshInv'
<1> PICK s : s = SectionOf(w)
  OBVIOUS
<1>1. s \in Sections /\ sec'[s].status # "absent"
  BY CommitEffect
<1>2. \A t \in Sections :
          t # s => sec'[t] = sec[t] /\ events'[t] = events[t] /\ clashes'[t] = clashes[t]
  BY CommitEffect
<1>3. UNCHANGED <<page, opened, pollq, targets, job>>
  BY DEF Commit, schedule
<1>4. OnlyWorker(w) /\ pc'[w] = "fanout" /\ SectionOf(w)' = s
  BY DEF Commit, CloseSession, Goto, OnlyWorker, SectionOf, Inv, TypeOK
<1>5. ASSUME NEW v \in Workers, v # w, v \notin overtaken'
      PROVE  /\ v \notin overtaken
             /\ pc[v] \in Loaded /\ SectionOf(v) = s => ~Changes(w)
  BY <1>5 DEF Commit, Overtakes
<1>6. QueueKnown'
  <2>1. \A t \in Sections : sec[t].status # "absent" => sec'[t].status # "absent"
    BY <1>1, <1>2
  <2>2. \A m \in Messages : m[1] \in Sections
    BY DEF Messages
  <2> QED BY <1>3, <2>1, <2>2 DEF FreshInv, QueueKnown, Inv, TypeOK
<1>7. ASSUME NEW v \in Workers PROVE FreshOf(v)'
  <2>1. CASE v = w
    BY <1>1, <1>4, <2>1 DEF FreshOf, Loaded, Labels, Decided
  <2>2. CASE v # w
    <3>1. FreshOf(v) /\ (pc[v] # "idle" => SectionOf(v) \in Sections)
      BY SectionFacts DEF Inv, FreshInv
    <3>2. SectionOf(v)' = SectionOf(v) /\ Change(v)' = Change(v)
          /\ pc'[v] = pc[v] /\ seen'[v] = seen[v] /\ new'[v] = new[v]
      BY <1>4, <2>2 DEF OnlyWorker, SectionOf, Change
    <3>3. CASE pc[v] = "idle"
      BY <3>2, <3>3 DEF FreshOf, Loaded, Labels, Decided
    <3>4. CASE pc[v] # "idle" /\ SectionOf(v) = s
      <4>1. CASE v \in overtaken' \/ pc[v] \notin Loaded
        BY <1>1, <3>2, <3>4, <4>1 DEF FreshOf, Loaded, Labels, Decided
      <4>2. CASE v \notin overtaken' /\ pc[v] \in Loaded
        <5>1. v \notin overtaken /\ ~Changes(w)
          BY <1>5, <2>2, <3>4, <4>2
        <5>2. events'[s] = events[s] /\ sec'[s].status = sec[s].status
              /\ clashes'[s] = clashes[s]
          BY <5>1, CommitEffect
        <5>3. Unnoticed(s)' = Unnoticed(s)
          BY <1>3, <5>2, OpeningsSame DEF Unnoticed
        <5> QED BY <1>1, <1>3, <3>1, <3>2, <3>4, <5>1, <5>2, <5>3 DEF FreshOf
      <4> QED BY <4>1, <4>2
    <3>5. CASE pc[v] # "idle" /\ SectionOf(v) # s
      <4> PICK t \in Sections : t = SectionOf(v)
        BY <3>1, <3>5
      <4>1. SectionOf(v) = t /\ SectionOf(v)' = t /\ sec'[t] = sec[t]
            /\ events'[t] = events[t] /\ clashes'[t] = clashes[t]
        BY <1>2, <3>2, <3>5
      <4>2. Unnoticed(t)' = Unnoticed(t)
        BY <1>3, <4>1, OpeningsSame DEF Unnoticed
      <4>3. v \notin overtaken' => v \notin overtaken
        BY <1>5, <2>2
      <4> QED BY <1>3, <3>1, <3>2, <4>1, <4>2, <4>3 DEF FreshOf
    <3> QED BY <3>3, <3>4, <3>5
  <2> QED BY <2>1, <2>2
<1> QED BY <1>6, <1>7, CommitCounted DEF FreshInv

-----------------------------------------------------------------------------
LEMMA InitFresh == Init => FreshInv
<1> SUFFICES ASSUME Init PROVE FreshInv
  OBVIOUS
<1>1. QueueKnown
  BY DEF Init, QueueKnown
<1>2. \A w \in Workers : FreshOf(w)
  BY DEF Init, FreshOf, Loaded, Labels, Decided
<1>3. OpeningsCounted
  <2>1. \A s \in Sections : OpeningsOf(s) = {}
    BY DEF Init, OpeningsOf
  <2>2. \A s \in Sections : Openings(s) = 0
    BY <2>1, FS_EmptySet DEF Openings
  <2> QED BY <2>2 DEF Init, OpeningsCounted, Absent
<1> QED BY <1>1, <1>2, <1>3 DEF FreshInv

LEMMA NextFresh == Inv /\ FreshInv /\ [Next]_vars => FreshInv'
<1> SUFFICES ASSUME Inv, FreshInv, [Next]_vars PROVE FreshInv'
  OBVIOUS
<1>1. CASE UNCHANGED vars
  <2>1. UNCHANGED <<schedule, sec, events, pollq, targets, worker, overlap>>
    BY <1>1 DEF vars, tables, history
  <2>2. QueueKnown' /\ \A s \in Sections : opened[s] \in Nat
    BY <2>1, PollingAssumption DEF FreshInv, QueueKnown, Inv, TypeOK
  <2> QED BY <2>1, <2>2, FreshFrame DEF schedule
<1>2. ASSUME NEW w \in Workers, PollSection(w)
      PROVE  FreshInv'
  BY <1>2, TakeFresh, LeavingFresh, RetryingFresh, FailingFresh, ObserveFresh,
     MovingFresh, CommitFresh DEF PollSection
<1> QED BY <1>1, <1>2, WorldFresh, DispatchFresh DEF Next

(* What a poll that is not overtaken has loaded is what is committed.      *)
THEOREM FreshIsInvariant == Spec => [](Inv /\ FreshInv)
<1> QED BY InitInv, NextInv, InitFresh, NextFresh, PTL DEF Spec

(* However polls overlap, and whatever is lost, retried or fails, the      *)
(* history of a section has no more openings than the school's schedule    *)
(* had, and one more for each change recorded by an overtaken poll.        *)
THEOREM OpeningsAreRealAlways == Spec => []OpeningsAreReal
<1>1. FreshInv => OpeningsAreReal
  BY DEF FreshInv, OpeningsCounted, OpeningsAreReal
<1> QED BY <1>1, FreshIsInvariant, PTL

(* A section's row changes by a deadline, a first watch or a commit.       *)
LEMMA RowChanges ==
    ASSUME [Next]_vars, ~UNCHANGED sec
    PROVE  \/ \E t \in Sections : BecomesDue(t)
           \/ \E x \in Watches : Watch(x)
           \/ \E w \in Workers : Commit(w)
<1>1. CASE World
  BY <1>1 DEF World, Opens, Closes, Unwatch, tables
<1>2. ~Dispatch /\ ~UNCHANGED vars
  BY DEF Dispatch, DispatchSelect, DispatchLost, DispatchPublish, vars, tables
<1>3. ASSUME NEW w \in Workers, PollSection(w) PROVE Commit(w)
  BY <1>3 DEF PollSection, Take, RateLimited, Unavailable, Raise, Rollback, NotOnPage,
     Observe, Flush, Queue, FanOut, Done, WorkerLost, TimeLimit, Abort, tables
<1> QED BY <1>1, <1>2, <1>3 DEF Next

(* Where a section goes from closed to open, it is a commit that says so.  *)
LEMMA OnlyCommitsChangeStatus ==
    ASSUME Inv, [Next]_vars, NEW s \in Sections,
           sec[s].status = "closed", sec'[s].status = "open"
    PROVE  \E w \in Workers : Commit(w) /\ SectionOf(w) = s
<1>1. ~UNCHANGED sec
  OBVIOUS
<1>2. ASSUME NEW t \in Sections, BecomesDue(t) PROVE FALSE
  BY <1>2 DEF BecomesDue, Inv, TypeOK, Section
<1>3. ASSUME NEW x \in Watches, Watch(x) PROVE FALSE
  BY <1>3 DEF Watch, Watches, Inv, TypeOK, Absent
<1>4. PICK w \in Workers : Commit(w)
  BY <1>1, <1>2, <1>3, RowChanges
<1>5. SectionOf(w) = s
  BY <1>4 DEF Commit, Inv, TypeOK
<1> QED BY <1>4, <1>5

(* However polls overlap, the commit that turns a closed section open      *)
(* records an opening, or is one of the changes counted as a clash.        *)
THEOREM OpeningIsRecognisedAlways == Spec => OpeningIsRecognised
<1> DEFINE Recognises ==
        \A s \in Sections :
            sec[s].status = "closed" /\ sec'[s].status = "open"
                => \/ Len(events'[s]) \in OpeningsOf(s)'
                   \/ clashes'[s] > clashes[s]
<1>1. Inv /\ FreshInv /\ [Next]_vars => Recognises
  <2> SUFFICES ASSUME Inv, FreshInv, [Next]_vars, NEW s \in Sections,
                      sec[s].status = "closed", sec'[s].status = "open"
               PROVE  \/ Len(events'[s]) \in OpeningsOf(s)'
                      \/ clashes'[s] > clashes[s]
    OBVIOUS
  <2>1. PICK w \in Workers : Commit(w) /\ SectionOf(w) = s
    BY OnlyCommitsChangeStatus
  <2>2. Changes(w)
    BY <2>1, CommitEffect
  <2>3. CASE w \in overtaken
    BY <2>1, <2>2, <2>3, CommitEffect, AccountType DEF Inv
  <2>4. CASE w \notin overtaken
    <3>1. Change(w) = [from |-> "closed", to |-> "open"]
      BY <2>1, <2>4, CommitEffect DEF Change
    <3>2. Change(w) \in Event /\ IsOpening(Change(w))
      BY <3>1 DEF Event, Status, IsOpening
    <3>3. events'[s] = Append(events[s], Change(w))
      BY <2>1, <2>2, CommitEffect
    <3> QED BY <3>2, <3>3, OpeningsGrow DEF Inv
  <2> QED BY <2>3, <2>4
<1>2. Inv /\ FreshInv /\ [Next]_vars => [Recognises]_vars
  BY <1>1
<1> QED BY <1>2, FreshIsInvariant, PTL DEF OpeningIsRecognised, Spec

-----------------------------------------------------------------------------
LEMMA PromptOfAll ==
    ASSUME Inv, PromptInv, [Next]_vars, NEW w \in Workers
    PROVE  PromptOf(w)'
<1>1. CASE /\ new'[w] = new[w] /\ seen'[w] = seen[w]
           /\ pc'[w] \in Decided => pc[w] \in Decided
  BY <1>1 DEF PromptInv, PromptOf
<1>2. CASE pc'[w] \notin Decided
  BY <1>2 DEF PromptOf
<1>3. CASE Observe(w)
  BY <1>3 DEF Observe, Observed, PromptOf, Inv, TypeOK
<1>4. CASE Unavailable(w) \/ NotOnPage(w)
  <2>1. new'[w] = Failed(seen[w]) /\ seen'[w] = seen[w] /\ seen[w].failures \in Nat
    BY <1>4, PollingAssumption DEF Unavailable, NotOnPage, Inv, TypeOK, Section
  <2>2. new'[w].failures # seen'[w].failures /\ new'[w].failures # 0
    BY <2>1 DEF Failed
  <2> QED BY <2>2 DEF PromptOf
<1>5. CASE World \/ Dispatch \/ UNCHANGED vars
  BY <1>1, <1>5 DEF World, Opens, Closes, BecomesDue, Watch, Unwatch, Dispatch,
     DispatchSelect, DispatchLost, DispatchPublish, vars, worker
<1>6. ASSUME NEW v \in Workers, v # w, PollSection(v) PROVE PromptOf(w)'
  <2>1. new'[w] = new[w] /\ seen'[w] = seen[w] /\ pc'[w] = pc[w]
    BY <1>6 DEF PollSection, Take, RateLimited, Unavailable, Raise, Rollback, NotOnPage,
       Observe, Flush, Queue, Commit, FanOut, Done, WorkerLost, TimeLimit, Abort, Release,
       Goto, CloseSession, Inv, TypeOK
  <2> QED BY <1>1, <2>1
<1>7. CASE PollSection(w)
  <2>1. CASE Flush(w) \/ Queue(w) \/ \E a \in Alerts : FanOut(w, a)
    BY <1>1, <2>1 DEF Flush, Queue, FanOut, Goto, Decided, Inv, TypeOK
  <2>2. CASE (\E m \in Messages : Take(w, m)) \/ Commit(w)
    BY <1>2, <2>2 DEF Take, Commit, Goto, Decided, Inv, TypeOK
  <2>3. CASE \/ RateLimited(w) \/ Raise(w) \/ Rollback(w)
             \/ Done(w) \/ WorkerLost(w) \/ TimeLimit(w)
    BY <1>2, <2>3 DEF RateLimited, Raise, Rollback, Done, WorkerLost, TimeLimit, Abort,
       Release, Goto, Decided, Inv, TypeOK
  <2> QED BY <1>3, <1>4, <1>7, <2>1, <2>2, <2>3 DEF PollSection
<1> QED BY <1>5, <1>6, <1>7 DEF Next

LEMMA PromptRows ==
    ASSUME Inv, FreshInv, PromptInv, [Next]_vars, NEW s \in Sections, Prompt(s)
    PROVE  Prompt(s)' \/ CommitOvertaken(s)
<1> USE DEF Prompt
<1>1. CASE sec'[s] = sec[s]
  BY <1>1
<1>2. ASSUME NEW t \in Sections, BecomesDue(t) PROVE Prompt(s)'
  BY <1>2 DEF BecomesDue, Inv, TypeOK, Section
<1>3. ASSUME NEW x \in Watches, Watch(x) PROVE Prompt(s)'
  BY <1>3 DEF Watch, Watches, Inv, TypeOK, Absent
<1>4. ASSUME NEW w \in Workers, Commit(w), SectionOf(w) = s
      PROVE  Prompt(s)' \/ CommitOvertaken(s)
  <2>1. pc[w] = "commit" /\ pc'[w] = "fanout"
    BY <1>4 DEF Commit, Goto, Inv, TypeOK
  <2>2. CASE w \in overtaken
    BY <1>4, <2>1, <2>2 DEF CommitOvertaken
  <2>3. CASE w \notin overtaken
    <3>1. sec'[s].status = new[w].status
      BY <1>4, <2>3, CommitEffect
    <3>2. /\ sec'[s].next = new[w].next
          /\ new[w].failures # seen[w].failures => sec'[s].failures = new[w].failures
      BY <1>4 DEF Commit, Written, Inv, TypeOK
    <3> QED BY <2>1, <3>1, <3>2 DEF PromptInv, PromptOf, Decided
  <2> QED BY <2>2, <2>3
<1>5. ASSUME NEW w \in Workers, Commit(w), SectionOf(w) # s
      PROVE  sec'[s] = sec[s]
  BY <1>5 DEF Commit, Inv, TypeOK
<1> HIDE DEF Prompt
<1> QED BY <1>1, <1>2, <1>3, <1>4, <1>5, RowChanges

(* However polls overlap, only the commit of an overtaken poll leaves a    *)
(* closed section that did not fail to wait for the long interval.         *)
THEOREM ClosedIsPromptAlways == Spec => ClosedIsPrompt
<1> DEFINE KeepsPrompt ==
        \A s \in Sections : Prompt(s) => Prompt(s)' \/ CommitOvertaken(s)
<1>1. Init => PromptInv
  BY DEF Init, PromptInv, PromptOf, Decided
<1>2. Inv /\ PromptInv /\ [Next]_vars => PromptInv'
  BY PromptOfAll DEF PromptInv
<1>3. Inv /\ FreshInv /\ PromptInv /\ [Next]_vars => [KeepsPrompt]_vars
  BY PromptRows
<1> QED BY <1>1, <1>2, <1>3, FreshIsInvariant, PTL DEF ClosedIsPrompt, Spec

-----------------------------------------------------------------------------
(* Alerts about one watch are about different openings of its section.     *)
LEMMA AlertsFitOpenings ==
    ASSUME TypeOK, AlertsComeFromOpenings, NEW x \in Watches,
           NEW A, A \subseteq {a \in notes : a[1] = x}
    PROVE  IsFiniteSet(A) /\ Cardinality(A) \in Nat /\ Cardinality(A) <= Openings(x[1])
<1> DEFINE s == x[1]
           event == [a \in A |-> a[2]]
<1>1. s \in Sections
  BY DEF Watches
<1>2. \A a \in A : a \in Alerts /\ a[1] = x /\ a[2] \in 1..MaxEvents /\ a = <<x, a[2]>>
  BY DEF TypeOK, Alerts
<1>3. IsFiniteSet(OpeningsOf(s)) /\ Openings(s) \in Nat
  BY <1>1, OpeningsFinite
<1>4. \A a \in A : a[2] \in OpeningsOf(s)
  <2> TAKE a \in A
  <2>1. a[2] <= Len(events[s]) /\ IsOpening(events[s][a[2]])
    BY <1>2 DEF AlertsComeFromOpenings
  <2>2. a[2] \in 1..Len(events[s])
    BY <1>1, <1>2, <2>1 DEF TypeOK
  <2> QED BY <2>1, <2>2 DEF OpeningsOf
<1>5. event \in [A -> OpeningsOf(s)]
  BY <1>4
<1>6. \A a, b \in A : event[a] = event[b] => a = b
  BY <1>2
<1>7. event \in Injection(A, OpeningsOf(s))
  BY <1>5, <1>6 DEF Injection, IsInjective
<1>8. IsFiniteSet(A) /\ Cardinality(A) <= Cardinality(OpeningsOf(s))
  BY <1>3, <1>7, FS_Injection
<1> QED BY <1>8, FS_CardinalityType DEF Openings

OncePerOpening ==
    \A x \in Watches :
        Cardinality({a \in notes : a[1] = x}) <= opened[x[1]] + clashes[x[1]]

(* However polls overlap, a watch gets one alert per opening at most, and  *)
(* one more for each change recorded by an overtaken poll.                 *)
THEOREM AlertsFitClashes == Spec => []OncePerOpening
<1>1. Inv /\ FreshInv => OncePerOpening
  <2> SUFFICES ASSUME Inv, FreshInv, NEW x \in Watches
               PROVE  Cardinality({a \in notes : a[1] = x}) <= opened[x[1]] + clashes[x[1]]
    BY DEF OncePerOpening
  <2> DEFINE A == {a \in notes : a[1] = x}
  <2>1. Cardinality(A) \in Nat /\ Cardinality(A) <= Openings(x[1])
    BY AlertsFitOpenings DEF Inv
  <2>2. x[1] \in Sections
    BY DEF Watches
  <2>3. /\ Openings(x[1]) \in Nat /\ opened[x[1]] \in Nat /\ clashes[x[1]] \in Nat
        /\ Openings(x[1]) <= opened[x[1]] + clashes[x[1]]
    BY <2>2, AccountType DEF Inv, FreshInv, OpeningsCounted
  <2> HIDE DEF A
  <2>4. Cardinality(A) <= opened[x[1]] + clashes[x[1]]
    BY <2>1, <2>3
  <2> QED BY <2>4 DEF A
<1> QED BY <1>1, FreshIsInvariant, PTL

=============================================================================

------------------------------ MODULE Polling ------------------------------
(***************************************************************************)
(* Polling sections: dispatch_due_sections, the poll_section task with the *)
(* decisions of polling.py it applies, and, coarsely, the watch endpoints. *)
(*                                                                         *)
(* sec, events and notes are the committed tables.  A poll reads its       *)
(* section once, without a lock (seen), fetches the page while its         *)
(* transaction stays open, changes the loaded object (new) and writes the  *)
(* columns that changed; from that UPDATE to the end of its transaction it *)
(* holds the section's row lock.  Nothing stops two polls of one section   *)
(* from overlapping: a section stays due until a poll of it commits.       *)
(***************************************************************************)
EXTENDS Integers, Sequences, FiniteSets

CONSTANTS
    Sections, Watchers,
    Workers,      \* Celery worker slots running poll_section
    NoJob,        \* what an idle worker holds
    MaxRetries,   \* max_retries of the task (5 in the code)
    MaxFailures,  \* bound: failed polls of a section in a row
    MaxQueued,    \* bound: equal messages the broker model tells apart
    MaxOpenings,  \* bound: times a section opens on the schedule
    MaxEvents,    \* bound: status events per section
    MaxFaults     \* bound: worker losses and time limits

Watches  == Sections \X Watchers              \* a watch: who, on which section
Messages == Sections \X (0..MaxRetries)       \* <<section id, retries so far>>
Alerts   == Watches \X (1..MaxEvents)         \* the unique (watch, event) pairs

ASSUME PollingAssumption ==
    /\ MaxRetries \in Nat
    /\ MaxFailures \in Nat
    /\ MaxQueued \in Nat \ {0}
    /\ MaxOpenings \in Nat
    /\ MaxEvents \in Nat
    /\ MaxFaults \in Nat
    /\ NoJob \notin Messages

VARIABLES
    page,       \* the school's schedule: which sections are open
    opened,     \* how often each section opened on it
    sec,        \* the sections table
    active,     \* watches with active = true
    events,     \* status_events, per section, oldest first
    notes,      \* the notifications table, as (watch, event) pairs
    published,  \* notifications whose first message was sent
    pollq,      \* the broker: how many copies of each poll message wait
    targets,    \* sections the running dispatcher has still to publish
    pc, job,    \* per worker: its place in the task, the message it holds
    seen, new,  \* per worker: the section as loaded, and as changed since
    ids,        \* per worker: the alerts it creates and has still to fan out
    faults,     \* how many faults have happened
    base,       \* history: opened, as it was when a watch was activated
    overtaken,  \* history: workers whose section changed status under them
    clashes     \* history: changes of status recorded by overtaken polls

schedule == <<page, opened>>
tables   == <<sec, active, events, notes>>
worker   == <<pc, job, seen, new, ids>>
overlap  == <<overtaken, clashes>>
history  == <<base, overlap>>
vars == <<schedule, tables, published, pollq, targets, worker, faults, history>>

-----------------------------------------------------------------------------
Status  == {"absent", "unknown", "open", "closed"}
(* next_check_at: passed, or the interval or the delay it was set by.      *)
Wait    == {"due", "soon", "later", "backoff"}
Section == [status : Status, failures : 0..MaxFailures, next : Wait]
Absent  == [status |-> "absent", failures |-> 0, next |-> "due"]
Event   == [from : Status, to : Status]
Labels  == {"idle", "fetch", "flush", "queue", "commit", "raise", "rollback", "fanout"}
Loaded  == Labels \ {"idle", "fanout"}        \* the transaction is open

SectionOf(w) == job[w][1]

TypeOK ==
    /\ page \in [Sections -> {"open", "closed"}]
    /\ opened \in [Sections -> 0..MaxOpenings]
    /\ sec \in [Sections -> Section]
    /\ active \subseteq Watches
    /\ events \in [Sections -> Seq(Event)]
    /\ notes \subseteq Alerts
    /\ published \subseteq Alerts
    /\ pollq \in [Messages -> 0..MaxQueued]
    /\ targets \subseteq Sections
    /\ pc \in [Workers -> Labels]
    /\ job \in [Workers -> Messages \cup {NoJob}]
    /\ \A w \in Workers : pc[w] # "idle" => job[w] \in Messages
    /\ seen \in [Workers -> Section]
    /\ new \in [Workers -> Section]
    /\ ids \in [Workers -> SUBSET Alerts]
    /\ faults \in 0..MaxFaults
    /\ base \in [Watches -> 0..MaxOpenings]
    /\ overtaken \subseteq Workers
    /\ clashes \in [Sections -> Nat]

Init ==
    /\ page \in [Sections -> {"open", "closed"}]
    /\ opened = [s \in Sections |-> 0]
    /\ sec = [s \in Sections |-> Absent]
    /\ active = {}
    /\ events = [s \in Sections |-> <<>>]
    /\ notes = {}
    /\ published = {}
    /\ pollq = [m \in Messages |-> 0]
    /\ targets = {}
    /\ pc = [w \in Workers |-> "idle"]
    /\ job = [w \in Workers |-> NoJob]
    /\ seen = [w \in Workers |-> Absent]
    /\ new = [w \in Workers |-> Absent]
    /\ ids = [w \in Workers |-> {}]
    /\ faults = 0
    /\ base = [x \in Watches |-> 0]
    /\ overtaken = {}
    /\ clashes = [s \in Sections |-> 0]

-----------------------------------------------------------------------------
(* The broker.  A copy beyond MaxQueued is absorbed by its equals.         *)
Publish(q, m) == IF q[m] < MaxQueued THEN [q EXCEPT ![m] = @ + 1] ELSE q

(* self.retry: one more message, unless max_retries is spent.              *)
Retried(w) ==
    IF job[w][2] < MaxRetries THEN Publish(pollq, <<SectionOf(w), job[w][2] + 1>>)
                              ELSE pollq

Goto(w, label) == pc' = [pc EXCEPT ![w] = label]

CloseSession(w) ==
    /\ seen' = [seen EXCEPT ![w] = Absent]
    /\ new'  = [new EXCEPT ![w] = Absent]

Release(w) ==
    /\ Goto(w, "idle")
    /\ job' = [job EXCEPT ![w] = NoJob]
    /\ ids' = [ids EXCEPT ![w] = {}]
    /\ CloseSession(w)
    /\ overtaken' = overtaken \ {w}

(* StatusEvent.is_opening                                                  *)
\* Variants (each definition named ...X is the one after it with a seeded bug,
\* kept to show which property notices): any change to open is an opening.
IsOpeningAnyX(e) == e.to = "open"

IsOpening(e) == e.from = "closed" /\ e.to = "open"

(* record_observation and record_failure on the loaded object, with the    *)
(* next_check_at that schedule_next_check and back_off give it.            *)
\* A success takes one failure off the streak instead of ending it.
ObservedDecayX(r, status) ==
    [status |-> status, failures |-> r.failures - 1,
     next |-> IF status = "open" THEN "later" ELSE "soon"]

\* The interval is chosen before the status is assigned.
ObservedEarlyX(r, status) ==
    [status |-> status, failures |-> 0,
     next |-> IF r.status = "open" THEN "later" ELSE "soon"]

Observed(r, status) ==
    [status |-> status, failures |-> 0,
     next |-> IF status = "open" THEN "later" ELSE "soon"]

\* A failure is taken for a status.
FailedUnknownX(r) == [status |-> "unknown", failures |-> r.failures + 1, next |-> "backoff"]

Failed(r) == [status |-> r.status, failures |-> r.failures + 1, next |-> "backoff"]

(* What a flush makes of the row: the unit of work writes the columns that *)
(* differ from what was loaded; next_check_at always does.                 *)
\* The whole object is written back.
WrittenFullX(old, changed, current) == changed

Written(old, changed, current) ==
    [status   |-> IF changed.status # old.status THEN changed.status ELSE current.status,
     failures |-> IF changed.failures # old.failures THEN changed.failures
                                                     ELSE current.failures,
     next     |-> changed.next]

\* previous_status is read after the assignment.
ChangeLateX(w) == [from |-> new[w].status, to |-> new[w].status]

Change(w) == [from |-> seen[w].status, to |-> new[w].status]

(* From its UPDATE to the end of its transaction a poll holds the row lock. *)
Locks(w) ==
    \/ pc[w] \in {"queue", "commit", "raise"}
    \/ pc[w] = "rollback" /\ new[w] # seen[w]

Unlocked(s) == \A w \in Workers : ~(Locks(w) /\ SectionOf(w) = s)

-----------------------------------------------------------------------------
(* The school, the clock and the watch endpoints.                          *)

Opens(s) ==
    /\ page[s] = "closed" /\ opened[s] < MaxOpenings
    /\ page' = [page EXCEPT ![s] = "open"]
    /\ opened' = [opened EXCEPT ![s] = @ + 1]
    /\ UNCHANGED <<tables, published, pollq, targets, worker, faults, history>>

Closes(s) ==
    /\ page[s] = "open"
    /\ page' = [page EXCEPT ![s] = "closed"]
    /\ UNCHANGED <<opened, tables, published, pollq, targets, worker, faults, history>>

(* next_check_at passes.                                                   *)
BecomesDue(s) ==
    /\ sec[s].status # "absent" /\ sec[s].next # "due"
    /\ sec' = [sec EXCEPT ![s].next = "due"]
    /\ UNCHANGED <<schedule, active, events, notes, published, pollq, targets,
                   worker, faults, history>>

(* create_watch, when it succeeds: a new section starts as unknown, due.   *)
Watch(x) ==
    LET s == x[1] IN
    /\ x \notin active
    /\ active' = active \cup {x}
    /\ sec' = IF sec[s].status = "absent"
              THEN [sec EXCEPT ![s] = [Absent EXCEPT !.status = "unknown"]]
              ELSE sec
    /\ base' = [base EXCEPT ![x] = opened[s]]
    /\ UNCHANGED <<schedule, events, notes, published, pollq, targets, worker,
                   faults, overlap>>

(* delete_watch.  base means nothing for a watch that is not active.       *)
Unwatch(x) ==
    /\ x \in active
    /\ active' = active \ {x}
    /\ base' = [base EXCEPT ![x] = 0]
    /\ UNCHANGED <<schedule, sec, events, notes, published, pollq, targets,
                   worker, faults, overlap>>

-----------------------------------------------------------------------------
(* dispatch_due_sections                                                   *)
Due(s)     == sec[s].status # "absent" /\ sec[s].next = "due"
Watched(s) == \E u \in Watchers : <<s, u>> \in active

DispatchSelect ==
    /\ targets = {}
    /\ \E s \in Sections : Due(s) /\ Watched(s)
    /\ targets' = {s \in Sections : Due(s) /\ Watched(s)}
    /\ UNCHANGED <<schedule, tables, published, pollq, worker, faults, history>>

DispatchPublish(s) ==
    /\ s \in targets
    /\ targets' = targets \ {s}
    /\ pollq' = Publish(pollq, <<s, 0>>)
    /\ UNCHANGED <<schedule, tables, published, worker, faults, history>>

(* The dispatcher is lost, or out of time, before it has published all.    *)
DispatchLost ==
    /\ targets # {}
    /\ faults < MaxFaults
    /\ faults' = faults + 1
    /\ targets' = {}
    /\ UNCHANGED <<schedule, tables, published, pollq, worker, history>>

-----------------------------------------------------------------------------
(* poll_section                                                            *)

Load(s) == [sec[s] EXCEPT !.next = "due"]     \* nothing reads the old deadline

Take(w, m) ==
    /\ pc[w] = "idle"
    /\ pollq[m] > 0
    /\ pollq' = [pollq EXCEPT ![m] = @ - 1]
    /\ job' = [job EXCEPT ![w] = m]
    /\ seen' = [seen EXCEPT ![w] = Load(m[1])]
    /\ new' = [new EXCEPT ![w] = Load(m[1])]
    /\ Goto(w, "fetch")
    /\ UNCHANGED <<schedule, tables, published, targets, ids, faults, history>>

(* RateLimited: nothing was changed.  self.retry publishes the next        *)
(* message and raises; the message in hand is acknowledged by Done.        *)
RateLimited(w) ==
    /\ pc[w] = "fetch"
    /\ pollq' = Retried(w)
    /\ Goto(w, "rollback")
    /\ UNCHANGED <<schedule, tables, published, targets, job, seen, new, ids,
                   faults, history>>

(* ScheduleUnavailable: the failure is flushed, then self.retry publishes  *)
(* and raises.                                                             *)
Unavailable(w) ==
    /\ pc[w] = "fetch"
    /\ seen[w].failures < MaxFailures
    /\ Unlocked(SectionOf(w))
    /\ new' = [new EXCEPT ![w] = Failed(seen[w])]
    /\ Goto(w, "raise")
    /\ UNCHANGED <<schedule, tables, published, pollq, targets, job, seen, ids,
                   faults, history>>

Raise(w) ==
    /\ pc[w] = "raise"
    /\ pollq' = Retried(w)
    /\ Goto(w, "rollback")
    /\ UNCHANGED <<schedule, tables, published, targets, job, seen, new, ids,
                   faults, history>>

(* The exception of self.retry goes through the session_scope.             *)
Rollback(w) ==
    /\ pc[w] = "rollback"
    /\ CloseSession(w)
    /\ overtaken' = overtaken \ {w}
    /\ Goto(w, "fanout")
    /\ UNCHANGED <<schedule, tables, published, pollq, targets, job, ids, faults,
                   base, clashes>>

(* SectionNotOnPage, ScheduleFormatChanged: the failure is committed.      *)
NotOnPage(w) ==
    /\ pc[w] = "fetch"
    /\ seen[w].failures < MaxFailures
    /\ Unlocked(SectionOf(w))
    /\ new' = [new EXCEPT ![w] = Failed(seen[w])]
    /\ Goto(w, "commit")
    /\ UNCHANGED <<schedule, tables, published, pollq, targets, job, seen, ids,
                   faults, history>>

(* The page is read; record_observation changes the loaded object.         *)
Observe(w) ==
    /\ pc[w] = "fetch"
    /\ new' = [new EXCEPT ![w] = Observed(seen[w], page[SectionOf(w)])]
    /\ Goto(w, "flush")
    /\ UNCHANGED <<schedule, tables, published, pollq, targets, job, seen, ids,
                   faults, history>>

(* The flush of the event and the section, which takes the row lock.       *)
(* Without a change of status the commit does the flushing.                *)
\* queue_notifications does not ask whether the event is an opening.
FlushAnyX(w) ==
    /\ pc[w] = "flush"
    /\ Unlocked(SectionOf(w))
    /\ Len(events[SectionOf(w)]) < MaxEvents
    /\ Goto(w, IF seen[w].status # new[w].status THEN "queue" ELSE "commit")
    /\ UNCHANGED <<schedule, tables, published, pollq, targets, job, seen, new,
                   ids, faults, history>>

Flush(w) ==
    /\ pc[w] = "flush"
    /\ Unlocked(SectionOf(w))
    /\ Len(events[SectionOf(w)]) < MaxEvents
    /\ Goto(w, IF IsOpening(Change(w)) THEN "queue" ELSE "commit")
    /\ UNCHANGED <<schedule, tables, published, pollq, targets, job, seen, new,
                   ids, faults, history>>

(* queue_notifications: one row per watch that is active right now.  The   *)
(* event's id is this transaction's alone while it holds the lock.         *)
AlertsFor(s) == {x \in active : x[1] = s} \X {Len(events[s]) + 1}

\* The messages are sent from inside the transaction.
QueueEarlyX(w) ==
    /\ pc[w] = "queue"
    /\ ids' = [ids EXCEPT ![w] = AlertsFor(SectionOf(w))]
    /\ published' = published \cup AlertsFor(SectionOf(w))
    /\ Goto(w, "commit")
    /\ UNCHANGED <<schedule, tables, pollq, targets, job, seen, new, faults, history>>

Queue(w) ==
    /\ pc[w] = "queue"
    /\ ids' = [ids EXCEPT ![w] = AlertsFor(SectionOf(w))]
    /\ Goto(w, "commit")
    /\ UNCHANGED <<schedule, tables, published, pollq, targets, job, seen, new,
                   faults, history>>

Changes(w) == Change(w).from # Change(w).to

Overtakes(w) == {v \in Workers : pc[v] \in Loaded /\ SectionOf(v) = SectionOf(w)}

Commit(w) ==
    LET s == SectionOf(w) IN
    /\ pc[w] = "commit"
    /\ sec' = [sec EXCEPT ![s] = Written(seen[w], new[w], @)]
    /\ events' = IF Changes(w) THEN [events EXCEPT ![s] = Append(@, Change(w))] ELSE events
    /\ notes' = notes \cup ids[w]
    /\ Goto(w, "fanout")
    /\ CloseSession(w)
    /\ overtaken' = (overtaken \cup IF Changes(w) THEN Overtakes(w) ELSE {}) \ {w}
    /\ clashes' = IF Changes(w) /\ w \in overtaken THEN [clashes EXCEPT ![s] = @ + 1]
                                                  ELSE clashes
    /\ UNCHANGED <<schedule, active, published, pollq, targets, job, ids, faults, base>>

(* send_notification.delay, outside the transaction, one row at a time.    *)
FanOut(w, a) ==
    /\ pc[w] = "fanout"
    /\ a \in ids[w]
    /\ published' = published \cup {a}
    /\ ids' = [ids EXCEPT ![w] = @ \ {a}]
    /\ UNCHANGED <<schedule, tables, pollq, targets, pc, job, seen, new, faults, history>>

Done(w) ==
    /\ pc[w] = "fanout"
    /\ ids[w] = {}
    /\ Release(w)
    /\ UNCHANGED <<schedule, tables, published, pollq, targets, faults, base, clashes>>

(* The worker process dies: the database rolls back what was not committed *)
(* and the broker gets the message back.  A time limit rolls back as well, *)
(* but its message counts as handled.                                      *)
Abort(w) ==
    /\ pc[w] # "idle"
    /\ faults < MaxFaults
    /\ faults' = faults + 1
    /\ Release(w)
    /\ UNCHANGED <<schedule, tables, published, targets, base, clashes>>

WorkerLost(w) == Abort(w) /\ pollq' = Publish(pollq, job[w])
TimeLimit(w)  == Abort(w) /\ UNCHANGED pollq

-----------------------------------------------------------------------------
World ==
    \/ \E s \in Sections : Opens(s) \/ Closes(s) \/ BecomesDue(s)
    \/ \E x \in Watches : Watch(x) \/ Unwatch(x)

Dispatch == DispatchSelect \/ DispatchLost \/ \E s \in Sections : DispatchPublish(s)

PollSection(w) ==
    \/ \E m \in Messages : Take(w, m)
    \/ RateLimited(w)
    \/ Unavailable(w)
    \/ Raise(w)
    \/ Rollback(w)
    \/ NotOnPage(w)
    \/ Observe(w)
    \/ Flush(w)
    \/ Queue(w)
    \/ Commit(w)
    \/ \E a \in Alerts : FanOut(w, a)
    \/ Done(w)
    \/ WorkerLost(w)
    \/ TimeLimit(w)

Next == World \/ Dispatch \/ \E w \in Workers : PollSection(w)

Spec == Init /\ [][Next]_vars

-----------------------------------------------------------------------------
(* Safety that holds however polls overlap                                 *)

(* The history and the section agree: the last event says what the section *)
(* row says, even when a poll that found nothing new commits a row it      *)
(* loaded before somebody else's change (polling.py:52-71 under db.py:21). *)
LastStatus(s) == IF events[s] = <<>> THEN "unknown" ELSE events[s][Len(events[s])].to

HistoryMatchesStatus ==
    \A s \in Sections : sec[s].status # "absent" => sec[s].status = LastStatus(s)

(* A message about an alert is sent only once its row is committed, so no  *)
(* send_notification can look for a row that is not there or is rolled     *)
(* back under it (poll.py:120-125).                                        *)
MessageAfterCommit == published \subseteq notes

(* Every alert stands for a recorded closed -> open event of the section   *)
(* that is watched (polling.py:114-124).                                   *)
AlertsComeFromOpenings ==
    \A a \in notes :
        LET s == a[1][1] IN a[2] <= Len(events[s]) /\ IsOpening(events[s][a[2]])

-----------------------------------------------------------------------------
(* What overtaken polls can break, and nothing else does.  A poll is       *)
(* overtaken when another poll's commit changes the status it has loaded;  *)
(* the code neither prevents nor notices it (docker-compose.yml:55 has     *)
(* four slots, and a section stays due until a poll of it commits).        *)

(* The history has no more openings than the schedule had, and one more    *)
(* for each change an overtaken poll records: crashes, repeated messages,  *)
(* retries and failed fetches never invent one.                            *)
OpeningsOf(s) == {k \in 1..Len(events[s]) : IsOpening(events[s][k])}
Openings(s)   == Cardinality(OpeningsOf(s))

OpeningsAreReal == \A s \in Sections : Openings(s) <= opened[s] + clashes[s]

(* The commit that turns a closed section open records an opening, unless  *)
(* it records what an overtaken poll takes for the previous status         *)
(* (polling.py:53, 77-82).                                                 *)
OpeningIsRecognised ==
    [][\A s \in Sections :
          sec[s].status = "closed" /\ sec'[s].status = "open"
              => \/ Len(events'[s]) \in OpeningsOf(s)'
                 \/ clashes'[s] > clashes[s]]_vars

(* README.md:93-95: a closed section is one that might open, so it is      *)
(* polled at the short interval.  Only the commit of an overtaken poll,    *)
(* which writes its deadline but not a status it found unchanged, leaves a *)
(* section closed with the long one (polling.py:60-71 writes net changes). *)
Prompt(s) ==
    sec[s].status = "closed" /\ sec[s].failures = 0 => sec[s].next \in {"due", "soon"}

CommitOvertaken(s) ==
    \E w \in overtaken : SectionOf(w) = s /\ pc[w] = "commit" /\ pc'[w] = "fanout"

ClosedIsPrompt ==
    [][\A s \in Sections : Prompt(s) => Prompt(s)' \/ CommitOvertaken(s)]_vars

(* README.md:52: an alert fires on a closed -> open transition, once, per  *)
(* watch.                                                                  *)
OncePerWatch ==
    \A x \in Watches : Cardinality({a \in notes : a[1] = x}) <= opened[x[1]]

(* README.md:62-64: a brand-new watch on a section that was already open   *)
(* is not an opening.  An alert for a watch is about an opening that       *)
(* happened after the watch was created.                                   *)
NewWatchNotAlerted ==
    [][\A a \in notes' \ notes : opened[a[1][1]] > base[a[1]]]_vars

-----------------------------------------------------------------------------
(* Liveness.  Beat runs the dispatcher for ever, next_check_at is always   *)
(* reached, the broker's list is FIFO, workers keep working, and a page    *)
(* that is fetched for ever is not refused or unavailable for ever.        *)
Fetched(w) == RateLimited(w) \/ Unavailable(w) \/ NotOnPage(w) \/ Observe(w)

Fairness ==
    /\ WF_vars(DispatchSelect)
    /\ \A s \in Sections : WF_vars(DispatchPublish(s)) /\ WF_vars(BecomesDue(s))
    /\ \A m \in Messages : SF_vars(\E w \in Workers : Take(w, m))
    /\ \A w \in Workers :
           /\ WF_vars(Fetched(w)) /\ SF_vars(Observe(w))
           /\ WF_vars(Raise(w)) /\ WF_vars(Rollback(w)) /\ SF_vars(Flush(w))
           /\ WF_vars(Queue(w)) /\ WF_vars(Commit(w)) /\ WF_vars(Done(w))
           /\ WF_vars(\E a \in Alerts : FanOut(w, a))

FairSpec == Spec /\ Fairness

(* A watcher of a section recorded as closed that is open now gets a new   *)
(* alert, unless the seat is gone or the watch is dropped first.  A watch  *)
(* created after the opening's poll has read the watches comes too late.   *)
(* This is about one worker slot: an overtaken poll can record the section *)
(* as open without an opening, and then nobody is owed anything any more.  *)
Owed(x) ==
    /\ x \in active
    /\ page[x[1]] = "open" /\ sec[x[1]].status = "closed"
    /\ \A w \in Workers : pc[w] = "commit" => SectionOf(w) # x[1]

OpeningReachesWatchers ==
    \A x \in Watches, k \in 0..MaxEvents :
        Owed(x) /\ Len(events[x[1]]) = k
            ~> \/ \E a \in notes : a[1] = x /\ a[2] > k
               \/ page[x[1]] = "closed"
               \/ x \notin active

=============================================================================

------------------------------ MODULE Dispatch ------------------------------
(***************************************************************************)
(* When a section is polled: next_check_at, the dispatcher's choice of the *)
(* most overdue sections, and the intervals and delays a poll sets.        *)
(*                                                                         *)
(* next_check_at is kept as what the program can tell of it: wait[s] units *)
(* of time until it passes, and, once it has passed, which of the due      *)
(* sections are ordered before s by it.  A poll is one step here; Polling  *)
(* has its inside.                                                         *)
(***************************************************************************)
EXTENDS Naturals, FiniteSets

CONSTANTS
    Sections,
    Abandonable,   \* sections whose last watch may be removed again
    Limit,         \* due_sections' LIMIT (200 in the code)
    ClosedWait,    \* poll_interval_closed_seconds
    OpenWait,      \* poll_interval_open_seconds
    CapWait,       \* cap_seconds of back_off
    MaxExponent,   \* failures that still double the delay (10 in the code)
    MaxQueued,     \* bound: equal messages the broker model tells apart
    MaxFaults      \* bound: dispatchers lost

ASSUME DispatchAssumption ==
    /\ IsFiniteSet(Sections)
    /\ Abandonable \subseteq Sections
    /\ Limit \in Nat \ {0}
    /\ ClosedWait \in Nat \ {0} /\ OpenWait \in Nat \ {0} /\ CapWait \in Nat \ {0}
    /\ MaxExponent \in Nat
    /\ MaxQueued \in Nat \ {0}
    /\ MaxFaults \in Nat

VARIABLES
    wait,     \* per section: time to its next_check_at, 0 once it has passed
    due,      \* the rows whose next_check_at has passed
    creating, \* sections inserted by a request that has not committed
    ahead,    \* per section: those of the last two with an earlier next_check_at
    fails,    \* consecutive_failures, as far as it changes the delay
    watched,  \* sections with an active watch
    targets,  \* sections the running dispatcher has still to publish
    pollq,    \* the broker: how many poll messages wait, per section
    faults    \* how many faults have happened

deadlines == <<wait, due, creating, ahead>>
vars == <<deadlines, fails, watched, targets, pollq, faults>>

-----------------------------------------------------------------------------
Known   == due \cup {s \in Sections : wait[s] > 0}   \* rows of the table
Stamped == due \cup creating    \* next_check_at is set and has passed
Waits == UNION {0..longest : longest \in {ClosedWait, OpenWait, CapWait}}

(* before puts the members of S in a strict total order.                   *)
Orders(before, S) ==
    /\ \A s \in S : before[s] \subseteq S \ {s}
    /\ \A s, t \in S : s # t => (s \in before[t] <=> t \notin before[s])
    /\ \A s, t \in S : t \in before[s] => before[t] \subseteq before[s]

TypeOK ==
    /\ wait \in [Sections -> Waits]
    /\ due \subseteq {s \in Sections : wait[s] = 0}
    /\ ahead \in [Sections -> SUBSET Sections]
    /\ creating \subseteq {s \in Sections : wait[s] = 0} \ due
    /\ Orders(ahead, Stamped)
    /\ fails \in [Sections -> 0..MaxExponent]
    /\ watched \subseteq Known
    /\ targets \subseteq Known
    /\ pollq \in [Sections -> 0..MaxQueued]
    /\ {s \in Sections : pollq[s] > 0} \subseteq Known
    /\ faults \in 0..MaxFaults

Init ==
    /\ wait = [s \in Sections |-> 0]
    /\ due = {}
    /\ creating = {}
    /\ ahead = [s \in Sections |-> {}]
    /\ fails = [s \in Sections |-> 0]
    /\ watched = {}
    /\ targets = {}
    /\ pollq = [s \in Sections |-> 0]
    /\ faults = 0

(* back_off.                                                               *)
\* Variants (each definition named ...X is the one after it with a seeded bug,
\* kept to show which property notices): the delay has no cap.
DelayX(failures) == ClosedWait * 2 ^ failures

Delay(failures) ==
    LET doubled == ClosedWait * 2 ^ failures IN
    IF doubled \in 1..CapWait THEN doubled ELSE CapWait

Published(q, s) == IF q[s] < MaxQueued THEN [q EXCEPT ![s] = @ + 1] ELSE q

-----------------------------------------------------------------------------
(* Time passes, and next_check_at with it; of two sections that become due *)
(* at the same moment either may be ordered first.                         *)
Tick ==
    /\ \E s \in Sections : wait[s] > 0
    /\ wait' = [s \in Sections |-> IF wait[s] > 0 THEN wait[s] - 1 ELSE 0]
    /\ LET new == {s \in Sections : wait[s] = 1} IN
       /\ due' = due \cup new
       /\ \E before \in [new -> SUBSET new] :
             /\ Orders(before, new)
             /\ ahead' = [s \in Sections |-> IF s \in new THEN Stamped \cup before[s]
                                                          ELSE ahead[s]]
    /\ UNCHANGED <<creating, fails, watched, targets, pollq, faults>>

(* The first watch of a section: the flush of the insert sets              *)
(* next_check_at to the time it happens, the row appears with the commit.  *)
(* The unique key lets one request at a time insert a section; one that    *)
(* waits for it and gets it after a rollback is taken to have set the      *)
(* deadline when the lost one did, or now.                                 *)
Stamp(s) ==
    /\ s \notin Known \cup creating
    /\ creating' = creating \cup {s}
    /\ ahead' = [ahead EXCEPT ![s] = Stamped]
    /\ UNCHANGED <<wait, due, fails, watched, targets, pollq, faults>>

CommitWatch(s) ==
    /\ s \in creating
    /\ creating' = creating \ {s}
    /\ due' = due \cup {s}
    /\ watched' = watched \cup {s}
    /\ UNCHANGED <<wait, ahead, fails, targets, pollq, faults>>

(* The request is lost or fails; get_db's session rolls back.              *)
RequestLost(s) ==
    /\ s \in creating
    /\ creating' = creating \ {s}
    /\ ahead' = [t \in Sections |-> IF t = s THEN {} ELSE ahead[t] \ {s}]
    /\ UNCHANGED <<wait, due, fails, watched, targets, pollq, faults>>

(* A watch of a section that has a row, which keeps its deadline; the      *)
(* removal of the last one.                                                *)
Watch(s) ==
    /\ s \in Known \ watched
    /\ watched' = watched \cup {s}
    /\ UNCHANGED <<deadlines, fails, targets, pollq, faults>>

Unwatch(s) ==
    /\ s \in watched \cap Abandonable
    /\ watched' = watched \ {s}
    /\ UNCHANGED <<deadlines, fails, targets, pollq, faults>>

-----------------------------------------------------------------------------
(* due_sections: ORDER BY next_check_at ASC LIMIT 200.                     *)
\* The order is descending.
CandidatesX == {s \in due : Cardinality({t \in due : s \in ahead[t]}) < Limit}

Before(s)  == ahead[s] \cap due    \* the rows listed before s
Candidates == {s \in due : Cardinality(Before(s)) < Limit}

(* sections_with_watchers comes after the LIMIT.                           *)
DispatchSelect ==
    /\ targets = {}
    /\ Candidates \cap watched # {}
    /\ targets' = Candidates \cap watched
    /\ UNCHANGED <<deadlines, fails, watched, pollq, faults>>

DispatchPublish(s) ==
    /\ s \in targets
    /\ targets' = targets \ {s}
    /\ pollq' = Published(pollq, s)
    /\ UNCHANGED <<deadlines, fails, watched, faults>>

DispatchLost ==
    /\ targets # {}
    /\ faults < MaxFaults
    /\ faults' = faults + 1
    /\ targets' = {}
    /\ UNCHANGED <<deadlines, fails, watched, pollq>>

-----------------------------------------------------------------------------
(* poll_section commits a new next_check_at, whether or not the section is *)
(* still due or watched: a second message polls it again.                  *)
\* The delay is added to the old deadline, which may leave it in the past.
RescheduledX(s, delay) ==
    /\ pollq[s] > 0
    /\ pollq' = [pollq EXCEPT ![s] = @ - 1]
    /\ ahead' = [t \in Sections |-> IF t = s THEN Stamped \ {s} ELSE ahead[t] \ {s}]
    /\ UNCHANGED <<wait, due, creating, watched, targets, faults>>

Rescheduled(s, delay) ==
    /\ pollq[s] > 0
    /\ pollq' = [pollq EXCEPT ![s] = @ - 1]
    /\ wait' = [wait EXCEPT ![s] = delay]
    /\ due' = due \ {s}
    /\ ahead' = [t \in Sections |-> IF t = s THEN {} ELSE ahead[t] \ {s}]
    /\ UNCHANGED <<creating, watched, targets, faults>>

(* record_observation of a closed or an open section.                      *)
Observed(s) ==
    /\ \E interval \in {ClosedWait, OpenWait} : Rescheduled(s, interval)
    /\ fails' = [fails EXCEPT ![s] = 0]

(* record_failure for a page without the section, which is committed.      *)
Unparseable(s) ==
    /\ fails' = [fails EXCEPT ![s] = IF @ < MaxExponent THEN @ + 1 ELSE @]
    /\ Rescheduled(s, Delay(fails'[s]))

(* RateLimited, ScheduleUnavailable, a time limit or a worker loss: the    *)
(* transaction is rolled back and the section stays as due as it was.  The *)
(* message is spent, or a retry or its redelivery takes its place, or both *)
(* do when the worker is lost after self.retry has published.              *)
RolledBack(s) ==
    /\ pollq[s] > 0
    /\ pollq' \in {[pollq EXCEPT ![s] = @ - 1], pollq, Published(pollq, s)}
    /\ UNCHANGED <<deadlines, fails, watched, targets, faults>>

-----------------------------------------------------------------------------
Dispatch == DispatchSelect \/ DispatchLost \/ \E s \in Sections : DispatchPublish(s)

Next ==
    \/ Tick
    \/ Dispatch
    \/ \E s \in Sections :
          \/ Stamp(s) \/ CommitWatch(s) \/ RequestLost(s)
          \/ Watch(s) \/ Unwatch(s)
          \/ Observed(s) \/ Unparseable(s) \/ RolledBack(s)

Spec == Init /\ [][Next]_vars

-----------------------------------------------------------------------------
(* Nobody jumps the queue: no poll, failure, rollback or deadline ever     *)
(* lists a section before one that is due already, so a section that LIMIT *)
(* cuts off comes nearer with every poll of another (polling.py:205-219    *)
(* over models.py:147-165, which count from now).  The one that can appear *)
(* before it is the row of a first watch, and only if its request set the  *)
(* deadline before s was due and commits after (watches.py:39-41, 111).    *)
NobodyOvertakes ==
    [][\A s \in due \cap due' : Before(s)' \ Before(s) \subseteq creating \cap ahead[s]]_vars

(* Beat runs the dispatcher for ever, it publishes what it selected, and a *)
(* section that is polled for ever is not unavailable for ever.            *)
Fairness ==
    /\ WF_vars(DispatchSelect)
    /\ \A s \in Sections :
          WF_vars(DispatchPublish(s)) /\ SF_vars(Observed(s) \/ Unparseable(s))

FairSpec == Spec /\ Fairness

(* The backlog drains: a section that is due and watched is polled in the  *)
(* end, however fast the others become due again, and although LIMIT cuts  *)
(* the list before the unwatched sections are dropped from it, as long as  *)
(* these are fewer than LIMIT (polling.py:205-219).                        *)
Waiting(s) == s \in due /\ s \in watched

BacklogDrains == \A s \in Sections : Waiting(s) ~> ~Waiting(s)

=============================================================================

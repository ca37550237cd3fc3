# class-seat-alerts: verification project

TLA+ models of the seat-alert service, the TLC runs that check them, and
machine-checked proofs about them. The reference is the code under `src/`; where
its documentation says something else, a run shows the difference, or section 5
describes it.

The service promises (`src/README.md:52`): *an alert fires on a closed -> open
transition, once, per watch.* Several concurrent mechanisms have to co-operate
for that: polls of the school's schedule, which may overlap, retry and die; the
deliveries they queue, which may be repeated and die; a dispatcher and a sweep
that keep publishing messages; a Redis limiter shared by all workers; and users
who add and remove watches all the while.

## 1. Inventory

| component | state | operations | hard behaviour | status |
|---|---|---|---|---|
| alert delivery: `tasks/poll.py` `send_notification`, `retry_pending_notifications`; `polling.py` `claim_notification`, `mark_sent`, `mark_failed` | `notifications` rows, Celery messages, one open transaction per worker | claim, send, mark, retry, sweep | worker lost around the external call, duplicated and delayed messages, retry against sweep, everything undone by a rollback | modelled, proved |
| section polling: `dispatch_due_sections`, `poll_section`; `record_observation`, `record_failure`, `queue_notifications`, `due_sections`, `sections_with_watchers`; `Section.schedule_next_check`, `back_off`, `is_due` | `sections`, `status_events`, `notifications`, Celery messages | dispatch, load, fetch, record, queue, commit, fan out | overlapping polls act on a stale status; lost update; crash between commit and fan-out; starvation behind the LIMIT | modelled, proved |
| the pipeline: the two above over one table | `notifications` | a poll's commit and fan-out | a row without a message, a message without a row | modelled, proved to implement delivery |
| rate limiter: `rate_limit.py` and its use in `scraper/client.py` | one Redis sorted set with an expiry | `acquire`, `current_usage`, the two slots of a search | clocks read before the EXEC, a refused token removed later, latency between slot and request | modelled, proved |
| schedule client and parser: `scraper/client.py`, `scraper/parser.py` | none of its own; the school's pages change under it | `fetch_section`, `parse_section` | layout changes, misleading classes, unlabelled statuses, an outage between two requests | modelled, proved |
| watch endpoints: `routers/watches.py` | `watches`, `sections` | create, reactivate, delete | concurrent creations, the limit checked in a statement of its own, the answer read after a rollback | modelled, proved |
| channels: `notifications/*.py` | none of its own | `send`, `get_notifier` | which of two SMTP errors wins, an answer lost after acceptance | modelled, proved |
| read endpoints: `routers/sections.py`, `routers/health.py`, `main.py`, `deps.py` | none | queries, `/stats` | `/stats` prunes the limiter's set (an action of `RateLimit`) | not modelled |
| configuration and schema: `config.py`, `alembic/` | static | validation, DDL | none over time | the keys and settings the models use |

How they interact. Beat starts `dispatch_due_sections` (every 15 s) and
`retry_pending_notifications`. The dispatcher publishes one `poll_section`
message per due, watched section. A poll asks the limiter for two slots, fetches
and parses the page, updates the section and inserts event and notifications in
one transaction, and after the commit publishes one `send_notification` message
per notification. A delivery claims its row, calls the channel and commits the
outcome. The endpoints share the `watches` and `sections` tables with polls;
`send_notification` and the sweep share the `notifications` table with them.

What makes each of them correct:

- *delivery*: a row is claimed by one worker at a time; an outcome, once
  recorded, is final; each acceptance by the channel is recorded or was
  destroyed by a fault; every queued alert reaches an outcome.
- *polling*: the event history and the section row agree; alerts stand for
  recorded openings; no message precedes its row; no opening is invented,
  hidden or told twice but by a poll that another overtook; watchers of a closed
  section hear of its opening; every due and watched section is polled.
- *pipeline*: polls do to the notifications table what delivery supposes, and
  never more.
- *limiter*: never more than the limit within a window, whatever interleaves,
  and no request that was not paid for.
- *watch endpoints*: the limit, up to races; an accepted watch is there; no
  request leaves anything behind when it fails.
- *client and parser*: what is reported is what the school lists; a section is
  called gone only by a page that lists others and not it.
- *channels*: the verdict the task hears tells what happened to the alert.

The hazards of the code, each at its line and with the properties aimed at it,
are listed in `PROJECT.json` under `hazards`.

## 2. Modules

| module | models | checked by | proved in |
|---|---|---|---|
| `AlertLedger` | abstract: what delivery promises | refined by `Delivery` | |
| `Delivery` | the life of an alert from the poll's commit to its outcome | `delivery`, `delivery_sweep` | `DeliveryProofs` |
| `Polling` | dispatching and polling sections, overlapping polls, the watches they read | `polling_*` | `PollingProofs` |
| `SeatAlerts` | `Polling` and `Delivery` composed | `seat_alerts` | `SeatAlertsProofs` |
| `Dispatch` | `next_check_at`, the order and LIMIT of the dispatcher, the delays | `dispatch` | `DispatchProofs` |
| `Watches` | concurrent create and delete requests | `watches` | `WatchesProofs` |
| `RateLimit` | the limiter and the two slots of a search | `rate_limit_safety` | `RateLimitProofs` |
| `Schedule` | one search of the schedule and the parser of its page | `schedule` | `ScheduleProofs` |
| `Notifiers` | the exchanges with SMTP and Telegram and their verdicts | `notifiers` | `NotifiersProofs` |
| `MC...` | the instances TLC runs: symmetry sets, layouts and labels | | |

How they fit together:

    Dispatch ~ Polling --+                       (Polling abstracts next_check_at,
    Schedule ~ Observe,  |                        Dispatch the inside of a poll)
      NotOnPage, ...     +-- SeatAlerts ==> Delivery ==> AlertLedger
    RateLimit ~          |                     ^
      RateLimited        |              Notifiers ~ SendAccepted,
    Watches ~ Watch, ----+                SendRefused, SendFailed
      Unwatch

`==>` is a checked and proved refinement; `~` marks the actions by which one
module stands for another: what the component behind them may do, the module
that uses them allows as a choice.

Definitions named `...X`, under the comment *Variants*, are the definition that
follows them with one plausible bug seeded; nothing uses them but the sanity
tests that put them in its place and see a property fail.

### Transactions, in `Delivery`, `Polling` and `Watches`

Task bodies run inside one `session_scope` (`src/app/db.py:49-62`): commit at
the end, rollback on any exception; a request has `get_db`'s session. The
database is PostgreSQL at READ COMMITTED. So there are two layers of state: the
committed tables, which every session sees, and what an open transaction has
changed, which nobody else sees. From the first UPDATE of a row to the end of
its transaction the worker has that row's lock; an UPDATE by somebody else waits
for it and then looks at the row as last committed. An INSERT waits the same way
for another transaction's insert of the same unique key. Reads do not wait.

A Celery message is a member of the set `Messages`: the id and how many retries
lie behind it. The queue counts equal messages, up to `MaxQueued`. Messages are
acknowledged late: a lost worker's message goes back to the queue; a time limit
ends the task and its transaction but counts as handled (`acks_late` with
Celery's default for failures). `self.retry` publishes the follow-up message
and then raises, which is what rolls the transaction back; past `max_retries`
it raises without publishing.

### `Delivery` and `AlertLedger`

| TLA+ | code |
|---|---|
| `row` | the committed `notifications` table: status and attempts |
| `txn[w]` | the row as worker w's open transaction has it |
| `fan` | rows committed by a poll whose `delay` call has not happened yet |
| `sendq` | waiting `send_notification` messages |
| `stale` | ids the running sweep has still to re-queue |
| `delivered`, `unrecorded`, `failures` | history: acceptances by the channel; those no commit recorded; transient failures |

`Take`, `Claim`, one of `SendAccepted`, `SendRefused`, `SendFailed`, then
`Commit` or `Retry`, `Rollback`, and `Ack` are one run of `send_notification`.
`SendFailed(w, TRUE)` is the ambiguous answer: the channel took the alert and
the caller sees a transient error. The two orphan branches
(`poll.py:156-164`) end as `SendRefused` does. `QueueNotifications`, `FanOut`
and `LoseFanOut` are what a poll does to this component.

`AlertLedger` knows no workers, messages, locks or transactions: an alert is
queued, then sent or refused, once; before that it may `Stray`, reaching its
student without the service knowing, and every such loss is on record. The
mapping (`Ledger` in `Delivery`) takes an acceptance to happen for the ledger
when it is recorded or when its record is lost, whichever comes: `reached` is
`delivered` less the acceptance a worker is about to record.

### `Polling`

| TLA+ | code |
|---|---|
| `sec`, `events`, `notes`, `active` | the committed tables; the seat counts and texts of a section are left out |
| `sec[s].next` | `next_check_at`: passed (`due`), or set by the short interval (`soon`), the long one (`later`) or a delay (`backoff`) |
| `seen[w]`, `new[w]` | the section as poll w loaded it, and as the code has changed the object since |
| `ids[w]` | the notifications the poll inserts and then fans out |
| `pollq`, `published` | waiting poll messages; notifications whose message was sent |
| `targets` | what the running dispatcher has still to publish |
| `page`, `opened` | the school's schedule, and how often each section opened on it |
| `overtaken`, `clashes` | history: workers whose section changed status under them; changes of status that such polls recorded |

A run of `poll_section` is `Take`, one of `RateLimited`, `Unavailable`,
`NotOnPage` and `Observe`, then either `Raise` and `Rollback` (`self.retry`
publishes first, and its exception undoes the transaction after) or `Flush`,
`Queue` and `Commit`, and at the end `FanOut` and `Done`, which acknowledges the
message: a worker lost between the publication of a retry and the
acknowledgement leaves both messages. `Locks` says who has the section's row
lock.

`Written` is SQLAlchemy's unit of work: only columns that differ from what was
loaded are in the UPDATE, which is why a poll that found nothing new does not
overwrite somebody else's status (`HistoryMatchesStatus`), and also why the
status of one poll can meet the deadline of another (`ClosedIsPrompt`). `Change`
is the event `record_observation` builds. The unique (watch, event) pair is the
identity of an alert; since every event is inserted by one transaction no insert
collides, and none can in the code either, which is why two overlapping polls
are not caught by it. `failures` is `consecutive_failures`, which has no cap in
the code; `MaxFailures` bounds it by blocking a failing poll.

A poll is *overtaken* when another poll's commit changes the status it has
loaded. Nothing in the code prevents that or notices it, and it is what makes a
poll record a change that did not happen, or miss one that did. The history
variables say which commits those are, so that the properties can hold the code
to everything else without supposing that polls keep apart.

### `SeatAlerts`

`EXTENDS Polling` and instantiates `Delivery` over the same alerts. A poll's
commit creates the rows (`CommitAlerts`), its fan-out the first messages
(`FanOutAlert`), its loss after the commit strands them (`LosePoll`); every
other step belongs to one of the two alone. `ImplementsDelivery` says that the
composition is a behaviour of `Delivery`, so that all that is proved there holds
of the pipeline.

### `Dispatch`

`wait[s]` is the time to `next_check_at`, `due` the rows whose `next_check_at`
has passed, and `ahead[s]` the sections with an earlier one; sections that become
due at one moment are ordered in any way. The first watch of a section takes two
steps: `Stamp` is the flush of the insert, whose column default sets
`next_check_at` to the time of the flush, and `CommitWatch` makes the row visible,
or `RequestLost` undoes it. In between the section is `creating` and has its
place in `ahead` (`Stamped` = `due` and `creating`) but no query sees it:
`Before(s)` is what `ORDER BY next_check_at` lists before `s`. A request that
waits for the unique key and gets it after a rollback is taken to have set the
deadline when the lost one did, or when it gets the key.

A poll is one step: `Observed` sets the interval, `Unparseable` the delay of
`back_off`, `RolledBack` leaves the section as it was, its message spent, replaced
by a retry or a redelivery, or doubled. `DispatchSelect` takes those with fewer
than `Limit` sections before them and only then drops the unwatched ones, as the
code does.

### `Watches`

One action per statement of `create_watch` (`Count`, `FindSection`,
`AddSection`, `Insert`, `Commit`, and after a duplicate `Duplicate`,
`Reactivate`) and `delete_watch` (`Load`, `Deactivate`); `RequestLost` may end a
request at any of them. `added[r]` and `pc[r] = "commit"` are the unique keys an
open transaction holds. The flush of the section is outside the `try` of the
code: losing that race answers `"error"`. A request for a destination carries
its channel with it, since an address and a chat id have different forms.

### `RateLimit`

One `acquire` is `ReadClock`, `Exec` (the MULTI/EXEC) and, when refused, `Zrem`.
A search takes two slots and then sends (`Send` is its GET and POST). `moment`
is the score and `TokenOf` the member, unique per call. `MaxDelay` is how late a
caller may be between its clock and its EXEC (hosts' clock differences included);
`MaxLatency` is the longest time from a search's first slot to its requests.
`Tick` drops the key when its expiry of two windows has passed.

### `Schedule`

The school (`catalog`, `layout`, `inverted`, `notes`, `site`) may change between
any two requests of the client. `ResultsPage` is what it serves: a set of tables
with a header, rows of cells, rows of notes, page furniture. Tables and rows are
sets, the cells of a row a sequence: a section is listed once, so only the order
of columns matters to what is found. A cell is a record of what
the parser's helpers can make of its text: which id it is (`_cell_text`), the first
number in it (`_cell_int`), which status words it contains. `ParseSection`,
`StatusFromCell`, `SeatsOpen` are the functions of `parser.py`; `SpendSlots`,
`GetForm`, `PostSearch` those of `client.py`. `Truthful` is what is assumed of
the school: a label, where there is one, tells the truth, without one the
numbers do. A search answers for the Course ID that was posted (`Answers`): with
that section, if it is listed and the spelling is understood, and possibly with
others. The code posts an ID as the watch wrote it (`client.py:134`) and compares
without leading zeros (`parser.py:251-267`); whether the school's search minds the
zeros cannot be known from the source, so `strict` is either.

### `Notifiers`

One alert is followed through its attempts. `Send` is `get_notifier` and the
configuration check, `TelegramAnswer` and `TelegramLost` the POST to Telegram;
`Talk` goes through the stages of the SMTP exchange; `TalkFails` and `HandLost`
are its transient exceptions, `Refuses(e, temporary)` a refused login or
recipient, which smtplib raises for temporary replies (454, 450, 451, 452) as
for final ones; `deferred` remembers that the refusal was temporary. `Quit` and
`QuitFails` are the `finally` block, whose own exception replaces the one that
is unwinding. `OfStatus` and `OfError` are the tables of verdicts; `doubts`
counts attempts that failed although the channel had taken the alert, which is
what `SendFailed(w, TRUE)` stands for in `Delivery`.

## 3. Runs

| run | instance | shows |
|---|---|---|
| `delivery` | 1 alert, 2 workers, 1 retry, 2 faults | the safety of delivery, that it implements the ledger, and under fairness that every alert is resolved |
| `polling_overlap` | 1 section, 1 watcher, 2 workers, no retries, 1 failure in a row, 1 opening, 3 events, 1 fault | what holds when polls overlap, and that overtaken polls are all that invents or hides an opening or leaves a closed section on the long interval |
| `polling_serial` | 1 section, 1 watcher, 1 worker, 1 retry, 1 failure in a row, 1 opening, 4 events, 1 fault | under fairness, with one worker slot, the watchers of a closed section hear of its opening |
| `seat_alerts` | 1 section, watcher, poll worker and delivery worker, no retries, no failed fetches, one fault of each kind | the pipeline implements delivery; at most one alert per opening but for losses on record |
| `dispatch` | 3 sections, one that may be abandoned, LIMIT 2 | no section gets ahead of one that is due already, but for the late row of a first watch; under fairness every due and watched section is polled |
| `watches` | 3 sections, 2 destinations, 2 requests, limit 1 | how far racing creations pass the limit, what an answer and a section row stand for |
| `rate_limit_safety` | 2 workers, limit 2, window 4, lateness 1, latency 1, 5 units of time | the budget |
| `schedule` | 2 ids, 4 layouts, 4 labels, 1 or 2 seats, a search that takes ids literally or not | observations are true, gone means gone, what is listed is found |
| `notifiers` | every setting, channel and destination, 2 doubtful attempts | the verdicts are right, and under fairness retries end |
| `delivery_sweep`, `polling_twice`, `polling_new_watch` | | refuted: section 5 |

Deadlock is checked for `watches` and `schedule`, where there is always a next
request to make. It is not for the others, which legitimately come to rest: the
service is idle when nothing is queued or due, an alert in the notifiers is
settled, and the bounded histories and clocks end.

Bounds. Each alert, each section and each Redis key is independent of the
others, but for the loops of the dispatcher and the sweep, the LIMIT and the
watch limit; so one of each is enough for properties of one, and the runs about
the exceptions have several: `dispatch` one section more than the LIMIT,
`watches` three sections so that a destination can pass a limit of one by one
request and a third watch would show. Two workers or requests are the least that
race. One retry separates the first message, its retry and "no retries left".
Two faults let the second strike while the first is being repaired. `MaxQueued =
1` merges equal waiting messages: a second copy can only be taken later, and a
later copy is produced by the sweep, the dispatcher or a lost worker anyway.
`MaxEvents` blocks a flush rather than dropping an event, `MaxFailures` a
failing poll: one failure is enough to tell a section in back-off from one that
is not, and to be reset or lost. Each `polling_` run with one opening of the
schedule has room for the events before it, the opening, and the one that an
overlapping or repeated poll could add (unknown -> open, closed, open, closed in
`polling_serial`). A retry is one more message for the same section, as are the
dispatcher's and the redelivered one, so the runs with two workers do without.
`OpeningReachesWatchers` is checked with one worker slot: with two the graph is
too large for a liveness check, and the property would have to give up whatever
an overtaken poll touches. In `rate_limit_safety` a limit of 2 is one search per
window, so that a second is refused at its first slot or at its second, and 5
units of time are more than a window. In `schedule` sizes and enrolments of 1
and 2 give a free, a full and an overfull section. The bounds of the modules
with proofs, and their effect on the properties proved, are proved away.

## 4. Fairness

- Beat keeps running the sweep and the dispatcher (`celery_app.py` beat
  schedule): weak fairness of their steps.
- Workers keep working: weak fairness of each step of a task, the rollback
  after a retry included. A socket has a
  timeout, so an exchange ends: fairness of its stages in `Notifiers`.
- The broker's list is FIFO with several consumers and a row lock's queue is
  FIFO: strong fairness of `Take` for each message and of `Claim`, `Flush`,
  which may be disabled again and again by the other worker.
- The channel and the school do not refuse for ever: strong fairness of an
  answer that is not a transient error, of `Observe`, and in `Dispatch` of a
  poll that commits. A destination that fails transiently for ever is the
  subject of `delivery_sweep`. `Settles` supposes that each attempt's final answer
  (`Refuses(e, FALSE)`, `Hand`, 200, 400, 403) comes in the end; so it leaves out
  what the code retries for ever: a bot token that Telegram does not know (401), a
  server that permanently refuses the message itself (a 5xx after DATA) or that
  supports no STARTTLS or no AUTH.
- No fairness of faults, of the page, of users, or of `RateLimited`.

The promise from end to end, that a watcher is reached when a section opens, is
the chain `BacklogDrains` (its poll is published), `OpeningReachesWatchers` (its
alert is queued), `ImplementsDelivery` (queued as delivery supposes) and
`AlertResolved` (delivered or refused for good); the composed liveness is too
large for TLC in one run.

## 5. Disagreements with the documentation

Run-backed, with the sentence they quote in `PROJECT.json`. The last three are
refuted by their runs; of the others the run checks what the code does instead,
and two of those properties fail in their runs without the exception named:

| run | the text says | the code |
|---|---|---|
| `delivery` | a worker killed between claiming and sending leaves a row in `sending` forever (`poll.py:198-199`, `tests/test_tasks.py:220-221`) | claim, call and outcome are one transaction, so the claim is rolled back and the row says `pending`: `SendingNeverCommitted` holds with workers lost at every step. The sweep's branch for stuck rows is never needed, and the test sets the status by hand |
| `notifiers` | a refused recipient does not exist, and no number of retries will change that (`email.py:60`; `base.py:22-27` asks for retries after temporary failures) | smtplib raises the same exceptions for temporary replies, and the alert is given up: the exception `deferred` of `OnlyHopelessGivenUp` |
| `polling_overlap` | closed sections are checked every 60 s (`README.md:93-94`) | the status of one poll can meet the deadline of an overlapping one, and the section is closed with the long interval: the exception `CommitOvertaken` of `ClosedIsPrompt` |
| `delivery_sweep` | `max_attempts` stops a broken destination being swept in a loop (`poll.py:201-202`) | `attempts` is rolled back with every retry and stays 0 |
| `polling_twice` | once, per watch (`README.md:52`) | two overlapping polls each record the opening |
| `polling_new_watch` | a brand-new watch on an open section is not an opening (`README.md:62-63`) | an old `closed` baseline of an unwatched section makes it one |

Visible in the models, and described here only:

- A worker that crashes after sending and before committing can produce a second
  alert, where `models.py:240-243` says it cannot: the claim is rolled back with
  the crash and the redelivered message sends again. `DeliveryAccounted` counts
  such an acceptance as `unrecorded`.
- A section is to be backed off on failure (`README.md:99`, `config.py:44`). For
  `ScheduleUnavailable`, the usual failure, `record_failure` is rolled back when
  `self.retry` raises (`poll.py:109`): `Polling.Raise`, `Dispatch.RolledBack`.
- The budget is said to hold in any rolling window (`.env.example:13-14`).
  Requests leave later than their slots were taken (`client.py:117-118`), so it
  holds in a window shortened by the lateness: `RequestsBounded`.
- Re-submitting a watch is to be a harmless 200 (`watches.py:55-57`). At the
  limit it is refused, since the count comes first (`watches.py:67`):
  `Watches.Count`.

Properties that hold under a condition the code does not enforce:

- `BacklogDrains` needs fewer abandoned sections than the LIMIT (200):
  `due_sections` takes the most overdue ones before it drops those nobody
  watches, and these are never rescheduled. With as many as the LIMIT, TLC
  finds every watched section starved.
- `OpeningsAreReal`, `OpeningIsRecognised`, `ClosedIsPrompt` and
  `OneAlertPerOpening` hold however polls overlap, but for what overtaken polls
  record, which they count. With two of the four slots (`docker-compose.yml:55`) a
  poll that loaded the section as `unknown` can turn a committed `closed` into
  `open` by an event that is no opening, or both can record the same one.
- `NobodyOvertakes` excepts the row of a first watch: its deadline is set at the
  flush (`watches.py:39-41`) and it appears at the commit (`watches.py:111`), so it
  can come before a section that became due in between.
- `ListedIsFound` needs a search that understands the spelling of the ID that is
  posted (section 2, `Schedule`).
- A search that finds no section at all is `ScheduleFormatChanged` to the parser
  and not `SectionNotOnPage`, since both checks come before the look for the row
  (`parser.py:224-231`). If the school's search returns the section asked for and
  no other, that is what a section that is gone looks like. `poll_section` treats
  the two alike.

## 6. Proofs

All for every value of the constants, from the named `ASSUME` of the module
only, with SMT, Zenon and the temporal prover.

| module | theorem | says |
|---|---|---|
| `DeliveryProofs` | `TypeCorrect` | `[]TypeOK` |
| | `SendingIsPrivate` | the `sending` of a claim is never committed |
| | `ClaimsAreExclusive` | one worker at a time between claim and end of transaction |
| | `AttemptsAreOutcomes` | `attempts` is 1 after an outcome and 0 before |
| | `DeliveriesAreAccounted` | deliveries = recorded + about to be recorded + destroyed by a fault |
| | `OutcomesAreFinal` | the action property `OutcomeIsFinal` |
| | `OneDeliveryIsKept` | at most one delivery is on record or about to be; the others were lost with a transaction |
| | `NoFaultNoDuplicate` | an alert none of whose acceptances was destroyed is delivered at most once |
| | `LedgerIsKept` | `Delivery` implements `AlertLedger` |
| `PollingProofs` | `PollingTypes` | `[]TypeOK` |
| | `HistoryAgrees` | the last event says what the section row says |
| | `MessagesFollowCommits` | no message precedes its row |
| | `AlertsAreOpenings` | every alert stands for a recorded closed -> open event |
| | `OpeningsAreRealAlways` | no more openings recorded than the schedule had, and one per clash |
| | `OpeningIsRecognisedAlways` | closed -> open commits an opening, or is a clash |
| | `ClosedIsPromptAlways` | only an overtaken poll takes a closed section off the short interval |
| | `AlertsFitClashes` | once per watch and opening, and once more per clash |
| `SeatAlertsProofs` | `PipelineDelivers` | the pipeline implements `Delivery` |
| | `PipelineKeepsLedger` | the pipeline implements `AlertLedger` |
| | `PipelineAlertsOnce` | a student is reached once per opening, and once more per clash, but for recorded losses |
| `DispatchProofs` | `DispatchTypes` | `[]TypeOK`: the delay has its cap, `ahead` is a total order |
| | `QueueIsFair` | the action property `NobodyOvertakes`: nothing gets ahead of a due section but the late row of a first watch |
| | `BatchesAreBounded` | at most LIMIT polls at a time, and they are the front of the queue |
| `ScheduleProofs` | `ScheduleTypes` | `[]TypeOK` |
| | `ObservationsAreTrue` | what is observed is what is listed |
| | `GoneIsGone` | only a complete page that lists others, and not the section as it was asked for, says it is gone |
| | `ListedAreFound` | what is listed under complete headers is found by a search that understands its id |
| `WatchesProofs` | `WatchTypes` | `[]TypeOK` |
| | `LimitNearlyKept` | fewer watches over the limit than concurrent requests |
| | `AcceptedIsWatched` | an accepted watch was active during the request |
| | `SectionsAreWatched` | no section nobody watched |
| `RateLimitProofs` | `LimiterTypes` | `[]TypeOK` |
| | `WindowIsBounded` | slots per shortened window |
| | `RequestsAreBounded` | requests per shortened window |
| `NotifiersProofs` | `NotifierTypes` | `[]TypeOK` |
| | `VerdictsAccountForTaken` | verdicts account for what channels took |
| | `OnlyRefusalsGiveUp` | only hopeless alerts are given up, and those whose login or recipient was refused for the moment |

*Delivery.* One inductive invariant, `Inv`. The safety properties are not
inductive alone: after a `Commit`, `OutcomeIsFinal` and `DeliveryAccounted`
need that the row being overwritten was still pending, and
`SendingNeverCommitted` needs that what is committed is an outcome. So `Inv`
adds `LockedRowsArePending` (while a worker holds a row, everyone else sees it
pending; this is what makes a rollback harmless) and `TxnShape` (what a
transaction holds at each label). Exclusiveness comes from the lock in `Claim`,
the rest from exclusiveness: lemma `HolderDecides` says that with one holder at
most, `Recording` is that holder's matter. One lemma per action, and frame
lemmas (`CoreFrame`, `OthersKeep`, `OtherRowsKeep`, `Leave`) for what the actions
have in common. The refinement then needs no further invariant: `Commit` is the
ledger's `Send` or `Refuse`, an ambiguous answer or an abort with an acceptance
in hand its `Stray`, everything else a stutter (`LedgerStep`).

*Polling.* `Inv` adds to the three properties `LockIsExclusive` (one poll at a
time between flush and commit, from the row lock) and `PollShape`: what `seen`,
`new` and `ids` are at each label, above all that a poll about to insert alerts
has an opening as its change and numbers them by the event it is going to
append. `CommitTables` has the heart of it: the status a commit writes is the
loaded one only if it did not change, so the new last event agrees with it
however old what was loaded is.

*Polling, overtaken polls.* Four more properties hold for any number of workers,
sections, retries, failures and losses, with no hypothesis about overlap: what
overlap can break is counted. `FreshInv` is the invariant they need. `FreshOf`: a
poll that is not overtaken still has the committed status, and if it has decided
on an opening, or sees an open page on a section recorded as closed, there is one to
record that the history lacks (`Unnoticed`: fewer recorded openings than
`opened + clashes`). `OpeningsCounted`: the history is within that account, and
strictly so wherever a section recorded as closed is open on the page.
`QueueKnown`: messages are about sections that exist, so that loading one is not
a surprise. An overtaken poll that changes the status puts a clash on the account
by the same commit, so `CommitCounted` needs nothing of what it has loaded.
`PromptInv` adds that what a poll is about to write obeys `ClosedIsPrompt`, or
counts as a failure; `OnlyCommitsChangeStatus` and `RowChanges` confine the rest to
commits. `AlertsFitOpenings` maps the alerts of a watch one to one into the
recorded openings of its section.

*SeatAlerts.* `Glue` says that a row in `Delivery` is that of an alert committed
in `Polling`, and that what a poll has still to fan out is its own: it makes
`QueueNotifications`' guard (the rows are absent) true at each commit,
since a commit's alerts carry a number no earlier event has (`CommitsAreFresh`),
and `LoseFanOut`'s and `FanOut`'s at each loss and message. Then every step is a
step of `Delivery` or leaves it alone (`StepIsDelivery`).

*Watches.* `OvershootBounded` is not inductive: the requests already past the
count may all insert. `Room` counts them: active watches of a destination plus
requests past the count for it stay below the limit plus the number of requests.
`AcceptedMeansWatched` needs `ActiveIsHeld`: what is active now has been active
during each request about it.

*RateLimit.* `WInv`: tokens are unique (`Numbered`), no older than their caller
is late, and the key outlives them (`Timely`), so every grant of the shortened
window is still in the set (`GrantsAreInSet`) and the set that was counted at the
last grant had them all. For the requests, `PInv` adds that each search has two
grants to its name (`Paid`, `RequestsPaid`) and different searches different ones
(`Spaced`); `PaidTwice` shows that their first and their second slots are two
disjoint sets of grants, each with a grant for every search, and `WindowBounded`
does the rest.

*The pipeline.* `DeliveryProofs` is instantiated over the pipeline's variables, so
`PipelineDelivers` carries its theorems over: `LedgerIsKept` becomes
`PipelineKeepsLedger`, and `OneDeliveryIsKept` with `AlertsFitOpenings` and
`OpeningsCounted` becomes `PipelineAlertsOnce`.

*Dispatch.* `TypeOK` is the invariant, with `Orders(ahead, Stamped)` in it: who
leaves takes its place out of everybody's `ahead`, who is stamped has all others
ahead, so a strict total order stays one (`OrdersAppend`, `OrdersRemove`) and
nobody's `ahead` grows. So `Before` grows only by a row that is committed with a
place it already had. For the LIMIT, due sections have different ranks, the sizes
of their `Before` (`RanksDiffer`), and a candidate's rank is below LIMIT.

*Schedule.* The work is in the parser, not in the steps. `CellIsFound`: with
injective headers a cell read by name is the cell of that column, wherever it is.
`RowsRead`: rows that are neither notes nor blank are the rows of the listed
sections. `ParseReads` says what `ParseSection` returns on any results page, in
three cases, `AnswersFind` what a search puts on one, and `SearchEnds`
that a search ends with that or an outage.

*Notifiers.* `UnderWay` says what `error` and `verdict` can be at each stage, and
what is behind a refusal.

Model-checked only: every liveness property (`AlertResolved`,
`OpeningReachesWatchers`, `BacklogDrains`, `Settles`), liveness under fairness
and ENABLED being out of the prover's reach. `NewWatchNotAlerted` and
`SweepGivesUp` are refuted and have no theorem. What the proofs do not cover is
what the models take as given: the broker, PostgreSQL's locks, the school's
pages (`Truthful`).

## 7. Not modelled

- Read endpoints, health, start-up, dependency wiring, the response schemas:
  they change no state, but for `/stats`, whose pruning is
  `RateLimit.CurrentUsage`.
- Validation of the configuration and the DDL: nothing happens over time. What
  they guarantee (unique keys, positive intervals, which settings a channel
  needs) is in the constants' assumptions, the keys `Watches` waits for and the
  initial states of `Notifiers`.
- The wording of alerts and error texts; titles, instructors and headings of the
  page; headers that occur twice and rows shorter than their header; redirects,
  which cost no slot.
- How long messages wait (retry countdowns, jitter of `next_check_at`): a
  message may be taken at any time, a deadline passes at some time.
- The limiter's `reset`, which only tests call.
- Two sweeps or two dispatchers at a time: beat starts one, and a second one
  only publishes messages that are already possible.
- Seat counts in `Polling` (they are in `Schedule`); `missing` sections, since
  sections are never deleted.
- The order of two transactions' INSERTs into `status_events` is taken to be that
  of their section locks, so event numbers follow commits.

## 8. What is left

1. The composed liveness, from an opening on the schedule to its student, in a run
   small enough for TLC, or by a proof over the liveness of the parts taken as
   hypotheses.
2. A bound on the clashes themselves: how many overtaken polls n workers can
   record per change on the schedule.
3. The rolled-back failure counters (section 5) as a property of their own.

----------------------------- MODULE RateLimit -----------------------------
(***************************************************************************)
(* The sliding-window limiter in Redis, as the schedule client uses it: a  *)
(* search takes two slots one after the other, then sends its requests.    *)
(*                                                                         *)
(* Each acquire reads its host's clock, runs one MULTI/EXEC (add the own   *)
(* token, drop old tokens, count, set the key's expiry), and, when the     *)
(* count is over the limit, takes its token out again in a command of its  *)
(* own.  Time is discrete; a caller may be late by up to MaxDelay between  *)
(* reading the clock and the EXEC.                                         *)
(***************************************************************************)
EXTENDS Integers, FiniteSets

CONSTANTS
    Workers,      \* callers of the limiter
    Limit,        \* limit: scrape_requests_per_window
    Window,       \* window_seconds
    MaxDelay,     \* longest time from time.time() to EXEC
    MaxLatency,   \* longest time from a search's first slot to its requests
    MaxTime,      \* bound: how long the clock runs
    MaxTries      \* bound: acquires per worker

ASSUME RateLimitAssumption ==
    /\ Limit \in Nat \ {0}
    /\ Window \in Nat \ {0}
    /\ MaxDelay \in Nat
    /\ MaxLatency \in Nat
    /\ MaxDelay + MaxLatency < Window
    /\ MaxTime \in Nat
    /\ MaxTries \in Nat

VARIABLES
    now,      \* real time
    zset,     \* the sorted set: tokens with the moment they carry
    expires,  \* when Redis drops the key
    pc,       \* per worker: its place in search_html
    moment,   \* per worker: the clock as it read it
    since,    \* per worker: when its search got its first slot
    tries,    \* per worker: acquires so far, which makes its tokens unique
    grants,   \* history of one window: granted tokens, and when
    requests  \* history of one window: searches that went out, and when

search == <<pc, moment, since, tries>>
vars == <<now, zset, expires, search, grants, requests>>

Time   == 0..MaxTime
Token  == [moment : Time, owner : Workers, nr : 1..MaxTries]
First  == {"idle", "exec1"}             \* no slot yet
Second == {"second", "exec2", "send"}   \* at least one
Labels == First \cup Second \cup {"zrem"}

TypeOK ==
    /\ now \in Time
    /\ zset \subseteq Token
    /\ expires \in 0..(MaxTime + 2 * Window)
    /\ pc \in [Workers -> Labels]
    /\ moment \in [Workers -> Time]
    /\ since \in [Workers -> Time]
    /\ tries \in [Workers -> 0..MaxTries]
    /\ \A g \in grants : g.token \in Token /\ g.at \in Time
    /\ \A r \in requests : r.by \in Workers /\ r.at \in Time

Init ==
    /\ now = 0
    /\ zset = {}
    /\ expires = 0
    /\ pc = [w \in Workers |-> "idle"]
    /\ moment = [w \in Workers |-> 0]
    /\ since = [w \in Workers |-> 0]
    /\ tries = [w \in Workers |-> 0]
    /\ grants = {}
    /\ requests = {}

-----------------------------------------------------------------------------
Executing == {"exec1", "exec2"}

(* Time passes; Redis drops the key when it expires.                       *)
Tick ==
    /\ now < MaxTime
    /\ \A w \in Workers :
          /\ pc[w] \in Executing => now - moment[w] < MaxDelay
          /\ pc[w] \in Second => now - since[w] < MaxLatency
    /\ now' = now + 1
    /\ zset' = IF now' >= expires THEN {} ELSE zset
    /\ grants' = {g \in grants : g.at > now' - Window}
    /\ requests' = {r \in requests : r.at > now' - Window}
    /\ UNCHANGED <<expires, search>>

(* acquire: the clock is read.                                             *)
ReadClock(w) ==
    /\ \/ pc[w] = "idle"   /\ pc' = [pc EXCEPT ![w] = "exec1"]
       \/ pc[w] = "second" /\ pc' = [pc EXCEPT ![w] = "exec2"]
    /\ tries[w] < MaxTries
    /\ tries' = [tries EXCEPT ![w] = @ + 1]
    /\ moment' = [moment EXCEPT ![w] = now]
    /\ UNCHANGED <<now, zset, expires, since, grants, requests>>

\* Variants (each definition named ...X is the one after it with a seeded bug,
\* kept to show which property notices): the token carries the cutoff.
TokenOfCutoffX(w) == [moment |-> moment[w] - Window, owner |-> w, nr |-> tries[w]]

TokenOf(w) == [moment |-> moment[w], owner |-> w, nr |-> tries[w]]

(* zremrangebyscore(key, 0, moment - window_seconds): bounds included.     *)
Kept(tokens, m) == {t \in tokens : t.moment > m - Window}

(* The EXEC.                                                               *)
\* The count is taken before the own token is added.
RefusedLateX(tokens) == Cardinality(tokens) > Limit + 1

Refused(tokens) == Cardinality(tokens) > Limit

\* The second slot is not asked for.
NextLabelOnceX(label) == "send"

NextLabel(label) == IF label = "exec1" THEN "second" ELSE "send"

Exec(w) ==
    LET after == Kept(zset \cup {TokenOf(w)}, moment[w]) IN
    /\ pc[w] \in Executing
    /\ zset' = after
    /\ expires' = now + 2 * Window
    /\ IF Refused(after)
       THEN /\ pc' = [pc EXCEPT ![w] = "zrem"]
            /\ UNCHANGED <<since, grants>>
       ELSE /\ pc' = [pc EXCEPT ![w] = NextLabel(@)]
            /\ since' = [since EXCEPT ![w] = IF pc[w] = "exec1" THEN now ELSE @]
            /\ grants' = grants \cup {[token |-> TokenOf(w), at |-> now]}
    /\ UNCHANGED <<now, moment, tries, requests>>

(* zrem, on its own: until then the refused token counts.  Then the search *)
(* is over (RateLimited), the first slot it may have taken stays taken.    *)
Zrem(w) ==
    /\ pc[w] = "zrem"
    /\ zset' = zset \ {TokenOf(w)}
    /\ pc' = [pc EXCEPT ![w] = "idle"]
    /\ UNCHANGED <<now, expires, moment, since, tries, grants, requests>>

(* With both slots the search's GET and POST go out; each may be delayed.  *)
Send(w) ==
    /\ pc[w] = "send"
    /\ requests' = requests \cup {[by |-> w, nr |-> tries[w], at |-> now]}
    /\ pc' = [pc EXCEPT ![w] = "idle"]
    /\ UNCHANGED <<now, zset, expires, moment, since, tries, grants>>

(* The worker is lost: a refused token it had not removed yet stays.       *)
WorkerLost(w) ==
    /\ pc[w] # "idle"
    /\ pc' = [pc EXCEPT ![w] = "idle"]
    /\ UNCHANGED <<now, zset, expires, moment, since, tries, grants, requests>>

(* current_usage, called by /stats, drops old tokens by its own clock.     *)
CurrentUsage ==
    /\ zset' = Kept(zset, now)
    /\ UNCHANGED <<now, expires, search, grants, requests>>

Next ==
    \/ Tick
    \/ CurrentUsage
    \/ \E w \in Workers :
          ReadClock(w) \/ Exec(w) \/ Zrem(w) \/ Send(w) \/ WorkerLost(w)

Spec == Init /\ [][Next]_vars

-----------------------------------------------------------------------------
(* Never more than Limit slots are granted in a window, however the        *)
(* acquires of different workers interleave and however many are refused,  *)
(* lost, or late (rate_limit.py:48-72).  A caller that is late with its    *)
(* clock carries a token that is dropped early by as much.                 *)
GrantedSince(t) == {g \in grants : g.at > t}

WindowBounded == Cardinality(GrantedSince(now - (Window - MaxDelay))) <= Limit

(* Nor do more than Limit requests go out, a search being two of them, in  *)
(* the part of a window that neither lateness can reach: every search that *)
(* goes out has been paid for twice, recently (client.py:116-128).         *)
RequestsSince(t) == {r \in requests : r.at > t}

RequestsBounded ==
    2 * Cardinality(RequestsSince(now - (Window - MaxDelay - MaxLatency))) <= Limit

=============================================================================

-------------------------- MODULE RateLimitProofs --------------------------
(* Proofs about RateLimit, for every number of workers, every limit,       *)
(* window, delay and latency.                                              *)
EXTENDS RateLimit, FiniteSetTheorems, TLAPS

Live == now - (Window - MaxDelay)   \* grants later than this are counted

(* A worker's tokens are numbered: no later one repeats a granted one.     *)
Numbered ==
    /\ \A w \in Workers : pc[w] # "idle" => tries[w] >= 1
    /\ \A g \in grants :
          /\ g.token.nr <= tries[g.token.owner]
          /\ pc[g.token.owner] \in Executing \cup {"zrem"} => g.token.nr < tries[g.token.owner]
    /\ \A g, h \in grants : g.token = h.token => g = h

(* A token is as old as its caller is late, and the key outlives it.       *)
Timely ==
    /\ \A w \in Workers :
          pc[w] \in Executing => moment[w] <= now /\ now - moment[w] <= MaxDelay
    /\ \A g \in grants :
          /\ g.at <= now
          /\ g.at - g.token.moment <= MaxDelay
          /\ g.at + 2 * Window <= expires
    /\ expires <= now + 2 * Window

(* Every slot that still counts is in the set that is counted.             *)
GrantsAreInSet == \A g \in GrantedSince(Live) : g.token \in zset

WInv ==
    /\ TypeOK
    /\ Numbered
    /\ Timely
    /\ IsFiniteSet(zset)
    /\ GrantsAreInSet
    /\ WindowBounded

-----------------------------------------------------------------------------
(* Different grants carry different tokens, so a set that has them all has *)
(* as many elements.                                                       *)
LEMMA GrantsFit ==
    ASSUME NEW G, NEW S, IsFiniteSet(S),
           \A g \in G : g.token \in S,
           \A g, h \in G : g.token = h.token => g = h
    PROVE  IsFiniteSet(G) /\ Cardinality(G) <= Cardinality(S)
<1> DEFINE f == [g \in G |-> g.token]
<1>1. f \in [G -> S]
  OBVIOUS
<1>2. \A g, h \in G : f[g] = f[h] => g = h
  OBVIOUS
<1>3. f \in Injection(G, S)
  BY <1>1, <1>2 DEF Injection, IsInjective
<1> QED BY <1>3, FS_Injection

(* A subset of the counted grants is as bounded as they are.               *)
LEMMA FewerGrants ==
    ASSUME WInv, NEW G, G \subseteq GrantedSince(Live)
    PROVE  IsFiniteSet(G) /\ Cardinality(G) \in Nat /\ Cardinality(G) <= Limit
<1>1. IsFiniteSet(GrantedSince(Live))
  <2>1. \A g, h \in GrantedSince(Live) : g.token = h.token => g = h
    BY DEF WInv, Numbered, GrantedSince
  <2> QED BY <2>1, GrantsFit DEF WInv, GrantsAreInSet
<1>2. IsFiniteSet(G) /\ Cardinality(G) <= Cardinality(GrantedSince(Live))
  BY <1>1, FS_Subset
<1>3. Cardinality(GrantedSince(Live)) <= Limit
  BY DEF WInv, WindowBounded, Live
<1>4. Cardinality(G) \in Nat /\ Cardinality(GrantedSince(Live)) \in Nat
  BY <1>1, <1>2, FS_CardinalityType
<1> QED BY <1>2, <1>3, <1>4, RateLimitAssumption

(* Dropping old tokens by a clock that is not ahead drops none that counts.*)
LEMMA KeptCounts ==
    ASSUME WInv, NEW m \in Time, m <= now, NEW g \in GrantedSince(Live)
    PROVE  g.token \in Kept(zset, m)
<1>1. g.token \in zset /\ g.token \in Token /\ g.at \in Time
  BY DEF WInv, GrantsAreInSet, TypeOK, GrantedSince
<1>2. g.at > now - (Window - MaxDelay) /\ g.at - g.token.moment <= MaxDelay
  BY DEF WInv, Timely, GrantedSince, Live
<1>3. g.token.moment > m - Window
  BY <1>1, <1>2, RateLimitAssumption DEF WInv, TypeOK, Time, Token
<1> QED BY <1>1, <1>3 DEF Kept

-----------------------------------------------------------------------------
LEMMA TickInv ==
    ASSUME WInv, Tick PROVE WInv'
<1> USE RateLimitAssumption DEF WInv, Tick, search
<1>0. now \in Nat /\ now' = now + 1 /\ expires \in Nat
  BY DEF TypeOK, Time
<1>1. TypeOK'
  <2>1. now' \in Time
    BY DEF TypeOK, Time
  <2> QED BY <2>1 DEF TypeOK
<1>2. grants' \subseteq grants
  OBVIOUS
<1>3. Numbered'
  BY <1>2 DEF Numbered
<1>4. Timely'
  <2>1. ASSUME NEW w \in Workers, pc[w] \in Executing
        PROVE  moment[w] <= now' /\ now' - moment[w] <= MaxDelay
    BY <1>0, <2>1 DEF Timely, TypeOK, Time
  <2>2. ASSUME NEW g \in grants'
        PROVE  /\ g.at <= now'
               /\ g.at - g.token.moment <= MaxDelay
               /\ g.at + 2 * Window <= expires'
    BY <1>0, <1>2 DEF Timely, TypeOK, Time
  <2>3. expires' <= now' + 2 * Window
    BY <1>0 DEF Timely
  <2> QED BY <2>1, <2>2, <2>3 DEF Timely
<1>5. GrantedSince(Live)' \subseteq GrantedSince(Live)
  BY <1>0, <1>2 DEF GrantedSince, Live, TypeOK, Time
<1>6. IsFiniteSet(zset')
  BY FS_EmptySet
<1>7. GrantsAreInSet'
  <2> SUFFICES ASSUME NEW g \in GrantedSince(Live)' PROVE g.token \in zset'
    BY DEF GrantsAreInSet
  <2>1. g.token \in zset
    BY <1>5 DEF GrantsAreInSet
  <2>2. g.at \in Time /\ g.at > now' - (Window - MaxDelay) /\ g.at + 2 * Window <= expires
    BY <1>2 DEF GrantedSince, Live, Timely, TypeOK
  <2>3. ~(now' >= expires)
    BY <1>0, <2>2 DEF Time
  <2> QED BY <2>1, <2>3
<1>8. WindowBounded'
  <2> HIDE DEF WInv
  <2>1. Cardinality(GrantedSince(Live)') <= Limit
    BY <1>5, FewerGrants
  <2> QED BY <2>1 DEF WindowBounded, GrantedSince, Live
<1> QED BY <1>1, <1>3, <1>4, <1>6, <1>7, <1>8

LEMMA ReadClockInv ==
    ASSUME WInv, NEW w \in Workers, ReadClock(w) PROVE WInv'
<1> USE RateLimitAssumption DEF WInv, ReadClock
<1>1. TypeOK'
  BY DEF TypeOK, Labels, First, Second, Time
<1>2. Numbered'
  <2>1. ASSUME NEW v \in Workers, pc'[v] # "idle" PROVE tries'[v] >= 1
    BY <2>1 DEF Numbered, TypeOK
  <2>2. ASSUME NEW g \in grants
        PROVE  /\ g.token.nr <= tries'[g.token.owner]
               /\ pc'[g.token.owner] \in Executing \cup {"zrem"}
                    => g.token.nr < tries'[g.token.owner]
    <3>1. g.token.owner \in Workers /\ g.token.nr \in Nat
      BY DEF TypeOK, Token
    <3> QED BY <3>1 DEF Numbered, TypeOK, Executing
  <2> QED BY <2>1, <2>2 DEF Numbered
<1>3. Timely'
  BY DEF Timely, TypeOK, Time, Executing
<1>4. GrantsAreInSet' /\ WindowBounded'
  BY DEF GrantsAreInSet, WindowBounded, GrantedSince, Live
<1> QED BY <1>1, <1>2, <1>3, <1>4

(* The step that grants: what is in the set afterwards is at most Limit,   *)
(* and every slot that counts is in it.                                    *)
LEMMA ExecInv ==
    ASSUME WInv, NEW w \in Workers, Exec(w) PROVE WInv'
<1> DEFINE tok == TokenOf(w)
           after == Kept(zset \cup {tok}, moment[w])
<1> USE RateLimitAssumption DEF WInv
<1>0. /\ pc[w] \in Executing
      /\ zset' = after
      /\ expires' = now + 2 * Window
      /\ UNCHANGED <<now, moment, tries, requests>>
  BY DEF Exec
<1>1. /\ moment[w] \in Time /\ moment[w] <= now /\ now - moment[w] <= MaxDelay
      /\ tries[w] \in 1..MaxTries
      /\ now \in Nat
  BY <1>0 DEF Timely, Numbered, TypeOK, Executing, Time
<1>2. /\ tok \in Token
      /\ tok.owner = w /\ tok.nr = tries[w] /\ tok.moment = moment[w]
  BY <1>1 DEF TokenOf, Token
<1>3. after \subseteq zset \cup {tok} /\ tok \in after
  BY <1>1, <1>2 DEF Kept, Time
<1>4. IsFiniteSet(zset')
  BY <1>0, <1>3, FS_AddElement, FS_Subset
<1>5. \A g \in GrantedSince(Live) : g.token \in after
  <2> SUFFICES ASSUME NEW g \in GrantedSince(Live) PROVE g.token \in after
    OBVIOUS
  <2>1. g.token \in Kept(zset, moment[w])
    BY <1>1, KeptCounts
  <2> QED BY <2>1 DEF Kept
<1>6. zset' \subseteq Token /\ expires' \in 0..(MaxTime + 2 * Window)
  <2>1. zset' \subseteq Token
    BY <1>0, <1>2, <1>3 DEF TypeOK
  <2>2. now \in 0..MaxTime
    BY DEF TypeOK, Time
  <2>3. expires' \in 0..(MaxTime + 2 * Window)
    BY <1>0, <2>2
  <2> QED BY <2>1, <2>3
<1>7. CASE Refused(after)
  <2>1. /\ pc' = [pc EXCEPT ![w] = "zrem"]
        /\ UNCHANGED <<since, grants>>
    BY <1>7 DEF Exec
  <2>2. TypeOK'
    BY <1>0, <1>6, <2>1 DEF TypeOK, Labels
  <2>3. Numbered'
    <3>1. ASSUME NEW g \in grants
          PROVE  pc'[g.token.owner] \in Executing \cup {"zrem"}
                   => g.token.nr < tries[g.token.owner]
      <4>1. g.token.owner \in Workers
        BY DEF TypeOK, Token
      <4> QED BY <1>0, <2>1, <4>1 DEF Numbered, TypeOK
    <3>2. \A v \in Workers : pc'[v] # "idle" => tries[v] >= 1
      BY <1>0, <1>1, <2>1 DEF Numbered, TypeOK
    <3> QED BY <1>0, <2>1, <3>1, <3>2 DEF Numbered
  <2>4. Timely'
    <3>1. ASSUME NEW g \in grants PROVE g.at + 2 * Window <= expires'
      BY <1>0, <1>1 DEF Timely, TypeOK, Time
    <3>2. expires' <= now' + 2 * Window
      BY <1>0, <1>1
    <3>3. \A v \in Workers : pc'[v] \in Executing => pc[v] \in Executing
      BY <2>1 DEF TypeOK, Executing
    <3> QED BY <1>0, <2>1, <3>1, <3>2, <3>3 DEF Timely
  <2>5. GrantedSince(Live)' = GrantedSince(Live)
    BY <1>0, <2>1 DEF GrantedSince, Live
  <2>6. GrantsAreInSet'
    BY <1>0, <1>5, <2>5 DEF GrantsAreInSet
  <2>7. WindowBounded'
    BY <1>0, <2>1 DEF WindowBounded, GrantedSince
  <2> QED BY <1>4, <2>2, <2>3, <2>4, <2>6, <2>7
<1>8. CASE ~Refused(after)
  <2> DEFINE new == [token |-> tok, at |-> now]
  <2>1. /\ pc' = [pc EXCEPT ![w] = NextLabel(@)]
        /\ since' = [since EXCEPT ![w] = IF pc[w] = "exec1" THEN now ELSE @]
        /\ grants' = grants \cup {new}
    BY <1>8 DEF Exec
  <2>2. TypeOK'
    <3>1. pc' \in [Workers -> Labels] /\ since' \in [Workers -> Time]
      BY <2>1 DEF TypeOK, NextLabel, Labels, Second
    <3>2. \A g \in grants' : g.token \in Token /\ g.at \in Time
      BY <1>2, <2>1 DEF TypeOK
    <3> QED BY <1>0, <1>6, <3>1, <3>2 DEF TypeOK
  <2>3. pc'[w] \in {"second", "send"} /\ \A v \in Workers \ {w} : pc'[v] = pc[v]
    BY <2>1 DEF TypeOK, NextLabel
  <2>4. \A g \in grants : g.token # tok
    BY <1>0, <1>1, <1>2 DEF Numbered, Token, TypeOK
  <2>5. Numbered'
    <3>1. ASSUME NEW g \in grants'
          PROVE  /\ g.token.nr <= tries[g.token.owner]
                 /\ pc'[g.token.owner] \in Executing \cup {"zrem"}
                      => g.token.nr < tries[g.token.owner]
      <4>1. CASE g \in grants
        <5>1. g.token.owner \in Workers
          BY <4>1 DEF TypeOK, Token
        <5> QED BY <4>1, <5>1, <2>3 DEF Numbered, Executing
      <4>2. CASE g = new
        BY <4>2, <1>1, <1>2, <2>3 DEF Executing
      <4> QED BY <2>1, <4>1, <4>2
    <3>2. \A v \in Workers : pc'[v] # "idle" => tries[v] >= 1
      BY <1>1, <2>3 DEF Numbered
    <3>3. \A g, h \in grants' : g.token = h.token => g = h
      BY <2>1, <2>4 DEF Numbered
    <3> QED BY <1>0, <3>1, <3>2, <3>3 DEF Numbered
  <2>6. Timely'
    <3>1. ASSUME NEW g \in grants'
          PROVE  /\ g.at <= now
                 /\ g.at - g.token.moment <= MaxDelay
                 /\ g.at + 2 * Window <= expires'
      BY <1>0, <1>1, <1>2, <2>1 DEF Timely, TypeOK, Time
    <3>2. expires' <= now' + 2 * Window
      BY <1>0, <1>1
    <3>3. \A v \in Workers : pc'[v] \in Executing => pc[v] \in Executing
      BY <2>3 DEF Executing
    <3> QED BY <1>0, <3>1, <3>2, <3>3 DEF Timely
  <2>7. GrantedSince(Live)' \subseteq GrantedSince(Live) \cup {new}
    BY <1>0, <2>1 DEF GrantedSince, Live
  <2>8. GrantsAreInSet'
    <3> SUFFICES ASSUME NEW g \in GrantedSince(Live)' PROVE g.token \in zset'
      BY DEF GrantsAreInSet
    <3>1. CASE g \in GrantedSince(Live)
      BY <1>0, <1>5, <3>1
    <3>2. CASE g = new
      <4>1. g.token = tok
        BY <3>2
      <4> QED BY <1>0, <1>3, <4>1
    <3> QED BY <2>7, <3>1, <3>2
  <2>9. Cardinality(GrantedSince(Live)') <= Cardinality(zset')
    <3>1. \A g, h \in GrantedSince(Live)' : g.token = h.token => g = h
      BY <2>5 DEF Numbered, GrantedSince
    <3>2. \A g \in GrantedSince(Live)' : g.token \in zset'
      BY <2>8 DEF GrantsAreInSet
    <3> QED BY <1>4, <3>1, <3>2, GrantsFit
  <2>10. Cardinality(zset') <= Limit /\ Cardinality(zset') \in Nat
    BY <1>0, <1>4, <1>8, FS_CardinalityType DEF Refused
  <2>11. Cardinality(GrantedSince(Live)') \in Nat
    <3>1. \A g, h \in GrantedSince(Live)' : g.token = h.token => g = h
      BY <2>5 DEF Numbered, GrantedSince
    <3>2. \A g \in GrantedSince(Live)' : g.token \in zset'
      BY <2>8 DEF GrantsAreInSet
    <3> QED BY <1>4, <3>1, <3>2, GrantsFit, FS_CardinalityType
  <2>12. WindowBounded'
    <3>1. Cardinality(GrantedSince(Live)') <= Limit
      BY <2>9, <2>10, <2>11
    <3> QED BY <3>1 DEF WindowBounded, GrantedSince, Live
  <2> QED BY <1>4, <2>2, <2>5, <2>6, <2>8, <2>12
<1> QED BY <1>7, <1>8

(* The steps that end a search: no token that counts leaves the set.       *)
LEMMA IdleInv ==
    ASSUME WInv, NEW w \in Workers, pc[w] # "idle",
           pc' = [pc EXCEPT ![w] = "idle"],
           zset' = zset \/ (pc[w] = "zrem" /\ zset' = zset \ {TokenOf(w)}),
           UNCHANGED <<now, expires, moment, since, tries, grants>>,
           \A r \in requests' : r.by \in Workers /\ r.at \in Time
    PROVE  WInv'
<1> USE DEF WInv
<1>1. zset' \subseteq zset
  OBVIOUS
<1>2. TypeOK'
  BY <1>1 DEF TypeOK, Labels, First
<1>3. \A v \in Workers : pc'[v] # "idle" => pc'[v] = pc[v]
  BY DEF TypeOK
<1>4. Numbered'
  <2>1. \A g \in grants : g.token.owner \in Workers
    BY DEF TypeOK, Token
  <2> QED BY <1>3, <2>1 DEF Numbered, Executing
<1>5. Timely'
  BY <1>3 DEF Timely, Executing
<1>6. IsFiniteSet(zset')
  BY <1>1, FS_Subset
<1>7. GrantsAreInSet'
  <2> SUFFICES ASSUME NEW g \in grants, g \in GrantedSince(Live)' PROVE g.token \in zset'
    BY DEF GrantsAreInSet, GrantedSince
  <2>1. g.token \in zset
    BY DEF GrantsAreInSet, GrantedSince, Live
  <2>2. pc[w] = "zrem" => g.token # TokenOf(w)
    BY DEF Numbered, TokenOf, TypeOK, Token
  <2> QED BY <2>1, <2>2
<1>8. WindowBounded'
  BY DEF WindowBounded, GrantedSince
<1> QED BY <1>2, <1>4, <1>5, <1>6, <1>7, <1>8

LEMMA CurrentUsageInv ==
    ASSUME WInv, CurrentUsage PROVE WInv'
<1> USE DEF WInv, CurrentUsage, search
<1>1. zset' \subseteq zset
  BY DEF Kept
<1>2. TypeOK'
  BY <1>1 DEF TypeOK
<1>3. Numbered' /\ Timely' /\ WindowBounded'
  BY DEF Numbered, Timely, WindowBounded, GrantedSince
<1>4. GrantsAreInSet'
  <2>1. now \in Time /\ now <= now
    BY RateLimitAssumption DEF TypeOK, Time
  <2>2. \A g \in GrantedSince(Live) : g.token \in Kept(zset, now)
    BY <2>1, KeptCounts
  <2> QED BY <2>2 DEF GrantsAreInSet, GrantedSince, Live
<1> QED BY <1>1, <1>2, <1>3, <1>4, FS_Subset

LEMMA WNext ==
    ASSUME WInv, [Next]_vars PROVE WInv'
<1>1. ASSUME NEW w \in Workers, Zrem(w) \/ Send(w) \/ WorkerLost(w) PROVE WInv'
  <2>1. \A r \in requests' : r.by \in Workers /\ r.at \in Time
    BY <1>1 DEF Zrem, Send, WorkerLost, WInv, TypeOK
  <2> QED BY <1>1, <2>1, IdleInv DEF Zrem, Send, WorkerLost
<1>2. CASE UNCHANGED vars
  BY <1>2 DEF vars, search, WInv, TypeOK, Numbered, Timely, GrantsAreInSet, WindowBounded,
              GrantedSince, Live
<1> QED BY <1>1, <1>2, TickInv, CurrentUsageInv, ReadClockInv, ExecInv DEF Next

LEMMA WInit ==
    ASSUME Init PROVE WInv
<1> USE RateLimitAssumption DEF Init
<1>1. TypeOK
  BY DEF TypeOK, Time, Labels, First
<1>2. Numbered /\ Timely /\ GrantsAreInSet
  BY DEF Numbered, Timely, GrantsAreInSet, GrantedSince, Executing
<1>3. GrantedSince(now - (Window - MaxDelay)) = {}
  BY DEF GrantedSince
<1>4. WindowBounded
  BY <1>3, FS_EmptySet DEF WindowBounded
<1> QED BY <1>1, <1>2, <1>4, FS_EmptySet DEF WInv

LEMMA WIsInvariant == Spec => []WInv
<1> QED BY WInit, WNext, PTL DEF Spec

(* Every variable of the limiter stays in its type.                        *)
THEOREM LimiterTypes == Spec => []TypeOK
<1>1. WInv => TypeOK
  BY DEF WInv
<1> QED BY <1>1, WIsInvariant, PTL

(* Never more than Limit slots are granted in a window, shortened by the   *)
(* time a caller may be late with its clock (rate_limit.py:48-72).         *)
THEOREM WindowIsBounded == Spec => []WindowBounded
<1>1. WInv => WindowBounded
  BY DEF WInv
<1> QED BY <1>1, WIsInvariant, PTL

-----------------------------------------------------------------------------
(* Every search that goes out was granted the two slots before it, of two  *)
(* numbers no other search has.                                            *)
Slot(w, n, t) ==
    \E g \in grants : g.token.owner = w /\ g.token.nr = n /\ g.at >= t

(* What the worker has in hand.                                            *)
Paid ==
    \A w \in Workers : pc[w] \in Second =>
        /\ since[w] <= now /\ now - since[w] <= MaxLatency
        /\ pc[w] = "second" => Slot(w, tries[w], since[w])
        /\ pc[w] \in {"exec2", "send"} => Slot(w, tries[w] - 1, since[w])
        /\ pc[w] = "send" => Slot(w, tries[w], since[w])

(* The number of a search is that of its second slot.                      *)
Spaced ==
    /\ \A r \in requests :
          /\ r.nr \in 1..MaxTries
          /\ r.nr <= tries[r.by]
          /\ pc[r.by] \in {"exec1", "second", "zrem"} => r.nr < tries[r.by]
          /\ pc[r.by] \in {"exec2", "send"} => r.nr < tries[r.by] - 1
    /\ \A r, q \in requests :
          r.by = q.by /\ r # q => r.nr - q.nr \notin {-1, 0, 1}

Counted == Live + MaxLatency

RequestsPaid ==
    \A r \in requests :
        /\ r.at <= now
        /\ r.at > Counted => /\ Slot(r.by, r.nr - 1, r.at - MaxLatency)
                             /\ Slot(r.by, r.nr, r.at - MaxLatency)

PInv == WInv /\ Paid /\ Spaced /\ RequestsPaid

(* A slot stays on record while grants do.                                 *)
LEMMA SlotStays ==
    ASSUME WInv, NEW w, NEW n, NEW t \in Int, Slot(w, n, t),
           \/ grants \subseteq grants'
           \/ Tick /\ t > now' - Window
    PROVE  Slot(w, n, t)'
<1>1. PICK g \in grants : g.token.owner = w /\ g.token.nr = n /\ g.at >= t
  BY DEF Slot
<1>2. g \in grants'
  <2>1. CASE grants \subseteq grants'
    BY <2>1
  <2>2. CASE Tick /\ t > now' - Window
    <3>1. g.at > now' - Window
      BY <1>1, <2>2, RateLimitAssumption DEF WInv, TypeOK, Time, Tick
    <3> QED BY <2>2, <3>1 DEF Tick
  <2> QED BY <2>1, <2>2
<1> QED BY <1>1, <1>2 DEF Slot

LEMMA PTick ==
    ASSUME PInv, Tick PROVE PInv'
<1> USE RateLimitAssumption DEF PInv
<1>1. WInv'
  BY TickInv
<1>2. /\ now \in Nat /\ now' = now + 1
      /\ UNCHANGED <<pc, moment, since, tries>>
      /\ requests' \subseteq requests
  BY DEF Tick, search, WInv, TypeOK, Time
<1>3. Paid'
  <2> SUFFICES ASSUME NEW w \in Workers, pc[w] \in Second
               PROVE  /\ since[w] <= now' /\ now' - since[w] <= MaxLatency
                      /\ pc[w] = "second" => Slot(w, tries[w], since[w])'
                      /\ pc[w] \in {"exec2", "send"} => Slot(w, tries[w] - 1, since[w])'
                      /\ pc[w] = "send" => Slot(w, tries[w], since[w])'
    BY <1>2 DEF Paid
  <2>1. since[w] \in Nat /\ since[w] <= now /\ now - since[w] < MaxLatency
    BY DEF WInv, TypeOK, Time, Tick, Paid
  <2>2. since[w] > now' - Window
    BY <1>2, <2>1
  <2>3. \A n : Slot(w, n, since[w]) => \E g \in grants' :
            g.token.owner = w /\ g.token.nr = n /\ g.at >= since[w]
    BY <1>2, <2>1, <2>2, SlotStays DEF Slot
  <2> QED BY <1>2, <2>1, <2>3 DEF Paid, Slot
<1>4. Spaced'
  BY <1>2 DEF Spaced
<1>5. RequestsPaid'
  <2> SUFFICES ASSUME NEW r \in requests'
               PROVE  /\ r.at <= now'
                      /\ r.at > Counted' => /\ Slot(r.by, r.nr - 1, r.at - MaxLatency)'
                                            /\ Slot(r.by, r.nr, r.at - MaxLatency)'
    BY <1>2 DEF RequestsPaid
  <2>1. r \in requests /\ r.at \in Nat /\ r.at <= now
    BY <1>2 DEF RequestsPaid, WInv, TypeOK, Time
  <2>2. ASSUME r.at > Counted'
        PROVE  r.at > Counted /\ r.at - MaxLatency \in Int /\ r.at - MaxLatency > now' - Window
    BY <1>2, <2>1, <2>2 DEF Counted, Live
  <2>3. ASSUME NEW n, r.at > Counted', Slot(r.by, n, r.at - MaxLatency)
        PROVE  \E g \in grants' :
                   g.token.owner = r.by /\ g.token.nr = n /\ g.at >= r.at - MaxLatency
    BY <2>2, <2>3, SlotStays DEF Slot
  <2>4. r.at <= now'
    BY <1>2, <2>1
  <2>5. ASSUME r.at > Counted'
        PROVE  Slot(r.by, r.nr - 1, r.at - MaxLatency) /\ Slot(r.by, r.nr, r.at - MaxLatency)
    BY <2>1, <2>2, <2>5 DEF RequestsPaid
  <2>6. ASSUME r.at > Counted'
        PROVE  Slot(r.by, r.nr - 1, r.at - MaxLatency)' /\ Slot(r.by, r.nr, r.at - MaxLatency)'
    <3>1. Slot(r.by, r.nr - 1, r.at - MaxLatency)'
      BY <2>3, <2>5, <2>6 DEF Slot
    <3>2. Slot(r.by, r.nr, r.at - MaxLatency)'
      BY <2>3, <2>5, <2>6 DEF Slot
    <3> QED BY <3>1, <3>2
  <2> QED BY <2>4, <2>6
<1> QED BY <1>1, <1>3, <1>4, <1>5

(* The steps that grant nothing and send nothing.                          *)
LEMMA PQuiet ==
    ASSUME PInv, WInv', NEW w \in Workers, NEW label,
           UNCHANGED <<now, since, grants, requests>>,
           pc' = [pc EXCEPT ![w] = label],
           \/ label \in {"idle", "zrem"} /\ UNCHANGED tries
           \/ pc[w] = "idle" /\ label = "exec1" /\ tries' = [tries EXCEPT ![w] = @ + 1]
           \/ pc[w] = "second" /\ label = "exec2" /\ tries' = [tries EXCEPT ![w] = @ + 1],
           label = "zrem" => pc[w] \in Executing
    PROVE  PInv'
<1> USE DEF PInv
<1>0. tries[w] \in Nat /\ \A v \in Workers \ {w} : pc'[v] = pc[v] /\ tries'[v] = tries[v]
  BY DEF WInv, TypeOK
<1>1. Paid'
  <2> SUFFICES ASSUME NEW v \in Workers, pc'[v] \in Second
               PROVE  /\ since[v] <= now /\ now - since[v] <= MaxLatency
                      /\ pc'[v] = "second" => Slot(v, tries'[v], since[v])
                      /\ pc'[v] \in {"exec2", "send"} => Slot(v, tries'[v] - 1, since[v])
                      /\ pc'[v] = "send" => Slot(v, tries'[v], since[v])
    BY DEF Paid, Slot
  <2>1. CASE v # w
    BY <1>0, <2>1 DEF Paid
  <2>2. CASE v = w
    <3>1. label = "exec2" /\ pc[w] = "second" /\ tries'[w] = tries[w] + 1 /\ pc'[w] = "exec2"
      BY <2>2 DEF Second, WInv, TypeOK
    <3>2. tries'[w] - 1 = tries[w]
      BY <1>0, <3>1
    <3> QED BY <2>2, <3>1, <3>2 DEF Paid, Second
  <2> QED BY <2>1, <2>2
<1>2. Spaced'
  <2>1. ASSUME NEW r \in requests
        PROVE  /\ r.nr <= tries'[r.by]
               /\ pc'[r.by] \in {"exec1", "second", "zrem"} => r.nr < tries'[r.by]
               /\ pc'[r.by] \in {"exec2", "send"} => r.nr < tries'[r.by] - 1
    <3>1. r.by \in Workers /\ r.nr \in Nat
      BY DEF Spaced, WInv, TypeOK
    <3>2. CASE r.by # w
      BY <1>0, <3>1, <3>2 DEF Spaced
    <3>3. CASE r.by = w
      <4>1. pc'[w] = label
        BY DEF WInv, TypeOK
      <4>2. CASE label = "idle"
        BY <3>1, <3>3, <4>1, <4>2, <1>0 DEF Spaced
      <4>3. CASE label = "zrem"
        BY <3>1, <3>3, <4>1, <4>3, <1>0 DEF Spaced, Executing
      <4>4. CASE label \in {"exec1", "exec2"}
        <5>1. tries'[w] = tries[w] + 1
          BY <4>4 DEF WInv, TypeOK
        <5> QED BY <3>1, <3>3, <4>1, <4>4, <5>1, <1>0 DEF Spaced
      <4> QED BY <4>2, <4>3, <4>4
    <3> QED BY <3>2, <3>3
  <2> QED BY <2>1 DEF Spaced
<1>3. RequestsPaid'
  BY DEF RequestsPaid, Slot, Counted, Live
<1> QED BY <1>1, <1>2, <1>3

(* A granted slot is the one its search needs next.                        *)
LEMMA PExec ==
    ASSUME PInv, NEW w \in Workers, Exec(w) PROVE PInv'
<1> DEFINE after == Kept(zset \cup {TokenOf(w)}, moment[w])
<1> USE DEF PInv
<1>1. WInv'
  BY ExecInv
<1>2. CASE Refused(after)
  <2>1. /\ pc' = [pc EXCEPT ![w] = "zrem"] /\ pc[w] \in Executing
        /\ UNCHANGED <<now, since, tries, grants, requests>>
    BY <1>2 DEF Exec
  <2> QED BY <1>1, <2>1, PQuiet
<1>3. CASE ~Refused(after)
  <2> DEFINE new == [token |-> TokenOf(w), at |-> now]
  <2>1. /\ pc[w] \in Executing
        /\ pc' = [pc EXCEPT ![w] = NextLabel(@)]
        /\ since' = [since EXCEPT ![w] = IF pc[w] = "exec1" THEN now ELSE @]
        /\ grants' = grants \cup {new}
        /\ UNCHANGED <<now, tries, requests>>
    BY <1>3 DEF Exec
  <2>2. tries[w] \in Nat /\ now \in Nat /\ MaxLatency \in Nat /\ since[w] \in Nat
    BY RateLimitAssumption DEF WInv, TypeOK, Time
  <2>3. \A v \in Workers \ {w} : pc'[v] = pc[v] /\ since'[v] = since[v]
    BY <2>1 DEF WInv, TypeOK
  <2>4. \/ pc[w] = "exec1" /\ pc'[w] = "second" /\ since'[w] = now
        \/ pc[w] = "exec2" /\ pc'[w] = "send" /\ since'[w] = since[w]
    BY <2>1 DEF WInv, TypeOK, Executing, NextLabel
  <2>5. new \in grants' /\ new.token.owner = w /\ new.token.nr = tries[w] /\ new.at = now
    BY <2>1 DEF TokenOf
  <2>6. \A v, n, t : Slot(v, n, t) => \E g \in grants' :
            g.token.owner = v /\ g.token.nr = n /\ g.at >= t
    BY <2>1 DEF Slot
  <2>7. Paid'
    <3> SUFFICES ASSUME NEW v \in Workers, pc'[v] \in Second
                 PROVE  /\ since'[v] <= now' /\ now' - since'[v] <= MaxLatency
                        /\ pc'[v] = "second" => Slot(v, tries[v], since[v])'
                        /\ pc'[v] \in {"exec2", "send"} => Slot(v, tries[v] - 1, since[v])'
                        /\ pc'[v] = "send" => Slot(v, tries[v], since[v])'
      BY DEF Paid
    <3>1. CASE v # w
      BY <2>1, <2>3, <2>6, <3>1 DEF Paid, Slot
    <3>2. CASE v = w /\ pc[w] = "exec1"
      <4>1. pc'[w] = "second" /\ since'[w] = now
        BY <2>4, <3>2
      <4>2. now' - since'[w] <= MaxLatency /\ since'[w] <= now' /\ new.at >= since'[w]
        BY <2>1, <2>2, <2>5, <4>1
      <4>3. Slot(w, tries[w], since[w])'
        BY <2>1, <2>5, <4>2 DEF Slot
      <4> QED BY <3>2, <4>1, <4>2, <4>3
    <3>3. CASE v = w /\ pc[w] = "exec2"
      <4>1. pc'[w] = "send" /\ since'[w] = since[w]
        BY <2>4, <3>3
      <4>2. since[w] <= now /\ now - since[w] <= MaxLatency /\ Slot(w, tries[w] - 1, since[w])
        BY <3>3 DEF Paid, Second
      <4>3. Slot(w, tries[w], since[w])'
        BY <2>1, <2>5, <4>1, <4>2 DEF Slot
      <4>4. Slot(w, tries[w] - 1, since[w])'
        BY <2>1, <2>6, <4>1, <4>2 DEF Slot
      <4> QED BY <2>1, <3>3, <4>1, <4>2, <4>3, <4>4
    <3> QED BY <2>1, <3>1, <3>2, <3>3 DEF Executing
  <2>8. Spaced'
    <3>1. ASSUME NEW r \in requests
          PROVE  /\ r.nr <= tries[r.by]
                 /\ pc'[r.by] \in {"exec1", "second", "zrem"} => r.nr < tries[r.by]
                 /\ pc'[r.by] \in {"exec2", "send"} => r.nr < tries[r.by] - 1
      <4>1. r.by \in Workers
        BY DEF WInv, TypeOK
      <4> QED BY <2>3, <2>4, <4>1 DEF Spaced
    <3> QED BY <2>1, <3>1 DEF Spaced
  <2>9. RequestsPaid'
    <3> SUFFICES ASSUME NEW r \in requests
                 PROVE  /\ r.at <= now
                        /\ r.at > Counted => /\ Slot(r.by, r.nr - 1, r.at - MaxLatency)'
                                             /\ Slot(r.by, r.nr, r.at - MaxLatency)'
      BY <2>1 DEF RequestsPaid, Counted, Live
    <3>1. r.at <= now
      BY DEF RequestsPaid
    <3>2. ASSUME r.at > Counted
          PROVE  Slot(r.by, r.nr - 1, r.at - MaxLatency) /\ Slot(r.by, r.nr, r.at - MaxLatency)
      BY <3>2 DEF RequestsPaid
    <3>3. ASSUME NEW n, Slot(r.by, n, r.at - MaxLatency)
          PROVE  Slot(r.by, n, r.at - MaxLatency)'
      BY <2>6, <3>3 DEF Slot
    <3> QED BY <3>1, <3>2, <3>3
  <2> QED BY <1>1, <2>7, <2>8, <2>9
<1> QED BY <1>2, <1>3

LEMMA PSend ==
    ASSUME PInv, NEW w \in Workers, Send(w) PROVE PInv'
<1> DEFINE new == [by |-> w, nr |-> tries[w], at |-> now]
<1> USE DEF PInv
<1>0. /\ pc[w] = "send" /\ pc' = [pc EXCEPT ![w] = "idle"]
      /\ requests' = requests \cup {new}
      /\ UNCHANGED <<now, zset, expires, moment, since, tries, grants>>
  BY DEF Send
<1>1. tries[w] \in 1..MaxTries /\ now \in Nat /\ now \in Time /\ since[w] \in Nat
  BY <1>0, RateLimitAssumption DEF WInv, TypeOK, Time, Numbered
<1>2. WInv'
  <2>1. \A r \in requests' : r.by \in Workers /\ r.at \in Time
    BY <1>0, <1>1 DEF WInv, TypeOK
  <2> QED BY <1>0, <2>1, IdleInv
<1>3. pc'[w] = "idle" /\ \A v \in Workers \ {w} : pc'[v] = pc[v]
  BY <1>0 DEF WInv, TypeOK
<1>4. Paid'
  BY <1>0, <1>3 DEF Paid, Slot, Second
<1>5. Spaced'
  <2>1. ASSUME NEW r \in requests'
        PROVE  /\ r.nr \in 1..MaxTries
               /\ r.nr <= tries[r.by]
               /\ pc'[r.by] \in {"exec1", "second", "zrem"} => r.nr < tries[r.by]
               /\ pc'[r.by] \in {"exec2", "send"} => r.nr < tries[r.by] - 1
    <3>1. CASE r = new
      BY <1>1, <1>3, <3>1
    <3>2. CASE r \in requests
      <4>1. r.by \in Workers
        BY <3>2 DEF WInv, TypeOK
      <4> QED BY <1>3, <3>2, <4>1 DEF Spaced
    <3> QED BY <1>0, <3>1, <3>2
  <2>2. \A r \in requests : r.by = w => r.nr \in Nat /\ r.nr < tries[w] - 1
    BY <1>0 DEF Spaced
  <2>3. ASSUME NEW r \in requests', NEW q \in requests', r.by = q.by, r # q
        PROVE  r.nr - q.nr \notin {-1, 0, 1}
    <3>1. CASE r \in requests /\ q \in requests
      BY <2>3, <3>1 DEF Spaced
    <3>2. CASE r \in requests /\ q = new
      BY <1>1, <2>2, <2>3, <3>2
    <3>3. CASE r = new /\ q \in requests
      BY <1>1, <2>2, <2>3, <3>3
    <3> QED BY <1>0, <2>3, <3>1, <3>2, <3>3
  <2> QED BY <1>0, <2>1, <2>3 DEF Spaced
<1>6. RequestsPaid'
  <2> SUFFICES ASSUME NEW r \in requests'
               PROVE  /\ r.at <= now
                      /\ r.at > Counted => /\ Slot(r.by, r.nr - 1, r.at - MaxLatency)
                                           /\ Slot(r.by, r.nr, r.at - MaxLatency)
    BY <1>0 DEF RequestsPaid, Counted, Live, Slot
  <2>1. CASE r \in requests
    BY <2>1 DEF RequestsPaid
  <2>2. CASE r = new
    <3>1. /\ now - since[w] <= MaxLatency
          /\ Slot(w, tries[w] - 1, since[w]) /\ Slot(w, tries[w], since[w])
      BY <1>0 DEF Paid, Second
    <3>2. \A n : Slot(w, n, since[w]) => Slot(w, n, now - MaxLatency)
      BY <1>1, <3>1, RateLimitAssumption DEF Slot, WInv, TypeOK, Time
    <3> QED BY <1>1, <2>2, <3>1, <3>2
  <2> QED BY <1>0, <2>1, <2>2
<1> QED BY <1>2, <1>4, <1>5, <1>6

LEMMA PNext ==
    ASSUME PInv, [Next]_vars PROVE PInv'
<1>0. WInv'
  BY WNext DEF PInv
<1>1. ASSUME NEW w \in Workers, ReadClock(w) \/ Zrem(w) \/ WorkerLost(w) PROVE PInv'
  BY <1>0, <1>1, PQuiet DEF ReadClock, Zrem, WorkerLost
<1>2. CASE CurrentUsage \/ UNCHANGED vars
  <2>1. UNCHANGED <<now, pc, since, tries, grants, requests>>
    BY <1>2 DEF CurrentUsage, vars, search
  <2>2. Paid' /\ Spaced' /\ RequestsPaid'
    BY <2>1 DEF PInv, Paid, Spaced, RequestsPaid, Slot, Counted, Live
  <2> QED BY <1>0, <2>2 DEF PInv
<1> QED BY <1>1, <1>2, PTick, PExec, PSend DEF Next

LEMMA PInit ==
    ASSUME Init PROVE PInv
<1>1. Paid /\ Spaced /\ RequestsPaid
  BY DEF Init, Paid, Spaced, RequestsPaid, Second
<1> QED BY <1>1, WInit DEF PInv

LEMMA PIsInvariant == Spec => []PInv
<1> QED BY PInit, PNext, PTL DEF Spec

(* Counting: the first and the second slots of the searches that went out  *)
(* are as many as they, are different, and all count.                      *)
LEMMA PaidTwice ==
    ASSUME PInv PROVE RequestsBounded
<1> USE RateLimitAssumption DEF PInv
<1> DEFINE R  == RequestsSince(now - (Window - MaxDelay - MaxLatency))
           G  == GrantedSince(Live)
           Of(g, r, k) == g.token.owner = r.by /\ g.token.nr = r.nr - k
           G1 == {g \in G : \E r \in R : Of(g, r, 1)}
           G2 == {g \in G : \E r \in R : Of(g, r, 0)}
<1>1. ASSUME NEW r \in R
      PROVE  /\ r \in requests /\ r.nr \in Nat
             /\ \E g \in G : Of(g, r, 1)
             /\ \E g \in G : Of(g, r, 0)
  <2>1. r \in requests /\ r.nr \in Nat /\ r.at \in Nat /\ now \in Nat
    BY <1>1 DEF RequestsSince, WInv, TypeOK, Time, Spaced
  <2>2. r.at > now - (Window - MaxDelay - MaxLatency)
    BY <1>1 DEF RequestsSince
  <2>3. r.at > Counted
    BY <2>1, <2>2 DEF Counted, Live
  <2>4. Slot(r.by, r.nr - 1, r.at - MaxLatency) /\ Slot(r.by, r.nr, r.at - MaxLatency)
    BY <2>1, <2>3 DEF RequestsPaid
  <2>5. \A g \in grants : g.at >= r.at - MaxLatency => g \in G
    BY <2>1, <2>3 DEF Counted, Live, GrantedSince, WInv, TypeOK, Time
  <2>6. r.nr - 0 = r.nr
    BY <2>1
  <2> QED BY <2>1, <2>4, <2>5, <2>6 DEF Slot
<1>2. \A r, q \in R : r.by = q.by /\ r # q => r.nr - q.nr \notin {-1, 0, 1}
  BY <1>1 DEF Spaced
<1>3. IsFiniteSet(G) /\ Cardinality(G) \in Nat /\ Cardinality(G) <= Limit
  BY FewerGrants
<1>4. IsFiniteSet(G1) /\ IsFiniteSet(G2) /\ IsFiniteSet(G1 \cup G2)
  BY <1>3, FS_Subset
<1>5. Cardinality(G1 \cup G2) <= Cardinality(G)
  BY <1>3, FS_Subset
<1>6. G1 \cap G2 = {}
  <2> SUFFICES ASSUME NEW g \in G, NEW r \in R, Of(g, r, 1), NEW q \in R, Of(g, q, 0)
               PROVE  FALSE
    OBVIOUS
  <2>1. r.by = q.by /\ r.nr - q.nr = 1
    BY <1>1
  <2>2. r # q
    BY <1>1, <2>1
  <2> QED BY <1>2, <2>1, <2>2
<1>7. Cardinality(G1 \cup G2) = Cardinality(G1) + Cardinality(G2)
  <2>1. Cardinality(G1 \cup G2) = Cardinality(G1) + Cardinality(G2) - Cardinality(G1 \cap G2)
    BY <1>4, FS_Union
  <2>2. Cardinality(G1) \in Nat /\ Cardinality(G2) \in Nat /\ Cardinality(G1 \cap G2) = 0
    BY <1>4, <1>6, FS_CardinalityType, FS_EmptySet
  <2> QED BY <2>1, <2>2
<1>8. IsFiniteSet(R) /\ Cardinality(R) <= Cardinality(G1)
  <2> DEFINE f == [r \in R |-> CHOOSE g \in G : Of(g, r, 1)]
  <2>1. \A r \in R : f[r] \in G /\ Of(f[r], r, 1)
    BY <1>1
  <2>2. f \in [R -> G1]
    BY <2>1
  <2>3. ASSUME NEW r \in R, NEW q \in R, f[r] = f[q] PROVE r = q
    <3>1. r.by = q.by /\ r.nr - 1 = q.nr - 1
      BY <2>1, <2>3
    <3>2. r.nr - q.nr = 0
      BY <1>1, <3>1
    <3> QED BY <1>2, <3>1, <3>2
  <2>4. f \in Injection(R, G1)
    BY <2>2, <2>3 DEF Injection, IsInjective
  <2> QED BY <1>4, <2>4, FS_Injection
<1>9. Cardinality(R) <= Cardinality(G2)
  <2> DEFINE f == [r \in R |-> CHOOSE g \in G : Of(g, r, 0)]
  <2>1. \A r \in R : f[r] \in G /\ Of(f[r], r, 0)
    BY <1>1
  <2>2. f \in [R -> G2]
    BY <2>1
  <2>3. ASSUME NEW r \in R, NEW q \in R, f[r] = f[q] PROVE r = q
    <3>1. r.by = q.by /\ r.nr - 0 = q.nr - 0
      BY <2>1, <2>3
    <3>2. r.nr - q.nr = 0
      BY <1>1, <3>1
    <3> QED BY <1>2, <3>1, <3>2
  <2>4. f \in Injection(R, G2)
    BY <2>2, <2>3 DEF Injection, IsInjective
  <2> QED BY <1>4, <2>4, FS_Injection
<1>10. /\ Cardinality(R) \in Nat /\ Cardinality(G1) \in Nat /\ Cardinality(G2) \in Nat
  BY <1>4, <1>8, FS_CardinalityType
<1>11. 2 * Cardinality(R) <= Limit
  <2> HIDE DEF R, G, G1, G2
  <2> QED BY <1>3, <1>5, <1>7, <1>8, <1>9, <1>10
<1> QED BY <1>11 DEF RequestsBounded

(* Nor do more than Limit requests go out, two for a search, in a window   *)
(* shortened by both latenesses (client.py:116-128).                       *)
THEOREM RequestsAreBounded == Spec => []RequestsBounded
<1>1. PInv => RequestsBounded
  BY PaidTwice
<1> QED BY <1>1, PIsInvariant, PTL

=============================================================================

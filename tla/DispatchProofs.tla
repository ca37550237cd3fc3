--------------------------- MODULE DispatchProofs ---------------------------
(* Proofs about Dispatch, for every set of sections, every LIMIT and every *)
(* interval: the waiting list stays one queue, and nobody jumps it.        *)
EXTENDS Dispatch, Integers, FiniteSetTheorems, TLAPS

(* Every deadline a poll sets is one of those the configuration allows.    *)
LEMMA WaitsAreNat == Waits \subseteq Nat /\ 0 \in Waits /\ \A k \in Waits : k > 0 => k - 1 \in Waits
<1>1. ASSUME NEW k \in Waits
      PROVE  k \in Nat /\ (k > 0 => k - 1 \in Waits)
  <2>1. PICK longest \in {ClosedWait, OpenWait, CapWait} : k \in 0..longest
    BY DEF Waits
  <2>2. longest \in Nat
    BY DispatchAssumption
  <2>3. k > 0 => k - 1 \in 0..longest
    BY <2>1, <2>2
  <2> QED BY <2>1, <2>2, <2>3 DEF Waits
<1>2. 0 \in 0..ClosedWait
  BY DispatchAssumption
<1>3. 0 \in Waits
  BY <1>2 DEF Waits
<1> QED BY <1>1, <1>3

LEMMA DelaysAreWaits ==
    /\ ClosedWait \in Waits /\ OpenWait \in Waits
    /\ \A f : Delay(f) \in Waits
<1>1. /\ ClosedWait \in 0..ClosedWait
      /\ OpenWait \in 0..OpenWait
      /\ CapWait \in 0..CapWait
  BY DispatchAssumption
<1>2. ASSUME NEW f PROVE Delay(f) \in 0..CapWait
  <2> DEFINE doubled == ClosedWait * 2 ^ f
  <2>1. Delay(f) = IF doubled \in 1..CapWait THEN doubled ELSE CapWait
    BY DEF Delay
  <2> HIDE DEF doubled
  <2> QED BY <2>1, DispatchAssumption
<1> QED BY <1>1, <1>2 DEF Waits

LEMMA PublishedType ==
    ASSUME NEW q \in [Sections -> 0..MaxQueued], NEW s \in Sections
    PROVE  Published(q, s) \in [Sections -> 0..MaxQueued]
BY DispatchAssumption DEF Published

-----------------------------------------------------------------------------
(* The order of the due sections.                                          *)

(* A second queue behind a first.                                          *)
LEMMA OrdersAppend ==
    ASSUME NEW S, NEW T, S \cap T = {}, NEW before, NEW later, NEW both,
           Orders(before, S), Orders(later, T),
           \A s \in S : both[s] = before[s],
           \A t \in T : both[t] = S \cup later[t]
    PROVE  Orders(both, S \cup T)
<1>1. \A s \in S \cup T : both[s] \subseteq (S \cup T) \ {s}
  BY DEF Orders
<1>2. ASSUME NEW s \in S \cup T, NEW t \in S \cup T, s # t
      PROVE  s \in both[t] <=> t \notin both[s]
  <2>1. CASE s \in S /\ t \in S
    BY <1>2, <2>1 DEF Orders
  <2>2. CASE s \in T /\ t \in T
    BY <1>2, <2>2 DEF Orders
  <2>3. CASE (s \in S /\ t \in T) \/ (s \in T /\ t \in S)
    BY <2>3 DEF Orders
  <2> QED BY <2>1, <2>2, <2>3
<1>3. ASSUME NEW s \in S \cup T, NEW t \in S \cup T, t \in both[s]
      PROVE  both[t] \subseteq both[s]
  <2>1. CASE s \in S /\ t \in S
    BY <1>3, <2>1 DEF Orders
  <2>2. CASE s \in T /\ t \in T
    BY <1>3, <2>2 DEF Orders
  <2>3. CASE s \in T /\ t \in S
    BY <2>3 DEF Orders
  <2>4. CASE s \in S /\ t \in T
    BY <1>3, <2>4 DEF Orders
  <2> QED BY <2>1, <2>2, <2>3, <2>4
<1> QED BY <1>1, <1>2, <1>3 DEF Orders

(* One member leaves the queue, wherever it stood.                         *)
LEMMA OrdersRemove ==
    ASSUME NEW S, NEW x, NEW before, NEW after, Orders(before, S),
           \A s \in S \ {x} : after[s] = before[s] \ {x}
    PROVE  Orders(after, S \ {x})
<1>1. \A s \in S \ {x} : after[s] \subseteq (S \ {x}) \ {s}
  BY DEF Orders
<1>2. ASSUME NEW s \in S \ {x}, NEW t \in S \ {x}, s # t
      PROVE  s \in after[t] <=> t \notin after[s]
  BY <1>2 DEF Orders
<1>3. ASSUME NEW s \in S \ {x}, NEW t \in S \ {x}, t \in after[s]
      PROVE  after[t] \subseteq after[s]
  BY <1>3 DEF Orders
<1> QED BY <1>1, <1>2, <1>3 DEF Orders

-----------------------------------------------------------------------------
LEMMA TickType ==
    ASSUME TypeOK, Tick
    PROVE  TypeOK'
<1> DEFINE coming == {s \in Sections : wait[s] = 1}
<1>1. /\ wait' = [s \in Sections |-> IF wait[s] > 0 THEN wait[s] - 1 ELSE 0]
      /\ due' = due \cup coming
      /\ UNCHANGED <<creating, fails, watched, targets, pollq, faults>>
  BY DEF Tick
<1>2. PICK before \in [coming -> SUBSET coming] :
          /\ Orders(before, coming)
          /\ ahead' = [s \in Sections |-> IF s \in coming THEN Stamped \cup before[s]
                                                          ELSE ahead[s]]
  BY DEF Tick
<1>3. Stamped \cap coming = {} /\ Stamped \subseteq Sections
  BY DEF TypeOK, Stamped
<1>4. wait' \in [Sections -> Waits]
  BY <1>1, WaitsAreNat DEF TypeOK
<1>5. /\ due' \subseteq {s \in Sections : wait'[s] = 0}
      /\ creating' \subseteq {s \in Sections : wait'[s] = 0} \ due'
  BY <1>1 DEF TypeOK
<1>6. ahead' \in [Sections -> SUBSET Sections]
  BY <1>2, <1>3 DEF TypeOK
<1>7. Orders(ahead', Stamped \cup coming)
  <2>1. \A s \in Stamped : ahead'[s] = ahead[s]
    BY <1>2, <1>3
  <2>2. \A t \in coming : ahead'[t] = Stamped \cup before[t]
    BY <1>2
  <2> HIDE DEF coming
  <2> QED BY <1>2, <1>3, <2>1, <2>2, OrdersAppend DEF TypeOK
<1>8. Known \subseteq Known'
  <2> SUFFICES ASSUME NEW s \in Known PROVE s \in Known'
    OBVIOUS
  <2>1. CASE s \in due
    BY <1>1, <2>1 DEF Known
  <2>2. CASE s \in Sections /\ wait[s] > 0
    <3>1. wait[s] \in Nat
      BY <2>2, WaitsAreNat DEF TypeOK
    <3>2. wait[s] = 1 \/ wait'[s] > 0
      BY <1>1, <2>2, <3>1
    <3> QED BY <1>1, <2>2, <3>2 DEF Known
  <2> QED BY <2>1, <2>2 DEF Known
<1> HIDE DEF coming
<1>9. Stamped' = Stamped \cup coming
  BY <1>1 DEF Stamped
<1>10. Orders(ahead, Stamped)'
  BY <1>7, <1>9 DEF Orders
<1> QED BY <1>1, <1>4, <1>5, <1>6, <1>8, <1>10 DEF TypeOK

(* A request takes its place in the queue before its row can be seen.      *)
LEMMA StampType ==
    ASSUME TypeOK, NEW s \in Sections, Stamp(s)
    PROVE  TypeOK'
<1> USE DEF Stamp
<1>1. s \notin Stamped /\ wait[s] = 0
  <2>1. wait[s] \in Nat /\ ~(wait[s] > 0) /\ s \notin Stamped
    BY WaitsAreNat DEF TypeOK, Known, Stamped
  <2> QED BY <2>1
<1>2. Stamped' = Stamped \cup {s} /\ Known' = Known
  BY DEF Stamped, Known
<1>3. Orders(ahead', Stamped \cup {s})
  <2> DEFINE alone == [t \in {s} |-> {}]
  <2>1. Orders(alone, {s})
    BY DEF Orders
  <2>2. \A t \in Stamped : ahead'[t] = ahead[t]
    BY <1>1 DEF TypeOK
  <2>3. \A t \in {s} : ahead'[t] = Stamped \cup alone[t]
    BY DEF TypeOK
  <2>4. Stamped \cap {s} = {} /\ Orders(ahead, Stamped)
    BY <1>1 DEF TypeOK
  <2> HIDE DEF alone, Stamp
  <2> QED BY <2>1, <2>2, <2>3, <2>4, OrdersAppend
<1>4. Orders(ahead, Stamped)'
  BY <1>2, <1>3 DEF Orders
<1>5. ahead' \in [Sections -> SUBSET Sections]
  BY DEF TypeOK, Stamped
<1>6. creating' \subseteq {t \in Sections : wait'[t] = 0} \ due'
  BY <1>1 DEF TypeOK, Stamped
<1> QED BY <1>2, <1>4, <1>5, <1>6 DEF TypeOK

LEMMA CommitWatchType ==
    ASSUME TypeOK, NEW s \in Sections, CommitWatch(s)
    PROVE  TypeOK'
<1> USE DEF CommitWatch
<1>1. Stamped' = Stamped /\ Known' = Known \cup {s}
  BY DEF Stamped, Known
<1>2. Orders(ahead, Stamped)'
  BY <1>1 DEF TypeOK, Orders
<1>3. /\ due' \subseteq {t \in Sections : wait'[t] = 0}
      /\ creating' \subseteq {t \in Sections : wait'[t] = 0} \ due'
  BY DEF TypeOK
<1> QED BY <1>1, <1>2, <1>3 DEF TypeOK

LEMMA RequestLostType ==
    ASSUME TypeOK, NEW s \in Sections, RequestLost(s)
    PROVE  TypeOK'
<1> USE DEF RequestLost
<1>1. Stamped' = Stamped \ {s} /\ Known' = Known
  BY DEF Stamped, Known, TypeOK
<1>2. Orders(ahead', Stamped \ {s})
  <2>1. \A t \in Stamped \ {s} : ahead'[t] = ahead[t] \ {s}
    BY DEF TypeOK, Stamped
  <2> QED BY <2>1, OrdersRemove DEF TypeOK
<1>3. Orders(ahead, Stamped)'
  BY <1>1, <1>2 DEF Orders
<1>4. ahead' \in [Sections -> SUBSET Sections]
  BY DEF TypeOK
<1>5. creating' \subseteq {t \in Sections : wait'[t] = 0} \ due'
  BY DEF TypeOK
<1> QED BY <1>1, <1>3, <1>4, <1>5 DEF TypeOK

LEMMA WatchType ==
    ASSUME TypeOK, NEW s \in Sections, Watch(s) \/ Unwatch(s)
    PROVE  TypeOK'
<1>1. UNCHANGED <<deadlines, fails, targets, pollq, faults>> /\ watched' \subseteq Known
  BY DEF Watch, Unwatch, TypeOK
<1>2. Known' = Known /\ Stamped' = Stamped
  BY <1>1 DEF deadlines, Known, Stamped
<1> QED BY <1>1, <1>2 DEF deadlines, TypeOK, Orders

LEMMA RescheduledType ==
    ASSUME TypeOK, NEW s \in Sections, NEW delay \in Waits, delay # 0,
           Rescheduled(s, delay), fails' \in [Sections -> 0..MaxExponent]
    PROVE  TypeOK'
<1> USE DEF Rescheduled
<1>1. wait' \in [Sections -> Waits] /\ pollq' \in [Sections -> 0..MaxQueued]
  BY DispatchAssumption DEF TypeOK
<1>10. \A t \in Sections : pollq'[t] > 0 => pollq[t] > 0
  BY DEF TypeOK
<1>2. delay > 0
  BY WaitsAreNat
<1>3. /\ due' \subseteq {t \in Sections : wait'[t] = 0}
      /\ s \notin creating =>
             creating' \subseteq {t \in Sections : wait'[t] = 0} \ due'
  BY DEF TypeOK
<1>4. ahead' \in [Sections -> SUBSET Sections]
  BY DEF TypeOK
<1>5. s \notin creating
  <2>1. s \in Known
    BY DispatchAssumption DEF TypeOK
  <2> QED BY <2>1, WaitsAreNat DEF TypeOK, Known
<1>6. Stamped' = Stamped \ {s}
  BY <1>5 DEF Stamped
<1>7. Orders(ahead', Stamped \ {s})
  <2>1. \A t \in Stamped \ {s} : ahead'[t] = ahead[t] \ {s}
    BY DEF TypeOK, Stamped
  <2> QED BY <2>1, OrdersRemove DEF TypeOK
<1>8. Orders(ahead, Stamped)'
  BY <1>6, <1>7 DEF Orders
<1>9. Known \subseteq Known'
  BY <1>2 DEF Known, TypeOK
<1> QED BY <1>1, <1>3, <1>4, <1>5, <1>8, <1>9, <1>10 DEF TypeOK

LEMMA OutcomeType ==
    ASSUME TypeOK, NEW s \in Sections, Observed(s) \/ Unparseable(s)
    PROVE  TypeOK'
<1>0. \A k \in 0..MaxExponent : k < MaxExponent => k + 1 \in 0..MaxExponent
  BY DispatchAssumption
<1>1. fails' \in [Sections -> 0..MaxExponent]
  BY <1>0, DispatchAssumption DEF TypeOK, Observed, Unparseable
<1>2. PICK delay \in {ClosedWait, OpenWait, Delay(fails'[s])} : Rescheduled(s, delay)
  BY DEF Observed, Unparseable
<1>3. delay \in Waits /\ delay # 0
  <2>1. Delay(fails'[s]) # 0
    BY DispatchAssumption DEF Delay
  <2> QED BY <1>2, <2>1, DelaysAreWaits, DispatchAssumption
<1> QED BY <1>1, <1>2, <1>3, RescheduledType

LEMMA DispatchType ==
    ASSUME TypeOK, Dispatch
    PROVE  TypeOK'
<1> USE DEF Dispatch, DispatchSelect, DispatchPublish, DispatchLost
<1>1. UNCHANGED <<wait, due, creating, ahead, fails, watched>>
  BY DEF deadlines
<1>2. Known' = Known /\ Stamped' = Stamped
  BY <1>1 DEF Known, Stamped
<1>3. targets' \subseteq Known
  BY DEF TypeOK
<1>4. pollq' \in [Sections -> 0..MaxQueued]
  BY PublishedType DEF TypeOK
<1>5. \A t \in Sections : pollq'[t] > 0 => pollq[t] > 0 \/ t \in targets
  BY DEF Published, TypeOK
<1>6. faults' \in 0..MaxFaults
  BY DispatchAssumption DEF TypeOK
<1> QED BY <1>1, <1>2, <1>3, <1>4, <1>5, <1>6 DEF TypeOK, Orders

LEMMA TypeStep == TypeOK /\ [Next]_vars => TypeOK'
<1> SUFFICES ASSUME TypeOK, [Next]_vars PROVE TypeOK'
  OBVIOUS
<1>1. CASE UNCHANGED vars
  BY <1>1 DEF vars, deadlines, TypeOK, Known, Stamped, Orders
<1>2. ASSUME NEW s \in Sections, RolledBack(s) PROVE TypeOK'
  <2>1. pollq' \in [Sections -> 0..MaxQueued]
    BY <1>2, PublishedType, DispatchAssumption DEF RolledBack, TypeOK
  <2>2. \A t \in Sections : pollq'[t] > 0 => pollq[t] > 0
    BY <1>2 DEF RolledBack, Published, TypeOK
  <2> QED BY <1>2, <2>1, <2>2 DEF RolledBack, deadlines, TypeOK, Known, Stamped, Orders
<1> QED BY <1>1, <1>2, TickType, StampType, CommitWatchType, RequestLostType, WatchType,
           OutcomeType, DispatchType DEF Next

(* The due sections stay one queue: no two of them ever became due in both *)
(* orders, whatever is polled twice, abandoned, or due at the same time.   *)
(* Nothing is dispatched or watched that is not a row.                     *)
THEOREM DispatchTypes == Spec => []TypeOK
<1>1. Init => TypeOK
  <2> SUFFICES ASSUME Init PROVE TypeOK
    OBVIOUS
  <2>1. wait \in [Sections -> Waits] /\ pollq \in [Sections -> 0..MaxQueued]
    BY WaitsAreNat, DispatchAssumption DEF Init
  <2> QED BY <2>1, DispatchAssumption DEF Init, TypeOK, Known, Stamped, Orders
<1> QED BY <1>1, TypeStep, PTL DEF Spec

-----------------------------------------------------------------------------
(* Nobody jumps the queue: what waits only ever moves towards its front,   *)
(* but for the rows whose requests set their deadlines before and commit   *)
(* only now.  The order itself, uncommitted rows included, only loses.     *)
THEOREM QueueIsFair == Spec => NobodyOvertakes
<1> DEFINE Keeps == \A s \in due \cap due' : Before(s)' \ Before(s) \subseteq creating \cap ahead[s]
<1>1. TypeOK /\ [Next]_vars => Keeps
  <2> SUFFICES ASSUME TypeOK, [Next]_vars PROVE Keeps
    OBVIOUS
  <2>0. ASSUME \A s \in due \cap due' : ahead'[s] \subseteq ahead[s]
        PROVE  Keeps
    BY <2>0 DEF Before, TypeOK, Orders, Stamped
  <2>1. CASE Tick
    BY <2>0, <2>1 DEF Tick, TypeOK
  <2>2. ASSUME NEW s \in Sections, Stamp(s) PROVE Keeps
    BY <2>0, <2>2 DEF Stamp, TypeOK, Known
  <2>3. ASSUME NEW s \in Sections, RequestLost(s) PROVE Keeps
    BY <2>0, <2>3 DEF RequestLost, TypeOK
  <2>4. ASSUME NEW s \in Sections, NEW delay, Rescheduled(s, delay) PROVE Keeps
    BY <2>0, <2>4 DEF Rescheduled, TypeOK
  <2>5. ASSUME NEW s \in Sections, Observed(s) \/ Unparseable(s) PROVE Keeps
    BY <2>4, <2>5 DEF Observed, Unparseable
  <2>6. CASE UNCHANGED ahead
    BY <2>0, <2>6
  <2>7. ASSUME NEW s \in Sections,
               CommitWatch(s) \/ Watch(s) \/ Unwatch(s) \/ RolledBack(s)
        PROVE  Keeps
    BY <2>6, <2>7 DEF CommitWatch, Watch, Unwatch, RolledBack, deadlines
  <2>8. CASE Dispatch \/ UNCHANGED vars
    BY <2>6, <2>8 DEF Dispatch, DispatchSelect, DispatchPublish, DispatchLost, vars, deadlines
  <2> HIDE DEF Keeps
  <2> QED BY <2>1, <2>2, <2>3, <2>5, <2>7, <2>8 DEF Next
<1>2. TypeOK /\ [Next]_vars => [Keeps]_vars
  BY <1>1
<1> QED BY <1>2, DispatchTypes, PTL DEF NobodyOvertakes, Spec

-----------------------------------------------------------------------------
(* The rank of a section tells it from the others, so LIMIT means what it  *)
(* says: the first of the queue, and no more than LIMIT of them.           *)
LEMMA RanksDiffer ==
    ASSUME TypeOK, NEW s \in due, NEW t \in due, s \in ahead[t]
    PROVE  /\ Cardinality(Before(s)) \in Nat /\ Cardinality(Before(t)) \in Nat
           /\ Cardinality(Before(s)) < Cardinality(Before(t))
<1>1. IsFiniteSet(Before(s)) /\ IsFiniteSet(Before(t))
  <2>1. Before(s) \in SUBSET Sections /\ Before(t) \in SUBSET Sections
    BY DEF TypeOK, Before
  <2> QED BY <2>1, FS_Subset, DispatchAssumption
<1>2. Before(s) \in SUBSET Before(t) /\ Before(s) # Before(t)
  BY DEF TypeOK, Orders, Before, Stamped
<1>3. Cardinality(Before(s)) <= Cardinality(Before(t))
      /\ Cardinality(Before(s)) # Cardinality(Before(t))
  BY <1>1, <1>2, FS_Subset
<1>4. Cardinality(Before(s)) \in Nat /\ Cardinality(Before(t)) \in Nat
  BY <1>1, FS_CardinalityType
<1> QED BY <1>3, <1>4

LEMMA CandidatesAreFirst ==
    ASSUME TypeOK
    PROVE  /\ \A t \in Candidates : Before(t) \subseteq Candidates
           /\ IsFiniteSet(Candidates) /\ Cardinality(Candidates) <= Limit
<1>1. ASSUME NEW t \in Candidates, NEW s \in Before(t) PROVE s \in Candidates
  <2>1. s \in due /\ t \in due /\ s \in ahead[t]
    BY <1>1 DEF Before, Candidates
  <2>2. Cardinality(Before(s)) \in Nat /\ Cardinality(Before(t)) \in Nat
        /\ Cardinality(Before(s)) < Cardinality(Before(t))
    BY <1>1, <2>1, RanksDiffer
  <2>3. Cardinality(Before(t)) < Limit /\ Limit \in Nat
    BY <1>1, DispatchAssumption DEF Candidates
  <2>4. Cardinality(Before(s)) < Limit
    BY <2>2, <2>3
  <2> QED BY <2>1, <2>4 DEF Candidates
<1> DEFINE rank == [s \in Candidates |-> Cardinality(Before(s))]
<1>2. rank \in [Candidates -> 0..(Limit - 1)]
  <2> SUFFICES ASSUME NEW s \in Candidates
               PROVE  Cardinality(Before(s)) \in 0..(Limit - 1)
    OBVIOUS
  <2>1. Before(s) \in SUBSET Sections
    BY DEF TypeOK, Candidates, Before
  <2>2. Cardinality(Before(s)) \in Nat
    BY <2>1, FS_Subset, FS_CardinalityType, DispatchAssumption
  <2>3. Cardinality(Before(s)) < Limit /\ Limit \in Nat
    BY DispatchAssumption DEF Candidates
  <2> QED BY <2>2, <2>3
<1>3. ASSUME NEW s \in Candidates, NEW t \in Candidates, rank[s] = rank[t]
      PROVE  s = t
  <2>1. s \in due /\ t \in due /\ Cardinality(Before(s)) = Cardinality(Before(t))
    BY <1>3 DEF Candidates
  <2>2. ~(s \in ahead[t]) /\ ~(t \in ahead[s])
    <3>1. ASSUME s \in ahead[t] PROVE FALSE
      BY <2>1, <3>1, RanksDiffer
    <3>2. ASSUME t \in ahead[s] PROVE FALSE
      BY <2>1, <3>2, RanksDiffer
    <3> QED BY <3>1, <3>2
  <2> QED BY <2>1, <2>2 DEF TypeOK, Orders, Stamped
<1>4. rank \in Injection(Candidates, 0..(Limit - 1))
  BY <1>2, <1>3 DEF Injection, IsInjective
<1>5. IsFiniteSet(0..(Limit - 1)) /\ Cardinality(0..(Limit - 1)) = Limit
  BY FS_Interval, DispatchAssumption
<1>6. IsFiniteSet(Candidates) /\ Cardinality(Candidates) <= Limit
  BY <1>4, <1>5, FS_Injection
<1> QED BY <1>1, <1>6

(* One dispatch publishes at most LIMIT polls, and whatever is older than  *)
(* a candidate is a candidate itself.                                      *)
BatchIsBounded ==
    /\ IsFiniteSet(targets) /\ Cardinality(targets) <= Limit
    /\ \A t \in Candidates : Before(t) \subseteq Candidates

THEOREM BatchesAreBounded == Spec => []BatchIsBounded
<1> DEFINE Small(S) == IsFiniteSet(S) /\ Cardinality(S) <= Limit
<1>1. Init => Small(targets)
  BY FS_EmptySet, DispatchAssumption DEF Init
<1>2. ASSUME NEW S, NEW T \in SUBSET S, Small(S) PROVE Small(T)
  <2>1. IsFiniteSet(T) /\ Cardinality(T) <= Cardinality(S)
    BY <1>2, FS_Subset
  <2>2. Cardinality(S) \in Nat /\ Cardinality(T) \in Nat /\ Limit \in Nat
    BY <1>2, <2>1, FS_CardinalityType, DispatchAssumption
  <2> QED BY <1>2, <2>1, <2>2
<1>3. TypeOK /\ Small(targets) /\ [Next]_vars => Small(targets')
  <2> SUFFICES ASSUME TypeOK, Small(targets), [Next]_vars PROVE Small(targets')
    OBVIOUS
  <2>1. targets' \subseteq targets \/ targets' \subseteq Candidates
    BY DEF Next, Tick, Dispatch, DispatchSelect, DispatchPublish, DispatchLost, Stamp,
           CommitWatch, RequestLost, Watch, Unwatch, Observed, Unparseable, Rescheduled, RolledBack, vars
  <2>2. Small(Candidates)
    BY CandidatesAreFirst
  <2> HIDE DEF Small
  <2> QED BY <1>2, <2>1, <2>2
<1>4. TypeOK => \A t \in Candidates : Before(t) \subseteq Candidates
  BY CandidatesAreFirst
<1>5. Small(targets)' <=> Small(targets')
  OBVIOUS
<1>6. (\A t \in Candidates : Before(t) \subseteq Candidates) /\ Small(targets) => BatchIsBounded
  BY DEF BatchIsBounded
<1> HIDE DEF Small
<1> QED BY <1>1, <1>3, <1>4, <1>5, <1>6, DispatchTypes, PTL DEF Spec

=============================================================================

-------------------------- MODULE WatchesProofs --------------------------
(* Proofs about Watches, for every set of sections, destinations and       *)
(* requests and every limit.                                               *)
EXTENDS Watches, FiniteSetTheorems, TLAPS

(* The requests that have passed the check of the limit and may still add  *)
(* a watch of d.                                                           *)
Past == {"section", "addsection", "insert", "commit", "duplicate", "reactivate"}

Racing(d) == {r \in Requests : pc[r] \in Past /\ for[r][2] = d}

(* The limit counts them: what is active and what may still become so.     *)
Room ==
    \A d \in Destinations :
        Cardinality(ActiveOf(d)) + Cardinality(Racing(d)) < Limit + Cardinality(Requests)

ActiveIsHeld == \A r \in Requests : watches[for[r]] = "active" => held[r]

Inv ==
    /\ TypeOK
    /\ ActiveIsHeld
    /\ AcceptedMeansWatched
    /\ NoOrphanSection
    /\ Room

-----------------------------------------------------------------------------
LEMMA RacingFacts ==
    ASSUME NEW d
    PROVE  /\ IsFiniteSet(Racing(d))
           /\ Cardinality(Racing(d)) \in Nat
           /\ Cardinality(Requests) \in Nat \ {0}
           /\ Cardinality(Racing(d)) <= Cardinality(Requests)
<1>1. Racing(d) \in SUBSET Requests
  BY DEF Racing
<1>2. IsFiniteSet(Racing(d)) /\ Cardinality(Racing(d)) <= Cardinality(Requests)
  BY <1>1, FS_Subset, WatchesAssumption
<1>3. Cardinality(Requests) \in Nat \ {0}
  BY FS_CardinalityType, FS_EmptySet, WatchesAssumption
<1> QED BY <1>2, <1>3, FS_CardinalityType

(* A destination has at most one watch per section, and those are finite.  *)
LEMMA ActiveFacts ==
    ASSUME TypeOK, NEW d \in Destinations
    PROVE  IsFiniteSet(ActiveOf(d)) /\ Cardinality(ActiveOf(d)) \in Nat
<1> DEFINE f == [x \in ActiveOf(d) |-> x[1]]
<1>1. f \in Injection(ActiveOf(d), Sections)
  <2>1. f \in [ActiveOf(d) -> Sections]
    BY DEF ActiveOf, Active, Watches
  <2>2. ASSUME NEW x \in ActiveOf(d), NEW y \in ActiveOf(d), f[x] = f[y] PROVE x = y
    BY <2>2 DEF ActiveOf, Active, Watches
  <2> QED BY <2>1, <2>2 DEF Injection, IsInjective
<1>2. IsFiniteSet(ActiveOf(d))
  BY <1>1, FS_Injection, WatchesAssumption
<1> QED BY <1>2, FS_CardinalityType

(* Room is kept where neither set grows.                                   *)
LEMMA RoomFrame ==
    ASSUME Room, TypeOK, TypeOK',
           NEW d \in Destinations,
           ActiveOf(d)' \subseteq ActiveOf(d), Racing(d)' \subseteq Racing(d)
    PROVE  Cardinality(ActiveOf(d)') + Cardinality(Racing(d)')
               < Limit + Cardinality(Requests)
<1>1. Cardinality(ActiveOf(d)') <= Cardinality(ActiveOf(d))
  BY ActiveFacts, FS_Subset
<1>2. Cardinality(Racing(d)') <= Cardinality(Racing(d))
  BY RacingFacts, FS_Subset
<1>3. IsFiniteSet(ActiveOf(d)') /\ IsFiniteSet(Racing(d)')
  BY ActiveFacts, RacingFacts, FS_Subset
<1>4. Cardinality(ActiveOf(d)') \in Nat /\ Cardinality(Racing(d)') \in Nat
  BY <1>3, FS_CardinalityType
<1> QED BY <1>1, <1>2, <1>4, ActiveFacts, RacingFacts, WatchesAssumption DEF Room

(* The same for a step of one request that stores nothing.                 *)
LEMMA QuietStep ==
    ASSUME Inv, TypeOK', NEW r \in Requests, NEW label,
           pc' = [pc EXCEPT ![r] = label],
           label \in Past => pc[r] \in Past,
           UNCHANGED <<sections, watches, for, held>>,
           \A q \in Requests :
               answer'[q] # answer[q] /\ answer'[q] \in {"created", "existing"} => held[q]
    PROVE  Inv'
<1> USE DEF Inv
<1>1. ActiveIsHeld' /\ AcceptedMeansWatched'
  BY DEF ActiveIsHeld, AcceptedMeansWatched
<1>2. NoOrphanSection'
  BY DEF NoOrphanSection
<1>3. Room'
  <2> SUFFICES ASSUME NEW d \in Destinations
               PROVE  Cardinality(ActiveOf(d)') + Cardinality(Racing(d)')
                          < Limit + Cardinality(Requests)
    BY DEF Room
  <2>1. ActiveOf(d)' \subseteq ActiveOf(d) /\ Racing(d)' \subseteq Racing(d)
    BY DEF ActiveOf, Active, Racing, TypeOK
  <2> QED BY <2>1, RoomFrame
<1> QED BY <1>1, <1>2, <1>3

LEMMA BeginInv ==
    ASSUME Inv, NEW r \in Requests, NEW x \in Watches, NEW label \in {"count", "load"},
           Begin(r, x, label)
    PROVE  Inv'
<1> USE DEF Inv, Begin, Goto
<1>1. TypeOK'
  BY DEF TypeOK, Labels, Answers
<1>2. ActiveIsHeld' /\ AcceptedMeansWatched'
  BY DEF TypeOK, ActiveIsHeld, AcceptedMeansWatched
<1>3. NoOrphanSection'
  BY DEF NoOrphanSection
<1>4. Room'
  <2> SUFFICES ASSUME NEW d \in Destinations
               PROVE  Cardinality(ActiveOf(d)') + Cardinality(Racing(d)')
                          < Limit + Cardinality(Requests)
    BY DEF Room
  <2>1. ActiveOf(d)' \subseteq ActiveOf(d) /\ Racing(d)' \subseteq Racing(d)
    BY DEF ActiveOf, Active, Racing, TypeOK, Past
  <2> QED BY <1>1, <2>1, RoomFrame
<1> QED BY <1>1, <1>2, <1>3, <1>4

(* Passing the check: there was room for one, hence for all that race.     *)
LEMMA CountInv ==
    ASSUME Inv, NEW r \in Requests, Count(r)
    PROVE  Inv'
<1> USE DEF Inv, Count, Goto
<1>1. TypeOK'
  BY DEF TypeOK, Labels, Answers, Reply
<1>2. CASE Full(for[r][2])
  BY <1>1, <1>2, QuietStep DEF Reply, Past, TypeOK
<1>3. CASE ~Full(for[r][2])
  <2>1. ActiveIsHeld' /\ AcceptedMeansWatched' /\ NoOrphanSection'
    BY <1>3 DEF ActiveIsHeld, AcceptedMeansWatched, NoOrphanSection
  <2>2. ASSUME NEW d \in Destinations
        PROVE  Cardinality(ActiveOf(d)') + Cardinality(Racing(d)')
                   < Limit + Cardinality(Requests)
    <3>1. ActiveOf(d)' = ActiveOf(d)
      BY DEF ActiveOf, Active
    <3>2. CASE d = for[r][2]
      <4>1. Cardinality(ActiveOf(d)) < Limit
        BY <1>3, <3>2, ActiveFacts, WatchesAssumption DEF Full
      <4>2. Racing(d)' \in SUBSET Requests
        BY DEF Racing
      <4>3. /\ Cardinality(Racing(d)') <= Cardinality(Requests)
            /\ Cardinality(Racing(d)') \in Nat
        BY <4>2, FS_Subset, FS_CardinalityType, WatchesAssumption
      <4> QED BY <3>1, <4>1, <4>3, ActiveFacts, RacingFacts, WatchesAssumption
    <3>3. CASE d # for[r][2]
      <4>1. Racing(d)' \subseteq Racing(d)
        BY <1>3, <3>3 DEF Racing, TypeOK
      <4> QED BY <1>1, <3>1, <4>1, RoomFrame
    <3> QED BY <3>2, <3>3
  <2>3. Room'
    BY <2>2 DEF Room
  <2> QED BY <1>1, <2>1, <2>3
<1> QED BY <1>2, <1>3

LEMMA ReadingInv ==
    ASSUME Inv, NEW r \in Requests,
           \/ FindSection(r) \/ AddSection(r) \/ Insert(r) \/ Duplicate(r)
           \/ Load(r) \/ RequestLost(r)
    PROVE  Inv'
<1> USE DEF Inv, Goto, Reply
<1>1. TypeOK'
  BY DEF TypeOK, Labels, Answers, FindSection, AddSection, Insert, Duplicate, Load,
         RequestLost
<1>2. UNCHANGED <<sections, watches, for, held>>
  BY DEF FindSection, AddSection, Insert, Duplicate, Load, RequestLost
<1>3. \E label : /\ pc' = [pc EXCEPT ![r] = label]
                 /\ label \in Past => pc[r] \in Past
  <2>1. CASE FindSection(r) \/ AddSection(r) \/ Insert(r)
    BY <2>1 DEF Past, FindSection, AddSection, Insert
  <2>2. CASE Duplicate(r) \/ Load(r) \/ RequestLost(r)
    BY <2>2 DEF Past, Duplicate, Load, RequestLost
  <2> QED BY <2>1, <2>2
<1>4. \A q \in Requests :
          answer'[q] # answer[q] /\ answer'[q] \in {"created", "existing"} => held[q]
  BY DEF TypeOK, ActiveIsHeld, FindSection, AddSection, Insert, Duplicate, Load,
         RequestLost
<1> QED BY <1>1, <1>2, <1>3, <1>4, QuietStep

(* Storing an active watch: the request gives up its place in the race for *)
(* the row it adds.                                                        *)
LEMMA ActivateInv ==
    ASSUME Inv, NEW r \in Requests, Commit(r) \/ Reactivate(r)
    PROVE  Inv'
<1> USE DEF Inv, Goto, Reply, Store
<1>1. TypeOK'
  <2>1. for[r] \in Watches /\ SectionOf(r) \in Sections
    BY DEF TypeOK, Watches, SectionOf
  <2>2. sections' \subseteq Sections /\ for' \in [Requests -> Watches]
    BY <2>1 DEF TypeOK, Commit, Reactivate
  <2>3. watches' \in [Watches -> WatchState]
    BY <2>1 DEF TypeOK, WatchState, Commit, Reactivate
  <2>4. /\ pc' \in [Requests -> Labels] /\ answer' \in [Requests -> Answers]
        /\ added' \in [Requests -> BOOLEAN]
    BY DEF TypeOK, Labels, Answers, Commit, Reactivate
  <2>5. held' \in [Requests -> BOOLEAN]
    BY DEF TypeOK, Commit, Reactivate
  <2> QED BY <2>2, <2>3, <2>4, <2>5 DEF TypeOK
<1>2. /\ watches' = [watches EXCEPT ![for[r]] = "active"]
      /\ held' = [q \in Requests |-> held[q] \/ watches'[for[q]] = "active"]
      /\ pc' = [pc EXCEPT ![r] = "idle"]
      /\ pc[r] \in Past
      /\ for' = for
      /\ for[r] \in Watches
  BY DEF Commit, Reactivate, Past, TypeOK
<1>3. ActiveIsHeld'
  BY <1>2 DEF ActiveIsHeld
<1>4. AcceptedMeansWatched'
  <2> SUFFICES ASSUME NEW q \in Requests, answer'[q] \in {"created", "existing"}
               PROVE  held'[q]
    BY DEF AcceptedMeansWatched
  <2>1. CASE q = r
    BY <1>2, <2>1 DEF TypeOK
  <2>2. CASE q # r
    <3>1. answer'[q] = answer[q]
      BY <2>2 DEF TypeOK, Commit, Reactivate
    <3> QED BY <1>2, <3>1 DEF AcceptedMeansWatched
  <2> QED BY <2>1, <2>2
<1>5. NoOrphanSection'
  <2> SUFFICES ASSUME NEW s \in sections'
               PROVE  \E d \in Destinations : watches'[<<s, d>>] # "none"
    BY DEF NoOrphanSection
  <2>1. CASE s \in sections
    <3>1. PICK d \in Destinations : watches[<<s, d>>] # "none"
      BY <2>1 DEF NoOrphanSection
    <3>2. <<s, d>> \in Watches
      BY <2>1 DEF TypeOK, Watches
    <3> QED BY <1>2, <3>1, <3>2 DEF TypeOK
  <2>2. CASE s \notin sections
    <3>1. s = for[r][1]
      BY <2>2 DEF Commit, Reactivate, SectionOf
    <3>2. for[r][2] \in Destinations /\ for[r] = <<s, for[r][2]>>
      BY <1>2, <3>1 DEF Watches
    <3>3. watches'[for[r]] = "active"
      BY <1>2 DEF TypeOK
    <3> QED BY <3>2, <3>3
  <2> QED BY <2>1, <2>2
<1>6. ASSUME NEW d \in Destinations
      PROVE  Cardinality(ActiveOf(d)') + Cardinality(Racing(d)')
                 < Limit + Cardinality(Requests)
  <2>1. CASE d # for[r][2]
    <3>1. ActiveOf(d)' \subseteq ActiveOf(d)
      BY <1>2, <2>1 DEF ActiveOf, Active, TypeOK
    <3>2. Racing(d)' \subseteq Racing(d)
      BY <1>2 DEF Racing, Past, TypeOK
    <3> QED BY <1>1, <3>1, <3>2, RoomFrame
  <2>2. CASE d = for[r][2]
    <3>1. ActiveOf(d)' \subseteq ActiveOf(d) \cup {for[r]}
      BY <1>2 DEF ActiveOf, Active, TypeOK
    <3>2. /\ IsFiniteSet(ActiveOf(d) \cup {for[r]})
          /\ Cardinality(ActiveOf(d) \cup {for[r]}) <= Cardinality(ActiveOf(d)) + 1
      <4>1. /\ IsFiniteSet(ActiveOf(d) \cup {for[r]})
            /\ \/ Cardinality(ActiveOf(d) \cup {for[r]}) = Cardinality(ActiveOf(d))
               \/ Cardinality(ActiveOf(d) \cup {for[r]}) = Cardinality(ActiveOf(d)) + 1
        <5> HIDE DEF Inv
        <5>1. IsFiniteSet(ActiveOf(d))
          BY ActiveFacts DEF Inv
        <5> QED BY <5>1, FS_AddElement
      <4> QED BY <4>1, ActiveFacts
    <3>3. /\ Cardinality(ActiveOf(d)') <= Cardinality(ActiveOf(d)) + 1
          /\ Cardinality(ActiveOf(d)') \in Nat
      <4>1. /\ IsFiniteSet(ActiveOf(d)')
            /\ Cardinality(ActiveOf(d)') <= Cardinality(ActiveOf(d) \cup {for[r]})
        BY <3>1, <3>2, FS_Subset
      <4> QED BY <3>2, <4>1, ActiveFacts, FS_CardinalityType
    <3>4. r \in Racing(d) /\ Racing(d)' \subseteq Racing(d) \ {r}
      BY <1>2, <2>2 DEF Racing, Past, TypeOK
    <3>5. /\ IsFiniteSet(Racing(d) \ {r})
          /\ Cardinality(Racing(d) \ {r}) = Cardinality(Racing(d)) - 1
      BY <3>4, RacingFacts, FS_RemoveElement
    <3>6. /\ Cardinality(Racing(d)') <= Cardinality(Racing(d)) - 1
          /\ Cardinality(Racing(d)') \in Nat
      <4>1. /\ IsFiniteSet(Racing(d)')
            /\ Cardinality(Racing(d)') <= Cardinality(Racing(d) \ {r})
        BY <3>4, <3>5, FS_Subset
      <4> QED BY <3>5, <4>1, FS_CardinalityType
    <3> QED BY <3>3, <3>6, ActiveFacts, RacingFacts, WatchesAssumption DEF Room
  <2> QED BY <2>1, <2>2
<1>7. Room'
  BY <1>6 DEF Room
<1> QED BY <1>1, <1>3, <1>4, <1>5, <1>7

(* Removing a watch only makes room; its row stays.                        *)
LEMMA DeactivateInv ==
    ASSUME Inv, NEW r \in Requests, Deactivate(r)
    PROVE  Inv'
<1> USE DEF Inv, Goto, Reply, Store, Deactivate
<1>1. TypeOK'
  BY DEF TypeOK, Labels, Answers, WatchState
<1>2. ActiveIsHeld'
  BY DEF ActiveIsHeld
<1>3. AcceptedMeansWatched'
  BY DEF AcceptedMeansWatched, TypeOK
<1>4. NoOrphanSection'
  <2> SUFFICES ASSUME NEW s \in sections
               PROVE  \E d \in Destinations : watches'[<<s, d>>] # "none"
    BY DEF NoOrphanSection
  <2>1. PICK d \in Destinations : watches[<<s, d>>] # "none"
    BY DEF NoOrphanSection
  <2>2. <<s, d>> \in Watches
    BY DEF TypeOK, Watches
  <2> QED BY <2>1, <2>2 DEF TypeOK
<1>5. ASSUME NEW d \in Destinations
      PROVE  Cardinality(ActiveOf(d)') + Cardinality(Racing(d)')
                 < Limit + Cardinality(Requests)
  <2>1. ActiveOf(d)' \subseteq ActiveOf(d) /\ Racing(d)' \subseteq Racing(d)
    BY DEF ActiveOf, Active, Racing, Past, TypeOK
  <2> QED BY <1>1, <2>1, RoomFrame
<1> QED BY <1>1, <1>2, <1>3, <1>4, <1>5 DEF Room

-----------------------------------------------------------------------------
LEMMA InitInv == Init => Inv
<1> SUFFICES ASSUME Init PROVE Inv
  OBVIOUS
<1> USE DEF Init
<1>1. TypeOK
  BY DEF TypeOK, WatchState, Labels, Answers
<1>2. ActiveIsHeld /\ AcceptedMeansWatched /\ NoOrphanSection
  BY DEF ActiveIsHeld, AcceptedMeansWatched, NoOrphanSection
<1>3. ASSUME NEW d \in Destinations
      PROVE  Cardinality(ActiveOf(d)) + Cardinality(Racing(d))
                 < Limit + Cardinality(Requests)
  <2>1. ActiveOf(d) = {} /\ Racing(d) = {}
    BY DEF ActiveOf, Active, Racing, Past
  <2> QED BY <2>1, RacingFacts, FS_EmptySet, WatchesAssumption
<1> QED BY <1>1, <1>2, <1>3 DEF Inv, Room

LEMMA NextInv == Inv /\ [Next]_vars => Inv'
<1> SUFFICES ASSUME Inv, [Next]_vars PROVE Inv'
  OBVIOUS
<1>1. ASSUME NEW r \in Requests, CreateWatch(r) PROVE Inv'
  BY <1>1, BeginInv, CountInv, ReadingInv, ActivateInv DEF CreateWatch
<1>2. ASSUME NEW r \in Requests, DeleteWatch(r) PROVE Inv'
  BY <1>2, BeginInv, ReadingInv, DeactivateInv DEF DeleteWatch
<1>3. ASSUME NEW r \in Requests, RequestLost(r) PROVE Inv'
  BY <1>3, ReadingInv
<1>4. CASE UNCHANGED vars
  BY <1>4 DEF vars, Inv, TypeOK, ActiveIsHeld, AcceptedMeansWatched, NoOrphanSection,
              Room, ActiveOf, Active, Racing
<1> QED BY <1>1, <1>2, <1>3, <1>4 DEF Next

LEMMA InvIsInvariant == Spec => []Inv
<1> QED BY InitInv, NextInv, PTL DEF Spec

(* Every variable of the watch endpoints stays in its type.                *)
THEOREM WatchTypes == Spec => []TypeOK
<1>1. Inv => TypeOK
  BY DEF Inv
<1> QED BY <1>1, InvIsInvariant, PTL

(* Requests that race past the limit check (watches.py:61-74) overshoot    *)
(* the limit by fewer than there are of them.                              *)
THEOREM LimitNearlyKept == Spec => []OvershootBounded
<1>1. Inv => OvershootBounded
  <2> SUFFICES ASSUME Inv, NEW d \in Destinations
               PROVE  Cardinality(ActiveOf(d)) < Limit + Cardinality(Requests)
    BY DEF OvershootBounded
  <2> QED BY ActiveFacts, RacingFacts, WatchesAssumption DEF Inv, Room
<1> QED BY <1>1, InvIsInvariant, PTL

(* A create answered 200 or 201 had its watch active during the request    *)
(* (watches.py:87-113), whoever it raced with.                             *)
THEOREM AcceptedIsWatched == Spec => []AcceptedMeansWatched
<1>1. Inv => AcceptedMeansWatched
  BY DEF Inv
<1> QED BY <1>1, InvIsInvariant, PTL

(* No request, however it ends, leaves a section nobody ever watched.      *)
THEOREM SectionsAreWatched == Spec => []NoOrphanSection
<1>1. Inv => NoOrphanSection
  BY DEF Inv
<1> QED BY <1>1, InvIsInvariant, PTL

=============================================================================

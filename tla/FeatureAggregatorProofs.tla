------------------------- MODULE FeatureAggregatorProofs -------------------------
(* Proofs about FeatureAggregator, for any interactions, members and number of     *)
(* faults.                                                                         *)
EXTENDS FeatureAggregator, FiniteSetTheorems, TLAPS

-----------------------------------------------------------------------------
(* The inductive invariant, in four parts.                                         *)

\* A member works on what was published; what was published has happened.
PlaceInv ==
    /\ \A c \in Members : pc[c] /= "idle" => cur[c] \in published
    /\ \A i \in published : kind[i] \in Kinds

\* The one member that marked an interaction is the only one that may count it.
MarkInv ==
    /\ counted \subseteq marked
    /\ \A c \in Members : pc[c] = "count" => cur[c] \in marked \ counted
    /\ \A c, d \in Members :
          pc[c] = "count" /\ pc[d] = "count" /\ cur[c] = cur[d] => c = d

CountInv == IsFiniteSet(counted) /\ CountedOnce

\* Its fate is known.
Settled(i) == i \in counted \union dead \union interrupted

\* A member is at one of these places of the handler, with interaction i.
Held(i, places) == \E c \in Members : pc[c] \in places /\ cur[c] = i

Places == {"mark", "count", "ratios", "emit", "park"}

CauseInv ==
    /\ \A i \in delivered : Settled(i) \/ Held(i, Places)
    /\ \A i \in marked : Settled(i) \/ Held(i, {"count", "park"})
    /\ \A c \in Members : pc[c] \in {"ratios", "emit"} => cur[c] \in counted

IInv == TypeOK /\ PlaceInv /\ MarkInv /\ CountInv /\ CauseInv /\ RatiosCurrent

-----------------------------------------------------------------------------
(* Lemmas.                                                                         *)

\* The CASE, LEAST and GREATEST of the UPDATE keep the affinity at most 1 and never
\* divide by zero.
LEMMA RatioBounds ==
    ASSUME NEW k \in [Kinds -> Nat]
    PROVE  /\ RatiosOf(k).affinity[1] \in 0..RatiosOf(k).affinity[2]
           /\ RatiosOf(k).ctr[2] > 0
<1>1. k["impression"] \in Nat /\ k["click"] \in Nat /\ k["apply"] \in Nat
  BY DEF Kinds
<1> QED
  BY <1>1 DEF RatiosOf, AtLeastOne

LEMMA GotoFrame ==
    ASSUME TypeOK, NEW c \in Members, NEW to, Goto(c, to)
    PROVE  pc'[c] = to /\ \A d \in Members \ {c} : pc'[d] = pc[d]
BY DEF TypeOK, Goto

LEMMA InitInv == Init => IInv
<1> SUFFICES ASSUME Init PROVE IInv
  OBVIOUS
<1>1. TypeOK
  <2>1. NoCounts \in [Kinds -> Nat]
    BY DEF NoCounts
  <2>2. ratios.affinity[1] \in 0..ratios.affinity[2] /\ ratios.ctr[2] > 0
    BY <2>1, RatioBounds DEF Init
  <2>3. behind \in BOOLEAN
    BY DEF Init
  <2> QED
    BY <2>1, <2>2, <2>3, AggregatorAssumption DEF Init, TypeOK
<1>2. PlaceInv /\ MarkInv /\ CauseInv /\ RatiosCurrent
  BY DEF Init, PlaceInv, MarkInv, CauseInv, RatiosCurrent
<1>3. CountInv
  <2>1. \A t \in Kinds : {i \in counted : kind[i] = t} = {} /\ counters[t] = 0
    BY DEF Init, NoCounts
  <2> QED
    BY <2>1, FS_EmptySet DEF Init, CountInv, CountedOnce
<1> QED
  BY <1>1, <1>2, <1>3 DEF IInv

-----------------------------------------------------------------------------
(* Type correctness.                                                               *)

LEMMA CountType ==
    ASSUME TypeOK, PlaceInv, NEW c \in Members, pc[c] /= "idle", CountOne(c)
    PROVE  counters' \in [Kinds -> Nat] /\ counted' \subseteq Ids /\ behind' \in BOOLEAN
<1>1. cur[c] \in published /\ kind[cur[c]] \in Kinds
  BY DEF PlaceInv
<1> QED
  BY <1>1 DEF CountOne, TypeOK

LEMMA StepType == TypeOK /\ PlaceInv /\ [Next]_vars => TypeOK' /\ PlaceInv'
<1> SUFFICES ASSUME TypeOK, PlaceInv, [Next]_vars PROVE TypeOK' /\ PlaceInv'
  OBVIOUS
<1>f. ASSUME Fine \/ Fault PROVE faults' \in 0..MaxFaults
  BY <1>f, AggregatorAssumption DEF Fine, Fault, TypeOK
<1>1. ASSUME NEW i \in Ids, NEW t \in Kinds, Track(i, t) PROVE TypeOK' /\ PlaceInv'
  <2>1. /\ kind' \in [Ids -> Kinds \union {"none"}] /\ kind'[i] = t
        /\ \A j \in Ids \ {i} : kind'[j] = kind[j]
    BY <1>1 DEF Track, TypeOK
  <2>2. CASE Fine
    BY <1>1, <1>f, <2>1, <2>2 DEF Track, TypeOK, PlaceInv
  <2>3. CASE Fault
    BY <1>1, <1>f, <2>1, <2>3 DEF Track, TypeOK, PlaceInv
  <2> QED
    BY <1>1, <2>2, <2>3 DEF Track
<1>2. ASSUME NEW c \in Members, NEW i \in Ids, Take(c, i) PROVE TypeOK' /\ PlaceInv'
  BY <1>2, <1>f DEF Take, Goto, TypeOK, PlaceInv
<1>3. ASSUME NEW c \in Members, Mark(c) PROVE TypeOK' /\ PlaceInv'
  <2>1. marked' \subseteq published /\ faults' \in 0..MaxFaults
    BY <1>3, <1>f DEF Mark, TypeOK, PlaceInv
  <2>2. \E to \in {"count", "idle", "park"} : Goto(c, to)
    BY <1>3 DEF Mark
  <2> QED
    BY <1>3, <2>1, <2>2 DEF Mark, Goto, TypeOK, PlaceInv
<1>4. ASSUME NEW c \in Members, Count(c) PROVE TypeOK' /\ PlaceInv'
  <2>1. counters' \in [Kinds -> Nat] /\ counted' \subseteq Ids /\ behind' \in BOOLEAN
    <3>1. CASE CountOne(c)
      BY <1>4, <3>1, CountType DEF Count
    <3>2. CASE UNCHANGED <<counters, counted, behind>>
      BY <3>2 DEF TypeOK
    <3> QED
      BY <1>4, <3>1, <3>2 DEF Count
  <2>2. \E to \in {"ratios", "park"} : Goto(c, to)
    BY <1>4 DEF Count
  <2>3. faults' \in 0..MaxFaults
    BY <1>4, <1>f DEF Count
  <2> QED
    BY <1>4, <2>1, <2>2, <2>3 DEF Count, Goto, TypeOK, PlaceInv
<1>5. ASSUME NEW c \in Members, Ratios(c) PROVE TypeOK' /\ PlaceInv'
  <2>1. /\ ratios'.affinity[1] \in 0..ratios'.affinity[2] /\ ratios'.ctr[2] > 0
        /\ behind' \in BOOLEAN
    <3>1. CASE Recompute
      BY <3>1, RatioBounds DEF Recompute, TypeOK
    <3>2. CASE UNCHANGED <<ratios, behind>>
      BY <3>2 DEF TypeOK
    <3> QED
      BY <1>5, <3>1, <3>2 DEF Ratios
  <2>2. \E to \in {"emit", "park"} : Goto(c, to)
    BY <1>5 DEF Ratios
  <2>3. faults' \in 0..MaxFaults
    BY <1>5, <1>f DEF Ratios
  <2> QED
    BY <1>5, <2>1, <2>2, <2>3 DEF Ratios, Goto, TypeOK, PlaceInv
<1>6. ASSUME NEW c \in Members, Emit(c) PROVE TypeOK' /\ PlaceInv'
  <2>1. \E to \in {"idle", "park"} : Goto(c, to)
    BY <1>6 DEF Emit
  <2> QED
    BY <1>6, <1>f, <2>1 DEF Emit, Goto, TypeOK, PlaceInv
<1>7. ASSUME NEW c \in Members, Park(c) PROVE TypeOK' /\ PlaceInv'
  BY <1>7, <1>f DEF Park, Goto, TypeOK, PlaceInv
<1>8. ASSUME NEW c \in Members, Crash(c) PROVE TypeOK' /\ PlaceInv'
  BY <1>8, <1>f DEF Crash, Goto, TypeOK, PlaceInv
<1>9. CASE UNCHANGED vars
  BY <1>9 DEF vars, TypeOK, PlaceInv
<1> QED
  BY <1>1, <1>2, <1>3, <1>4, <1>5, <1>6, <1>7, <1>8, <1>9 DEF Next, Resting

-----------------------------------------------------------------------------
(* Marks and counters.                                                             *)

LEMMA StepMark == TypeOK /\ PlaceInv /\ MarkInv /\ [Next]_vars => MarkInv'
<1> SUFFICES ASSUME TypeOK, PlaceInv, MarkInv, [Next]_vars PROVE MarkInv'
  OBVIOUS
<1> USE DEF MarkInv
\* A member that does not come to count, while nothing is counted.
<1>k. ASSUME NEW c \in Members, NEW to, Goto(c, to), to /= "count",
             \A d \in Members \ {c} : cur'[d] = cur[d],
             marked \subseteq marked', UNCHANGED counted
      PROVE  MarkInv'
  BY <1>k, GotoFrame
<1>1. ASSUME NEW i \in Ids, NEW t \in Kinds, Track(i, t) PROVE MarkInv'
  BY <1>1 DEF Track
<1>2. ASSUME NEW c \in Members, NEW i \in Ids, Take(c, i) PROVE MarkInv'
  BY <1>2, <1>k DEF Take, TypeOK
<1>3. ASSUME NEW c \in Members, Mark(c) PROVE MarkInv'
  <2>1. CASE cur[c] \notin marked /\ marked' = marked \union {cur[c]} /\ Goto(c, "count")
    BY <1>3, <2>1, GotoFrame DEF Mark
  <2>2. CASE (Goto(c, "idle") \/ Goto(c, "park")) /\ marked \subseteq marked'
    BY <1>3, <2>2, <1>k DEF Mark
  <2> QED
    BY <1>3, <2>1, <2>2 DEF Mark
<1>4. ASSUME NEW c \in Members, Count(c) PROVE MarkInv'
  <2>1. pc[c] = "count" /\ UNCHANGED <<cur, marked>> /\ cur[c] \in marked \ counted
    BY <1>4 DEF Count
  <2>2. counted' \in {counted, counted \union {cur[c]}}
    BY <1>4 DEF Count, CountOne
  <2>3. pc'[c] /= "count" /\ \A d \in Members \ {c} : pc'[d] = pc[d]
    BY <1>4, GotoFrame DEF Count
  <2> QED
    BY <2>1, <2>2, <2>3
<1>5. ASSUME NEW c \in Members, Ratios(c) \/ Emit(c) \/ Park(c) \/ Crash(c) PROVE MarkInv'
  BY <1>5, <1>k DEF Ratios, Emit, Park, Crash
<1>6. CASE UNCHANGED vars
  BY <1>6 DEF vars
<1> QED
  BY <1>1, <1>2, <1>3, <1>4, <1>5, <1>6 DEF Next, Resting

\* Counting one more interaction adds it to the set of its kind.
LEMMA CountMore ==
    ASSUME TypeOK, PlaceInv, MarkInv, CountInv, NEW c \in Members, pc[c] = "count",
           CountOne(c), UNCHANGED kind
    PROVE  CountInv'
<1>1. /\ cur[c] \notin counted /\ kind[cur[c]] \in Kinds
      /\ counted' = counted \union {cur[c]}
      /\ counters' = [counters EXCEPT ![kind[cur[c]]] = @ + 1]
  BY DEF CountOne, MarkInv, PlaceInv
<1>2. IsFiniteSet(counted \union {cur[c]})
  BY FS_AddElement DEF CountInv
<1>3. ASSUME NEW t \in Kinds
      PROVE  counters'[t] = Cardinality({i \in counted' : kind'[i] = t})
  <2> DEFINE S == {i \in counted : kind[i] = t}
  <2>1. IsFiniteSet(counted) /\ S \in SUBSET counted /\ counters[t] = Cardinality(S)
    BY DEF CountInv, CountedOnce
  <2>2. IsFiniteSet(S)
    BY <2>1, FS_Subset
  <2>3. CASE kind[cur[c]] = t
    <3>1. {i \in counted' : kind'[i] = t} = S \union {cur[c]} /\ cur[c] \notin S
      BY <1>1, <2>3
    <3>2. Cardinality(S \union {cur[c]}) = Cardinality(S) + 1
      BY <2>2, <3>1, FS_AddElement
    <3>3. counters'[t] = counters[t] + 1
      BY <1>1, <2>3 DEF TypeOK
    <3> QED
      BY <2>1, <3>1, <3>2, <3>3
  <2>4. CASE kind[cur[c]] /= t
    <3>1. {i \in counted' : kind'[i] = t} = S
      BY <1>1, <2>4
    <3>2. counters'[t] = counters[t]
      BY <1>1, <2>4 DEF TypeOK
    <3> QED
      BY <2>1, <3>1, <3>2
  <2> QED
    BY <2>3, <2>4
<1> QED
  BY <1>1, <1>2, <1>3 DEF CountInv, CountedOnce

LEMMA StepCount == TypeOK /\ PlaceInv /\ MarkInv /\ CountInv /\ [Next]_vars => CountInv'
<1> SUFFICES ASSUME TypeOK, PlaceInv, MarkInv, CountInv, [Next]_vars PROVE CountInv'
  OBVIOUS
<1>1. ASSUME NEW i \in Ids, NEW t \in Kinds, Track(i, t) PROVE CountInv'
  <2>1. counted' = counted /\ counters' = counters /\ i \notin counted
    BY <1>1 DEF Track, MarkInv, PlaceInv, TypeOK, Kinds
  <2>2. \A j \in counted : kind'[j] = kind[j]
    BY <1>1, <2>1 DEF Track, TypeOK
  <2>3. ASSUME NEW u \in Kinds
        PROVE  {j \in counted' : kind'[j] = u} = {j \in counted : kind[j] = u}
    BY <2>1, <2>2
  <2> QED
    BY <2>1, <2>3 DEF CountInv, CountedOnce
<1>2. ASSUME UNCHANGED <<kind, counters, counted>> PROVE CountInv'
  BY <1>2 DEF CountInv, CountedOnce
<1>3. ASSUME NEW c \in Members, Count(c) PROVE CountInv'
  BY <1>2, <1>3, CountMore DEF Count
<1> QED
  BY <1>1, <1>2, <1>3 DEF Next, Take, Mark, Ratios, Emit, Park, Crash, Resting, vars

-----------------------------------------------------------------------------
(* Causes.                                                                         *)

LEMMA StepCause == TypeOK /\ PlaceInv /\ MarkInv /\ CauseInv /\ [Next]_vars => CauseInv'
<1> SUFFICES ASSUME TypeOK, PlaceInv, MarkInv, CauseInv, [Next]_vars PROVE CauseInv'
  OBVIOUS
<1>s. counted \subseteq counted' /\ dead \subseteq dead' /\ interrupted \subseteq interrupted'
  BY DEF Next, Track, Take, Mark, Count, CountOne, Ratios, Emit, Park, Crash, Resting, vars
<1>i. \A i : Settled(i) => Settled(i)'
  BY <1>s DEF Settled
<1>1. ASSUME NEW i \in Ids, NEW t \in Kinds, Track(i, t) PROVE CauseInv'
  BY <1>1 DEF Track, CauseInv, Settled, Held
<1>2. ASSUME NEW c \in Members, NEW i \in Ids, Take(c, i) PROVE CauseInv'
  <2>1. /\ pc'[c] = "mark" /\ cur'[c] = i /\ pc[c] = "idle" /\ delivered' = delivered \union {i}
        /\ \A d \in Members \ {c} : pc'[d] = pc[d] /\ cur'[d] = cur[d]
        /\ UNCHANGED <<marked, counted>>
    BY <1>2, GotoFrame DEF Take, TypeOK
  <2>2. \A j : (Held(j, Places) => Held(j, Places)')
               /\ (Held(j, {"count", "park"}) => Held(j, {"count", "park"})')
    BY <2>1 DEF Held, Places
  <2>3. Held(i, Places)'
    BY <2>1 DEF Held, Places
  <2> QED
    BY <1>i, <2>1, <2>2, <2>3 DEF CauseInv
<1>3. ASSUME NEW c \in Members, Mark(c) PROVE CauseInv'
  <2>0. pc[c] = "mark" /\ UNCHANGED <<delivered, cur, counted>>
    BY <1>3 DEF Mark
  <2>1. CASE marked' \in {marked, marked \union {cur[c]}} /\ (Goto(c, "count") \/ Goto(c, "park"))
    <3>1. pc'[c] \in {"count", "park"} /\ \A d \in Members \ {c} : pc'[d] = pc[d]
      BY <2>1, GotoFrame
    <3>2. \A j : (Held(j, Places) => Held(j, Places)')
                 /\ (Held(j, {"count", "park"}) => Held(j, {"count", "park"})')
      BY <2>0, <3>1 DEF Held, Places
    <3>3. Held(cur[c], {"count", "park"})'
      BY <2>0, <3>1 DEF Held
    <3> QED
      BY <1>i, <2>0, <2>1, <3>1, <3>2, <3>3 DEF CauseInv
  <2>2. CASE cur[c] \in marked /\ UNCHANGED marked /\ Goto(c, "idle")
    <3>1. pc'[c] = "idle" /\ \A d \in Members \ {c} : pc'[d] = pc[d]
      BY <2>2, GotoFrame
    <3>2. \A j : Held(j, {"count", "park"}) => Held(j, {"count", "park"})'
      BY <2>0, <3>1 DEF Held
    <3>3. \A j : j /= cur[c] /\ Held(j, Places) => Held(j, Places)'
      BY <2>0, <3>1 DEF Held
    <3>4. Settled(cur[c])' \/ Held(cur[c], Places)'
      <4>1. \A j : Held(j, {"count", "park"})' => Held(j, Places)'
        BY DEF Held, Places
      <4> QED
        BY <1>i, <2>0, <2>2, <3>2, <4>1 DEF CauseInv
    <3> QED
      BY <1>i, <2>0, <2>2, <3>1, <3>2, <3>3, <3>4 DEF CauseInv
  <2> QED
    BY <1>3, <2>1, <2>2 DEF Mark
\* A member goes on with an interaction that is settled, or about to be parked.
<1>4. ASSUME NEW c \in Members, NEW to, Goto(c, to), pc[c] \in Places, to \in Places \union {"idle"},
             UNCHANGED <<cur, marked>>, delivered' \subseteq delivered,
             Settled(cur[c])' \/ to = "park",
             to \in {"ratios", "emit"} => cur[c] \in counted'
      PROVE  CauseInv'
  <2>1. pc'[c] = to /\ \A d \in Members \ {c} : pc'[d] = pc[d]
    BY <1>4, GotoFrame
  <2>2. \A j : j /= cur[c] => (Held(j, Places) => Held(j, Places)')
                              /\ (Held(j, {"count", "park"}) => Held(j, {"count", "park"})')
    BY <1>4, <2>1 DEF Held
  <2>3. Settled(cur[c])' \/ (Held(cur[c], Places)' /\ Held(cur[c], {"count", "park"})')
    BY <1>4, <2>1 DEF Held, Places
  <2> QED
    BY <1>i, <1>s, <1>4, <2>1, <2>2, <2>3 DEF CauseInv
<1>5. ASSUME NEW c \in Members, Count(c) PROVE CauseInv'
  <2>1. CASE CountOne(c) /\ Goto(c, "ratios")
    BY <1>5, <2>1, <1>4 DEF Count, CountOne, Settled, Places
  <2>2. CASE Goto(c, "park")
    BY <1>5, <2>2, <1>4 DEF Count, Places
  <2> QED
    BY <1>5, <2>1, <2>2 DEF Count
<1>6. ASSUME NEW c \in Members, Ratios(c) PROVE CauseInv'
  <2>1. cur[c] \in counted'
    BY <1>6, <1>s DEF Ratios, CauseInv
  <2>2. \E to \in {"emit", "park"} : Goto(c, to)
    BY <1>6 DEF Ratios
  <2> QED
    BY <1>6, <1>4, <2>1, <2>2 DEF Ratios, Settled, Places
<1>7. ASSUME NEW c \in Members, Emit(c) PROVE CauseInv'
  <2>1. cur[c] \in counted'
    BY <1>7, <1>s DEF Emit, CauseInv
  <2>2. \E to \in {"idle", "park"} : Goto(c, to)
    BY <1>7 DEF Emit
  <2> QED
    BY <1>7, <1>4, <2>1, <2>2 DEF Emit, Settled, Places
<1>8. ASSUME NEW c \in Members, Park(c) PROVE CauseInv'
  BY <1>8, <1>4 DEF Park, Settled, Places
<1>9. ASSUME NEW c \in Members, Crash(c) PROVE CauseInv'
  <2>1. pc[c] \in Places
    BY <1>9 DEF Crash, TypeOK, Places
  <2> QED
    BY <1>9, <1>4, <2>1 DEF Crash, Settled
<1>10. CASE UNCHANGED vars
  BY <1>10 DEF vars, CauseInv, Settled, Held
<1> QED
  BY <1>1, <1>2, <1>3, <1>5, <1>6, <1>7, <1>8, <1>9, <1>10 DEF Next, Resting

\* The ratios are written from the counters they stand beside.
LEMMA StepRatios == RatiosCurrent /\ [Next]_vars => RatiosCurrent'
BY DEF RatiosCurrent, Next, Track, Take, Mark, Count, CountOne, Ratios, Recompute, Emit, Park,
       Crash, Resting, vars

-----------------------------------------------------------------------------
(* The theorems.                                                                   *)

LEMMA Invariance == Spec => []IInv
<1>1. IInv /\ [Next]_vars => IInv'
  BY StepType, StepMark, StepCount, StepCause, StepRatios DEF IInv
<1> QED
  BY InitInv, <1>1, PTL DEF Spec

\* Every variable keeps its type; the affinity is at most 1 whatever the counters are.
THEOREM TypeCorrect == Spec => []TypeOK
<1>1. IInv => TypeOK
  BY DEF IInv
<1> QED
  BY Invariance, <1>1, PTL

\* No number of repeated deliveries, members and crashes counts an interaction twice.
THEOREM InteractionsCountOnce == Spec => []CountedOnce
<1>1. IInv => CountedOnce
  BY DEF IInv, CountInv
<1> QED
  BY Invariance, <1>1, PTL

\* At rest, an accepted interaction is in the counters, in the dead-letter topic, or
\* died with its member.
THEOREM LossesHaveCause == Spec => []UncountedHasCause
<1>1. IInv => UncountedHasCause
  <2> SUFFICES ASSUME IInv, AtRest, NEW i \in accepted
               PROVE  i \in counted \union dead \union interrupted
    BY DEF UncountedHasCause
  <2>1. i \in delivered /\ ~Held(i, Places)
    BY DEF AtRest, IInv, TypeOK, Held, Places
  <2> QED
    BY <2>1 DEF IInv, CauseInv, Settled
<1> QED
  BY Invariance, <1>1, PTL

\* Overlapping members never leave ratios of older counters behind.
THEOREM RatiosAreCurrent == Spec => []RatiosCurrent
<1>1. IInv => RatiosCurrent
  BY DEF IInv
<1> QED
  BY Invariance, <1>1, PTL
=============================================================================

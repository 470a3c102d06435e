-------------------------- MODULE QueueConsumerProofs --------------------------
(* Proofs about QueueConsumer, for any messages, consumers, prefetch and       *)
(* number of disruptions.                                                      *)
EXTENDS QueueConsumer, FiniteSetTheorems, TLAPS

-----------------------------------------------------------------------------
(* The inductive invariant, in three layers.                                   *)

Handling == {"handle", "ok", "failed"}

\* What a consumer works on was handed to it, and is still on its books unless
\* its connection was lost, when nothing is.
HandInv ==
    /\ \A c \in Consumers : IsFiniteSet(unacked[c])
    /\ \A c \in Consumers : ~connected[c] => unacked[c] = {}
    /\ \A c \in Consumers :
          IF phase[c] \in Handling
          THEN at[c] \in Messages /\ (connected[c] => at[c] \in unacked[c])
          ELSE at[c] = None
    /\ \A c \in Consumers : phase[c] = "ok" => at[c] \in done

TypeInv == TypeOK /\ HandInv

PlaceInv == OnePlace /\ NothingVanishes /\ AckedWasDone

\* A message that waits for a handler has been given to one once per disruption
\* at most: each time it came back was one.
RepeatInv ==
    /\ \A m \in Messages : m \notin sent => tries[m] = 0
    /\ \A m \in ready : tries[m] <= disruptions
    /\ \A c \in Consumers : \A m \in unacked[c] : m /= at[c] => tries[m] <= disruptions
    /\ RepeatsNeedDisruption

IInv == TypeInv /\ PlaceInv /\ RepeatInv

-----------------------------------------------------------------------------
(* Lemmas.                                                                     *)

LEMMA InitInv == Init => IInv
<1> SUFFICES ASSUME Init PROVE IInv
  OBVIOUS
<1>1. IsFiniteSet({}) /\ Cardinality({}) = 0
  BY FS_EmptySet
<1>2. \A c \in Consumers : unacked[c] = {} /\ IsFiniteSet(unacked[c]) /\ Cardinality(unacked[c]) = 0
  BY <1>1 DEF Init
<1>a. TypeOK
  <2>1. \A c \in Consumers : Cardinality(unacked[c]) <= Prefetch
    BY <1>2, QueueAssumption
  <2> QED
    BY <2>1 DEF Init, TypeOK, Phases
<1>b. HandInv
  BY <1>2 DEF Init, HandInv, Handling
<1>3. PlaceInv
  BY DEF Init, PlaceInv, OnePlace, NothingVanishes, AckedWasDone, InFlight
<1>4. RepeatInv
  BY DEF Init, RepeatInv, RepeatsNeedDisruption
<1> QED
  BY <1>a, <1>b, <1>3, <1>4 DEF IInv, TypeInv

\* Handing one more message to a consumer that has room keeps the prefetch.
LEMMA OneMore ==
    ASSUME NEW S, NEW m, IsFiniteSet(S), Cardinality(S) < Prefetch
    PROVE  IsFiniteSet(S \union {m}) /\ Cardinality(S \union {m}) <= Prefetch
<1>1. Cardinality(S) \in Nat
  BY FS_CardinalityType
<1>2. /\ IsFiniteSet(S \union {m})
      /\ Cardinality(S \union {m}) = Cardinality(S) + (IF m \in S THEN 0 ELSE 1)
  BY <1>1, FS_AddElement
<1> QED
  BY <1>1, <1>2, QueueAssumption

\* Settling one keeps it, too.
LEMMA OneLess ==
    ASSUME NEW S, NEW m, IsFiniteSet(S), Cardinality(S) <= Prefetch
    PROVE  IsFiniteSet(S \ {m}) /\ Cardinality(S \ {m}) <= Prefetch
<1>1. S \ {m} \in SUBSET S
  OBVIOUS
<1>2. /\ IsFiniteSet(S \ {m}) /\ Cardinality(S \ {m}) <= Cardinality(S)
      /\ Cardinality(S) \in Nat /\ Cardinality(S \ {m}) \in Nat
  BY <1>1, FS_Subset, FS_CardinalityType
<1> QED
  BY <1>2, QueueAssumption

-----------------------------------------------------------------------------
(* Type correctness.                                                           *)

\* What a lost connection and a restart do to the books.
LEMMA DisruptionType ==
    ASSUME TypeInv, NEW c \in Consumers, Requeue(c), Disrupt,
           connected' = [connected EXCEPT ![c] = FALSE]
    PROVE  /\ ready' \subseteq Messages
           /\ unacked' \in [Consumers -> SUBSET Messages]
           /\ connected' \in [Consumers -> BOOLEAN]
           /\ disruptions' \in Nat
           /\ unacked'[c] = {} /\ ~connected'[c]
           /\ \A d \in Consumers \ {c} : unacked'[d] = unacked[d] /\ connected'[d] = connected[d]
           /\ \A d \in Consumers : IsFiniteSet(unacked'[d]) /\ Cardinality(unacked'[d]) <= Prefetch
           /\ \A d \in Consumers : ~connected'[d] => unacked'[d] = {}
<1>1. IsFiniteSet({}) /\ Cardinality({}) = 0
  BY FS_EmptySet
<1> QED
  BY <1>1, QueueAssumption DEF TypeInv, TypeOK, HandInv, Requeue, Disrupt

LEMMA StepType == TypeInv /\ [Next]_vars => TypeInv'
<1> SUFFICES ASSUME TypeInv, [Next]_vars PROVE TypeInv'
  OBVIOUS
<1> USE QueueAssumption DEF TypeInv, TypeOK, HandInv, Handling, Phases
<1>1. ASSUME NEW m \in Messages, Publish(m) PROVE TypeInv'
  BY <1>1 DEF Publish, Disrupt
<1>2. ASSUME NEW c \in Consumers, Subscribe(c) PROVE TypeInv'
  BY <1>2 DEF Subscribe, Goto
<1>3. ASSUME NEW c \in Consumers, NEW m \in Messages, Push(c, m) PROVE TypeInv'
  <2>1. IsFiniteSet(unacked[c] \union {m}) /\ Cardinality(unacked[c] \union {m}) <= Prefetch
    BY <1>3, OneMore DEF Push
  <2>2. /\ unacked'[c] = unacked[c] \union {m}
        /\ \A d \in Consumers \ {c} : unacked'[d] = unacked[d]
    BY <1>3 DEF Push
  <2>3. \A d \in Consumers : IsFiniteSet(unacked'[d]) /\ Cardinality(unacked'[d]) <= Prefetch
    BY <2>1, <2>2
  <2> QED
    BY <1>3, <2>2, <2>3 DEF Push
<1>4. ASSUME NEW c \in Consumers, Take(c) PROVE TypeInv'
  <2>1. PICK m \in unacked[c] : at' = [at EXCEPT ![c] = m] /\ tries' = [tries EXCEPT ![m] = @ + 1]
    BY <1>4 DEF Take
  <2>2. m \in Messages
    OBVIOUS
  <2> QED
    BY <1>4, <2>1, <2>2 DEF Take, Goto, broker
<1>5. ASSUME NEW c \in Consumers, Handle(c) PROVE TypeInv'
  BY <1>5 DEF Handle, Goto, broker
<1>6. ASSUME NEW c \in Consumers, Settle(c) PROVE TypeInv'
  <2>1. /\ unacked'[c] = unacked[c] \ {at[c]}
        /\ \A d \in Consumers \ {c} : unacked'[d] = unacked[d]
    BY <1>6 DEF Settle
  <2>2. IsFiniteSet(unacked[c] \ {at[c]}) /\ Cardinality(unacked[c] \ {at[c]}) <= Prefetch
    BY OneLess
  <2>3. \A d \in Consumers : IsFiniteSet(unacked'[d]) /\ Cardinality(unacked'[d]) <= Prefetch
    BY <2>1, <2>2
  <2>4. acked' \subseteq Messages /\ dropped' \subseteq Messages
    BY <1>6 DEF Settle
  <2>5. phase' \in [Consumers -> Phases] /\ phase'[c] \notin Handling
        /\ \A d \in Consumers \ {c} : phase'[d] = phase[d]
    BY <1>6 DEF Settle, Goto, Gone
  <2> QED
    BY <1>6, <2>1, <2>3, <2>4, <2>5 DEF Settle
<1>7. ASSUME NEW c \in Consumers, LoseConnection(c) PROVE TypeInv'
  <2>1. /\ phase' \in [Consumers -> Phases]
        /\ \A d \in Consumers : phase'[d] \in Handling <=> phase[d] \in Handling
        /\ \A d \in Consumers : phase'[d] = "ok" => phase[d] = "ok"
    BY <1>7 DEF LoseConnection, Goto, Gone
  <2> QED
    BY <1>7, <2>1, DisruptionType DEF LoseConnection
<1>8. ASSUME NEW c \in Consumers, Restart(c) PROVE TypeInv'
  BY <1>8, DisruptionType DEF Restart, Goto
<1>10. CASE RestartBroker
  <2>1. IsFiniteSet({}) /\ Cardinality({}) = 0
    BY FS_EmptySet
  <2>2. \A c \in Consumers : unacked'[c] = {} /\ ~connected'[c]
    BY <1>10 DEF RestartBroker
  <2>3. /\ phase' \in [Consumers -> Phases]
        /\ \A d \in Consumers : phase'[d] \in Handling <=> phase[d] \in Handling
        /\ \A d \in Consumers : phase'[d] = "ok" => phase[d] = "ok"
    BY <1>10 DEF RestartBroker, Gone
  <2>4. /\ unacked' \in [Consumers -> SUBSET Messages] /\ perished' \subseteq Messages
        /\ connected' \in [Consumers -> BOOLEAN] /\ ready' \subseteq Messages
        /\ disruptions' \in Nat
    BY <1>10 DEF RestartBroker, Disrupt, InFlight
  <2>5. \A c \in Consumers : IsFiniteSet(unacked'[c]) /\ Cardinality(unacked'[c]) <= Prefetch
    <3>1. IsFiniteSet({}) /\ Cardinality({}) <= Prefetch
      BY <2>1
    <3> HIDE DEF TypeInv, TypeOK, HandInv
    <3> QED
      BY <2>2, <3>1
  <2>6. UNCHANGED <<bound, acked, dropped, sent, unrouted, at, done, tries>>
    BY <1>10 DEF RestartBroker
  <2> QED
    BY <2>2, <2>3, <2>4, <2>5, <2>6
<1>9. CASE UNCHANGED vars
  BY <1>9 DEF vars, broker
<1> QED
  BY <1>1, <1>2, <1>3, <1>4, <1>5, <1>6, <1>7, <1>8, <1>9, <1>10 DEF Next, Loop, Quiet

-----------------------------------------------------------------------------
(* Where messages are.                                                         *)

LEMMA StepPlace == TypeInv /\ PlaceInv /\ [Next]_vars => PlaceInv'
<1> SUFFICES ASSUME TypeInv, PlaceInv, [Next]_vars PROVE PlaceInv'
  OBVIOUS
<1> USE DEF PlaceInv, OnePlace, NothingVanishes, AckedWasDone, InFlight
<1>0. TypeOK /\ HandInv
  BY DEF TypeInv
<1>d. disruptions \in Nat
  BY <1>0 DEF TypeOK
<1>1. ASSUME NEW m \in Messages, Publish(m) PROVE PlaceInv'
  BY <1>1, <1>d DEF Publish, Disrupt
<1>2. ASSUME NEW c \in Consumers, Subscribe(c) PROVE PlaceInv'
  BY <1>2 DEF Subscribe
<1>3. ASSUME NEW c \in Consumers, NEW m \in Messages, Push(c, m) PROVE PlaceInv'
  <2>1. /\ unacked'[c] = unacked[c] \union {m}
        /\ \A d \in Consumers \ {c} : unacked'[d] = unacked[d]
    BY <1>0, <1>3 DEF Push, TypeOK
  <2>2. InFlight' = InFlight \union {m} /\ ready' = ready \ {m} /\ m \in ready
    BY <1>3, <2>1 DEF Push
  <2> QED
    BY <1>3, <2>1, <2>2 DEF Push
<1>4. ASSUME NEW c \in Consumers, Take(c) PROVE PlaceInv'
  BY <1>4 DEF Take, broker
<1>5. ASSUME NEW c \in Consumers, Handle(c) PROVE PlaceInv'
  BY <1>5 DEF Handle, broker
<1>6. ASSUME NEW c \in Consumers, Settle(c) PROVE PlaceInv'
  <2>1. /\ unacked'[c] = unacked[c] \ {at[c]}
        /\ \A d \in Consumers \ {c} : unacked'[d] = unacked[d]
    BY <1>0, <1>6 DEF Settle, TypeOK
  <2>2. CASE ~connected[c]
    <3>1. /\ acked' = acked /\ dropped' = dropped
          /\ \A d \in Consumers : unacked'[d] = unacked[d]
      BY <1>0, <1>6, <2>1, <2>2 DEF Settle, HandInv
    <3> QED
      BY <1>6, <3>1 DEF Settle
  <2>3. CASE connected[c]
    <3>1. /\ at[c] \in unacked[c]
          /\ \/ acked' = acked \union {at[c]} /\ dropped' = dropped /\ at[c] \in done
             \/ acked' = acked /\ dropped' = dropped \union {at[c]}
      BY <1>0, <1>6, <2>3 DEF Settle, HandInv, Handling
    <3>2. InFlight' = InFlight \ {at[c]}
      BY <2>1, <3>1
    <3> QED
      BY <1>6, <2>1, <3>1, <3>2 DEF Settle
  <2> QED
    BY <2>2, <2>3
<1>7. ASSUME NEW c \in Consumers, LoseConnection(c) \/ Restart(c) PROVE PlaceInv'
  <2>1. /\ unacked'[c] = {} /\ ready' = ready \union unacked[c]
        /\ \A d \in Consumers \ {c} : unacked'[d] = unacked[d]
    BY <1>0, <1>7 DEF LoseConnection, Restart, Requeue, TypeOK
  <2>2. ready' \union InFlight' = ready \union InFlight /\ InFlight' = InFlight \ unacked[c]
    BY <2>1
  <2>3. disruptions' = disruptions + 1 /\ perished' = perished
    BY <1>7 DEF LoseConnection, Restart, Disrupt
  <2>4. disruptions' /= 0
    BY <1>d, <2>3
  <2> QED
    BY <1>7, <2>1, <2>2, <2>3, <2>4 DEF LoseConnection, Restart
<1>9. CASE RestartBroker
  <2>1. /\ ready' = {} /\ \A c \in Consumers : unacked'[c] = {}
        /\ perished' = perished \union ready \union InFlight
        /\ UNCHANGED <<acked, dropped, sent, unrouted, done>>
        /\ disruptions' = disruptions + 1
    BY <1>9 DEF RestartBroker, Disrupt
  <2>2. InFlight' = {} /\ disruptions' /= 0
    BY <1>d, <2>1
  <2> QED
    BY <2>1, <2>2
<1>8. CASE UNCHANGED vars
  BY <1>8 DEF vars, broker
<1> QED
  BY <1>1, <1>2, <1>3, <1>4, <1>5, <1>6, <1>7, <1>8, <1>9 DEF Next, Loop, Quiet

-----------------------------------------------------------------------------
(* How often a handler sees a message.                                         *)

LEMMA StepRepeat == TypeInv /\ PlaceInv /\ RepeatInv /\ [Next]_vars => RepeatInv'
<1> SUFFICES ASSUME TypeInv, PlaceInv, RepeatInv, [Next]_vars PROVE RepeatInv'
  OBVIOUS
<1>0. TypeOK /\ HandInv
  BY DEF TypeInv
<1> USE <1>0 DEF RepeatInv, RepeatsNeedDisruption, TypeOK
<1>1. ASSUME NEW m \in Messages, Publish(m) PROVE RepeatInv'
  <2>1. /\ disruptions' \in Nat /\ disruptions' >= disruptions
        /\ ready' \subseteq ready \union {m} /\ m \notin sent /\ sent' = sent \union {m}
        /\ UNCHANGED <<unacked, at, tries>>
    BY <1>1 DEF Publish, Disrupt
  <2>2. tries[m] = 0 /\ \A n \in Messages : tries[n] \in Nat
    BY <2>1
  <2>3. \A n \in ready' : tries[n] <= disruptions'
    BY <2>1, <2>2
  <2>4. \A c \in Consumers : \A n \in unacked[c] : n /= at[c] => tries[n] <= disruptions'
    BY <2>1, <2>2
  <2>5. \A n \in Messages : tries[n] <= 1 + disruptions'
    BY <2>1, <2>2
  <2> QED
    BY <2>1, <2>3, <2>4, <2>5
<1>2. ASSUME NEW c \in Consumers, Subscribe(c) PROVE RepeatInv'
  BY <1>2 DEF Subscribe
<1>3. ASSUME NEW c \in Consumers, NEW m \in Messages, Push(c, m) PROVE RepeatInv'
  BY <1>3 DEF Push
<1>4. ASSUME NEW c \in Consumers, Take(c) PROVE RepeatInv'
  <2>1. PICK m \in unacked[c] : at' = [at EXCEPT ![c] = m] /\ tries' = [tries EXCEPT ![m] = @ + 1]
    BY <1>4 DEF Take
  <2>2. /\ m \in Messages /\ m \in sent /\ m \notin ready
        /\ \A d \in Consumers \ {c} : m \notin unacked[d]
    BY DEF PlaceInv, OnePlace, NothingVanishes, InFlight
  <2>3. at[c] = None /\ m /= None
    BY <1>4, <2>2, QueueAssumption DEF Take, HandInv, Handling
  <2>4. tries[m] <= disruptions
    BY <2>3
  <2>5. /\ at'[c] = m /\ \A d \in Consumers \ {c} : at'[d] = at[d]
        /\ tries'[m] = tries[m] + 1 /\ \A n \in Messages \ {m} : tries'[n] = tries[n]
        /\ UNCHANGED <<ready, unacked, sent, disruptions>>
    BY <1>4, <2>1, <2>2 DEF Take, broker
  <2>6. ASSUME NEW d \in Consumers, NEW n \in unacked[d], n /= at'[d]
        PROVE  tries'[n] <= disruptions
    <3>1. n /= m
      BY <2>2, <2>5, <2>6
    <3>2. n /= at[d]
      BY <2>3, <2>5, <2>6, QueueAssumption
    <3> QED
      BY <2>5, <3>1, <3>2
  <2> QED
    BY <2>2, <2>4, <2>5, <2>6
<1>5. ASSUME NEW c \in Consumers, Handle(c) PROVE RepeatInv'
  BY <1>5 DEF Handle, broker
<1>6. ASSUME NEW c \in Consumers, Settle(c) PROVE RepeatInv'
  <2>1. /\ unacked'[c] = unacked[c] \ {at[c]}
        /\ \A d \in Consumers \ {c} : unacked'[d] = unacked[d] /\ at'[d] = at[d]
    BY <1>6 DEF Settle
  <2> QED
    BY <1>6, <2>1 DEF Settle
<1>7. ASSUME NEW c \in Consumers, LoseConnection(c) \/ Restart(c) PROVE RepeatInv'
  <2>1. /\ unacked'[c] = {} /\ ready' = ready \union unacked[c]
        /\ \A d \in Consumers \ {c} : unacked'[d] = unacked[d] /\ at'[d] = at[d]
        /\ disruptions' = disruptions + 1 /\ UNCHANGED <<tries, sent>>
    BY <1>7 DEF LoseConnection, Restart, Requeue, Disrupt
  <2> QED
    BY <2>1
<1>9. CASE RestartBroker
  <2>1. /\ ready' = {} /\ \A c \in Consumers : unacked'[c] = {}
        /\ disruptions' = disruptions + 1 /\ UNCHANGED <<tries, sent>>
    BY <1>9 DEF RestartBroker, Disrupt
  <2> QED
    BY <2>1
<1>8. CASE UNCHANGED vars
  BY <1>8 DEF vars, broker
<1> QED
  BY <1>1, <1>2, <1>3, <1>4, <1>5, <1>6, <1>7, <1>8, <1>9 DEF Next, Loop, Quiet

-----------------------------------------------------------------------------
(* The theorems.                                                               *)

LEMMA Invariance == Spec => []IInv
<1>1. IInv /\ [Next]_vars => IInv'
  BY StepType, StepPlace, StepRepeat DEF IInv
<1> QED
  BY InitInv, <1>1, PTL DEF Spec

\* Every variable keeps its type, and no consumer holds more than its prefetch.
THEOREM TypeCorrect == Spec => []TypeOK
<1>1. IInv => TypeOK
  BY DEF IInv, TypeInv
<1> QED
  BY Invariance, <1>1, PTL

\* A message is handed to one consumer at a time and settled once, through lost
\* connections and restarts, and what perished in the broker never comes back.
THEOREM MessagesHaveOnePlace == Spec => []OnePlace
<1>1. IInv => OnePlace
  BY DEF IInv, PlaceInv
<1> QED
  BY Invariance, <1>1, PTL

\* Of what was published, nothing gets lost through lost connections and restarts of
\* the consumers: a message that is nowhere was sent before anyone had subscribed, or
\* perished with the broker or the publisher's connection.
THEOREM MessagesStay == Spec => []NothingVanishes
<1>1. IInv => NothingVanishes
  BY DEF IInv, PlaceInv
<1> QED
  BY Invariance, <1>1, PTL

\* The loop acknowledges after the handler's work, never before.
THEOREM AckFollowsWork == Spec => []AckedWasDone
<1>1. IInv => AckedWasDone
  BY DEF IInv, PlaceInv
<1> QED
  BY Invariance, <1>1, PTL

\* Each repetition of a message at a handler is the price of one disruption.
THEOREM RepetitionsArePaid == Spec => []RepeatsNeedDisruption
<1>1. IInv => RepeatsNeedDisruption
  BY DEF IInv, RepeatInv
<1> QED
  BY Invariance, <1>1, PTL
=============================================================================

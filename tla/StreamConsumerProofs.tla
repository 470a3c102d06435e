------------------------- MODULE StreamConsumerProofs -------------------------
(* Proofs about StreamConsumer, for any events, members, topic length and     *)
(* number of disruptions.                                                     *)
EXTENDS StreamConsumer, TLAPS

-----------------------------------------------------------------------------
(* The inductive invariant, in three layers.                                  *)

Handling == {"mark", "work", "dlq", "commit"}

\* A member that handles a message is at a message of the topic.
AtMessage == \A c \in Consumers : phase[c] \in Handling => at[c] \in 1..Len(log)

TypeInv == TypeOK /\ AtMessage

\* Work done was marked first; an event marked and not yet worked on is in the
\* hands of one member at most.
WorkInv ==
    /\ AtMostOnce
    /\ \A id \in Ids : effects[id] > 0 => id \in processed
    /\ \A c \in Consumers :
          phase[c] = "work" => Event(c) \in processed /\ effects[Event(c)] = 0
    /\ \A c, d \in Consumers :
          c /= d /\ phase[c] = "work" /\ phase[d] = "work" => Event(c) /= Event(d)

\* Handled, or given up for one of the two known causes.
Accounted(id) == Handled(id) \/ id \in interrupted \/ id \in unparked

\* Everything a member has left behind is accounted for, and so is everything
\* marked: that is why a member may skip an event it finds in processed_events.
BehindIsAccounted(c) ==
    /\ c \in assigned =>
          \A o \in 1..pos[c] :
              \/ Accounted(log[o])
              \/ phase[c] \in {"mark", "work", "dlq"} /\ o = at[c]
    /\ phase[c] \in Handling => \A o \in 1..(at[c] - 1) : Accounted(log[o])
    /\ phase[c] = "commit" => Accounted(log[at[c]])

LossInv ==
    /\ LossHasACause
    /\ \A id \in processed : Accounted(id)
    /\ \A c \in Consumers : BehindIsAccounted(c)

IInv == TypeInv /\ WorkInv /\ LossInv

-----------------------------------------------------------------------------
(* Type correctness.                                                          *)

LEMMA InitInv == Init => IInv
BY ConsumerAssumption
   DEF Init, IInv, TypeInv, TypeOK, AtMessage, Handling, Phases, WorkInv, AtMostOnce,
       LossInv, LossHasACause, BehindIsAccounted

\* The topic only grows.
LEMMA LogGrows ==
    ASSUME TypeOK, [Next]_vars
    PROVE  /\ log' \in Seq(Ids)
           /\ Len(log) \in Nat /\ Len(log') \in Nat
           /\ Len(log) =< Len(log')
           /\ \A o \in 1..Len(log) : log[o] \in Ids /\ log'[o] = log[o]
<1> USE DEF TypeOK
<1>1. ASSUME NEW id \in Ids, Produce(id)
      PROVE  /\ log' \in Seq(Ids) /\ Len(log') = Len(log) + 1
             /\ \A o \in 1..Len(log) : log'[o] = log[o]
  BY <1>1 DEF Produce
<1>2. CASE log' = log
  BY <1>2
<1>3. (\E id \in Ids : Produce(id)) \/ log' = log
  BY DEF Next, Loop, Fetch, Mark, Work, PublishDLQ, Commit, Assign, Revoke, LoopExits,
         Crash, Waiting, vars, broker
<1> QED
  BY <1>1, <1>2, <1>3

LEMMA EventIsKnown ==
    ASSUME TypeInv, NEW c \in Consumers, phase[c] \in Handling
    PROVE  Event(c) \in Ids /\ at[c] \in 1..Len(log)
BY DEF TypeInv, TypeOK, AtMessage, Event

LEMMA StepType == TypeInv /\ [Next]_vars => TypeInv'
<1> SUFFICES ASSUME TypeInv, [Next]_vars PROVE TypeInv'
  OBVIOUS
<1>0. TypeOK /\ AtMessage
  BY DEF TypeInv
<1>a. /\ log' \in Seq(Ids)
      /\ Len(log) \in Nat /\ Len(log') \in Nat
      /\ Len(log) =< Len(log')
      /\ \A o \in 1..Len(log) : log[o] \in Ids /\ log'[o] = log[o]
  BY <1>0, LogGrows
<1> USE <1>0, <1>a, ConsumerAssumption DEF TypeInv, TypeOK, AtMessage, Handling, Phases
<1>1. ASSUME NEW id \in Ids, Produce(id) PROVE TypeInv'
  BY <1>1 DEF Produce, member, history
<1>2. ASSUME NEW c \in Consumers, Fetch(c) PROVE TypeInv'
  BY <1>2 DEF Fetch, Goto, broker, history
<1>3. ASSUME NEW c \in Consumers, Mark(c) PROVE TypeInv'
  BY <1>3 DEF Mark, Goto, Event, broker, history
<1>4. ASSUME NEW c \in Consumers, Work(c) PROVE TypeInv'
  <2>1. PICK n \in 0..1 : effects' = [effects EXCEPT ![Event(c)] = @ + n]
    BY <1>4 DEF Work
  <2>2. Event(c) \in Ids
    BY <1>4, EventIsKnown DEF Work
  <2>3. effects' \in [Ids -> Nat]
    BY <2>1, <2>2
  <2> QED
    BY <1>4, <2>3 DEF Work, Goto, broker, history
<1>5. ASSUME NEW c \in Consumers, PublishDLQ(c) PROVE TypeInv'
  BY <1>5 DEF PublishDLQ, Goto, Event
<1>6. ASSUME NEW c \in Consumers, Commit(c) PROVE TypeInv'
  BY <1>6 DEF Commit, Goto, history
<1>7. ASSUME NEW c \in Consumers, Assign(c) PROVE TypeInv'
  BY <1>7 DEF Assign, Disrupt, history
<1>8. ASSUME NEW c \in Consumers, Revoke(c) PROVE TypeInv'
  BY <1>8 DEF Revoke, member, history
<1>9. ASSUME NEW c \in Consumers, LoopExits(c) PROVE TypeInv'
  BY <1>9 DEF LoopExits, Disrupt, Goto, history
<1>10. ASSUME NEW c \in Consumers, Crash(c) PROVE TypeInv'
  BY <1>10 DEF Crash, Disrupt, Goto, Event
<1>11. CASE UNCHANGED vars
  BY <1>11 DEF vars, broker, member, history
<1> QED
  BY <1>1, <1>2, <1>3, <1>4, <1>5, <1>6, <1>7, <1>8, <1>9, <1>10, <1>11
     DEF Next, Loop, Waiting

-----------------------------------------------------------------------------
(* The work happens once.                                                     *)

LEMMA StepWork == TypeInv /\ WorkInv /\ [Next]_vars => WorkInv'
<1> SUFFICES ASSUME TypeInv, WorkInv, [Next]_vars PROVE WorkInv'
  OBVIOUS
<1>a. /\ effects \in [Ids -> Nat]
      /\ \A c \in Consumers : phase[c] \in Handling =>
            /\ Event(c) \in Ids /\ at[c] \in 1..Len(log)
            /\ log'[at[c]] = log[at[c]]
  BY LogGrows, EventIsKnown DEF TypeInv, TypeOK
<1> USE <1>a DEF WorkInv, AtMostOnce, Event, Handling
<1>1. ASSUME NEW id \in Ids, Produce(id) PROVE WorkInv'
  BY <1>1 DEF Produce, member
<1>2. ASSUME NEW c \in Consumers, Fetch(c) PROVE WorkInv'
  BY <1>2 DEF Fetch, Goto, broker, TypeInv, TypeOK
<1>3. ASSUME NEW c \in Consumers, Mark(c) PROVE WorkInv'
  <2>0. /\ \A d \in Consumers \ {c} : phase'[d] = phase[d]
        /\ at' = at /\ log' = log /\ effects' = effects
        /\ processed \subseteq processed'
        /\ Event(c) \in Ids
    BY <1>3 DEF Mark, Goto, broker, TypeInv, TypeOK
  <2>1. CASE Event(c) \notin processed /\ Event(c) \in processed' /\ phase'[c] = "work"
    <3>1. effects[Event(c)] = 0
      BY <2>0, <2>1
    <3>2. \A d \in Consumers \ {c} : phase[d] = "work" => Event(d) /= Event(c)
      BY <2>1
    <3> QED
      BY <2>0, <2>1, <3>1, <3>2
  <2>2. CASE phase'[c] /= "work"
    BY <2>0, <2>2
  <2> QED
    BY <1>3, <2>1, <2>2 DEF Mark, Goto, TypeInv, TypeOK
<1>4. ASSUME NEW c \in Consumers, Work(c) PROVE WorkInv'
  <2>1. PICK n \in 0..1 : effects' = [effects EXCEPT ![Event(c)] = @ + n]
    BY <1>4 DEF Work
  <2>2. /\ phase[c] = "work" /\ phase'[c] /= "work"
        /\ \A d \in Consumers \ {c} : phase'[d] = phase[d]
        /\ at' = at /\ log' = log /\ processed' = processed
    BY <1>4 DEF Work, Goto, broker, TypeInv, TypeOK
  <2>3. /\ Event(c) \in processed /\ effects'[Event(c)] = n
        /\ \A id \in Ids \ {Event(c)} : effects'[id] = effects[id]
    BY <2>1, <2>2
  <2> QED
    BY <2>2, <2>3
<1>5. ASSUME NEW c \in Consumers, PublishDLQ(c) PROVE WorkInv'
  BY <1>5 DEF PublishDLQ, Goto, TypeInv, TypeOK
<1>6. ASSUME NEW c \in Consumers, Commit(c) PROVE WorkInv'
  BY <1>6 DEF Commit, Goto, TypeInv, TypeOK
<1>7. ASSUME NEW c \in Consumers, Assign(c) PROVE WorkInv'
  BY <1>7 DEF Assign
<1>8. ASSUME NEW c \in Consumers, Revoke(c) PROVE WorkInv'
  BY <1>8 DEF Revoke, member
<1>9. ASSUME NEW c \in Consumers, LoopExits(c) PROVE WorkInv'
  BY <1>9 DEF LoopExits, Goto, TypeInv, TypeOK
<1>10. ASSUME NEW c \in Consumers, Crash(c) PROVE WorkInv'
  BY <1>10 DEF Crash, Goto, TypeInv, TypeOK
<1>11. CASE UNCHANGED vars
  BY <1>11 DEF vars, broker, member
<1> QED
  BY <1>1, <1>2, <1>3, <1>4, <1>5, <1>6, <1>7, <1>8, <1>9, <1>10, <1>11
     DEF Next, Loop, Waiting

-----------------------------------------------------------------------------
(* No event is lost without a cause.                                          *)

\* What is accounted for stays so: whoever held the event has worked on it,
\* still holds it, has parked it, failed to, or was interrupted.
LEMMA AccountedStays ==
    ASSUME TypeInv, [Next]_vars, NEW id \in Ids, Accounted(id)
    PROVE  Accounted(id)'
<1>a. /\ effects \in [Ids -> Nat]
      /\ phase \in [Consumers -> Phases]
      /\ \A c \in Consumers : phase[c] \in Handling =>
            /\ Event(c) \in Ids /\ at[c] \in 1..Len(log)
            /\ log'[at[c]] = log[at[c]]
  BY LogGrows, EventIsKnown DEF TypeInv, TypeOK
<1> USE <1>a DEF Accounted, Handled, InHand, Event, Handling
<1>1. ASSUME NEW x \in Ids, Produce(x) PROVE Accounted(id)'
  BY <1>1 DEF Produce, member, history
<1>2. ASSUME NEW c \in Consumers, Fetch(c) PROVE Accounted(id)'
  <2>1. \A d \in Consumers : phase[d] \in {"work", "dlq"} =>
            phase'[d] = phase[d] /\ at'[d] = at[d]
    BY <1>2 DEF Fetch, Goto, TypeInv, TypeOK
  <2> QED
    BY <1>2, <2>1 DEF Fetch, broker, history
<1>3. ASSUME NEW c \in Consumers, Mark(c) PROVE Accounted(id)'
  <2>1. \A d \in Consumers : phase[d] \in {"work", "dlq"} => phase'[d] = phase[d]
    BY <1>3 DEF Mark, Goto
  <2>2. processed \subseteq processed'
    BY <1>3 DEF Mark
  <2> QED
    BY <1>3, <2>1, <2>2 DEF Mark, broker, history
<1>4. ASSUME NEW c \in Consumers, Work(c) PROVE Accounted(id)'
  <2>1. PICK n \in 0..1 : effects' = [effects EXCEPT ![Event(c)] = @ + n]
    BY <1>4 DEF Work
  <2>2. /\ at' = at /\ log' = log /\ processed' = processed
        /\ dead' = dead /\ interrupted' = interrupted /\ unparked' = unparked
        /\ \A d \in Consumers \ {c} : phase'[d] = phase[d]
        /\ \A x \in Ids : effects[x] > 0 => effects'[x] > 0
    BY <1>4, <2>1 DEF Work, Goto, broker, history
  <2>3. phase'[c] = "dlq" \/ effects'[Event(c)] > 0
    BY <1>4 DEF Work, Goto
  <2>4. CASE InHand(id)
    BY <2>2, <2>3, <2>4
  <2> QED
    BY <2>2, <2>4
<1>5. ASSUME NEW c \in Consumers, PublishDLQ(c) PROVE Accounted(id)'
  <2>1. /\ at' = at /\ log' = log /\ processed' = processed /\ effects' = effects
        /\ interrupted' = interrupted
        /\ dead \subseteq dead' /\ unparked \subseteq unparked'
        /\ Event(c) \in dead' \union unparked'
        /\ \A d \in Consumers \ {c} : phase'[d] = phase[d]
    BY <1>5 DEF PublishDLQ, Goto
  <2> QED
    BY <2>1
<1>6. ASSUME NEW c \in Consumers, Commit(c) PROVE Accounted(id)'
  <2>1. \A d \in Consumers : phase[d] \in {"work", "dlq"} => phase'[d] = phase[d]
    BY <1>6 DEF Commit, Goto
  <2> QED
    BY <1>6, <2>1 DEF Commit, history
<1>7. ASSUME NEW c \in Consumers, Assign(c) PROVE Accounted(id)'
  BY <1>7 DEF Assign, history
<1>8. ASSUME NEW c \in Consumers, Revoke(c) PROVE Accounted(id)'
  BY <1>8 DEF Revoke, member, history
<1>9. ASSUME NEW c \in Consumers, LoopExits(c) PROVE Accounted(id)'
  <2>1. \A d \in Consumers : phase[d] \in {"work", "dlq"} => phase'[d] = phase[d]
    BY <1>9 DEF LoopExits, Goto
  <2> QED
    BY <1>9, <2>1 DEF LoopExits, history
<1>10. ASSUME NEW c \in Consumers, Crash(c) PROVE Accounted(id)'
  <2>1. /\ at' = at /\ log' = log /\ processed' = processed /\ effects' = effects
        /\ dead' = dead /\ unparked' = unparked
        /\ interrupted \subseteq interrupted'
        /\ phase[c] \in {"work", "dlq"} /\ Event(c) \in processed =>
              Event(c) \in interrupted'
        /\ \A d \in Consumers \ {c} : phase'[d] = phase[d]
    BY <1>10 DEF Crash, Goto
  <2> QED
    BY <2>1
<1>11. CASE UNCHANGED vars
  BY <1>11 DEF vars, broker, member, history
<1> QED
  BY <1>1, <1>2, <1>3, <1>4, <1>5, <1>6, <1>7, <1>8, <1>9, <1>10, <1>11
     DEF Next, Loop, Waiting

\* A message of the topic stays accounted for at its offset.
LEMMA OffsetStays ==
    ASSUME TypeInv, [Next]_vars, NEW o \in 1..Len(log), Accounted(log[o])
    PROVE  o \in 1..Len(log') /\ Accounted(log[o])' /\ log'[o] = log[o]
<1>1. /\ log[o] \in Ids /\ log'[o] = log[o] /\ o \in 1..Len(log')
  BY LogGrows DEF TypeInv
<1>2. \A id \in Ids : Accounted(id) => Accounted(id)'
  BY AccountedStays
<1> QED
  BY <1>1, <1>2 DEF Accounted, Handled, InHand

\* A member that does not move keeps what it has left behind accounted for.
LEMMA BehindStays ==
    ASSUME TypeInv, [Next]_vars, NEW c \in Consumers, BehindIsAccounted(c),
           pos'[c] = pos[c], at'[c] = at[c], phase'[c] = phase[c],
           c \in assigned' => c \in assigned
    PROVE  BehindIsAccounted(c)'
<1>1. /\ pos[c] \in 0..Len(log) /\ Len(log) \in Nat
      /\ phase[c] \in Handling => at[c] \in 1..Len(log)
  BY LogGrows DEF TypeInv, TypeOK, AtMessage
<1>2. \A o \in 1..Len(log) : Accounted(log[o]) => Accounted(log[o])'
  BY OffsetStays
<1> QED
  BY <1>1, <1>2 DEF BehindIsAccounted, Handling

LEMMA StepLoss == TypeInv /\ LossInv /\ [Next]_vars => LossInv'
<1> SUFFICES ASSUME TypeInv, LossInv, [Next]_vars PROVE LossInv'
  OBVIOUS
<1>a. /\ log' \in Seq(Ids) /\ Len(log) \in Nat /\ Len(log') \in Nat
      /\ Len(log) =< Len(log')
      /\ committed \in 0..Len(log)
      /\ pos \in [Consumers -> 0..Len(log)] /\ at \in [Consumers -> 0..Len(log)]
      /\ phase \in [Consumers -> Phases]
      /\ processed \subseteq Ids
      /\ \A c \in Consumers : phase[c] \in Handling =>
            Event(c) \in Ids /\ at[c] \in 1..Len(log)
  BY LogGrows, EventIsKnown DEF TypeInv, TypeOK
<1>b. \A o \in 1..Len(log) : Accounted(log[o]) => Accounted(log[o])'
  BY OffsetStays
<1>c. \A id \in Ids : Accounted(id) => Accounted(id)'
  BY AccountedStays
<1>d. \A o \in 1..committed : Accounted(log[o])
  BY DEF LossInv, LossHasACause, Accounted
<1>e. ASSUME committed' = committed PROVE LossHasACause'
  BY <1>a, <1>b, <1>d, <1>e DEF LossHasACause, Accounted
<1>f. ASSUME processed' = processed PROVE \A id \in processed' : Accounted(id)'
  BY <1>a, <1>c, <1>f DEF LossInv
<1>g. ASSUME NEW c \in Consumers, pos'[c] = pos[c], at'[c] = at[c],
             phase'[c] = phase[c], c \in assigned' => c \in assigned
      PROVE  BehindIsAccounted(c)'
  BY <1>g, BehindStays DEF LossInv
\* The member that acts, d, is the only one to look at.
<1>h. ASSUME committed' = committed, processed' = processed,
             NEW d \in Consumers, BehindIsAccounted(d)',
             \A c \in Consumers \ {d} : /\ pos'[c] = pos[c] /\ at'[c] = at[c]
                                        /\ phase'[c] = phase[c]
                                        /\ c \in assigned' => c \in assigned
      PROVE  LossInv'
  <2>1. \A c \in Consumers : BehindIsAccounted(c)'
    BY <1>g, <1>h
  <2> QED
    BY <1>e, <1>f, <1>h, <2>1 DEF LossInv
<1>1. ASSUME NEW id \in Ids, Produce(id) PROVE LossInv'
  BY <1>1, <1>e, <1>f, <1>g DEF Produce, member, LossInv
<1>2. ASSUME NEW c \in Consumers, Fetch(c) PROVE LossInv'
  <2>1. /\ c \in assigned /\ phase[c] = "fetch" /\ pos[c] < Len(log)
        /\ pos'[c] = pos[c] + 1 /\ at'[c] = pos[c] + 1 /\ phase'[c] = "mark"
        /\ log' = log
    BY <1>2, <1>a DEF Fetch, Goto, broker
  <2>2. ASSUME NEW o \in 1..pos[c] PROVE Accounted(log[o])'
    <3>1. o \in 1..Len(log) /\ pos[c] \in Nat
      BY <1>a, <2>1
    <3>2. Accounted(log[o])
      BY <2>1 DEF LossInv, BehindIsAccounted
    <3> QED
      BY <1>b, <3>1, <3>2
  <2>3. ASSUME NEW o \in 1..pos'[c], o /= at'[c] PROVE Accounted(log[o])'
    <3>1. o \in 1..pos[c]
      BY <1>a, <2>1, <2>3
    <3> QED
      BY <2>2, <3>1
  <2>4. ASSUME NEW o \in 1..(at'[c] - 1) PROVE Accounted(log[o])'
    <3>1. o \in 1..pos[c]
      BY <1>a, <2>1
    <3> QED
      BY <2>2, <3>1
  <2>5. BehindIsAccounted(c)'
    BY <2>1, <2>3, <2>4 DEF BehindIsAccounted
  <2> QED
    BY <1>2, <1>a, <1>h, <2>5 DEF Fetch, Goto, broker
<1>3. ASSUME NEW c \in Consumers, Mark(c) PROVE LossInv'
  <2>1. /\ phase[c] = "mark" /\ phase'[c] \in {"work", "dlq", "commit"}
        /\ pos' = pos /\ at' = at /\ log' = log /\ assigned' = assigned
        /\ committed' = committed
        /\ \A d \in Consumers \ {c} : phase'[d] = phase[d]
        /\ processed' \subseteq processed \union {Event(c)}
    BY <1>3, <1>a DEF Mark, Goto, broker
  <2>2. phase'[c] = "commit" => Accounted(log[at[c]])'
    <3>1. phase'[c] = "commit" => Event(c) \in processed
      BY <1>3, <1>a DEF Mark, Goto
    <3> QED
      BY <1>a, <1>b, <2>1, <3>1 DEF LossInv, Event, Handling
  <2>3. BehindIsAccounted(c)'
    BY <1>a, <1>b, <2>1, <2>2 DEF LossInv, BehindIsAccounted, Handling
  <2>4. \A id \in processed' : Accounted(id)'
    <3>1. Event(c) \in processed' => phase'[c] \in {"work", "dlq"} \/ Event(c) \in processed
      BY <1>3, <1>a DEF Mark, Goto
    <3>2. \A id \in processed : Accounted(id)'
      BY <1>a, <1>c DEF LossInv
    <3>3. Event(c) \in processed' => Accounted(Event(c))'
      BY <2>1, <3>1, <3>2 DEF Accounted, Handled, InHand, Event
    <3> QED
      BY <2>1, <3>2, <3>3 DEF Event
  <2>5. \A d \in Consumers : BehindIsAccounted(d)'
    BY <1>g, <2>1, <2>3
  <2> QED
    BY <1>e, <2>1, <2>4, <2>5 DEF LossInv
<1>4. ASSUME NEW c \in Consumers, Work(c) PROVE LossInv'
  <2>1. /\ phase[c] = "work" /\ phase'[c] \in {"dlq", "commit"}
        /\ pos' = pos /\ at' = at /\ log' = log /\ assigned' = assigned
        /\ committed' = committed /\ processed' = processed
        /\ \A d \in Consumers \ {c} : phase'[d] = phase[d]
    BY <1>4, <1>a DEF Work, Goto, broker
  <2>2. phase'[c] = "commit" => Accounted(log[at[c]])'
    <3>1. phase'[c] = "commit" => effects' = [effects EXCEPT ![Event(c)] = @ + 1]
      BY <1>4, <1>a DEF Work, Goto
    <3>2. effects \in [Ids -> Nat] /\ Event(c) \in Ids
      BY <1>a, <2>1 DEF TypeInv, TypeOK, Handling
    <3> QED
      BY <2>1, <3>1, <3>2 DEF Accounted, Handled, Event
  <2>3. BehindIsAccounted(c)'
    BY <1>a, <1>b, <2>1, <2>2 DEF LossInv, BehindIsAccounted, Handling
  <2> QED
    BY <1>h, <2>1, <2>3
<1>5. ASSUME NEW c \in Consumers, PublishDLQ(c) PROVE LossInv'
  <2>1. /\ phase[c] = "dlq" /\ phase'[c] = "commit"
        /\ pos' = pos /\ at' = at /\ log' = log /\ assigned' = assigned
        /\ committed' = committed /\ processed' = processed
        /\ \A d \in Consumers \ {c} : phase'[d] = phase[d]
        /\ Event(c) \in dead' \union unparked'
    BY <1>5, <1>a DEF PublishDLQ, Goto
  <2>2. Accounted(log[at[c]])'
    BY <2>1 DEF Accounted, Handled, Event
  <2>3. BehindIsAccounted(c)'
    BY <1>a, <1>b, <2>1, <2>2 DEF LossInv, BehindIsAccounted, Handling
  <2> QED
    BY <1>h, <2>1, <2>3
<1>6. ASSUME NEW c \in Consumers, Commit(c) PROVE LossInv'
  <2>1. /\ phase[c] = "commit" /\ phase'[c] = "fetch"
        /\ pos' = pos /\ at' = at /\ log' = log /\ assigned' = assigned
        /\ committed' \in {at[c], committed} /\ processed' = processed
        /\ \A d \in Consumers \ {c} : phase'[d] = phase[d]
    BY <1>6, <1>a DEF Commit, Goto
  <2>2. \A o \in 1..at[c] : Accounted(log[o])'
    BY <1>a, <1>b, <2>1 DEF LossInv, BehindIsAccounted, Handling
  <2>3. LossHasACause'
    <3>1. CASE committed' = at[c]
      BY <2>1, <2>2, <3>1 DEF LossHasACause, Accounted
    <3> QED
      BY <1>e, <2>1, <3>1
  <2>4. BehindIsAccounted(c)'
    BY <1>a, <1>b, <2>1 DEF LossInv, BehindIsAccounted, Handling
  <2>5. \A d \in Consumers : BehindIsAccounted(d)'
    BY <1>g, <2>1, <2>4
  <2> QED
    BY <1>f, <2>1, <2>3, <2>5 DEF LossInv
<1>7. ASSUME NEW c \in Consumers, Assign(c) PROVE LossInv'
  <2>1. /\ pos'[c] = committed /\ at' = at /\ log' = log /\ phase' = phase
        /\ committed' = committed /\ processed' = processed
        /\ assigned' = assigned \union {c}
        /\ \A d \in Consumers \ {c} : pos'[d] = pos[d]
    BY <1>7, <1>a DEF Assign
  <2>2. ASSUME NEW o \in 1..pos'[c] PROVE Accounted(log[o])'
    <3>1. o \in 1..committed /\ o \in 1..Len(log)
      BY <1>a, <2>1
    <3>2. Accounted(log[o])
      BY <3>1 DEF LossInv, LossHasACause, Accounted
    <3> QED
      BY <1>b, <2>1, <3>1, <3>2
  <2>3. phase[c] \in Handling => \A o \in 1..(at[c] - 1) : Accounted(log[o])'
    BY <1>a, <1>b, <2>1 DEF LossInv, BehindIsAccounted, Handling
  <2>4. phase[c] = "commit" => Accounted(log[at[c]])'
    BY <1>a, <1>b, <2>1 DEF LossInv, BehindIsAccounted, Handling
  <2>5. BehindIsAccounted(c)'
    BY <2>1, <2>2, <2>3, <2>4 DEF BehindIsAccounted
  <2> QED
    BY <1>h, <2>1, <2>5
<1>8. ASSUME NEW c \in Consumers, Revoke(c) PROVE LossInv'
  BY <1>8, <1>e, <1>f, <1>g DEF Revoke, member, LossInv
<1>9. ASSUME NEW c \in Consumers, LoopExits(c) PROVE LossInv'
  <2>1. /\ phase'[c] = "stopped" /\ c \notin assigned'
        /\ \A d \in Consumers \ {c} : phase'[d] = phase[d]
    BY <1>9, <1>a DEF LoopExits, Goto
  <2>2. BehindIsAccounted(c)'
    BY <2>1 DEF BehindIsAccounted, Handling
  <2> QED
    BY <1>9, <1>h, <2>1, <2>2 DEF LoopExits
<1>10. ASSUME NEW c \in Consumers, Crash(c) PROVE LossInv'
  <2>1. /\ phase'[c] = "fetch" /\ c \notin assigned'
        /\ \A d \in Consumers \ {c} : phase'[d] = phase[d]
    BY <1>10, <1>a DEF Crash, Goto
  <2>2. BehindIsAccounted(c)'
    BY <2>1 DEF BehindIsAccounted, Handling
  <2> QED
    BY <1>10, <1>h, <2>1, <2>2 DEF Crash
<1>11. CASE UNCHANGED vars
  BY <1>11, <1>e, <1>f, <1>g DEF vars, broker, member, LossInv
<1> QED
  BY <1>1, <1>2, <1>3, <1>4, <1>5, <1>6, <1>7, <1>8, <1>9, <1>10, <1>11
     DEF Next, Loop, Waiting

-----------------------------------------------------------------------------
(* The theorems.                                                              *)

LEMMA Invariance == Spec => []IInv
<1>1. IInv /\ [Next]_vars => IInv'
  BY StepType, StepWork, StepLoss DEF IInv
<1> QED
  BY InitInv, <1>1, PTL DEF Spec

\* Every variable keeps its type.
THEOREM TypeCorrect == Spec => []TypeOK
<1>1. IInv => TypeOK
  BY DEF IInv, TypeInv
<1> QED
  BY Invariance, <1>1, PTL

\* The handler's work is done at most once per event, however often the topic
\* repeats it, offsets go back and members change (MarkIfNew).
THEOREM WorkHappensOnce == Spec => []AtMostOnce
<1>1. IInv => AtMostOnce
  BY DEF IInv, WorkInv
<1> QED
  BY Invariance, <1>1, PTL

\* The committed offset passes no event that is not handled, interrupted after
\* MarkIfNew, or left unparked by a failed dead-letter publish.
THEOREM NoOtherLoss == Spec => []LossHasACause
<1>1. IInv => LossHasACause
  BY DEF IInv, LossInv
<1> QED
  BY Invariance, <1>1, PTL
=============================================================================

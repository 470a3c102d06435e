---------------------------- MODULE UserFacingProofs ----------------------------
(* Proofs about what users get to see: the mails (Alerts), the accounts           *)
(* (Accounts) and the pages (RecommendationCache), three components that share no *)
(* state, each for any value of its constants.                                    *)
EXTENDS Alerts, Accounts, RecommendationCache, TLAPS

-----------------------------------------------------------------------------
(* The inductive invariant, in three parts.                                      *)

\* A handler works on what was announced; only Kafka's marks, and has marked what it
\* counts or sends.
PlaceInv ==
    \A t \in Transports :
        /\ pc[t] /= "idle" => cur[t] \in announced
        /\ pc[t] = "mark" => t = "kafka"
        /\ t = "kafka" /\ pc[t] \in {"count", "send"} => cur[t] \in marked

\* Transport t is about to send a mail for a, if a has matches.
Due(t, a) == t \in Transports /\ pc[t] \in {"count", "send"} /\ cur[t] = a

RabbitDue(a) == IF Due("rabbit", a) THEN 1 ELSE 0
KafkaDue(a)  == IF "kafka" \in Transports /\ (a \notin marked \/ Due("kafka", a)) THEN 1 ELSE 0
KafkaMails   == IF "kafka" \in Transports THEN 1 ELSE 0

\* The mails sent and those still due are covered by the copies taken from RabbitMQ
\* and by the one mail Kafka's mark allows.
MailInv ==
    \A a \in Announcements :
        /\ mails[a] + RabbitDue(a) + KafkaDue(a) <= taken[a] + KafkaMails
        /\ a \in Empty => mails[a] = 0

\* An announcement is mailed, or the relay still has it, or each transport gave it up
\* or still has it; a marked one is no longer among Kafka's copies that count.
Told(a) == a \in Empty \/ mails[a] > 0

SilenceInv ==
    /\ \A a \in announced, t \in Transports :
          \/ Told(a) \/ a \in unsent \/ a \in lost[t] \/ a \in copies[t]
          \/ pc[t] /= "idle" /\ cur[t] = a
    /\ \A a \in marked :
          "kafka" \in Transports => Told(a) \/ a \in lost["kafka"] \/ Due("kafka", a)

IInv == TypeOK /\ PlaceInv /\ MailInv /\ SilenceInv

LEMMA InitInv == Init => IInv
<1> SUFFICES ASSUME Init PROVE IInv
  OBVIOUS
<1>1. TypeOK
  BY AlertAssumption DEF Init, TypeOK
<1>2. PlaceInv /\ SilenceInv
  BY DEF Init, PlaceInv, SilenceInv
<1>3. MailInv
  <2> SUFFICES ASSUME NEW a \in Announcements
               PROVE  /\ mails[a] + RabbitDue(a) + KafkaDue(a) <= taken[a] + KafkaMails
                      /\ a \in Empty => mails[a] = 0
    BY DEF MailInv
  <2>1. mails[a] = 0 /\ taken[a] = 0
    BY DEF Init
  <2>2. \A t \in Transports : pc[t] = "idle"
    BY DEF Init
  <2>3. RabbitDue(a) = 0 /\ KafkaDue(a) = KafkaMails /\ KafkaMails \in {0, 1}
    BY <2>2 DEF Init, RabbitDue, KafkaDue, KafkaMails, Due
  <2> QED
    BY <2>1, <2>3
<1> QED
  BY <1>1, <1>2, <1>3 DEF IInv

-----------------------------------------------------------------------------
(* Type correctness.                                                             *)

LEMMA StepType == TypeOK /\ PlaceInv /\ [Next]_vars => TypeOK' /\ PlaceInv'
<1> SUFFICES ASSUME TypeOK, PlaceInv, [Next]_vars PROVE TypeOK' /\ PlaceInv'
  OBVIOUS
<1> USE AlertAssumption DEF TypeOK, PlaceInv
<1>f. ASSUME Fine \/ Fault PROVE faults' \in 0..MaxFaults
  BY <1>f DEF Fine, Fault
<1>1. ASSUME NEW a \in Announcements, Announce(a) PROVE TypeOK' /\ PlaceInv'
  BY <1>1 DEF Announce
<1>h. ASSUME NEW a \in announced, NEW ts, HandOver(a, ts), UNCHANGED announced
      PROVE  copies' \in [Transports -> SUBSET announced']
  BY <1>h DEF HandOver
<1>r. ASSUME NEW a \in Announcements, Dispatch(a) PROVE TypeOK' /\ PlaceInv'
  <2>1. a \in announced /\ UNCHANGED announced /\ \E ts \in SUBSET Transports : HandOver(a, ts)
    BY <1>r DEF Dispatch, Reached
  <2>2. copies' \in [Transports -> SUBSET announced']
    BY <1>h, <2>1
  <2> QED
    BY <1>r, <1>f, <2>1, <2>2 DEF Dispatch
<1>s. ASSUME NEW a \in Announcements, DispatchLosing(a) PROVE TypeOK' /\ PlaceInv'
  <2>1. a \in announced /\ UNCHANGED announced
    BY <1>s DEF DispatchLosing
  <2>2. PICK ts \in Reached :
           /\ HandOver(a, ts)
           /\ lost' = [t \in Transports |-> IF t \in ts THEN lost[t] ELSE lost[t] \union {a}]
    BY <1>s DEF DispatchLosing
  <2>3. copies' \in [Transports -> SUBSET announced']
    BY <1>h, <2>1, <2>2
  <2>4. lost' \in [Transports -> SUBSET announced']
    BY <2>1, <2>2
  <2> QED
    BY <1>s, <1>f, <2>3, <2>4 DEF DispatchLosing
<1>b. CASE BrokerDown
  BY <1>b, <1>f DEF BrokerDown
<1>l. ASSUME NEW t \in Transports, LoopReturns(t) PROVE TypeOK' /\ PlaceInv'
  BY <1>l, <1>f DEF LoopReturns
<1>2. ASSUME NEW a \in Announcements, NEW t \in Transports, Repeat(t, a) PROVE TypeOK' /\ PlaceInv'
  BY <1>2, <1>f DEF Repeat
<1>3. ASSUME NEW a \in Announcements, NEW t \in Transports, Take(t, a) PROVE TypeOK' /\ PlaceInv'
  BY <1>3 DEF Take, Goto
<1>4. ASSUME NEW t \in Transports, Mark(t) PROVE TypeOK' /\ PlaceInv'
  <2>1. CASE Fine
    BY <1>4, <1>f, <2>1 DEF Mark, Goto, Fail
  <2>2. CASE Fault
    BY <1>4, <1>f, <2>2 DEF Mark, Goto, Fail
  <2> QED
    BY <1>4, <2>1, <2>2 DEF Mark
<1>5. ASSUME NEW t \in Transports, CheckCount(t) PROVE TypeOK' /\ PlaceInv'
  BY <1>5 DEF CheckCount, Goto
<1>6. ASSUME NEW t \in Transports, Send(t) PROVE TypeOK' /\ PlaceInv'
  BY <1>6, <1>f DEF Send, Goto, Fail, Mailed
<1>7. CASE Crash
  <2>1. /\ UNCHANGED <<announced, unsent, cur, marked, mails, taken>>
        /\ pc' = [t \in Transports |-> "idle"] /\ stopped' = {} /\ faults' \in 0..MaxFaults
    BY <1>7, <1>f DEF Crash
  <2>2. copies' \in [Transports -> SUBSET announced]
    BY <1>7 DEF Crash, CutOff
  <2>3. lost' \in [Transports -> SUBSET announced]
    BY <1>7 DEF Crash
  <2> QED
    BY <2>1, <2>2, <2>3
<1>8. CASE UNCHANGED vars
  BY <1>8 DEF vars
<1> QED
  BY <1>1, <1>r, <1>s, <1>b, <1>l, <1>2, <1>3, <1>4, <1>5, <1>6, <1>7, <1>8 DEF Next, Handle, Resting

-----------------------------------------------------------------------------
(* The mails.                                                                    *)

LEMMA DueFrame ==
    ASSUME TypeOK, NEW t \in Transports, NEW to, Goto(t, to)
    PROVE  pc'[t] = to /\ \A u \in Transports \ {t} : pc'[u] = pc[u]
BY DEF TypeOK, Goto

LEMMA StepMail == TypeOK /\ PlaceInv /\ MailInv /\ [Next]_vars => MailInv'
<1> SUFFICES ASSUME TypeOK, PlaceInv, MailInv, [Next]_vars, NEW a \in Announcements
             PROVE  /\ mails'[a] + RabbitDue(a)' + KafkaDue(a)' <= taken'[a] + KafkaMails
                    /\ a \in Empty => mails'[a] = 0
  BY DEF MailInv, KafkaMails
<1>m. /\ mails[a] \in Nat /\ taken[a] \in Nat
      /\ mails[a] + RabbitDue(a) + KafkaDue(a) <= taken[a] + KafkaMails
      /\ a \in Empty => mails[a] = 0
  BY DEF TypeOK, MailInv
<1>n. /\ RabbitDue(a) \in {0, 1} /\ RabbitDue(a)' \in {0, 1}
      /\ KafkaDue(a) \in {0, 1} /\ KafkaDue(a)' \in {0, 1} /\ KafkaMails \in {0, 1}
  BY DEF RabbitDue, KafkaDue, KafkaMails
<1>k. ASSUME UNCHANGED <<mails, taken>>, RabbitDue(a)' <= RabbitDue(a), KafkaDue(a)' <= KafkaDue(a)
      PROVE  /\ mails'[a] + RabbitDue(a)' + KafkaDue(a)' <= taken'[a] + KafkaMails
             /\ a \in Empty => mails'[a] = 0
  BY <1>k, <1>m, <1>n
<1>d. ASSUME \A t \in Transports : Due(t, a)' => Due(t, a), marked \subseteq marked'
      PROVE  RabbitDue(a)' <= RabbitDue(a) /\ KafkaDue(a)' <= KafkaDue(a)
  BY <1>d, <1>n DEF RabbitDue, KafkaDue, Due
<1>1. ASSUME NEW b \in Announcements, Announce(b) PROVE UNCHANGED <<pc, cur, marked, mails, taken>>
  BY <1>1 DEF Announce
<1>2. ASSUME NEW b \in Announcements, NEW t \in Transports, Repeat(t, b)
      PROVE  UNCHANGED <<pc, cur, marked, mails, taken>>
  BY <1>2 DEF Repeat
<1>r. ASSUME NEW b \in Announcements, Dispatch(b) \/ DispatchLosing(b)
      PROVE  UNCHANGED <<pc, cur, marked, mails, taken>>
  BY <1>r DEF Dispatch, DispatchLosing
<1>l. ASSUME BrokerDown \/ \E t \in Transports : LoopReturns(t)
      PROVE  UNCHANGED <<pc, cur, marked, mails, taken>>
  BY <1>l DEF BrokerDown, LoopReturns
<1>3. ASSUME NEW b \in Announcements, NEW t \in Transports, Take(t, b)
      PROVE  /\ mails'[a] + RabbitDue(a)' + KafkaDue(a)' <= taken'[a] + KafkaMails
             /\ a \in Empty => mails'[a] = 0
  <2>1. CASE t = "rabbit"
    <3>1. /\ pc'["rabbit"] = "count" /\ cur'["rabbit"] = b /\ pc["rabbit"] = "idle"
          /\ \A u \in Transports \ {"rabbit"} : pc'[u] = pc[u] /\ cur'[u] = cur[u]
          /\ taken' = [taken EXCEPT ![b] = @ + 1] /\ UNCHANGED <<mails, marked>>
      BY <1>3, <2>1 DEF Take, Goto, TypeOK
    <3>2. KafkaDue(a)' = KafkaDue(a)
      BY <3>1 DEF KafkaDue, Due
    <3>3. CASE a = b
      <4>1. RabbitDue(a) = 0 /\ taken'[a] = taken[a] + 1
        BY <3>1, <3>3 DEF RabbitDue, Due, TypeOK
      <4> QED
        BY <1>m, <1>n, <3>1, <3>2, <4>1
    <3>4. CASE a /= b
      <4>1. RabbitDue(a)' = 0 /\ taken'[a] = taken[a]
        BY <3>1, <3>4 DEF RabbitDue, Due, TypeOK
      <4> QED
        BY <1>m, <1>n, <3>1, <3>2, <4>1
    <3> QED
      BY <3>3, <3>4
  <2>2. CASE t /= "rabbit"
    <3>1. t = "kafka"
      BY <2>2, AlertAssumption
    <3>2. /\ UNCHANGED <<mails, taken, marked>> /\ pc'[t] = "mark"
          /\ \A u \in Transports \ {t} : pc'[u] = pc[u] /\ cur'[u] = cur[u]
      BY <1>3, <3>1 DEF Take, Goto, TypeOK
    <3>3. \A u \in Transports : Due(u, a)' => Due(u, a)
      BY <3>2 DEF Due
    <3> QED
      BY <1>d, <1>k, <3>2, <3>3
  <2> QED
    BY <2>1, <2>2
<1>4. ASSUME NEW t \in Transports, Mark(t)
      PROVE  UNCHANGED <<mails, taken>> /\ RabbitDue(a)' <= RabbitDue(a) /\ KafkaDue(a)' <= KafkaDue(a)
  <2>0. t = "kafka" /\ UNCHANGED <<mails, taken, cur>> /\ pc[t] = "mark" /\ cur[t] \in Announcements
    BY <1>4 DEF Mark, PlaceInv, TypeOK
  <2>1. CASE cur[t] \notin marked /\ marked' = marked \union {cur[t]} /\ Goto(t, "count")
    <3>1. pc'[t] = "count" /\ \A u \in Transports \ {t} : pc'[u] = pc[u]
      BY <2>1, DueFrame
    <3>2. RabbitDue(a)' = RabbitDue(a)
      BY <2>0, <3>1 DEF RabbitDue, Due
    <3>3. KafkaDue(a)' = 1 => KafkaDue(a) = 1
      BY <2>0, <2>1, <3>1 DEF KafkaDue, Due
    <3> QED
      BY <1>n, <2>0, <3>2, <3>3
  <2>2. CASE Goto(t, "idle") /\ marked \subseteq marked'
    <3>1. pc'[t] = "idle" /\ \A u \in Transports \ {t} : pc'[u] = pc[u]
      BY <2>2, DueFrame
    <3>2. \A u \in Transports : Due(u, a)' => Due(u, a)
      BY <2>0, <3>1 DEF Due
    <3> QED
      BY <1>d, <2>0, <2>2, <3>2
  <2> QED
    BY <1>4, <2>1, <2>2 DEF Mark, Fail
<1>5. ASSUME NEW t \in Transports, CheckCount(t)
      PROVE  UNCHANGED <<mails, taken>> /\ RabbitDue(a)' <= RabbitDue(a) /\ KafkaDue(a)' <= KafkaDue(a)
  <2>1. pc[t] = "count" /\ \A u \in Transports \ {t} : pc'[u] = pc[u]
    BY <1>5, DueFrame DEF CheckCount
  <2>2. \A u \in Transports : Due(u, a)' => Due(u, a)
    BY <1>5, <2>1 DEF Due, CheckCount
  <2> QED
    BY <1>d, <1>5, <2>2 DEF CheckCount
<1>6. ASSUME NEW t \in Transports, Send(t)
      PROVE  /\ mails'[a] + RabbitDue(a)' + KafkaDue(a)' <= taken'[a] + KafkaMails
             /\ a \in Empty => mails'[a] = 0
  <2>1. /\ pc[t] = "send" /\ pc'[t] = "idle" /\ UNCHANGED <<cur, marked, taken>>
        /\ \A u \in Transports \ {t} : pc'[u] = pc[u]
        /\ mails' = mails \/ mails' = [mails EXCEPT ![cur[t]] = @ + 1]
    BY <1>6, DueFrame DEF Send, Fail, Mailed
  <2>2. \A u \in Transports : Due(u, a)' => Due(u, a)
    BY <2>1 DEF Due
  <2>3. RabbitDue(a)' <= RabbitDue(a) /\ KafkaDue(a)' <= KafkaDue(a)
    BY <1>d, <2>1, <2>2
  <2>4. CASE mails'[a] = mails[a]
    BY <1>m, <1>n, <2>1, <2>3, <2>4
  <2>5. CASE mails'[a] /= mails[a]
    <3>1. /\ cur[t] = a /\ mails'[a] = mails[a] + 1 /\ a \notin Empty
      BY <2>1, <2>5 DEF TypeOK
    <3>2. CASE t = "rabbit"
      <4>1. RabbitDue(a) = 1 /\ RabbitDue(a)' = 0
        BY <2>1, <3>1, <3>2 DEF RabbitDue, Due
      <4> QED
        BY <1>m, <1>n, <2>1, <2>3, <3>1, <4>1
    <3>3. CASE t = "kafka"
      <4>1. a \in marked
        BY <2>1, <3>1, <3>3 DEF PlaceInv
      <4>2. KafkaDue(a) = 1 /\ KafkaDue(a)' = 0
        BY <2>1, <3>1, <3>3, <4>1 DEF KafkaDue, Due
      <4> QED
        BY <1>m, <1>n, <2>1, <2>3, <3>1, <4>2
    <3> QED
      BY <3>2, <3>3, AlertAssumption
  <2> QED
    BY <2>4, <2>5
<1>7. CASE Crash
  <2>1. UNCHANGED <<mails, taken, marked, cur>> /\ \A t \in Transports : pc'[t] = "idle"
    BY <1>7 DEF Crash
  <2>2. \A u \in Transports : Due(u, a)' => Due(u, a)
    BY <2>1 DEF Due
  <2> QED
    BY <1>d, <1>k, <2>1, <2>2
<1>8. ASSUME UNCHANGED <<pc, cur, marked, mails, taken>>
      PROVE  RabbitDue(a)' <= RabbitDue(a) /\ KafkaDue(a)' <= KafkaDue(a)
  BY <1>8, <1>n DEF RabbitDue, KafkaDue, Due
<1>9. UNCHANGED vars => UNCHANGED <<pc, cur, marked, mails, taken>>
  BY DEF vars
<1> QED
  BY <1>k, <1>1, <1>2, <1>r, <1>l, <1>3, <1>4, <1>5, <1>6, <1>7, <1>8, <1>9 DEF Next, Handle, Resting

-----------------------------------------------------------------------------
(* Silence.                                                                      *)

LEMMA StepSilence == TypeOK /\ PlaceInv /\ SilenceInv /\ [Next]_vars => SilenceInv'
<1> SUFFICES ASSUME TypeOK, PlaceInv, SilenceInv, [Next]_vars PROVE SilenceInv'
  OBVIOUS
<1>t. TypeOK' /\ PlaceInv'
  BY StepType
<1>1. ASSUME NEW a \in Announcements, Announce(a) PROVE SilenceInv'
  BY <1>1 DEF Announce, SilenceInv, Told, Due, TypeOK
<1>r. ASSUME NEW a \in Announcements, Dispatch(a) PROVE SilenceInv'
  <2>1. UNCHANGED <<announced, pc, cur, marked, mails, lost>>
    BY <1>r DEF Dispatch
  <2>2. /\ \A t \in Transports : copies[t] \subseteq copies'[t]
        /\ \A b \in unsent \ unsent' : \A t \in Transports : b \in copies'[t]
    BY <1>r DEF Dispatch, HandOver
  <2> QED
    BY <2>1, <2>2 DEF SilenceInv, Told, Due
<1>s. ASSUME NEW a \in Announcements, DispatchLosing(a) PROVE SilenceInv'
  <2>1. UNCHANGED <<announced, pc, cur, marked, mails>>
    BY <1>s DEF DispatchLosing
  <2>2. /\ \A t \in Transports : copies[t] \subseteq copies'[t] /\ lost[t] \subseteq lost'[t]
        /\ \A b \in unsent \ unsent' : \A t \in Transports : b \in copies'[t] \/ b \in lost'[t]
    BY <1>s DEF DispatchLosing, HandOver
  <2> QED
    BY <2>1, <2>2 DEF SilenceInv, Told, Due
<1>b. CASE BrokerDown
  <2>1. UNCHANGED <<announced, unsent, pc, cur, marked, mails>>
    BY <1>b DEF BrokerDown
  <2>2. \A t \in Transports : /\ lost[t] \subseteq lost'[t]
                              /\ \A b \in copies[t] : b \in copies'[t] \/ b \in lost'[t]
    BY <1>b DEF BrokerDown, TypeOK
  <2> QED
    BY <2>1, <2>2 DEF SilenceInv, Told, Due
<1>l. ASSUME NEW t \in Transports, LoopReturns(t) PROVE SilenceInv'
  <2>1. UNCHANGED <<announced, unsent, pc, cur, marked, mails, lost>>
    BY <1>l DEF LoopReturns
  <2>2. \A u \in Transports : copies[u] \subseteq copies'[u]
    BY <1>l DEF LoopReturns, TypeOK
  <2> QED
    BY <2>1, <2>2 DEF SilenceInv, Told, Due
<1>2. ASSUME NEW a \in Announcements, NEW t \in Transports, Repeat(t, a) PROVE SilenceInv'
  BY <1>2 DEF Repeat, SilenceInv, Told, Due, TypeOK
<1>3. ASSUME NEW a \in Announcements, NEW t \in Transports, Take(t, a) PROVE SilenceInv'
  BY <1>3 DEF Take, Goto, SilenceInv, Told, Due, TypeOK
<1>4. ASSUME NEW t \in Transports, Mark(t) PROVE SilenceInv'
  <2>0. t = "kafka" /\ UNCHANGED <<announced, unsent, mails, copies, cur>> /\ pc[t] = "mark"
    BY <1>4 DEF Mark, PlaceInv
  <2>1. CASE cur[t] \notin marked /\ marked' = marked \union {cur[t]} /\ Goto(t, "count") /\ UNCHANGED lost
    BY <2>0, <2>1, DueFrame DEF SilenceInv, Told, Due
  <2>2. CASE cur[t] \in marked /\ Goto(t, "idle") /\ UNCHANGED <<marked, lost>>
    BY <2>0, <2>2, DueFrame DEF SilenceInv, Told, Due
  <2>3. CASE marked' \in {marked, marked \union {cur[t]}} /\ Fail(t)
    <3>1. /\ lost'[t] = lost[t] \union {cur[t]} /\ \A u \in Transports \ {t} : lost'[u] = lost[u]
          /\ pc'[t] = "idle" /\ \A u \in Transports \ {t} : pc'[u] = pc[u]
      BY <2>3, DueFrame DEF Fail, TypeOK
    <3> QED
      BY <2>0, <2>3, <3>1 DEF SilenceInv, Told, Due
  <2> QED
    BY <1>4, <2>1, <2>2, <2>3 DEF Mark
<1>5. ASSUME NEW t \in Transports, CheckCount(t) PROVE SilenceInv'
  BY <1>5, DueFrame DEF CheckCount, SilenceInv, Told, Due
<1>6. ASSUME NEW t \in Transports, Send(t) PROVE SilenceInv'
  <2>1. /\ pc[t] = "send" /\ pc'[t] = "idle" /\ UNCHANGED <<announced, unsent, copies, cur, marked>>
        /\ \A u \in Transports \ {t} : pc'[u] = pc[u]
        /\ cur[t] \in Announcements
    BY <1>6, DueFrame DEF Send, Fail, TypeOK
  <2>2. /\ \A a \in Announcements : Told(a) => Told(a)'
        /\ \A u \in Transports : lost[u] \subseteq lost'[u]
    BY <1>6 DEF Send, Fail, Mailed, Told, TypeOK
  <2>3. Told(cur[t])' \/ cur[t] \in lost'[t]
    BY <1>6 DEF Send, Fail, Mailed, Told, TypeOK
  <2>4. announced \subseteq Announcements /\ marked \subseteq Announcements
    BY DEF TypeOK
  <2> QED
    BY <2>1, <2>2, <2>3, <2>4 DEF SilenceInv, Due
<1>7. CASE Crash
  <2>1. /\ UNCHANGED <<announced, unsent, cur, marked, mails>>
        /\ \A t \in Transports : pc'[t] = "idle"
        /\ \A t \in Transports : copies[t] \subseteq copies'[t] /\ lost[t] \subseteq lost'[t]
        /\ \A t \in Transports :
              pc[t] /= "idle" => cur[t] \in copies'[t] \/ cur[t] \in lost'[t]
        /\ \A t \in Transports :
              t = "kafka" /\ pc[t] \in {"count", "send"} => cur[t] \in lost'[t]
    BY <1>7 DEF Crash, TypeOK
  <2> QED
    BY <2>1 DEF SilenceInv, Told, Due
<1>8. CASE UNCHANGED vars
  BY <1>8 DEF vars, SilenceInv, Told, Due
<1> QED
  BY <1>1, <1>r, <1>s, <1>b, <1>l, <1>2, <1>3, <1>4, <1>5, <1>6, <1>7, <1>8 DEF Next, Handle, Resting

-----------------------------------------------------------------------------
(* The theorems.                                                                 *)

LEMMA Invariance == Spec => []IInv
<1>1. IInv /\ [Next]_vars => IInv'
  BY StepType, StepMail, StepSilence DEF IInv
<1> QED
  BY InitInv, <1>1, PTL DEF Spec

\* Every variable keeps its type, and no handler sends a mail about no matches.
THEOREM TypeCorrect == Spec => []TypeOK
<1>1. IInv => TypeOK
  BY DEF IInv
<1> QED
  BY Invariance, <1>1, PTL

\* One mail per copy taken from RabbitMQ and one over Kafka, however often copies are
\* repeated and scheduler dies.
THEOREM MailsAreAccounted == Spec => []MailsAccounted
<1>1. IInv => MailsAccounted
  <2> SUFFICES ASSUME IInv, NEW a \in Announcements
               PROVE  mails[a] <= IF a \in Empty THEN 0 ELSE taken[a] + KafkaMails
    BY DEF MailsAccounted, KafkaMails
  <2>1. /\ mails[a] \in Nat /\ taken[a] \in Nat
        /\ RabbitDue(a) \in Nat /\ KafkaDue(a) \in Nat /\ KafkaMails \in Nat
    BY DEF IInv, TypeOK, RabbitDue, KafkaDue, KafkaMails
  <2> QED
    BY <2>1 DEF IInv, MailInv
<1> QED
  BY Invariance, <1>1, PTL

\* An announcement with matches stays without a mail only if each transport gave it up,
\* never got it or has it waiting for a loop that is over.
THEOREM SilenceIsTotalFailure == Spec => []SilenceNeedsAllToFail
<1>1. IInv => SilenceNeedsAllToFail
  <2> SUFFICES ASSUME IInv, AtRest, NEW a \in announced \ Empty, mails[a] = 0,
                      NEW t \in Transports
               PROVE  a \in lost[t] \/ (t \in stopped /\ a \in copies[t])
    BY DEF SilenceNeedsAllToFail
  <2>1. ~Told(a) /\ pc[t] = "idle" /\ unsent = {} /\ (t \in stopped \/ copies[t] = {})
    BY DEF Told, AtRest
  <2> QED
    BY <2>1 DEF IInv, SilenceInv
<1> QED
  BY Invariance, <1>1, PTL

-----------------------------------------------------------------------------
(* The inductive invariant of Accounts, in three parts.                         *)

\* Only normal forms are stored, and each in one row.
AddressInv ==
    /\ \A i \in Rows : mail[i] \in Spellings /\ Normal[mail[i]] = mail[i]
    /\ \A i, j \in Rows : mail[i] = mail[j] => i = j

\* An id that was told to a client is one of a row with the client's password.
IsOwn(c, i) == i \in Rows /\ owner[i] = c

ToldTo(c) == {answer[c].id, token[c].id, shown[c]} \ {None}

TokenInv == \A c \in Clients : \A i \in ToldTo(c) : IsOwn(c, i)

AccountInv == AccountTypeOK /\ AddressInv /\ TokenInv /\ NobodyLockedOut

LEMMA AccountsInit == AccountInit => AccountInv
<1> SUFFICES ASSUME AccountInit PROVE AccountInv
  OBVIOUS
<1>1. /\ NoToken \in [id : Ids \union {None}, mail : Spellings \union {None}, until : 0..MaxClock + TTL]
      /\ NoAnswer \in [id : Ids \union {None}, mail : Spellings \union {None}]
      /\ NoToken.id = None /\ NoAnswer.id = None /\ NoToken.until = 0
  BY AccountAssumption DEF NoToken, NoAnswer
<1>2. \A c \in Clients : token[c] = NoToken /\ answer[c] = NoAnswer /\ shown[c] = None
  BY DEF AccountInit
<1>3. AccountTypeOK
  <2>1. refused \in BOOLEAN
    BY DEF AccountInit
  <2> QED
    BY <1>1, <1>2, <2>1, AccountAssumption DEF AccountInit, AccountTypeOK
<1>4. Rows = {}
  BY DEF AccountInit, Rows
<1>5. AddressInv /\ TokenInv
  BY <1>1, <1>2, <1>4 DEF AddressInv, TokenInv, ToldTo
<1>6. NobodyLockedOut
  BY DEF AccountInit, NobodyLockedOut
<1> QED
  BY <1>3, <1>5, <1>6 DEF AccountInv

-----------------------------------------------------------------------------
(* Type correctness.                                                            *)

LEMMA AccountsType == AccountTypeOK /\ [AccountNext]_accountVars => AccountTypeOK'
<1> SUFFICES ASSUME AccountTypeOK, [AccountNext]_accountVars PROVE AccountTypeOK'
  OBVIOUS
<1> USE AccountAssumption DEF AccountTypeOK
<1>f. ASSUME UserFine \/ UserFault PROVE userFaults' \in 0..MaxUserFaults
  BY <1>f DEF UserFine, UserFault
<1>e. \A s \in Spellings : Entered(s) \in Spellings
  BY DEF Entered
<1>1. ASSUME NEW c \in Clients, IssueToken(c) PROVE AccountTypeOK'
  <2>1. /\ TokenFor(answer[c]) \in [id : Ids \union {None}, mail : Spellings \union {None},
                                     until : 0..MaxClock + TTL]
        /\ TokenFor(answer[c]).until <= clock + TTL
    BY DEF TokenFor
  <2>2. NoAnswer \in [id : Ids \union {None}, mail : Spellings \union {None}]
    BY DEF NoAnswer
  <2>3. /\ token' \in [Clients -> [id : Ids \union {None}, mail : Spellings \union {None},
                                    until : 0..MaxClock + TTL]]
        /\ \A d \in Clients : token'[d].until <= clock + TTL
        /\ answer' \in [Clients -> [id : Ids \union {None}, mail : Spellings \union {None}]]
    <3>1. token' = token \/ token' = [token EXCEPT ![c] = TokenFor(answer[c])]
      BY <1>1 DEF IssueToken
    <3>2. \A d \in Clients : token'[d] = token[d] \/ token'[d] = TokenFor(answer[c])
      BY <3>1
    <3>3. answer' = [answer EXCEPT ![c] = NoAnswer]
      BY <1>1 DEF IssueToken
    <3>4. token' \in [Clients -> [id : Ids \union {None}, mail : Spellings \union {None},
                                   until : 0..MaxClock + TTL]]
      BY <3>1, <2>1
    <3> QED
      BY <2>1, <2>2, <3>2, <3>3, <3>4
  <2> QED
    BY <1>1, <1>f, <2>3 DEF IssueToken
<1>2. ASSUME NEW c \in Clients, Profile(c) PROVE AccountTypeOK'
  BY <1>2 DEF Profile, RowsOf, Rows
<1>3. ASSUME NEW c \in Clients, NEW s \in Spellings, Signup(c, s) PROVE AccountTypeOK'
  <2>1. PICK i \in Ids \ Rows :
          /\ mail' = [mail EXCEPT ![i] = Entered(s)] /\ owner' = [owner EXCEPT ![i] = c]
          /\ \/ answer' = [answer EXCEPT ![c] = [id |-> i, mail |-> Entered(s)]] /\ UserFine
             \/ UNCHANGED answer /\ UserFault
    BY <1>3 DEF Signup
  <2> QED
    BY <1>3, <1>e, <1>f, <2>1 DEF Signup
<1>4. ASSUME NEW c \in Clients, NEW s \in Spellings, Login(c, s) PROVE AccountTypeOK'
  <2>1. /\ UNCHANGED <<mail, owner, token, shown, clock, userFaults>>
        /\ answer' \in [Clients -> [id : Ids \union {None}, mail : Spellings \union {None}]]
    BY <1>4 DEF Login, Found, Rows
  <2>2. refused' \in BOOLEAN
    <3>1. CASE UNCHANGED refused
      BY <3>1
    <3>2. CASE refused' = (refused \/ \E i \in Rows : owner[i] = c /\ Normal[mail[i]] = Normal[s])
      BY <3>2
    <3> QED
      BY <1>4, <3>1, <3>2 DEF Login
  <2> QED
    BY <2>1, <2>2
<1>5. ASSUME NEW c \in Clients, NEW s \in Spellings, UpdateProfile(c, s) PROVE AccountTypeOK'
  BY <1>5, <1>e DEF UpdateProfile, RowsOf, Rows
<1>6. CASE ClockTick
  BY <1>6 DEF ClockTick
<1>7. CASE UNCHANGED accountVars
  BY <1>7 DEF accountVars
<1> QED
  BY <1>1, <1>2, <1>3, <1>4, <1>5, <1>6, <1>7 DEF AccountNext

-----------------------------------------------------------------------------
(* Addresses and accounts.                                                      *)

\* One row gets an address in normal form that no other row has.
LEMMA OneRowWritten ==
    ASSUME AccountTypeOK, AddressInv, NEW i \in Ids, NEW s \in Spellings, Unique(i, Entered(s)),
           mail' = [mail EXCEPT ![i] = Entered(s)]
    PROVE  AddressInv' /\ Rows' = Rows \union {i}
<1>1. /\ Entered(s) \in Spellings /\ Entered(s) /= None /\ Normal[Entered(s)] = Entered(s)
      /\ mail'[i] = Entered(s) /\ \A j \in Ids \ {i} : mail'[j] = mail[j]
  BY AccountAssumption DEF Entered, AccountTypeOK
<1>2. Rows' = Rows \union {i}
  BY <1>1 DEF Rows
<1>3. \A j \in Rows \ {i} : mail[j] /= Entered(s)
  BY DEF Unique, Found
<1>4. \A j \in Rows : mail'[j] \in Spellings /\ Normal[mail'[j]] = mail'[j]
  BY <1>1 DEF AddressInv, Rows
<1>5. \A j, k \in Rows' : mail'[j] = mail'[k] => j = k
  BY <1>1, <1>2, <1>3 DEF AddressInv, Rows
<1> QED
  BY <1>1, <1>2, <1>4, <1>5 DEF AddressInv

LEMMA StepAddress == AccountTypeOK /\ AddressInv /\ [AccountNext]_accountVars => AddressInv'
<1> SUFFICES ASSUME AccountTypeOK, AddressInv, [AccountNext]_accountVars PROVE AddressInv'
  OBVIOUS
<1>1. ASSUME UNCHANGED mail PROVE AddressInv'
  BY <1>1 DEF AddressInv, Rows
<1>2. ASSUME NEW c \in Clients, NEW s \in Spellings, Signup(c, s) \/ UpdateProfile(c, s)
      PROVE  AddressInv'
  <2>1. PICK i \in Ids : Unique(i, Entered(s)) /\ mail' = [mail EXCEPT ![i] = Entered(s)]
    BY <1>2 DEF Signup, UpdateProfile, RowsOf, Rows
  <2> QED
    BY <2>1, OneRowWritten
<1>3. UNCHANGED mail \/ \E c \in Clients, s \in Spellings : Signup(c, s) \/ UpdateProfile(c, s)
  BY DEF AccountNext, IssueToken, Profile, Login, ClockTick, accountVars
<1> QED
  BY <1>1, <1>2, <1>3

\* Rows keep their owners: signups take new rows, updates only change the address.
LEMMA OwnersStay ==
    ASSUME AccountTypeOK, AddressInv, [AccountNext]_accountVars, NEW c \in Clients, NEW i, IsOwn(c, i)
    PROVE  IsOwn(c, i)'
<1>1. CASE UNCHANGED <<mail, owner>>
  BY <1>1 DEF IsOwn, Rows
<1>2. ASSUME NEW d \in Clients, NEW s \in Spellings, Signup(d, s) PROVE IsOwn(c, i)'
  <2>1. PICK j \in Ids \ Rows :
          /\ Unique(j, Entered(s))
          /\ mail' = [mail EXCEPT ![j] = Entered(s)] /\ owner' = [owner EXCEPT ![j] = d]
    BY <1>2 DEF Signup
  <2>2. Rows' = Rows \union {j}
    BY <2>1, OneRowWritten
  <2>3. i /= j /\ i \in Ids
    BY <2>1 DEF IsOwn, Rows
  <2> QED
    BY <2>1, <2>2, <2>3 DEF IsOwn, AccountTypeOK
<1>3. ASSUME NEW d \in Clients, NEW s \in Spellings, UpdateProfile(d, s) PROVE IsOwn(c, i)'
  <2>1. PICK j \in Ids : Unique(j, Entered(s)) /\ mail' = [mail EXCEPT ![j] = Entered(s)]
    BY <1>3 DEF UpdateProfile, RowsOf, Rows
  <2>2. Rows' = Rows \union {j}
    BY <2>1, OneRowWritten
  <2> QED
    BY <1>3, <2>2 DEF IsOwn, UpdateProfile
<1> QED
  BY <1>1, <1>2, <1>3 DEF AccountNext, IssueToken, Profile, Login, ClockTick, accountVars

LEMMA StepToken == AccountTypeOK /\ AddressInv /\ TokenInv /\ [AccountNext]_accountVars => TokenInv'
<1> SUFFICES ASSUME AccountTypeOK, AddressInv, TokenInv, [AccountNext]_accountVars,
                    NEW d \in Clients, NEW i, i \in ToldTo(d)'
             PROVE  IsOwn(d, i)'
  BY DEF TokenInv
<1>o. IsOwn(d, i) => IsOwn(d, i)'
  BY OwnersStay
<1>t. i \in ToldTo(d) => IsOwn(d, i)
  BY DEF TokenInv
<1>1. ASSUME NEW c \in Clients, IssueToken(c) PROVE i \in ToldTo(d)
  <2>1. /\ answer'[d] \in {answer[d], NoAnswer} /\ token'[d] \in {token[d], TokenFor(answer[d])}
        /\ shown'[d] = shown[d]
    BY <1>1 DEF IssueToken, AccountTypeOK
  <2>2. NoAnswer.id = None /\ TokenFor(answer[d]).id = answer[d].id
    BY DEF NoAnswer, TokenFor
  <2> QED
    BY <2>1, <2>2 DEF ToldTo
<1>2. ASSUME NEW c \in Clients, Profile(c) PROVE i \in ToldTo(d)
  <2>1. answer' = answer /\ token' = token /\ shown'[d] \in {shown[d], token[d].id}
    BY <1>2 DEF Profile, RowsOf, AccountTypeOK
  <2> QED
    BY <2>1 DEF ToldTo
<1>3. ASSUME NEW c \in Clients, NEW s \in Spellings, Signup(c, s)
      PROVE  i \in ToldTo(d) \/ IsOwn(d, i)'
  <2>1. PICK j \in Ids \ Rows :
          /\ Unique(j, Entered(s))
          /\ mail' = [mail EXCEPT ![j] = Entered(s)] /\ owner' = [owner EXCEPT ![j] = c]
          /\ \/ answer' = [answer EXCEPT ![c] = [id |-> j, mail |-> Entered(s)]]
             \/ UNCHANGED answer
    BY <1>3 DEF Signup
  <2>2. Rows' = Rows \union {j}
    BY <2>1, OneRowWritten
  <2>3. owner'[j] = c
    BY <2>1 DEF AccountTypeOK
  <2>4. answer'[d] = answer[d] \/ (answer'[d].id = j /\ c = d)
    BY <2>1 DEF AccountTypeOK
  <2>5. token' = token /\ shown' = shown
    BY <1>3 DEF Signup
  <2> QED
    BY <2>2, <2>3, <2>4, <2>5 DEF ToldTo, IsOwn
<1>4. ASSUME NEW c \in Clients, NEW s \in Spellings, Login(c, s) PROVE i \in ToldTo(d) \/ IsOwn(d, i)
  <2>1. /\ token' = token /\ shown' = shown
        /\ answer'[d] = answer[d] \/ IsOwn(d, answer'[d].id)
    BY <1>4 DEF Login, Found, IsOwn, AccountTypeOK
  <2> QED
    BY <2>1 DEF ToldTo
<1>5. ASSUME NEW c \in Clients, NEW s \in Spellings, UpdateProfile(c, s) PROVE i \in ToldTo(d)
  BY <1>5 DEF UpdateProfile, ToldTo
<1>6. ASSUME ClockTick \/ UNCHANGED accountVars PROVE i \in ToldTo(d)
  BY <1>6 DEF ClockTick, accountVars, ToldTo
<1> QED
  BY <1>o, <1>t, <1>1, <1>2, <1>3, <1>4, <1>5, <1>6 DEF AccountNext

\* A refusal means that no row of the client has the address in normal form.
LEMMA StepRefused == AccountTypeOK /\ AddressInv /\ NobodyLockedOut /\ [AccountNext]_accountVars => NobodyLockedOut'
<1> SUFFICES ASSUME AccountTypeOK, AddressInv, ~refused, [AccountNext]_accountVars PROVE ~refused'
  BY DEF NobodyLockedOut
<1>1. ASSUME NEW c \in Clients, NEW s \in Spellings, Login(c, s) PROVE ~refused'
  <2>1. CASE UNCHANGED refused
    BY <2>1
  <2>2. CASE /\ \A i \in Found(Entered(s)) : owner[i] /= c
             /\ refused' = (refused \/ \E i \in Rows : owner[i] = c /\ Normal[mail[i]] = Normal[s])
    <3>1. ASSUME NEW i \in Rows, owner[i] = c, Normal[mail[i]] = Normal[s] PROVE FALSE
      <4>1. mail[i] = Entered(s)
        BY <3>1 DEF AddressInv, Entered
      <4> QED
        BY <2>2, <3>1, <4>1 DEF Found
    <3> QED
      BY <2>2, <3>1
  <2> QED
    BY <1>1, <2>1, <2>2 DEF Login
<1> QED
  BY <1>1 DEF AccountNext, IssueToken, Profile, Signup, UpdateProfile, ClockTick, accountVars

-----------------------------------------------------------------------------
(* The theorems.                                                                *)

LEMMA AccountsInvariance == AccountSpec => []AccountInv
<1>1. AccountInv /\ [AccountNext]_accountVars => AccountInv'
  BY AccountsType, StepAddress, StepToken, StepRefused DEF AccountInv
<1> QED
  BY AccountsInit, <1>1, PTL DEF AccountSpec

\* Every variable keeps its type, and no token outlives its TTL.
THEOREM AccountTypes == AccountSpec => []AccountTypeOK
<1>1. AccountInv => AccountTypeOK
  BY DEF AccountInv
<1> QED
  BY AccountsInvariance, <1>1, PTL

\* Two accounts never share an address, in whatever spelling it was typed.
THEOREM AddressesAreUnique == AccountSpec => []OneAccountPerAddress
<1>1. AccountInv => OneAccountPerAddress
  BY DEF AccountInv, AddressInv, OneAccountPerAddress
<1> QED
  BY AccountsInvariance, <1>1, PTL

\* The owner of an account can always log in with any spelling of its address.
THEOREM OwnersGetIn == AccountSpec => []NobodyLockedOut
<1>1. AccountInv => NobodyLockedOut
  BY DEF AccountInv
<1> QED
  BY AccountsInvariance, <1>1, PTL

\* A token leads to its own account, whatever happens to addresses while it is valid.
THEOREM ProfilesAreOwn == AccountSpec => []ProfileIsOwn
<1>1. AccountInv => ProfileIsOwn
  BY DEF AccountInv, TokenInv, ToldTo, IsOwn, ProfileIsOwn
<1> QED
  BY AccountsInvariance, <1>1, PTL

-----------------------------------------------------------------------------
(* Recommendation pages, with constants and variables of their own.            *)

\* The times of the changes follow each other.
ChangesInOrder ==
    /\ \A v \in Versions : v < version => changed[v] \in 0..ticks
    /\ \A u, v \in Versions : u =< v /\ v < version => changed[u] =< changed[v]

\* Total and items were read in this order, within one request.
Near(a) ==
    /\ a.total =< a.items /\ a.items =< version
    /\ a.total < a.items => changed[a.items - 1] - changed[a.total] =< Timeout

\* Version v was current at time t or later.
CurrentAt(v, t) == v < version => changed[v] >= t

\* A read of page p was cut short at time t or later.
CutSince(p, t) == cutAt[p] >= 0 /\ cutAt[p] >= t

\* A request has read what was current since it began, which is not long ago, and was
\* cut short since it began if at all.
ReaderOK(r) ==
    serving[r] /= "idle" =>
        /\ started[r] =< ticks /\ ticks =< started[r] + Timeout
        /\ serving[r] \in {"page", "set"} =>
              found[r].total =< version /\ CurrentAt(found[r].total, started[r])
        /\ serving[r] = "set" =>
              /\ Near(found[r]) /\ CurrentAt(found[r].items, started[r])
              /\ found[r].cut => CutSince(page[r], started[r])

\* A cached page was current one lifetime and one request before it expires.
EntryOK(p) ==
    /\ Near(cache[p])
    /\ cache[p].until =< ticks + CacheTTL
    /\ cache[p].until > 0 => CurrentAt(cache[p].items, cache[p].until - CacheTTL - Timeout)
    /\ cache[p].cut => CutSince(p, cache[p].until - CacheTTL - Timeout)

\* The last answer was current less than a lifetime and a request before it was given.
AnswerOK(p) ==
    /\ Near(last[p])
    /\ last[p].time =< ticks
    /\ CurrentAt(last[p].items, last[p].time - CacheTTL - Timeout + 1)
    /\ last[p].cut => CutSince(p, last[p].time - CacheTTL - Timeout + 1)

BoardInv ==
    /\ CacheTypeOK
    /\ ChangesInOrder
    /\ \A p \in Pages : cutAt[p] =< ticks
    /\ \A r \in Readers : ReaderOK(r)
    /\ \A p \in Pages : EntryOK(p) /\ AnswerOK(p)

LEMMA BoardInit == CacheInit => BoardInv
<1> SUFFICES ASSUME CacheInit PROVE BoardInv
  OBVIOUS
<1> USE CacheAssumption DEF CacheInit
<1>1. Absent \in [total : Versions, items : Versions, cut : BOOLEAN, until : 0..MaxTicks + CacheTTL]
      /\ Absent.total = 0 /\ Absent.items = 0 /\ Absent.until = 0 /\ Absent.cut = FALSE
  BY DEF Absent, Versions
<1>2. CacheTypeOK
  <2>1. 0 \in Versions /\ -1 \in -1..MaxTicks /\ 0 \in 0..MaxTicks /\ 0 \in 0..MaxPageFaults
    BY DEF Versions
  <2>2. /\ cache \in [Pages -> [total : Versions, items : Versions, cut : BOOLEAN, until : 0..MaxTicks + CacheTTL]]
        /\ found \in [Readers -> [total : Versions, items : Versions, cut : BOOLEAN]]
        /\ last \in [Pages -> [total : Versions, items : Versions, cut : BOOLEAN, time : 0..MaxTicks]]
    BY <1>1, <2>1
  <2>3. /\ ticks \in 0..MaxTicks /\ version \in Versions
        /\ serving \in [Readers -> {"idle", "count", "page", "set"}]
        /\ page \in [Readers -> Pages] /\ started \in [Readers -> 0..MaxTicks]
        /\ changed \in [Versions -> -1..MaxTicks] /\ cutAt \in [Pages -> -1..MaxTicks]
        /\ overlapped \in BOOLEAN /\ pageFaults \in 0..MaxPageFaults
    BY <2>1
  <2> QED
    BY <2>2, <2>3 DEF CacheTypeOK
<1>3. \A v \in Versions : ~(v < version)
  BY DEF Versions
<1>4. ChangesInOrder
  BY <1>3 DEF ChangesInOrder
<1>5. \A p \in Pages : EntryOK(p) /\ AnswerOK(p)
  BY <1>1 DEF EntryOK, AnswerOK, Near, CurrentAt
<1> QED
  BY <1>2, <1>4, <1>5 DEF BoardInv, ReaderOK

\* Every step of the pages keeps the types.
LEMMA BoardType == BoardInv /\ [CacheNext]_cacheVars => CacheTypeOK'
<1> SUFFICES ASSUME BoardInv, [CacheNext]_cacheVars PROVE CacheTypeOK'
  OBVIOUS
<1>0. CacheTypeOK /\ Versions = 0..MaxVersion
  BY DEF BoardInv, Versions
<1>f. ASSUME PageFine \/ PageFault PROVE pageFaults' \in 0..MaxPageFaults
  BY <1>0, <1>f, CacheAssumption DEF PageFine, PageFault, CacheTypeOK
<1>a. Absent \in [total : Versions, items : Versions, cut : BOOLEAN, until : 0..MaxTicks + CacheTTL]
  BY <1>0, CacheAssumption DEF Absent
<1>c. \A r \in Readers : Cached(r) \in
         [total : Versions, items : Versions, cut : BOOLEAN, until : 0..MaxTicks + CacheTTL]
  <2> SUFFICES ASSUME NEW r \in Readers
               PROVE  Cached(r) \in [total : Versions, items : Versions, cut : BOOLEAN, until : 0..MaxTicks + CacheTTL]
    OBVIOUS
  <2>1. found[r].total \in Versions /\ found[r].items \in Versions /\ found[r].cut \in BOOLEAN
    BY <1>0 DEF CacheTypeOK
  <2>2. ticks + CacheTTL \in 0..MaxTicks + CacheTTL
    BY <1>0, CacheAssumption DEF CacheTypeOK
  <2> QED
    BY <2>1, <2>2 DEF Cached
<1>s. ASSUME NEW r \in Readers, NEW p \in Pages, NEW a, Serve(r, p, a),
             a.total \in Versions, a.items \in Versions, a.cut \in BOOLEAN
      PROVE  /\ last' \in [Pages -> [total : Versions, items : Versions, cut : BOOLEAN, time : 0..MaxTicks]]
             /\ serving' \in [Readers -> {"idle", "count", "page", "set"}]
  <2>1. [total |-> a.total, items |-> a.items, cut |-> a.cut, time |-> ticks] \in
           [total : Versions, items : Versions, cut : BOOLEAN, time : 0..MaxTicks]
    BY <1>0, <1>s DEF CacheTypeOK
  <2> QED
    BY <1>0, <1>s, <2>1 DEF Serve, MoveTo, CacheTypeOK
<1>1. CASE Change
  BY <1>0, <1>1, CacheAssumption DEF Change, CacheTypeOK
<1>2. CASE Tick
  BY <1>0, <1>2, CacheAssumption DEF Tick, CacheTypeOK
<1>3. ASSUME NEW p \in Pages, Evict(p) PROVE CacheTypeOK'
  BY <1>0, <1>a, <1>3 DEF Evict, CacheTypeOK
<1>4. ASSUME NEW r \in Readers, NEW p \in Pages, Request(r, p) PROVE CacheTypeOK'
  <2>1. /\ page' \in [Readers -> Pages] /\ started' \in [Readers -> 0..MaxTicks]
        /\ overlapped' \in BOOLEAN
        /\ UNCHANGED <<ticks, version, cache, found, changed, cutAt>>
    <3>1. overlapped' = (overlapped \/ \E q \in Readers : serving[q] /= "idle")
      BY <1>4 DEF Request
    <3> QED
      BY <1>0, <1>4, <3>1 DEF Request, CacheTypeOK
  <2>2. pageFaults' \in 0..MaxPageFaults
    BY <1>4, <1>f DEF Request
  <2>3. /\ last' \in [Pages -> [total : Versions, items : Versions, cut : BOOLEAN, time : 0..MaxTicks]]
        /\ serving' \in [Readers -> {"idle", "count", "page", "set"}]
    <3>1. CASE Serve(r, p, cache[p])
      BY <1>0, <1>s, <3>1 DEF CacheTypeOK
    <3>2. CASE MoveTo(r, "count") /\ UNCHANGED last
      BY <1>0, <3>2 DEF MoveTo, CacheTypeOK
    <3> QED
      BY <1>4, <3>1, <3>2 DEF Request
  <2> QED
    BY <1>0, <2>1, <2>2, <2>3 DEF CacheTypeOK
<1>5. ASSUME NEW r \in Readers, Count(r) \/ ReadPage(r) PROVE CacheTypeOK'
  <2>1. pageFaults' \in 0..MaxPageFaults
    BY <1>5, <1>f DEF Count, ReadPage
  <2>2. /\ UNCHANGED <<ticks, version, cache, page, started, changed, last, overlapped>>
        /\ cutAt' \in [Pages -> -1..MaxTicks]
        /\ found' \in [Readers -> [total : Versions, items : Versions, cut : BOOLEAN]]
        /\ serving' \in [Readers -> {"idle", "count", "page", "set"}]
    <3>1. found \in [Readers -> [total : Versions, items : Versions, cut : BOOLEAN]]
          /\ version \in Versions /\ ticks \in -1..MaxTicks /\ cutAt \in [Pages -> -1..MaxTicks]
          /\ serving \in [Readers -> {"idle", "count", "page", "set"}]
      <4>1. /\ found \in [Readers -> [total : Versions, items : Versions, cut : BOOLEAN]]
            /\ version \in Versions /\ cutAt \in [Pages -> -1..MaxTicks]
            /\ serving \in [Readers -> {"idle", "count", "page", "set"}]
        BY <1>0, Zenon DEF CacheTypeOK
      <4>2. ticks \in 0..MaxTicks
        BY <1>0, Zenon DEF CacheTypeOK
      <4>3. ticks \in -1..MaxTicks
        BY <4>2, CacheAssumption
      <4> QED
        BY <4>1, <4>3
    <3>2. CASE Count(r)
      BY <3>1, <3>2 DEF Count, MoveTo
    <3>3. CASE ReadPage(r)
      BY <3>1, <3>3 DEF ReadPage, MoveTo
    <3> QED
      BY <1>5, <3>2, <3>3
  <2> QED
    BY <1>0, <2>1, <2>2 DEF CacheTypeOK
<1>6. ASSUME NEW r \in Readers, SetAndServe(r) PROVE CacheTypeOK'
  <2>1. pageFaults' \in 0..MaxPageFaults
    BY <1>6, <1>f DEF SetAndServe
  <2>2. /\ last' \in [Pages -> [total : Versions, items : Versions, cut : BOOLEAN, time : 0..MaxTicks]]
        /\ serving' \in [Readers -> {"idle", "count", "page", "set"}]
    BY <1>0, <1>6, <1>s DEF SetAndServe, CacheTypeOK
  <2>3. cache' \in [Pages -> [total : Versions, items : Versions, cut : BOOLEAN, until : 0..MaxTicks + CacheTTL]]
    BY <1>0, <1>6, <1>c DEF SetAndServe, CacheTypeOK
  <2>4. UNCHANGED <<ticks, version, page, started, found, changed, cutAt, overlapped>>
    BY <1>6 DEF SetAndServe
  <2> QED
    BY <1>0, <2>1, <2>2, <2>3, <2>4 DEF CacheTypeOK
<1>7. ASSUME NEW r \in Readers, Cancel(r) PROVE CacheTypeOK'
  <2>1. cache' \in [Pages -> [total : Versions, items : Versions, cut : BOOLEAN, until : 0..MaxTicks + CacheTTL]]
    BY <1>0, <1>7, <1>c DEF Cancel, CacheTypeOK
  <2>2. UNCHANGED <<ticks, version, page, started, found, changed, cutAt, last, overlapped, pageFaults>>
        /\ serving' \in [Readers -> {"idle", "count", "page", "set"}]
    BY <1>0, <1>7 DEF Cancel, MoveTo, CacheTypeOK
  <2> QED
    BY <1>0, <2>1, <2>2 DEF CacheTypeOK
<1>8. CASE UNCHANGED cacheVars
  BY <1>0, <1>8 DEF CacheTypeOK, cacheVars
<1> QED
  BY <1>1, <1>2, <1>3, <1>4, <1>5, <1>6, <1>7, <1>8 DEF CacheNext, Step

\* The types as the arithmetic below needs them.
LEMMA BoardNumbers ==
    ASSUME BoardInv
    PROVE  /\ ticks \in Nat /\ version \in Nat /\ Versions \subseteq Nat
           /\ CacheTTL \in Nat /\ CacheTTL > 0 /\ Timeout \in Nat /\ Timeout > 0
           /\ \A v \in Versions : changed[v] \in Int
           /\ version \in Versions
           /\ \A r \in Readers : /\ started[r] \in Nat
                                 /\ found[r].total \in Versions
                                 /\ found[r].items \in Versions
           /\ \A p \in Pages : /\ cache[p].total \in Versions
                               /\ cache[p].items \in Versions /\ cache[p].until \in Nat
                               /\ last[p].total \in Versions
                               /\ last[p].items \in Versions /\ last[p].time \in Nat
                               /\ cutAt[p] \in Int
<1>1. CacheTypeOK
  BY DEF BoardInv
<1>2. /\ CacheTTL \in Nat /\ CacheTTL > 0 /\ Timeout \in Nat /\ Timeout > 0
      /\ Versions \subseteq Nat /\ MaxTicks \in Nat
  BY <1>1, CacheAssumption DEF Versions
<1> QED
  BY <1>1, <1>2 DEF CacheTypeOK

\* Time moves, a change closes the present version; the past stays as it was.
LEMMA PastStays ==
    ASSUME BoardInv, [CacheNext]_cacheVars
    PROVE  /\ ticks' \in {ticks, ticks + 1} /\ version' \in {version, version + 1}
           /\ \A v \in Versions : v < version => changed'[v] = changed[v]
           /\ version' = version + 1 => changed'[version] = ticks /\ ticks' = ticks
<1>0. CacheTypeOK /\ ticks \in Nat /\ version \in Nat /\ version \in Versions
      /\ Versions \subseteq Nat
  BY BoardNumbers DEF BoardInv
<1>1. CASE Change
  BY <1>0, <1>1 DEF Change, CacheTypeOK
<1>2. CASE Tick
  BY <1>0, <1>2 DEF Tick
<1>3. CASE UNCHANGED <<ticks, version, changed>>
  BY <1>0, <1>3
<1> QED
  BY <1>1, <1>2, <1>3
  DEF CacheNext, Step, Evict, Request, Count, ReadPage,
      SetAndServe, Cancel, cacheVars

\* The last cut of a page can only become a later one.
LEMMA CutsStay ==
    ASSUME BoardInv, [CacheNext]_cacheVars, NEW p \in Pages
    PROVE  cutAt'[p] \in Int /\ cutAt'[p] >= cutAt[p] /\ cutAt'[p] =< ticks'
<1>0. /\ CacheTypeOK /\ ticks \in Nat /\ cutAt[p] \in Int /\ cutAt[p] =< ticks
      /\ ticks' \in {ticks, ticks + 1}
  BY BoardNumbers, PastStays DEF BoardInv
<1>1. CASE UNCHANGED cutAt
  BY <1>0, <1>1
<1>2. ASSUME NEW r \in Readers, ReadPage(r), ~UNCHANGED cutAt
      PROVE  cutAt'[p] \in {cutAt[p], ticks}
  BY <1>0, <1>2 DEF ReadPage, CacheTypeOK
<1>3. CASE \E r \in Readers : ReadPage(r)
  BY <1>0, <1>1, <1>2, <1>3
<1> QED
  BY <1>1, <1>3
  DEF CacheNext, Step, Change, Tick, Evict, Request, Count, SetAndServe, Cancel, cacheVars

LEMMA StepChanges == BoardInv /\ [CacheNext]_cacheVars => ChangesInOrder'
<1> SUFFICES ASSUME BoardInv, [CacheNext]_cacheVars PROVE ChangesInOrder'
  OBVIOUS
<1>0. ChangesInOrder /\ ticks \in Nat /\ version \in Nat /\ Versions \subseteq Nat
      /\ version \in Versions
  BY BoardNumbers DEF BoardInv
<1>1. ASSUME NEW v \in Versions, v < version' PROVE changed'[v] \in 0..ticks'
  BY <1>0, <1>1, PastStays DEF ChangesInOrder
<1>2. ASSUME NEW u \in Versions, NEW v \in Versions, u =< v, v < version'
      PROVE  changed'[u] =< changed'[v]
  <2>1. CASE v < version
    <3>1. u < version
      BY <1>0, <1>2, <2>1
    <3> QED
      BY <1>0, <1>2, <2>1, <3>1, PastStays DEF ChangesInOrder
  <2>2. CASE v = version
    <3>1. changed'[v] = ticks
      BY <1>0, <1>2, <2>2, PastStays
    <3>2. CASE u = v
      BY <1>0, <3>1, <3>2
    <3>3. CASE u < version
      BY <1>0, <3>1, <3>3, PastStays DEF ChangesInOrder
    <3> QED
      BY <1>0, <1>2, <2>2, <3>2, <3>3
  <2> QED
    BY <1>0, <1>2, <2>1, <2>2, PastStays
<1> QED
  BY <1>1, <1>2 DEF ChangesInOrder

\* What was near stays near, what was current at a past time stays so.
LEMMA NearStays ==
    ASSUME BoardInv, [CacheNext]_cacheVars, NEW t \in Versions, NEW i \in Versions,
           t =< i, i =< version, t < i => changed[i - 1] - changed[t] =< Timeout
    PROVE  /\ i =< version'
           /\ t < i => changed'[i - 1] - changed'[t] =< Timeout
<1>0. version \in Nat /\ t \in Nat /\ i \in Nat /\ Versions = 0..MaxVersion
      /\ MaxVersion \in Nat
  BY BoardNumbers, CacheAssumption DEF BoardInv, Versions
<1>1. i =< version'
  BY <1>0, PastStays
<1>2. ASSUME t < i PROVE changed'[i - 1] - changed'[t] =< Timeout
  <2>1. i - 1 \in Versions /\ i - 1 < version /\ t < version
    BY <1>0, <1>2
  <2>2. changed'[i - 1] = changed[i - 1] /\ changed'[t] = changed[t]
    BY <2>1, PastStays
  <2> QED
    BY <1>2, <2>2
<1> QED
  BY <1>1, <1>2

LEMMA CurrentStays ==
    ASSUME BoardInv, [CacheNext]_cacheVars, NEW i \in Versions, NEW t \in Int,
           i =< version, t =< ticks, i < version => changed[i] >= t
    PROVE  i < version' => changed'[i] >= t
<1>0. version \in Nat /\ i \in Nat /\ ticks \in Nat
  BY BoardNumbers
<1>1. CASE i < version
  BY <1>0, <1>1, PastStays
<1>2. CASE i = version
  BY <1>0, <1>2, PastStays
<1> QED
  BY <1>0, <1>1, <1>2

\* A request that does not move keeps what it knows, until its client gives up.
LEMMA ReaderWaits ==
    ASSUME BoardInv, [CacheNext]_cacheVars, NEW r \in Readers,
           serving'[r] = serving[r], page'[r] = page[r], started'[r] = started[r],
           found'[r] = found[r],
           ticks' = ticks \/ (serving[r] /= "idle" => ticks < started[r] + Timeout)
    PROVE  ReaderOK(r)'
<1> SUFFICES ASSUME serving[r] /= "idle"
             PROVE  /\ started[r] =< ticks' /\ ticks' =< started[r] + Timeout
                    /\ serving[r] \in {"page", "set"} =>
                          /\ found[r].total =< version'
                          /\ found[r].total < version' => changed'[found[r].total] >= started[r]
                    /\ serving[r] = "set" =>
                          /\ found[r].total =< found[r].items /\ found[r].items =< version'
                          /\ found[r].total < found[r].items =>
                                changed'[found[r].items - 1] - changed'[found[r].total] =< Timeout
                          /\ found[r].items < version' => changed'[found[r].items] >= started[r]
                          /\ found[r].cut => cutAt'[page[r]] >= 0 /\ cutAt'[page[r]] >= started[r]
  BY DEF ReaderOK, Near, CurrentAt, CutSince
<1>0. /\ ticks \in Nat /\ version \in Nat /\ started[r] \in Nat /\ Timeout \in Nat
      /\ found[r].total \in Versions /\ found[r].items \in Versions
      /\ found[r].total \in Nat /\ found[r].items \in Nat /\ started[r] \in Int
      /\ version' \in {version, version + 1}
  BY BoardNumbers, PastStays
<1>1. ReaderOK(r)
  BY DEF BoardInv
<1>2. started[r] =< ticks' /\ ticks' =< started[r] + Timeout
  BY <1>0, <1>1, PastStays DEF ReaderOK
<1>3. ASSUME serving[r] \in {"page", "set"}
      PROVE  /\ found[r].total =< version'
             /\ found[r].total < version' => changed'[found[r].total] >= started[r]
  <2>1. /\ found[r].total =< version /\ started[r] =< ticks
        /\ found[r].total < version => changed[found[r].total] >= started[r]
    BY <1>1, <1>3 DEF ReaderOK, CurrentAt
  <2>2. found[r].total =< version'
    BY <1>0, <2>1
  <2> QED
    BY <1>0, <2>1, <2>2, CurrentStays
<1>4. ASSUME serving[r] = "set"
      PROVE  /\ found[r].total =< found[r].items /\ found[r].items =< version'
             /\ found[r].total < found[r].items =>
                   changed'[found[r].items - 1] - changed'[found[r].total] =< Timeout
             /\ found[r].items < version' => changed'[found[r].items] >= started[r]
             /\ found[r].cut => cutAt'[page[r]] >= 0 /\ cutAt'[page[r]] >= started[r]
  <2>1. /\ found[r].total =< found[r].items /\ found[r].items =< version /\ started[r] =< ticks
        /\ found[r].total < found[r].items =>
              changed[found[r].items - 1] - changed[found[r].total] =< Timeout
        /\ found[r].items < version => changed[found[r].items] >= started[r]
    BY <1>1, <1>4 DEF ReaderOK, Near, CurrentAt
  <2>2. found[r].items < version' => changed'[found[r].items] >= started[r]
    BY <1>0, <2>1, CurrentStays
  <2>3. found[r].cut => cutAt'[page[r]] >= 0 /\ cutAt'[page[r]] >= started[r]
    <3>1. /\ page[r] \in Pages /\ cutAt[page[r]] \in Int
          /\ found[r].cut => cutAt[page[r]] >= 0 /\ cutAt[page[r]] >= started[r]
      BY <1>1, <1>4, BoardNumbers DEF ReaderOK, CutSince, BoardInv, CacheTypeOK
    <3> QED
      BY <1>0, <3>1, CutsStay
  <2> QED
    BY <1>0, <2>1, <2>2, <2>3, NearStays
<1> QED
  BY <1>2, <1>3, <1>4

LEMMA StepReaders == BoardInv /\ [CacheNext]_cacheVars => \A q \in Readers : ReaderOK(q)'
<1> SUFFICES ASSUME BoardInv, [CacheNext]_cacheVars, NEW q \in Readers PROVE ReaderOK(q)'
  OBVIOUS
<1>0. /\ CacheTypeOK /\ ReaderOK(q) /\ ChangesInOrder
      /\ ticks \in Nat /\ version \in Nat /\ started[q] \in Nat /\ Timeout \in Nat
      /\ version \in Versions /\ Versions \subseteq Nat
      /\ found[q].total \in Versions /\ found[q].total \in Nat
  BY BoardNumbers DEF BoardInv
<1>1. CASE Change \/ Tick \/ UNCHANGED cacheVars
           \/ \E p \in Pages : Evict(p)
  <2>1. /\ serving' = serving /\ page' = page /\ started' = started /\ found' = found
        /\ ticks' = ticks \/ (serving[q] /= "idle" => ticks < started[q] + Timeout)
    BY <1>1 DEF Change, Tick, Evict, cacheVars
  <2> QED
    BY <2>1, ReaderWaits
<1>2. ASSUME NEW r \in Readers, r /= q, Step(r) \/ \E p \in Pages : Request(r, p)
      PROVE  ReaderOK(q)'
  <2>1. /\ serving'[q] = serving[q] /\ page'[q] = page[q] /\ started'[q] = started[q]
        /\ found'[q] = found[q] /\ ticks' = ticks
    BY <1>0, <1>2
    DEF Step, Request, Count, ReadPage, SetAndServe,
        Cancel, Serve, MoveTo, CacheTypeOK
  <2> QED
    BY <2>1, ReaderWaits
<1>3. CASE serving'[q] = "idle"
  BY <1>3 DEF ReaderOK
<1>4. ASSUME NEW p \in Pages, Request(q, p), serving'[q] /= "idle" PROVE ReaderOK(q)'
  <2>1. started'[q] = ticks /\ ticks' = ticks /\ serving'[q] = "count"
    BY <1>0, <1>4 DEF Request, Serve, MoveTo, CacheTypeOK
  <2> QED
    BY <1>0, <2>1 DEF ReaderOK
<1>5. ASSUME Count(q), serving'[q] /= "idle" PROVE ReaderOK(q)'
  <2>1. /\ serving'[q] = "page" /\ found'[q].total = version /\ version' = version
        /\ started'[q] = started[q] /\ ticks' = ticks /\ serving[q] = "count"
    BY <1>0, <1>5 DEF Count, MoveTo, CacheTypeOK
  <2> QED
    BY <1>0, <2>1 DEF ReaderOK, CurrentAt
<1>6. ASSUME ReadPage(q), serving'[q] /= "idle" PROVE ReaderOK(q)'
  <2>1. /\ serving'[q] = "set" /\ found'[q].items = version /\ found'[q].total = found[q].total
        /\ version' = version /\ changed' = changed
        /\ started'[q] = started[q] /\ ticks' = ticks /\ serving[q] = "page"
        /\ found'[q].cut => page'[q] = page[q] /\ cutAt'[page[q]] = ticks
    BY <1>0, <1>6 DEF ReadPage, MoveTo, CacheTypeOK
  <2>2. /\ started[q] =< ticks /\ ticks =< started[q] + Timeout
        /\ found[q].total =< version
        /\ found[q].total < version => changed[found[q].total] >= started[q]
    BY <1>0, <2>1 DEF ReaderOK, CurrentAt
  <2>3. ASSUME found[q].total < version
        PROVE  changed[version - 1] - changed[found[q].total] =< Timeout
    <3>1. version - 1 \in Versions /\ version - 1 < version
      <4>1. Versions = 0..MaxVersion /\ MaxVersion \in Nat
        BY CacheAssumption DEF Versions, BoardInv
      <4>2. version =< MaxVersion /\ version > 0
        BY <1>0, <2>2, <2>3, <4>1
      <4> QED
        BY <1>0, <4>1, <4>2
    <3>2. changed[version - 1] \in 0..ticks /\ changed[found[q].total] \in 0..ticks
      BY <1>0, <2>3, <3>1 DEF ChangesInOrder
    <3> QED
      BY <1>0, <2>2, <2>3, <3>2
  <2>4. Near(found[q])'
    <3>1. /\ found'[q].total =< found'[q].items /\ found'[q].items =< version'
          /\ found'[q].total < found'[q].items => found[q].total < version
      BY <1>0, <2>1, <2>2
    <3>2. found'[q].total < found'[q].items =>
             changed'[found'[q].items - 1] - changed'[found'[q].total] =< Timeout
      BY <2>1, <2>3, <3>1
    <3> QED
      BY <3>1, <3>2 DEF Near
  <2>5. CurrentAt(found[q].total, started[q])' /\ CurrentAt(found[q].items, started[q])'
    BY <1>0, <2>1, <2>2 DEF CurrentAt
  <2>6. found'[q].cut => CutSince(page[q], started[q])'
    BY <1>0, <2>1, <2>2 DEF CutSince
  <2> QED
    BY <2>1, <2>2, <2>4, <2>5, <2>6 DEF ReaderOK
<1>7. ASSUME SetAndServe(q) \/ Cancel(q) PROVE serving'[q] = "idle"
  BY <1>0, <1>7 DEF SetAndServe, Cancel, Serve, MoveTo, CacheTypeOK
<1> QED
  BY <1>1, <1>2, <1>3, <1>4, <1>5, <1>6, <1>7 DEF CacheNext, Step

\* What a finished read puts into the cache, and what it answers.
LEMMA ReadIsFresh ==
    ASSUME BoardInv, NEW r \in Readers, serving[r] = "set"
    PROVE  /\ Near(found[r])
           /\ CurrentAt(found[r].items, ticks - Timeout)
           /\ found[r].cut => CutSince(page[r], ticks - Timeout)
<1>1. /\ ReaderOK(r) /\ page[r] \in Pages /\ cutAt[page[r]] \in Int /\ ticks \in Nat /\ started[r] \in Nat /\ Timeout \in Nat
      /\ found[r].items \in Versions
      /\ \A v \in Versions : changed[v] \in Int
  BY BoardNumbers DEF BoardInv, CacheTypeOK
<1>2. /\ Near(found[r]) /\ ticks =< started[r] + Timeout
      /\ CurrentAt(found[r].items, started[r])
      /\ found[r].cut => CutSince(page[r], started[r])
  BY <1>1 DEF ReaderOK
<1> QED
  BY <1>1, <1>2 DEF CurrentAt, CutSince

LEMMA StepEntries == BoardInv /\ [CacheNext]_cacheVars => \A p \in Pages : EntryOK(p)'
<1> SUFFICES ASSUME BoardInv, [CacheNext]_cacheVars, NEW p \in Pages PROVE EntryOK(p)'
  OBVIOUS
<1>0. /\ CacheTypeOK /\ EntryOK(p)
      /\ ticks \in Nat /\ version \in Nat /\ Timeout \in Nat /\ CacheTTL \in Nat /\ CacheTTL > 0
      /\ cache[p].total \in Versions /\ cache[p].items \in Versions
      /\ cache[p].until \in Nat
      /\ ticks' \in {ticks, ticks + 1} /\ version' \in {version, version + 1}
  BY BoardNumbers, PastStays DEF BoardInv
<1>1. CASE cache'[p] = cache[p]
  <2>1. /\ cache[p].total =< cache[p].items /\ cache[p].items =< version
        /\ cache[p].total < cache[p].items =>
              changed[cache[p].items - 1] - changed[cache[p].total] =< Timeout
        /\ cache[p].until =< ticks + CacheTTL
    BY <1>0 DEF EntryOK, Near
  <2>2. Near(cache[p])'
    BY <1>0, <1>1, <2>1, NearStays DEF Near
  <2>3. cache[p].until =< ticks' + CacheTTL
    BY <1>0, <2>1
  <2>4. ASSUME cache[p].until > 0
        PROVE  cache[p].items < version' =>
                  changed'[cache[p].items] >= cache[p].until - CacheTTL - Timeout
    <3>1. cache[p].until - CacheTTL - Timeout \in Int
          /\ cache[p].until - CacheTTL - Timeout =< ticks
      BY <1>0, <2>1
    <3>2. cache[p].items < version =>
             changed[cache[p].items] >= cache[p].until - CacheTTL - Timeout
      BY <1>0, <2>4 DEF EntryOK, CurrentAt
    <3> QED
      BY <1>0, <2>1, <3>1, <3>2, CurrentStays
  <2>5. cache[p].cut => CutSince(p, cache[p].until - CacheTTL - Timeout)'
    BY <1>0, <1>1, CutsStay, BoardNumbers DEF EntryOK, CutSince
  <2> QED
    BY <1>1, <2>2, <2>3, <2>4, <2>5 DEF EntryOK, CurrentAt
<1>2. ASSUME NEW r \in Readers, serving[r] = "set", cache'[p] = Cached(r),
             page[r] = p, ticks' = ticks, version' = version, changed' = changed, cutAt' = cutAt
      PROVE  EntryOK(p)'
  <2>1. /\ cache'[p].total = found[r].total /\ cache'[p].items = found[r].items
        /\ cache'[p].until = ticks + CacheTTL /\ cache'[p].cut = found[r].cut
    BY <1>2 DEF Cached
  <2>2. Near(found[r]) /\ CurrentAt(found[r].items, ticks - Timeout)
    BY <1>2, ReadIsFresh
  <2>3. cache'[p].until - CacheTTL - Timeout = ticks - Timeout
    BY <1>0, <2>1
  <2>4. Near(cache[p])' /\ CurrentAt(cache[p].items, cache[p].until - CacheTTL - Timeout)'
    BY <1>2, <2>1, <2>2, <2>3 DEF Near, CurrentAt
  <2>5. cache'[p].cut => CutSince(p, cache[p].until - CacheTTL - Timeout)'
    BY <1>2, <2>1, <2>3, ReadIsFresh DEF CutSince
  <2> QED
    BY <1>0, <1>2, <2>1, <2>4, <2>5 DEF EntryOK
<1>3. CASE cache'[p] = Absent /\ ticks' = ticks /\ version' = version
  BY <1>0, <1>3 DEF Absent, EntryOK, Near
<1>4. ASSUME NEW r \in Readers, SetAndServe(r) \/ Cancel(r)
      PROVE  \/ cache'[p] = cache[p]
             \/ /\ serving[r] = "set" /\ cache'[p] = Cached(r) /\ page[r] = p /\ cutAt' = cutAt
                /\ ticks' = ticks /\ version' = version /\ changed' = changed
  BY <1>0, <1>4 DEF SetAndServe, Cancel, CacheTypeOK
<1>5. ASSUME NEW x \in Pages, Evict(x)
      PROVE  \/ cache'[p] = cache[p]
             \/ cache'[p] = Absent /\ ticks' = ticks /\ version' = version
  BY <1>0, <1>5 DEF Evict, CacheTypeOK
<1>6. CASE UNCHANGED cache
  BY <1>1, <1>6
<1> QED
  BY <1>1, <1>2, <1>3, <1>4, <1>5, <1>6
  DEF CacheNext, Step, Change, Tick, Request, Count,
      ReadPage, cacheVars

LEMMA StepAnswers == BoardInv /\ [CacheNext]_cacheVars => \A p \in Pages : AnswerOK(p)'
<1> SUFFICES ASSUME BoardInv, [CacheNext]_cacheVars, NEW p \in Pages PROVE AnswerOK(p)'
  OBVIOUS
<1>0. /\ CacheTypeOK /\ AnswerOK(p) /\ EntryOK(p)
      /\ ticks \in Nat /\ version \in Nat /\ Timeout \in Nat /\ CacheTTL \in Nat /\ CacheTTL > 0
      /\ last[p].total \in Versions /\ last[p].items \in Versions
      /\ last[p].time \in Nat
      /\ cache[p].items \in Versions /\ cache[p].until \in Nat
      /\ ticks' \in {ticks, ticks + 1} /\ version' \in {version, version + 1}
      /\ \A v \in Versions : changed[v] \in Int
  BY BoardNumbers, PastStays DEF BoardInv
<1>1. CASE last'[p] = last[p]
  <2>1. /\ last[p].total =< last[p].items /\ last[p].items =< version
        /\ last[p].total < last[p].items =>
              changed[last[p].items - 1] - changed[last[p].total] =< Timeout
        /\ last[p].time =< ticks
    BY <1>0 DEF AnswerOK, Near
  <2>2. Near(last[p])'
    BY <1>0, <1>1, <2>1, NearStays DEF Near
  <2>3. last[p].time =< ticks'
    BY <1>0, <2>1
  <2>4. last[p].items < version' =>
           changed'[last[p].items] >= last[p].time - CacheTTL - Timeout + 1
    <3>1. last[p].time - CacheTTL - Timeout + 1 \in Int
          /\ last[p].time - CacheTTL - Timeout + 1 =< ticks
      BY <1>0, <2>1
    <3>2. last[p].items < version =>
             changed[last[p].items] >= last[p].time - CacheTTL - Timeout + 1
      BY <1>0 DEF AnswerOK, CurrentAt
    <3> QED
      BY <1>0, <2>1, <3>1, <3>2, CurrentStays
  <2>5. last[p].cut => CutSince(p, last[p].time - CacheTTL - Timeout + 1)'
    BY <1>0, <1>1, CutsStay, BoardNumbers DEF AnswerOK, CutSince
  <2> QED
    BY <1>1, <2>2, <2>3, <2>4, <2>5 DEF AnswerOK, CurrentAt
<1>2. ASSUME NEW r \in Readers, NEW x \in Pages, NEW a, Serve(r, x, a),
             x = p => /\ Near(a) /\ a.items \in Versions
                      /\ CurrentAt(a.items, ticks - CacheTTL - Timeout + 1)
                      /\ a.cut => CutSince(p, ticks - CacheTTL - Timeout + 1),
             ticks' = ticks, version' = version, changed' = changed, cutAt' = cutAt
      PROVE  AnswerOK(p)'
  <2>1. CASE x = p
    <3>1. last'[p] = [total |-> a.total, items |-> a.items, cut |-> a.cut, time |-> ticks]
      BY <1>0, <1>2, <2>1 DEF Serve, CacheTypeOK
    <3>2. /\ last'[p].total = a.total /\ last'[p].items = a.items /\ last'[p].cut = a.cut
          /\ last'[p].time = ticks
      BY <3>1
    <3>3. Near(last[p])' /\ CurrentAt(last[p].items, last[p].time - CacheTTL - Timeout + 1)'
      BY <1>2, <2>1, <3>2 DEF Near, CurrentAt
    <3>4. last'[p].cut => CutSince(p, last[p].time - CacheTTL - Timeout + 1)'
      BY <1>2, <2>1, <3>2 DEF CutSince
    <3> QED
      BY <1>0, <1>2, <3>2, <3>3, <3>4 DEF AnswerOK
  <2>2. CASE x /= p
    <3>1. last'[p] = last[p]
      BY <1>0, <1>2, <2>2 DEF Serve, CacheTypeOK
    <3> QED
      BY <1>1, <3>1
  <2> QED
    BY <2>1, <2>2
<1>3. ASSUME NEW r \in Readers, NEW x \in Pages, Request(r, x), last' /= last
      PROVE  AnswerOK(p)'
  <2>1. /\ Serve(r, x, cache[x]) /\ cache[x].until > ticks
        /\ ticks' = ticks /\ version' = version /\ changed' = changed /\ cutAt' = cutAt
    BY <1>3 DEF Request, Fresh
  <2>2. ASSUME x = p
        PROVE  /\ Near(cache[x]) /\ cache[x].items \in Versions
               /\ CurrentAt(cache[x].items, ticks - CacheTTL - Timeout + 1)
               /\ cache[x].cut => CutSince(p, ticks - CacheTTL - Timeout + 1)
    <3>1. Near(cache[p]) /\ CurrentAt(cache[p].items, cache[p].until - CacheTTL - Timeout)
      BY <1>0, <2>1, <2>2 DEF EntryOK
    <3>2. cache[p].until - CacheTTL - Timeout >= ticks - CacheTTL - Timeout + 1
      BY <1>0, <2>1, <2>2
    <3>3. CurrentAt(cache[p].items, ticks - CacheTTL - Timeout + 1)
      BY <1>0, <3>1, <3>2 DEF CurrentAt
    <3>4. cache[p].cut => CutSince(p, ticks - CacheTTL - Timeout + 1)
      BY <1>0, <3>2, BoardNumbers DEF EntryOK, CutSince
    <3> QED
      BY <1>0, <2>2, <3>1, <3>3, <3>4
  <2> QED
    BY <1>2, <2>1, <2>2
<1>4. ASSUME NEW r \in Readers, SetAndServe(r) PROVE AnswerOK(p)'
  <2>1. /\ serving[r] = "set" /\ Serve(r, page[r], found[r]) /\ page[r] \in Pages
        /\ ticks' = ticks /\ version' = version /\ changed' = changed /\ cutAt' = cutAt
        /\ found[r].items \in Versions
    BY <1>0, <1>4 DEF SetAndServe, CacheTypeOK
  <2>2. Near(found[r]) /\ CurrentAt(found[r].items, ticks - Timeout)
    BY <2>1, ReadIsFresh
  <2>3. /\ CurrentAt(found[r].items, ticks - CacheTTL - Timeout + 1)
        /\ found[r].cut => CutSince(page[r], ticks - CacheTTL - Timeout + 1)
    <3>1. ticks - Timeout >= ticks - CacheTTL - Timeout + 1
      BY <1>0
    <3>2. found[r].cut => CutSince(page[r], ticks - Timeout)
      BY <2>1, ReadIsFresh
    <3> QED
      BY <1>0, <2>1, <2>2, <3>1, <3>2, BoardNumbers DEF CurrentAt, CutSince
  <2> QED
    BY <1>2, <2>1, <2>2, <2>3
<1>5. CASE UNCHANGED last
  BY <1>1, <1>5
<1> QED
  BY <1>3, <1>4, <1>5
  DEF CacheNext, Step, Change, Tick, Evict, Count,
      ReadPage, Cancel, cacheVars

\* The inductive invariant of the pages.
THEOREM BoardInvariance == CacheSpec => []BoardInv
<1>1. BoardInv /\ [CacheNext]_cacheVars => BoardInv'
  BY BoardType, StepChanges, CutsStay, StepReaders, StepEntries, StepAnswers DEF BoardInv
<1> QED
  BY <1>1, BoardInit, PTL DEF CacheSpec

\* Whatever overlaps, fails or is cancelled: the rows of a page were in the table less
\* than a lifetime and a request ago, its total was counted within a request of them,
\* and a page lacks rows only if a read of it failed as recently.
THEOREM PagesAreRecent == CacheSpec => []CacheInv
<1>1. BoardInv => CacheInv
  <2> SUFFICES ASSUME BoardInv PROVE CacheInv
    OBVIOUS
  <2>1. StalenessBounded
    <3> SUFFICES ASSUME NEW p \in Pages, last[p].items < version
                 PROVE  last[p].time - changed[last[p].items] < CacheTTL + Timeout
      BY DEF StalenessBounded
    <3>1. changed[last[p].items] >= last[p].time - CacheTTL - Timeout + 1
      BY DEF BoardInv, AnswerOK, CurrentAt
    <3> QED
      BY <3>1, BoardNumbers
  <2>2. TotalNearItems
    BY DEF BoardInv, AnswerOK, Near, TotalNearItems
  <2>3. CutsPass
    <3> SUFFICES ASSUME NEW p \in Pages, last[p].cut
                 PROVE  cutAt[p] >= 0 /\ last[p].time - cutAt[p] < CacheTTL + Timeout
      BY DEF CutsPass
    <3>1. cutAt[p] >= 0 /\ cutAt[p] >= last[p].time - CacheTTL - Timeout + 1
      BY DEF BoardInv, AnswerOK, CutSince
    <3> QED
      BY <3>1, BoardNumbers
  <2> QED
    BY <2>1, <2>2, <2>3 DEF BoardInv, CacheInv
<1> QED
  BY <1>1, BoardInvariance, PTL

\* While requests take turns and at most one call has failed: what the cache holds for
\* a page, and what a request is about to put there, is no older than the last answer,
\* and if it lacks rows that one had, a read was cut short since.
TakingTurns == ~overlapped /\ pageFaults < 2

OneAtATime == \A q, r \in Readers : serving[q] /= "idle" /\ serving[r] /= "idle" => q = r
NoWorse(p, a) ==
    /\ last[p].items =< a.items
    /\ a.cut /\ ~last[p].cut => cutAt[p] >= last[p].time

HitsAreNewer(p) == Fresh(p) => NoWorse(p, cache[p])
ReadsAreNewer(r) ==
    /\ serving[r] /= "idle" /\ Fresh(page[r]) => pageFaults > 0
    /\ serving[r] = "set" => NoWorse(page[r], found[r])

TurnsInv ==
    TakingTurns =>
        /\ OneAtATime
        /\ \A p \in Pages : HitsAreNewer(p)
        /\ \A r \in Readers : ReadsAreNewer(r)

\* Nothing undoes an overlap or a failure.
LEMMA TurnsWereTaken ==
    ASSUME BoardInv, [CacheNext]_cacheVars
    PROVE  TakingTurns' => TakingTurns /\ pageFaults =< pageFaults'
<1>0. pageFaults \in Nat
  BY CacheAssumption DEF BoardInv, CacheTypeOK
<1>1. pageFaults' \in {pageFaults, pageFaults + 1}
  BY DEF CacheNext, Step, Change, Tick, Evict, Request,
         Count, ReadPage, SetAndServe, Cancel, cacheVars,
         PageFine, PageFault
<1>2. overlapped => overlapped'
  BY DEF CacheNext, Step, Change, Tick, Evict, Request,
         Count, ReadPage, SetAndServe, Cancel, cacheVars
<1> QED
  BY <1>0, <1>1, <1>2 DEF TakingTurns

LEMMA TurnsStep == BoardInv /\ TurnsInv /\ [CacheNext]_cacheVars => TurnsInv'
<1> SUFFICES ASSUME BoardInv, TurnsInv, [CacheNext]_cacheVars, TakingTurns'
             PROVE  OneAtATime' /\ (\A p \in Pages : HitsAreNewer(p)') /\ (\A r \in Readers : ReadsAreNewer(r)')
  BY DEF TurnsInv
<1>0. /\ CacheTypeOK /\ OneAtATime
      /\ (\A p \in Pages : HitsAreNewer(p)) /\ (\A r \in Readers : ReadsAreNewer(r))
      /\ pageFaults =< pageFaults' /\ pageFaults \in Nat /\ pageFaults' \in Nat
      /\ ~overlapped' /\ pageFaults' < 2 /\ ticks \in Nat /\ version \in Nat
  BY TurnsWereTaken, BoardType, BoardNumbers, CacheAssumption
  DEF TurnsInv, BoardInv, TakingTurns, CacheTypeOK
<1>n. /\ \A p \in Pages : /\ cache[p].items \in Nat /\ cache[p].until \in Nat
                          /\ last[p].items \in Nat /\ last[p].time \in Nat /\ cutAt[p] \in Int
                          /\ cutAt'[p] \in Int /\ cutAt'[p] >= cutAt[p]
      /\ \A r \in Readers : found[r].items \in Nat /\ page[r] \in Pages
  BY <1>0, BoardNumbers, CutsStay DEF CacheTypeOK
<1>k. ASSUME NEW p \in Pages, NEW a, NoWorse(p, a), last'[p] = last[p]
      PROVE  /\ last'[p].items =< a.items
             /\ a.cut /\ ~last'[p].cut => cutAt'[p] >= last'[p].time
  BY <1>n, <1>k DEF NoWorse
\* Nobody's place, page, reading or answer changes; an entry can only go.
<1>1. CASE /\ serving' = serving /\ page' = page /\ found' = found /\ last' = last
           /\ \A p \in Pages : Fresh(p)' => Fresh(p) /\ cache'[p] = cache[p]
  <2>1. OneAtATime'
    BY <1>0, <1>1 DEF OneAtATime
  <2>2. ASSUME NEW p \in Pages PROVE HitsAreNewer(p)'
    <3> SUFFICES ASSUME Fresh(p)' PROVE NoWorse(p, cache[p])'
      BY DEF HitsAreNewer
    <3>1. cache'[p] = cache[p] /\ NoWorse(p, cache[p]) /\ last'[p] = last[p]
      BY <1>0, <1>1 DEF HitsAreNewer
    <3> QED
      BY <3>1, <1>k DEF NoWorse
  <2>3. ASSUME NEW r \in Readers PROVE ReadsAreNewer(r)'
    <3>1. serving'[r] /= "idle" /\ Fresh(page[r])' => pageFaults' > 0
      BY <1>0, <1>n, <1>1 DEF ReadsAreNewer
    <3>2. ASSUME serving'[r] = "set" PROVE NoWorse(page[r], found[r])'
      <4>1. NoWorse(page[r], found[r]) /\ page[r] \in Pages /\ last'[page[r]] = last[page[r]]
        BY <1>0, <1>n, <1>1, <3>2 DEF ReadsAreNewer
      <4> QED
        BY <1>1, <4>1, <1>k DEF NoWorse
    <3> QED
      BY <3>1, <3>2 DEF ReadsAreNewer
  <2> QED
    BY <2>1, <2>2, <2>3
<1>2. CASE Change \/ UNCHANGED cacheVars
  BY <1>1, <1>2 DEF Change, cacheVars, Fresh
<1>3. CASE Tick
  <2>1. \A p \in Pages : Fresh(p)' => Fresh(p) /\ cache'[p] = cache[p]
    BY <1>0, <1>n, <1>3 DEF Tick, Fresh
  <2> QED
    BY <1>1, <1>3, <2>1 DEF Tick
<1>4. ASSUME NEW x \in Pages, Evict(x)
      PROVE  OneAtATime' /\ (\A p \in Pages : HitsAreNewer(p)') /\ (\A r \in Readers : ReadsAreNewer(r)')
  <2>1. \A p \in Pages : Fresh(p)' => Fresh(p) /\ cache'[p] = cache[p]
    <3> SUFFICES ASSUME NEW p \in Pages, Fresh(p)' PROVE cache'[p] = cache[p]
      BY <1>4 DEF Evict, Fresh
    <3>1. CASE p = x
      BY <1>0, <1>4, <3>1 DEF Evict, Fresh, Absent, CacheTypeOK
    <3>2. CASE p /= x
      BY <1>0, <1>4, <3>2 DEF Evict, CacheTypeOK
    <3> QED
      BY <3>1, <3>2
  <2> QED
    BY <1>1, <1>4, <2>1 DEF Evict
\* Nobody was being served; a miss without a failure finds no entry.
<1>5. ASSUME NEW q \in Readers, NEW x \in Pages, Request(q, x)
      PROVE  OneAtATime' /\ (\A p \in Pages : HitsAreNewer(p)') /\ (\A r \in Readers : ReadsAreNewer(r)')
  <2>1. /\ \A r \in Readers : serving[r] = "idle"
        /\ page' = [page EXCEPT ![q] = x] /\ cache' = cache /\ ticks' = ticks /\ found' = found
    BY <1>0, <1>5 DEF Request
  <2>2. /\ \A r \in Readers : serving'[r] /= "idle" => r = q /\ serving'[r] = "count"
        /\ serving'[q] /= "idle" =>
              last' = last /\ (~Fresh(x) \/ pageFaults' = pageFaults + 1)
    BY <1>0, <1>5, <2>1 DEF Request, Serve, MoveTo, PageFault, CacheTypeOK
  <2>3. ASSUME NEW p \in Pages
        PROVE  \/ last'[p] = last[p]
               \/ Fresh(p) /\ last'[p].items = cache[p].items /\ last'[p].cut = cache[p].cut
    <3>1. CASE UNCHANGED last
      BY <3>1
    <3>2. CASE Fresh(x) /\ Serve(q, x, cache[x])
      <4>1. last' = [last EXCEPT ![x] = [total |-> cache[x].total, items |-> cache[x].items,
                                         cut |-> cache[x].cut, time |-> ticks]]
        BY <3>2 DEF Serve
      <4>2. last'[p] = IF p = x THEN [total |-> cache[x].total, items |-> cache[x].items,
                                      cut |-> cache[x].cut, time |-> ticks]
                                ELSE last[p]
        BY <1>0, <4>1 DEF CacheTypeOK
      <4> QED
        BY <3>2, <4>2
    <3> QED
      BY <1>5, <3>1, <3>2 DEF Request
  <2>4. OneAtATime'
    BY <2>2 DEF OneAtATime
  <2>5. ASSUME NEW p \in Pages PROVE HitsAreNewer(p)'
    <3> SUFFICES ASSUME Fresh(p)' PROVE NoWorse(p, cache[p])'
      BY DEF HitsAreNewer
    <3>1. NoWorse(p, cache[p]) /\ cache'[p] = cache[p]
      BY <1>0, <2>1 DEF HitsAreNewer, Fresh
    <3>2. CASE last'[p] = last[p]
      BY <3>1, <3>2, <1>k DEF NoWorse
    <3>3. CASE last'[p].items = cache[p].items /\ last'[p].cut = cache[p].cut
      BY <1>n, <3>1, <3>3 DEF NoWorse
    <3> QED
      BY <2>3, <3>2, <3>3
  <2>6. ASSUME NEW r \in Readers PROVE ReadsAreNewer(r)'
    <3>1. CASE r = q
      <4>1. page'[r] = x
        BY <1>0, <2>1, <3>1 DEF CacheTypeOK
      <4> QED
        BY <1>0, <2>1, <2>2, <3>1, <4>1 DEF ReadsAreNewer, Fresh
    <3>2. CASE r /= q
      BY <2>2, <3>2 DEF ReadsAreNewer
    <3> QED
      BY <3>1, <3>2
  <2> QED
    BY <2>4, <2>5, <2>6
\* The only request that is served moves on; what it reads now is the newest there is.
<1>6. ASSUME NEW q \in Readers, Count(q) \/ ReadPage(q)
      PROVE  OneAtATime' /\ (\A p \in Pages : HitsAreNewer(p)') /\ (\A r \in Readers : ReadsAreNewer(r)')
  <2>1. /\ serving[q] /= "idle" /\ page' = page /\ cache' = cache /\ ticks' = ticks /\ last' = last
        /\ \A r \in Readers : r /= q => serving'[r] = serving[r]
        /\ serving'[q] = "set" =>
              /\ found'[q].items = version
              /\ found'[q].cut => cutAt'[page[q]] = ticks
    BY <1>0, <1>6 DEF Count, ReadPage, MoveTo, CacheTypeOK
  <2>2. \A r \in Readers : serving'[r] /= "idle" => r = q
    BY <1>0, <2>1 DEF OneAtATime
  <2>3. ASSUME NEW p \in Pages PROVE HitsAreNewer(p)'
    <3> SUFFICES ASSUME Fresh(p)' PROVE NoWorse(p, cache[p])'
      BY DEF HitsAreNewer
    <3>1. NoWorse(p, cache[p]) /\ last'[p] = last[p]
      BY <1>0, <2>1 DEF HitsAreNewer, Fresh
    <3> QED
      BY <2>1, <3>1, <1>k DEF NoWorse
  <2>4. last[page[q]].items =< version /\ last[page[q]].time =< ticks
    BY <1>n, BoardNumbers DEF BoardInv, AnswerOK, Near
  <2>5. Fresh(page[q])' => pageFaults' > 0
    BY <1>0, <2>1 DEF ReadsAreNewer, Fresh
  <2>6. ASSUME NEW r \in Readers PROVE ReadsAreNewer(r)'
    <3>1. CASE r = q
      <4>1. serving'[q] = "set" => NoWorse(page[q], found[q])'
        BY <2>1, <2>4 DEF NoWorse
      <4> QED
        BY <2>1, <2>5, <3>1, <4>1 DEF ReadsAreNewer
    <3>2. CASE r /= q
      BY <2>2, <3>2 DEF ReadsAreNewer
    <3> QED
      BY <3>1, <3>2
  <2> QED
    BY <2>2, <2>3, <2>6 DEF OneAtATime
\* The reading is served: it is cached too, or the Set failed and there was no entry.
<1>7. ASSUME NEW q \in Readers, SetAndServe(q)
      PROVE  OneAtATime' /\ (\A p \in Pages : HitsAreNewer(p)') /\ (\A r \in Readers : ReadsAreNewer(r)')
  <2>1. /\ serving[q] = "set" /\ ticks' = ticks
        /\ \A r \in Readers : serving'[r] = "idle"
    BY <1>0, <1>7 DEF SetAndServe, Serve, MoveTo, OneAtATime, CacheTypeOK
  <2>2. ASSUME NEW p \in Pages PROVE HitsAreNewer(p)'
    <3>1. CASE p /= page[q]
      <4>1. cache'[p] = cache[p] /\ last'[p] = last[p]
        BY <1>0, <1>7, <3>1 DEF SetAndServe, Serve, CacheTypeOK
      <4>2. Fresh(p) => NoWorse(p, cache[p])'
        BY <1>0, <4>1, <1>k DEF HitsAreNewer, NoWorse
      <4> QED
        BY <2>1, <4>1, <4>2 DEF HitsAreNewer, Fresh
    <3>2. CASE p = page[q] /\ cache' = [cache EXCEPT ![page[q]] = Cached(q)]
      <4>1. /\ cache'[p].items = found[q].items /\ last'[p].items = found[q].items
            /\ cache'[p].cut = found[q].cut /\ last'[p].cut = found[q].cut
        BY <1>0, <1>7, <3>2 DEF SetAndServe, Serve, Cached, CacheTypeOK
      <4> QED
        BY <1>n, <4>1 DEF HitsAreNewer, NoWorse
    <3>3. CASE p = page[q] /\ UNCHANGED cache /\ PageFault
      <4>1. ~Fresh(p)
        BY <1>0, <2>1, <3>3 DEF PageFault, ReadsAreNewer
      <4> QED
        BY <2>1, <3>3, <4>1 DEF HitsAreNewer, Fresh
    <3> QED
      BY <1>7, <3>1, <3>2, <3>3 DEF SetAndServe
  <2> QED
    BY <2>1, <2>2 DEF OneAtATime, ReadsAreNewer
\* A Set on its way may still arrive, and brings a page that is no older.
<1>8. ASSUME NEW q \in Readers, Cancel(q)
      PROVE  OneAtATime' /\ (\A p \in Pages : HitsAreNewer(p)') /\ (\A r \in Readers : ReadsAreNewer(r)')
  <2>1. /\ \A r \in Readers : serving'[r] = "idle"
        /\ ticks' = ticks /\ last' = last
    BY <1>0, <1>8 DEF Cancel, MoveTo, OneAtATime, CacheTypeOK
  <2>2. ASSUME NEW p \in Pages PROVE HitsAreNewer(p)'
    <3>1. CASE cache'[p] = cache[p]
      <4>1. Fresh(p) => NoWorse(p, cache[p])'
        BY <1>0, <2>1, <3>1, <1>k DEF HitsAreNewer, NoWorse
      <4> QED
        BY <2>1, <3>1, <4>1 DEF HitsAreNewer, Fresh
    <3>2. CASE cache'[p] /= cache[p]
      <4>1. p = page[q] /\ serving[q] = "set" /\ cache'[p] = Cached(q)
        BY <1>0, <1>8, <3>2 DEF Cancel, CacheTypeOK
      <4>2. cache'[p].items = found[q].items /\ cache'[p].cut = found[q].cut
        BY <4>1 DEF Cached
      <4>3. NoWorse(p, found[q]) /\ last'[p] = last[p]
        BY <1>0, <2>1, <4>1 DEF ReadsAreNewer
      <4> QED
        BY <4>2, <4>3, <1>k DEF HitsAreNewer, NoWorse
    <3> QED
      BY <3>1, <3>2
  <2> QED
    BY <2>1, <2>2 DEF OneAtATime, ReadsAreNewer
<1> QED
  BY <1>2, <1>3, <1>4, <1>5, <1>6, <1>7, <1>8 DEF CacheNext, Step

\* As long as requests take turns and at most one call fails, no user is shown rows of
\* an older version after a newer one, nor an answer that lacks rows after a complete
\* one unless a read was cut short in between.
THEOREM PagesOnlyGetNewer == CacheSpec => SequentialNeverOlder
<1>1. CacheInit => TurnsInv
  <2> SUFFICES ASSUME CacheInit PROVE TurnsInv
    OBVIOUS
  <2> QED
    BY DEF CacheInit, TurnsInv, OneAtATime, HitsAreNewer, ReadsAreNewer, Fresh,
           Absent
<1>2. BoardInv /\ TurnsInv /\ [CacheNext]_cacheVars
         => \A p \in Pages : ~overlapped /\ pageFaults' < 2 /\ last'[p] /= last[p]
                                => /\ last'[p].items >= last[p].items
                                   /\ last'[p].cut /\ ~last[p].cut => cutAt'[p] >= last[p].time
  <2> SUFFICES ASSUME BoardInv, TurnsInv, [CacheNext]_cacheVars, NEW p \in Pages,
                      ~overlapped, pageFaults' < 2, last'[p] /= last[p]
               PROVE  /\ last'[p].items >= last[p].items
                      /\ last'[p].cut /\ ~last[p].cut => cutAt'[p] >= last[p].time
    OBVIOUS
  <2>0. /\ CacheTypeOK /\ cache[p].items \in Nat /\ last[p].items \in Nat
        /\ pageFaults \in Nat /\ pageFaults' \in Nat
        /\ \A r \in Readers : found[r].items \in Nat
    BY BoardNumbers, BoardType, CacheAssumption DEF BoardInv, CacheTypeOK
  <2>f. pageFaults' \in {pageFaults, pageFaults + 1}
    BY DEF CacheNext, Step, Change, Tick, Evict, Request,
           Count, ReadPage, SetAndServe, Cancel, cacheVars,
           PageFine, PageFault
  <2>1. pageFaults' >= pageFaults
    BY <2>0, <2>f
  <2>2. HitsAreNewer(p) /\ \A r \in Readers : ReadsAreNewer(r)
    BY <2>0, <2>1 DEF TurnsInv, TakingTurns
  <2>3. ASSUME NEW r \in Readers, NEW x \in Pages, Request(r, x)
        PROVE  /\ last'[p].items >= last[p].items
               /\ last'[p].cut /\ ~last[p].cut => cutAt'[p] >= last[p].time
    <3>1. /\ Fresh(p) /\ last'[p].items = cache[p].items /\ last'[p].cut = cache[p].cut
          /\ cutAt' = cutAt
      BY <2>0, <2>3 DEF Request, Serve, CacheTypeOK
    <3> QED
      BY <2>0, <2>2, <3>1 DEF HitsAreNewer, NoWorse
  <2>4. ASSUME NEW r \in Readers, SetAndServe(r)
        PROVE  /\ last'[p].items >= last[p].items
               /\ last'[p].cut /\ ~last[p].cut => cutAt'[p] >= last[p].time
    <3>1. /\ p = page[r] /\ serving[r] = "set" /\ last'[p].items = found[r].items
          /\ last'[p].cut = found[r].cut /\ cutAt' = cutAt
      BY <2>0, <2>4 DEF SetAndServe, Serve, CacheTypeOK
    <3> QED
      BY <2>0, <2>2, <3>1 DEF ReadsAreNewer, NoWorse
  <2> QED
    BY <2>3, <2>4
    DEF CacheNext, Step, Change, Tick, Evict, Count,
        ReadPage, Cancel, cacheVars
<1>3. BoardInv /\ TurnsInv /\ [CacheNext]_cacheVars
         => [\A p \in Pages : ~overlapped /\ pageFaults' < 2 /\ last'[p] /= last[p]
                                => /\ last'[p].items >= last[p].items
                                   /\ last'[p].cut /\ ~last[p].cut
                                         => cutAt'[p] >= last[p].time]_cacheVars
  BY <1>2
<1>4. CacheSpec => [](BoardInv /\ TurnsInv)
  BY <1>1, TurnsStep, BoardInvariance, PTL DEF CacheSpec
<1> QED
  BY <1>3, <1>4, PTL DEF CacheSpec, SequentialNeverOlder

=================================================================================

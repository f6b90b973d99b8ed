------------------------ MODULE DigitalTxGuardProofs ------------------------
(***************************************************************************)
(* What holds of DigitalTxGuard for every threshold, every number of gain  *)
(* steps and every number of generations.                                  *)
(***************************************************************************)
EXTENDS DigitalTxGuard, SequenceTheorems, TLAPS

(* The time stamps the guard keeps, one by one.                            *)
LEMMA StampsDef ==
    Stamps = {"started", "stableSince", "adjusted", "firstAudio", "lastAudio",
              "lastMeter", "highSince", "reduction", "highSample"}
BY DEF Stamps, cap

(* What the assumptions say of the bounds the type invariant uses.         *)
LEMMA BoundsType ==
    /\ MaximumGain \in Nat \ {0} /\ MinimumHighSamples \in Nat \ {0}
    /\ Stable \in Nat \ {0} /\ HighTimeout \in Nat \ {0}
    /\ MaxGeneration \in Nat \ {0}
    /\ CalibrationStartGain \in 0..MaximumGain
BY GuardAssumption

(* Every limit an age saturates at is a natural number.                    *)
LEMMA CapType == \A t \in Stamps : cap[t] \in Nat
BY StampsDef, GuardAssumption DEF cap, LargestOf

(***************************************************************************)
(* FailClosed is inductive as it stands: a generation is opened only by    *)
(* Begin, which opens it together with the guard, and every action that    *)
(* disarms or latches the guard closes the guard's own generation.         *)
(***************************************************************************)
(* Stopping the guard closes whatever generation is open, because an open  *)
(* one is its own.                                                         *)
LEMMA StopCloses ==
    ASSUME FailClosed, StopGuard
    PROVE  generation' = 0
BY DEF FailClosed, StopGuard, Closed

(* A meter reading never leaves a generation open without its guard.       *)
LEMMA MeterFailClosed ==
    ASSUME FailClosed, Meter
    PROVE  FailClosed'
<1>1. CASE MeterMalformed \/ MeterTooLate
  BY <1>1, StopCloses DEF FailClosed, MeterMalformed, MeterTooLate, TickTrips,
                          TripGuard
<1>2. CASE \E r \in Reading : MeterAccepted(r)
  <2> PICK r \in Reading : MeterAccepted(r)
    BY <1>2
  <2>1. ASSUME NEW c, NEW ages, TripGuard(c, ages)
        PROVE  FailClosed'
    BY <2>1, StopCloses DEF FailClosed, TripGuard
  <2>2. ASSUME NEW ages, NEW n, NEW g, Judge(ages, n, g)
        PROVE  FailClosed'
    BY <2>2 DEF FailClosed, Judge
  <2>3. CASE MeterExcessive(r)
    BY <2>3, <2>1 DEF MeterExcessive
  <2>4. CASE MeterSettling(r) \/ MeterWithinLimits(r) \/ MeterWithoutTone(r)
    BY <2>4, <2>2 DEF MeterSettling, MeterWithinLimits, MeterWithoutTone
  <2>5. CASE MeterTooLow(r)
    BY <2>5, <2>1, <2>2 DEF MeterTooLow
  <2>6. CASE MeterOnTarget(r)
    BY <2>6, <2>2, StopCloses DEF MeterOnTarget, FailClosed
  <2>7. CASE MeterHigh(r)
    BY <2>7, <2>1, <2>2 DEF MeterHigh
  <2>8. QED
    BY <2>3, <2>4, <2>5, <2>6, <2>7 DEF MeterAccepted
<1>3. QED
  BY <1>1, <1>2 DEF Meter, MeterArrives

(* No step of any thread leaves a generation open without its guard.       *)
LEMMA FailClosedStep ==
    ASSUME FailClosed, [Next]_vars
    PROVE  FailClosed'
<1> USE DEF FailClosed
<1>1. CASE Begin
  BY <1>1 DEF Begin, BeginState, control, guard
<1>2. CASE RefuseBegin
  BY <1>2 DEF RefuseBegin, control, guard
<1>3. CASE Stop \/ ConnectionLost
  BY <1>3, StopCloses DEF Stop, ConnectionLost, Stopped
<1>4. CASE Acknowledge
  BY <1>4 DEF Acknowledge, control
<1>5. CASE Meter
  BY <1>5, MeterFailClosed
<1>6. CASE ServiceTick
  BY <1>6, StopCloses DEF ServiceTick, TickTrips, TripGuard
<1>7. ASSUME NEW g \in Generations, SendAudio(g)
      PROVE  FailClosed'
  <2>1. CASE TickTrips \/ TripGuard("link", age)
    BY <2>1, StopCloses DEF TickTrips, TripGuard
  <2>2. CASE AudioAccepted
    BY <2>2 DEF AudioAccepted, control
  <2>3. QED
    BY <1>7, <2>1, <2>2 DEF SendAudio
<1>8. ASSUME NEW kind \in Kinds, NEW operator \in BOOLEAN, Issue(kind, operator)
      PROVE  FailClosed'
  BY <1>8 DEF Issue, guard
<1>9. ASSUME NEW stopped \in BOOLEAN, Finish(stopped)
      PROVE  FailClosed'
  BY <1>9 DEF Finish, Revoke, Closed, guard
<1>10. CASE AudioThread
  BY <1>10 DEF AudioThread, StartEncoding, EncodeFrame, FaultStore, FaultClose,
               StopEncoding, Closed, control, guard
<1>11. CASE Advance
  BY <1>11 DEF Advance, control
<1>12. CASE UNCHANGED vars
  BY <1>12 DEF vars, control, guard
<1>13. QED
  BY <1>1, <1>2, <1>3, <1>4, <1>5, <1>6, <1>7, <1>8, <1>9, <1>10, <1>11, <1>12
     DEF Next, IoThread, UiThread

(* No generation is ever open without an unlatched, active guard of its    *)
(* own, for every interleaving of the three threads.                       *)
THEOREM NoUnguardedTransmission == Spec => []FailClosed
<1>1. Init => FailClosed
  BY DEF Init, FailClosed
<1>2. FailClosed /\ [Next]_vars => FailClosed'
  BY FailClosedStep
<1>3. QED
  BY <1>1, <1>2, PTL DEF Spec

(***************************************************************************)
(* Type correctness.  The ages are the part that needs an argument: every  *)
(* operator that updates them keeps each within its limit.                 *)
(***************************************************************************)
(* Setting one age to now or to never keeps every age within its limit.    *)
LEMMA AgesReset ==
    ASSUME NEW ages, AgesOK(ages), NEW t \in Stamps
    PROVE  /\ AgesOK([ages EXCEPT ![t] = 0])
           /\ AgesOK([ages EXCEPT ![t] = NoTime])
<1>1. cap[t] \in Nat
  BY CapType
<1>2. /\ 0 \in Int /\ NoTime <= 0 /\ 0 <= cap[t]
      /\ NoTime \in Int /\ NoTime <= NoTime /\ NoTime <= cap[t]
  BY <1>1 DEF NoTime
<1>3. AgesOK([ages EXCEPT ![t] = 0])
  BY <1>2 DEF AgesOK
<1>4. AgesOK([ages EXCEPT ![t] = NoTime])
  BY <1>2 DEF AgesOK
<1>5. QED
  BY <1>3, <1>4

(* The resets a judgement of a reading makes keep the ages within limits.  *)
LEMMA MeterAges ==
    ASSUME NEW ages, AgesOK(ages)
    PROVE  /\ AgesOK(NotHigh(ages))
           /\ AgesOK(NotStable(ages))
           /\ AgesOK(Reduced(ages))
<1>1. AgesOK([ages EXCEPT !["highSince"] = NoTime])
  BY StampsDef, AgesReset
<1>2. AgesOK(NotHigh(ages))
  <2> DEFINE first == [ages EXCEPT !["highSince"] = NoTime]
  <2>1. NotHigh(ages) = [first EXCEPT !["highSample"] = NoTime]
    BY DEF NotHigh
  <2> HIDE DEF first
  <2>2. AgesOK(first)
    BY <1>1 DEF first
  <2>3. QED
    BY <2>1, <2>2, StampsDef, AgesReset
<1>3. AgesOK(NotStable(ages))
  BY StampsDef, AgesReset DEF NotStable
<1>4. AgesOK(Reduced(ages))
  <2> DEFINE first == [ages EXCEPT !["adjusted"] = 0]
  <2>1. Reduced(ages) = [first EXCEPT !["reduction"] = 0]
    BY DEF Reduced
  <2>2. AgesOK(first)
    BY StampsDef, AgesReset
  <2> HIDE DEF first
  <2>3. QED
    BY <2>1, <2>2, StampsDef, AgesReset
<1>5. QED
  BY <1>2, <1>3, <1>4

(* The ages a reading leaves, high or not, are within their limits.        *)
LEMMA ReadingAges ==
    ASSUME AgesOK(age)
    PROVE  AgesOK(ReadAges) /\ AgesOK(HighAges)
<1>1. AgesOK(ReadAges)
  BY StampsDef, AgesReset DEF ReadAges
<1>2. AgesOK(NotStable(ReadAges))
  BY <1>1, MeterAges
<1>3. AgesOK(HighAges)
  <2> DEFINE start == NotStable(ReadAges)
             first == [start EXCEPT !["highSince"] = IF @ = NoTime THEN 0 ELSE @]
  <2>1. HighAges = [first EXCEPT
                       !["highSample"] = IF @ = NoTime \/ @ >= SampleGap THEN 0 ELSE @]
    BY DEF HighAges
  <2>2. AgesOK(start)
    BY <1>2
  <2> HIDE DEF start
  <2>3. AgesOK(first)
    <3>1. CASE start["highSince"] = NoTime
      BY <3>1, <2>2, StampsDef, AgesReset
    <3>2. CASE start["highSince"] # NoTime
      BY <3>2, <2>2, StampsDef DEF AgesOK
    <3>3. QED
      BY <3>1, <3>2
  <2> HIDE DEF first
  <2>4. CASE first["highSample"] = NoTime \/ first["highSample"] >= SampleGap
    BY <2>4, <2>1, <2>3, StampsDef, AgesReset
  <2>5. CASE ~(first["highSample"] = NoTime \/ first["highSample"] >= SampleGap)
    BY <2>5, <2>1, <2>3, StampsDef DEF AgesOK
  <2>6. QED
    BY <2>4, <2>5
<1>4. QED
  BY <1>1, <1>3

(* Time passing saturates each age at its limit.                           *)
LEMMA AgesPass ==
    ASSUME AgesOK(age)
    PROVE  AgesOK([t \in Stamps |-> Older(age[t], cap[t])])
BY CapType DEF AgesOK, Older, NoTime

(* Taking a call leaves a queue of calls, and what was taken is one; only  *)
(* a begin carries a generation.                                           *)
LEMMA TakeType ==
    ASSUME TypeOK, NEW call, Take(call)
    PROVE  /\ inbox' \in Seq(Message) /\ Head(inbox) \in Message
           /\ call = "begin" => /\ Head(inbox).generation \in Generations
                               /\ Head(inbox).kind \in Kinds
<1>1. inbox' \in Seq(Message) /\ Head(inbox) \in Message
  BY HeadTailProperties DEF Take, TypeOK
<1>2. Head(inbox).call = call
  BY DEF Take
<1>3. QED
  BY <1>1, <1>2 DEF Message, StopMsg, AcknowledgeMsg

(* Every call the UI thread queues is a message.                           *)
LEMMA MessageType ==
    /\ StopMsg \in Message
    /\ AcknowledgeMsg \in Message
    /\ \A g \in Generations, kind \in Kinds : BeginMsg(g, kind) \in Message
BY DEF BeginMsg, Message

(* Closing a generation leaves a generation or none.                       *)
LEMMA ClosedType ==
    ASSUME TypeOK, NEW g
    PROVE  Closed(g) \in GenerationOrNone
BY BoundsType DEF TypeOK, Closed, GenerationOrNone

(* A trip of the guard, for any cause, preserves the types.                *)
LEMMA TripType ==
    ASSUME TypeOK, NEW cause \in Results, NEW ages, AgesOK(ages),
           TripGuard(cause, ages), UNCHANGED <<ui, inbox, audio, history>>
    PROVE  TypeOK'
<1>1. generation' \in GenerationOrNone
  BY ClosedType DEF TripGuard, StopGuard
<1>2. AgesOK(age')
  BY DEF TripGuard
<1>3. QED
  BY <1>1, <1>2 DEF TripGuard, StopGuard, TypeOK, AgesOK, ui, audio, history

(* A trip found by tick preserves the types.                               *)
LEMMA TickTripType ==
    ASSUME TypeOK, TickTrips, UNCHANGED <<ui, inbox, audio, history>>
    PROVE  TypeOK'
<1>1. PICK c \in TickCauses : TripGuard(c, age)
  BY DEF TickTrips
<1>2. c \in Results
  BY <1>1 DEF TickCauses, Results
<1>3. QED
  BY <1>1, <1>2, TripType DEF TypeOK

(* The history kept of a reading stays within its bounds.                  *)
LEMMA ObserveType ==
    ASSUME TypeOK, NEW r, NEW moved, Observe(r, moved)
    PROVE  /\ revoked' \subseteq GenerationOrNone
           /\ sinceAdverse' \in 0..Stable
           /\ sinceNotHigh' \in 0..HighTimeout
BY BoundsType DEF Observe, TypeOK

(* A judgement of a reading preserves the types.                           *)
LEMMA JudgeType ==
    ASSUME TypeOK, NEW ages, AgesOK(ages), NEW samples \in 0..MinimumHighSamples,
           NEW newGain \in Gains, NEW r, NEW moved,
           Judge(ages, samples, newGain), Observe(r, moved),
           UNCHANGED <<ui, inbox, audio>>
    PROVE  TypeOK'
<1>1. AgesOK(age')
  BY DEF Judge
<1>2. QED
  BY <1>1, ObserveType DEF Judge, TypeOK, AgesOK, ui, audio

(* A reading leaves every variable within its type.                        *)
LEMMA MeterType ==
    ASSUME TypeOK, Meter
    PROVE  TypeOK'
<1> USE DEF Results
<1>1. AgesOK(age) /\ AgesOK(ReadAges) /\ AgesOK(HighAges)
  BY ReadingAges DEF TypeOK
<1>2. /\ AgesOK(NotHigh(ReadAges))
      /\ AgesOK(NotStable(NotHigh(ReadAges)))
      /\ AgesOK(Reduced(HighAges))
      /\ AgesOK(NotHigh(Reduced(HighAges)))
  BY <1>1, MeterAges
<1>3. AgesOK([NotStable(NotHigh(ReadAges)) EXCEPT !["adjusted"] = 0])
  BY <1>2, AgesReset, StampsDef
<1>4. UNCHANGED <<ui, inbox, audio>>
  BY DEF Meter
<1>5. /\ 0 \in 0..MinimumHighSamples
      /\ HighCount \in 0..MinimumHighSamples
  BY BoundsType DEF HighCount, SmallestOf, TypeOK
<1>6. gain \in Gains /\ (gain > 0 => gain - 1 \in Gains)
      /\ (gain # MaximumGain => gain + 1 \in Gains)
  BY BoundsType DEF TypeOK, Gains
<1>7. CASE MeterMalformed
  BY <1>7, <1>1, <1>4, TripType DEF MeterMalformed
<1>8. CASE MeterTooLate
  BY <1>8, <1>4, TickTripType DEF MeterTooLate
<1>9. CASE \E r \in Reading : MeterAccepted(r)
  <2> PICK r \in Reading : MeterAccepted(r)
    BY <1>9
  <2>1. CASE MeterExcessive(r)
    BY <2>1, <1>1, <1>4, TripType DEF MeterExcessive
  <2>2. CASE MeterSettling(r) \/ MeterWithinLimits(r) \/ MeterWithoutTone(r)
    BY <2>2, <1>2, <1>4, <1>5, <1>6, JudgeType
       DEF MeterSettling, MeterWithinLimits, MeterWithoutTone
  <2>3. CASE MeterTooLow(r)
    <3>1. CASE gain = MaximumGain
      BY <3>1, <2>3, <1>2, <1>4, TripType DEF MeterTooLow
    <3>2. CASE gain # MaximumGain
      BY <3>2, <2>3, <1>3, <1>4, <1>5, <1>6, JudgeType DEF MeterTooLow
    <3>3. QED
      BY <3>1, <3>2
  <2>4. CASE MeterOnTarget(r)
    <3> DEFINE since == IF Known("stableSince") THEN age["stableSince"] ELSE 0
               start == NotHigh(ReadAges)
               ages == [start EXCEPT !["stableSince"] = since]
    <3>1. AgesOK(ages)
      <4>1. AgesOK(start)
        BY <1>2
      <4>2. since \in Int /\ NoTime <= since /\ since <= cap["stableSince"]
        BY <1>1, CapType, StampsDef DEF AgesOK, Known, NoTime
      <4> HIDE DEF since, start
      <4>3. QED
        BY <4>1, <4>2, StampsDef DEF AgesOK, ages
    <3>2. CASE since >= Stable
      <4>1. generation' \in GenerationOrNone /\ active' = FALSE
        BY <3>2, <2>4, ClosedType DEF MeterOnTarget, StopGuard
      <4>2. /\ AgesOK(age') /\ result' = "calibrated" /\ highSamples' = 0
            /\ UNCHANGED <<scheduledGeneration, gain, audioFault, latched,
                           myGeneration, calibrating>>
            /\ Observe(r, FALSE)
        BY <3>1, <3>2, <2>4 DEF MeterOnTarget
      <4>3. QED
        BY <4>1, <4>2, <1>4, <1>5, ObserveType DEF TypeOK, AgesOK, ui, audio
    <3>3. CASE ~(since >= Stable)
      <4>1. Judge(ages, 0, gain) /\ Observe(r, FALSE)
        BY <3>3, <2>4 DEF MeterOnTarget
      <4> HIDE DEF ages
      <4>2. QED
        BY <4>1, <3>1, <1>4, <1>5, <1>6, JudgeType
    <3>4. QED
      BY <3>2, <3>3
  <2>5. CASE MeterHigh(r)
    BY <2>5, <1>1, <1>2, <1>4, <1>5, <1>6, JudgeType, TripType DEF MeterHigh
  <2>6. QED
    BY <2>1, <2>2, <2>3, <2>4, <2>5 DEF MeterAccepted
<1>10. QED
  BY <1>7, <1>8, <1>9 DEF Meter, MeterArrives

(* Every action preserves the types.                                       *)
LEMMA TypeStep ==
    ASSUME TypeOK, [Next]_vars
    PROVE  TypeOK'
<1>1. CASE Begin
  <2> DEFINE m == Head(inbox)
  <2>1. inbox' \in Seq(Message) /\ m.generation \in Generations
    BY <1>1, TakeType DEF Begin
  <2>2. UNCHANGED <<ui, audio>>
    BY <1>1 DEF Begin
  <2>3. ASSUME NEW open \in BOOLEAN, BeginState(m.generation, m.kind, open)
        PROVE  TypeOK'
    <3>1. AgesOK(age')
      BY <2>3, CapType DEF BeginState, AgesOK, NoTime
    <3>2. m.generation \in GenerationOrNone
      BY <2>1, BoundsType DEF Generations, GenerationOrNone
    <3>3. gain' \in Gains /\ generation' \in GenerationOrNone
          /\ audioFault' \in GenerationOrNone /\ highSamples' \in 0..MinimumHighSamples
      BY <2>3, <3>2, BoundsType DEF BeginState, TypeOK, Gains, GenerationOrNone
    <3>4. sinceAdverse' \in 0..Stable /\ sinceNotHigh' \in 0..HighTimeout
      BY <2>3, BoundsType DEF BeginState
    <3>5. /\ myGeneration' = m.generation /\ active' = open /\ result' = "running"
          /\ calibrating' \in BOOLEAN
          /\ UNCHANGED <<scheduledGeneration, latched, revoked>>
      BY <2>3 DEF BeginState
    <3>6. QED
      BY <2>1, <2>2, <2>3, <3>1, <3>2, <3>3, <3>4, <3>5
         DEF TypeOK, Results, AgesOK, ui, audio
  <2>4. CASE UNCHANGED <<control, guard, history>>
    BY <2>1, <2>2, <2>4 DEF TypeOK, AgesOK, control, guard, history, ui, audio
  <2>5. QED
    BY <1>1, <2>3, <2>4 DEF Begin
<1>2. CASE RefuseBegin
  <2>1. inbox' \in Seq(Message)
    BY <1>2, TakeType DEF RefuseBegin
  <2>2. QED
    BY <1>2, <2>1 DEF RefuseBegin, TypeOK, AgesOK, control, guard, history, ui, audio
<1>3. CASE Stop \/ ConnectionLost
  <2>1. inbox' \in Seq(Message)
    BY <1>3, TakeType DEF Stop, ConnectionLost, TypeOK
  <2>2. Stopped
    BY <1>3 DEF Stop, ConnectionLost
  <2>3. generation' \in GenerationOrNone
    BY <2>2, ClosedType DEF Stopped, StopGuard
  <2>4. result' \in Results
    BY <2>2 DEF Stopped, TypeOK, Results
  <2>5. QED
    BY <2>1, <2>2, <2>3, <2>4 DEF Stopped, StopGuard, TypeOK, AgesOK, history, ui, audio
<1>4. CASE Acknowledge
  <2>1. inbox' \in Seq(Message)
    BY <1>4, TakeType DEF Acknowledge
  <2>2. latched' \in BOOLEAN
    BY <1>4 DEF Acknowledge, TypeOK
  <2>3. QED
    BY <1>4, <2>1, <2>2 DEF Acknowledge, TypeOK, AgesOK, control, history, ui, audio
<1>5. CASE Meter
  BY <1>5, MeterType
<1>6. CASE ServiceTick
  BY <1>6, TickTripType DEF ServiceTick
<1>7. ASSUME NEW g \in Generations, SendAudio(g)
      PROVE  TypeOK'
  <2>1. UNCHANGED <<ui, inbox, audio, history>>
    BY <1>7 DEF SendAudio
  <2>2. CASE TickTrips
    BY <2>1, <2>2, TickTripType
  <2>3. CASE TripGuard("link", age)
    BY <2>1, <2>3, TripType DEF TypeOK, Results
  <2>4. CASE AudioAccepted
    <3> DEFINE first == [age EXCEPT !["lastAudio"] = 0]
               second == [first EXCEPT !["firstAudio"] = 0]
               third == [second EXCEPT !["adjusted"] = 0]
    <3>1. AgesOK(first)
      BY AgesReset, StampsDef DEF TypeOK
    <3>2. AgesOK(second)
      <4> HIDE DEF first
      <4>1. QED
        BY <3>1, AgesReset, StampsDef
    <3>3. AgesOK(third)
      <4> HIDE DEF second
      <4>1. QED
        BY <3>2, AgesReset, StampsDef
    <3>4. age' = first \/ age' = third
      BY <2>4 DEF AudioAccepted
    <3>5. AgesOK(age')
      BY <3>1, <3>3, <3>4
    <3>6. QED
      BY <2>1, <2>4, <3>5
         DEF AudioAccepted, TypeOK, AgesOK, control, history, ui, audio
  <2>5. QED
    BY <1>7, <2>2, <2>3, <2>4 DEF SendAudio
<1>8. ASSUME NEW kind \in Kinds, NEW operator \in BOOLEAN, Issue(kind, operator)
      PROVE  TypeOK'
  <2>1. issued + 1 \in Generations /\ issued + 1 \in GenerationOrNone
    BY <1>8, BoundsType DEF Issue, TypeOK, Generations, GenerationOrNone
  <2>2. inbox' \in Seq(Message)
    <3>1. BeginMsg(issued + 1, kind) \in Message /\ AcknowledgeMsg \in Message
      BY <2>1, MessageType
    <3> DEFINE ack == IF operator THEN <<AcknowledgeMsg>> ELSE <<>>
               start == <<BeginMsg(issued + 1, kind)>>
    <3>2. inbox' = (inbox \o ack) \o start
      BY <1>8 DEF Issue
    <3>3. ack \in Seq(Message) /\ start \in Seq(Message)
      BY <3>1, EmptySeq
    <3>4. inbox \in Seq(Message)
      BY DEF TypeOK
    <3> HIDE DEF ack, start
    <3>5. inbox \o ack \in Seq(Message)
      BY <3>3, <3>4, ConcatProperties
    <3>6. QED
      BY <3>2, <3>3, <3>5, ConcatProperties
  <2>3. gain' \in Gains
    BY <1>8 DEF Issue, TypeOK
  <2>4. /\ scheduledGeneration' \in GenerationOrNone /\ issued' \in GenerationOrNone
        /\ busy' \in BOOLEAN
    BY <1>8, <2>1 DEF Issue, TypeOK
  <2>5. QED
    BY <1>8, <2>2, <2>3, <2>4 DEF Issue, TypeOK, AgesOK, guard, audio, history
<1>9. ASSUME NEW stopped \in BOOLEAN, Finish(stopped)
      PROVE  TypeOK'
  <2>1. inbox' \in Seq(Message)
    BY <1>9, MessageType, AppendProperties DEF Finish, TypeOK
  <2>2. /\ generation' \in GenerationOrNone /\ scheduledGeneration' \in GenerationOrNone
    BY <1>9, ClosedType, BoundsType DEF Finish, Revoke, TypeOK, GenerationOrNone
  <2>3. revoked' \subseteq GenerationOrNone
    BY <1>9 DEF Finish, Revoke, TypeOK
  <2>4. QED
    BY <1>9, <2>1, <2>2, <2>3 DEF Finish, TypeOK, AgesOK, guard, audio
<1>10. CASE AudioThread
  <2>1. ASSUME NEW g \in Generations, StartEncoding(g)
        PROVE  TypeOK'
    BY <2>1, BoundsType DEF StartEncoding, TypeOK, AgesOK, control, guard, ui,
       history, Generations, GenerationOrNone
  <2>2. CASE EncodeFrame
    <3>1. NextStageGain \in Gains
      BY BoundsType DEF NextStageGain, SmallestOf, TypeOK
    <3>2. encoding \in Generations
      BY <2>2, BoundsType DEF EncodeFrame, Allows, TypeOK, Generations, GenerationOrNone
    <3>3. QED
      BY <2>2, <3>1, <3>2 DEF EncodeFrame, TypeOK, AgesOK, control, guard, ui, history
  <2>3. CASE FaultStore
    BY <2>3 DEF FaultStore, TypeOK, AgesOK, guard, ui
  <2>4. CASE FaultClose
    <3>1. generation' \in GenerationOrNone
      BY <2>4, ClosedType DEF FaultClose
    <3>2. encoding' \in GenerationOrNone
      BY <2>4, BoundsType DEF FaultClose, GenerationOrNone
    <3>3. QED
      BY <2>4, <3>1, <3>2 DEF FaultClose, TypeOK, AgesOK, guard, ui, history
  <2>5. CASE StopEncoding
    BY <2>5, BoundsType DEF StopEncoding, TypeOK, AgesOK, control, guard, ui,
       history, GenerationOrNone
  <2>6. QED
    BY <1>10, <2>1, <2>2, <2>3, <2>4, <2>5 DEF AudioThread
<1>11. CASE Advance
  <2>1. AgesOK(age')
    BY <1>11, AgesPass DEF Advance, TypeOK
  <2>2. sinceAdverse' \in 0..Stable /\ sinceNotHigh' \in 0..HighTimeout
    BY <1>11, BoundsType DEF Advance, TypeOK, Older, NoTime
  <2>3. QED
    BY <1>11, <2>1, <2>2 DEF Advance, TypeOK, AgesOK, control, ui, audio
<1>12. CASE UNCHANGED vars
  BY <1>12 DEF vars, control, guard, ui, audio, history, TypeOK, AgesOK
<1>13. QED
  BY <1>1, <1>2, <1>3, <1>4, <1>5, <1>6, <1>7, <1>8, <1>9, <1>10, <1>11, <1>12
     DEF Next, IoThread, UiThread

(* Every variable keeps its type, and every age stays within the limit it  *)
(* saturates at, for all thresholds and any number of generations.         *)
THEOREM TypeCorrect == Spec => []TypeOK
<1>1. Init => TypeOK
  <2> SUFFICES ASSUME Init PROVE TypeOK
    OBVIOUS
  <2>1. AgesOK(age)
    BY CapType DEF Init, AgesOK, NoTime
  <2>2. 0 \in GenerationOrNone /\ MaximumGain \in Gains /\ 0 \in 0..MinimumHighSamples
        /\ 0 \in 0..Stable /\ 0 \in 0..HighTimeout
    BY BoundsType DEF GenerationOrNone, Gains
  <2>3. inbox \in Seq(Message)
    BY EmptySeq DEF Init
  <2>4. QED
    BY <2>1, <2>2, <2>3 DEF Init, TypeOK, Results
<1>2. TypeOK /\ [Next]_vars => TypeOK'
  BY TypeStep
<1>3. QED
  BY <1>1, <1>2, PTL DEF Spec

(***************************************************************************)
(* The audio thread's gain stage.                                          *)
(***************************************************************************)
(* Within one transmission that is not a calibration, no step of any       *)
(* thread raises the drive applied to the samples.                         *)
THEOREM TransmissionDriveOnlyFalls == Spec => DriveNeverRises
<1> DEFINE Falls == encoding # 0 /\ encoding' = encoding /\ Allows(encoding)
                    /\ ~calibrating => stageGain' <= stageGain
<1>1. TypeOK /\ [Next]_vars => [Falls]_vars
  <2> SUFFICES ASSUME TypeOK, Next, encoding # 0, encoding' = encoding,
                      Allows(encoding), ~calibrating
               PROVE  stageGain' <= stageGain
    BY DEF vars
  <2>1. stageGain \in Int /\ gain \in Int
    BY BoundsType DEF TypeOK, Gains
  <2>2. CASE EncodeFrame
    BY <2>1, <2>2 DEF EncodeFrame, NextStageGain, SmallestOf
  <2>3. CASE \E g \in Generations : StartEncoding(g)
    BY <2>3 DEF StartEncoding
  <2>4. CASE FaultStore \/ FaultClose \/ StopEncoding
    BY <2>1, <2>4 DEF FaultStore, FaultClose, StopEncoding
  <2>5. CASE UNCHANGED audio
    BY <2>1, <2>5 DEF audio
  <2>6. IoThread \/ UiThread \/ Advance => UNCHANGED audio
    BY DEF IoThread, UiThread, Begin, RefuseBegin, Stop, ConnectionLost, Stopped,
           Acknowledge, Meter, ServiceTick, SendAudio, Issue, Finish, Advance
  <2>7. QED
    BY <2>2, <2>3, <2>4, <2>5, <2>6 DEF Next, AudioThread
<1>2. []TypeOK /\ [][Next]_vars => [][Falls]_vars
  BY <1>1, PTL
<1>3. QED
  BY <1>2, TypeCorrect, PTL DEF Spec, DriveNeverRises

(***************************************************************************)
(* The guard and its callers implement the gate.  FailClosed is what makes *)
(* it go through: the generation a trip or a stop closes is the open one.  *)
(***************************************************************************)
(* A trip of the guard is the gate's.                                      *)
LEMMA TripIsTrip ==
    ASSUME FailClosed, active, NEW cause, NEW ages, TripGuard(cause, ages)
    PROVE  Gate!Trip
BY StopCloses DEF TripGuard, StopGuard, Gate!Trip

(* Closing any generation shuts the gate or leaves it as it is.            *)
LEMMA CloseIsShut ==
    ASSUME NEW g, generation' = Closed(g), UNCHANGED <<active, latched, myGeneration>>
    PROVE  Gate!Shut \/ UNCHANGED Gate!gate
BY DEF Closed, Gate!Shut, Gate!gate

(* A reading trips, ends a calibration, or is no business of the gate.     *)
LEMMA MeterIsGate ==
    ASSUME FailClosed, Meter
    PROVE  [Gate!Next]_(Gate!gate)
<1>1. active
  BY DEF Meter
<1>2. ASSUME NEW c, NEW ages, TripGuard(c, ages)
      PROVE  [Gate!Next]_(Gate!gate)
  BY <1>1, <1>2, TripIsTrip DEF Gate!Next
<1>3. ASSUME NEW ages, NEW n, NEW g, Judge(ages, n, g)
      PROVE  [Gate!Next]_(Gate!gate)
  BY <1>3 DEF Judge, Gate!gate
<1>4. CASE MeterMalformed \/ MeterTooLate
  BY <1>2, <1>4 DEF MeterMalformed, MeterTooLate, TickTrips
<1>5. CASE \E r \in Reading : MeterAccepted(r)
  <2> PICK r \in Reading : MeterAccepted(r)
    BY <1>5
  <2>1. CASE MeterExcessive(r)
    BY <2>1, <1>2 DEF MeterExcessive
  <2>2. CASE MeterSettling(r) \/ MeterWithinLimits(r) \/ MeterWithoutTone(r)
    BY <2>2, <1>3 DEF MeterSettling, MeterWithinLimits, MeterWithoutTone
  <2>3. CASE MeterTooLow(r)
    BY <2>3, <1>2, <1>3 DEF MeterTooLow
  <2>4. CASE MeterOnTarget(r)
    <3>1. ASSUME StopGuard, UNCHANGED <<latched, myGeneration>>
          PROVE  Gate!Release
      BY <3>1, <1>1, StopCloses DEF StopGuard, Gate!Release
    <3>2. QED
      BY <2>4, <3>1, <1>3 DEF MeterOnTarget, Gate!Next
  <2>5. CASE MeterHigh(r)
    BY <2>5, <1>2, <1>3 DEF MeterHigh
  <2>6. QED
    BY <2>1, <2>2, <2>3, <2>4, <2>5 DEF MeterAccepted
<1>6. QED
  BY <1>4, <1>5 DEF Meter, MeterArrives

(* Every step of the three threads is a step of the gate or leaves it.     *)
LEMMA StepIsGate ==
    ASSUME TypeOK, FailClosed, [Next]_vars
    PROVE  [Gate!Next]_(Gate!gate)
<1>1. CASE Begin
  <2> DEFINE m == Head(inbox)
  <2>1. m.generation \in 1..MaxGeneration
    BY <1>1, TakeType DEF Begin, Generations
  <2>2. CASE BeginState(m.generation, m.kind, TRUE)
    BY <1>1, <2>1, <2>2 DEF Begin, BeginState, Gate!Open, Gate!Next
  <2>3. CASE BeginState(m.generation, m.kind, FALSE)
    <3>1. ~active /\ ~latched /\ active = FALSE
      BY <1>1 DEF Begin, TypeOK
    <3>2. Gate!Pass(m.generation)
      BY <2>3, <3>1 DEF BeginState, Gate!Pass
    <3>3. QED
      BY <2>1, <3>2 DEF Gate!Next
  <2>4. CASE UNCHANGED <<control, guard, history>>
    BY <2>4 DEF control, guard, Gate!gate
  <2>5. QED
    <3>1. ASSUME NEW open \in BOOLEAN, BeginState(m.generation, m.kind, open)
          PROVE  [Gate!Next]_(Gate!gate)
      BY <3>1, <2>2, <2>3
    <3>2. QED
      BY <1>1, <2>4, <3>1 DEF Begin
<1>2. CASE RefuseBegin
  BY <1>2 DEF RefuseBegin, control, guard, Gate!gate
<1>3. CASE Stop \/ ConnectionLost
  <2>1. StopGuard /\ UNCHANGED <<latched, myGeneration>>
    BY <1>3 DEF Stop, ConnectionLost, Stopped
  <2>2. generation' = 0 /\ active' = FALSE
    BY <2>1, StopCloses DEF StopGuard
  <2>3. CASE active
    BY <2>1, <2>2, <2>3 DEF Gate!Release, Gate!Next
  <2>4. CASE ~active
    BY <2>1, <2>2, <2>4 DEF FailClosed, TypeOK, Gate!gate
  <2>5. QED
    BY <2>3, <2>4
<1>4. CASE Acknowledge
  <2>1. CASE active
    BY <1>4, <2>1 DEF Acknowledge, TypeOK, control, Gate!gate
  <2>2. CASE ~active
    BY <1>4, <2>2 DEF Acknowledge, control, Gate!Acknowledge, Gate!Next
  <2>3. QED
    BY <2>1, <2>2
<1>5. CASE Meter
  BY <1>5, MeterIsGate
<1>6. CASE ServiceTick
  BY <1>6, TripIsTrip DEF ServiceTick, TickTrips, Gate!Next
<1>7. ASSUME NEW g \in Generations, SendAudio(g)
      PROVE  [Gate!Next]_(Gate!gate)
  <2>1. CASE TickTrips \/ TripGuard("link", age)
    BY <1>7, <2>1, TripIsTrip DEF SendAudio, TickTrips, Gate!Next
  <2>2. CASE AudioAccepted
    BY <2>2 DEF AudioAccepted, control, Gate!gate
  <2>3. QED
    BY <1>7, <2>1, <2>2 DEF SendAudio
<1>8. ASSUME NEW kind \in Kinds, NEW operator \in BOOLEAN, Issue(kind, operator)
      PROVE  [Gate!Next]_(Gate!gate)
  BY <1>8 DEF Issue, guard, Gate!gate
<1>9. ASSUME NEW stopped \in BOOLEAN, Finish(stopped)
      PROVE  [Gate!Next]_(Gate!gate)
  <2>1. UNCHANGED <<active, latched, myGeneration>>
    BY <1>9 DEF Finish, guard
  <2>2. generation' = Closed(issued) \/ generation' = generation
    BY <1>9 DEF Finish, Revoke
  <2>3. QED
    BY <2>1, <2>2, CloseIsShut DEF Gate!gate, Gate!Next
<1>10. CASE AudioThread
  <2>1. UNCHANGED <<active, latched, myGeneration>>
    BY <1>10 DEF AudioThread, StartEncoding, EncodeFrame, FaultStore, FaultClose,
                 StopEncoding, guard
  <2>2. generation' = Closed(encoding) \/ generation' = generation
    BY <1>10 DEF AudioThread, StartEncoding, EncodeFrame, FaultStore, FaultClose,
                 StopEncoding, control
  <2>3. QED
    BY <2>1, <2>2, CloseIsShut DEF Gate!gate, Gate!Next
<1>11. CASE Advance
  BY <1>11 DEF Advance, control, Gate!gate
<1>12. CASE UNCHANGED vars
  BY <1>12 DEF vars, control, guard, Gate!gate
<1>13. QED
  BY <1>1, <1>2, <1>3, <1>4, <1>5, <1>6, <1>7, <1>8, <1>9, <1>10, <1>11, <1>12
     DEF Next, IoThread, UiThread

(* To the other threads the guard is the gate of TxGate, whatever it       *)
(* measures: opened for one generation together with its watchdog, shut by *)
(* anyone, and shut for good by a trip until the operator acknowledges it. *)
THEOREM GuardImplementsGate == Spec => GateSpec
<1>1. Init => Gate!Init
  BY DEF Init, Gate!Init
<1>2. TypeOK /\ FailClosed /\ [Next]_vars => [Gate!Next]_(Gate!gate)
  BY StepIsGate
<1>3. QED
  BY <1>1, <1>2, TypeCorrect, NoUnguardedTransmission, PTL
     DEF Spec, GateSpec, Gate!Spec

(***************************************************************************)
(* What a stop reports is true.  A generation that another thread closed   *)
(* is known to have been closed, also between the two stores of a fault;   *)
(* and the time stamps the guard judges by are no older than the evidence  *)
(* they stand for, which the history variables measure apart from them.    *)
(***************************************************************************)
ClosedAreKnown ==
    /\ active => myGeneration \in Generations
    /\ active /\ generation # myGeneration => myGeneration \in revoked
    /\ audioFault # 0 => audioFault \in revoked
    /\ faulting => encoding \in revoked

(* Of the ages: the tone never streamed without having begun, stability is *)
(* that of a calibration and of no adverse event since, and high readings  *)
(* are counted from one after the last that was not high.                  *)
Evident(ages, adverse, notHigh) ==
    /\ ages["firstAudio"] # NoTime => ages["lastAudio"] # NoTime
    /\ ages["stableSince"] # NoTime => calibrating /\ adverse >= ages["stableSince"]
    /\ ages["highSince"] # NoTime => notHigh >= SmallestOf(ages["highSince"], HighTimeout)
StampsAreEvident == Evident(age, sinceAdverse, sinceNotHigh)

(* A trip of the guard needs no more than the generation it closes.        *)
LEMMA TripKnown ==
    ASSUME ClosedAreKnown, NEW cause, NEW ages, TripGuard(cause, ages),
           UNCHANGED <<audio, history>>
    PROVE  ClosedAreKnown'
BY DEF ClosedAreKnown, TripGuard, StopGuard, audio, history

(* A judgement of a reading closes nothing.                                *)
LEMMA JudgeKnown ==
    ASSUME ClosedAreKnown, NEW ages, NEW n, NEW g, NEW r, NEW moved,
           Judge(ages, n, g), Observe(r, moved), UNCHANGED audio
    PROVE  ClosedAreKnown'
BY DEF ClosedAreKnown, Judge, Observe, audio

(* No reading closes a generation but the guard's own, and stops with it.  *)
LEMMA MeterKnown ==
    ASSUME ClosedAreKnown, Meter
    PROVE  ClosedAreKnown'
<1>1. UNCHANGED audio
  BY DEF Meter
<1>2. CASE MeterMalformed \/ MeterTooLate
  BY <1>1, <1>2, TripKnown DEF MeterMalformed, MeterTooLate, TickTrips
<1>3. CASE \E r \in Reading : MeterAccepted(r)
  <2> PICK r \in Reading : MeterAccepted(r)
    BY <1>3
  <2>1. CASE MeterExcessive(r)
    BY <2>1, <1>1, TripKnown DEF MeterExcessive
  <2>2. CASE MeterSettling(r) \/ MeterWithinLimits(r) \/ MeterWithoutTone(r)
    BY <2>2, <1>1, JudgeKnown DEF MeterSettling, MeterWithinLimits, MeterWithoutTone
  <2>3. CASE MeterTooLow(r)
    BY <2>3, <1>1, TripKnown, JudgeKnown DEF MeterTooLow
  <2>4. CASE MeterOnTarget(r)
    <3>1. ASSUME StopGuard, UNCHANGED <<audioFault, myGeneration>>, Observe(r, FALSE)
          PROVE  ClosedAreKnown'
      BY <3>1, <1>1 DEF ClosedAreKnown, StopGuard, Observe, audio
    <3>2. QED
      BY <2>4, <3>1, <1>1, JudgeKnown DEF MeterOnTarget
  <2>5. CASE MeterHigh(r)
    BY <2>5, <1>1, TripKnown, JudgeKnown DEF MeterHigh
  <2>6. QED
    BY <2>1, <2>2, <2>3, <2>4, <2>5 DEF MeterAccepted
<1>4. QED
  BY <1>2, <1>3 DEF Meter, MeterArrives

(* One step per action.                                                    *)
LEMMA KnownStep ==
    ASSUME TypeOK, ClosedAreKnown, [Next]_vars
    PROVE  ClosedAreKnown'
<1>1. CASE Begin
  <2> DEFINE m == Head(inbox)
  <2>1. m.generation \in Generations /\ UNCHANGED audio
    BY <1>1, TakeType DEF Begin
  <2>2. ASSUME NEW open \in BOOLEAN, BeginState(m.generation, m.kind, open)
        PROVE  ClosedAreKnown'
    <3>1. /\ myGeneration' = m.generation /\ active' = open /\ audioFault' = 0
          /\ generation' = (IF open THEN m.generation ELSE 0) /\ revoked' = revoked
      BY <2>2 DEF BeginState
    <3>2. QED
      BY <2>1, <3>1 DEF ClosedAreKnown, audio
  <2>3. CASE UNCHANGED <<control, guard, history>>
    BY <2>1, <2>3 DEF ClosedAreKnown, control, guard, audio, history
  <2>4. QED
    BY <1>1, <2>2, <2>3 DEF Begin
<1>2. CASE RefuseBegin
  BY <1>2 DEF RefuseBegin, ClosedAreKnown, control, guard, audio, history
<1>3. CASE Stop \/ ConnectionLost
  BY <1>3 DEF Stop, ConnectionLost, Stopped, StopGuard, ClosedAreKnown, audio, history
<1>4. CASE Acknowledge
  BY <1>4 DEF Acknowledge, ClosedAreKnown, control, audio, history
<1>5. CASE Meter
  BY <1>5, MeterKnown
<1>6. CASE ServiceTick
  BY <1>6, TripKnown DEF ServiceTick, TickTrips
<1>7. ASSUME NEW g \in Generations, SendAudio(g)
      PROVE  ClosedAreKnown'
  <2>1. CASE TickTrips \/ TripGuard("link", age)
    BY <1>7, <2>1, TripKnown DEF SendAudio, TickTrips
  <2>2. CASE AudioAccepted
    BY <1>7, <2>2 DEF SendAudio, AudioAccepted, ClosedAreKnown, control, audio, history
  <2>3. QED
    BY <1>7, <2>1, <2>2 DEF SendAudio
<1>8. ASSUME NEW kind \in Kinds, NEW operator \in BOOLEAN, Issue(kind, operator)
      PROVE  ClosedAreKnown'
  BY <1>8 DEF Issue, ClosedAreKnown, guard, audio, history
<1>9. ASSUME NEW stopped \in BOOLEAN, Finish(stopped)
      PROVE  ClosedAreKnown'
  <2>1. UNCHANGED <<active, myGeneration, audioFault, faulting, encoding>>
    BY <1>9 DEF Finish, guard, audio
  <2>2. /\ revoked \subseteq revoked'
        /\ generation' = generation \/ (generation' = 0 /\ generation = issued
                                        /\ issued \in revoked')
    BY <1>9 DEF Finish, Revoke, Closed
  <2>3. QED
    BY <2>1, <2>2 DEF ClosedAreKnown
<1>10. CASE AudioThread
  <2>1. CASE FaultStore
    BY <2>1 DEF FaultStore, ClosedAreKnown, guard
  <2>2. CASE FaultClose
    BY <2>2 DEF FaultClose, Closed, ClosedAreKnown, guard, history
  <2>3. CASE \E g \in Generations : StartEncoding(g)
    BY <2>3 DEF StartEncoding, ClosedAreKnown, control, guard, history
  <2>4. CASE EncodeFrame \/ StopEncoding
    BY <2>4 DEF EncodeFrame, StopEncoding, ClosedAreKnown, control, guard, history
  <2>5. QED
    BY <1>10, <2>1, <2>2, <2>3, <2>4 DEF AudioThread
<1>11. CASE Advance
  BY <1>11 DEF Advance, ClosedAreKnown, control, audio
<1>12. CASE UNCHANGED vars
  BY <1>12 DEF vars, ClosedAreKnown, control, guard, audio, history
<1>13. QED
  BY <1>1, <1>2, <1>3, <1>4, <1>5, <1>6, <1>7, <1>8, <1>9, <1>10, <1>11, <1>12
     DEF Next, IoThread, UiThread


(* A transmission ends, and says why, by a finding of tick, a calibration  *)
(* that succeeds, or one of the reasons that need no evidence of this      *)
(* kind.                                                                   *)
OtherResults ==
    {"running", "stopped", "malformed", "excessive", "passband", "resolution", "link"}
LEMMA WhyItEnds ==
    ASSUME Next, result' # result \/ (active /\ ~active')
    PROVE  \/ result' \in TickCauses
           \/ \E r \in Reading : MeterOnTarget(r) /\ result' = "calibrated"
           \/ result' \in OtherResults
<1> DEFINE Why == \/ result' \in TickCauses
                  \/ \E r \in Reading : MeterOnTarget(r) /\ result' = "calibrated"
                  \/ result' \in OtherResults
<1>1. ASSUME NEW c \in TickCauses \union OtherResults, NEW ages, TripGuard(c, ages)
      PROVE  Why
  BY <1>1 DEF TripGuard
<1>2. {"stopped", "malformed", "excessive", "passband", "resolution", "link"}
          \subseteq OtherResults
  BY DEF OtherResults
<1>3. TickTrips => Why
  BY <1>1 DEF TickTrips
<1>4. ASSUME NEW ages, NEW n, NEW g, Judge(ages, n, g)
      PROVE  FALSE
  BY <1>4 DEF Judge
<1>5. CASE Begin
  BY <1>5 DEF Begin, BeginState, guard, OtherResults
<1>6. CASE Stop \/ ConnectionLost
  BY <1>6 DEF Stop, ConnectionLost, Stopped, OtherResults
<1>7. CASE Meter
  <2>1. CASE MeterMalformed \/ MeterTooLate
    BY <2>1, <1>1, <1>2, <1>3 DEF MeterMalformed, MeterTooLate
  <2>2. CASE \E r \in Reading : MeterAccepted(r)
    <3> PICK r \in Reading : MeterAccepted(r)
      BY <2>2
    <3>1. CASE MeterExcessive(r)
      BY <3>1, <1>1, <1>2 DEF MeterExcessive
    <3>2. CASE MeterSettling(r) \/ MeterWithinLimits(r) \/ MeterWithoutTone(r)
      BY <3>2, <1>4 DEF MeterSettling, MeterWithinLimits, MeterWithoutTone
    <3>3. CASE MeterTooLow(r)
      BY <3>3, <1>1, <1>2, <1>4 DEF MeterTooLow
    <3>4. CASE MeterOnTarget(r)
      <4>1. result' = "calibrated"
        BY <3>4, <1>4 DEF MeterOnTarget
      <4>2. QED
        BY <3>4, <4>1
    <3>5. CASE MeterHigh(r)
      BY <3>5, <1>1, <1>2, <1>4 DEF MeterHigh
    <3>6. QED
      BY <3>1, <3>2, <3>3, <3>4, <3>5 DEF MeterAccepted
  <2>3. QED
    BY <1>7, <2>1, <2>2 DEF Meter, MeterArrives
<1>8. CASE ServiceTick
  BY <1>3, <1>8 DEF ServiceTick
<1>9. ASSUME NEW g \in Generations, SendAudio(g)
      PROVE  Why
  BY <1>1, <1>2, <1>3, <1>9 DEF SendAudio, AudioAccepted
<1>10. UiThread \/ AudioThread \/ Advance \/ RefuseBegin \/ Acknowledge
           => UNCHANGED <<result, active>>
  BY DEF UiThread, Issue, Finish, AudioThread, StartEncoding, EncodeFrame, FaultStore,
         FaultClose, StopEncoding, Advance, RefuseBegin, Acknowledge, guard
<1>11. QED
  BY <1>5, <1>6, <1>7, <1>8, <1>9, <1>10 DEF Next, IoThread

(* A stop as cancelled or as faulty is that of a transmission that another *)
(* thread closed, never of the one after it.                               *)
THEOREM FaultsAreItsOwn == Spec => FaultsStayInTheirGeneration
<1> DEFINE Own == active /\ ~active' /\ result' \in {"headroom", "cancelled"}
                     => myGeneration \in revoked
<1>1. Init => ClosedAreKnown
  BY DEF Init, ClosedAreKnown
<1>2. TypeOK /\ ClosedAreKnown /\ [Next]_vars => ClosedAreKnown'
  BY KnownStep
<1>3. TypeOK /\ ClosedAreKnown /\ [Next]_vars => [Own]_vars
  <2> SUFFICES ASSUME TypeOK, ClosedAreKnown, Next, active, ~active',
                      result' \in {"headroom", "cancelled"}
               PROVE  myGeneration \in revoked
    BY DEF vars
  <2>1. result' \in TickCauses
    BY WhyItEnds DEF OtherResults
  <2>2. myGeneration # 0
    BY BoundsType DEF ClosedAreKnown, Generations
  <2>3. audioFault = myGeneration \/ generation # myGeneration
    <3>1. "headroom" \in TickCauses => audioFault = myGeneration
      BY DEF TickCauses
    <3>2. "cancelled" \in TickCauses => ~Allows(myGeneration)
      BY DEF TickCauses
    <3>3. result' = "headroom" \/ result' = "cancelled"
      OBVIOUS
    <3>4. QED
      BY <2>1, <2>2, <3>1, <3>2, <3>3 DEF Allows
  <2>4. QED
    BY <2>2, <2>3 DEF ClosedAreKnown
<1>4. [](TypeOK /\ ClosedAreKnown) /\ [][Next]_vars => [][Own]_vars
  BY <1>3, PTL
<1>5. QED
  BY <1>1, <1>2, <1>4, TypeCorrect, PTL DEF Spec, FaultsStayInTheirGeneration


(***************************************************************************)
(* What the resets of the ages do to the evidence.                         *)
(***************************************************************************)
(* The four ages of which the invariant speaks, of all the ages there are. *)
LEMMA Witnesses == {"firstAudio", "lastAudio", "stableSince", "highSince", "highSample",
                    "lastMeter", "adjusted", "reduction"} \subseteq Stamps
BY StampsDef

(* Forgetting what was high or stable, noting a reading or a change of the *)
(* gain leaves no less evidence.                                           *)
LEMMA ResetsKeepEvidence ==
    ASSUME NEW ages, ages \in [Stamps -> Int], NEW adverse, NEW notHigh,
           Evident(ages, adverse, notHigh)
    PROVE  /\ Evident(NotHigh(ages), adverse, notHigh)
           /\ Evident(NotStable(ages), adverse, notHigh)
           /\ Evident(Reduced(ages), adverse, notHigh)
           /\ Evident([ages EXCEPT !["lastMeter"] = 0], adverse, notHigh)
           /\ Evident([ages EXCEPT !["adjusted"] = 0], adverse, notHigh)
           /\ NotHigh(ages) \in [Stamps -> Int] /\ NotStable(ages) \in [Stamps -> Int]
           /\ Reduced(ages) \in [Stamps -> Int]
           /\ [ages EXCEPT !["lastMeter"] = 0] \in [Stamps -> Int]
           /\ NotHigh(ages)["highSince"] = NoTime
           /\ NotHigh(ages)["stableSince"] = ages["stableSince"]
           /\ NotStable(ages)["stableSince"] = NoTime
           /\ NotStable(ages)["highSince"] = ages["highSince"]
           /\ Reduced(ages)["stableSince"] = ages["stableSince"]
<1> NoTime \in Int
  BY DEF NoTime
<1>1. /\ NotHigh(ages) \in [Stamps -> Int] /\ NotHigh(ages)["highSince"] = NoTime
      /\ \A t \in Stamps \ {"highSince", "highSample"} : NotHigh(ages)[t] = ages[t]
  BY Witnesses DEF NotHigh
<1>2. /\ NotStable(ages) \in [Stamps -> Int] /\ NotStable(ages)["stableSince"] = NoTime
      /\ \A t \in Stamps \ {"stableSince"} : NotStable(ages)[t] = ages[t]
  BY Witnesses DEF NotStable
<1>3. /\ Reduced(ages) \in [Stamps -> Int]
      /\ \A t \in Stamps \ {"adjusted", "reduction"} : Reduced(ages)[t] = ages[t]
  BY Witnesses DEF Reduced
<1>4. ASSUME NEW u \in {"lastMeter", "adjusted"}
      PROVE  /\ [ages EXCEPT ![u] = 0] \in [Stamps -> Int]
             /\ \A t \in Stamps \ {u} : [ages EXCEPT ![u] = 0][t] = ages[t]
  BY Witnesses
<1>5. ASSUME NEW other, \A t \in {"firstAudio", "lastAudio", "stableSince", "highSince"} :
                            other[t] = ages[t]
      PROVE  Evident(other, adverse, notHigh)
  BY <1>5 DEF Evident
<1>6. Evident(NotHigh(ages), adverse, notHigh)
  <2>1. NotHigh(ages)["firstAudio"] = ages["firstAudio"]
        /\ NotHigh(ages)["lastAudio"] = ages["lastAudio"]
        /\ NotHigh(ages)["stableSince"] = ages["stableSince"]
    BY <1>1, Witnesses
  <2>2. QED
    BY <1>1, <2>1 DEF Evident
<1>7. Evident(NotStable(ages), adverse, notHigh)
  <2>1. NotStable(ages)["firstAudio"] = ages["firstAudio"]
        /\ NotStable(ages)["lastAudio"] = ages["lastAudio"]
        /\ NotStable(ages)["highSince"] = ages["highSince"]
    BY <1>2, Witnesses
  <2>2. QED
    BY <1>2, <2>1 DEF Evident
<1>8. Evident(Reduced(ages), adverse, notHigh)
  BY <1>3, <1>5, Witnesses
<1>9. /\ Evident([ages EXCEPT !["lastMeter"] = 0], adverse, notHigh)
      /\ Evident([ages EXCEPT !["adjusted"] = 0], adverse, notHigh)
  BY <1>4, <1>5, Witnesses
<1>10. QED
  BY <1>1, <1>2, <1>3, <1>4, <1>6, <1>7, <1>8, <1>9, Witnesses

(* High readings count from the first that follows one that was not high:  *)
(* no longer than the last that was not is past.                           *)
LEMMA HighIsEvident ==
    ASSUME TypeOK, StampsAreEvident
    PROVE  /\ Evident(HighAges, sinceAdverse, sinceNotHigh)
           /\ HighAges \in [Stamps -> Int] /\ HighAges["stableSince"] = NoTime
<1> DEFINE start == NotStable(ReadAges)
           high == IF start["highSince"] = NoTime THEN 0 ELSE start["highSince"]
           sample == IF start["highSample"] = NoTime \/ start["highSample"] >= SampleGap
                     THEN 0 ELSE start["highSample"]
<1>1. /\ start \in [Stamps -> Int] /\ Evident(start, sinceAdverse, sinceNotHigh)
      /\ start["stableSince"] = NoTime
  BY ResetsKeepEvidence DEF ReadAges, StampsAreEvident, TypeOK, AgesOK
<1>2. HighAges = [[start EXCEPT !["highSince"] = high] EXCEPT !["highSample"] = sample]
  BY <1>1, Witnesses DEF HighAges
<1>3. sample \in Int /\ high \in Int
  BY <1>1, Witnesses
<1>4. sinceNotHigh \in Nat /\ HighTimeout \in Nat
  BY BoundsType DEF TypeOK
<1>5. start["highSince"] # NoTime => sinceNotHigh >= SmallestOf(start["highSince"], HighTimeout)
  BY <1>1 DEF Evident
<1>6. sinceNotHigh >= SmallestOf(high, HighTimeout)
  BY <1>4, <1>5 DEF SmallestOf
<1>7. start["firstAudio"] # NoTime => start["lastAudio"] # NoTime
  BY <1>1 DEF Evident
<1> HIDE DEF start, sample, high
<1>8. /\ HighAges \in [Stamps -> Int]
      /\ HighAges["highSince"] = high
      /\ HighAges["stableSince"] = start["stableSince"]
      /\ HighAges["firstAudio"] = start["firstAudio"]
      /\ HighAges["lastAudio"] = start["lastAudio"]
  BY <1>1, <1>2, <1>3, Witnesses
<1>9. QED
  BY <1>1, <1>6, <1>7, <1>8 DEF Evident

(* A trip leaves the evidence its ages leave.                              *)
LEMMA TripEvident ==
    ASSUME NEW cause, NEW ages, Evident(ages, sinceAdverse, sinceNotHigh),
           TripGuard(cause, ages), UNCHANGED history
    PROVE  StampsAreEvident'
BY DEF TripGuard, Evident, StampsAreEvident, history

(* A judgement of a reading: what is adverse for a level or not high needs *)
(* the stamp that would say otherwise to have been reset.                  *)
LEMMA JudgeEvident ==
    ASSUME TypeOK, NEW ages \in [Stamps -> Int], Evident(ages, sinceAdverse, sinceNotHigh),
           NEW n, NEW g, NEW r, NEW moved,
           moved \/ r.alc # "target" => ages["stableSince"] = NoTime,
           r.alc # "high" => ages["highSince"] = NoTime,
           Judge(ages, n, g), Observe(r, moved)
    PROVE  StampsAreEvident'
<1>1. /\ age' = ages /\ calibrating' = calibrating
      /\ sinceAdverse' = (IF moved \/ r.alc # "target" THEN 0 ELSE sinceAdverse)
      /\ sinceNotHigh' = (IF r.alc = "high" THEN sinceNotHigh ELSE 0)
  BY DEF Judge, Observe
<1>2. QED
  BY <1>1 DEF Evident, StampsAreEvident

(* A reading leaves no stamp that claims more than it showed.              *)
LEMMA MeterEvident ==
    ASSUME TypeOK, StampsAreEvident, Meter
    PROVE  StampsAreEvident'
<1> DEFINE adverse == sinceAdverse
           past == sinceNotHigh
           quiet == NotHigh(ReadAges)
<1>1. age \in [Stamps -> Int] /\ Evident(age, adverse, past)
  BY DEF TypeOK, AgesOK, StampsAreEvident
<1>2. ReadAges \in [Stamps -> Int] /\ Evident(ReadAges, adverse, past)
  BY <1>1, ResetsKeepEvidence DEF ReadAges
<1>3. /\ quiet \in [Stamps -> Int] /\ Evident(quiet, adverse, past)
      /\ quiet["highSince"] = NoTime
      /\ quiet["stableSince"] = ReadAges["stableSince"]
  BY <1>2, ResetsKeepEvidence
<1>4. ReadAges["stableSince"] = age["stableSince"]
  BY <1>1, Witnesses DEF ReadAges
<1>5. /\ NotStable(quiet) \in [Stamps -> Int] /\ Evident(NotStable(quiet), adverse, past)
      /\ NotStable(quiet)["highSince"] = NoTime /\ NotStable(quiet)["stableSince"] = NoTime
  BY <1>3, ResetsKeepEvidence
<1>6. CASE MeterMalformed
  BY <1>1, <1>6, TripEvident DEF MeterMalformed
<1>7. CASE MeterTooLate
  BY <1>1, <1>7, TripEvident DEF MeterTooLate, TickTrips
<1>8. CASE \E r \in Reading : MeterAccepted(r)
  <2> PICK r \in Reading : MeterAccepted(r)
    BY <1>8
  <2>1. CASE MeterExcessive(r)
    BY <2>1, <1>2, TripEvident DEF MeterExcessive
  <2>2. CASE MeterSettling(r) \/ MeterWithoutTone(r)
    <3>1. Judge(NotStable(quiet), 0, gain) /\ Observe(r, FALSE)
      BY <2>2 DEF MeterSettling, MeterWithoutTone
    <3>2. QED
      BY <3>1, <1>5, JudgeEvident
  <2>3. CASE MeterWithinLimits(r)
    <3>1. Judge(quiet, 0, gain) /\ Observe(r, FALSE) /\ ~calibrating
      BY <2>3 DEF MeterWithinLimits
    <3>2. quiet["stableSince"] = NoTime
      BY <1>3, <3>1 DEF Evident
    <3>3. QED
      BY <3>1, <3>2, <1>3, JudgeEvident
  <2>4. CASE MeterTooLow(r)
    <3> DEFINE ages == [NotStable(quiet) EXCEPT !["adjusted"] = 0]
    <3>1. CASE gain = MaximumGain
      BY <3>1, <2>4, <1>5, TripEvident DEF MeterTooLow
    <3>2. CASE gain # MaximumGain
      <4>1. Judge(ages, 0, gain + 1) /\ Observe(r, TRUE) /\ r.alc = "low"
        BY <3>2, <2>4 DEF MeterTooLow
      <4>2. /\ ages \in [Stamps -> Int] /\ Evident(ages, adverse, past)
            /\ ages["highSince"] = NoTime /\ ages["stableSince"] = NoTime
        BY <1>5, ResetsKeepEvidence, Witnesses
      <4> HIDE DEF ages
      <4>3. QED
        BY <4>1, <4>2, JudgeEvident
    <3>3. QED
      BY <3>1, <3>2
  <2>5. CASE MeterOnTarget(r)
    <3> DEFINE since == IF Known("stableSince") THEN age["stableSince"] ELSE 0
               ages == [quiet EXCEPT !["stableSince"] = since]
    <3>1. r.alc = "target" /\ calibrating /\ Observe(r, FALSE)
      BY <2>5 DEF MeterOnTarget, ToneSettled
    <3>2. age' = ages /\ calibrating' = calibrating
      BY <2>5 DEF MeterOnTarget, Judge
    <3>3. sinceAdverse' = sinceAdverse /\ sinceNotHigh' = 0 /\ sinceAdverse \in Nat
      BY <3>1, BoundsType DEF Observe, TypeOK
    <3>4. sinceAdverse >= since /\ since \in Int
      BY <1>1, <3>3, Witnesses DEF Evident, Known
    <3>5. /\ ages["highSince"] = NoTime /\ ages["stableSince"] = since
          /\ ages["firstAudio"] = quiet["firstAudio"]
          /\ ages["lastAudio"] = quiet["lastAudio"]
      <4> HIDE DEF since, quiet
      <4>1. QED
        BY <1>3, <3>4, Witnesses
    <3>6. quiet["firstAudio"] # NoTime => quiet["lastAudio"] # NoTime
      BY <1>3 DEF Evident
    <3> HIDE DEF ages, since, quiet
    <3>7. QED
      BY <3>1, <3>2, <3>3, <3>4, <3>5, <3>6 DEF Evident, StampsAreEvident
  <2>6. CASE MeterHigh(r)
    <3>1. Evident(HighAges, adverse, past) /\ HighAges \in [Stamps -> Int]
          /\ HighAges["stableSince"] = NoTime
      BY HighIsEvident
    <3>2. /\ Evident(Reduced(HighAges), adverse, past) /\ Reduced(HighAges) \in [Stamps -> Int]
          /\ Reduced(HighAges)["stableSince"] = NoTime
      BY <3>1, ResetsKeepEvidence
    <3>3. /\ Evident(NotHigh(Reduced(HighAges)), adverse, past)
          /\ NotHigh(Reduced(HighAges)) \in [Stamps -> Int]
          /\ NotHigh(Reduced(HighAges))["stableSince"] = NoTime
      BY <3>2, ResetsKeepEvidence
    <3>4. r.alc = "high"
      BY <2>6 DEF MeterHigh
    <3>5. ASSUME NEW ages \in {HighAges, Reduced(HighAges), NotHigh(Reduced(HighAges))},
                 NEW n, NEW g, NEW moved, Judge(ages, n, g), Observe(r, moved)
          PROVE  StampsAreEvident'
      <4>1. ages \in [Stamps -> Int] /\ Evident(ages, adverse, past)
            /\ ages["stableSince"] = NoTime
        BY <3>1, <3>2, <3>3
      <4>2. QED
        BY <3>4, <3>5, <4>1, JudgeEvident
    <3>6. TripGuard("resolution", HighAges) /\ UNCHANGED history => StampsAreEvident'
      BY <3>1, TripEvident
    <3>7. QED
      BY <2>6, <3>5, <3>6 DEF MeterHigh
  <2>7. QED
    BY <2>1, <2>2, <2>3, <2>4, <2>5, <2>6 DEF MeterAccepted
<1>9. QED
  BY <1>6, <1>7, <1>8 DEF Meter, MeterArrives

(* One step per action that touches a stamp, or the history beside them.   *)
LEMMA EvidentStep ==
    ASSUME TypeOK, StampsAreEvident, [Next]_vars
    PROVE  StampsAreEvident'
<1>1. age \in [Stamps -> Int] /\ Evident(age, sinceAdverse, sinceNotHigh)
  BY DEF TypeOK, AgesOK, StampsAreEvident
<1>2. ASSUME UNCHANGED <<age, calibrating, sinceAdverse, sinceNotHigh>>
      PROVE  StampsAreEvident'
  BY <1>2 DEF StampsAreEvident, Evident
<1>3. CASE Begin
  <2>1. ASSUME NEW m, NEW open, BeginState(m.generation, m.kind, open)
        PROVE  StampsAreEvident'
    <3>1. age' = [t \in Stamps |-> IF t \in {"started", "adjusted", "lastMeter"} THEN 0
                                                                          ELSE NoTime]
      BY <2>1 DEF BeginState
    <3>2. age'["firstAudio"] = NoTime /\ age'["stableSince"] = NoTime
          /\ age'["highSince"] = NoTime
      BY <3>1, Witnesses
    <3>3. QED
      BY <3>2 DEF StampsAreEvident, Evident
  <2>2. CASE UNCHANGED <<control, guard, history>>
    BY <1>2, <2>2 DEF guard, history
  <2>3. QED
    BY <1>3, <2>1, <2>2 DEF Begin
<1>4. CASE Meter
  BY <1>4, MeterEvident
<1>5. TickTrips /\ UNCHANGED history => StampsAreEvident'
  BY <1>1, TripEvident DEF TickTrips
<1>6. CASE ServiceTick
  BY <1>5, <1>6 DEF ServiceTick, history
<1>7. ASSUME NEW g \in Generations, SendAudio(g)
      PROVE  StampsAreEvident'
  <2>1. UNCHANGED history
    BY <1>7 DEF SendAudio
  <2>2. CASE TripGuard("link", age)
    BY <1>1, <2>1, <2>2, TripEvident
  <2>3. CASE AudioAccepted
    <3>1. UNCHANGED <<calibrating, sinceAdverse, sinceNotHigh>>
      BY <2>1, <2>3 DEF AudioAccepted, history
    <3>2. age'["lastAudio"] = 0 /\ age'["stableSince"] = age["stableSince"]
          /\ age'["highSince"] = age["highSince"]
      BY <1>1, <2>3, Witnesses DEF AudioAccepted
    <3>3. 0 # NoTime
      BY DEF NoTime
    <3>4. QED
      BY <1>1, <3>1, <3>2, <3>3 DEF Evident, StampsAreEvident
  <2>4. QED
    BY <1>5, <1>7, <2>1, <2>2, <2>3 DEF SendAudio
<1>8. CASE Advance
  <2>1. /\ age' = [t \in Stamps |-> Older(age[t], cap[t])]
        /\ sinceAdverse' = Older(sinceAdverse, Stable)
        /\ sinceNotHigh' = Older(sinceNotHigh, HighTimeout)
        /\ calibrating' = calibrating
    BY <1>8 DEF Advance
  <2>2. cap["stableSince"] = Stable
    BY DEF cap
  <2>3. sinceAdverse \in 0..Stable /\ sinceNotHigh \in 0..HighTimeout
        /\ Stable \in Nat /\ HighTimeout \in Nat
    BY BoundsType DEF TypeOK
  <2>4. \A t \in Stamps : /\ age[t] \in Int /\ cap[t] \in Nat
                          /\ NoTime <= age[t] /\ age[t] <= cap[t]
                          /\ age'[t] = Older(age[t], cap[t])
    BY <2>1, CapType DEF TypeOK, AgesOK
  <2>5. age'["firstAudio"] # NoTime => age'["lastAudio"] # NoTime
    <3>1. age["firstAudio"] = NoTime => age'["firstAudio"] = NoTime
      BY <2>4, Witnesses DEF Older
    <3>2. age["lastAudio"] # NoTime => age'["lastAudio"] # NoTime
      BY <2>4, Witnesses DEF Older, NoTime
    <3>3. QED
      BY <1>1, <3>1, <3>2 DEF Evident
  <2>6. age'["stableSince"] # NoTime => calibrating' /\ sinceAdverse' >= age'["stableSince"]
    <3>1. age'["stableSince"] = Older(age["stableSince"], Stable)
      BY <2>2, <2>4, Witnesses
    <3>2. age["stableSince"] = NoTime => age'["stableSince"] = NoTime
      BY <3>1 DEF Older
    <3>3. CASE age["stableSince"] # NoTime
      <4>1. calibrating /\ sinceAdverse >= age["stableSince"]
        BY <1>1, <3>3 DEF Evident
      <4>2. age["stableSince"] \in Int /\ age["stableSince"] <= Stable
        BY <2>2, <2>4, Witnesses
      <4>3. QED
        BY <2>1, <2>3, <3>1, <3>3, <4>1, <4>2 DEF Older, NoTime
    <3>4. QED
      BY <3>2, <3>3
  <2>7. age'["highSince"] # NoTime
            => sinceNotHigh' >= SmallestOf(age'["highSince"], HighTimeout)
    <3>1. age["highSince"] \in Int /\ age'["highSince"] = Older(age["highSince"], cap["highSince"])
          /\ cap["highSince"] \in Nat /\ NoTime <= age["highSince"]
      BY <2>4, Witnesses
    <3>2. age["highSince"] = NoTime => age'["highSince"] = NoTime
      BY <3>1 DEF Older
    <3>3. CASE age["highSince"] # NoTime
      <4>1. sinceNotHigh >= SmallestOf(age["highSince"], HighTimeout)
        BY <1>1, <3>3 DEF Evident
      <4>2. age'["highSince"] \in {age["highSince"], age["highSince"] + 1}
        BY <3>1 DEF Older
      <4>3. sinceNotHigh' = (IF sinceNotHigh >= HighTimeout THEN sinceNotHigh
                                                            ELSE sinceNotHigh + 1)
        BY <2>1, <2>3 DEF Older, NoTime
      <4>4. QED
        BY <2>3, <3>1, <4>1, <4>2, <4>3 DEF SmallestOf
    <3>4. QED
      BY <3>2, <3>3
  <2>8. QED
    BY <2>5, <2>6, <2>7 DEF Evident, StampsAreEvident
<1>9. CASE RefuseBegin \/ Stop \/ ConnectionLost \/ Acknowledge \/ AudioThread \/ UiThread
           \/ UNCHANGED vars
  <2>1. UNCHANGED <<age, calibrating, sinceAdverse, sinceNotHigh>>
    BY <1>9 DEF RefuseBegin, Stop, ConnectionLost, Stopped, Acknowledge, AudioThread,
       StartEncoding, EncodeFrame, FaultStore, FaultClose, StopEncoding, UiThread, Issue,
       Finish, vars, guard, history
  <2>2. QED
    BY <1>2, <2>1
<1>10. QED
  BY <1>3, <1>4, <1>6, <1>7, <1>8, <1>9 DEF Next, IoThread

(* The stamps are evident throughout.                                      *)
LEMMA EvidentAlways == Spec => []StampsAreEvident
<1>1. Init => StampsAreEvident
  <2> SUFFICES ASSUME Init PROVE StampsAreEvident
    OBVIOUS
  <2>1. age["firstAudio"] = NoTime /\ age["stableSince"] = NoTime
        /\ age["highSince"] = NoTime
    BY Witnesses DEF Init
  <2>2. QED
    BY <2>1 DEF StampsAreEvident, Evident
<1>2. TypeOK /\ StampsAreEvident /\ [Next]_vars => StampsAreEvident'
  BY EvidentStep
<1>3. QED
  BY <1>1, <1>2, TypeCorrect, PTL DEF Spec

(* A calibration succeeds only on a target that was held, with a gain that *)
(* did not move and a tone that streams, for all thresholds.               *)
THEOREM CalibrationNeedsEvidence == Spec => CalibratedOnEvidence
<1> DEFINE Evidence == result # "calibrated" /\ result' = "calibrated" =>
                /\ calibrating
                /\ sinceAdverse >= Stable
                /\ Known("lastAudio") /\ age["lastAudio"] <= AudioGap
<1>1. TypeOK /\ StampsAreEvident /\ [Next]_vars => [Evidence]_vars
  <2> SUFFICES ASSUME TypeOK, StampsAreEvident, Next, result # "calibrated",
                      result' = "calibrated"
               PROVE  /\ calibrating
                      /\ sinceAdverse >= Stable
                      /\ Known("lastAudio") /\ age["lastAudio"] <= AudioGap
    BY DEF vars
  <2>1. "calibrated" \notin TickCauses /\ "calibrated" \notin OtherResults
    BY DEF TickCauses, OtherResults
  <2>2. PICK r \in Reading : MeterOnTarget(r)
    BY <2>1, WhyItEnds
  <2> DEFINE since == IF Known("stableSince") THEN age["stableSince"] ELSE 0
  <2>3. since >= Stable
    BY <2>2 DEF MeterOnTarget, Judge
  <2>4. Known("stableSince") /\ age["stableSince"] >= Stable
    BY <2>3, BoundsType
  <2>5. calibrating /\ sinceAdverse >= age["stableSince"]
    BY <2>4 DEF StampsAreEvident, Evident, Known
  <2>6. sinceAdverse \in Int /\ age["stableSince"] \in Int /\ Stable \in Int
    BY BoundsType, Witnesses DEF TypeOK, AgesOK
  <2>7. age["lastAudio"] <= AudioGap /\ Known("firstAudio")
    BY <2>2 DEF MeterOnTarget, ToneSettled, Settling
  <2>8. Known("lastAudio")
    BY <2>7 DEF StampsAreEvident, Evident, Known
  <2>9. QED
    BY <2>4, <2>5, <2>6, <2>7, <2>8
<1>2. [](TypeOK /\ StampsAreEvident) /\ [][Next]_vars => [][Evidence]_vars
  BY <1>1, PTL
<1>3. QED
  BY <1>2, TypeCorrect, EvidentAlways, PTL DEF Spec, CalibratedOnEvidence

(* No transmission is stopped for high ALC unless every reading of the     *)
(* watch time was high.                                                    *)
THEOREM HighIsSustained == Spec => HighOnlyWhenSustained
<1> DEFINE Sustained == active /\ ~active' /\ result' = "high"
                           => sinceNotHigh >= HighTimeout
<1>1. TypeOK /\ StampsAreEvident /\ [Next]_vars => [Sustained]_vars
  <2> SUFFICES ASSUME TypeOK, StampsAreEvident, Next, active, ~active', result' = "high"
               PROVE  sinceNotHigh >= HighTimeout
    BY DEF vars
  <2>1. "high" \in TickCauses
    BY WhyItEnds DEF OtherResults
  <2>2. Known("highSince") /\ age["highSince"] >= HighTimeout
    BY <2>1 DEF TickCauses
  <2>3. sinceNotHigh >= SmallestOf(age["highSince"], HighTimeout)
    BY <2>2 DEF StampsAreEvident, Evident, Known
  <2>4. age["highSince"] \in Int /\ HighTimeout \in Int /\ sinceNotHigh \in Int
    BY BoundsType, Witnesses DEF TypeOK, AgesOK
  <2>5. QED
    BY <2>2, <2>3, <2>4 DEF SmallestOf
<1>2. [](TypeOK /\ StampsAreEvident) /\ [][Next]_vars => [][Sustained]_vars
  BY <1>1, PTL
<1>3. QED
  BY <1>2, TypeCorrect, EvidentAlways, PTL DEF Spec, HighOnlyWhenSustained
=============================================================================

--------------------------- MODULE DigitalTxGuard ---------------------------
(***************************************************************************)
(* The transmit protection every digital modem (FT8, FT4, SSTV, audio      *)
(* calibration) runs under: class DigitalTxGuard with the atomics it       *)
(* shares with the audio thread (struct DigitalTxControl), the gain stage  *)
(* of the audio thread (DigitalTxAudio), and the calls TcpClient makes on  *)
(* the I/O thread.                                                         *)
(*                                                                         *)
(* Three threads act.  The I/O thread owns the guard: it begins and stops  *)
(* transmissions, feeds it meter readings and accepted audio, and ticks    *)
(* it.  The audio thread scales frames and may close a generation whose    *)
(* samples exceed the headroom, in two atomic stores another thread can    *)
(* run between.  The UI thread issues generations, stores the calibrated   *)
(* gain and revokes a generation.                                          *)
(*                                                                         *)
(* Time is kept as ages: age[t] is now minus the time stamp t of the code, *)
(* NoTime where the code holds -1, saturated at cap[t], the largest value  *)
(* any comparison tells apart.  Gain is counted in steps of 3 dB (the code *)
(* multiplies by 2^(1/2) and its inverse): 0 is MinimumGain.               *)
(***************************************************************************)
EXTENDS Integers, Sequences

CONSTANTS
    MaximumGain,           \* steps from MinimumGain to the 0.5 ceiling
    CalibrationStartGain,  \* step a calibration starts from
    MeterTimeout,          \* the thresholds of the code, in one time unit
    HighTimeout,
    Settle,
    CalibrationSettle,
    Stable,
    AudioGap,
    CalibrationLimit,
    CalibrationAudio,
    ScheduledStart,
    ScheduledGap,
    SampleGap,
    MinimumHighSamples,
    MaxGeneration          \* bound: generations the UI issues

ASSUME GuardAssumption ==
    /\ {MaximumGain, MeterTimeout, HighTimeout, Settle, CalibrationSettle,
        Stable, AudioGap, CalibrationLimit, CalibrationAudio, ScheduledStart,
        ScheduledGap, SampleGap, MinimumHighSamples, MaxGeneration}
           \subseteq Nat \ {0}
    /\ CalibrationStartGain \in 0..MaximumGain

NoTime == -1
Generations == 1..MaxGeneration
GenerationOrNone == 0..MaxGeneration
Gains == 0..MaximumGain
Kinds == {"sstv", "ft", "calibration"}

(* The documented content of a TM reading, by what the guard tells apart.  *)
AlcBars == {"low", "target", "high", "stop"}
Reading == [alc : AlcBars, compressed : BOOLEAN, rf : BOOLEAN]

VARIABLES
    generation,           \* control: the open generation, 0 if none
    scheduledGeneration,  \* control: the revocable FT slot, 0 if none
    gain,                 \* control: drive the guard asks for
    audioFault,           \* control: generation the audio thread faulted
    active, latched, myGeneration, calibrating, highSamples,  \* guard
    age,                  \* guard: age of each of its time stamps
    result,               \* guard: how the last transmission ended
    issued,               \* UI: last generation issued
    busy,                 \* UI: it counts a transmission as its own
    inbox,                \* calls queued for the I/O thread, in order
    encoding,             \* audio: generation being encoded, 0 if none
    stageGain,            \* audio: DigitalTxAudio::m_gain
    faulting,             \* audio: between the two stores of a fault
    encoded,              \* generations with a frame handed to the I/O thread
    revoked,              \* history: generations another thread closed
    sinceAdverse,         \* history: age of the last event against a level
    sinceNotHigh          \* history: age of the last reading that is not high

control == <<generation, scheduledGeneration, gain, audioFault>>
guard == <<active, latched, myGeneration, calibrating, highSamples, age, result>>
audio == <<encoding, stageGain, faulting, encoded>>
history == <<revoked, sinceAdverse, sinceNotHigh>>
ui == <<issued, busy>>
vars == <<control, guard, ui, inbox, audio, history>>

LargestOf(a, b) == IF a > b THEN a ELSE b
SmallestOf(a, b) == IF a < b THEN a ELSE b

(* The largest age of each time stamp the code compares with.              *)
cap == [started      |-> LargestOf(CalibrationLimit,
                             LargestOf(CalibrationAudio, ScheduledStart)),
        stableSince  |-> Stable,
        adjusted     |-> CalibrationSettle,
        firstAudio   |-> CalibrationSettle,
        lastAudio    |-> LargestOf(AudioGap + 1,
                             LargestOf(CalibrationAudio, ScheduledGap)),
        lastMeter    |-> MeterTimeout,
        highSince    |-> LargestOf(HighTimeout, CalibrationSettle),
        reduction    |-> Settle,
        highSample   |-> SampleGap]
Stamps == DOMAIN cap

Older(a, limit) == IF a = NoTime \/ a >= limit THEN a ELSE a + 1
Known(t) == age[t] # NoTime

(***************************************************************************)
(* Opening and closing a generation.                                       *)
(***************************************************************************)
(* DigitalTxControl::allows *)
Allows(g) == g # 0 /\ generation = g

(* Mutation of Closed: a plain store of 0.                                 *)
ClosedByStore(g) == 0

(* DigitalTxControl::close: a compare-and-swap, so a late caller cannot    *)
(* close a newer generation.                                               *)
Closed(g) == IF generation = g THEN 0 ELSE generation

(* Mutation of StopGuard: the shared generation is left open.              *)
StopGuardLeavesOpen ==
    /\ active' = FALSE
    /\ UNCHANGED generation

(* DigitalTxGuard::stop *)
StopGuard ==
    /\ generation' = Closed(myGeneration)
    /\ active' = FALSE

(* DigitalTxGuard::trip, with the ages the caller leaves behind.           *)
TripGuard(cause, ages) ==
    /\ StopGuard
    /\ latched' = TRUE
    /\ result' = cause
    /\ age' = ages
    /\ UNCHANGED <<scheduledGeneration, gain, audioFault, myGeneration,
                   calibrating, highSamples>>

(* Mutation of Stale: readings are only missed until audio streams.        *)
StaleBeforeAudio ==
    age["lastMeter"] >= MeterTimeout /\ ~Known("lastAudio")
Stale == age["lastMeter"] >= MeterTimeout

(* The reasons DigitalTxGuard::tick stops for: it reports the first that   *)
(* holds, the model any.                                                   *)
TickCauses ==
    LET silentFor == IF Known("lastAudio") THEN age["lastAudio"]
                                           ELSE age["started"]
        patience  == IF Known("lastAudio") THEN ScheduledGap
                                           ELSE ScheduledStart
        holds == [headroom    |-> audioFault = myGeneration,
                  cancelled   |-> ~Allows(myGeneration),
                  stale       |-> Stale,
                  high        |-> /\ highSamples >= MinimumHighSamples
                                  /\ Known("highSince")
                                  /\ age["highSince"] >= HighTimeout,
                  calibration |-> /\ calibrating
                                  /\ \/ age["started"] >= CalibrationLimit
                                     \/ silentFor >= CalibrationAudio,
                  stream      |-> /\ scheduledGeneration = myGeneration
                                  /\ silentFor >= patience]
    IN  {c \in DOMAIN holds : holds[c]}

TickTrips == \E c \in TickCauses : TripGuard(c, age)

(***************************************************************************)
(* I/O thread: the calls queued for it, taken in order.                    *)
(***************************************************************************)
BeginMsg(g, kind) == [call |-> "begin", generation |-> g, kind |-> kind]
StopMsg == [call |-> "stop", generation |-> 0, kind |-> "none"]
AcknowledgeMsg == [call |-> "acknowledge", generation |-> 0, kind |-> "none"]

Take(call) ==
    /\ inbox # <<>>
    /\ Head(inbox).call = call
    /\ inbox' = Tail(inbox)

(* The state DigitalTxGuard::begin leaves, opened or closed again.         *)
BeginState(g, kind, open) ==
    /\ myGeneration' = g
    /\ calibrating' = (kind = "calibration")
    /\ highSamples' = 0
    /\ age' = [t \in Stamps |->
                  IF t \in {"started", "adjusted", "lastMeter"} THEN 0
                                                               ELSE NoTime]
    /\ audioFault' = 0
    /\ gain' = IF kind = "calibration" THEN CalibrationStartGain ELSE gain
    /\ generation' = IF open THEN g ELSE 0
    /\ active' = open
    /\ result' = "running"
    /\ sinceAdverse' = 0
    /\ sinceNotHigh' = 0
    /\ UNCHANGED <<scheduledGeneration, latched, revoked>>

(* beginDigitalAudioTransmit with the guard free: the TX command is sent.  *)
(* An FT slot revoked before the call is dropped; one revoked during it is *)
(* begun and stopped at once (the second check of scheduledGeneration).    *)
Begin ==
    /\ Take("begin")
    /\ LET m == Head(inbox)
           slotLost == m.kind = "ft" /\ scheduledGeneration # m.generation
       IN  /\ ~active /\ ~latched
           /\ \/ BeginState(m.generation, m.kind, ~slotLost)
              \/ slotLost /\ UNCHANGED <<control, guard, history>>
    /\ UNCHANGED <<ui, audio>>

(* The guard is in use, or latched by a trip nobody acknowledged.          *)
RefuseBegin ==
    /\ Take("begin")
    /\ active \/ latched
    /\ UNCHANGED <<control, guard, ui, audio, history>>

Stopped ==
    /\ StopGuard
    /\ result' = IF active THEN "stopped" ELSE result
    /\ UNCHANGED <<scheduledGeneration, gain, audioFault, latched,
                   myGeneration, calibrating, highSamples, age>>
    /\ UNCHANGED <<ui, audio, history>>

(* stopDigitalAudioAndUnkey, stopScheduledDigitalAudio *)
Stop == Take("stop") /\ Stopped

(* setState(Disconnected) *)
ConnectionLost == active /\ Stopped /\ UNCHANGED inbox

(* acknowledgeDigitalTxFault *)
Acknowledge ==
    /\ Take("acknowledge")
    /\ latched' = (latched /\ active)
    /\ UNCHANGED <<control, active, myGeneration, calibrating, highSamples,
                   age, result>>
    /\ UNCHANGED <<ui, audio, history>>

(***************************************************************************)
(* I/O thread: a TM reading arrives (DigitalTxGuard::meter).               *)
(***************************************************************************)
ReadAges == [age EXCEPT !["lastMeter"] = 0]
(* Mutation of NotHigh: a good reading forgets the samples, not the start. *)
NotHighKeepsStart(ages) == [ages EXCEPT !["highSample"] = NoTime]
NotHigh(ages) == [ages EXCEPT !["highSince"] = NoTime, !["highSample"] = NoTime]
(* Mutation of NotStable: an adverse reading does not restart stability.   *)
NotStableKept(ages) == ages
NotStable(ages) == [ages EXCEPT !["stableSince"] = NoTime]

(* A moderate level is provisional while a calibration tone settles.       *)
Settling ==
    /\ calibrating
    /\ \/ ~Known("firstAudio")
       \/ age["firstAudio"] < CalibrationSettle
       \/ age["adjusted"] < CalibrationSettle

(* The radio's answer is not a reading, or it comes when protection has    *)
(* already expired: tick is asked before the reading counts.               *)
MeterTooLate ==
    /\ TickTrips
    /\ UNCHANGED history
MeterMalformed ==
    /\ TripGuard("malformed", age)
    /\ UNCHANGED history

Excessive(r) == r.compressed \/ (calibrating /\ r.rf) \/ r.alc = "stop"
MeterExcessive(r) ==
    /\ Excessive(r)
    /\ TripGuard("excessive", ReadAges)
    /\ UNCHANGED history

(* What a reading that did not trip leaves in the history variables.       *)
Observe(r, gainMoved) ==
    /\ sinceAdverse' = IF gainMoved \/ r.alc # "target" THEN 0 ELSE sinceAdverse
    /\ sinceNotHigh' = IF r.alc = "high" THEN sinceNotHigh ELSE 0
    /\ UNCHANGED revoked

Judge(ages, samples, newGain) ==
    /\ age' = ages
    /\ highSamples' = samples
    /\ gain' = newGain
    /\ UNCHANGED <<generation, scheduledGeneration, audioFault, active, latched,
                   myGeneration, calibrating, result>>

MeterSettling(r) ==
    /\ Settling
    /\ Judge(NotStable(NotHigh(ReadAges)), 0, gain)
    /\ Observe(r, FALSE)

(* Within limits, outside a calibration: the high watch starts over.       *)
MeterWithinLimits(r) ==
    /\ ~calibrating
    /\ r.alc \in {"low", "target"}
    /\ Judge(NotHigh(ReadAges), 0, gain)
    /\ Observe(r, FALSE)

(* A settled calibration reading without a continuing tone proves nothing. *)
MeterWithoutTone(r) ==
    /\ calibrating /\ ~Settling
    /\ r.alc \in {"low", "target"}
    /\ age["lastAudio"] > AudioGap
    /\ Judge(NotStable(NotHigh(ReadAges)), 0, gain)
    /\ Observe(r, FALSE)

ToneSettled == calibrating /\ ~Settling /\ age["lastAudio"] <= AudioGap

(* Too quiet: raise the drive by one step, unless it is at the ceiling.    *)
MeterTooLow(r) ==
    /\ ToneSettled
    /\ r.alc = "low"
    /\ IF gain = MaximumGain
       THEN /\ TripGuard("passband", NotStable(NotHigh(ReadAges)))
            /\ UNCHANGED history
       ELSE /\ Judge([NotStable(NotHigh(ReadAges)) EXCEPT !["adjusted"] = 0],
                     0, gain + 1)
            /\ Observe(r, TRUE)

(* On target: calibrated once the target has held for Stable, upon which   *)
(* TcpClient finishes the calibration and stops the guard.                 *)
MeterOnTarget(r) ==
    LET since == IF Known("stableSince") THEN age["stableSince"] ELSE 0
        ages  == [NotHigh(ReadAges) EXCEPT !["stableSince"] = since]
    IN  /\ ToneSettled
        /\ r.alc = "target"
        /\ IF since >= Stable
           THEN /\ StopGuard
                /\ result' = "calibrated"
                /\ age' = ages
                /\ highSamples' = 0
                /\ UNCHANGED <<scheduledGeneration, gain, audioFault, latched,
                               myGeneration, calibrating>>
           ELSE Judge(ages, 0, gain)
        /\ Observe(r, FALSE)

(* Too loud: attenuate, once per settling time, down to MinimumGain; trip  *)
(* there only on repeated, separate readings.  A calibration judges each   *)
(* new gain afresh, a transmission keeps counting.                         *)
HighAges ==
    [NotStable(ReadAges) EXCEPT
        !["highSince"] = IF @ = NoTime THEN 0 ELSE @,
        !["highSample"] = IF @ = NoTime \/ @ >= SampleGap THEN 0 ELSE @]
HighCount ==
    IF Known("highSample") /\ age["highSample"] < SampleGap
    THEN highSamples ELSE SmallestOf(highSamples + 1, MinimumHighSamples)
Reduced(ages) == [ages EXCEPT !["adjusted"] = 0, !["reduction"] = 0]

MeterHigh(r) ==
    /\ ~Settling
    /\ r.alc = "high"
    /\ \/ /\ Known("reduction") /\ age["reduction"] < Settle
          /\ Judge(HighAges, HighCount, gain)
          /\ Observe(r, FALSE)
       \/ /\ ~(Known("reduction") /\ age["reduction"] < Settle)
          /\ gain = 0
          /\ IF HighCount >= MinimumHighSamples
                /\ HighAges["highSince"] >= CalibrationSettle
             THEN TripGuard("resolution", HighAges) /\ UNCHANGED history
             ELSE Judge(HighAges, HighCount, gain) /\ Observe(r, FALSE)
       \/ /\ ~(Known("reduction") /\ age["reduction"] < Settle)
          /\ gain > 0
          /\ IF calibrating
             THEN Judge(NotHigh(Reduced(HighAges)), 0, gain - 1)
             ELSE Judge(Reduced(HighAges), HighCount, gain - 1)
          /\ Observe(r, TRUE)

MeterAccepted(r) ==
    \/ MeterExcessive(r)
    \/ /\ ~Excessive(r)
       /\ \/ MeterSettling(r)
          \/ MeterWithinLimits(r)
          \/ MeterWithoutTone(r)
          \/ MeterTooLow(r)
          \/ MeterOnTarget(r)
          \/ MeterHigh(r)

MeterArrives ==
    \/ MeterMalformed
    \/ MeterTooLate
    \/ TickCauses = {} /\ \E r \in Reading : MeterAccepted(r)

Meter ==
    /\ active
    /\ MeterArrives
    /\ UNCHANGED <<ui, inbox, audio>>

(***************************************************************************)
(* I/O thread: an audio packet, the 50 ms timer, and time passing.         *)
(***************************************************************************)
(* The packet of a generation that still holds the gate is written and     *)
(* accepted, unless tick trips first or the link is stalled or short.      *)
AudioAccepted ==
    /\ TickCauses = {}
    /\ age' = IF Known("firstAudio")
              THEN [age EXCEPT !["lastAudio"] = 0]
              ELSE [age EXCEPT !["lastAudio"] = 0, !["firstAudio"] = 0,
                               !["adjusted"] = 0]
    /\ UNCHANGED <<control, active, latched, myGeneration, calibrating,
                   highSamples, result>>

SendAudio(g) ==
    /\ g \in encoded
    /\ active /\ g = myGeneration
    /\ \/ TickTrips
       \/ TickCauses = {} /\ TripGuard("link", age)
       \/ AudioAccepted
    /\ UNCHANGED <<ui, inbox, audio, history>>

(* serviceDigitalTxProtection *)
ServiceTick ==
    /\ active
    /\ TickTrips
    /\ UNCHANGED <<ui, inbox, audio, history>>

(* A unit of time passes.  The ages are read only while a transmission is  *)
(* active, so only then does it show.                                      *)
Advance ==
    /\ active
    /\ age' = [t \in Stamps |-> Older(age[t], cap[t])]
    /\ sinceAdverse' = Older(sinceAdverse, Stable)
    /\ sinceNotHigh' = Older(sinceNotHigh, HighTimeout)
    /\ UNCHANGED <<control, active, latched, myGeneration, calibrating,
                   highSamples, result, ui, inbox, audio, revoked>>

(***************************************************************************)
(* UI thread.                                                              *)
(***************************************************************************)
(* A transmission or calibration is started: the gain saved for this radio *)
(* setup is stored (a calibration keeps the old one) and begin is queued,  *)
(* behind an acknowledgement when an operator's own action started it.     *)
Issue(kind, operator) ==
    /\ ~busy
    /\ issued < MaxGeneration
    /\ operator \/ kind = "ft"
    /\ issued' = issued + 1
    /\ busy' = TRUE
    /\ gain' \in IF kind = "calibration" THEN {gain} ELSE Gains
    /\ scheduledGeneration' = IF kind = "ft" THEN issued + 1
                                             ELSE scheduledGeneration
    /\ inbox' = inbox \o (IF operator THEN <<AcknowledgeMsg>> ELSE <<>>)
                       \o <<BeginMsg(issued + 1, kind)>>
    /\ UNCHANGED <<generation, audioFault, guard, audio, history>>

(* The transmission ends for the UI: it completed (the generation stays    *)
(* open until the I/O thread stops it) or was stopped (the UI closes it    *)
(* itself, at once).                                                       *)
Revoke(g) ==
    /\ generation' = Closed(g)
    /\ scheduledGeneration' = IF scheduledGeneration = g THEN 0
                                                         ELSE scheduledGeneration
    /\ revoked' = revoked \union {g}
Finish(stopped) ==
    /\ busy
    /\ busy' = FALSE
    /\ inbox' = Append(inbox, StopMsg)
    /\ IF stopped THEN Revoke(issued)
                  ELSE UNCHANGED <<generation, scheduledGeneration, revoked>>
    /\ UNCHANGED <<issued, gain, audioFault, guard, audio, sinceAdverse,
                   sinceNotHigh>>

(***************************************************************************)
(* Audio thread.                                                           *)
(***************************************************************************)
(* beginFt8Encoding, beginSstvTransmit: the gain stage starts at the       *)
(* calibrated drive.                                                       *)
StartEncoding(g) ==
    /\ ~faulting
    /\ Allows(g)
    /\ encoding # g
    /\ encoding' = g
    /\ stageGain' = gain
    /\ UNCHANGED <<control, guard, ui, inbox, faulting, encoded, history>>

(* DigitalTxAudio::process with samples inside the headroom.               *)
(* Mutation of NextStageGain: follow the requested gain up and down.       *)
NextStageGainFollows == gain
NextStageGain == IF calibrating THEN gain ELSE SmallestOf(stageGain, gain)
EncodeFrame ==
    /\ ~faulting
    /\ Allows(encoding)
    /\ stageGain' = NextStageGain
    /\ encoded' = encoded \union {encoding}
    /\ UNCHANGED <<control, guard, ui, inbox, encoding, faulting, history>>

(* A fault: audioFault is stored, then the generation is closed.           *)
FaultStore ==
    /\ ~faulting
    /\ Allows(encoding)
    /\ faulting' = TRUE
    /\ audioFault' = encoding
    /\ revoked' = revoked \union {encoding}
    /\ UNCHANGED <<generation, scheduledGeneration, gain, guard, ui, inbox,
                   encoding, stageGain, encoded, sinceAdverse, sinceNotHigh>>
FaultClose ==
    /\ faulting
    /\ faulting' = FALSE
    /\ generation' = Closed(encoding)
    /\ encoding' = 0
    /\ UNCHANGED <<scheduledGeneration, gain, audioFault, guard, ui, inbox,
                   stageGain, encoded, history>>

StopEncoding ==
    /\ ~faulting
    /\ encoding # 0
    /\ encoding' = 0
    /\ UNCHANGED <<control, guard, ui, inbox, stageGain, faulting, encoded,
                   history>>

-----------------------------------------------------------------------------
Init ==
    /\ generation = 0 /\ scheduledGeneration = 0 /\ audioFault = 0
    /\ gain = MaximumGain
    /\ active = FALSE /\ latched = FALSE /\ myGeneration = 0
    /\ calibrating = FALSE /\ highSamples = 0
    /\ age = [t \in Stamps |-> IF t \in {"started", "adjusted", "lastMeter"}
                               THEN 0 ELSE NoTime]
    /\ result = "none"
    /\ issued = 0 /\ busy = FALSE /\ inbox = <<>>
    /\ encoding = 0 /\ stageGain = MaximumGain /\ faulting = FALSE
    /\ encoded = {}
    /\ revoked = {} /\ sinceAdverse = 0 /\ sinceNotHigh = 0

IoThread ==
    \/ Begin \/ RefuseBegin \/ Stop \/ ConnectionLost \/ Acknowledge
    \/ Meter \/ ServiceTick
    \/ \E g \in Generations : SendAudio(g)
UiThread ==
    \/ \E kind \in Kinds, operator \in BOOLEAN : Issue(kind, operator)
    \/ \E stopped \in BOOLEAN : Finish(stopped)
AudioThread ==
    \/ \E g \in Generations : StartEncoding(g)
    \/ EncodeFrame \/ FaultStore \/ FaultClose \/ StopEncoding

Next == IoThread \/ UiThread \/ AudioThread \/ Advance

Spec == Init /\ [][Next]_vars

(* The 50 ms timer runs as long as a transmission is active, and time      *)
(* passes.                                                                 *)
FairSpec == Spec /\ WF_vars(ServiceTick) /\ WF_vars(Advance)

-----------------------------------------------------------------------------
Results == {"none", "running", "stopped", "calibrated", "headroom",
            "cancelled", "stale", "high", "calibration", "stream",
            "malformed", "excessive", "passband", "resolution", "link"}
Message ==
    [call : {"begin"}, generation : Generations, kind : Kinds]
        \union {StopMsg, AcknowledgeMsg}

AgesOK(ages) ==
    /\ ages \in [Stamps -> Int]
    /\ \A t \in Stamps : NoTime <= ages[t] /\ ages[t] <= cap[t]

TypeOK ==
    /\ generation \in GenerationOrNone
    /\ scheduledGeneration \in GenerationOrNone
    /\ gain \in Gains
    /\ audioFault \in GenerationOrNone
    /\ active \in BOOLEAN /\ latched \in BOOLEAN /\ calibrating \in BOOLEAN
    /\ myGeneration \in GenerationOrNone
    /\ highSamples \in 0..MinimumHighSamples
    /\ AgesOK(age)
    /\ result \in Results
    /\ issued \in GenerationOrNone /\ busy \in BOOLEAN
    /\ inbox \in Seq(Message)
    /\ encoding \in GenerationOrNone
    /\ stageGain \in Gains
    /\ faulting \in BOOLEAN
    /\ encoded \subseteq Generations
    /\ revoked \subseteq GenerationOrNone
    /\ sinceAdverse \in 0..Stable
    /\ sinceNotHigh \in 0..HighTimeout

(* To the other threads all of this is a gate that the guard opens for one *)
(* generation at a time, that anyone can shut, and that a trip keeps shut  *)
(* until it is acknowledged: no interleaving of meter readings, faults and *)
(* stops reopens a generation or arms a latched guard.                     *)
Gate == INSTANCE TxGate
GateSpec == Gate!Spec

(* No generation is ever open without the guard that watches it, and never *)
(* while a fault waits for the operator: whatever the three threads        *)
(* interleave, drive can reach the radio only under an active watchdog.    *)
FailClosed ==
    generation # 0 => active /\ ~latched /\ myGeneration = generation

(* The drive applied to the samples of one transmission never rises,       *)
(* whatever the guard, the operator or a stored calibration do to the      *)
(* requested gain meanwhile (only a calibration searches upwards).         *)
DriveNeverRises ==
    [][encoding # 0 /\ encoding' = encoding /\ Allows(encoding) /\ ~calibrating
          => stageGain' <= stageGain]_vars

(* A transmission is stopped as cancelled or as faulty only when a thread  *)
(* really closed that one: the second half of a fault, or a stop, that     *)
(* arrives after its own transmission ended does no harm to the next.      *)
FaultsStayInTheirGeneration ==
    [][active /\ ~active' /\ result' \in {"headroom", "cancelled"}
          => myGeneration \in revoked]_vars

(* A calibration succeeds only when, for the whole stability time, every   *)
(* reading was on target and the gain did not move, and the tone still     *)
(* streams: the gain that is saved is one that was held and validated.     *)
CalibratedOnEvidence ==
    [][result # "calibrated" /\ result' = "calibrated" =>
          /\ calibrating
          /\ sinceAdverse >= Stable
          /\ Known("lastAudio") /\ age["lastAudio"] <= AudioGap]_vars

(* A transmission is stopped for high ALC only after the readings stayed   *)
(* high for the whole watch time: one good reading starts it over.         *)
HighOnlyWhenSustained ==
    [][active /\ ~active' /\ result' = "high"
          => sinceNotHigh >= HighTimeout]_vars

(* A radio that stops answering cannot hold a transmission open: again and *)
(* again there is a fresh reading or no transmission at all.               *)
SilenceStops == []<>(~active \/ age["lastMeter"] = 0)
=============================================================================

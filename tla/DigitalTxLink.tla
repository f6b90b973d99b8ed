---------------------------- MODULE DigitalTxLink ----------------------------
(***************************************************************************)
(* A digital transmission from the operator's tap to the radio and back,   *)
(* across the three threads that carry it: the UI thread (MainWindow)      *)
(* decides, the audio thread (AudioEngine, and Ft8Transmitter that lives   *)
(* on it) makes the samples, the I/O thread (TcpClient) keys the radio and *)
(* writes the packets.  FT8/FT4 overs are run by Ft8Transmitter, SSTV      *)
(* images by MainWindow itself.                                            *)
(*                                                                         *)
(* The threads share two atomics, the open generation and the scheduled    *)
(* generation, and otherwise only post calls to one another (queued Qt     *)
(* signals and invokeMethod): one queue per receiving thread, in order.    *)
(*                                                                         *)
(* The guard's own decisions are those of DigitalTxGuard; here it may trip *)
(* at any time, and must when its generation was closed.  Deadlines are    *)
(* choices that may be taken at any moment.                                *)
(***************************************************************************)
EXTENDS Naturals, Sequences

CONSTANTS
    MaxStarts,   \* bound: transmissions the operator starts
    MaxLosses,   \* bound: times the connection is lost
    Frames       \* audio frames of one transmission

ASSUME LinkAssumption ==
    /\ MaxStarts \in Nat \ {0}
    /\ MaxLosses \in Nat
    /\ Frames \in Nat \ {0}

(* An SSTV transmission consumes two generations: one to start, one to end *)
MaxGeneration == 2 * MaxStarts
Generations == 1..MaxGeneration
GenerationOrNone == 0..MaxGeneration

VARIABLES
    generation, scheduledGeneration,  \* shared atomics
    sstvActive,                       \* shared: AudioEngine::m_sstvActive
    connected,                        \* shared: TcpClient::m_state = Connected
    toUi, toIo, toAudio,              \* calls queued for each thread
    lastGeneration,   \* UI: m_sstvGeneration, the last one issued
    ft,               \* UI: m_ft8TxGeneration
    sstv,             \* UI: idle, starting, active or draining
    keyGuards,        \* UI: key-up timers running
    drains,           \* UI: drain timers running
    gateOpen, gateGeneration,         \* I/O: m_sstvAudioGate/Generation
    active, latched, myGeneration,    \* I/O: the guard
    kind,             \* I/O: the guard's mode
    draining,         \* I/O: final packets being watched out of the socket
    ioInside,         \* I/O: in the middle of beginDigitalAudioTransmit or
                      \* sendDigitalAudio, the shared atomics already read
    phase, txGeneration,              \* audio: Ft8Transmitter
    keyed, drained,   \* audio: m_keyedMs and m_drainMs are set
    imageFrame, ftFrame,              \* audio: frames emitted so far
    ftEncoding,       \* audio: m_ft8EncodingGeneration
    sstvGeneration, sstvPrepared,     \* audio: SSTV side of AudioEngine
    inside,           \* audio: in the middle of beginSstvTransmit or a tick,
                      \* the shared atomics already read
    onAir,            \* radio: generation it transmits for, 0 in RX
    starts, losses,   \* bounds
    heard,            \* history: audio frames written to the radio
    completed,        \* history: generations reported as complete
    halted,           \* history: generations the UI thread stopped
    stopsTaken        \* history: generations whose stop reached the I/O thread

shared == <<generation, scheduledGeneration, sstvActive, connected>>
queues == <<toUi, toIo, toAudio>>
uiVars == <<lastGeneration, ft, sstv, keyGuards, drains, starts, completed,
            halted>>
guard == <<active, latched, myGeneration, kind>>
ioData == <<gateOpen, gateGeneration, guard, draining, onAir, losses, heard,
            stopsTaken>>
ioVars == <<ioData, ioInside>>
ftVars == <<phase, txGeneration, keyed, drained, ftEncoding, ftFrame>>
sstvVars == <<sstvGeneration, sstvPrepared, imageFrame>>
audioVars == <<ftVars, sstvVars, inside>>
vars == <<shared, queues, uiVars, ioVars, audioVars>>

(* A posted call, with the arguments that matter to its receiver.          *)
Call(name, g) == <<[name |-> name, generation |-> g, frame |-> 0]>>
Packet(g, n) == <<[name |-> "packet", generation |-> g, frame |-> n]>>
AtHead(queue, name) == queue # <<>> /\ Head(queue).name = name

(* DigitalTxControl: allows, and the compare-and-swaps that close it.      *)
Allows(g) == g # 0 /\ generation = g
Closed(g) == IF generation = g THEN 0 ELSE generation
Unscheduled(g) ==
    IF scheduledGeneration = g THEN 0 ELSE scheduledGeneration

(***************************************************************************)
(* UI thread: SSTV.                                                        *)
(***************************************************************************)
UiTakes(name) == AtHead(toUi, name) /\ toUi' = Tail(toUi)
Issued == lastGeneration + 1
SstvBusy == sstv # "idle"

(* startSstvTransmit; the operator's action also acknowledges a fault.     *)
StartSstv ==
    /\ connected /\ sstv = "idle" /\ ft = 0
    /\ starts < MaxStarts
    /\ starts' = starts + 1
    /\ lastGeneration' = Issued
    /\ sstv' = "starting"
    /\ toIo' = toIo \o Call("acknowledge", 0)
    /\ toAudio' = toAudio \o Call("prepare", Issued)
    /\ UNCHANGED <<shared, toUi, ft, keyGuards, drains, completed, halted, ioVars,
                   audioVars>>

(* Mutation of RequestSstvStop: the generation is left open.               *)
RequestStopFlagOnly ==
    /\ sstvActive' = FALSE
    /\ UNCHANGED generation

(* requestSstvStop, which the UI thread runs itself.                       *)
RequestSstvStop ==
    /\ generation' = Closed(sstvGeneration)
    /\ sstvActive' = FALSE

(* stopSstvTransmission: close the producer's gate, forget the generation, *)
(* then have the I/O thread unkey and the audio thread stop.               *)
StopSstv ==
    /\ halted' = halted \union {lastGeneration}
    /\ RequestSstvStop
    /\ lastGeneration' = Issued
    /\ sstv' = "idle"
    /\ toIo' = toIo \o Call("stop", lastGeneration)
    /\ toAudio' = toAudio \o Call("stopSstv", 0)
    /\ UNCHANGED <<scheduledGeneration, connected, ft, drains, starts,
                   completed, ioVars, audioVars>>

OperatorStopsSstv == SstvBusy /\ StopSstv /\ UNCHANGED <<toUi, keyGuards>>

(* sstvPrepared *)
OnPrepared ==
    /\ \/ /\ UiTakes("prepared")
          /\ LET g == Head(toUi).generation
             IN  toIo' = IF g = lastGeneration /\ sstv = "starting"
                         THEN toIo \o Call("beginSstv", g) ELSE toIo
          /\ UNCHANGED sstv
       \/ /\ UiTakes("notPrepared")
          /\ sstv' = IF /\ Head(toUi).generation = lastGeneration
                        /\ sstv = "starting"
                     THEN "idle" ELSE sstv
          /\ UNCHANGED toIo
    /\ UNCHANGED <<shared, toAudio, lastGeneration, ft, keyGuards, drains,
                   starts, completed, halted, ioVars, audioVars>>

(* sstvAudioKeyRequested: hold the audio for the fixed key-up guard.       *)
OnKeyRequested ==
    /\ UiTakes("keyRequested")
    /\ keyGuards' = IF /\ Head(toUi).generation = lastGeneration
                       /\ sstv = "starting"
                    THEN keyGuards \union {Head(toUi).generation}
                    ELSE keyGuards
    /\ UNCHANGED <<shared, toIo, toAudio, lastGeneration, ft, sstv, drains,
                   starts, completed, halted, ioVars, audioVars>>

KeyGuardElapsed(g) ==
    /\ g \in keyGuards
    /\ keyGuards' = keyGuards \ {g}
    /\ UNCHANGED toUi
    /\ \/ /\ g = lastGeneration /\ sstv = "starting" /\ connected
          /\ sstv' = "active"
          /\ toAudio' = toAudio \o Call("beginSstv", g)
          /\ UNCHANGED <<shared, toIo, lastGeneration, ft, drains, starts,
                         completed, halted, ioVars, audioVars>>
       \/ /\ g = lastGeneration /\ sstv = "starting" /\ ~connected
          /\ StopSstv
       \/ /\ ~(g = lastGeneration /\ sstv = "starting")
          /\ UNCHANGED <<shared, toIo, toAudio, lastGeneration, ft, sstv,
                         drains, starts, completed, halted, ioVars, audioVars>>

(* sstvAudioTransmitFailed, sstvFailed *)
OnFailed ==
    /\ UiTakes("failed")
    /\ UNCHANGED keyGuards
    /\ IF Head(toUi).generation = lastGeneration /\ SstvBusy
       THEN StopSstv
       ELSE UNCHANGED <<shared, toIo, toAudio, lastGeneration, ft, sstv,
                        drains, starts, completed, halted, ioVars, audioVars>>

(* sstvAudioAccepted of the final packet: beginSstvTransmitDrain.          *)
OnAccepted ==
    /\ UiTakes("accepted")
    /\ IF Head(toUi).generation = lastGeneration /\ sstv = "active"
       THEN sstv' = "draining" /\ drains' = drains \union {lastGeneration}
       ELSE UNCHANGED <<sstv, drains>>
    /\ UNCHANGED <<shared, toIo, toAudio, lastGeneration, ft, keyGuards,
                   starts, completed, halted, ioVars, audioVars>>

(* The drain timer ends the transmission: finishSstvTransmission.          *)
DrainElapsed(g) ==
    /\ g \in drains
    /\ drains' = drains \ {g}
    /\ IF g = lastGeneration /\ sstv = "draining"
       THEN /\ lastGeneration' = Issued
            /\ sstv' = "idle"
            /\ completed' = completed \union {g}
            /\ toIo' = toIo \o Call("stop", g)
       ELSE UNCHANGED <<lastGeneration, sstv, completed, toIo>>
    /\ UNCHANGED <<shared, toUi, toAudio, ft, keyGuards, starts, halted,
                   ioVars,
                   audioVars>>

(***************************************************************************)
(* UI thread: FT8/FT4, and what stops either.                              *)
(***************************************************************************)
(* startFt8Transmit; only an operator's Call acknowledges a fault, a       *)
(* retry of the automatic sequence does not.                               *)
StartFt(operator) ==
    /\ connected /\ sstv = "idle" /\ ft = 0
    /\ starts < MaxStarts
    /\ starts' = starts + 1
    /\ lastGeneration' = Issued
    /\ ft' = Issued
    /\ scheduledGeneration' = Issued
    /\ toIo' = toIo \o (IF operator THEN Call("acknowledge", 0) ELSE <<>>)
    /\ toAudio' = toAudio \o Call("schedule", Issued)
    /\ UNCHANGED <<generation, sstvActive, connected, toUi, sstv, keyGuards,
                   drains, completed, halted, ioVars, audioVars>>

(* stopFt8Transmit: revoke the slot, close the generation, tell both       *)
(* threads.  The transmission is over for the UI when finished reports it. *)
StopFt ==
    /\ ft # 0
    /\ halted' = halted \union {ft}
    /\ scheduledGeneration' = Unscheduled(ft)
    /\ generation' = Closed(ft)
    /\ toAudio' = toAudio \o Call("cancel", ft)
    /\ toIo' = toIo \o Call("stopFt", ft)
    /\ UNCHANGED <<sstvActive, connected, lastGeneration, ft, sstv, keyGuards,
                   drains, starts, completed, ioVars, audioVars>>

(* Halt, the settings guard, or leaving the app; bounded to one call at a  *)
(* time, repeating it is harmless but fills the queues.                    *)
OperatorStopsFt ==
    /\ scheduledGeneration = ft
    /\ StopFt
    /\ UNCHANGED toUi

(* Ft8Transmitter::finished *)
OnFinished ==
    /\ UiTakes("finished") \/ UiTakes("finishedWell")
    /\ LET g == Head(toUi).generation
       IN  IF g = ft
           THEN /\ ft' = 0
                /\ scheduledGeneration' = Unscheduled(g)
                /\ completed' = IF Head(toUi).name = "finishedWell"
                                THEN completed \union {g} ELSE completed
           ELSE UNCHANGED <<ft, scheduledGeneration, completed>>
    /\ UNCHANGED <<generation, sstvActive, connected, toIo, toAudio,
                   lastGeneration, sstv, keyGuards, drains, starts, halted,
                   ioVars,
                   audioVars>>

UiUnmoved == UNCHANGED <<shared, toIo, toAudio, lastGeneration, ft, sstv,
                         keyGuards, drains, starts, completed, halted, ioVars,
                         audioVars>>

(* TcpClient::disconnected stops whatever is on.                           *)
OnDisconnected ==
    /\ UiTakes("disconnected")
    /\ \/ SstvBusy /\ StopSstv /\ UNCHANGED keyGuards
       \/ StopFt
       \/ ~SstvBusy /\ ft = 0 /\ UiUnmoved

(* The radio reports that it returned to receive.                          *)
OnReceiveReport ==
    /\ UNCHANGED toUi
    /\ \/ sstv \in {"active", "draining"} /\ StopSstv /\ UNCHANGED keyGuards
       \/ ft # 0 /\ Allows(ft) /\ StopFt

UiThread ==
    \/ StartSstv \/ OperatorStopsSstv \/ OnPrepared \/ OnKeyRequested
    \/ OnFailed \/ OnAccepted
    \/ \E g \in Generations : KeyGuardElapsed(g) \/ DrainElapsed(g)
    \/ \E operator \in BOOLEAN : StartFt(operator)
    \/ OperatorStopsFt \/ OnFinished \/ OnDisconnected \/ OnReceiveReport

(***************************************************************************)
(* I/O thread.                                                             *)
(***************************************************************************)
IoTakes(name) == AtHead(toIo, name) /\ toIo' = Tail(toIo)

(* acknowledgeDigitalTxFault *)
TakeAcknowledge ==
    /\ ioInside = "loop"
    /\ IoTakes("acknowledge")
    /\ latched' = (latched /\ active)
    /\ UNCHANGED <<shared, toUi, toAudio, uiVars, gateOpen, gateGeneration,
                   active, myGeneration, kind, draining, ioInside, onAir, losses,
                   heard, stopsTaken, audioVars>>

(* How a failure is reported: to the transmitter, or to MainWindow.        *)
ReportFailure(g, k) ==
    IF k = "sstv"
    THEN toUi' = toUi \o Call("failed", g) /\ UNCHANGED toAudio
    ELSE toAudio' = toAudio \o Call("cancel", g) /\ UNCHANGED toUi

(* Mutation of StillWanted: the slot is not checked again.                 *)
WantedAnyway(g, k) == TRUE

(* The scheduled slot must still stand when the radio is to be keyed.      *)
StillWanted(g, k) == k = "sstv" \/ scheduledGeneration = g

(* Mutation of GuardFree: a fault nobody acknowledged is ignored.          *)
GuardIdle == ~active
GuardFree == ~active /\ ~latched

(* beginSstvAudioTransmit, beginScheduledDigitalAudio and                  *)
(* beginDigitalAudioTransmit: the slot was revoked on the way, or the      *)
(* connection or the guard is not free.                                    *)
BeginCall(k) == IF k = "sstv" THEN "beginSstv" ELSE "beginFt"
RefuseBegin(k) ==
    /\ ioInside = "loop"
    /\ IoTakes(BeginCall(k))
    /\ LET g == Head(toIo).generation
       IN  \/ ~StillWanted(g, k) /\ UNCHANGED <<toUi, toAudio>>
           \/ StillWanted(g, k) /\ (~connected \/ ~GuardFree) /\ ReportFailure(g, k)
    /\ UNCHANGED <<shared, ioVars, uiVars, audioVars>>

(* Otherwise it goes on, and the UI thread may revoke the slot at any of   *)
(* the steps that follow.                                                  *)
AdmitBegin(k) ==
    /\ ioInside = "loop"
    /\ AtHead(toIo, BeginCall(k))
    /\ StillWanted(Head(toIo).generation, k) /\ connected /\ GuardFree
    /\ ioInside' = "begin"
    /\ UNCHANGED <<shared, queues, uiVars, ioData, audioVars>>

(* DigitalTxGuard::begin opens the generation.                             *)
ArmGuard(k) ==
    /\ ioInside = "begin"
    /\ IoTakes(BeginCall(k))
    /\ generation' = Head(toIo).generation
    /\ active' = TRUE /\ myGeneration' = Head(toIo).generation /\ kind' = k
    /\ ioInside' = "armed"
    /\ UNCHANGED <<scheduledGeneration, sstvActive, connected, toUi, toAudio, uiVars,
                   gateOpen, gateGeneration, latched, draining, onAir, losses, heard,
                   stopsTaken, audioVars>>

(* Mutation of CheckSlot: the slot is not read again.                      *)
SkipSlot ==
    /\ ioInside = "armed"
    /\ ioInside' = "key"
    /\ UNCHANGED <<shared, active>>

(* The slot is read again now that a revocation would close the gate.      *)
CheckSlot ==
    /\ ioInside = "armed"
    /\ IF StillWanted(myGeneration, kind)
       THEN ioInside' = "key" /\ UNCHANGED <<shared, active>>
       ELSE /\ ioInside' = "loop"
            /\ active' = FALSE
            /\ generation' = Closed(myGeneration)
            /\ UNCHANGED <<scheduledGeneration, sstvActive, connected>>

ConfirmSlot ==
    /\ CheckSlot
    /\ UNCHANGED <<queues, uiVars, gateOpen, gateGeneration, latched, myGeneration,
                   kind, draining, onAir, losses, heard, stopsTaken, audioVars>>

(* TX is written, the gate is open, and whoever waits for the key is told. *)
KeyRadio ==
    /\ ioInside = "key"
    /\ ioInside' = "loop"
    /\ gateOpen' = TRUE /\ gateGeneration' = myGeneration
    /\ onAir' = myGeneration
    /\ IF kind = "sstv"
       THEN toUi' = toUi \o Call("keyRequested", myGeneration) /\ UNCHANGED toAudio
       ELSE toAudio' = toAudio \o Call("keyed", myGeneration) /\ UNCHANGED toUi
    /\ UNCHANGED <<shared, toIo, uiVars, guard, draining, losses, heard, stopsTaken,
                   audioVars>>

(* stopDigitalAudioAndUnkey: shut the gate, stop the guard, write RX; the  *)
(* handler that calls it has nothing left to do.                           *)
Unkey ==
    /\ ioInside' = "loop"
    /\ gateOpen' = FALSE
    /\ gateGeneration' = gateGeneration + 1
    /\ active' = FALSE
    /\ generation' = Closed(myGeneration)
    /\ onAir' = 0
    /\ UNCHANGED <<sstvActive, connected, myGeneration, kind, draining,
                   losses, heard>>

TakeStop ==
    /\ ioInside = "loop"
    /\ IoTakes("stop")
    /\ Unkey
    /\ stopsTaken' = stopsTaken \union {Head(toIo).generation}
    /\ UNCHANGED <<scheduledGeneration, latched, toUi, toAudio, uiVars,
                   audioVars>>

(* stopScheduledDigitalAudio: only the over it names is stopped.           *)
TakeStopFt ==
    /\ ioInside = "loop"
    /\ IoTakes("stopFt")
    /\ LET g == Head(toIo).generation
       IN  /\ scheduledGeneration' = Unscheduled(g)
           /\ toAudio' = toAudio \o Call("unkeyed", g)
           /\ stopsTaken' = stopsTaken \union {g}
           /\ IF gateOpen /\ gateGeneration = g
              THEN Unkey
              ELSE UNCHANGED <<generation, sstvActive, connected, gateOpen,
                               gateGeneration, active, myGeneration, kind,
                               draining, ioInside, onAir, losses, heard>>
    /\ UNCHANGED <<latched, toUi, uiVars, audioVars>>

(* handleDigitalTxAction(Tripped): unkey first, then tell.                 *)
TripGuard ==
    /\ active
    /\ Unkey
    /\ latched' = TRUE
    /\ ReportFailure(myGeneration, kind)
    /\ UNCHANGED <<scheduledGeneration, stopsTaken>>

(* tick finds the generation closed by another thread ...                  *)
TripCancelled ==
    /\ ioInside = "loop"
    /\ ~Allows(myGeneration)
    /\ TripGuard
    /\ UNCHANGED <<toIo, uiVars, audioVars>>
(* ... or the readings, the audio or the limits stop the transmission.     *)
TripOnReadings ==
    /\ ioInside = "loop"
    /\ Allows(myGeneration)
    /\ TripGuard
    /\ UNCHANGED <<toIo, uiVars, audioVars>>

(* Mutation of ReportAccepted: MainWindow does not hear of it.             *)
ReportAcceptedToTransmitter(g) ==
    /\ UNCHANGED toUi
    /\ toAudio' = toAudio \o Call("accepted", g)

(* Where the acceptance of a final packet is reported: both threads listen *)
(* and only the one whose transmission it is acts on it.                   *)
ReportAccepted(g) ==
    /\ toUi' = toUi \o Call("accepted", g)
    /\ toAudio' = toAudio \o Call("accepted", g)

(* The packet belongs to the transmission the gate is open for.            *)
PacketWanted(g) == gateOpen /\ gateGeneration = g /\ connected

(* Mutation of Final: the test of emittedSamples is dropped.               *)
FinalIfAny(n) == n > 0
Final(n) == n >= Frames

(* sendDigitalAudio: a packet that is not wanted is dropped, and the guard *)
(* is ticked before one that is.                                           *)
RefusePacket ==
    /\ ioInside = "loop"
    /\ IoTakes("packet")
    /\ \/ ~PacketWanted(Head(toIo).generation)
          /\ UNCHANGED <<shared, toUi, toAudio, ioVars>>
       \/ PacketWanted(Head(toIo).generation) /\ TripGuard
    /\ UNCHANGED <<uiVars, audioVars>>

(* Mutation of AdmitPacket: written unconditionally, as sendRaw does.      *)
AdmitRaw == connected /\ ioInside' = "write"

(* What the guard's tick reads of the generation lets the packet on.       *)
AdmitPacket ==
    /\ PacketWanted(Head(toIo).generation) /\ Allows(myGeneration)
    /\ ioInside' = "ticked"

TakePacket ==
    /\ ioInside = "loop"
    /\ AtHead(toIo, "packet")
    /\ AdmitPacket
    /\ UNCHANGED <<shared, queues, uiVars, ioData, audioVars>>

(* The generation is read once more; a packet of a closed one is dropped.  *)
CheckPacket ==
    /\ ioInside = "ticked" /\ AtHead(toIo, "packet")
    /\ IF Allows(Head(toIo).generation)
       THEN ioInside' = "write" /\ UNCHANGED toIo
       ELSE ioInside' = "loop" /\ IoTakes("packet")
    /\ UNCHANGED <<shared, toUi, toAudio, uiVars, ioData, audioVars>>

(* The packet is written, unless the link stalls or rejects it; a final FT *)
(* packet is watched out of the socket before it is reported.              *)
WritePacket ==
    /\ ioInside = "write"
    /\ IoTakes("packet")
    /\ \/ TripGuard
       \/ LET g == Head(toIo).generation
              n == Head(toIo).frame
          IN  /\ heard' = heard \union {[gen |-> g, frame |-> n, over |-> onAir]}
              /\ IF ~Final(n)
                 THEN UNCHANGED <<toUi, toAudio, draining>>
                 ELSE IF scheduledGeneration = g
                 THEN draining' = draining \union {g} /\ UNCHANGED <<toUi, toAudio>>
                 ELSE ReportAccepted(g) /\ UNCHANGED draining
              /\ ioInside' = "loop"
              /\ UNCHANGED <<shared, gateOpen, gateGeneration, guard, onAir,
                             losses, stopsTaken>>
    /\ UNCHANGED <<uiVars, audioVars>>

(* confirmScheduledAudioDrained: the socket queue is empty, or was not in  *)
(* time; a transmission that ended meanwhile is forgotten.                 *)
DrainPoll(g) ==
    /\ ioInside = "loop"
    /\ g \in draining
    /\ draining' = draining \ {g}
    /\ IF gateOpen /\ Allows(g) /\ gateGeneration = g
       THEN ReportAccepted(g)
       ELSE UNCHANGED <<toUi, toAudio>>
    /\ UNCHANGED <<shared, toIo, uiVars, gateOpen, gateGeneration, guard,
                   ioInside, onAir, losses, heard, stopsTaken, audioVars>>

(* setState(Disconnected), and a later connection.                         *)
ConnectionLost ==
    /\ ioInside = "loop"
    /\ connected
    /\ losses < MaxLosses
    /\ losses' = losses + 1
    /\ connected' = FALSE
    /\ gateOpen' = FALSE
    /\ active' = FALSE
    /\ generation' = Closed(myGeneration)
    /\ onAir' = 0
    /\ toUi' = toUi \o Call("disconnected", 0)
    /\ UNCHANGED <<scheduledGeneration, sstvActive, toIo, toAudio, uiVars,
                   gateGeneration, latched, myGeneration, kind, draining, ioInside,
                   heard, stopsTaken, audioVars>>
Reconnected ==
    /\ ioInside = "loop"
    /\ ~connected
    /\ connected' = TRUE
    /\ UNCHANGED <<generation, scheduledGeneration, sstvActive, queues, uiVars,
                   ioVars, audioVars>>

IoThread ==
    \/ TakeAcknowledge \/ TakeStop \/ TakeStopFt
    \/ \E k \in {"sstv", "ft"} : RefuseBegin(k) \/ AdmitBegin(k) \/ ArmGuard(k)
    \/ ConfirmSlot \/ KeyRadio
    \/ RefusePacket \/ TakePacket \/ CheckPacket \/ WritePacket
    \/ TripCancelled \/ TripOnReadings
    \/ \E g \in Generations : DrainPoll(g)
    \/ ConnectionLost \/ Reconnected

(***************************************************************************)
(* Audio thread: AudioEngine's SSTV side.                                  *)
(***************************************************************************)
AudioTakes(name) ==
    /\ inside = "loop"
    /\ AtHead(toAudio, name)
    /\ toAudio' = Tail(toAudio)

(* prepareSstvTransmit: an image that cannot be encoded is refused.        *)
TakePrepare ==
    /\ AudioTakes("prepare")
    /\ LET g == Head(toAudio).generation
       IN  /\ sstvGeneration' = g
           /\ \/ /\ ~sstvActive
                 /\ sstvPrepared' = TRUE
                 /\ imageFrame' = 0
                 /\ toUi' = toUi \o Call("prepared", g)
              \/ /\ toUi' = toUi \o Call("notPrepared", g)
                 /\ sstvPrepared' = (sstvPrepared /\ sstvActive)
                 /\ UNCHANGED imageFrame
    /\ UNCHANGED <<shared, toIo, uiVars, ioVars, ftVars, inside>>

(* beginSstvTransmit reads the gate, and only then marks itself active:    *)
(* the UI thread may stop it in between.                                   *)
TakeBeginSstv ==
    /\ AudioTakes("beginSstv")
    /\ inside' = IF Allows(sstvGeneration) /\ sstvPrepared THEN "begin"
                                                           ELSE "loop"
    /\ UNCHANGED <<shared, toUi, toIo, uiVars, ioVars, ftVars, sstvVars>>
Launch ==
    /\ inside = "begin"
    /\ inside' = "loop"
    /\ \/ /\ sstvActive' = TRUE
          /\ UNCHANGED <<generation, sstvPrepared, toUi>>
       \/ /\ ~sstvActive  \* the codec could not be reset
          /\ generation' = Closed(sstvGeneration)
          /\ sstvPrepared' = FALSE
          /\ toUi' = toUi \o Call("failed", sstvGeneration)
          /\ UNCHANGED sstvActive
    /\ UNCHANGED <<scheduledGeneration, connected, toIo, toAudio, uiVars,
                   ioVars, ftVars, sstvGeneration, imageFrame>>

(* stopSstvTransmit *)
SstvStopped == sstvActive' = FALSE /\ sstvPrepared' = FALSE
TakeStopSstv ==
    /\ AudioTakes("stopSstv")
    /\ SstvStopped
    /\ UNCHANGED <<generation, scheduledGeneration, connected, toUi, toIo,
                   uiVars, ioVars, ftVars, sstvGeneration, inside, imageFrame>>

(* The generation a packet is labelled with.                               *)
Label == IF ftEncoding # 0 THEN ftEncoding ELSE sstvGeneration

(* onSstvPacer: a closed gate or samples beyond the headroom stop the      *)
(* pacer; otherwise the samples pass, and the gate is not read again.      *)
Pacer ==
    /\ inside = "loop" /\ sstvActive
    /\ \/ /\ ~Allows(sstvGeneration)
          /\ SstvStopped
          /\ UNCHANGED <<generation, inside>>
       \/ /\ Allows(sstvGeneration)
          /\ SstvStopped
          /\ generation' = Closed(sstvGeneration)
          /\ UNCHANGED inside
       \/ /\ Allows(sstvGeneration)
          /\ inside' = "image"
          /\ UNCHANGED <<generation, sstvActive, sstvPrepared>>
    /\ UNCHANGED <<scheduledGeneration, connected, queues, uiVars, ioVars,
                   ftVars, sstvGeneration, imageFrame>>

(* encodeAndSendFrame: the packet is posted, the last one stops the pacer; *)
(* an encoding that fails closes the generation and tells the UI thread.   *)
PostImage ==
    /\ inside = "image"
    /\ inside' = "loop"
    /\ \/ /\ imageFrame' = imageFrame + 1
          /\ toIo' = toIo \o Packet(Label, imageFrame')
          /\ IF imageFrame' = Frames
             THEN SstvStopped
             ELSE UNCHANGED <<sstvActive, sstvPrepared>>
          /\ UNCHANGED <<generation, toUi>>
       \/ /\ generation' = Closed(Label)
          /\ toUi' = toUi \o Call("failed", Label)
          /\ SstvStopped
          /\ UNCHANGED <<toIo, imageFrame>>
    /\ UNCHANGED <<scheduledGeneration, connected, toAudio, uiVars, ioVars,
                   ftVars, sstvGeneration>>

(***************************************************************************)
(* Audio thread: Ft8Transmitter and AudioEngine's FT side, which it calls  *)
(* directly.                                                               *)
(***************************************************************************)
(* Mutation of EncodingFinished: the encoder is never given back.          *)
EncodingKept == ftEncoding

(* finishFt8Encoding, which every finished runs on this thread.            *)
EncodingFinished == IF ftEncoding = txGeneration THEN 0 ELSE ftEncoding

(* The waveform is cleared with its transmission; what schedule sets anew  *)
(* and an idle transmitter never reads is cleared with it.                 *)
WaveCleared == keyed' = FALSE /\ drained' = FALSE /\ ftFrame' = 0

(* fail: close and unschedule, then ask for RX and report.                 *)
Fail ==
    /\ generation' = Closed(txGeneration)
    /\ scheduledGeneration' = Unscheduled(txGeneration)
    /\ phase' = "idle"
    /\ ftEncoding' = EncodingFinished
    /\ toIo' = toIo \o Call("stopFt", txGeneration)
    /\ toUi' = toUi \o Call("finished", txGeneration)
    /\ inside' = "loop"
    /\ WaveCleared
    /\ UNCHANGED <<sstvActive, connected, uiVars, ioVars, txGeneration, sstvVars>>

RefuseSchedule(g) == toUi' = toUi \o Call("finished", g)

(* schedule: refused when the slot was revoked on the way.                 *)
TakeSchedule ==
    /\ AudioTakes("schedule")
    /\ LET g == Head(toAudio).generation
       IN  IF scheduledGeneration # g \/ phase # "idle"
           THEN /\ RefuseSchedule(g)
                /\ UNCHANGED <<phase, txGeneration, keyed, drained, ftFrame>>
           ELSE /\ phase' = "waiting"
                /\ txGeneration' = g
                /\ WaveCleared
                /\ UNCHANGED toUi
    /\ UNCHANGED <<shared, toIo, uiVars, ioVars, ftEncoding, sstvVars, inside>>

TakeCancel ==
    /\ AudioTakes("cancel")
    /\ IF phase # "idle" /\ Head(toAudio).generation = txGeneration
       THEN Fail
       ELSE UNCHANGED <<shared, toUi, toIo, uiVars, ioVars, audioVars>>

Mine(inPhase) == phase = inPhase /\ Head(toAudio).generation = txGeneration

TakeKeyed ==
    /\ AudioTakes("keyed")
    /\ keyed' = (keyed \/ Mine("keying"))
    /\ UNCHANGED <<shared, toUi, toIo, uiVars, ioVars, phase, txGeneration,
                   drained, ftFrame, ftEncoding, sstvVars, inside>>

TakeAccepted ==
    /\ AudioTakes("accepted")
    /\ drained' = (drained \/ Mine("drain"))
    /\ UNCHANGED <<shared, toUi, toIo, uiVars, ioVars, phase, txGeneration,
                   keyed, ftFrame, ftEncoding, sstvVars, inside>>

(* unkeyed: the I/O thread wrote RX, the over is complete.                 *)
TakeUnkeyed ==
    /\ AudioTakes("unkeyed")
    /\ IF Mine("unkeying")
       THEN /\ phase' = "idle"
            /\ ftEncoding' = EncodingFinished
            /\ WaveCleared
            /\ toUi' = toUi \o Call("finishedWell", txGeneration)
       ELSE UNCHANGED <<phase, ftEncoding, toUi, keyed, drained, ftFrame>>
    /\ UNCHANGED <<shared, toIo, uiVars, ioVars, txGeneration, sstvVars, inside>>

(* tick: a deadline passes, the clock jumps, the slot was revoked or the   *)
(* generation closed.                                                      *)
TickFails ==
    /\ inside \in {"loop", "tick"}
    /\ phase # "idle"
    /\ Fail
    /\ UNCHANGED toAudio

(* tick finds that the slot still stands, and with audio under way that    *)
(* its generation is open; what it does for the phase it is in may come    *)
(* after the UI thread has revoked both.                                   *)
Tick ==
    /\ inside = "loop"
    /\ phase \in {"waiting", "keying", "audio", "drain"}
    /\ scheduledGeneration = txGeneration
    /\ phase \in {"audio", "drain"} => Allows(txGeneration)
    /\ inside' = "tick"
    /\ UNCHANGED <<shared, queues, uiVars, ioVars, ftVars, sstvVars>>
Ticks(inPhase) ==
    /\ inside = "tick"
    /\ phase = inPhase
    /\ inside' = "loop"

RequestKey ==
    /\ Ticks("waiting")
    /\ phase' = "keying"
    /\ toIo' = toIo \o Call("beginFt", txGeneration)
    /\ UNCHANGED <<shared, toUi, toAudio, uiVars, ioVars, txGeneration, keyed,
                   drained, ftFrame, ftEncoding, sstvVars>>

(* The time of the phase has not come, or what it waits for.               *)
TickWaits ==
    /\ Ticks(phase)
    /\ UNCHANGED <<shared, queues, uiVars, ioVars, ftVars, sstvVars>>

(* encodingStarted, beginFt8Encoding: the encoder is taken, or faulted     *)
(* when SSTV still holds it or the codec could not be reset.               *)
StartAudio ==
    /\ Ticks("keying")
    /\ keyed
    /\ Allows(txGeneration)
    /\ phase' = "audio"
    /\ \/ /\ ~sstvPrepared
          /\ ftEncoding' = txGeneration
          /\ UNCHANGED generation
       \/ /\ generation' = Closed(txGeneration)
          /\ UNCHANGED ftEncoding
    /\ UNCHANGED <<scheduledGeneration, sstvActive, connected, queues, uiVars,
                   ioVars, txGeneration, keyed, drained, ftFrame, sstvVars>>

PhaseAfterFrame == IF ftFrame + 1 = Frames THEN "drain" ELSE "audio"

(* frameReady, encodeFt8Frame: the frame is posted, or faulted.            *)
EmitFrame ==
    /\ Ticks("audio")
    /\ ftFrame' = ftFrame + 1
    /\ phase' = PhaseAfterFrame
    /\ ftEncoding = txGeneration
    /\ \/ toIo' = toIo \o Packet(ftEncoding, ftFrame') /\ UNCHANGED generation
       \/ generation' = Closed(txGeneration) /\ UNCHANGED toIo
    /\ UNCHANGED <<scheduledGeneration, sstvActive, connected, toUi, toAudio,
                   uiVars, ioVars, txGeneration, keyed, drained, ftEncoding,
                   sstvVars>>

RequestUnkey ==
    /\ Ticks("drain")
    /\ drained
    /\ phase' = "unkeying"
    /\ toIo' = toIo \o Call("stopFt", txGeneration)
    /\ UNCHANGED <<shared, toUi, toAudio, uiVars, ioVars, txGeneration, keyed,
                   drained, ftFrame, ftEncoding, sstvVars>>

AudioThread ==
    \/ TakePrepare \/ TakeBeginSstv \/ Launch \/ TakeStopSstv \/ Pacer
    \/ PostImage
    \/ TakeSchedule \/ TakeCancel \/ TakeKeyed \/ TakeAccepted \/ TakeUnkeyed
    \/ TickFails \/ Tick \/ TickWaits \/ RequestKey \/ StartAudio \/ EmitFrame \/ RequestUnkey

-----------------------------------------------------------------------------
Init ==
    /\ generation = 0 /\ scheduledGeneration = 0 /\ sstvActive = FALSE
    /\ connected = TRUE
    /\ toUi = <<>> /\ toIo = <<>> /\ toAudio = <<>>
    /\ lastGeneration = 0 /\ ft = 0 /\ sstv = "idle"
    /\ keyGuards = {} /\ drains = {}
    /\ gateOpen = FALSE /\ gateGeneration = 0
    /\ active = FALSE /\ latched = FALSE /\ myGeneration = 0 /\ kind = "none"
    /\ draining = {} /\ ioInside = "loop" /\ onAir = 0
    /\ phase = "idle" /\ txGeneration = 0 /\ keyed = FALSE /\ drained = FALSE
    /\ ftEncoding = 0 /\ ftFrame = 0
    /\ sstvGeneration = 0 /\ sstvPrepared = FALSE /\ inside = "loop"
    /\ imageFrame = 0
    /\ starts = 0 /\ losses = 0
    /\ heard = {} /\ completed = {} /\ halted = {} /\ stopsTaken = {}

Next == UiThread \/ IoThread \/ AudioThread

Spec == Init /\ [][Next]_vars

(* Every thread runs its event loop: as long as it has a posted call to     *)
(* take, a timer that expires or a deadline that passes, it does one of     *)
(* them.  Nothing obliges the operator, the radio or the network to act,    *)
(* nor the guard to trip on readings.                                       *)
UiRuns ==
    \/ /\ toUi # <<>>
       /\ \/ OnPrepared \/ OnKeyRequested \/ OnFailed \/ OnAccepted \/ OnFinished
          \/ OnDisconnected
    \/ \E g \in keyGuards : KeyGuardElapsed(g)
    \/ \E g \in drains : DrainElapsed(g)
IoRuns ==
    \/ /\ ioInside = "loop" /\ toIo # <<>>
       /\ \/ TakeAcknowledge \/ TakeStop \/ TakeStopFt \/ RefusePacket \/ TakePacket
          \/ \E k \in {"sstv", "ft"} : RefuseBegin(k) \/ AdmitBegin(k)
    \/ ioInside = "begin" /\ \E k \in {"sstv", "ft"} : ArmGuard(k)
    \/ ConfirmSlot \/ KeyRadio \/ CheckPacket \/ WritePacket
    \/ \E g \in draining : DrainPoll(g)
    \/ active /\ TripCancelled
AudioRuns ==
    \/ /\ inside = "loop" /\ toAudio # <<>>
       /\ \/ TakePrepare \/ TakeBeginSstv \/ TakeStopSstv \/ TakeSchedule
          \/ TakeCancel \/ TakeKeyed \/ TakeAccepted \/ TakeUnkeyed
    \/ Launch \/ Pacer \/ PostImage \/ TickFails

FairSpec == Spec /\ WF_vars(UiRuns \/ IoRuns \/ AudioRuns)

-----------------------------------------------------------------------------
Posted(names) == [name : names, generation : GenerationOrNone, frame : 0..Frames]
TypeOK ==
    /\ {generation, scheduledGeneration, lastGeneration, ft, myGeneration,
        onAir, txGeneration, ftEncoding, sstvGeneration}
           \subseteq GenerationOrNone
    /\ gateGeneration \in Nat
    /\ {sstvActive, connected, gateOpen, active, latched, keyed, drained,
        sstvPrepared} \subseteq BOOLEAN
    /\ inside \in {"loop", "begin", "image", "tick"}
    /\ ioInside \in {"loop", "begin", "armed", "key", "ticked", "write"}
    /\ toUi \in Seq(Posted({"prepared", "notPrepared", "keyRequested",
                 "failed", "accepted", "finished", "finishedWell",
                 "disconnected"}))
    /\ toIo \in Seq(Posted({"acknowledge", "stop", "stopFt", "beginSstv",
                 "beginFt", "packet"}))
    /\ toAudio \in Seq(Posted({"prepare", "beginSstv", "stopSstv", "schedule",
                 "cancel", "keyed", "accepted", "unkeyed"}))
    /\ sstv \in {"idle", "starting", "active", "draining"}
    /\ phase \in {"idle", "waiting", "keying", "audio", "drain", "unkeying"}
    /\ kind \in {"none", "sstv", "ft"}
    /\ {imageFrame, ftFrame} \subseteq 0..Frames
    /\ keyGuards \union drains \union draining \union completed
           \union halted \union stopsTaken \subseteq GenerationOrNone
    /\ heard \subseteq [gen : Generations, frame : 1..Frames,
                       over : GenerationOrNone]
    /\ starts \in 0..MaxStarts /\ losses \in 0..MaxLosses

(* Audio reaches the radio only while it transmits for that very           *)
(* generation: a packet queued before a stop, or labelled by an encoder    *)
(* that changed hands, is never heard in another over or with the radio    *)
(* in receive.                                                             *)
AudioInItsOwnOver == \A h \in heard : h.over = h.gen

(* A transmission is reported complete only when each of its frames was    *)
(* written while the radio transmitted for it.                             *)
CompletedWasHeard ==
    \A g \in completed : \A n \in 1..Frames :
        [gen |-> g, frame |-> n, over |-> g] \in heard

(* Once the UI thread has stopped a generation, every packet of it is      *)
(* refused, though packets, timers and calls for it are still on their     *)
(* way: only the one that had passed the last check may still be written.  *)
HaltRefuses ==
    [][ioInside # "write" /\ ioInside' = "write"
       => Head(toIo).generation \notin halted]_vars

(* Whenever the I/O thread is back in its event loop, the gate is not open *)
(* for an over that the UI thread stopped, also when its slot was revoked  *)
(* while the guard was about to open it.                                   *)
HaltedStaysShut == ioInside = "loop" /\ kind = "ft" => generation \notin halted

(* A stop the I/O thread has carried out is final: the radio is never      *)
(* keyed for that generation afterwards, however late a begin arrives.     *)
StopWins == [][onAir' # onAir => onAir' \notin stopsTaken]_vars

(* When the UI thread is free, nothing is in flight and the I/O thread is  *)
(* back in its event loop, nothing is left behind: no slot, no open gate,  *)
(* no guard, no encoder, no keyed radio.                                   *)
NothingLeftBehind ==
    /\ sstv = "idle" /\ ft = 0 /\ toUi = <<>> /\ toIo = <<>> /\ toAudio = <<>>
    /\ ioInside = "loop"
    => /\ generation = 0 /\ scheduledGeneration = 0
       /\ ~gateOpen /\ ~active /\ onAir = 0
       /\ phase = "idle" /\ ftEncoding = 0
       /\ inside = "loop" /\ ~sstvActive /\ ~sstvPrepared

(* The link comes to rest: whichever thread, timer or call loses a race,   *)
(* RX is written in the end and the UI thread is free to start again.      *)
ComesToRest == []<>(onAir = 0 /\ sstv = "idle" /\ ft = 0)

(* The gate between the threads is the one the guard implements.           *)
Gate == INSTANCE TxGate
GateSpec == Gate!Spec
=============================================================================

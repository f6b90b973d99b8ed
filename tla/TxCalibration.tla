---------------------------- MODULE TxCalibration ----------------------------
(***************************************************************************)
(* The calibration of the transmit audio level.  TcpClient asks the K4     *)
(* whether it is in TEST mode (transmitting without RF), puts it there,    *)
(* waits for the confirmation, keys it, lets the audio thread send a tone  *)
(* while the guard searches for the drive, and afterwards returns the K4   *)
(* to receive and then to the TEST setting it found.                       *)
(*                                                                         *)
(* Commands and answers travel in order, but may be arbitrarily late: the  *)
(* answer to a phase that timed out can arrive in a later one.  A TS       *)
(* answer carries nothing that says which query it answers.                *)
(***************************************************************************)
EXTENDS Naturals, Sequences

CONSTANTS
    MaxStarts,    \* bound: calibrations the operator starts
    MaxLosses,    \* bound: times the connection is lost
    MaxToggles    \* bound: times TEST is pressed on the K4 itself

ASSUME CalibrationAssumption ==
    /\ MaxStarts \in Nat \ {0}
    /\ MaxLosses \in Nat
    /\ MaxToggles \in Nat

Generations == 1..MaxStarts
GenerationOrNone == 0..MaxStarts

VARIABLES
    generation, toneActive, connected,    \* shared between the threads
    toUi, toIo, toAudio,                  \* calls queued for each thread
    lastGeneration, calibrating, started, \* UI: m_digitalCalibration...
    keyGuards,                            \* UI: key-up timers running
    phase,                                \* I/O: m_calibrationPhase
    calibrationGeneration, restoreTest, success,
    active, latched,                      \* I/O: the guard
    gateOpen,                             \* I/O: m_sstvAudioGate
    toneGeneration, prepared,             \* audio: m_sstvGeneration, m_sstvPrepared
    up, down,                             \* commands to the K4, its answers
    test, keyed,                          \* K4: TEST mode, transmitting
    losses, toggles,                      \* bounds
    original,                             \* history: TEST when reading it began
    excused,                              \* history: TEST read from a late answer,
                                          \* or a failure asks to verify it
    refused,                              \* history: K4 refused TEST while excused
    saved                                 \* history: calibrations UI has saved

shared == <<generation, toneActive, connected>>
queues == <<toUi, toIo, toAudio>>
ui == <<lastGeneration, calibrating, started, keyGuards, saved>>
io == <<phase, calibrationGeneration, restoreTest, success, active, latched,
        gateOpen, original, excused>>
audio == <<toneGeneration, prepared>>
radio == <<up, down, test, keyed, toggles, refused>>
vars == <<shared, queues, ui, io, audio, radio, losses>>

Call(name, g) == <<[name |-> name, generation |-> g]>>
AtHead(queue, name) == queue # <<>> /\ Head(queue).name = name

Allows(g) == g # 0 /\ generation = g
Closed(g) == IF generation = g THEN 0 ELSE generation

(* The TEST setting once the K4 has carried out what was sent to it: as it *)
(* is or as a TS1 makes it, if no TS0 follows.                             *)
TestToCome ==
    \E i \in 0..Len(up) :
        /\ IF i = 0 THEN test ELSE up[i] = "TS1"
        /\ \A j \in i + 1..Len(up) : up[j] # "TS0"

(* An answer to an earlier query of TEST is still on its way.              *)
AnswersToCome == down # <<>> \/ \E i \in 1..Len(up) : up[i] = "TS"

(***************************************************************************)
(* UI thread.                                                              *)
(***************************************************************************)
UiTakes(name) == AtHead(toUi, name) /\ toUi' = Tail(toUi)
Mine(g) == calibrating /\ g = lastGeneration

(* requestSstvStop, and stopSstvTransmit posted behind it.                 *)
StopTone ==
    /\ generation' = Closed(toneGeneration)
    /\ toneActive' = FALSE
    /\ toAudio' = toAudio \o Call("stop", 0)
    /\ UNCHANGED connected

(* startDigitalCalibration *)
Start ==
    /\ connected /\ ~calibrating
    /\ lastGeneration < MaxStarts
    /\ lastGeneration' = lastGeneration + 1
    /\ calibrating' = TRUE
    /\ started' = FALSE
    /\ toIo' = toIo \o Call("acknowledge", 0)
    /\ toAudio' = toAudio \o Call("prepare", lastGeneration + 1)
    /\ UNCHANGED <<shared, toUi, keyGuards, saved, io, audio, radio, losses>>

(* Mutation of CancelNow: the UI is free without waiting for the end.       *)
CancelNowAtOnce ==
    /\ calibrating
    /\ StopTone
    /\ toIo' = toIo \o Call("cancel", 0)
    /\ calibrating' = FALSE
    /\ UNCHANGED <<lastGeneration, started, keyGuards, saved, io, audio, radio,
                   losses>>
(* cancelDigitalCalibration: STOP, Back, or leaving the app.  Before the   *)
(* I/O thread was asked to begin it is over at once.                       *)
CancelNow ==
    /\ calibrating
    /\ StopTone
    /\ toIo' = toIo \o Call("cancel", 0)
    /\ calibrating' = started
    /\ UNCHANGED <<lastGeneration, started, keyGuards, saved, io, audio, radio,
                   losses>>
(* Repeating it is harmless; one at a time is enough (bound).              *)
Cancel ==
    /\ \A i \in 1..Len(toAudio) : toAudio[i].name # "stop"
    /\ \A i \in 1..Len(toIo) : toIo[i].name # "cancel"
    /\ CancelNow
    /\ UNCHANGED toUi

UiIgnores == UNCHANGED <<shared, toIo, toAudio, ui, io, audio, radio, losses>>

(* digitalCalibrationPreparationFailed *)
OnUnprepared ==
    /\ UiTakes("unprepared")
    /\ IF Mine(Head(toUi).generation) THEN CancelNow ELSE UiIgnores

(* digitalCalibrationPrepared *)
OnPrepared ==
    /\ UiTakes("prepared")
    /\ LET g == Head(toUi).generation
       IN  IF Mine(g)
           THEN /\ started' = TRUE
                /\ toIo' = toIo \o Call("begin", g)
                /\ UNCHANGED <<shared, toAudio, lastGeneration, calibrating,
                               keyGuards, saved, io, audio, radio, losses>>
           ELSE UiIgnores

(* digitalAudioKeyRequested: the tone waits for the key-up guard.          *)
OnKeyRequested ==
    /\ UiTakes("keyRequested")
    /\ LET g == Head(toUi).generation
       IN  keyGuards' = IF Mine(g) THEN keyGuards \union {g} ELSE keyGuards
    /\ UNCHANGED <<shared, toIo, toAudio, lastGeneration, calibrating, started,
                   saved, io, audio, radio, losses>>

KeyGuardElapsed(g) ==
    /\ g \in keyGuards
    /\ keyGuards' = keyGuards \ {g}
    /\ toAudio' = IF Mine(g) THEN toAudio \o Call("beginTone", g) ELSE toAudio
    /\ UNCHANGED <<shared, toUi, toIo, lastGeneration, calibrating, started,
                   saved, io, audio, radio, losses>>

(* digitalCalibrationFinished: a success is saved, unless the radio's      *)
(* settings changed meanwhile or the store fails.                          *)
OnFinished ==
    /\ UiTakes("succeeded") \/ UiTakes("failed")
    /\ LET g == Head(toUi).generation
       IN  IF Mine(g)
           THEN /\ StopTone
                /\ calibrating' = FALSE
                /\ saved' \in {saved} \union
                      (IF Head(toUi).name = "succeeded" THEN {saved \union {g}}
                                                        ELSE {})
                /\ UNCHANGED <<toIo, lastGeneration, started, keyGuards, io,
                               audio, radio, losses>>
           ELSE UiIgnores

UiThread ==
    \/ Start \/ Cancel \/ OnUnprepared \/ OnPrepared \/ OnKeyRequested \/ OnFinished
    \/ \E g \in Generations : KeyGuardElapsed(g)

(***************************************************************************)
(* I/O thread: what ends a calibration.                                    *)
(***************************************************************************)
IoTakes(name) == AtHead(toIo, name) /\ toIo' = Tail(toIo)

(* completeDigitalCalibration, with the outcome it reports: a success is    *)
(* saved, whatever its text asks the operator to verify.                   *)
Complete(well, verify) ==
    /\ phase' = "none"
    /\ success' = well
    /\ excused' = (excused \/ (verify /\ ~well))
    /\ toUi' = toUi \o Call(IF well THEN "succeeded" ELSE "failed",
                            calibrationGeneration)

(* Mutation of ClosingCommands: TEST is restored first.                    *)
ClosingCommandsSwapped(restore) ==
    (IF restore THEN <<"TS0", "TS">> ELSE <<>>) \o <<"RX">>
(* RX precedes restoration.                                                *)
ClosingCommands(restore) ==
    <<"RX">> \o IF restore THEN <<"TS0", "TS">> ELSE <<>>

(* finishDigitalCalibration *)
Finish(well) ==
    /\ gateOpen' = FALSE
    /\ active' = FALSE
    /\ generation' = Closed(calibrationGeneration)
    /\ up' = up \o ClosingCommands(restoreTest)
    /\ IF restoreTest
       THEN /\ phase' = "restore"
            /\ success' = well
                    /\ UNCHANGED <<toUi, excused>>
       ELSE Complete(well, FALSE)
    /\ UNCHANGED <<toneActive, connected, calibrationGeneration, restoreTest,
                   original, test, keyed, toggles, refused>>

Untouched == UNCHANGED <<toAudio, ui, audio, losses>>

(* cancelDigitalCalibration *)
TakeCancel ==
    /\ IoTakes("cancel")
    /\ IF phase \in {"read", "enable", "running"}
       THEN Finish(FALSE) /\ UNCHANGED <<latched, down>>
       ELSE UNCHANGED <<shared, toUi, io, radio>>
    /\ Untouched

(* Mutation of RestoreExpires: the success of the calibration stands.      *)
RestoreExpiresWell ==
    /\ phase = "restore"
    /\ Complete(success, TRUE)
    /\ UNCHANGED <<generation, toneActive, connected, calibrationGeneration,
                   restoreTest, original, active, latched, gateOpen, radio>>

(* Mutation of RestoreExpires: nobody is told.                              *)
RestoreExpiresQuietly ==
    /\ phase = "restore"
    /\ phase' = "none"
    /\ excused' = TRUE
    /\ UNCHANGED <<shared, toUi, calibrationGeneration, restoreTest, success,
                   active, latched, gateOpen, original, radio>>
(* serviceDigitalTxProtection: a phase that waits for an answer expires.   *)
RestoreExpires ==
    /\ phase = "restore"
    /\ Complete(FALSE, TRUE)
    /\ UNCHANGED <<generation, toneActive, connected, calibrationGeneration,
                   restoreTest, original, active, latched, gateOpen, radio>>
Deadline ==
    /\ \/ RestoreExpires
       \/ phase \in {"read", "enable"} /\ Finish(FALSE) /\ UNCHANGED <<latched, down>>
    /\ UNCHANGED toIo
    /\ Untouched

(* The guard finds the drive, or stops the tone.                           *)
GuardCalibrates ==
    /\ active
    /\ Finish(TRUE)
    /\ UNCHANGED <<latched, down, toIo>>
    /\ Untouched
GuardTrips ==
    /\ active
    /\ Finish(FALSE)
    /\ latched' = TRUE
    /\ UNCHANGED <<down, toIo>>
    /\ Untouched

(***************************************************************************)
(* I/O thread: how it proceeds.                                            *)
(***************************************************************************)
TakeAcknowledge ==
    /\ IoTakes("acknowledge")
    /\ latched' = (latched /\ active)
    /\ UNCHANGED <<shared, toUi, phase, calibrationGeneration, restoreTest,
                   success, active, gateOpen, original, excused, radio>>
    /\ Untouched

(* beginDigitalCalibration *)
TakeBegin ==
    /\ IoTakes("begin")
    /\ LET g == Head(toIo).generation
       IN  IF ~connected \/ active \/ phase # "none"
           THEN /\ toUi' = toUi \o Call("failed", g)
                /\ UNCHANGED <<io, up>>
           ELSE /\ phase' = "read"
                /\ calibrationGeneration' = g
                /\ restoreTest' = FALSE
                /\ original' = TestToCome
                /\ excused' = AnswersToCome
                /\ up' = up \o <<"TS">>
                /\ UNCHANGED <<toUi, success, active, latched, gateOpen>>
    /\ UNCHANGED <<shared, down, test, keyed, toggles, refused>>
    /\ Untouched

(* onCatResponse of a TS answer, by phase.                                 *)
Answer(a) == down # <<>> /\ Head(down) = a /\ down' = Tail(down)

OnTestRead(a) ==
    /\ Answer(a)
    /\ phase = "read"
    /\ restoreTest' = (a = "TS0")
    /\ phase' = "enable"
    /\ up' = up \o <<"TS1", "TS">>
    /\ UNCHANGED <<shared, toUi, calibrationGeneration, success, active,
                   latched, gateOpen, original, excused, test, keyed,
                   toggles, refused>>

Confirms(a) == a = "TS1"

(* TEST is confirmed: arm the guard and key the K4.                        *)
OnTestEnabled(a) ==
    /\ Answer(a)
    /\ phase = "enable"
    /\ Confirms(a)
    /\ IF latched
       THEN Finish(FALSE) /\ UNCHANGED latched
       ELSE /\ phase' = "running"
            /\ generation' = calibrationGeneration
            /\ active' = TRUE
            /\ gateOpen' = TRUE
            /\ up' = up \o <<"TX">>
            /\ toUi' = toUi \o Call("keyRequested", calibrationGeneration)
            /\ UNCHANGED <<toneActive, connected, calibrationGeneration,
                           restoreTest, success, latched, original, excused,
                           test, keyed, toggles, refused>>

(* TEST was disabled behind the calibration's back.                        *)
OnTestLost ==
    /\ Answer("TS0")
    /\ phase = "running"
    /\ Finish(FALSE)
    /\ latched' = TRUE

OnTestRestored ==
    /\ Answer("TS0")
    /\ phase = "restore"
    /\ Complete(success, FALSE)
    /\ UNCHANGED <<shared, calibrationGeneration, restoreTest, active, latched,
                   gateOpen, original, up, test, keyed, toggles, refused>>

OnOtherAnswer(a) ==
    /\ Answer(a)
    /\ \/ phase = "none"
       \/ phase = "enable" /\ ~Confirms(a)
       \/ phase \in {"running", "restore"} /\ a = "TS1"
    /\ UNCHANGED <<shared, toUi, io, up, test, keyed, toggles, refused>>

OnAnswer ==
    /\ connected
    /\ \/ \E a \in {"TS0", "TS1"} :
             OnTestRead(a) \/ OnTestEnabled(a) \/ OnOtherAnswer(a)
       \/ OnTestLost
       \/ OnTestRestored
    /\ UNCHANGED toIo
    /\ Untouched

(* sendDigitalAudio: a packet of the tone.                                 *)
TakeTone ==
    /\ IoTakes("tone")
    /\ up' = IF gateOpen /\ Allows(Head(toIo).generation) THEN up \o <<"tone">>
                                                          ELSE up
    /\ UNCHANGED <<shared, toUi, io, down, test, keyed, toggles, refused>>
    /\ Untouched

(* setState(Disconnected): what was under way ends and is reported as     *)
(* unverified.  What the K4 has not received is lost, and it unkeys.       *)
ConnectionLost ==
    /\ connected
    /\ losses < MaxLosses
    /\ losses' = losses + 1
    /\ connected' = FALSE
    /\ gateOpen' = FALSE
    /\ active' = FALSE
    /\ generation' = Closed(calibrationGeneration)
    /\ IF phase = "none" THEN UNCHANGED <<phase, success, excused, toUi>>
                         ELSE Complete(FALSE, TRUE)
    /\ up' = <<>> /\ down' = <<>> /\ keyed' = FALSE
    /\ UNCHANGED <<toneActive, toIo, toAudio, ui, calibrationGeneration,
                   restoreTest, latched, original, audio, test, toggles, refused>>
Reconnected ==
    /\ ~connected
    /\ connected' = TRUE
    /\ UNCHANGED <<generation, toneActive, queues, ui, io, audio, radio, losses>>

IoThread ==
    \/ TakeAcknowledge \/ TakeBegin \/ TakeCancel \/ TakeTone
    \/ OnAnswer \/ Deadline \/ GuardCalibrates \/ GuardTrips
    \/ ConnectionLost \/ Reconnected

(***************************************************************************)
(* Audio thread.                                                           *)
(***************************************************************************)
AudioTakes(name) == AtHead(toAudio, name) /\ toAudio' = Tail(toAudio)

(* prepareDigitalCalibration fails while other audio is being sent: voice,   *)
(* which is not modelled, may be at any time.                              *)
TakePrepareFails ==
    /\ AudioTakes("prepare")
    /\ toUi' = toUi \o Call("unprepared", Head(toAudio).generation)
    /\ UNCHANGED <<shared, toIo, ui, io, audio, radio, losses>>
TakePrepare ==
    /\ AudioTakes("prepare")
    /\ ~toneActive
    /\ toneGeneration' = Head(toAudio).generation
    /\ prepared' = TRUE
    /\ toUi' = toUi \o Call("prepared", Head(toAudio).generation)
    /\ UNCHANGED <<shared, toIo, ui, io, radio, losses>>

(* beginSstvTransmit *)
TakeBeginTone ==
    /\ AudioTakes("beginTone")
    /\ toneActive' = (toneActive \/ (Allows(toneGeneration) /\ prepared))
    /\ UNCHANGED <<generation, connected, toUi, toIo, ui, io, audio, radio,
                   losses>>

(* stopSstvTransmit *)
TakeStop ==
    /\ AudioTakes("stop")
    /\ toneActive' = FALSE
    /\ prepared' = FALSE
    /\ UNCHANGED <<generation, connected, toUi, toIo, ui, io, toneGeneration,
                   radio, losses>>

(* onSstvPacer: one packet in flight at a time (bound); a closed           *)
(* generation stops the pacer.                                             *)
Pace ==
    /\ toneActive
    /\ IF Allows(toneGeneration)
       THEN /\ \A i \in 1..Len(toIo) : toIo[i].name # "tone"
            /\ \A i \in 1..Len(up) : up[i] # "tone"
            /\ toIo' = toIo \o Call("tone", toneGeneration)
            /\ UNCHANGED <<toneActive, prepared>>
       ELSE /\ toneActive' = FALSE
            /\ prepared' = FALSE
            /\ UNCHANGED toIo
    /\ UNCHANGED <<generation, connected, toUi, toAudio, ui, io,
                   toneGeneration, radio, losses>>

AudioThread == TakePrepare \/ TakePrepareFails \/ TakeBeginTone \/ TakeStop \/ Pace

(***************************************************************************)
(* The K4: commands in order, and its TEST button.  It may refuse TEST.    *)
(***************************************************************************)
Reading(on) == IF on THEN "TS1" ELSE "TS0"
K4 ==
    /\ up # <<>>
    /\ up' = Tail(up)
    /\ test' \in CASE Head(up) = "TS1" -> {test, TRUE}
                   [] Head(up) = "TS0" -> {FALSE}
                   [] OTHER -> {test}
    /\ refused' = (refused \/ (Head(up) = "TS1" /\ ~test' /\ excused))
    /\ keyed' = CASE Head(up) = "TX" -> TRUE
                  [] Head(up) = "RX" -> FALSE
                  [] OTHER -> keyed
    /\ down' = IF Head(up) = "TS" THEN Append(down, Reading(test)) ELSE down
    /\ UNCHANGED <<shared, queues, ui, io, audio, toggles, losses>>
TestPressed ==
    /\ toggles < MaxToggles
    /\ toggles' = toggles + 1
    /\ test' = ~test
    /\ down' = IF connected THEN Append(down, Reading(~test)) ELSE down
    /\ UNCHANGED <<shared, queues, ui, io, audio, up, keyed, refused, losses>>

-----------------------------------------------------------------------------
Init ==
    /\ generation = 0 /\ toneActive = FALSE /\ connected = TRUE
    /\ toUi = <<>> /\ toIo = <<>> /\ toAudio = <<>>
    /\ lastGeneration = 0 /\ calibrating = FALSE /\ started = FALSE
    /\ keyGuards = {}
    /\ phase = "none" /\ calibrationGeneration = 0
    /\ restoreTest = FALSE /\ success = FALSE
    /\ active = FALSE /\ latched = FALSE /\ gateOpen = FALSE
    /\ toneGeneration = 0 /\ prepared = FALSE
    /\ up = <<>> /\ down = <<>>
    /\ test \in BOOLEAN /\ keyed = FALSE
    /\ losses = 0 /\ toggles = 0
    /\ original = test
    /\ excused = FALSE /\ refused = FALSE /\ saved = {}

Next == UiThread \/ IoThread \/ AudioThread \/ K4 \/ TestPressed

Spec == Init /\ [][Next]_vars

(* The event loops run, the deadlines pass, the K4 carries out what it     *)
(* receives; the tone may go on, but the guard limits its time.            *)
FairSpec ==
    /\ Spec
    /\ WF_vars(OnPrepared \/ OnUnprepared \/ OnKeyRequested \/ OnFinished)
    /\ WF_vars(TakeAcknowledge \/ TakeBegin \/ TakeCancel \/ TakeTone)
    /\ WF_vars(TakePrepare \/ TakePrepareFails \/ TakeBeginTone \/ TakeStop)
    /\ WF_vars(OnAnswer) /\ WF_vars(Deadline) /\ WF_vars(GuardTrips)
    /\ WF_vars(K4)
    /\ \A g \in Generations : WF_vars(KeyGuardElapsed(g))

-----------------------------------------------------------------------------
Posted(names) == [name : names, generation : GenerationOrNone]
TypeOK ==
    /\ {generation, lastGeneration, calibrationGeneration, toneGeneration}
           \subseteq GenerationOrNone
    /\ {toneActive, connected, calibrating, started, restoreTest, success,
        active, latched, gateOpen, prepared, test, keyed, original, excused,
        refused}
           \subseteq BOOLEAN
    /\ toUi \in Seq(Posted({"prepared", "unprepared", "keyRequested", "succeeded", "failed"}))
    /\ toIo \in Seq(Posted({"acknowledge", "begin", "cancel", "tone"}))
    /\ toAudio \in Seq(Posted({"prepare", "beginTone", "stop"}))
    /\ phase \in {"none", "read", "enable", "running", "restore"}
    /\ up \in Seq({"TS", "TS0", "TS1", "TX", "RX", "tone"})
    /\ down \in Seq({"TS0", "TS1"})
    /\ keyGuards \union saved \subseteq GenerationOrNone
    /\ losses \in 0..MaxLosses /\ toggles \in 0..MaxToggles

(* The K4 never transmits outside TEST during a calibration, unless        *)
(* someone took it out of TEST at the K4, or it refused TEST while answers *)
(* to earlier queries could be taken for its confirmation: the commands    *)
(* that key it and that change TEST stay in an order that keeps the tone   *)
(* off the air, however late the answers are.                              *)
KeyedInTest == keyed /\ ~test => toggles > 0 \/ refused

(* A calibration that succeeds or does not ask the operator to verify TEST *)
(* leaves the K4 with the TEST setting it had when it began, unless it     *)
(* read that setting from the late answer to an earlier one.               *)
RestoresTest ==
    phase = "none" /\ ~excused /\ toggles = 0 => TestToCome = original

(* Once the level that the latest calibration found is saved, the K4 is    *)
(* back in the TEST setting that calibration found it in: no loss of the   *)
(* connection can undo it.                                                 *)
SavedIsRestored ==
    phase = "none" /\ calibrationGeneration \in saved /\ toggles = 0
    => TestToCome = original

(* When the UI thread is free and no call or command is under way, nothing  *)
(* of a calibration is left: no phase, no guard, no tone, no keyed K4.     *)
NothingLeftBehind ==
    (~calibrating /\ queues = <<<<>>, <<>>, <<>>>> /\ up = <<>>)
    => /\ phase = "none" /\ ~active /\ ~gateOpen /\ generation = 0
       /\ ~prepared /\ ~toneActive /\ ~keyed

(* A calibration comes to rest, answered or not: it ends for the UI thread *)
(* and the K4 returns to receive, in TEST or out of it.                    *)
ComesToRest == []<>(~calibrating /\ ~keyed)
=============================================================================

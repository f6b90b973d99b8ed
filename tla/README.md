# Verification of QK4-Mobile

QK4-Mobile is a Qt (C++) application for Android and iOS that controls an
Elecraft K4 transceiver over the network: CAT commands, spectrum and audio over
one TCP or TLS connection, with digital modes (FT8, FT4, SSTV), a keyer, MIDI
and CAT inputs and a logbook on the phone.

This directory holds TLA+ modules that model the parts of it where threads,
timers, the network and the radio interleave, the TLC configurations that check
them, and proofs that TLAPS checks. Paths below are relative to the repository
(`src/src/...` in `PROJECT.json`); the column "code" of each table names the
functions, and `PROJECT.json` maps every definition to its lines.

    tlc -config DigitalTxGuard.cfg DigitalTxGuard.tla
    tlapm DigitalTxGuardProofs.tla

## 1. The system

### Threads

| thread | owns | takes |
|---|---|---|
| UI (main) | `MainWindow`, `RadioState`, `RadioManager`, `Ft8Session`, logbooks, `CatServer` | touch, timers, queued signals |
| I/O | `TcpClient`, its socket, `Protocol`, `DigitalTxGuard` | queued calls, socket events, ping, connect, auth and 50 ms protection timers |
| audio | `AudioEngine`, `Ft8Transmitter`, Opus codecs | queued calls, audio device timers, SSTV pacer |
| FT8 receiver, SSTV decoder | `Ft8Receiver`, `SstvDecoder` | queued audio |
| keyer | `IambicKeyer`, HaliKey workers | paddle latches (atomics), element timing |

Threads talk by queued Qt signals and `invokeMethod`, that is one FIFO queue per
receiving thread, and by a few atomics: `DigitalTxControl` (the open
*generation*, the scheduled generation, the requested drive, the headroom
fault), `TcpClient::m_state`, `AudioEngine::m_sstvActive`, the paddle latches.
A generation is the number of one transmission: everything that may key the
radio or write transmit audio carries it and is refused once the gate is no
longer open for it.

### Components

For each: its state; what operates on it; what is hard; what makes it correct.
The status of each is in section 7 and in `PROJECT.json`.

* **Digital transmit guard** (`audio/digitaltxguard.*`). The shared atomics; the
  guard's active/latched flags, time stamps, counts and calibration state.
  begin, stop, meter, audioAccepted, tick, acknowledge; the gain stage of the
  audio thread. Hard: three threads close a generation; expiry with a late
  timer; debouncing of noisy readings. Correct: the gate fails closed, the drive
  of a transmission never rises, a trip stays latched until acknowledged, a
  silent radio ends the transmission, a level is accepted only on evidence.
* **Digital transmission lifecycle** (`ft8/ft8transmitter.*`, the SSTV and FT
  parts of `audio/audioengine.cpp`, `network/tcpclient.cpp` and
  `mainwindow.cpp`). Who is transmitting, for which generation, in which phase,
  on each of three threads. prepare, key, key-up guard, pace, drain, unkey,
  stop, fail, lose the connection. Hard: every one of these is a queued call
  that may cross a stop or the next start. Correct: audio is on the air only in
  its own over; a stop is final; every transmission ends and frees every thread.
* **Transmit audio calibration** (`tcpclient.cpp` beginDigitalCalibration ...
  completeDigitalCalibration, `mainwindow.cpp` digital calibration). The phase
  of a handshake with the K4's TEST mode. Hard: uncorrelated, late answers;
  cancellation and loss at any point. Correct: no tone outside TEST; TEST is
  restored or the operator is told; a saved level follows a confirmed
  restoration.
* **TCP connection** (`network/tcpclient.*`). Disconnected, Connecting,
  Authenticating, Connected; connect, auth and ping timers; host lookups; the
  socket. Hard: cancelled attempts that complete late, stale lookups, errors
  against timeouts. Correct: the UI's state converges with the socket's; the
  radio connected is the radio asked for; no state without its timer.
* **K4 packet protocol** (`network/protocol.*`). The receive buffer. parse.
  Hard: resynchronising, lengths at the integer limits, data left from an
  earlier connection. Correct: each well formed packet of the stream is
  delivered once and in order.
* **CAT server and transmit arbitration** (`network/catserver.*`, PTT in
  `mainwindow.cpp`). External clients, the PTT button, voice and digital modes
  compete for the transmitter. Correct: one owner at a time; whoever keyed
  unkeys.
* **KPA1500 client** (`network/kpa1500client.*`). Connection, poll timer, line
  splitting. Correct: reconnects; state only from whole lines.
* **PSK TLS sockets** (`network/psktlssocket_*`). Adapter of two TLS backends to
  one socket interface.
* **Audio receive path** (`audio/audioengine.cpp`, `opusdecoder`). Jitter
  buffer with high-water mark, partial device writes, mute while transmitting.
  Correct: bounded latency, samples in order, none twice.
* **Voice transmit audio** and **CW sidetone** (`audioengine.cpp`,
  `opusencoder`, `sidetonegenerator`). Device callbacks.
* **FT8/FT4 QSO sequencing** (`ft8/ft8session.*`, its use in `ui/ft8screen.cpp`).
  The partner, the next and the last message, the reports, the tries. select,
  callCq, arm, halt, clear, receive, sent. Hard: repeated, missing, late and
  reordered decodes; decodes that come while an over is still ending; the
  operator's taps in between. Correct: a contact is complete only after both
  reports were exchanged, and stays so; calling stops; an exchange on clean air
  ends.
* **FT8/FT4 receiver** (`ft8/ft8receiver.*`, `ft8snr`). Slot buffers, capture
  generation, backlog. Correct: a decoded slot has no gap and one mode.
* **FT8 radio mode** (`ft8/ft8radiomode.h`, its use in `mainwindow.cpp`). The
  mode to restore, whether the screen is open, whether DATA-A was asked for.
  Hard: decided on reports that are older than the commands in flight. Correct:
  no mode command to a transmitting radio; the operator's mode comes back;
  DATA-A is kept while the screen is open.
* **Logbook and QRZ upload** (`ft8/ft8logbook.*`, `ft8/qrzlogbook.*`,
  `ui/logbookdialog.cpp`). The records with their upload state, on disk; the
  queue and the one request, in memory. send, resume, process, finish, Setup,
  append, replace, import. Hard: killed between request and record, lost
  answers, edits while a contact is being sent. Correct: never posted unasked;
  what is checked was inserted and stays checked; every upload ends.
* **Iambic keyer** (`hardware/iambickeyer.*`). Paddle latches, element being
  sent, mode A/B memory. Hard: latches set while the keyer goes idle. Correct:
  a press makes an element; elements stop when paddles are released.
* **Paddle and MIDI input** (`hardware/halikey*`, `ctr2mididevice`,
  `midiinputrouter`, `midimapping`) and **K-Pod** (`kpoddevice`). Several
  sources hold one key. Correct: a removed source releases what it held.
* **Radio state** (`models/`), **settings** (`settings/`). Tables from CAT
  answers and to QSettings.
* **SSTV encoder, decoder, storage** (`sstv/`). Signal processing and files.
* **Spectrum displays** (`dsp/`), **user interface** (`ui/`, layout in
  `mainwindow.cpp`), **Android and iOS integration** (`android/`, `ios/`).
  Rendering, widgets and platform services.

### Hazards

`PROJECT.json` lists each hazard at its line with the properties that watch it,
or a note saying why none does. In short: stops and starts that cross in three queues;
two-step accesses to the shared atomics (fault then close, check then act twice
around the guard's begin); timers of an earlier transmission that fire in a
later one; answers of the K4 that nothing correlates with a query; loss of the
connection at any point of a transmission, a calibration or an attempt to
connect; debouncing that must start over at the right age; paddle
edges stored between the loads of the keyer thread; a device that goes while its
paddle is down; decodes that come twice, late or while an over is ending; a mode
chosen from an old report; a kill between a request and the record of its answer.

## 2. Modules

| module | models | extends or instantiates |
|---|---|---|
| `TxGate` | what the transmit protection promises: a gate opened for one generation together with its guard, shut by anyone, shut for good by a trip until acknowledged | |
| `DigitalTxGuard` | `DigitalTxControl`, `DigitalTxGuard`, `DigitalTxAudio`, and their callers on three threads | `TxGate` (as the property `GateSpec`) |
| `DigitalTxGuardProofs` | theorems about `DigitalTxGuard` | `DigitalTxGuard`, `SequenceTheorems`, `TLAPS` |
| `DigitalTxLink` | an FT or SSTV transmission across UI, I/O and audio threads | `TxGate` (as `GateSpec`) |
| `DigitalTxLinkProofs` | theorems about `DigitalTxLink` | `DigitalTxLink`, `SequenceTheorems`, `TLAPS` |
| `TxCalibration` | the calibration's handshake with the K4's TEST mode | |
| `TxCalibrationProofs` | theorems about `TxCalibration` | `TxCalibration`, `SequenceTheorems`, `TLAPS` |
| `TcpConnection` | connecting, authenticating and disconnecting, with lookups, timers, a socket and the UI's copy of the state | |
| `TcpConnectionProofs` | theorems about `TcpConnection` | `TcpConnection`, `SequenceTheorems`, `TLAPS` |
| `InputAggregator` | which inputs (dit, dah, straight key) each device holds | |
| `IambicKeyer` | the keyer thread against the UI thread, load by load and store by store | `InputAggregator` (its environment) |
| `MidiDevices` | the two MIDI connections: link, edges, debounce, keying mode | `InputAggregator` (as `UsesAggregator`, proved) |
| `PaddleProofs` | theorems about `IambicKeyer` and `MidiDevices` | `IambicKeyer`, `MidiDevices`, `SequenceTheorems`, `TLAPS` |
| `Ft8Session` | the exchange of a contact, as a function of a session and an event | |
| `Ft8Contact` | stations that run `Ft8Screen` around an `Ft8Session`, and the air between them | `Ft8Session` |
| `Ft8ContactProofs` | theorems about `Ft8Contact` | `Ft8Contact`, `SequenceTheorems`, `WellFoundedInduction`, `TLAPS` |
| `Ft8RadioMode` | the temporary DATA-A mode, with commands and reports in flight and the transmissions it waits for | |
| `Ft8RadioModeProofs` | theorems about `Ft8RadioMode` | `Ft8RadioMode`, `SequenceTheorems`, `TLAPS` |
| `QrzUpload` | the logbook's upload states, the upload service, the editor and restarts | |
| `QrzUploadProofs` | theorems about `QrzUpload` | `QrzUpload`, `SequenceTheorems`, `FiniteSetTheorems`, `TLAPS` |

`DigitalTxGuard` decides *why* a transmission ends, with time and thresholds;
`DigitalTxLink` abstracts those decisions to "the guard may trip" and follows
the queued calls. Both are shown to implement `TxGate`, so that what the second
assumes of the guard is what the first provides. `TxCalibration` has the same
two threads' gate but the K4's side in detail. `TcpConnection` is what the other
modules take for granted as "connected" and "the connection is lost".

`InputAggregator` is the interface between `MidiDevices` and `IambicKeyer`: `MidiDevices` implements it
(every step sets one input of one device or releases one device), and
`IambicKeyer` allows its UI thread any use of it, whatever the devices are.

`Ft8Contact` takes an over as something that ends well or badly, which is what
`DigitalTxLink` shows of it (`ComesToRest`); `Ft8RadioMode` takes it as armed, keyed,
done. `Ft8Session` holds no state: `Ft8Contact` gives each station a session, so
that two of them can be set against each other.

### DigitalTxGuard

| state | code |
|---|---|
| `generation`, `scheduledGeneration`, `gain`, `audioFault` | the atomics of `DigitalTxControl` |
| `active`, `latched`, `myGeneration`, `calibrating`, `highSamples` | members of `DigitalTxGuard` |
| `age[t]` | now minus the time stamp `t` (`m_startedMs`, `m_lastMeterMs`, ...), `NoTime` for -1; saturated at `cap[t]`, the largest value any comparison tells apart |
| `inbox` | calls queued for the I/O thread |
| `encoding`, `stageGain`, `faulting` | the generation the audio thread encodes, `DigitalTxAudio::m_gain`, and the point between its two stores of a fault |
| `issued`, `busy` | the generations `MainWindow` issues, one transmission at a time |
| `result`, `revoked`, `sinceAdverse`, `sinceNotHigh`, `encoded` | history |

A TM reading is reduced to what `meter` tells apart: the ALC range (low, on
target, high, at the stop limit), compression, and RF during a calibration.
Every branch of `meter` is a disjunct (`MeterExcessive`, `MeterSettling`, ...),
and the `tick` it asks first is `TickCauses`. Samples are reduced to whether
they exceed the headroom. Gain is counted in 3 dB steps.

### DigitalTxLink

Variables are grouped by the thread that owns them; `toUi`, `toIo`, `toAudio`
are the three queues. One action takes one queued call (`TakeStop`,
`OnPrepared`, `TakeKeyed`, ...) or lets one timer expire
(`KeyGuardElapsed`, `DrainElapsed`, `DrainPoll`). Where the code reads an
atomic, computes, and acts later, `inside` holds the audio thread between the two:
`beginSstvTransmit` ("begin"), the pacer's encoding ("image"), and
`Ft8Transmitter::tick` ("tick"); `ioInside` holds the I/O thread. Its two handlers
that share an atomic with the UI thread are taken apart at every read of it:

| `ioInside` | line of `tcpclient.cpp` reached | next step |
|---|---|---|
| "loop", a begin queued | 269 | `RefuseBegin`, or `AdmitBegin` to "begin" |
| "begin" | 313, `begin` of the guard | `ArmGuard` opens the generation, to "armed" |
| "armed" | 324, the slot is read again | `ConfirmSlot`: to "key", or the guard is stopped |
| "key" | 329, TX is written | `KeyRadio`, back to "loop" |
| "loop", a packet queued | 358, the tick at 360 | `RefusePacket`, or `TakePacket` to "ticked" |
| "ticked" | 361, the generation is read again | `CheckPacket`: to "write", or dropped |
| "write" | 367, 371, the packet is written | `WritePacket`, which may trip, back to "loop" |

Deadlines of
`tick` are choices that may be taken at any moment. `WaveCleared` resets `m_keyedMs`,
`m_drainMs` and `m_emitted` as soon as the transmitter is idle and clears its waveform;
the code leaves them to the next `schedule`, and nothing reads them in between. `onAir` is the radio: the
generation whose TX it last received, 0 after RX or when the connection is
gone (the K4 unkeys when its client is lost; external, as the code relies on).

### TxCalibration

The UI (`calibrating`, `started`), the I/O thread (`phase` and the restoration),
the audio thread's tone, and the K4: commands `up`, answers `down`, both in
order and arbitrarily late, `test` and `keyed`. The K4 may refuse TEST and its
TEST button may be pressed (`TestPressed`). The search for the drive is the
guard's, here a nondeterministic success or trip. `excused` and `refused` are
histories: that an answer to an earlier calibration's query may still come, and that
the K4 refused TEST while one could.

### TcpConnection

| state | code |
|---|---|
| `uiState`, `asked`, `shown`, `managed` | `MainWindow::m_connectionState`, `m_currentRadio`; the radio manager is open, `RadioManagerDialog::m_connectedHost` |
| `toIo`, `toUi` | the calls queued for `TcpClient`, the `stateChanged` signals queued for `MainWindow` |
| `state` | `TcpClient::m_state`, an atomic the UI reads through `isConnected` |
| `radio`, `authAnswered`, `timers` | the arguments of the latest `connectToHost`, `m_authResponseReceived`, the timers that run |
| `lookups` | the callbacks of `QHostInfo::lookupHost` still to come |
| `socket` | phase and peer of the socket, and whether a close waits for it |

One action per slot: `connectToHost` (`TakeConnect`, which closes the connection
there is first), `disconnectFromHost`, the lookup's callback, the two timeouts,
and the socket's `connected`, `encrypted`, first packet, `errorOccurred` and
`disconnected`. A slot may call `setState` several times: `Goes` announces each
change in order. The socket is external and may do at each point what
`QAbstractSocket`, `QSslSocket` and the OpenSSL adapter do: a socket told to close
while it connects reports connected first; one with data left closes later; a
busy one refuses to connect, loudly or, for TLS on Android, silently
(`Attempt`, `AfterClose`). The UI is offered Disconnect only for the radio that
was connected when the manager was shown, as in the code.

### IambicKeyer

| state | code |
|---|---|
| `inputs` | `InputAggregator::m_sources`, on the UI thread |
| `calls` | what the running UI handler has still to store or post |
| `box` | calls queued for the keyer thread: `handlePaddleChange`, `stop`, `setMode`, `setReversed` |
| `phys`, `latch` | the atomics `m_physDit`, `m_physDah`, `m_ditLatch`, `m_dahLatch` |
| `handler` | the handler the keyer thread is in: the atomics it has yet to load or clear, and those it saw set |
| `state`, `squeezed`, `armed`, `mode`, `reversed` | `m_state`, `m_squeezed`, the element timer, `m_mode`, `m_reversed` |
| `due` | history: paddles down since their last element began |

A UI handler (`Press`, `Release`, `Disconnected`, `Remapped`, `SettingChanged`)
computes its transitions and leaves them in `calls`; `StorePressed`,
`StoreReleased`, `StoreLatch` and `PostCall` carry them out one at a time. A
handler of the keyer thread (`TakePaddle`, `TimerFires`, `TakeStop`) starts with
the list of its loads or clears; `Load` and `Clear` take them one at a time, and
`PaddleChanged`, `ElementOver`, `ElementEntered`, `Cleared` are what it does with
the result. So the two threads interleave between any two accesses, which the
code's acquire and release orderings allow. `NextElements` is the decision of
`onTimerFired`, a set with the next element or empty. Time is left out: an
element lasts until its timer fires. Element lengths, KZ commands, character
spaces and the sidetone follow from `elementStarted`. `setEnabled` has no caller.

### MidiDevices

| state | code |
|---|---|
| `contact` | the contacts of the physical paddle (environment) |
| `link`, `pending`, `events` | `Session.connectionState`, an open that has not been answered, `Session.events` of `AndroidBleMidi`; the port, its worker's start and the queued signals in the RtMidi build |
| `known` | `m_androidConnectionState`, `m_connected` |
| `raw`, `confirmed`, `debouncing` | `m_raw...State`, `m_confirmed...State` and the running debounce timers of `HalikeyDevice` |
| `held`, `straight` | `InputAggregator::m_sources`, `cwMidiKeyingMode` |

Android: the Java session changes under the UI thread (`LinkOpens`, `LinkFails`,
`LinkLost`), which learns of it when `ConnectionPoll` finds another state; the
states between two polls are missed, as in the code. A source in `Debounced` is
`HalikeyDevice` (at most one: it is one object), the others are
`Ctr2MidiDevice`. `rtmidi`, chosen at the start of a behaviour, is the RtMidi build
(iOS and desktop), whose edges are queued signals that closing the port does not
take back; what such an edge leaves held nobody releases, so `InputsNeedDevice`,
`InputsMatchMode` and `BrokenContactReleases` are stated for Android. Every contact is mapped; the left one is the straight key. An RtMidi port
that fails to open, and opening a second worker while the first starts, are not
modelled; nor is an edge that the MIDI thread appends while a session is closed,
since `connect` clears the events again.

### Ft8Session and Ft8Contact

| state | code |
|---|---|
| `session[s]` | `Ft8Screen::m_session` of station `s`: `dxCall`, `nextMessage`, `m_lastSent`, `sentReport`, `receivedReport`, `armed`, `callingCq`, `complete`, `autoSequence`, `even`, `retries`; `taken` is what `m_lastReceivedId` is compared for |
| `live`, `replies` | `m_livePending`, `m_liveMessage`; `m_liveReplies` |
| `keyed`, `slot` | whether `m_lastTxSlot` is the present slot, and its parity |
| `rows` | `m_recent`, the last decode of each station |
| `inbox` | decodes on their way from the receiver thread |
| `aired`, `copied`, `manual`, `restarted` | history: reports that went out, reports taken from a partner, stations whose operator chose a message or dropped a contact |

A message is what `parseMessage` makes of it: addressee, sender, kind, report.
Operators of `Ft8Session` bear the names of the code's cases (`Answer`,
`SentOurReport`, `AnswersFirst`); `Receive` and `Sent` are whole handlers. In
`Ft8Contact` an over is asked for (`Tick`), heard by the others or not (`Air`: not,
once, or twice, with or without a measured report), and ends (`Finish`), after
which the decodes that came meanwhile are taken. `NextSlot` closes a slot; an
over or a decode that is not dealt with by then is late, which happens but counts
against the bound. One mode, valid calls and grids, live operation: practice
has its own path and never transmits. `setReport` has no caller.

### Ft8RadioMode

| state | code |
|---|---|
| `session` | `m_active`, `m_dataRequestPending`, `m_originalMode` and `m_originalSubMode` |
| `seen`, `seenTx` | `RadioState`: mode, data submode, transmitting, as last reported |
| `ptt`, `over` | `m_pttActive`; the digital over from `m_ft8TxGeneration` set to `finished` |
| `connected`, `toRadio`, `toUi` | the connection, the commands and the reports in flight |
| `radio`, `keyed` | the K4 (external): what it is set to, whether it transmits |
| `entry`, `pace` | history: the setting taken over when nothing was in flight; whether a mode was changed before DATA-A had settled |

`Update` is `Ft8RadioMode::update` with its four branches; `Tick` calls it every
100 ms, `Open` and `Close` at once. `Recall` is a command that makes the K4 choose
another mode by itself: a band, or a mode key.

### QrzUpload

| state | code |
|---|---|
| `log` | the records on disk: `_QK4_QRZ_STATE`, `QRZCOM_QSO_UPLOAD_STATUS`, `STATION_CALLSIGN`, and the rest as a content that edits replace |
| `setup` | `m_call`, `m_auto`, `m_hasKey`, which are persistent |
| `phase` | the start of the application until `resume` has run |
| `queue`, `calls`, `request`, `reply` | `m_queue`, the calls of `process` posted to the event loop, the request of `m_busy`, its answer |
| `editor` | the open editor and the copy it was opened with |
| `wire`, `accepted` | QRZ (external): posts under way, posts inserted |
| `asked`, `posts`, `imported`, `stranded` | history |

Each handler is one step: what it saved survives `Restart`, what it holds in memory
does not. Every load, save and read of the key may fail (`Fault`), which leaves
what the code leaves; a record whose outcome could not be saved is `stranded`
until the next start. QRZ may insert a post and answer, or not answer, or refuse.

## 3. Runs

| run | question | instance |
|---|---|---|
| `guard` | Does the gate fail closed and stay the abstract one, does drive only fall, does a fault hit only its own generation; do high-ALC watch, calibration evidence and the watchdog hold? | two transmissions, thresholds 1 to 3 in the order of the code's |
| `link` | Is audio only heard in its own over, completion deserved, a halted transmission refused and its gate shut, stop final, nothing left behind; does every transmission end, unkey and free the UI? | two transmissions of either kind, two frames each, one connection loss |
| `calibration` | Is the tone never keyed outside TEST (but for the operator's button and a refusal that a stale answer hides), nothing left behind, TEST restored or the operator told; does a calibration end? | two calibrations, one loss, one press of TEST |
| `calibration_stale` | finding: a stale answer taken for the present setting, so that the saved calibration leaves TEST changed | two calibrations, no loss |
| `tcp` | Is Connected always an open, answered socket, an attempt by address never led elsewhere; does the UI's copy converge, does every attempt end? | four taps, a plain and a TLS radio known by address, one TLS radio known by a `.local` name |
| `tcp_stale` | finding: a lookup of an earlier attempt used by the next | two taps, two plain radios known by `.local` names |
| `keyer` | Does every edge get through, does no element come from nowhere, does a held paddle get its element, and does the keyer fall silent? | two devices, mode B at first, two presses, one device that goes or is remapped, one change of mode or orientation |
| `midi` | Is what a device holds released with it or with its contact, in the mode of now, and only that? | both devices, either build, one contact each, four edges, three opens, two losses, one change of mode |
| `ft8_contact` | Is a contact that Auto completed one, does it stay so, does a station stop, does an exchange on clean air complete? | two stations, both answer the first caller of a CQ, one finishes with RR73 and one with RRR; two reports; three tries; three taps and two upsets |
| `ft8_mode` | Does no mode command reach a transmitting K4, does the mode of entry come back, is DATA-A reasserted? | one other mode, two data submodes, two opens, two events |
| `ft8_mode_keep` | finding: DATA-A not reasserted after a quick change of band | one open, two events |
| `qrz_upload` | Is nothing posted unasked, is what is checked inserted and locked, does every upload end? | one callsign, two contacts, two sends, one edit, two changes of Setup, one fault, one restart |

What each property says is in the comment before it.

### Bounds, and why they are enough

* `MaxGeneration`, `MaxStarts`: two. Every hazard is one transmission's leftover
  meeting another, and nothing of the first but its queued calls and timers
  survives it; a third can only meet what a second could. `TxCalibration` is the
  exception: what survives there are answers of the K4, two earlier calibrations can
  leave two of them, and a third can read one and be confirmed by the other (section 4). That
  is why its theorems, for any number of calibrations, say more than its run.
* `MaxLosses`, `MaxToggles` (transmission and calibration): one, at any point of the behaviour. They bound the
  environment, not the program.
* `Frames`: two, so that there is a first, a final, and a stop between them.
* Thresholds in `DigitalTxGuard.cfg` keep the order of the code's (settling and
  stability below the meter timeout and the sustained-high time, those below the
  calibration's limit), each at least one unit; ages saturate at the largest value
  compared, which loses nothing. Two readings make a sustained high.
* In `TxCalibration`, one "cancel" and one "stop" may be queued at a time, and
  one tone packet is in flight: repeating them adds no state.
* `MaxTaps` of `TcpConnection`: four taps let an attempt, its cancellation, the next and its
  replacement meet the signals of one another; `.local` names add lookups that
  outlive their attempt (the counterexample of `tcp_stale` takes two taps). Three
  radios, so that the wrong one can be told from the right one, one of each kind
  of transport and one behind a lookup.
* `MaxPresses`: two, so that a dit and a dah squeeze, or one paddle is held while
  the other comes and goes, around the same element boundary; a boundary clears
  what earlier presses left. Mode B is the mode with the longer memory, and one
  change of mode leads to A. `MaxClears`, `MaxSettings`: one, at any point.
* `MaxEdges`: four are two presses and their releases, `MaxOpens` and `MaxLosses`
  one more connection than is lost; the devices share only the aggregator and
  the contacts of one device only its link, so one contact each suffices.
* `Ft8Contact`: `MaxTaps` is all the taps, `MaxUpsets` every lost, doubled, late or
  unmeasured decode, failed over and every tap but each operator's first call,
  together. Two upsets allow an exchange to be disturbed, recover, and be disturbed
  in the recovery. `MaxRetries` is three instead of the code's default six: a message can
  be lost, repeated and answered before the tries run out. Two reports tell the
  first from a remeasured one.
* `Ft8RadioMode`: `MaxEvents` bounds bands, overs, presses and losses together: two
  are one that disturbs and one that meets the disturbance; `MaxOpens` is two, so that
  the second entry meets the first's restoration.
* `QrzUpload`: two contacts, so that one waits in the queue behind the other, and two
  sends, so that one can be asked for again after it failed; a fault and a restart at
  any point. The theorems hold for every number of all these.
* The operator issues at most `MaxGeneration` transmissions, after which the
  system may stop: that is why the runs do not check for deadlock.

### Fairness

Liveness is checked under weak fairness of each thread's event loop (a queued
call is taken), of timers that run (key-up guard, drain, phase deadlines, the
50 ms protection timer) and of the pacer, which Qt's event loops justify; of the K4
answering what it received in `TxCalibration`. The operator, the network and the
guard's decisions on readings are not obliged to do anything.

In `DigitalTxLink` even less is assumed: that as long as some thread has something
to do, some thread does it (`WF_vars(UiRuns \/ IoRuns \/ AudioRuns)`), whichever.
`ComesToRest` holds all the same, because nothing there goes on for ever by itself.
It holds although no reading ever trips; each phase of `Ft8Transmitter` has a
deadline, which is among the things to do. In `TxCalibration`, `GuardTrips` is fair
because a calibration has a time limit (`CalibrationLimit`, in `DigitalTxGuard`). In
`TcpConnection` only the two event loops and the two timers are fair: `Settles`
holds although neither resolver, network nor radio ever answers. In `IambicKeyer`
each thread goes on and the element timer fires; in `MidiDevices` the poll and
debounce timers fire and queued calls run, while links, devices and contacts do as
they like.

In `Ft8Contact` time passes, and with it the screen's timer, an over's end and the
delivery of decodes (`WF_vars(Proceed)`): the next slot waits for each of these, so
none is starved. No tap is assumed. In `Ft8RadioMode` the timer runs, the queues are
served in both directions and an over ends; nobody need press, release, open or
close, and a lost connection need not come back. In `QrzUpload` the event loop runs
what was posted to it and a request's deadline elapses; QRZ need never answer.

## 4. What the checks showed

* The generation labels and the FIFO queues protect twice: dropping the
  generation check of `sendDigitalAudio` alone breaks nothing, because stops
  and packets travel in one queue; dropping it together with the gate does
  (`AdmitRaw`, the mutant of `AudioInItsOwnOver`).
* The second look at the slot, once the guard is armed, is needed: without it
  (`SkipSlot`) a halt between the two looks leaves the gate open for an over
  that is no longer wanted (`HaltedStaysShut`). It cannot be left open by a halt
  after the second look, which finds the generation open and closes it.
* The key-up timer must look at its generation: without that an image's timer releases
  the next image before it is keyed, and the link does not come to rest
  (`ComesToRest`).
* `stopDigitalAudioAndUnkey` carries no generation. It is safe only because the
  UI thread posts it before it can post the next begin.
* A UI stop is seen first by the I/O thread's tick as a closed generation, which
  latches "cancelled"; the operator's next action acknowledges it.
* Confirming TEST by a query is needed, ordering alone is not enough: the K4 may
  refuse TEST, and TX would follow.
* The confirmation itself says nothing about which query it answers. With three
  calibrations, none of them disturbed, the answers that two timed-out ones left behind
  can be the third's original setting and its confirmation; if the K4 refuses TEST in
  that third one, it is keyed outside TEST (`tcpclient.cpp` 549-557). Two calibrations
  do not show it; the attempt to prove `KeyedInTest` for any number did. `KeyedInTest`
  now names this one exception (`refused`), which has the cause of finding 1 below.

* An attempt that was cancelled or timed out while its socket connected goes on
  to Authenticating when the socket comes up after all, which then closes: the
  operator sees a late authentication failure. The invariants of `TcpConnection`
  hold throughout, because that transition starts the authentication timer.
* A socket still closing refuses the next attempt. Loudly, and the attempt fails
  at once; or silently (TLS on Android), and the connect timer ends it.
* The UI's copy of the state converges only because every change is announced in
  order, also the Disconnected and Connecting of one and the same call: dropping
  one that looks outdated (`OnStateChangedGuarded`) leaves it wrong for good.

* The keyer needs no lock: the call that each edge posts makes the keyer look
  again at whatever its loads missed (`NoEdgeIsLost`). What can go wrong is what the
  keyer thread *stores*: `goIdle` and `stop` clear atomics that it did not just
  read.
* Reversing the paddles, changing the mode or remapping in the middle of a squeeze
  makes no element that no paddle asked for (`ElementsAreDue`).
* On Android a lost device is released even when the poll misses the failure and
  finds the next attempt already connecting: `openPort` is offered only once the
  device is known to be gone, so the poll cannot see "opening" from "open".

* A contact can be completed only from both sides. The checks of `receive` on what was
  last sent are what makes it so: believing any R report (`BelievesAnyRReport`) lets a
  contact be logged whose report never went out. What the log names as sent is the
  very report the partner took, unless one of them started over in between.
* Decodes held while an over ends are taken after `sent`; a failed over drops them,
  and the partner's next repetition makes up for it (`CleanAirCompletes`).
* That `retries` starts over with each new message does not let two stations keep each
  other on the air: every exchange has an end, and a message that repeats does not
  start it over (`StopsCalling`).
* No mode command meets a transmitting K4 although transmission is known only from
  reports: the PTT button, MIDI PTT and digital overs set a flag of the UI thread before
  the TX command leaves, and clear it after the command that unkeys; the queue keeps the
  order (`NeverSetsOnAir`). A CAT client breaks that rule: see below.
* QRZ: `SENDING` is saved before the request leaves, so a kill in between leaves a
  record that `resume` turns into an error for the operator, not into a second post
  (`NeverResent`). An outcome that could not be saved strands its record until the next
  start, which treats it in the same way.
* The editor's copy may be old, but `replace` takes the upload fields from the record
  on disk, refuses one that is being sent, and marks one that was sent.

### Findings

1. **A late TS answer is taken for the original TEST setting**
   (`calibration_stale`). After a restoration that timed out, the answer of the
   first calibration can arrive in the second's reading phase: the second
   believes TEST was on, ends well, saves its level and leaves the K4 in TEST
   without a word. `docs/DIGITAL_TX_LEVEL.md` lines 23-31 describes reading the
   original setting, restoring it, and reporting any unconfirmed restoration.
   Unless such an answer is on its way, TEST is restored or a failure tells the operator
   (`RestoresTest` of `calibration`).
2. **A lookup of an earlier attempt is used by the next** (`tcp_stale`). The
   callback in `connectToHost` only asks whether the state is Connecting. If a
   `.local` lookup outlives the connect timer and the operator then connects to
   another radio, the late answer makes that attempt connect to the first one. Of
   radios known by address the property holds (`AddressedAsAsked` of `tcp`). The
   comment at `network/tcpclient.cpp` lines 133-134 shows what the check is for.
3. **DATA-A is not reasserted after a quick change of band** (`ft8_mode_keep`).
   `m_dataRequestPending` is cleared only by reading DATA-A back. If a band is selected
   before that, and the reports of both changes are handled between two ticks of
   100 ms, the module finds the band's mode with its request still pending, on every
   later tick, and stays there. `README.md` lines 90-91: "The module keeps DATA-A active
   while changing bands". If each change waits until DATA-A has settled, it is
   kept (`ReturnsToDataA` of `ft8_mode`).

### Where the properties stop

The models also show behaviour that the properties had to be stated around.
Those a property comes near to are hazards of `PROJECT.json`, some with a note.

* One packet may be written after a halt. `sendDigitalAudio` looks at the generation
  at line 361 of `network/tcpclient.cpp` and writes at 371; a halt of the UI thread
  in between closes the generation, and the packet goes out ahead of RX (in the model
  `CheckPacket`, `OperatorStopsFt`, `WritePacket`). `docs/FT8_FT4_SCOPE.md` line 107 says
  that halt cancels "queued network work", and the comment at `audio/digitaltxguard.h`
  lines 14-15 that closing a generation "immediately denies" socket delivery: of
  this one packet that is not so. `HaltRefuses` says that every other is refused.
* `finishSstvTransmission` shows "TX complete" while the stop is still queued, so
  an image is complete before the radio was told to receive (`mainwindow.cpp` 8738).
* `goIdle` and `stop` of the keyer wipe atomics stored since the loads or the post
  that led to them: a tap at the element boundary is never played, and a paddle
  pressed on one device while the other disconnects counts as up until its next
  edge (`iambickeyer.cpp` 131, 137).
* On Android a device that is lost with its paddle down is opened again with the
  contact still confirmed, and the first press is taken for a bounce
  (`halikeydevice.cpp` 118, 149).
* In the RtMidi build an edge queued before `closePort` is handled after it and
  leaves an input held by a closed device (`halikeydevice.cpp` 361).

* `sent` halts a station at its last try, and a halted one takes no decodes: the answer
  to the last try is not heard (`ft8session.cpp` 71, 129). `CleanAirCompletes` is stated
  of stations with tries to spare.
* A station that completed by RR73 and then calls CQ, answering the first caller,
  selects its former partner from that one's closing 73 (`ft8session.cpp` 76-81) and calls
  it again; `ReportsExchanged` holds of what comes of it.
* A CAT client's `RX;` clears the PTT latch of the operator's button and sends nothing
  to the K4 (`mainwindow.cpp` 2793-2815): until the K4's TX report is handled, nothing
  tells `Ft8RadioMode` that the radio transmits. `SetsOffAir` is stated of the button,
  MIDI PTT and digital overs; CAT clients' TX and RX and the XMIT key are not modelled.
* If the FT8 screen is closed and opened again before the restored mode is reported,
  DATA-A itself is taken for the mode of entry, and the operator's is lost
  (`ft8radiomode.h` 19-21). `RestoresEntry` speaks of entries with nothing in flight.

## 5. Proofs

`DigitalTxGuardProofs`, for every value of the constants that satisfies
`GuardAssumption` (thresholds positive, the calibration's first gain within
range):

* `NoUnguardedTransmission`: `Spec => []FailClosed`. `FailClosed` is inductive as
  it stands: a generation is opened only in `Begin`, together with the guard;
  every trip and stop closes `myGeneration`, which by the invariant is the open
  one (`StopCloses`); everything else leaves the gate or closes it. `MeterFailClosed`
  takes the branches of a reading, `FailClosedStep` the actions.
* `TypeCorrect`: `Spec => []TypeOK`. The work is in the ages: each stays between
  `NoTime` and its cap (`AgesReset`, `MeterAges`, `ReadingAges`, `AgesPass`), which
  needs each cap to be a natural number (`CapType`), and in the gain, which a
  calibration raises only below its ceiling (`MeterType`).
* `TransmissionDriveOnlyFalls`: `Spec => DriveNeverRises`, from the type invariant:
  the stage gain changes only in `StartEncoding` (another generation) and
  `EncodeFrame` (the smaller of two).

* `GuardImplementsGate`: `Spec => GateSpec`, every step of the guard and its
  callers is a step of `TxGate` or leaves the gate alone (`StepIsGate`, with
  `MeterIsGate` for the branches of a reading). It needs `FailClosed`, so that
  what a trip closes is what is open, and the type of `inbox`: only a begin
  carries a generation.

* `FaultsAreItsOwn`: `Spec => FaultsStayInTheirGeneration`. The guard stops as
  cancelled or for headroom because it finds its generation closed or faulty, and
  the invariant `ClosedAreKnown` says that whatever is no longer open, or carries a
  fault, was closed by the UI or faulted by the encoder, which the history has
  (`WhyItEnds` lists the reasons for a stop).
* `CalibrationNeedsEvidence` (`CalibratedOnEvidence`) and `HighIsSustained`
  (`HighOnlyWhenSustained`). The code keeps time stamps, the properties speak of the
  readings themselves: `StampsAreEvident` says that no age the guard judges by is
  larger than the time since the last reading to the contrary.

`DigitalTxLinkProofs`, for any number of transmissions, frames and losses
(`LinkAssumption`): `Types` (`TypeOK`), `AudioStaysInItsOver` (`AudioInItsOwnOver`),
`HaltIsFinal` (`HaltRefuses`), `HaltedIsShut` (`HaltedStaysShut`), `StopIsFinal`
(`StopWins`) and `LinkImplementsGate` (`GateSpec`). All rest on one invariant, `IInv`, since none of them is inductive: what
is wrong later is on its way now. Its parts: generations are counted
(`Counted`, with queued packets within their frames, `FramesLeft`); the gate is open
only with the guard of the same generation, which a begin arms first (`GateIsGuarded`);
a packet past the tick is still the first call and of the gate's generation, unless
closed (`Handled`); a generation belongs
to one mode, so that an FT stop is never that of an image (`OwnGenerations`); an SSTV transmission
waits to be keyed in one place only, and before any sound of it exists (`KeyedOnce`,
`PreparesLast`); no begin is queued behind the stop of its transmission, and none is left of one
whose stop was taken (`StopsAreFinal`); and a halted transmission that may yet be opened, or is open for good, has its stop
queued, ahead of all its packets (`HaltsAreFinal`). Open for good (`Confirmed`) leaves
out an FT over whose slot is still to be read again: that one may be open after its
halt, and `ConfirmSlot` then shuts it; `HaltedIsShut` follows. `HaltIsFinal` is about
the last check only: what passed it is not denied any more (section 4). There is a
lemma per action and part; TLC checked `IInv`, `InOrder` and `WillEnd` on the instance
of `link` first (1.1 million states).

Two more properties need more than that, and each invariant is proved relative to those
before it:

* `OrderInductive` (`Spec => []InOrder`) says where an over can be. An FT over is
  scheduled, with the transmitter, or reported as ended, never in two of these
  (`OneOver`, `FtKeyedOnce`), and no image is prepared in between (`PreparesFirst`,
  `OwnFt`); the guard is begun and watches only while connected (`OnlyConnected`); and of the open
  transmission every frame below the next one was heard or is queued, each behind its
  predecessors (`ImageStarts`, `FramesFollow`), also the one about to be written after
  its transmission was closed (`WriteFollows`). So when the I/O thread finds the queue
  drained each frame was written, and whatever says so afterwards, a drain poll, a call
  or a flag, speaks of a transmission that was heard whole (`DoneHeard`):
  `CompleteIsHeard` (`CompletedWasHeard`).
* `EndsInductive` (`Spec => []WillEnd`) says what ends each phase. A guard that watches
  belongs to a transmission the UI still has, or its stop is queued; a begin on its way
  likewise has its stop behind it (`SstvUnkeyed`, `FtUnkeyed`); an image that is prepared or
  about to be is still the UI's, or its end is queued behind (`ImageEnds`), unless it was
  refused, and then nothing of it was handed on (`Refusals`); and no frame is on its way
  that the encoder has not made (`ImageOrder`). With the queues empty and the UI free none
  of these is left: `NothingStays` (`NothingLeftBehind`).

`TxCalibrationProofs`, for any number of calibrations, losses and presses of TEST
(`CalibrationAssumption`): `Types` (`TypeOK`), `TonesStayInTest` (`KeyedInTest`),
`TestIsRestored` (`RestoresTest`) and `NothingIsLeft` (`NothingLeftBehind`). The
invariant speaks of the commands on their way to the K4: each change of TEST is
followed by its query (`ChangesAreQueried`), and reading them from front to back the K4 is in
TEST at each TX and until the RX after it (`WillKeyInTest`); of the answers: unless
the calibration is excused, those on their way and those to come are its own
(`AnswersAreOwn`); and of the three threads: one calibration at a time, prepared once,
guarded while it runs, with a stop on its way to a tone that nobody waits for
(`OneCalibration`, `OnePreparation`, `GuardedWhileRunning`, `ToneWillEnd`).

`TcpConnectionProofs`, for every set of radios, any of them `.local` or encrypted,
and every number of taps (`ConnectionAssumption`):

* `Inductive`: `Spec => []IInv`. The properties alone are not inductive. `IInv`
  adds that `authAnswered` implies the socket no longer connects or shakes hands,
  so that no late `connected` or `encrypted` leads back to Authenticating with the
  answer already counted; `Shape` states this over the values a slot leaves, so
  that each operator the slots are made of has one lemma (`CloseShape`,
  `AttemptShape`, `ReachedShape`, `EndShape`), and the steps cite those.
* `ConnectionTypes` (`TypeOK`), `WaitingIsTimed` (`TimersMatch`),
  `ConnectedHasAnswered` (`ConnectedIsLive`) follow from it.
* `UiShowsTheState` (`UiAgrees`): the UI writes its copy ahead of the answer and hears of
  changes late, so the invariant `UiFollows` is about the queues: the last change on its
  way leads to the state there is now; if none is, the UI shows that state or has a
  request on its way that will announce another.
* `ConnectedAsAddressed` (`AddressedAsAsked`): as long as no radio was asked for by name, the
  last request, queued or taken, is for the radio asked for last, and a socket that may
  still connect and was not told to close has the peer of the request taken last
  (`Addressed`). A lookup would break exactly this: finding 2.

`PaddleProofs`, of `IambicKeyer`, for every set of devices and any number of presses,
clears and settings: `KeyerTypes` (`TypeOK`), `ElementsEnd` (`ElementEnds`) and `NoEdgeIsLost`
(`DownPaddleKeys`). The invariant says where knowledge of a paddle that is down
can be while the keyer thread is between loads: it was seen, is yet to be
loaded, or a call that looks again is on its way (`DownIsSeen`); for the last it
needs that each store of a press is followed by its post in what is left of the
UI handler (`Tells`, with a lemma for each way such a list is made).
`NoElementFromNowhere` (`ElementsAreDue`) needs the converse, `DueInv`: whatever asks
for an element (an atomic, what the handler saw, the squeeze) is of a paddle that was
down since its last element. It holds because a press stores the paddle before the latch
(`Paired`) and clears, which may fall between these two stores, take both or leave
nothing else that asks (`ClearsLeft`).

`PaddleProofs`, of `MidiDevices`, for every set of sources, either build and any bounds
(`DevicesAssumption`): `DeviceTypes` (`DevicesTypeOK`); `HeldOnlyWhileConnected`
(`InputsNeedDevice`), from the invariant that a link being opened is not known as
open; and `DevicesUseAggregator`, that `MidiDevices` implements
`InputAggregator`. Each step lemma shows both that the invariant is kept and that
the aggregator is used as specified (`Kept`). `HeldInTheModeOfNow`
(`InputsMatchMode`): the change of mode closes a connected paddle, and by the
invariant one that is not connected holds nothing.

`QrzUploadProofs`, for any set of callsigns and any number of contacts, sends, edits,
changes of Setup, faults and restarts (`QrzAssumption`): `TypeCorrect` (`TypeOK`),
`NeverResent` (`PostedWhenAsked`), `SentWasInserted` (`CheckedWasInserted`) and
`SentIsLocked` (`CheckedIsLocked`). The invariant counts, for each contact, the places
where a sending that was asked for may be: in the queue, in a record that waits to be
queued, or used by a post; and says of the request that is waited for what QRZ can have
made of it, so that a positive answer comes only after an insertion of the content the
record still has. The record cannot be edited meanwhile because it is `SENDING`.

`Ft8RadioModeProofs`, for any modes and any number of openings, bands, overs, PTT taps
and losses (`ModeAssumption`): `ModeTypes` (`TypeOK`), `NeverSetsOnAir` (`SetsOffAir`)
and `ModeComesBack` (`RestoresEntry`). What is decided is old when it arrives, so the
invariant speaks of what a queue leads to once it has been served: `Off` (the K4
receives after the first n commands), `Lands` (it is in a given mode after all) and
`Tells` (the reading is that of the K4 after all reports). Every mode command on its way
will find the K4 receiving; when the app has keyed nothing, the K4 will receive once it
has obeyed; a loss takes the commands and the over with it; the reports on their way lead
to the K4's setting; and the mode of a known entry is kept by the session until it is the
last thing on its way back. One lemma says of each operator how it survives a command or
report put behind the queue and one taken from its head.

`Ft8ContactProofs`, for any set of stations and of reports, any number of retries,
operator's actions and faults on the air: `ContactInductive` (`Spec => []IInv`),
`ContactTypes` (`TypeOK`), `CompleteIsContact` (`ReportsExchanged`) and `CompleteStays`
(`SettledStays`). A station knows of the other only what it decoded, perhaps late, so the
invariant says what each session and each message rests on, in terms of two histories: the
reports that went out (`aired`) and those that were taken from whom (`copied`).

* A report on its way, shown, kept or held went out before; what was taken went out
  (`Recorded`, `Sound`).
* A message says only what its sender may say: `R-report`, `RRR`, `RR73` and `73` go
  only to one whose report was taken (`WellFormed`). Both histories only grow, so this stays
  true of messages that are still to be decoded (`Grows`).
* A session that is about to close, has closed or is complete has sent its report, has
  the other's, and the other has taken one of its own (`Justified`, `Exchanged`), because
  the message that let it go so far was well formed.
* A station that has dropped no contact has sent one report to one station (`OneContact`):
  that is why the report taken is the one the log will name.

What the operator declares by hand (`manual`) is outside it. There is a lemma for each
operator of `Ft8Session` (`ReceiveIs`, `SentIs`, `SelectedIs`, `ArmedIs`, ...), and the
steps cite those. `finishLiveTransmit` hands on the replies kept during the over one by
one; `ReceiveAll` is a recursive function of the number handed on, and
`ReceiveAllKeeps` proves of a set of sessions closed under `Receive` that it holds the
result, however many were kept. The induction is on a least counterexample (`Least`,
`Upward`), since the library's induction theorems cannot be instantiated here.
TLC checked `IInv` on 247 000 states first.

Type invariants are proved, not run. `TimersMatch`, `ElementEnds`,
`InputsNeedDevice` and `UsesAggregator` are proved and no longer run.

Only model-checked: all liveness (`SilenceStops`, `ComesToRest`, `Settles`,
`FallsSilent`, `DownPaddleGetsElement`, `BrokenContactReleases`, `CleanAirCompletes`,
`StopsCalling`, `ReturnsToDataA`, `UploadsEnd`: it rests on fairness, out of the
prover's reach), and the three properties that the code violates. Every invariant and
every action property of a passing run is proved, and so are the refinements of `TxGate`
(`GateSpec`, twice) and of `InputAggregator` (`UsesAggregator`).

## 6. Plan

1. `DigitalTxGuard`, `TxGate`, `DigitalTxLink`, `TxCalibration` and the first
   proofs (done).
2. `TcpConnection` and its invariant (done).
3. `InputAggregator`, `IambicKeyer`, `MidiDevices` and their theorems (done).
4. `Ft8Session`, `Ft8Contact`, `Ft8RadioMode`, `QrzUpload` and the theorems about it
   (done).
5. Proofs of `DigitalTxLink`, `TxCalibration`, and of the properties of the other
   modules that had none (done).
6. Proofs of `NothingLeftBehind` and `CompletedWasHeard` of `DigitalTxLink`, and of
   `Ft8Contact` (done).
7. `Ft8Receiver` (generation and backlog of a capture), `Protocol` (framing), the
   jitter buffer, if their hazards should justify it.

Abstract specifications worth stating besides `TxGate` and `InputAggregator`: a
connection (asked for, established, gone), and a digital over (asked for, on the air,
ended well or badly), which `Ft8Contact` and `Ft8RadioMode` now only assume.

## 7. Not modelled, and why

Samples, waveforms, codecs, spectra, layout and wording: data that no property
here tells apart. Vendored code (`third_party`, `ft8_lib`, Opus) and platform
code (`android`, `ios`) but for the MIDI session. `RadioState` is a table of answers; what other
components read from it is an input of their modules. The framing of `Protocol`, the
jitter buffer, the capture of `Ft8Receiver` and the CAT server's lines are sequential
code over bytes, samples or text. Of transmit arbitration the parts are in several
modules: `MainWindow` refuses voice PTT while a digital over exists (`Press`). The TX;
and RX; of CAT clients, which `CatServer` does not forward but turns into the microphone
gate (`catserver.cpp` 346-355, `mainwindow.cpp` 2793-2815), the XMIT key (3966-3977) and
the confirmation timer of the iOS button (7308-7323) are not modelled. The widgets (`ui/`,
most of `mainwindow.cpp`) and `SstvDecoder` are by far most of the lines that no
definition maps. Sockets, Qt's event loop
and the K4 itself are external: modelled only by what the code relies on (order,
loss, silence, refusal). The status of each component, with a note, is in
`PROJECT.json`.

----------------------------- MODULE MidiDevices -----------------------------
(***************************************************************************)
(* The MIDI connections that feed the keyer: HalikeyDevice (the CW paddle, *)
(* debounced) and Ctr2MidiDevice (direct).  Both live on the UI thread.    *)
(*                                                                         *)
(* On Android a Java session owns the link and queues the edges; the UI    *)
(* thread learns of both by polling.  In the RtMidi builds (iOS, desktop)  *)
(* edges are calls queued from another thread, which nobody takes back, a  *)
(* lost device is not reported, and opening is taken to succeed.           *)
(*                                                                         *)
(* Every contact is mapped, the CW paddle to the straight key in the       *)
(* straight keying mode, and the router runs the aggregator at once.       *)
(* What the keyer makes of the inputs is IambicKeyer.                      *)
(***************************************************************************)
EXTENDS Naturals, Sequences

CONSTANTS
    Devices,        \* the aggregator's sources
    Debounced,      \* those behind HalikeyDevice
    Contacts,       \* the contacts of a paddle, of "left" and "right"
    MaxEdges,       \* bound: contacts made or broken
    MaxOpens,       \* bound: connections asked for
    MaxLosses,      \* bound: devices that go away
    MaxModes        \* bound: changes of the keying mode

ASSUME DevicesAssumption ==
    /\ Debounced \subseteq Devices
    /\ \A s, t \in Debounced : s = t
    /\ Contacts \subseteq {"left", "right"}
    /\ {MaxEdges, MaxOpens, MaxLosses, MaxModes} \subseteq Nat

VARIABLES
    held,       \* UI: the aggregator's m_sources
    contact,    \* the contacts that are made
    link,       \* the Java session, or the RtMidi port
    pending,    \* the links whose opening is not over
    known,      \* UI: what the device object knows of it
    events,     \* edges on their way to the UI thread
    raw,        \* UI: m_rawDitState, m_rawDahState
    confirmed,  \* UI: m_confirmedDitState, m_confirmedDahState
    debouncing, \* UI: the debounce timers that run
    straight,   \* UI: cwMidiKeyingMode is the straight key
    rtmidi,     \* the build: RtMidi, or Android
    used        \* bound

paddle == <<raw, confirmed, debouncing>>
setup == <<straight, rtmidi>>
deviceVars == <<held, contact, link, pending, known, events, paddle, setup, used>>

Inputs == {"dit", "dah", "key"}
Links == {"closed", "opening", "open", "failed"}
Held == INSTANCE InputAggregator WITH Sources <- Devices, inputs <- held

Use(what, bound) ==
    /\ used[what] < bound
    /\ used' = [used EXCEPT ![what] = @ + 1]

Edge(c, pressed) == [on |-> c, pressed |-> pressed]
PortOpened == [on |-> "port", pressed |-> TRUE]
Edges == [on : Contacts, pressed : BOOLEAN] \cup {PortOpened}

(***************************************************************************)
(* The paddle and its link.                                                *)
(***************************************************************************)
(* A contact opens or closes; the link, if there is one, queues the edge.  *)
Touch(s, c) ==
    /\ Use("edges", MaxEdges)
    /\ contact' = [contact EXCEPT ![s] = (@ \ {c}) \cup ({c} \ @)]
    /\ events' = IF link[s] = "open"
                 THEN [events EXCEPT ![s] = Append(@, Edge(c, c \notin contact[s]))]
                 ELSE events
    /\ UNCHANGED <<held, link, pending, known, paddle, setup>>

(* finishOpen, whatever became of the link meanwhile; the start of the     *)
(* MIDI worker.                                                            *)
LinkOpens(s) ==
    /\ s \in pending
    /\ pending' = pending \ {s}
    /\ link' = [link EXCEPT ![s] = "open"]
    /\ events' = IF rtmidi THEN [events EXCEPT ![s] = Append(@, PortOpened)] ELSE events
    /\ UNCHANGED <<held, contact, known, paddle, setup, used>>

(* finishOpen and the discovery that precedes it, failing.                 *)
LinkFails(s) ==
    /\ ~rtmidi /\ s \in pending
    /\ pending' = pending \ {s}
    /\ link' = [link EXCEPT ![s] = "failed"]
    /\ UNCHANGED <<held, contact, known, events, paddle, setup, used>>

(* onDeviceRemoved *)
LinkLost(s) ==
    /\ ~rtmidi /\ link[s] = "open"
    /\ Use("losses", MaxLosses)
    /\ link' = [link EXCEPT ![s] = "failed"]
    /\ events' = [events EXCEPT ![s] = <<>>]
    /\ UNCHANGED <<held, contact, pending, known, paddle, setup>>

(***************************************************************************)
(* Connecting and disconnecting, on the UI thread.                         *)
(***************************************************************************)
(* openPort, offered while the device is not known to be connected.  On    *)
(* Android it resets nothing of the paddle; Ctr2MidiDevice opens an RtMidi *)
(* port before it returns.                                                 *)
OpenPort(s) ==
    /\ known[s] # "open"
    /\ rtmidi => known[s] # "opening"
    /\ Use("opens", MaxOpens)
    /\ IF rtmidi /\ s \notin Debounced
       THEN /\ link' = [link EXCEPT ![s] = "open"]
            /\ known' = [known EXCEPT ![s] = "open"]
            /\ UNCHANGED pending
       ELSE /\ link' = [link EXCEPT ![s] = "opening"]
            /\ known' = [known EXCEPT ![s] = "opening"]
            /\ pending' = pending \cup {s}
    /\ events' = IF rtmidi THEN events ELSE [events EXCEPT ![s] = <<>>]
    /\ IF rtmidi /\ s \in Debounced
       THEN raw' = {} /\ confirmed' = {}
       ELSE UNCHANGED <<raw, confirmed>>
    /\ UNCHANGED <<held, contact, debouncing, setup>>

(* AndroidBleMidi.connect turns the request down, whatever it did before.  *)
OpenRefused(s) ==
    /\ ~rtmidi /\ known[s] # "open"
    /\ Use("opens", MaxOpens)
    /\ link' = [link EXCEPT ![s] = "failed"]
    /\ UNCHANGED <<held, contact, pending, known, events, paddle, setup>>

(* closePort of a connected device; its disconnected signal clears the     *)
(* source.                                                                 *)
Closes(s) ==
    /\ link' = [link EXCEPT ![s] = "closed"] /\ pending' = pending \ {s}
    /\ known' = [known EXCEPT ![s] = "closed"]
    /\ events' = IF rtmidi THEN events ELSE [events EXCEPT ![s] = <<>>]
    /\ IF s \in Debounced
       THEN /\ raw' = {} /\ confirmed' = {}
            /\ debouncing' = IF rtmidi THEN {} ELSE debouncing
       ELSE UNCHANGED paddle

ClosePort(s) ==
    /\ known[s] = "open"
    /\ Closes(s)
    /\ Held!ClearSource(s)
    /\ UNCHANGED <<contact, setup, used>>

(* Mutation of KeyingModeChanged: the port stays open.                     *)
KeyingModeChangedOpen(s) ==
    /\ s \in Debounced
    /\ Use("modes", MaxModes)
    /\ straight' = ~straight /\ UNCHANGED rtmidi
    /\ UNCHANGED <<held, contact, link, pending, known, events, paddle>>
(* The keying mode button: a connected device is closed first.             *)
KeyingModeChanged(s) ==
    /\ s \in Debounced
    /\ Use("modes", MaxModes)
    /\ straight' = ~straight /\ UNCHANGED rtmidi
    /\ IF known[s] = "open"
       THEN Closes(s) /\ Held!ClearSource(s)
       ELSE UNCHANGED <<held, link, pending, known, events, paddle>>
    /\ UNCHANGED contact

(* The connection poll timer, Android.                                     *)
ConnectionPoll(s) ==
    /\ ~rtmidi /\ known[s] # link[s]
    /\ known' = [known EXCEPT ![s] = link[s]]
    /\ IF known[s] = "open" /\ link[s] \in {"failed", "closed"}
       THEN Held!ClearSource(s) ELSE UNCHANGED held
    /\ UNCHANGED <<contact, link, pending, events, paddle, setup, used>>

(***************************************************************************)
(* Edges, on the UI thread.                                                *)
(***************************************************************************)
InputOf(c) == IF c = "left" THEN "dit" ELSE "dah"

(* emitMappedPaddle; the left contact is the straight key.                 *)
EmitPaddle(s, c, pressed) ==
    IF ~straight THEN Held!SetInput(s, InputOf(c), pressed)
    ELSE IF c = "left" THEN Held!SetInput(s, "key", pressed)
    ELSE UNCHANGED held

(* Mutation of OnRaw: a release is confirmed by the next edge only.        *)
OnRawUntimed(s, c, pressed) ==
    /\ raw' = IF pressed THEN raw \cup {c} ELSE raw \ {c}
    /\ IF pressed /\ c \notin confirmed
       THEN /\ confirmed' = confirmed \cup {c}
            /\ debouncing' = debouncing \ {c}
            /\ EmitPaddle(s, c, TRUE)
       ELSE UNCHANGED <<held, confirmed, debouncing>>
(* onRawDit, onRawDah *)
OnRaw(s, c, pressed) ==
    /\ raw' = IF pressed THEN raw \cup {c} ELSE raw \ {c}
    /\ IF pressed /\ c \notin confirmed
       THEN /\ confirmed' = confirmed \cup {c}
            /\ debouncing' = debouncing \ {c}
            /\ EmitPaddle(s, c, TRUE)
       ELSE /\ debouncing' = debouncing \cup {c}
            /\ UNCHANGED <<held, confirmed>>

(* An edge is polled while the device is known to be connected, or a       *)
(* queued call runs whatever the device is.                                *)
EdgeArrives(s) ==
    /\ events[s] # <<>>
    /\ ~rtmidi => known[s] = "open"
    /\ events' = [events EXCEPT ![s] = Tail(@)]
    /\ LET edge == Head(events[s]) IN
         IF edge = PortOpened
         THEN known' = [known EXCEPT ![s] = "open"] /\ UNCHANGED <<held, paddle>>
         ELSE /\ IF s \in Debounced
                 THEN OnRaw(s, edge.on, edge.pressed)
                 ELSE Held!SetInput(s, InputOf(edge.on), edge.pressed) /\ UNCHANGED paddle
              /\ UNCHANGED known
    /\ UNCHANGED <<contact, link, pending, setup, used>>

(* The debounce timer of a contact.                                        *)
DebounceFires(s, c) ==
    /\ s \in Debounced /\ c \in debouncing
    /\ debouncing' = debouncing \ {c}
    /\ IF (c \in raw) # (c \in confirmed)
       THEN /\ confirmed' = (confirmed \ {c}) \cup (raw \cap {c})
            /\ EmitPaddle(s, c, c \in raw)
       ELSE UNCHANGED <<held, confirmed>>
    /\ UNCHANGED <<contact, link, pending, known, events, raw, setup, used>>

(* loadCtr2Mapping: a new mapping releases what the source holds.          *)
MappingChanged(s) ==
    /\ s \notin Debounced /\ held[s] # {}
    /\ Held!ClearSource(s)
    /\ UNCHANGED <<contact, link, pending, known, events, paddle, setup, used>>

DevicesInit ==
    /\ Held!Init
    /\ contact = [s \in Devices |-> {}]
    /\ link = [s \in Devices |-> "closed"] /\ known = link /\ pending = {}
    /\ events = [s \in Devices |-> <<>>]
    /\ raw = {} /\ confirmed = {} /\ debouncing = {}
    /\ straight = FALSE /\ rtmidi \in BOOLEAN
    /\ used = [what \in {"edges", "opens", "losses", "modes"} |-> 0]

Step(s) ==
    \/ \E c \in Contacts : Touch(s, c) \/ DebounceFires(s, c)
    \/ LinkOpens(s) \/ LinkFails(s) \/ LinkLost(s)
    \/ OpenPort(s) \/ OpenRefused(s) \/ ClosePort(s) \/ KeyingModeChanged(s)
    \/ ConnectionPoll(s) \/ EdgeArrives(s) \/ MappingChanged(s)

DevicesNext == \E s \in Devices : Step(s)
DevicesSpec == DevicesInit /\ [][DevicesNext]_deviceVars

(* The poll and debounce timers fire, and queued calls run.                *)
LiveDevicesSpec ==
    DevicesSpec /\ \A s \in Devices :
        /\ WF_deviceVars(ConnectionPoll(s)) /\ WF_deviceVars(EdgeArrives(s))
        /\ \A c \in Contacts : WF_deviceVars(DebounceFires(s, c))

(***************************************************************************)
(* Properties.                                                             *)
(***************************************************************************)
(* Types; what is pressed was passed on as pressed.                        *)
DevicesTypeOK ==
    /\ held \in [Devices -> SUBSET Inputs]
    /\ contact \in [Devices -> SUBSET Contacts]
    /\ link \in [Devices -> Links] /\ known \in [Devices -> Links]
    /\ pending \subseteq Devices
    /\ events \in [Devices -> Seq(Edges)]
    /\ raw \subseteq confirmed /\ confirmed \subseteq Contacts
    /\ debouncing \subseteq Contacts
    /\ straight \in BOOLEAN /\ rtmidi \in BOOLEAN

(* The devices use the aggregator as its specification says: every change  *)
(* is one input of one source, or the release of one source.               *)
UsesAggregator == Held!Spec

(* On Android a source holds inputs only while its device is connected, so *)
(* that no paddle stays down when a device went or the keying mode         *)
(* changed.  An RtMidi edge may be handled after its port was closed.      *)
InputsNeedDevice ==
    ~rtmidi => \A s \in Devices : held[s] # {} => known[s] = "open"

(* On Android what a source holds was asked for in the keying mode of now. *)
InputsMatchMode ==
    ~rtmidi => \A s \in Debounced : IF straight THEN held[s] \subseteq {"key"}
                                                ELSE "key" \notin held[s]

(* On Android a contact that is broken for good releases its input, bounce *)
(* or not, and whether or not the device went meanwhile.                   *)
BrokenContactReleases ==
    \A s \in Devices :
        ~rtmidi /\ contact[s] = {} ~> (held[s] = {} \/ contact[s] # {})
=============================================================================

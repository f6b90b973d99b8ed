------------------------------ MODULE Ft8Contact ------------------------------
(***************************************************************************)
(* Stations that each run Ft8Screen around an Ft8Session, and the air      *)
(* between them.  A station sends in the slots of its parity and hears     *)
(* nothing in a slot it sends in.  An over may go unheard, and one that    *)
(* was heard may be decoded twice, by the early and by the final pass.     *)
(*                                                                         *)
(* Between the request for an over and its end (m_livePending) the screen  *)
(* keeps the decodes for later; the operator may still halt or clear.      *)
(* What carries the over is DigitalTxLink: here it ends well or badly.     *)
(***************************************************************************)
EXTENDS Ft8Session, Sequences, FiniteSetsExt

CONSTANTS
    Usual,      \* the strength stations have at each other
    Opener,     \* the station whose operator taps first
    MaxTaps,    \* bound: the operators' taps
    MaxUpsets   \* bound: faults of the air and taps after each operator's
                \* first call, together
ASSUME BoundsAssumption ==
    /\ Usual \in Reports
    /\ Opener \in Stations
    /\ {MaxTaps, MaxUpsets} \subseteq Nat

VARIABLES
    session,    \* m_session
    live,       \* the over asked for: m_livePending, m_liveMessage
    replies,    \* m_liveReplies
    keyed,      \* stations whose m_lastTxSlot is this slot
    rows,       \* m_recent: the last decode of each station
    inbox,      \* decodes on their way from the receiver thread
    slot,       \* the UTC slot, modulo 2
    taps,       \* bound
    upsets,     \* bound
    called,     \* bound: stations whose operator has called
    aired,      \* history: every report that went out in full
    copied,     \* history: <<s, t, r>>, s took report r from t
    manual,     \* history: stations whose operator chose a message
    restarted   \* history: stations whose operator dropped a contact

history == <<aired, copied, manual, restarted>>
screen == <<live, replies, keyed>>
bounds == <<taps, upsets, called>>
vars == <<session, screen, rows, inbox, slot, bounds, history>>

Phases == {"idle", "keying", "sent"}
Idle == [phase |-> "idle", msg |-> NoMessage, slot |-> 0]
NoDecode == [msg |-> NoMessage, slot |-> 0, snr |-> None, again |-> FALSE]

Pending(s) == live[s].phase # "idle"

(***************************************************************************)
(* TypeOK                                                                  *)
(***************************************************************************)
\* The stations' screens, the air and the histories stay within their types.
TypeOK ==
    /\ session \in [Stations -> Sessions]
    /\ live \in [Stations -> [phase : Phases, msg : Messages, slot : Slots]]
    /\ replies \in [Stations -> Seq(Decodes)]
    /\ inbox \in [Stations -> Seq(Decodes)]
    /\ rows \in [Stations -> [Stations -> Decodes]]
    /\ {keyed, called, manual, restarted} \subseteq SUBSET Stations
    /\ slot \in Slots
    /\ taps \in 0 .. MaxTaps
    /\ upsets \in 0 .. MaxUpsets
    /\ aired \subseteq Messages
    /\ copied \subseteq Stations \X Stations \X Reports

Init ==
    /\ session = [s \in Stations |-> NewSession]
    /\ live = [s \in Stations |-> Idle]
    /\ replies = [s \in Stations |-> <<>>]
    /\ inbox = [s \in Stations |-> <<>>]
    /\ rows = [s \in Stations |-> [t \in Stations |-> NoDecode]]
    /\ slot = 0
    /\ taps = 0
    /\ upsets = 0
    /\ called = {}
    /\ aired = {}
    /\ copied = {}
    /\ keyed = {}
    /\ manual = {}
    /\ restarted = {}

\* Puts a session in place and keeps the histories of it.
Becomes(s, q) ==
    /\ session' = [session EXCEPT ![s] = q]
    /\ copied' = copied \cup
         (IF q.received = None THEN {} ELSE {<<s, q.dx, q.received>>})

(***************************************************************************)
(* The operator                                                            *)
(***************************************************************************)
Upset(happens) ==
    /\ upsets' = upsets + (IF happens THEN 1 ELSE 0)
    /\ upsets' <= MaxUpsets

Tap(s) ==
    /\ taps < MaxTaps
    /\ taps' = taps + 1
    /\ taps = 0 => s = Opener
    /\ UNCHANGED <<live, replies, inbox, slot, aired>>

CallTap(s) ==
    /\ Tap(s)
    /\ Upset(s \in called)
    /\ called' = called \cup {s}

OtherTap(s) ==
    /\ Tap(s)
    /\ Upset(TRUE)
    /\ UNCHANGED called

Dropped(s) ==
    restarted' = IF session[s].dx = None THEN restarted ELSE restarted \cup {s}

\* startCall: q is what the tap left, and arming is what it may still refuse.
StartCall(s, q) ==
    /\ Becomes(s, Armed(q))
    /\ keyed' = IF CanArm(q) THEN keyed \ {s} ELSE keyed

\* A tap on a row, or two taps, which also call.
SelectStation(s, t, call) ==
    /\ CallTap(s)
    /\ ~Pending(s)
    /\ rows[s][t] # NoDecode
    /\ LET q == Selected(s, session[s], rows[s][t])
       IN  IF call THEN StartCall(s, q) ELSE Becomes(s, q) /\ UNCHANGED keyed
    /\ Dropped(s)
    /\ UNCHANGED <<rows, manual>>

Cq(s) ==
    /\ CallTap(s)
    /\ ~Pending(s)
    /\ StartCall(s, CallingCq(s, session[s]))
    /\ Dropped(s)
    /\ UNCHANGED <<rows, manual>>

Call(s) ==
    /\ CallTap(s)
    /\ ~Pending(s)
    /\ session[s].dx # None
    /\ ~session[s].complete
    /\ StartCall(s, session[s])
    /\ UNCHANGED <<rows, manual, restarted>>

\* The over that is pending is asked to stop; how it ends comes with Finish.
HaltTx(s) ==
    /\ OtherTap(s)
    /\ session[s].armed \/ Pending(s)
    /\ Becomes(s, Halted(session[s]))
    /\ UNCHANGED <<keyed, rows, manual, restarted>>

ClearQso(s) ==
    /\ OtherTap(s)
    /\ Becomes(s, Cleared(session[s]))
    /\ Dropped(s)
    /\ UNCHANGED <<keyed, rows, manual>>

\* A new frequency or mode, or the link to the radio lost or made.
RadioChanged(s) ==
    /\ OtherTap(s)
    /\ Becomes(s, Cleared(session[s]))
    /\ rows' = [rows EXCEPT ![s] = [t \in Stations |-> NoDecode]]
    /\ Dropped(s)
    /\ UNCHANGED <<keyed, manual>>

MessagesFor(s, q) ==
    {Message(None, s, "CQ", None)} \cup
    (IF q.dx = None THEN {}
     ELSE {Directed(s, q, k, None) : k \in {"grid", "RRR", "RR73", "73"}} \cup
          (IF q.sent = None THEN {}
           ELSE {Directed(s, q, k, q.sent) : k \in {"report", "Rreport"}}))

ChooseMessage(s, m) ==
    /\ OtherTap(s)
    /\ ~Pending(s)
    /\ session[s].next # NoMessage
    /\ Becomes(s, [session[s] EXCEPT !.next = m, !.retries = 0])
    /\ manual' = manual \cup {s}
    /\ UNCHANGED <<keyed, rows, restarted>>

ToggleAuto(s) ==
    /\ OtherTap(s)
    /\ Becomes(s, [session[s] EXCEPT !.auto = ~@])
    /\ UNCHANGED <<keyed, rows, manual, restarted>>

TogglePeriod(s) ==
    /\ OtherTap(s)
    /\ ~Pending(s)
    /\ Becomes(s, [session[s] EXCEPT !.even = ~@])
    /\ UNCHANGED <<keyed, rows, manual, restarted>>

Operator(s) ==
    \/ \E t \in Stations, call \in BOOLEAN : SelectStation(s, t, call)
    \/ Cq(s)
    \/ Call(s)
    \/ HaltTx(s)
    \/ ClearQso(s)
    \/ RadioChanged(s)
    \/ \E m \in MessagesFor(s, session[s]) : ChooseMessage(s, m)
    \/ ToggleAuto(s)
    \/ TogglePeriod(s)

(***************************************************************************)
(* The screen's timer and the transmission                                 *)
(***************************************************************************)
\* The session is armed, the slot is one of its own, and it has not keyed
\* in it.
Due(s) ==
    /\ session[s].armed
    /\ ~Pending(s)
    /\ session[s].even = (slot = 0)
    /\ s \notin keyed

Tick(s) ==
    /\ Due(s)
    /\ keyed' = keyed \cup {s}
    /\ live' = [live EXCEPT ![s] =
                  [phase |-> "keying", msg |-> session[s].next, slot |-> slot]]
    /\ UNCHANGED <<session, replies, rows, inbox, slot, bounds, history>>

\* What one station makes of an over: nothing, a decode, or two.
Passes(s) ==
    LET d(r, again) ==
            [msg |-> live[s].msg, slot |-> slot, snr |-> r, again |-> again]
        Snr == Reports \cup {None}
    IN  {<<>>} \cup {<<d(r, FALSE)>> : r \in Snr} \cup
        {<<d(Usual, FALSE), d(r, TRUE)>> : r \in Snr}

\* The waveform is out.  The other stations decode it, or do not.
Air(s) ==
    /\ live[s].phase = "keying"
    /\ live' = [live EXCEPT ![s].phase = "sent"]
    /\ aired' = aired \cup (IF live[s].msg.report = None THEN {} ELSE {live[s].msg})
    /\ \E p \in [{t \in Stations \ {s} : ~Pending(t) /\ t \notin keyed} -> Passes(s)] :
         /\ Upset(\E t \in DOMAIN p :
                   Len(p[t]) # 1 \/ p[t][1].snr # Usual)
         /\ inbox' = [t \in Stations |->
                        IF t \in DOMAIN p THEN inbox[t] \o p[t] ELSE inbox[t]]
    /\ UNCHANGED <<session, replies, keyed, rows, slot, taps, called, copied, manual, restarted>>

\* What a session makes of the decodes kept for it, in the order they came.
ReceiveAll(s, q, kept) ==
    LET after[i \in 0 .. Len(kept)] ==
            IF i = 0 THEN q ELSE Receive(s, after[i - 1], kept[i])
    IN  after[Len(kept)]

\* finishLiveTransmit: only a success advances the session, and only if the
\* operator has neither halted it nor changed the message meanwhile.
Finish(s, success) ==
    LET q    == session[s]
        went == success /\ q.armed /\ q.next = live[s].msg
    IN  /\ Pending(s)
        /\ success => live[s].phase = "sent"
        /\ Upset(~success /\ q.armed)
        /\ live' = [live EXCEPT ![s] = Idle]
        /\ replies' = [replies EXCEPT ![s] = <<>>]
        /\ Becomes(s, IF went
                      THEN ReceiveAll(s, Sent(q), replies[s]) ELSE Halted(q))
        /\ UNCHANGED <<keyed, rows, inbox, slot, taps, called, aired, manual, restarted>>

\* addDecodes, for the decode at the head of the queue.
AddDecode(s) ==
    /\ inbox[s] # <<>>
    /\ LET d == Head(inbox[s])
       IN  /\ rows' = [rows EXCEPT ![s][d.msg.from] = [d EXCEPT !.again = FALSE]]
           /\ IF Pending(s)
              THEN /\ replies' = [replies EXCEPT ![s] = Append(@, d)]
                   /\ UNCHANGED <<session, copied>>
              ELSE /\ Becomes(s, Receive(s, session[s], d))
                   /\ UNCHANGED replies
    /\ inbox' = [inbox EXCEPT ![s] = Tail(@)]
    /\ UNCHANGED <<live, keyed, slot, bounds, aired, manual, restarted>>

\* A waveform ends in its slot, an over and the decodes of a slot are dealt
\* with in the next.  To miss a slot that was due is a fault, and so is an
\* over that ends, or a decode that comes, only in the next slot.
NextSlot ==
    /\ Upset(\E s \in Stations : Due(s) \/ Pending(s) \/ inbox[s] # <<>>)
    /\ \A s \in Stations :
         /\ live[s].phase # "keying"
         /\ Pending(s) => live[s].slot = slot
         /\ \A i \in DOMAIN inbox[s] : inbox[s][i].slot = slot
    /\ slot' = 1 - slot
    /\ keyed' = {}
    /\ UNCHANGED <<session, live, replies, rows, inbox, taps, called, history>>

Proceed ==
    \/ NextSlot
    \/ \E s \in Stations :
         \/ Tick(s)
         \/ Air(s)
         \/ \E success \in BOOLEAN : Finish(s, success)
         \/ AddDecode(s)

Next == Proceed \/ \E s \in Stations : Operator(s)

Spec == Init /\ [][Next]_vars

\* Time passes, the screen's timer runs, an over ends (DigitalTxLink) and
\* decodes are delivered: NextSlot waits for each of these.  Nothing is
\* assumed of the operator.
Fairness == WF_vars(Proceed)

FairSpec == Spec /\ Fairness

(***************************************************************************)
(* Properties                                                              *)
(***************************************************************************)
CarriesReport(m, from, to, r) ==
    m.from = from /\ m.to = to /\ m.report = r

\* A contact that Auto completed is a contact: both reports the log will name
\* did go out, and the partner took one from us.  It took the very one the
\* log will say was sent, if nobody started over.
\* Ft8Session::receive and sent; test_ft8.cpp:637.
ReportsExchanged ==
    \A s \in Stations :
        LET q == session[s]
        IN  q.complete /\ manual = {} =>
              /\ q.sent # None
              /\ q.received # None
              /\ \E m \in aired : CarriesReport(m, q.dx, s, q.received)
              /\ \E m \in aired : CarriesReport(m, s, q.dx, q.sent)
              /\ \E r \in Reports : <<q.dx, s, r>> \in copied
              /\ restarted = {} => <<q.dx, s, q.sent>> \in copied

\* Repeated and late decodes neither reopen a completed contact nor replace
\* a report that has been sent in it.  FT8_SNR_REFERENCE.md:53.
SettledStays ==
    [][\A s \in Stations :
         taps' = taps =>
           /\ session[s].complete =>
                session'[s] = [session[s] EXCEPT !.taken = session'[s].taken]
           /\ (\E m \in aired : CarriesReport(m, s, session[s].dx, session[s].sent))
                /\ session[s].sent # None =>
                session'[s].sent = session[s].sent]_vars

\* Left to itself a station stops transmitting, whatever it hears and
\* however often: the retries are counted from the last new message.
StopsCalling ==
    \A s \in Stations : session[s].armed ~> ~session[s].armed

\* Two stations that are calling each other, on alternate slots, left to Auto
\* and with tries to spare, finish: whatever was lost or repeated before, no
\* exchange goes round in circles or stalls with each waiting for the other.
Engaged(s) ==
    /\ session[s].armed
    /\ session[s].auto
    /\ session[s].retries + 3 <= MaxRetries
    /\ ~Pending(s)

Meet(p) ==
    /\ \A s \in p : Engaged(s) /\ session[s].dx \in p \ {s}
    /\ {session[s].even : s \in p} = BOOLEAN
    /\ manual = {}
    /\ taps = MaxTaps
    /\ upsets = MaxUpsets

CleanAirCompletes ==
    \A p \in kSubset(2, Stations) : Meet(p) ~> \E s \in p : session[s].complete

=============================================================================

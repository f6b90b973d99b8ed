---------------------------- MODULE Ft8RadioMode ----------------------------
(***************************************************************************)
(* The temporary DATA-A mode of the FT8/FT4 screen: class Ft8RadioMode as  *)
(* MainWindow drives it, with the transmissions that make it wait and the  *)
(* commands and reports that travel between the app and the K4.            *)
(*                                                                         *)
(* The UI thread calls update() when the screen opens or closes and every  *)
(* 100 ms.  What it reads is the RadioState of the last reports, as old as *)
(* the commands and reports that are still on their way.  Commands reach   *)
(* the K4 in the order they were sent: the UI's through the queue of the   *)
(* I/O thread, which itself writes the TX; and RX; of a digital over.      *)
(*                                                                         *)
(* Not here: SSTV and calibration, which are busy like an over; transmit   *)
(* by the K4's own paddle or panel, which the app hears of only later; the *)
(* XMIT key and the TX and RX of CAT clients, which set and clear the PTT  *)
(* latch without regard to what the button has keyed.                      *)
(***************************************************************************)
EXTENDS Integers, Sequences

CONSTANTS
    Modes,        \* operating modes of the K4
    DataModes,    \* those with a data submode (6 and 9)
    Data,         \* 6
    Subs, SubA,   \* data submodes; DATA-A's (0)
    None,         \* no value: mode 0, submode -1
    MaxOpens,     \* bound: times the screen is opened
    MaxEvents     \* bound: bands recalled, overs, PTT taps and losses, in all

ASSUME ModeAssumption ==
    /\ Data \in DataModes /\ DataModes \subseteq Modes /\ SubA \in Subs
    /\ None \notin Modes \union Subs
    /\ {MaxOpens, MaxEvents} \subseteq Nat

Settings == [mode : Modes, sub : Subs]
Readings == [mode : Modes \union {None}, sub : Subs \union {None}]
Unread == [mode |-> None, sub |-> None]
DataA == [mode |-> Data, sub |-> SubA]

VARIABLES
    session,    \* the Ft8RadioMode object: active, pending, original
    seen,       \* RadioState: mode and data submode last reported
    seenTx,     \* RadioState: transmitting
    ptt,        \* MainWindow: the voice PTT latch
    over,       \* the digital over: "none", "armed", "keyed" or "done"
    connected,  \* TcpClient: the connection is usable
    toRadio,    \* commands on their way to the K4
    toUi,       \* reports on their way to the UI thread
    radio,      \* K4: mode and data submode of the main VFO
    keyed,      \* K4: transmitting
    opens, events,  \* how often what is bounded has happened
    entry,      \* history: the setting the session took over from, if known
    pace        \* history: "moving" until DATA-A has settled, then "steady";
                \* "overlapped" once a mode is recalled while still moving

ui == <<session, seen, seenTx, ptt>>
link == <<connected, toRadio, toUi>>
k4 == <<radio, keyed>>
history == <<entry, pace>>
vars == <<session, seen, seenTx, ptt, over, connected, toRadio, toUi, radio,
          keyed, opens, events, entry, pace>>
used == <<opens, events>>

Idle == [active |-> FALSE, pending |-> FALSE, original |-> Unread]

Quiet == toRadio = <<>> /\ toUi = <<>>

Command(do) == [do |-> do, to |-> Unread]
SetMode(setting) == [do |-> "set", to |-> setting]

Init ==
    /\ session = Idle /\ seen = Unread /\ seenTx = FALSE /\ ptt = FALSE
    /\ over = "none"
    /\ connected = FALSE /\ toRadio = <<>> /\ toUi = <<>>
    /\ radio \in Settings /\ keyed = FALSE
    /\ opens = 0 /\ events = 0
    /\ entry = Unread /\ pace = "moving"

(***************************************************************************)
(* Ft8RadioMode                                                            *)
(***************************************************************************)

(* Mutation of Enter: entering again forgets the saved mode. *)
EnterAnew(s) == [s EXCEPT !.active = TRUE, !.original = Unread]
Enter(s) == [s EXCEPT !.active = TRUE]
Leave(s) == [s EXCEPT !.active = FALSE, !.pending = FALSE]
ConnectionLost(s) == [s EXCEPT !.original = Unread, !.pending = FALSE]

(* Mutation of Busy: only what the K4 reports counts. *)
BusyByReport == seenTx

(* MainWindow's condition for leaving the mode alone. *)
Busy == seenTx \/ ptt \/ over # "none"

(* A mode was reported, and the submode with it where there is one. *)
Readable ==
    /\ seen.mode # None
    /\ seen.mode \in DataModes => seen.sub # None

(* The first usable reading is the mode to restore, old as it may be. *)
TakeOver(s) ==
    /\ s.active /\ Readable /\ s.original = Unread
    /\ session' = [s EXCEPT !.original = seen, !.pending = TRUE]
    /\ toRadio' = Append(toRadio, SetMode(DataA))
    /\ entry' = CASE ~Quiet -> Unread
                  [] Quiet /\ entry = Unread -> radio
                  [] OTHER -> entry

(* Mutation of Rearm: the pending flag is kept. *)
RearmNever(s) ==
    /\ s.active /\ Readable /\ s.original # Unread
    /\ seen = DataA
    /\ session' = s
    /\ UNCHANGED <<toRadio, entry>>

(* DATA-A was read back: another mode will be answered again. *)
Rearm(s) ==
    /\ s.active /\ Readable /\ s.original # Unread
    /\ seen = DataA
    /\ session' = [s EXCEPT !.pending = FALSE]
    /\ UNCHANGED <<toRadio, entry>>

(* Another mode was read, a band's recalled one: select DATA-A again. *)
Reassert(s) ==
    /\ s.active /\ Readable /\ s.original # Unread
    /\ seen # DataA /\ ~s.pending
    /\ session' = [s EXCEPT !.pending = TRUE]
    /\ toRadio' = Append(toRadio, SetMode(DataA))
    /\ UNCHANGED entry

(* The screen is closed: give the mode back, once. *)
Restore(s) ==
    /\ ~s.active /\ s.original # Unread
    /\ toRadio' = Append(toRadio, SetMode(s.original))
    /\ session' = ConnectionLost(s)
    /\ UNCHANGED entry

Due(s) ==
    \/ s.active /\ Readable
       /\ (s.original # Unread => seen = DataA \/ ~s.pending)
    \/ ~s.active /\ s.original # Unread

Update(s) ==
    \/ /\ ~connected
       /\ session' = ConnectionLost(s)
       /\ UNCHANGED <<toRadio, entry>>
    \/ /\ connected /\ (Busy \/ ~Due(s))
       /\ session' = s
       /\ UNCHANGED <<toRadio, entry>>
    \/ /\ connected /\ ~Busy
       /\ TakeOver(s) \/ Rearm(s) \/ Reassert(s) \/ Restore(s)

(***************************************************************************)
(* UI thread                                                               *)
(***************************************************************************)

(* openFt8Screen(): refused while a transmission is known of. *)
Open ==
    /\ opens < MaxOpens /\ ~session.active
    /\ ~ptt /\ ~seenTx
    /\ Update(Enter(session))
    /\ opens' = opens + 1
    /\ UNCHANGED <<events, seen, seenTx, ptt, over, connected, toUi, k4,
                   pace>>

(* The screen is closed, or SSTV opened: suspend() revokes an over that is *)
(* not keyed yet, and has a keyed one stopped.                             *)
Close ==
    /\ session.active
    /\ over' = IF over = "armed" THEN "done" ELSE over
    /\ Update(Leave(session))
    /\ pace' = IF pace = "steady" THEN "moving" ELSE pace
    /\ UNCHANGED <<seen, seenTx, ptt, connected, toUi, k4, used>>

(* DATA-A was reported, nothing else is in flight, and the module sees it. *)
Settled ==
    /\ session.active /\ session.original # Unread
    /\ connected /\ ~Busy /\ Quiet /\ seen = DataA

(* The 100 ms timer. *)
Tick ==
    /\ Update(session)
    /\ pace' = IF pace = "moving" /\ Settled THEN "steady" ELSE pace
    /\ UNCHANGED <<seen, seenTx, ptt, over, connected, toUi, k4, used>>

(* A command of the operator or of a CAT client that changes the mode: a   *)
(* band selected from the screen or a MIDI control, or a mode itself.      *)
(* After the screen is left it is the operator's own choice.               *)
Recall ==
    /\ events < MaxEvents /\ connected
    /\ toRadio' = Append(toRadio, Command("recall"))
    /\ pace' = CASE ~session.active -> pace
                 [] session.active /\ pace = "steady" -> "moving"
                 [] OTHER -> "overlapped"
    /\ entry' = IF session.active THEN entry ELSE Unread
    /\ events' = events + 1
    /\ UNCHANGED <<opens, ui, over, connected, toUi, k4>>

(* startFt8Transmit(), once ft8TransmitReadiness() has no objection. *)
StartOver ==
    /\ events < MaxEvents /\ session.active
    /\ connected /\ ~Busy /\ seen = DataA
    /\ over' = "armed"
    /\ events' = events + 1
    /\ UNCHANGED <<opens, ui, link, k4, history>>

(* onPttPressed(), from the console or from tx_rx_toggle. *)
Press ==
    /\ events < MaxEvents /\ connected /\ ~ptt /\ over = "none"
    /\ ptt' = TRUE
    /\ toRadio' = Append(toRadio, Command("tx"))
    /\ events' = events + 1
    /\ UNCHANGED <<opens, session, seen, seenTx, over, connected, toUi, k4,
                   history>>

(* onPttReleased(), also what the toggle does while the K4 transmits. *)
Release ==
    /\ connected
    /\ \/ ptt /\ UNCHANGED events
       \/ ~ptt /\ seenTx /\ events < MaxEvents /\ events' = events + 1
    /\ ptt' = FALSE
    /\ over' = IF over = "armed" THEN "done" ELSE over
    /\ toRadio' = Append(toRadio, Command("rx"))
    /\ UNCHANGED <<session, seen, seenTx, connected, toUi, k4, opens, history>>

(* The transmitter's finished() arrives: the over is no longer counted. *)
Finish ==
    /\ over = "done"
    /\ over' = "none"
    /\ UNCHANGED <<ui, link, k4, used, history>>

(* A report is handled: RadioState, or the loss of the connection, which   *)
(* resets it, the latch and the saved mode.                                *)
Hear ==
    /\ toUi # <<>>
    /\ LET report == Head(toUi) IN
       \/ /\ report.of \in {"mode", "sub"}
          /\ seen' = [seen EXCEPT ![report.of] = report.value]
          /\ UNCHANGED <<session, seenTx, ptt>>
       \/ /\ report.of = "tx"
          /\ seenTx' = report.value
          /\ UNCHANGED <<session, seen, ptt>>
       \/ /\ report.of = "lost"
          /\ session' = ConnectionLost(session)
          /\ seen' = Unread /\ seenTx' = FALSE /\ ptt' = FALSE
    /\ toUi' = Tail(toUi)
    /\ UNCHANGED <<over, connected, toRadio, k4, used, history>>

(***************************************************************************)
(* I/O thread                                                              *)
(***************************************************************************)

Key ==
    /\ over = "armed" /\ connected
    /\ over' = "keyed"
    /\ toRadio' = Append(toRadio, Command("tx"))
    /\ UNCHANGED <<ui, connected, toUi, k4, used, history>>

(* The over is complete, stopped, or faulted by the guard. *)
Unkey ==
    /\ over \in {"armed", "keyed"} /\ connected
    /\ over' = "done"
    /\ toRadio' = IF over = "keyed" THEN Append(toRadio, Command("rx"))
                                    ELSE toRadio
    /\ UNCHANGED <<ui, connected, toUi, k4, used, history>>

(* The connection is lost, with the commands and the last reports on it.   *)
(* The K4 unkeys a client that is gone.                                    *)
Lose ==
    /\ events < MaxEvents /\ connected
    /\ connected' = FALSE
    /\ toRadio' = <<>>
    /\ \E n \in 0..Len(toUi) :
           toUi' = Append(SubSeq(toUi, 1, n), [of |-> "lost", value |-> None])
    /\ keyed' = FALSE
    /\ over' = IF over = "none" THEN "none" ELSE "done"
    /\ entry' = Unread
    /\ pace' = "moving"
    /\ events' = events + 1
    /\ UNCHANGED <<opens, ui, radio>>

ReportOf(setting) ==
    <<[of |-> "mode", value |-> setting.mode],
      [of |-> "sub", value |-> setting.sub]>>

(* Connected again, after the UI heard of the loss that it must answer: the *)
(* K4, which may have been operated meanwhile, reports its state.           *)
Connect ==
    /\ ~connected /\ toUi = <<>>
    /\ connected' = TRUE
    /\ radio' \in Settings
    /\ toUi' = ReportOf(radio')
    /\ UNCHANGED <<ui, over, toRadio, keyed, used, history>>

(***************************************************************************)
(* The K4                                                                  *)
(***************************************************************************)

Obey ==
    /\ toRadio # <<>>
    /\ LET command == Head(toRadio) IN
       \/ /\ command.do = "set"
          /\ radio' = [mode |-> command.to.mode,
                       sub |-> IF command.to.sub = None THEN radio.sub
                                                        ELSE command.to.sub]
          /\ toUi' = toUi \o ReportOf(radio')
          /\ UNCHANGED keyed
       \/ /\ command.do = "recall"
          /\ radio' \in Settings
          /\ toUi' = toUi \o ReportOf(radio')
          /\ UNCHANGED keyed
       \/ /\ command.do \in {"tx", "rx"}
          /\ keyed' = (command.do = "tx")
          /\ toUi' = Append(toUi, [of |-> "tx", value |-> keyed'])
          /\ UNCHANGED radio
    /\ toRadio' = Tail(toRadio)
    /\ UNCHANGED <<ui, over, connected, used, history>>

Next ==
    \/ Open \/ Close \/ Tick \/ Recall \/ StartOver \/ Press \/ Release
    \/ Finish \/ Hear \/ Key \/ Unkey \/ Lose \/ Connect \/ Obey

Spec == Init /\ [][Next]_vars

(* The timer runs, the queues are served, and an over ends: the transmitter *)
(* is paced by a clock and stopped by the guard.  Nobody must open or close *)
(* the screen, press or release, and the connection need not come back.     *)
Fairness ==
    /\ WF_vars(Tick) /\ WF_vars(Hear) /\ WF_vars(Obey)
    /\ WF_vars(Unkey) /\ WF_vars(Finish)

FairSpec == Spec /\ Fairness

-----------------------------------------------------------------------------

Targets == [mode : Modes, sub : Subs \union {None}]
Sessions ==
    [active : BOOLEAN, pending : BOOLEAN, original : Targets \union {Unread}]
Commands ==
    [do : {"set"}, to : Targets] \union
    [do : {"recall", "tx", "rx"}, to : {Unread}]
Reports ==
    UNION {[of : {"mode"}, value : Modes], [of : {"sub"}, value : Subs],
           [of : {"tx"}, value : BOOLEAN], [of : {"lost"}, value : {None}]}

(* Every variable has the values its declaration gives it. *)
TypeOK ==
    /\ session \in Sessions
    /\ seen \in Readings /\ seenTx \in BOOLEAN /\ ptt \in BOOLEAN
    /\ over \in {"none", "armed", "keyed", "done"}
    /\ connected \in BOOLEAN
    /\ toRadio \in Seq(Commands) /\ toUi \in Seq(Reports)
    /\ radio \in Settings /\ keyed \in BOOLEAN
    /\ opens \in 0..MaxOpens /\ events \in 0..MaxEvents
    /\ entry \in Readings
    /\ pace \in {"moving", "steady", "overlapped"}

(* The module never changes the mode of a K4 that transmits for this app:   *)
(* a mode command that reaches the K4 finds it receiving, whatever the age  *)
(* of the reports it was decided on.                                        *)
SetsOffAir ==
    toRadio # <<>> /\ Head(toRadio).do = "set" => ~keyed

(* If nothing was in flight when the module took the mode over, the K4 is   *)
(* back in that mode once the screen is left and the restoration has been   *)
(* sent and obeyed, whatever bands were selected, overs sent and screens    *)
(* reopened before.                                                         *)
RestoresEntry ==
    /\ ~session.active /\ session.original = Unread
    /\ connected /\ toRadio = <<>>
    /\ entry # Unread
    => radio = entry

Undisturbed == session.active /\ connected /\ ~ptt

(* While the screen is open and the connection holds, a band's mode gives   *)
(* way to DATA-A, as long as every mode change waited for the one before it *)
(* to settle.                                                               *)
ReturnsToDataA ==
    Undisturbed ~> (radio = DataA \/ ~Undisturbed \/ pace = "overlapped")

(* The same with no condition on the operator's pace, as README.md has it:  *)
(* "The module keeps DATA-A active while changing bands".                   *)
KeepsDataA == Undisturbed ~> (radio = DataA \/ ~Undisturbed)

=============================================================================

----------------------------- MODULE IambicKeyer -----------------------------
(***************************************************************************)
(* The iambic keyer.  The UI thread turns transitions of the aggregated    *)
(* inputs into setDitPaddle and setDahPaddle, which store into atomics     *)
(* shared with the keyer thread and post handlePaddleChange to it; a       *)
(* device that disconnects may post stop.  The keyer thread plays one      *)
(* element (dit or dah) at a time and decides on the next when the element *)
(* timer fires.                                                            *)
(*                                                                         *)
(* Every load and store of an atomic is a step of its own, so the threads  *)
(* interleave between any two of them.  Time is left out: an element lasts *)
(* until the timer fires.  KZ commands and the sidetone follow             *)
(* elementStarted and are not modelled.                                    *)
(***************************************************************************)
EXTENDS Naturals, Sequences

CONSTANTS
    Sources,        \* device connections: CW MIDI and CTR2
    FirstMode,      \* the mode the radio is in at first, "A" or "B"
    MaxPresses,     \* bound: paddle presses
    MaxClears,      \* bound: devices disconnected or given a new mapping
    MaxSettings     \* bound: changes of mode and of paddle orientation

ASSUME KeyerAssumption ==
    /\ FirstMode \in {"A", "B"}
    /\ {MaxPresses, MaxClears, MaxSettings} \subseteq Nat

VARIABLES
    inputs,     \* UI: the aggregator's m_sources
    calls,      \* UI: what is left of the handler that runs
    spent,      \* bound: presses, clears and settings used
    box,        \* calls queued for the keyer thread
    phys,       \* shared: m_physDit, m_physDah
    latch,      \* shared: m_ditLatch, m_dahLatch
    handler,    \* keyer: the handler that runs
    state,      \* keyer: m_state
    squeezed,   \* keyer: m_squeezed
    armed,      \* keyer: m_elementTimer runs
    mode,       \* keyer: m_mode
    reversed,   \* keyer: m_reversed
    due         \* history: paddles down since their last element began

ui == <<inputs, calls, spent>>
keyer == <<handler, state, squeezed, armed, mode, reversed>>
vars == <<ui, box, phys, latch, keyer, due>>

Paddles == {"dit", "dah"}
Elements == {"dit", "dah"}
Messages == {"paddle", "stop", "mode", "reverse"}
Cells == {"phys", "latch"} \X Paddles

Aggregator == INSTANCE InputAggregator WITH Inputs <- Paddles

(***************************************************************************)
(* UI thread.  A handler runs to its end before the next one starts.       *)
(***************************************************************************)
Post(message) == [do |-> "post", arg |-> message]

(* setDitPaddle, setDahPaddle *)
SetPaddle(p, pressed) ==
    IF pressed THEN <<[do |-> "press", arg |-> p], [do |-> "latch", arg |-> p], Post("paddle")>>
               ELSE <<[do |-> "release", arg |-> p], Post("paddle")>>

(* applyInputTransitions, for one input of an aggregate that changed.      *)
Transition(p) ==
    IF (p \in Aggregator!Active) # (p \in Aggregator!Aggregate(inputs'))
    THEN SetPaddle(p, p \in Aggregator!Aggregate(inputs'))
    ELSE <<>>

Spend(what, bound) ==
    /\ spent[what] < bound
    /\ spent' = [spent EXCEPT ![what] = @ + 1]

Press(s, p) ==
    /\ calls = <<>> /\ p \notin inputs[s]
    /\ Spend("presses", MaxPresses)
    /\ Aggregator!SetInput(s, p, TRUE)
    /\ calls' = Transition(p)
    /\ UNCHANGED <<box, phys, latch, keyer, due>>

Release(s, p) ==
    /\ calls = <<>> /\ p \in inputs[s]
    /\ Aggregator!SetInput(s, p, FALSE)
    /\ calls' = Transition(p)
    /\ UNCHANGED <<spent, box, phys, latch, keyer, due>>

(* The handlers of the devices' disconnected signals.                      *)
Disconnected(s) ==
    /\ calls = <<>>
    /\ Spend("clears", MaxClears)
    /\ Aggregator!ClearSource(s)
    /\ calls' = Transition("dit") \o Transition("dah")
                \o (IF Aggregator!Aggregate(inputs') = {} THEN <<Post("stop")>> ELSE <<>>)
    /\ UNCHANGED <<box, phys, latch, keyer, due>>

(* loadCtr2Mapping: a new mapping clears the source and stops nothing.     *)
Remapped(s) ==
    /\ calls = <<>>
    /\ Spend("clears", MaxClears)
    /\ Aggregator!ClearSource(s)
    /\ calls' = Transition("dit") \o Transition("dah")
    /\ UNCHANGED <<box, phys, latch, keyer, due>>

(* iambicModeChanged, keyerPaddleChanged *)
SettingChanged(setting) ==
    /\ calls = <<>>
    /\ Spend("settings", MaxSettings)
    /\ calls' = <<Post(setting)>>
    /\ UNCHANGED <<inputs, box, phys, latch, keyer, due>>

(* The next store or post of the running handler.                          *)
Call(do) ==
    /\ calls # <<>> /\ Head(calls).do = do
    /\ calls' = Tail(calls)
    /\ UNCHANGED <<inputs, spent, keyer>>

StorePressed ==
    /\ Call("press")
    /\ phys' = phys \cup {Head(calls).arg}
    /\ due' = due \cup {Head(calls).arg}
    /\ UNCHANGED <<box, latch>>

StoreReleased ==
    /\ Call("release")
    /\ phys' = phys \ {Head(calls).arg}
    /\ UNCHANGED <<box, latch, due>>

StoreLatch ==
    /\ Call("latch")
    /\ latch' = latch \cup {Head(calls).arg}
    /\ UNCHANGED <<box, phys, due>>

PostCall ==
    /\ Call("post")
    /\ box' = Append(box, Head(calls).arg)
    /\ UNCHANGED <<phys, latch, due>>

UiStep == StorePressed \/ StoreReleased \/ StoreLatch \/ PostCall
UiHandler ==
    \/ \E s \in Sources : Disconnected(s) \/ Remapped(s)
    \/ \E s \in Sources, p \in Paddles : Press(s, p) \/ Release(s, p)
    \/ \E setting \in {"mode", "reverse"} : SettingChanged(setting)

(***************************************************************************)
(* Keyer thread.                                                           *)
(***************************************************************************)
Other(el) == IF el = "dit" THEN "dah" ELSE "dit"
PaddleOf(el) == IF reversed THEN Other(el) ELSE el
Phys(el) == <<"phys", PaddleOf(el)>>
Latch(el) == <<"latch", PaddleOf(el)>>

(* A handler first loads or clears the cells that are left, in order.      *)
Runs(name, cells) == handler' = [name |-> name, left |-> cells, seen |-> {}]
Waiting == [name |-> "wait", left |-> <<>>, seen |-> {}]
Returns == handler' = Waiting

Set(cell) == IF cell[1] = "phys" THEN cell[2] \in phys ELSE cell[2] \in latch

Load ==
    /\ handler.name \in {"paddle", "timer", "enter"} /\ handler.left # <<>>
    /\ handler' = [handler EXCEPT !.left = Tail(@),
                                  !.seen = IF Set(Head(handler.left))
                                           THEN @ \cup {Head(handler.left)} ELSE @]
    /\ UNCHANGED <<ui, box, phys, latch, state, squeezed, armed, mode, reversed, due>>

Clear ==
    /\ handler.name \in {"goIdle", "stop"} /\ handler.left # <<>>
    /\ LET cell == Head(handler.left) IN
         /\ phys' = IF cell[1] = "phys" THEN phys \ {cell[2]} ELSE phys
         /\ latch' = IF cell[1] = "latch" THEN latch \ {cell[2]} ELSE latch
    /\ handler' = [handler EXCEPT !.left = Tail(@)]
    /\ UNCHANGED <<ui, box, state, squeezed, armed, mode, reversed, due>>

Loaded(name) == handler.name = name /\ handler.left = <<>>

(* The paddle of el was live, or was tapped, when it was loaded.           *)
Live(el) == Phys(el) \in handler.seen
Wants(el) == Live(el) \/ Latch(el) \in handler.seen

(* Mutation of EnterElement: the latch that asked for it is kept.          *)
EnterElementKeepsLatch(el) ==
    /\ state' = el
    /\ squeezed' = FALSE
    /\ due' = (due \ {PaddleOf(el)}) \cup (phys \cap {PaddleOf(el)})
    /\ Runs("enter", <<Phys("dit"), Phys("dah")>>)
    /\ UNCHANGED <<ui, box, phys, latch, armed, mode, reversed>>
(* enterElement, to the loads that end it.                                 *)
EnterElement(el) ==
    /\ state' = el
    /\ squeezed' = FALSE
    /\ latch' = latch \ {PaddleOf(el)}
    /\ due' = (due \ {PaddleOf(el)}) \cup (phys \cap {PaddleOf(el)})
    /\ Runs("enter", <<Phys("dit"), Phys("dah")>>)
    /\ UNCHANGED <<ui, box, phys, armed, mode, reversed>>

(* Mutation of ElementEntered: timed only while a paddle is down.          *)
ElementEnteredUntimed ==
    /\ Loaded("enter")
    /\ squeezed' = (squeezed \/ (Live("dit") /\ Live("dah")))
    /\ armed' = (handler.seen # {})
    /\ Returns
    /\ UNCHANGED <<ui, box, phys, latch, state, mode, reversed, due>>
ElementEntered ==
    /\ Loaded("enter")
    /\ squeezed' = (squeezed \/ (Live("dit") /\ Live("dah")))
    /\ armed' = TRUE
    /\ Returns
    /\ UNCHANGED <<ui, box, phys, latch, state, mode, reversed, due>>

(* Mutation of PaddleChanged: only a dit starts from rest.                 *)
PaddleChangedDitOnly ==
    /\ Loaded("paddle")
    /\ IF state = "Idle" /\ Wants("dit")
       THEN EnterElement("dit")
       ELSE /\ squeezed' = (squeezed \/ (state # "Idle" /\ Wants("dit") /\ Wants("dah")))
            /\ Returns
            /\ UNCHANGED <<ui, box, phys, latch, state, armed, mode, reversed, due>>
(* handlePaddleChange *)
PaddleChanged ==
    /\ Loaded("paddle")
    /\ IF state = "Idle" /\ (Wants("dit") \/ Wants("dah"))
       THEN EnterElement(IF Wants("dit") THEN "dit" ELSE "dah")
       ELSE /\ squeezed' = (squeezed \/ (state # "Idle" /\ Wants("dit") /\ Wants("dah")))
            /\ Returns
            /\ UNCHANGED <<ui, box, phys, latch, state, armed, mode, reversed, due>>

(* goIdle; the timer that called it has fired.                             *)
GoIdle ==
    /\ state' = "Idle"
    /\ squeezed' = FALSE
    /\ Runs("goIdle", <<<<"latch", "dit">>, <<"latch", "dah">>>>)
    /\ UNCHANGED <<ui, box, phys, latch, armed, mode, reversed, due>>

(* Mutation of NextElements: a held paddle does not give way to the other. *)
NextElementsSame ==
    IF squeezed /\ ~Live("dit") /\ ~Live("dah")
    THEN IF mode = "B" THEN {Other(state)} ELSE {}
    ELSE IF Wants(state) THEN {state}
    ELSE IF Wants(Other(state)) \/ (squeezed /\ mode = "B") THEN {Other(state)}
    ELSE {}
(* onTimerFired: the element that follows, none to go idle.                *)
NextElements ==
    IF squeezed /\ ~Live("dit") /\ ~Live("dah")
    THEN IF mode = "B" THEN {Other(state)} ELSE {}
    ELSE IF Wants(Other(state)) THEN {Other(state)}
    ELSE IF Wants(state) THEN {state}
    ELSE IF squeezed /\ mode = "B" THEN {Other(state)} ELSE {}

ElementOver ==
    /\ Loaded("timer")
    /\ IF NextElements = {} THEN GoIdle ELSE \E el \in NextElements : EnterElement(el)

Cleared ==
    /\ Loaded("goIdle") \/ Loaded("stop")
    /\ Returns
    /\ UNCHANGED <<ui, box, phys, latch, state, squeezed, armed, mode, reversed, due>>

TimerFires ==
    /\ handler = Waiting /\ armed
    /\ armed' = FALSE
    /\ Runs("timer", <<Phys("dit"), Phys("dah"), Latch("dit"), Latch("dah")>>)
    /\ UNCHANGED <<ui, box, phys, latch, state, squeezed, mode, reversed, due>>

Take(message) ==
    /\ handler = Waiting
    /\ box # <<>> /\ Head(box) = message
    /\ box' = Tail(box)
    /\ UNCHANGED <<ui, phys, latch, due>>

TakePaddle ==
    /\ Take("paddle")
    /\ Runs("paddle", <<Phys("dit"), Latch("dit"), Phys("dah"), Latch("dah")>>)
    /\ UNCHANGED <<state, squeezed, armed, mode, reversed>>

(* stop, to its stores.                                                    *)
TakeStop ==
    /\ Take("stop")
    /\ state' = "Idle" /\ squeezed' = FALSE /\ armed' = FALSE
    /\ Runs("stop", <<<<"phys", "dit">>, <<"phys", "dah">>,
                      <<"latch", "dit">>, <<"latch", "dah">>>>)
    /\ UNCHANGED <<mode, reversed>>

TakeSetting ==
    \/ /\ Take("mode")
       /\ mode' = IF mode = "A" THEN "B" ELSE "A"
       /\ UNCHANGED <<handler, state, squeezed, armed, reversed>>
    \/ /\ Take("reverse")
       /\ reversed' = ~reversed
       /\ UNCHANGED <<handler, state, squeezed, armed, mode>>

KeyerStep ==
    \/ Load \/ Clear \/ PaddleChanged \/ ElementEntered \/ ElementOver \/ Cleared
    \/ TakePaddle \/ TakeStop \/ TakeSetting

Init ==
    /\ Aggregator!Init
    /\ calls = <<>> /\ box = <<>>
    /\ spent = [what \in {"presses", "clears", "settings"} |-> 0]
    /\ phys = {} /\ latch = {}
    /\ handler = Waiting
    /\ state = "Idle" /\ squeezed = FALSE /\ armed = FALSE
    /\ mode = FirstMode /\ reversed = FALSE
    /\ due = {}

Next == UiHandler \/ UiStep \/ KeyerStep \/ TimerFires

Spec == Init /\ [][Next]_vars

(* The threads run, and the element timer fires.                           *)
LiveSpec == Spec /\ WF_vars(UiStep) /\ WF_vars(KeyerStep) /\ WF_vars(TimerFires)

(***************************************************************************)
(* Properties.                                                             *)
(***************************************************************************)
Calls == [do : {"press", "release", "latch"}, arg : Paddles]
         \cup [do : {"post"}, arg : Messages]
Handlers == [name : {"wait", "paddle", "timer", "enter", "goIdle", "stop"},
             left : Seq(Cells), seen : SUBSET Cells]

(* Types.                                                                  *)
TypeOK ==
    /\ inputs \in [Sources -> SUBSET Paddles]
    /\ calls \in Seq(Calls)
    /\ spent \in [{"presses", "clears", "settings"} -> Nat]
    /\ box \in Seq(Messages)
    /\ phys \subseteq Paddles /\ latch \subseteq Paddles
    /\ handler \in Handlers
    /\ state \in Elements \cup {"Idle"}
    /\ handler.name \in {"timer", "enter"} => state \in Elements
    /\ squeezed \in BOOLEAN /\ armed \in BOOLEAN
    /\ mode \in {"A", "B"} /\ reversed \in BOOLEAN
    /\ due \subseteq Paddles

(* Between handlers the timer runs exactly while an element plays: no      *)
(* element is left without an end, and none ends twice.                    *)
ElementEnds == handler = Waiting => (armed <=> state # "Idle")

(* When the keyer thread has nothing left to handle, it is not at rest     *)
(* with a paddle down: no edge is lost between the loads of one handler    *)
(* and the call that the edge posts.                                       *)
DownPaddleKeys ==
    calls = <<>> /\ box = <<>> /\ handler = Waiting /\ phys # {} => state # "Idle"

(* No element comes from nowhere: its paddle was down at some time since   *)
(* its last element began, in mode B's element after a squeeze too.        *)
ElementsAreDue ==
    [][handler'.name = "enter" /\ handler.name # "enter"
         => PaddleOf(state') \in due]_vars

(* A paddle that stays down gets its element, in turn with the other one.  *)
DownPaddleGetsElement ==
    \A p \in Paddles :
        p \in phys ~> (p \notin phys \/ (state # "Idle" /\ PaddleOf(state) = p))

(* When the devices hold nothing for good, the keyer falls silent.         *)
FallsSilent == Aggregator!Active = {} ~> (state = "Idle" \/ Aggregator!Active # {})
=============================================================================

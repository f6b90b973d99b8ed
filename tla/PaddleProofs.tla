---------------------------- MODULE PaddleProofs ----------------------------
(***************************************************************************)
(* The way from a paddle to the elements it keys.  First, what holds of    *)
(* IambicKeyer for every set of sources and any number of presses,         *)
(* disconnects and changes of settings; then, of MidiDevices for every set *)
(* of devices and any number of edges, connections, losses and changes of  *)
(* the keying mode.                                                        *)
(***************************************************************************)
EXTENDS IambicKeyer, MidiDevices, SequenceTheorems, TLAPS

(***************************************************************************)
(* Sequences of calls and messages.                                        *)
(***************************************************************************)
In(x, q) == \E i \in 1..Len(q) : q[i] = x

(* An element that is not the head is left when the head is taken.         *)
LEMMA InTail ==
    ASSUME NEW S, NEW q \in Seq(S), q # <<>>, NEW x, In(x, q), x # Head(q)
    PROVE  In(x, Tail(q))
<1>1. PICK i \in 1..Len(q) : q[i] = x
  BY DEF In
<1>2. i # 1 /\ Len(q) \in Nat
  BY <1>1
<1>3. Tail(q) \in Seq(S) /\ Len(Tail(q)) = Len(q) - 1
  BY HeadTailProperties
<1>4. i - 1 \in 1..Len(Tail(q)) /\ Tail(q)[i - 1] = q[i]
  BY <1>1, <1>2, <1>3, HeadTailProperties
<1>5. QED
  BY <1>1, <1>4 DEF In

(* Nothing is lost at the end of a queue.                                  *)
LEMMA InAppend ==
    ASSUME NEW S, NEW q \in Seq(S), NEW e \in S
    PROVE  /\ In(e, Append(q, e))
           /\ \A x : In(x, q) => In(x, Append(q, e))
<1>1. Len(Append(q, e)) = Len(q) + 1 /\ Len(q) \in Nat
  BY AppendProperties
<1>2. Append(q, e)[Len(q) + 1] = e
  BY AppendProperties
<1>3. \A i \in 1..Len(q) : Append(q, e)[i] = q[i]
  BY AppendProperties
<1>4. In(e, Append(q, e))
  BY <1>1, <1>2 DEF In
<1>5. ASSUME NEW x, In(x, q) PROVE In(x, Append(q, e))
  <2>1. PICK i \in 1..Len(q) : q[i] = x
    BY <1>5 DEF In
  <2>2. i \in 1..Len(Append(q, e)) /\ Append(q, e)[i] = x
    BY <2>1, <1>1, <1>3
  <2>3. QED
    BY <2>2 DEF In
<1>6. QED
  BY <1>4, <1>5

(* The rest of a handler tells the keyer of every press it stores.         *)
Tells(q) ==
    \A i \in 1..Len(q) :
        q[i].do = "press" => \E j \in (i + 1)..Len(q) : q[j] = Post("paddle")

(* So does what is left of it, and a press at its head is still to tell.   *)
LEMMA TellsTail ==
    ASSUME NEW q \in Seq(Calls), q # <<>>, Tells(q)
    PROVE  /\ Tells(Tail(q))
           /\ Head(q).do = "press" => In(Post("paddle"), Tail(q))
<1>1. /\ Tail(q) \in Seq(Calls) /\ Len(Tail(q)) = Len(q) - 1 /\ Len(q) \in Nat \ {0}
      /\ \A i \in 1..Len(Tail(q)) : Tail(q)[i] = q[i + 1]
  BY HeadTailProperties, EmptySeq
<1>2. ASSUME NEW i \in 1..Len(Tail(q)), Tail(q)[i].do = "press"
      PROVE  \E j \in (i + 1)..Len(Tail(q)) : Tail(q)[j] = Post("paddle")
  <2>1. i + 1 \in 1..Len(q) /\ q[i + 1].do = "press"
    BY <1>1, <1>2
  <2>2. PICK j \in (i + 2)..Len(q) : q[j] = Post("paddle")
    BY <2>1 DEF Tells
  <2>3. j - 1 \in (i + 1)..Len(Tail(q)) /\ Tail(q)[j - 1] = q[j]
    BY <1>1, <2>2
  <2>4. QED
    BY <2>2, <2>3
<1>3. ASSUME Head(q).do = "press"
      PROVE  In(Post("paddle"), Tail(q))
  <2>1. 1 \in 1..Len(q) /\ q[1].do = "press"
    BY <1>1, <1>3
  <2>2. PICK j \in 2..Len(q) : q[j] = Post("paddle")
    BY <2>1 DEF Tells
  <2>3. j - 1 \in 1..Len(Tail(q)) /\ Tail(q)[j - 1] = q[j]
    BY <1>1, <2>2
  <2>4. QED
    BY <2>2, <2>3 DEF In
<1>4. QED
  BY <1>2, <1>3 DEF Tells

(* Two lists of calls that tell, one after the other.                      *)
LEMMA TellsConcat ==
    ASSUME NEW q \in Seq(Calls), NEW r \in Seq(Calls), Tells(q), Tells(r)
    PROVE  q \o r \in Seq(Calls) /\ Tells(q \o r)
<1>1. /\ q \o r \in Seq(Calls) /\ Len(q \o r) = Len(q) + Len(r)
      /\ Len(q) \in Nat /\ Len(r) \in Nat
      /\ \A i \in 1..(Len(q) + Len(r)) :
            (q \o r)[i] = IF i <= Len(q) THEN q[i] ELSE r[i - Len(q)]
  BY ConcatProperties
<1>2. ASSUME NEW i \in 1..Len(q \o r), (q \o r)[i].do = "press"
      PROVE  \E j \in (i + 1)..Len(q \o r) : (q \o r)[j] = Post("paddle")
  <2>1. CASE i <= Len(q)
    <3>1. i \in 1..Len(q) /\ q[i].do = "press"
      BY <1>1, <1>2, <2>1
    <3>2. PICK j \in (i + 1)..Len(q) : q[j] = Post("paddle")
      BY <3>1 DEF Tells
    <3>3. j \in (i + 1)..Len(q \o r) /\ (q \o r)[j] = q[j]
      BY <1>1, <3>2
    <3>4. QED
      BY <3>2, <3>3
  <2>2. CASE i > Len(q)
    <3>1. i - Len(q) \in 1..Len(r) /\ r[i - Len(q)].do = "press"
      BY <1>1, <1>2, <2>2
    <3>2. PICK j \in (i - Len(q) + 1)..Len(r) : r[j] = Post("paddle")
      BY <3>1 DEF Tells
    <3>3. j \in Nat /\ j >= 1 /\ j + Len(q) \in (i + 1)..Len(q \o r)
      BY <1>1, <2>2, <3>2
    <3>4. (q \o r)[j + Len(q)] = r[(j + Len(q)) - Len(q)]
      BY <1>1, <3>3
    <3>5. (j + Len(q)) - Len(q) = j
      BY <1>1, <3>3
    <3>6. QED
      BY <3>2, <3>3, <3>4, <3>5
  <2>3. QED
    BY <1>1, <2>1, <2>2
<1>3. QED
  BY <1>1, <1>2 DEF Tells

(* setDitPaddle, setDahPaddle, and a handler that only posts.              *)
LEMMA SetPaddleTells ==
    ASSUME NEW p \in Paddles, NEW pressed \in BOOLEAN
    PROVE  SetPaddle(p, pressed) \in Seq(Calls) /\ Tells(SetPaddle(p, pressed))
<1>1. CASE pressed
  <2>1. SetPaddle(p, pressed)
          = <<[do |-> "press", arg |-> p], [do |-> "latch", arg |-> p], Post("paddle")>>
    BY <1>1 DEF SetPaddle
  <2>2. SetPaddle(p, pressed) \in Seq(Calls)
    BY <2>1 DEF Calls, Post, Messages
  <2>3. QED
    BY <2>1, <2>2 DEF Tells, Post
<1>2. CASE ~pressed
  <2>1. SetPaddle(p, pressed) = <<[do |-> "release", arg |-> p], Post("paddle")>>
    BY <1>2 DEF SetPaddle
  <2>2. SetPaddle(p, pressed) \in Seq(Calls)
    BY <2>1 DEF Calls, Post, Messages
  <2>3. QED
    BY <2>1, <2>2 DEF Tells, Post
<1>3. QED
  BY <1>1, <1>2

(* A handler that only posts.                                              *)
LEMMA PostTells ==
    ASSUME NEW message \in Messages
    PROVE  <<Post(message)>> \in Seq(Calls) /\ Tells(<<Post(message)>>)
BY DEF Calls, Post, Messages, Tells

(* A handler that does nothing.                                            *)
LEMMA NothingTells == <<>> \in Seq(Calls) /\ Tells(<<>>)
BY DEF Tells

(* applyInputTransitions, for one input.                                   *)
LEMMA TransitionTells ==
    ASSUME NEW p \in Paddles
    PROVE  Transition(p) \in Seq(Calls) /\ Tells(Transition(p))
<1>1. (p \in Aggregator!Aggregate(inputs')) \in BOOLEAN
  OBVIOUS
<1>2. QED
  BY <1>1, SetPaddleTells, NothingTells DEF Transition

(***************************************************************************)
(* The inductive invariant.                                                *)
(***************************************************************************)
(* A call that makes the keyer look at the paddles is on its way.          *)
Told == In("paddle", box) \/ In(Post("paddle"), calls)

(* The handler that runs has p down, or has yet to look at it.             *)
Noticed(p) == <<"phys", p>> \in handler.seen \/ In(<<"phys", p>>, handler.left)

(* What the handlers of the keyer thread rely on.                          *)
HandlersOK ==
    /\ handler.name \in {"wait", "paddle"} => (armed <=> state # "Idle")
    /\ handler.name \in {"goIdle", "stop"} => state = "Idle" /\ ~armed
    /\ handler.name = "timer" => ~armed
    /\ handler.name = "wait" => handler = Waiting
    /\ handler.name \in {"goIdle", "stop"} => handler.seen = {}

(* A paddle that is down keys, or is about to be looked at.                *)
DownIsSeen ==
    \A p \in phys :
        /\ handler.name \in {"paddle", "timer", "stop"} => Told \/ Noticed(p)
        /\ handler.name \in {"wait", "goIdle"} /\ state = "Idle" => Told

Inv == TypeOK /\ Tells(calls) /\ HandlersOK /\ DownIsSeen

(***************************************************************************)
(* What the parts of Next leave behind.                                    *)
(***************************************************************************)
others == <<box, phys, latch, keyer, due>>

(* A bound that is spent is still a number.                                *)
LEMMA SpendOK ==
    ASSUME TypeOK, NEW what \in {"presses", "clears", "settings"}, NEW bound \in Nat,
           Spend(what, bound)
    PROVE  spent' \in [{"presses", "clears", "settings"} -> Nat]
BY DEF TypeOK, Spend

(* A handler of the UI thread starts from nothing, and leaves calls that   *)
(* tell the keyer.                                                         *)
LEMMA UiHandlerStarts ==
    ASSUME TypeOK, UiHandler
    PROVE  /\ calls = <<>>
           /\ calls' \in Seq(Calls) /\ Tells(calls')
           /\ inputs' \in [Sources -> SUBSET Paddles]
           /\ spent' \in [{"presses", "clears", "settings"} -> Nat]
           /\ UNCHANGED others
<1> USE DEF Paddles
<1>1. Transition("dit") \o Transition("dah") \in Seq(Calls)
      /\ Tells(Transition("dit") \o Transition("dah"))
  BY TransitionTells, TellsConcat
<1>2. ASSUME NEW q \in {<<>>, <<Post("stop")>>}
      PROVE  /\ Transition("dit") \o Transition("dah") \o q \in Seq(Calls)
             /\ Tells(Transition("dit") \o Transition("dah") \o q)
  <2>1. q \in Seq(Calls) /\ Tells(q)
    BY NothingTells, PostTells DEF Messages
  <2>2. QED
    BY <1>1, <2>1, TellsConcat
<1>3. CASE \E s \in Sources : Disconnected(s)
  <2>1. PICK s \in Sources : Disconnected(s)
    BY <1>3
  <2>2. spent' \in [{"presses", "clears", "settings"} -> Nat]
    BY <2>1, SpendOK, KeyerAssumption DEF Disconnected
  <2>3. inputs' \in [Sources -> SUBSET Paddles]
    BY <2>1 DEF Disconnected, Aggregator!ClearSource, TypeOK
  <2>4. QED
    BY <1>2, <2>1, <2>2, <2>3 DEF Disconnected, others
<1>4. CASE \E s \in Sources : Remapped(s)
  <2>1. PICK s \in Sources : Remapped(s)
    BY <1>4
  <2>2. spent' \in [{"presses", "clears", "settings"} -> Nat]
    BY <2>1, SpendOK, KeyerAssumption DEF Remapped
  <2>3. inputs' \in [Sources -> SUBSET Paddles]
    BY <2>1 DEF Remapped, Aggregator!ClearSource, TypeOK
  <2>4. QED
    BY <1>1, <2>1, <2>2, <2>3 DEF Remapped, others
<1>5. CASE \E s \in Sources, p \in Paddles : Press(s, p)
  <2>1. PICK s \in Sources, p \in Paddles : Press(s, p)
    BY <1>5
  <2>2. spent' \in [{"presses", "clears", "settings"} -> Nat]
    BY <2>1, SpendOK, KeyerAssumption DEF Press
  <2>3. inputs' \in [Sources -> SUBSET Paddles]
    BY <2>1 DEF Press, Aggregator!SetInput, TypeOK
  <2>4. QED
    BY <2>1, <2>2, <2>3, TransitionTells DEF Press, others
<1>6. CASE \E s \in Sources, p \in Paddles : Release(s, p)
  <2>1. PICK s \in Sources, p \in Paddles : Release(s, p)
    BY <1>6
  <2>2. inputs' \in [Sources -> SUBSET Paddles]
    BY <2>1 DEF Release, Aggregator!SetInput, TypeOK
  <2>3. QED
    BY <2>1, <2>2, TransitionTells DEF Release, others, TypeOK
<1>7. CASE \E setting \in {"mode", "reverse"} : SettingChanged(setting)
  <2>1. PICK setting \in {"mode", "reverse"} : SettingChanged(setting)
    BY <1>7
  <2>2. spent' \in [{"presses", "clears", "settings"} -> Nat]
    BY <2>1, SpendOK, KeyerAssumption DEF SettingChanged
  <2>3. QED
    BY <2>1, <2>2, PostTells DEF SettingChanged, others, TypeOK, Messages
<1>8. QED
  BY <1>3, <1>4, <1>5, <1>6, <1>7 DEF UiHandler

(* A step of it takes the first call off, and leaves the keyer alone.      *)
LEMMA UiStepTakes ==
    ASSUME TypeOK, Tells(calls), UiStep
    PROVE  /\ calls' \in Seq(Calls) /\ Tells(calls')
           /\ UNCHANGED <<inputs, spent, keyer>>
           /\ box' \in Seq(Messages) /\ phys' \subseteq Paddles /\ latch' \subseteq Paddles
           /\ due' \subseteq Paddles
           /\ Told => Told'
           /\ \A p \in phys' \ phys : Told'
<1>1. PICK do : Call(do)
  BY DEF UiStep, StorePressed, StoreReleased, StoreLatch, PostCall
<1>2. /\ calls # <<>> /\ calls \in Seq(Calls) /\ calls' = Tail(calls) /\ Head(calls).do = do
      /\ Head(calls) \in Calls /\ calls' \in Seq(Calls)
      /\ UNCHANGED <<inputs, spent, keyer>>
  BY <1>1, HeadTailProperties DEF Call, TypeOK
<1>3. Tells(calls') /\ (do = "press" => In(Post("paddle"), calls'))
  BY <1>2, TellsTail
<1>4. In(Post("paddle"), calls) /\ Head(calls) # Post("paddle") => In(Post("paddle"), calls')
  BY <1>2, InTail
<1>5. CASE StorePressed
  <2>1. Head(calls).do = "press" /\ Head(calls).arg \in Paddles
    BY <1>2, <1>5 DEF StorePressed, Call, Calls
  <2>2. Told'
    BY <1>3, <1>2, <2>1 DEF Told
  <2>3. QED
    BY <1>2, <1>3, <1>5, <2>1, <2>2 DEF StorePressed, TypeOK
<1>6. CASE StoreReleased \/ StoreLatch
  <2>1. /\ Head(calls).do \in {"release", "latch"} /\ Head(calls).arg \in Paddles
        /\ Head(calls) # Post("paddle")
    BY <1>2, <1>6 DEF StoreReleased, StoreLatch, Call, Calls, Post
  <2>2. box' = box
    BY <1>6 DEF StoreReleased, StoreLatch
  <2>3. Told => Told'
    BY <1>4, <2>1, <2>2 DEF Told
  <2>4. QED
    BY <1>2, <1>3, <1>6, <2>1, <2>3 DEF StoreReleased, StoreLatch, TypeOK
<1>7. CASE PostCall
  <2>1. Head(calls).arg \in Messages /\ Head(calls) = Post(Head(calls).arg)
    BY <1>2, <1>7 DEF PostCall, Call, Calls, Post
  <2>2. /\ box' \in Seq(Messages) /\ In(Head(calls).arg, box')
        /\ \A x : In(x, box) => In(x, box')
    BY <1>7, <2>1, InAppend, AppendProperties DEF PostCall, TypeOK
  <2>3. Told => Told'
    BY <1>4, <2>1, <2>2 DEF Told, Post
  <2>4. QED
    BY <1>2, <1>3, <1>7, <2>2, <2>3 DEF PostCall, TypeOK
<1>8. QED
  BY <1>5, <1>6, <1>7 DEF UiStep

(***************************************************************************)
(* Handlers of the keyer thread.                                           *)
(***************************************************************************)
(* The cells a handler loads or clears.                                    *)
LEMMA CellsOK ==
    ASSUME NEW el \in Elements
    PROVE  Phys(el) \in Cells /\ Latch(el) \in Cells /\ PaddleOf(el) \in Paddles
           /\ Other(el) \in Elements
BY DEF Elements, Paddles, Phys, Latch, PaddleOf, Other, Cells

(* Every paddle is the paddle of an element.                               *)
LEMMA PaddlesAreUsed ==
    ASSUME NEW p \in Paddles
    PROVE  <<"phys", p>> \in {Phys("dit"), Phys("dah")}
BY DEF Paddles, Phys, PaddleOf, Other

(* A handler that starts.                                                  *)
LEMMA RunsOK ==
    ASSUME NEW name \in {"paddle", "timer", "enter", "goIdle", "stop"},
           NEW cells \in Seq(Cells), Runs(name, cells)
    PROVE  /\ handler' \in Handlers
           /\ handler'.name = name /\ handler'.left = cells /\ handler'.seen = {}
BY DEF Runs, Handlers

(* A handler that returns.                                                 *)
LEMMA WaitingOK ==
    /\ Waiting \in Handlers /\ Waiting.name = "wait"
    /\ Waiting.left = <<>> /\ Waiting.seen = {}
BY DEF Waiting, Handlers

(* enterElement: the keyer plays, whatever it did before.                  *)
LEMMA EnterElementPlays ==
    ASSUME TypeOK, Tells(calls), NEW el \in Elements, EnterElement(el)
    PROVE  TypeOK' /\ HandlersOK' /\ DownIsSeen'
<1>1. <<Phys("dit"), Phys("dah")>> \in Seq(Cells)
  BY CellsOK DEF Elements
<1>2. handler' \in Handlers /\ handler'.name = "enter"
  BY <1>1, RunsOK DEF EnterElement
<1>3. state' = el /\ squeezed' = FALSE
  BY DEF EnterElement, TypeOK
<1>4. latch' \subseteq Paddles /\ due' \subseteq Paddles
  BY CellsOK DEF EnterElement, TypeOK
<1>5. TypeOK'
  BY <1>2, <1>3, <1>4 DEF EnterElement, TypeOK, ui
<1>6. HandlersOK' /\ DownIsSeen'
  BY <1>2 DEF HandlersOK, DownIsSeen
<1>7. QED
  BY <1>5, <1>6

(* goIdle, called where no live paddle was seen: the ones that are down by *)
(* now have told the keyer.                                                *)
LEMMA GoIdleRests ==
    ASSUME TypeOK, DownIsSeen, ~armed, Loaded("timer"),
           ~Live("dit"), ~Live("dah"), GoIdle
    PROVE  TypeOK' /\ HandlersOK' /\ DownIsSeen'
<1>1. <<<<"latch", "dit">>, <<"latch", "dah">>>> \in Seq(Cells)
  BY DEF Cells, Paddles
<1>2. handler' \in Handlers /\ handler'.name = "goIdle" /\ handler'.seen = {}
  BY <1>1, RunsOK DEF GoIdle
<1>3. TypeOK'
  BY <1>2 DEF GoIdle, TypeOK, ui
<1>4. HandlersOK'
  BY <1>2 DEF HandlersOK, GoIdle
<1>5. ASSUME NEW p \in phys' PROVE Told'
  <2>1. p \in phys /\ p \in Paddles
    BY <1>5 DEF GoIdle, TypeOK
  <2>2. <<"phys", p>> \notin handler.seen
    BY <2>1, PaddlesAreUsed DEF Live
  <2>3. ~In(<<"phys", p>>, handler.left)
    BY DEF Loaded, In
  <2>4. Told
    BY <2>1, <2>2, <2>3 DEF DownIsSeen, Loaded, Noticed
  <2>5. QED
    BY <2>4 DEF Told, GoIdle, ui
<1>6. QED
  BY <1>2, <1>3, <1>4, <1>5 DEF DownIsSeen

(* Each step of the keyer thread keeps the invariant.                      *)
LEMMA LoadKeeps ==
    ASSUME Inv, Load
    PROVE  TypeOK' /\ HandlersOK' /\ DownIsSeen'
<1>1. /\ handler.left \in Seq(Cells) /\ handler.left # <<>>
      /\ handler.name \in {"paddle", "timer", "enter"}
      /\ handler.seen \subseteq Cells
  BY DEF Inv, TypeOK, Handlers, Load
<1>2. Head(handler.left) \in Cells /\ Tail(handler.left) \in Seq(Cells)
  BY <1>1, HeadTailProperties
<1>3. /\ handler' \in Handlers /\ handler'.name = handler.name
      /\ handler'.left = Tail(handler.left)
      /\ handler'.seen = IF Set(Head(handler.left))
                         THEN handler.seen \cup {Head(handler.left)} ELSE handler.seen
  BY <1>1, <1>2 DEF Load, Inv, TypeOK, Handlers
<1>4. TypeOK'
  BY <1>3 DEF Inv, TypeOK, Load, ui
<1>5. HandlersOK'
  BY <1>1, <1>3 DEF Inv, HandlersOK, Load
<1>6. ASSUME NEW p \in phys', handler.name \in {"paddle", "timer"}
      PROVE  Told' \/ Noticed(p)'
  <2>1. p \in phys /\ (Told => Told')
    BY DEF Load, Told, ui
  <2>2. Told \/ Noticed(p)
    BY <1>6, <2>1 DEF Inv, DownIsSeen
  <2>3. CASE <<"phys", p>> \in handler.seen
    BY <1>3, <2>3 DEF Noticed
  <2>4. CASE <<"phys", p>> = Head(handler.left)
    <3>1. Set(<<"phys", p>>)
      BY <2>1 DEF Set
    <3>2. QED
      BY <1>3, <2>4, <3>1 DEF Noticed
  <2>5. CASE In(<<"phys", p>>, handler.left) /\ <<"phys", p>> # Head(handler.left)
    <3>1. In(<<"phys", p>>, Tail(handler.left))
      BY <1>1, <2>5, InTail
    <3>2. QED
      BY <1>3, <3>1 DEF Noticed
  <2>6. QED
    BY <2>1, <2>2, <2>3, <2>4, <2>5 DEF Noticed
<1>7. QED
  BY <1>1, <1>3, <1>4, <1>5, <1>6 DEF DownIsSeen

(* The stores of goIdle and of stop take paddles up, never down.           *)
LEMMA ClearKeeps ==
    ASSUME Inv, Clear
    PROVE  TypeOK' /\ HandlersOK' /\ DownIsSeen'
<1>1. /\ handler.left \in Seq(Cells) /\ handler.left # <<>>
      /\ handler.name \in {"goIdle", "stop"}
  BY DEF Inv, TypeOK, Handlers, Clear
<1>2. Head(handler.left) \in Cells /\ Tail(handler.left) \in Seq(Cells)
  BY <1>1, HeadTailProperties
<1>3. /\ handler' \in Handlers /\ handler'.name = handler.name
      /\ handler'.left = Tail(handler.left) /\ handler'.seen = handler.seen
  BY <1>1, <1>2 DEF Clear, Inv, TypeOK, Handlers
<1>4. phys' \subseteq phys /\ latch' \subseteq latch
      /\ \A p : <<"phys", p>> = Head(handler.left) => p \notin phys'
  BY DEF Clear
<1>5. TypeOK'
  BY <1>3, <1>4 DEF Inv, TypeOK, Clear, ui
<1>6. HandlersOK'
  BY <1>1, <1>3 DEF Inv, HandlersOK, Clear
<1>7. Told => Told'
  BY DEF Clear, Told, ui
<1>8. ASSUME NEW p \in phys', handler.name = "stop"
      PROVE  Told' \/ Noticed(p)'
  <2>1. p \in phys /\ <<"phys", p>> # Head(handler.left) /\ handler.seen = {}
    BY <1>4, <1>8 DEF Inv, HandlersOK
  <2>2. Told \/ In(<<"phys", p>>, handler.left)
    BY <1>8, <2>1 DEF Inv, DownIsSeen, Noticed
  <2>3. In(<<"phys", p>>, handler.left) => In(<<"phys", p>>, Tail(handler.left))
    BY <1>1, <2>1, InTail
  <2>4. QED
    BY <1>3, <1>7, <2>2, <2>3 DEF Noticed
<1>9. ASSUME NEW p \in phys', handler.name = "goIdle"
      PROVE  Told'
  BY <1>1, <1>4, <1>7, <1>9 DEF Inv, DownIsSeen, HandlersOK
<1>10. QED
  BY <1>1, <1>3, <1>5, <1>6, <1>8, <1>9 DEF DownIsSeen

(* handlePaddleChange: at rest it starts the element of a paddle it saw    *)
(* down; the others have told the keyer.                                   *)
LEMMA PaddleChangedKeeps ==
    ASSUME Inv, PaddleChanged
    PROVE  TypeOK' /\ HandlersOK' /\ DownIsSeen'
<1>1. CASE state = "Idle" /\ (Wants("dit") \/ Wants("dah"))
  <2>1. PICK el \in Elements : EnterElement(el)
    BY <1>1 DEF PaddleChanged, Elements
  <2>2. QED
    BY <2>1, EnterElementPlays DEF Inv
<1>2. CASE ~(state = "Idle" /\ (Wants("dit") \/ Wants("dah")))
  <2>1. /\ handler' = Waiting
        /\ squeezed' = (squeezed \/ (state # "Idle" /\ Wants("dit") /\ Wants("dah")))
        /\ UNCHANGED <<ui, box, phys, latch, state, armed, mode, reversed, due>>
    BY <1>2 DEF PaddleChanged, Returns
  <2>2. squeezed' \in BOOLEAN
    BY <2>1 DEF Inv, TypeOK
  <2>3. TypeOK'
    BY <2>1, <2>2, WaitingOK DEF Inv, TypeOK, ui
  <2>4. HandlersOK'
    BY <2>1, WaitingOK DEF Inv, HandlersOK, PaddleChanged, Loaded
  <2>5. ASSUME NEW p \in phys', state' = "Idle" PROVE Told'
    <3>1. p \in phys /\ p \in Paddles /\ handler.name = "paddle" /\ handler.left = <<>>
      BY <2>1, <2>5 DEF Inv, TypeOK, PaddleChanged, Loaded
    <3>2. ~Live("dit") /\ ~Live("dah")
      BY <1>2, <2>1, <2>5 DEF Wants
    <3>3. <<"phys", p>> \notin handler.seen /\ ~In(<<"phys", p>>, handler.left)
      BY <3>1, <3>2, PaddlesAreUsed DEF Live, In
    <3>4. Told
      BY <3>1, <3>3 DEF Inv, DownIsSeen, Noticed
    <3>5. QED
      BY <2>1, <3>4 DEF Told, ui
  <2>6. QED
    BY <2>1, <2>3, <2>4, <2>5, WaitingOK DEF DownIsSeen
<1>3. QED
  BY <1>1, <1>2

(* The end of enterElement: the element plays and its timer runs.          *)
LEMMA ElementEnteredKeeps ==
    ASSUME Inv, ElementEntered
    PROVE  TypeOK' /\ HandlersOK' /\ DownIsSeen'
<1>1. /\ handler' = Waiting /\ armed' = TRUE
      /\ squeezed' = (squeezed \/ (Live("dit") /\ Live("dah")))
      /\ state \in Elements
      /\ UNCHANGED <<ui, box, phys, latch, state, mode, reversed, due>>
  BY DEF ElementEntered, Returns, Loaded, Inv, TypeOK
<1>2. squeezed' \in BOOLEAN /\ state' # "Idle"
  BY <1>1 DEF Inv, TypeOK, Elements
<1>3. TypeOK'
  BY <1>1, <1>2, WaitingOK DEF Inv, TypeOK, ui
<1>4. QED
  BY <1>1, <1>2, <1>3, WaitingOK DEF HandlersOK, DownIsSeen

(* onTimerFired: another element, or rest when no paddle was seen down.    *)
LEMMA ElementOverKeeps ==
    ASSUME Inv, ElementOver
    PROVE  TypeOK' /\ HandlersOK' /\ DownIsSeen'
<1>1. Loaded("timer") /\ state \in Elements /\ ~armed
  BY DEF ElementOver, Loaded, Inv, TypeOK, HandlersOK
<1>2. CASE NextElements = {}
  <2>1. ~Live("dit") /\ ~Live("dah")
    BY <1>1, <1>2 DEF NextElements, Wants, Other, Elements
  <2>2. QED
    BY <1>1, <1>2, <2>1, GoIdleRests DEF ElementOver, Inv
<1>3. CASE NextElements # {}
  <2>1. PICK el \in NextElements : EnterElement(el)
    BY <1>3 DEF ElementOver
  <2>2. el \in Elements
    BY <1>1, <2>1, CellsOK DEF NextElements
  <2>3. QED
    BY <2>1, <2>2, EnterElementPlays DEF Inv
<1>4. QED
  BY <1>2, <1>3

(* goIdle and stop return, at rest.                                        *)
LEMMA ClearedKeeps ==
    ASSUME Inv, Cleared
    PROVE  TypeOK' /\ HandlersOK' /\ DownIsSeen'
<1>1. /\ handler' = Waiting /\ handler.name \in {"goIdle", "stop"} /\ handler.left = <<>>
      /\ UNCHANGED <<ui, box, phys, latch, state, squeezed, armed, mode, reversed, due>>
  BY DEF Cleared, Returns, Loaded
<1>2. state = "Idle" /\ ~armed /\ handler.seen = {}
  BY <1>1 DEF Inv, HandlersOK
<1>3. TypeOK'
  BY <1>1, WaitingOK DEF Inv, TypeOK, ui
<1>4. HandlersOK'
  BY <1>1, <1>2, WaitingOK DEF HandlersOK
<1>5. ASSUME NEW p \in phys' PROVE Told'
  <2>1. p \in phys /\ ~Noticed(p)
    BY <1>1, <1>2, <1>5 DEF Noticed, In
  <2>2. Told
    BY <1>1, <1>2, <2>1 DEF Inv, DownIsSeen
  <2>3. QED
    BY <1>1, <2>2 DEF Told, ui
<1>6. QED
  BY <1>1, <1>3, <1>4, <1>5, WaitingOK DEF DownIsSeen

(* The timer fires; onTimerFired has loaded nothing yet.                   *)
LEMMA TimerFiresKeeps ==
    ASSUME Inv, TimerFires
    PROVE  TypeOK' /\ HandlersOK' /\ DownIsSeen'
<1>1. <<Phys("dit"), Phys("dah"), Latch("dit"), Latch("dah")>> \in Seq(Cells)
  BY CellsOK DEF Elements
<1>2. /\ handler' \in Handlers /\ handler'.name = "timer"
      /\ handler'.left = <<Phys("dit"), Phys("dah"), Latch("dit"), Latch("dah")>>
  BY <1>1, RunsOK DEF TimerFires
<1>3. armed' = FALSE /\ state' \in Elements
  BY WaitingOK DEF TimerFires, Inv, TypeOK, HandlersOK, Elements
<1>4. TypeOK'
  BY <1>2, <1>3 DEF TimerFires, Inv, TypeOK, ui
<1>5. HandlersOK'
  BY <1>2, <1>3 DEF HandlersOK
<1>6. ASSUME NEW p \in phys' PROVE Noticed(p)'
  <2>1. <<"phys", p>> \in {Phys("dit"), Phys("dah")}
    BY <1>4, <1>6, PaddlesAreUsed DEF TypeOK
  <2>2. handler'.left[1] = Phys("dit") /\ handler'.left[2] = Phys("dah") /\ Len(handler'.left) = 4
    BY <1>2
  <2>3. QED
    BY <2>1, <2>2 DEF Noticed, In
<1>7. QED
  BY <1>2, <1>4, <1>5, <1>6 DEF DownIsSeen

(* A call that is taken is the only one the queue loses.                   *)
LEMMA TakeLeaves ==
    ASSUME Inv, NEW message \in Messages, Take(message)
    PROVE  /\ box' \in Seq(Messages)
           /\ handler = Waiting
           /\ message # "paddle" /\ Told => Told'
           /\ UNCHANGED <<ui, phys, latch, due>>
<1>1. box # <<>> /\ box \in Seq(Messages) /\ box' = Tail(box) /\ Head(box) = message
  BY DEF Take, Inv, TypeOK
<1>2. box' \in Seq(Messages)
  BY <1>1, HeadTailProperties
<1>3. In("paddle", box) /\ message # "paddle" => In("paddle", box')
  BY <1>1, InTail
<1>4. QED
  BY <1>2, <1>3 DEF Take, Told, ui

(* handlePaddleChange starts; a paddle that is down it will see.           *)
LEMMA TakePaddleKeeps ==
    ASSUME Inv, TakePaddle
    PROVE  TypeOK' /\ HandlersOK' /\ DownIsSeen'
<1>1. <<Phys("dit"), Latch("dit"), Phys("dah"), Latch("dah")>> \in Seq(Cells)
  BY CellsOK DEF Elements
<1>2. /\ handler' \in Handlers /\ handler'.name = "paddle"
      /\ handler'.left = <<Phys("dit"), Latch("dit"), Phys("dah"), Latch("dah")>>
  BY <1>1, RunsOK DEF TakePaddle
<1>3. /\ box' \in Seq(Messages) /\ handler = Waiting
      /\ UNCHANGED <<ui, phys, latch, due, state, squeezed, armed, mode, reversed>>
  BY TakeLeaves DEF TakePaddle, Messages
<1>4. TypeOK'
  BY <1>2, <1>3 DEF Inv, TypeOK, ui
<1>5. HandlersOK'
  BY <1>2, <1>3, WaitingOK DEF Inv, HandlersOK
<1>6. ASSUME NEW p \in phys' PROVE Noticed(p)'
  <2>1. <<"phys", p>> \in {Phys("dit"), Phys("dah")}
    BY <1>4, <1>6, PaddlesAreUsed DEF TypeOK
  <2>2. handler'.left[1] = Phys("dit") /\ handler'.left[3] = Phys("dah") /\ Len(handler'.left) = 4
    BY <1>2
  <2>3. QED
    BY <2>1, <2>2 DEF Noticed, In
<1>7. QED
  BY <1>2, <1>4, <1>5, <1>6 DEF DownIsSeen

(* stop starts: rest, and the timer does not run.                          *)
LEMMA TakeStopKeeps ==
    ASSUME Inv, TakeStop
    PROVE  TypeOK' /\ HandlersOK' /\ DownIsSeen'
<1> DEFINE cells == <<<<"phys", "dit">>, <<"phys", "dah">>, <<"latch", "dit">>, <<"latch", "dah">>>>
<1>1. cells \in Seq(Cells)
  BY DEF Cells, Paddles
<1>2. handler' \in Handlers /\ handler'.name = "stop" /\ handler'.left = cells /\ handler'.seen = {}
  BY <1>1, RunsOK DEF TakeStop
<1>3. /\ box' \in Seq(Messages)
      /\ state' = "Idle" /\ squeezed' = FALSE /\ armed' = FALSE
      /\ UNCHANGED <<ui, phys, latch, due, mode, reversed>>
  BY TakeLeaves DEF TakeStop, Messages
<1>4. TypeOK'
  BY <1>2, <1>3 DEF Inv, TypeOK, ui
<1>5. HandlersOK'
  BY <1>2, <1>3 DEF HandlersOK
<1>6. ASSUME NEW p \in phys' PROVE Noticed(p)'
  <2>1. p = "dit" \/ p = "dah"
    BY <1>4, <1>6 DEF TypeOK, Paddles
  <2>2. /\ handler'.left[1] = <<"phys", "dit">> /\ handler'.left[2] = <<"phys", "dah">>
        /\ Len(handler'.left) = 4
    BY <1>2
  <2>3. QED
    BY <2>1, <2>2 DEF Noticed, In
<1>7. QED
  BY <1>2, <1>4, <1>5, <1>6 DEF DownIsSeen

(* A setting changes between two handlers.                                 *)
LEMMA TakeSettingKeeps ==
    ASSUME Inv, TakeSetting
    PROVE  TypeOK' /\ HandlersOK' /\ DownIsSeen'
<1>1. Take("mode") \/ Take("reverse")
  BY DEF TakeSetting
<1>2. /\ box' \in Seq(Messages) /\ (Told => Told')
      /\ UNCHANGED <<ui, phys, latch, due>>
  BY <1>1, TakeLeaves DEF Messages
<1>3. UNCHANGED <<handler, state, squeezed, armed>>
  BY DEF TakeSetting
<1>4. mode' \in {"A", "B"} /\ reversed' \in BOOLEAN
  BY DEF TakeSetting, Inv, TypeOK
<1>5. TypeOK'
  BY <1>2, <1>3, <1>4 DEF Inv, TypeOK, ui
<1>6. HandlersOK'
  BY <1>3 DEF Inv, HandlersOK
<1>7. DownIsSeen'
  BY <1>2, <1>3 DEF Inv, DownIsSeen, Noticed
<1>8. QED
  BY <1>5, <1>6, <1>7

(***************************************************************************)
(* The invariant and what follows from it.                                 *)
(***************************************************************************)
(* At first nothing is down and nothing plays.                             *)
LEMMA InvInit == Init => Inv
<1> SUFFICES ASSUME Init PROVE Inv
  OBVIOUS
<1>1. TypeOK
  <2>1. inputs \in [Sources -> SUBSET Paddles]
    BY DEF Init, Aggregator!Init
  <2>2. calls \in Seq(Calls) /\ box \in Seq(Messages)
    BY DEF Init
  <2>3. spent \in [{"presses", "clears", "settings"} -> Nat]
    BY DEF Init
  <2>4. handler \in Handlers /\ handler.name = "wait"
    BY WaitingOK DEF Init
  <2>5. QED
    BY <2>1, <2>2, <2>3, <2>4, KeyerAssumption DEF Init, TypeOK
<1>2. Tells(calls)
  BY NothingTells DEF Init
<1>3. HandlersOK /\ DownIsSeen
  BY WaitingOK DEF Init, HandlersOK, DownIsSeen
<1>4. QED
  BY <1>1, <1>2, <1>3 DEF Inv

(* The invariant is kept by each step of either thread.                    *)
LEMMA InvNext == Inv /\ [Next]_vars => Inv'
<1> SUFFICES ASSUME Inv, [Next]_vars PROVE Inv'
  OBVIOUS
<1>1. CASE UiHandler
  <2>1. /\ calls = <<>> /\ calls' \in Seq(Calls) /\ Tells(calls')
        /\ inputs' \in [Sources -> SUBSET Paddles]
        /\ spent' \in [{"presses", "clears", "settings"} -> Nat]
        /\ UNCHANGED <<box, phys, latch, keyer, due>>
    BY <1>1, UiHandlerStarts DEF Inv, others
  <2>2. TypeOK'
    BY <2>1 DEF Inv, TypeOK, keyer
  <2>3. Told => Told'
    BY <2>1 DEF Told, In
  <2>4. HandlersOK' /\ DownIsSeen'
    BY <2>1, <2>3 DEF Inv, HandlersOK, DownIsSeen, Noticed, keyer
  <2>5. QED
    BY <2>1, <2>2, <2>4 DEF Inv
<1>2. CASE UiStep
  <2>1. /\ calls' \in Seq(Calls) /\ Tells(calls')
        /\ UNCHANGED <<inputs, spent, keyer>>
        /\ box' \in Seq(Messages) /\ phys' \subseteq Paddles /\ latch' \subseteq Paddles
        /\ due' \subseteq Paddles
        /\ Told => Told'
        /\ \A p \in phys' \ phys : Told'
    BY <1>2, UiStepTakes DEF Inv
  <2>2. TypeOK'
    BY <2>1 DEF Inv, TypeOK, keyer
  <2>3. HandlersOK'
    BY <2>1 DEF Inv, HandlersOK, keyer
  <2>4. DownIsSeen'
    BY <2>1 DEF Inv, DownIsSeen, Noticed, keyer
  <2>5. QED
    BY <2>1, <2>2, <2>3, <2>4 DEF Inv
<1>3. CASE KeyerStep \/ TimerFires
  <2>1. TypeOK' /\ HandlersOK' /\ DownIsSeen'
    BY <1>3, LoadKeeps, ClearKeeps, PaddleChangedKeeps, ElementEnteredKeeps, ElementOverKeeps,
       ClearedKeeps, TakePaddleKeeps, TakeStopKeeps, TakeSettingKeeps, TimerFiresKeeps
       DEF KeyerStep
  <2>2. UNCHANGED calls
    BY <1>3 DEF KeyerStep, Load, Clear, PaddleChanged, ElementEntered, ElementOver, EnterElement,
       GoIdle, Cleared, TakePaddle, TakeStop, TakeSetting, Take, TimerFires, ui
  <2>3. QED
    BY <2>1, <2>2 DEF Inv
<1>4. CASE UNCHANGED vars
  BY <1>4 DEF Inv, TypeOK, HandlersOK, DownIsSeen, Told, Noticed, vars, ui, keyer
<1>5. QED
  BY <1>1, <1>2, <1>3, <1>4 DEF Next

(* The inductive invariant holds in every behaviour of the keyer.          *)
LEMMA Invariance == Spec => []Inv
BY InvInit, InvNext, PTL DEF Spec

(* Types: a handler of the keyer thread that needs an element has one.     *)
THEOREM KeyerTypes == Spec => []TypeOK
<1>1. Inv => TypeOK
  BY DEF Inv
<1>2. QED
  BY <1>1, Invariance, PTL

(* Between handlers the element timer runs exactly while an element plays. *)
THEOREM ElementsEnd == Spec => []ElementEnds
<1>1. Inv => ElementEnds
  BY WaitingOK DEF Inv, HandlersOK, ElementEnds
<1>2. QED
  BY <1>1, Invariance, PTL

(* A keyer thread with nothing left to handle is not at rest with a paddle *)
(* down, however its loads fell between the stores of the UI thread.       *)
THEOREM NoEdgeIsLost == Spec => []DownPaddleKeys
<1>1. Inv => DownPaddleKeys
  <2> SUFFICES ASSUME Inv, calls = <<>>, box = <<>>, handler = Waiting,
                      NEW p \in phys, state = "Idle"
               PROVE  FALSE
    BY DEF DownPaddleKeys
  <2>1. Told
    BY WaitingOK DEF Inv, DownIsSeen
  <2>2. ~Told
    BY DEF Told, In
  <2>3. QED
    BY <2>1, <2>2
<1>2. QED
  BY <1>1, Invariance, PTL

(***************************************************************************)
(* No element comes from nowhere.  What the keyer thread saw, what is      *)
(* latched and what made a squeeze is of paddles that are due.  The stores *)
(* of a press and of its latch are two: a stop between them clears the     *)
(* first, and had an element of the paddle begun before the second, the    *)
(* latch would ask for one more.  It cannot, because the stop has left     *)
(* nothing else that asks for that paddle.                                 *)
(***************************************************************************)
(* A latch follows its press: at once, or it is the next to be stored.     *)
Paired(q) ==
    \A i \in 2..Len(q) :
        q[i].do = "latch" => q[i - 1] = [do |-> "press", arg |-> q[i].arg]
Fresh(q) == Paired(q) /\ (q # <<>> => q[1].do # "latch")
Pending(p) == calls # <<>> /\ Head(calls) = [do |-> "latch", arg |-> p]

(* What is left of the stores of stop and of goIdle.                       *)
ClearsLeft ==
    /\ handler.name = "goIdle" =>
           handler.left \in {<<<<"latch", "dit">>, <<"latch", "dah">>>>,
                             <<<<"latch", "dah">>>>, <<>>}
    /\ handler.name = "stop" =>
           /\ ~squeezed
           /\ handler.left \in {<<<<"phys", "dit">>, <<"phys", "dah">>,
                                  <<"latch", "dit">>, <<"latch", "dah">>>>,
                                <<<<"phys", "dah">>, <<"latch", "dit">>, <<"latch", "dah">>>>,
                                <<<<"latch", "dit">>, <<"latch", "dah">>>>,
                                <<<<"latch", "dah">>>>, <<>>}

(* Nothing asks for the paddle, or will when the stop that runs is over.   *)
Forgotten(p) ==
    /\ ~squeezed
    /\ \A c \in handler.seen : c[2] # p
    /\ p \in latch => handler.name = "stop" /\ In(<<"latch", p>>, handler.left)

AskersAreDue ==
    /\ phys \subseteq due /\ latch \subseteq due
    /\ \A c \in handler.seen : c[2] \in due
    /\ squeezed => Paddles \subseteq due
PendingIsDue == \A p \in Paddles : Pending(p) => p \in due /\ (p \notin phys => Forgotten(p))
DueInv == AskersAreDue /\ PendingIsDue /\ Paired(calls) /\ ClearsLeft


(* What is left of a handler that pairs them pairs them; its next store is *)
(* a latch only after its press.                                           *)
LEMMA PairedTail ==
    ASSUME NEW q \in Seq(Calls), q # <<>>, Paired(q)
    PROVE  /\ Paired(Tail(q))
           /\ Tail(q) # <<>> /\ Head(Tail(q)).do = "latch"
                  => Head(q) = [do |-> "press", arg |-> Head(Tail(q)).arg]
<1>1. /\ Tail(q) \in Seq(Calls) /\ Len(Tail(q)) = Len(q) - 1 /\ Len(q) \in Nat \ {0}
      /\ \A i \in 1..Len(Tail(q)) : Tail(q)[i] = q[i + 1]
      /\ Head(q) = q[1]
  BY HeadTailProperties, EmptySeq
<1>2. ASSUME NEW i \in 2..Len(Tail(q)), Tail(q)[i].do = "latch"
      PROVE  Tail(q)[i - 1] = [do |-> "press", arg |-> Tail(q)[i].arg]
  <2>1. i + 1 \in 2..Len(q) /\ i \in 1..Len(Tail(q)) /\ i - 1 \in 1..Len(Tail(q))
        /\ (i + 1) - 1 = i /\ (i - 1) + 1 = i
    BY <1>1
  <2>2. Tail(q)[i] = q[i + 1] /\ Tail(q)[i - 1] = q[i]
    BY <1>1, <2>1
  <2>3. QED
    BY <1>2, <2>1, <2>2 DEF Paired
<1>3. ASSUME Tail(q) # <<>>, Head(Tail(q)).do = "latch"
      PROVE  Head(q) = [do |-> "press", arg |-> Head(Tail(q)).arg]
  <2>1. 1 \in 1..Len(Tail(q)) /\ Head(Tail(q)) = Tail(q)[1]
    BY <1>1, <1>3, EmptySeq
  <2>2. Tail(q)[1] = q[2] /\ 2 \in 2..Len(q) /\ 2 - 1 = 1
    BY <1>1, <2>1
  <2>3. q[2].do = "latch" => q[1] = [do |-> "press", arg |-> q[2].arg]
    BY <2>2 DEF Paired
  <2>4. QED
    BY <1>1, <1>3, <2>1, <2>2, <2>3
<1>4. QED
  BY <1>2, <1>3 DEF Paired

(* Two lists that pair them, the second of which begins afresh.            *)
LEMMA FreshConcat ==
    ASSUME NEW q \in Seq(Calls), NEW r \in Seq(Calls), Fresh(q), Fresh(r)
    PROVE  q \o r \in Seq(Calls) /\ Fresh(q \o r)
<1>1. /\ q \o r \in Seq(Calls) /\ Len(q \o r) = Len(q) + Len(r)
      /\ Len(q) \in Nat /\ Len(r) \in Nat
      /\ \A i \in 1..(Len(q) + Len(r)) :
            (q \o r)[i] = IF i <= Len(q) THEN q[i] ELSE r[i - Len(q)]
  BY ConcatProperties
<1>2. ASSUME NEW i \in 2..Len(q \o r), (q \o r)[i].do = "latch"
      PROVE  (q \o r)[i - 1] = [do |-> "press", arg |-> (q \o r)[i].arg]
  <2>1. i \in 1..(Len(q) + Len(r)) /\ i - 1 \in 1..(Len(q) + Len(r))
    BY <1>1
  <2>2. CASE i <= Len(q)
    <3>1. i \in 2..Len(q) /\ (q \o r)[i] = q[i] /\ (q \o r)[i - 1] = q[i - 1]
      BY <1>1, <2>1, <2>2
    <3>2. QED
      BY <1>2, <3>1 DEF Fresh, Paired
  <2>3. CASE i = Len(q) + 1
    <3>1. (q \o r)[i] = r[1] /\ r # <<>>
      BY <1>1, <2>1, <2>3, EmptySeq
    <3>2. QED
      BY <1>2, <3>1 DEF Fresh
  <2>4. CASE i > Len(q) + 1
    <3>1. /\ i - Len(q) \in 2..Len(r) /\ (i - Len(q)) - 1 = (i - 1) - Len(q)
          /\ (q \o r)[i] = r[i - Len(q)]
          /\ (q \o r)[i - 1] = r[(i - 1) - Len(q)]
      BY <1>1, <2>1, <2>4
    <3>2. QED
      BY <1>2, <3>1 DEF Fresh, Paired
  <2>5. QED
    BY <1>1, <2>2, <2>3, <2>4, SMTT(30)
<1>3. q \o r # <<>> => (q \o r)[1].do # "latch"
  <2>1. CASE q = <<>>
    BY <2>1, <1>1, EmptySeq, ConcatEmptySeq DEF Fresh
  <2>2. CASE q # <<>>
    <3>1. 1 \in 1..(Len(q) + Len(r)) /\ 1 <= Len(q)
      BY <1>1, <2>2, EmptySeq
    <3>2. (q \o r)[1] = q[1]
      BY <1>1, <3>1
    <3>3. QED
      BY <2>2, <3>2 DEF Fresh
  <2>3. QED
    BY <2>1, <2>2
<1>4. QED
  BY <1>1, <1>2, <1>3 DEF Fresh, Paired

(* Every handler of the UI thread is such a list.                          *)
LEMMA TransitionFresh ==
    ASSUME NEW p \in Paddles
    PROVE  Transition(p) \in Seq(Calls) /\ Fresh(Transition(p))
<1>1. Transition(p) \in Seq(Calls)
  BY TransitionTells
<1>2. ASSUME NEW q \in {<<[do |-> "press", arg |-> p], [do |-> "latch", arg |-> p],
                           Post("paddle")>>,
                         <<[do |-> "release", arg |-> p], Post("paddle")>>, <<>>}
      PROVE  Fresh(q)
  <2>1. CASE q = <<[do |-> "press", arg |-> p], [do |-> "latch", arg |-> p], Post("paddle")>>
    BY <2>1 DEF Fresh, Paired, Post
  <2>2. CASE q = <<[do |-> "release", arg |-> p], Post("paddle")>>
    BY <2>2 DEF Fresh, Paired, Post
  <2>3. CASE q = <<>>
    BY <2>3 DEF Fresh, Paired
  <2>4. QED
    BY <1>2, <2>1, <2>2, <2>3
<1>3. Transition(p) \in {<<[do |-> "press", arg |-> p], [do |-> "latch", arg |-> p],
                            Post("paddle")>>,
                         <<[do |-> "release", arg |-> p], Post("paddle")>>, <<>>}
  BY DEF Transition, SetPaddle
<1>4. QED
  BY <1>1, <1>2, <1>3

LEMMA PostFresh ==
    ASSUME NEW message \in Messages
    PROVE  <<Post(message)>> \in Seq(Calls) /\ Fresh(<<Post(message)>>)
<1>1. Post(message).do = "post"
  BY DEF Post
<1>2. Len(<<Post(message)>>) = 1 /\ <<Post(message)>>[1] = Post(message) /\ 2..1 = {}
  OBVIOUS
<1>3. QED
  BY <1>1, <1>2, PostTells DEF Fresh, Paired

LEMMA NothingFresh == <<>> \in Seq(Calls) /\ Fresh(<<>>)
BY DEF Fresh, Paired

LEMMA UiHandlerFresh ==
    ASSUME TypeOK, UiHandler
    PROVE  Fresh(calls')
<1> USE DEF Paddles
<1>1. Transition("dit") \o Transition("dah") \in Seq(Calls)
      /\ Fresh(Transition("dit") \o Transition("dah"))
  BY TransitionFresh, FreshConcat
<1>2. ASSUME NEW q \in {<<>>, <<Post("stop")>>}
      PROVE  Fresh(Transition("dit") \o Transition("dah") \o q)
  <2>1. q \in Seq(Calls) /\ Fresh(q)
    BY NothingFresh, PostFresh DEF Messages
  <2>2. QED
    BY <1>1, <2>1, FreshConcat
<1>3. CASE \E s \in Sources : Disconnected(s)
  BY <1>2, <1>3 DEF Disconnected
<1>4. CASE \E s \in Sources : Remapped(s)
  BY <1>1, <1>4 DEF Remapped
<1>5. CASE \E s \in Sources, p \in Paddles : Press(s, p) \/ Release(s, p)
  BY <1>5, TransitionFresh DEF Press, Release
<1>6. CASE \E setting \in {"mode", "reverse"} : SettingChanged(setting)
  <2>1. PICK setting \in {"mode", "reverse"} : SettingChanged(setting)
    BY <1>6
  <2>2. QED
    BY <2>1, PostFresh DEF SettingChanged, Messages
<1>7. QED
  BY <1>3, <1>4, <1>5, <1>6 DEF UiHandler

(* The stores of the UI thread: a press makes its paddle due before the    *)
(* latch asks for it.                                                      *)
LEMMA UiStepDue ==
    ASSUME TypeOK, DueInv, UiStep
    PROVE  DueInv'
<1>1. PICK do : Call(do)
  BY DEF UiStep, StorePressed, StoreReleased, StoreLatch, PostCall
<1>2. /\ calls # <<>> /\ calls \in Seq(Calls) /\ calls' = Tail(calls)
      /\ Head(calls) \in Calls /\ Head(calls).do = do
      /\ UNCHANGED keyer
  BY <1>1, HeadTailProperties DEF Call, TypeOK
<1>3. /\ Paired(calls')
      /\ \A p : Pending(p)' => Head(calls) = [do |-> "press", arg |-> p]
  <2>1. ASSUME NEW p, Pending(p)' PROVE Head(calls) = [do |-> "press", arg |-> p]
    <3>1. Tail(calls) # <<>> /\ Head(Tail(calls)) = [do |-> "latch", arg |-> p]
      BY <1>2, <2>1 DEF Pending
    <3>2. Head(Tail(calls)).do = "latch" /\ Head(Tail(calls)).arg = p
      BY <3>1
    <3>3. QED
      BY <1>2, <3>1, <3>2, PairedTail DEF DueInv
  <2>2. QED
    BY <1>2, <2>1, PairedTail DEF DueInv
<1>4. UNCHANGED <<handler, squeezed>>
  BY <1>2 DEF keyer
<1>5. ClearsLeft'
  BY <1>4 DEF ClearsLeft, DueInv
<1>6. CASE StorePressed
  <2>1. phys' = phys \cup {Head(calls).arg} /\ due' = due \cup {Head(calls).arg} /\ latch' = latch
    BY <1>6 DEF StorePressed
  <2>2. AskersAreDue'
    BY <1>4, <2>1 DEF AskersAreDue, DueInv
  <2>3. ASSUME NEW p \in Paddles, Pending(p)' PROVE p \in due' /\ p \in phys'
    <3>1. Head(calls).arg = p
      BY <1>3, <2>3
    <3>2. QED
      BY <2>1, <3>1
  <2>4. PendingIsDue'
    BY <2>3 DEF PendingIsDue
  <2>5. QED
    BY <1>3, <1>5, <2>2, <2>4 DEF DueInv
<1>7. CASE StoreReleased \/ StoreLatch \/ PostCall
  <2>1. Head(calls).do # "press"
    BY <1>7 DEF StoreReleased, StoreLatch, PostCall, Call
  <2>2. ASSUME NEW p, Pending(p)' PROVE FALSE
    <3>1. Head(calls).do = "press"
      BY <1>3, <2>2
    <3>2. QED
      BY <2>1, <3>1
  <2>3. PendingIsDue'
    BY <2>2 DEF PendingIsDue
  <2>4. phys' \subseteq phys /\ due' = due
    BY <1>7 DEF StoreReleased, StoreLatch, PostCall
  <2>5. latch' \subseteq due
    <3>1. CASE StoreLatch
      <4>1. Head(calls).arg \in Paddles /\ Head(calls) = [do |-> "latch", arg |-> Head(calls).arg]
        BY <1>2, <3>1 DEF StoreLatch, Call, Calls
      <4>2. Pending(Head(calls).arg)
        BY <1>2, <4>1 DEF Pending
      <4>3. QED
        BY <3>1, <4>1, <4>2 DEF StoreLatch, DueInv, PendingIsDue, AskersAreDue
    <3>2. CASE StoreReleased \/ PostCall
      BY <3>2 DEF StoreReleased, PostCall, DueInv, AskersAreDue
    <3>3. QED
      BY <1>7, <3>1, <3>2
  <2>6. AskersAreDue'
    BY <1>4, <2>4, <2>5 DEF AskersAreDue, DueInv
  <2>7. QED
    BY <1>3, <1>5, <2>3, <2>6 DEF DueInv
<1>8. QED
  BY <1>6, <1>7 DEF UiStep

(* What asked for an element was seen, or is a squeeze.                    *)
LEMMA SeenIsDue ==
    ASSUME DueInv, NEW el \in Elements, Wants(el) \/ squeezed
    PROVE  PaddleOf(el) \in due
<1>1. Phys(el)[2] = PaddleOf(el) /\ Latch(el)[2] = PaddleOf(el)
  BY DEF Phys, Latch
<1>2. PaddleOf(el) \in Paddles
  BY CellsOK
<1>3. QED
  BY <1>1, <1>2 DEF DueInv, AskersAreDue, Wants, Live

(* A paddle that is forgotten is not asked for.                            *)
LEMMA ForgottenIsNotAsked ==
    ASSUME NEW p, Forgotten(p), NEW el, Wants(el) \/ squeezed
    PROVE  PaddleOf(el) # p
<1>1. Phys(el)[2] = PaddleOf(el) /\ Latch(el)[2] = PaddleOf(el)
  BY DEF Phys, Latch
<1>2. QED
  BY <1>1 DEF Forgotten, Wants, Live

(* enterElement.                                                           *)
LEMMA EnterDue ==
    ASSUME TypeOK, DueInv, NEW el \in Elements, Wants(el) \/ squeezed,
           handler.name # "stop", EnterElement(el)
    PROVE  DueInv'
<1>1. /\ squeezed' = FALSE /\ latch' = latch \ {PaddleOf(el)}
      /\ due' = (due \ {PaddleOf(el)}) \cup (phys \cap {PaddleOf(el)})
      /\ handler'.name = "enter" /\ handler'.seen = {}
      /\ phys' = phys /\ calls' = calls
  BY DEF EnterElement, Runs, ui
<1>2. AskersAreDue'
  BY <1>1 DEF AskersAreDue, DueInv
<1>3. ClearsLeft' /\ Paired(calls')
  BY <1>1 DEF ClearsLeft, DueInv
<1>4. ASSUME NEW p \in Paddles, Pending(p)'
      PROVE  p \in due' /\ (p \notin phys' => Forgotten(p)')
  <2>1. Pending(p)
    BY <1>1, <1>4 DEF Pending
  <2>2. p \in due /\ (p \notin phys => Forgotten(p))
    BY <2>1 DEF DueInv, PendingIsDue
  <2>3. CASE p \in phys
    BY <1>1, <2>2, <2>3
  <2>4. CASE p \notin phys
    <3>1. PaddleOf(el) # p
      BY <2>2, <2>4, ForgottenIsNotAsked
    <3>2. p \notin latch
      BY <2>2, <2>4 DEF Forgotten
    <3>3. QED
      BY <1>1, <2>2, <3>1, <3>2 DEF Forgotten
  <2>5. QED
    BY <2>3, <2>4
<1>5. QED
  BY <1>2, <1>3, <1>4 DEF DueInv, PendingIsDue

(* A handler that neither ends nor begins an element changes what asks     *)
(* only by what it saw.                                                    *)
LEMMA HandlerDue ==
    ASSUME DueInv, UNCHANGED <<calls, due>>, phys' \subseteq phys, latch' \subseteq latch,
           squeezed' => squeezed \/ (/\ \E c \in handler.seen : c[2] = "dit"
                                     /\ \E c \in handler.seen : c[2] = "dah"),
           \A c \in handler'.seen : c \in handler.seen
                                        \/ c[2] \in (IF c[1] = "phys" THEN phys ELSE latch),
           ClearsLeft',
           \A p \in Paddles : Pending(p) /\ p \in phys \ phys' => Forgotten(p)',
           \A p \in latch' : handler.name = "stop" /\ In(<<"latch", p>>, handler.left)
                                 => handler'.name = "stop" /\ In(<<"latch", p>>, handler'.left),
           handler.name = "stop" => handler'.seen = {}
    PROVE  DueInv'
<1>1. AskersAreDue'
  <2>1. \A c \in handler'.seen : c[2] \in due
    BY DEF DueInv, AskersAreDue
  <2>2. squeezed' => Paddles \subseteq due
    BY DEF DueInv, AskersAreDue, Paddles
  <2>3. QED
    BY <2>1, <2>2 DEF DueInv, AskersAreDue
<1>2. ASSUME NEW p \in Paddles, Pending(p)'
      PROVE  p \in due' /\ (p \notin phys' => Forgotten(p)')
  <2>1. Pending(p) /\ p \in due /\ (p \notin phys => Forgotten(p))
    BY <1>2 DEF Pending, DueInv, PendingIsDue
  <2>2. CASE p \in phys
    BY <2>1, <2>2
  <2>3. CASE p \notin phys
    <3>1. Forgotten(p)
      BY <2>1, <2>3
    <3>2. ~squeezed' 
      <4>1. p = "dit" \/ p = "dah"
        BY DEF Paddles
      <4>2. QED
        BY <3>1, <4>1 DEF Forgotten
    <3>3. \A c \in handler'.seen : c[2] # p
      <4>1. CASE handler.name = "stop"
        BY <4>1
      <4>2. CASE handler.name # "stop"
        <5>1. p \notin latch
          BY <3>1, <4>2 DEF Forgotten
        <5>2. QED
          BY <2>3, <3>1, <5>1 DEF Forgotten
      <4>3. QED
        BY <4>1, <4>2
    <3>4. p \in latch' => handler'.name = "stop" /\ In(<<"latch", p>>, handler'.left)
      BY <3>1 DEF Forgotten
    <3>5. QED
      BY <2>1, <3>2, <3>3, <3>4 DEF Forgotten
  <2>4. QED
    BY <2>2, <2>3
<1>3. QED
  BY <1>1, <1>2 DEF DueInv, PendingIsDue

LEMMA LoadDue ==
    ASSUME TypeOK, DueInv, Load
    PROVE  DueInv'
<1>1. /\ handler.name \in {"paddle", "timer", "enter"}
      /\ handler'.name = handler.name
      /\ handler'.seen = IF Set(Head(handler.left))
                         THEN handler.seen \cup {Head(handler.left)} ELSE handler.seen
      /\ UNCHANGED <<calls, due, phys, latch, squeezed>>
  BY DEF Load, ui, TypeOK, Handlers
<1>2. \A c \in handler'.seen : c \in handler.seen
                                   \/ c[2] \in (IF c[1] = "phys" THEN phys ELSE latch)
  BY <1>1 DEF Set
<1>3. ClearsLeft'
  BY <1>1 DEF ClearsLeft
<1>4. QED
  BY <1>1, <1>2, <1>3, HandlerDue

(* Both paddles of the elements were seen.                                 *)
LEMMA BothSeen ==
    ASSUME Wants("dit"), Wants("dah")
    PROVE  /\ \E c \in handler.seen : c[2] = "dit"
           /\ \E c \in handler.seen : c[2] = "dah"
<1>1. ASSUME NEW el, Wants(el) PROVE \E c \in handler.seen : c[2] = PaddleOf(el)
  <2>1. Phys(el)[2] = PaddleOf(el) /\ Latch(el)[2] = PaddleOf(el)
    BY DEF Phys, Latch
  <2>2. QED
    BY <1>1, <2>1 DEF Wants, Live
<1>2. {PaddleOf("dit"), PaddleOf("dah")} = {"dit", "dah"}
  BY DEF PaddleOf, Other
<1>3. (\E c \in handler.seen : c[2] = PaddleOf("dit")) /\ (\E c \in handler.seen : c[2] = PaddleOf("dah"))
  BY <1>1
<1>4. QED
  BY <1>2, <1>3

(* A handler that returns to the event loop.                               *)
LEMMA ReturnsDue ==
    ASSUME DueInv, handler' = Waiting, UNCHANGED <<calls, due, phys, latch>>,
           handler.name = "stop" => handler.left = <<>>,
           squeezed' => squeezed \/ (Wants("dit") /\ Wants("dah"))
    PROVE  DueInv'
<1>1. handler'.seen = {} /\ handler'.name = "wait"
  BY WaitingOK
<1>2. ClearsLeft'
  BY <1>1 DEF ClearsLeft
<1>3. squeezed' => squeezed \/ (/\ \E c \in handler.seen : c[2] = "dit"
                                /\ \E c \in handler.seen : c[2] = "dah")
  BY BothSeen
<1>4. ASSUME NEW p PROVE ~(handler.name = "stop" /\ In(<<"latch", p>>, handler.left))
  BY DEF In
<1>5. QED
  BY <1>1, <1>2, <1>3, <1>4, HandlerDue

(* The stores of goIdle and stop: those of the latches come last.          *)
LEMMA ClearDue ==
    ASSUME Inv, DueInv, Clear
    PROVE  DueInv'
<1> DEFINE a == <<"phys", "dit">>
           b == <<"phys", "dah">>
           c == <<"latch", "dit">>
           d == <<"latch", "dah">>
<1>1. /\ handler.name \in {"goIdle", "stop"} /\ handler.left # <<>>
      /\ handler'.name = handler.name /\ handler'.seen = {} /\ handler.seen = {}
      /\ handler'.left = Tail(handler.left)
      /\ UNCHANGED <<calls, due, squeezed>>
      /\ phys' = (IF Head(handler.left)[1] = "phys" THEN phys \ {Head(handler.left)[2]} ELSE phys)
      /\ latch' = (IF Head(handler.left)[1] = "latch" THEN latch \ {Head(handler.left)[2]} ELSE latch)
  BY DEF Clear, ui, Inv, TypeOK, Handlers, HandlersOK
<1>2. /\ Head(<<a, b, c, d>>) = a /\ Tail(<<a, b, c, d>>) = <<b, c, d>>
      /\ Head(<<b, c, d>>) = b /\ Tail(<<b, c, d>>) = <<c, d>>
      /\ Head(<<c, d>>) = c /\ Tail(<<c, d>>) = <<d>>
      /\ Head(<<d>>) = d /\ Tail(<<d>>) = <<>>
  OBVIOUS
<1>3. /\ In(c, <<b, c, d>>) /\ In(d, <<b, c, d>>) /\ In(c, <<c, d>>) /\ In(d, <<c, d>>)
      /\ In(d, <<d>>)
  <2>1. /\ 2 \in 1..Len(<<b, c, d>>) /\ <<b, c, d>>[2] = c
        /\ 3 \in 1..Len(<<b, c, d>>) /\ <<b, c, d>>[3] = d
        /\ 1 \in 1..Len(<<c, d>>) /\ <<c, d>>[1] = c
        /\ 2 \in 1..Len(<<c, d>>) /\ <<c, d>>[2] = d
        /\ 1 \in 1..Len(<<d>>) /\ <<d>>[1] = d
    OBVIOUS
  <2> HIDE DEF a, b, c, d
  <2>2. QED
    BY <2>1 DEF In
<1>4. /\ handler.name = "goIdle" => handler.left \in {<<c, d>>, <<d>>, <<>>}
      /\ handler.name = "stop" =>
             ~squeezed /\ handler.left \in {<<a, b, c, d>>, <<b, c, d>>, <<c, d>>, <<d>>, <<>>}
  BY DEF DueInv, ClearsLeft
<1>5. ClearsLeft'
  <2> HIDE DEF a, b, c, d
  <2>1. /\ handler.name = "goIdle" => Tail(handler.left) \in {<<d>>, <<>>}
        /\ handler.name = "stop" => Tail(handler.left) \in {<<b, c, d>>, <<c, d>>, <<d>>, <<>>}
    BY <1>1, <1>2, <1>4
  <2>2. QED
    BY <1>1, <1>4, <2>1 DEF ClearsLeft, a, b, c, d
<1>6. ASSUME NEW p \in phys \ phys' PROVE Forgotten(p)'
  <2>1. Head(handler.left)[1] = "phys" /\ p = Head(handler.left)[2]
    BY <1>1, <1>6
  <2>2. c[1] # "phys" /\ d[1] # "phys"
    OBVIOUS
  <2>3. handler.name = "stop" /\ handler.left \in {<<a, b, c, d>>, <<b, c, d>>}
    <3> HIDE DEF a, b, c, d
    <3>1. QED
      BY <1>1, <1>2, <1>4, <2>1, <2>2
  <2>4. p = "dit" \/ p = "dah"
    <3>1. Head(handler.left) = a \/ Head(handler.left) = b
      <4> HIDE DEF a, b, c, d
      <4>1. QED
        BY <1>2, <2>3
    <3>2. QED
      BY <2>1, <3>1
  <2>5. In(<<"latch", p>>, handler'.left)
    <3>1. <<"latch", p>> = c \/ <<"latch", p>> = d
      BY <2>4
    <3>2. handler'.left = <<b, c, d>> \/ handler'.left = <<c, d>>
      <4> HIDE DEF a, b, c, d
      <4>1. QED
        BY <1>1, <1>2, <2>3
    <3> HIDE DEF a, b, c, d
    <3>3. QED
      BY <1>3, <3>1, <3>2
  <2>6. ~squeezed'
    BY <1>1, <1>4, <2>3
  <2>7. QED
    BY <1>1, <2>3, <2>5, <2>6 DEF Forgotten
<1>7. ASSUME NEW p \in latch', handler.name = "stop", In(<<"latch", p>>, handler.left)
      PROVE  handler'.name = "stop" /\ In(<<"latch", p>>, handler'.left)
  <2>1. <<"latch", p>> # Head(handler.left)
    <3>1. <<"latch", p>>[1] = "latch" /\ <<"latch", p>>[2] = p
      OBVIOUS
    <3>2. QED
      BY <1>1, <1>7, <3>1
  <2>2. handler.left \in Seq(Cells)
    BY DEF Inv, TypeOK, Handlers
  <2>3. QED
    BY <1>1, <1>7, <2>1, <2>2, InTail
<1>8. phys' \subseteq phys /\ latch' \subseteq latch
  BY <1>1
<1>9. QED
  BY <1>1, <1>5, <1>6, <1>7, <1>8, HandlerDue

(* The steps of the keyer thread.                                          *)
LEMMA KeyerDue ==
    ASSUME Inv, DueInv, KeyerStep \/ TimerFires
    PROVE  DueInv'
<1> DEFINE kept == <<calls, due, phys, latch>>
<1>0. TypeOK
  BY DEF Inv
<1>1. CASE Load
  BY <1>0, <1>1, LoadDue
<1>2. CASE Clear
  BY <1>2, ClearDue
<1>3. CASE PaddleChanged
  <2>1. handler.name = "paddle"
    BY <1>3 DEF PaddleChanged, Loaded
  <2>2. CASE state = "Idle" /\ (Wants("dit") \/ Wants("dah"))
    <3>1. PICK el \in Elements : Wants(el) /\ EnterElement(el)
      BY <1>3, <2>2 DEF PaddleChanged, Elements
    <3>2. QED
      BY <1>0, <2>1, <3>1, EnterDue
  <2>3. CASE ~(state = "Idle" /\ (Wants("dit") \/ Wants("dah")))
    <3>1. /\ handler' = Waiting /\ UNCHANGED <<calls, due, phys, latch>>
          /\ squeezed' = (squeezed \/ (state # "Idle" /\ Wants("dit") /\ Wants("dah")))
      BY <1>3, <2>3 DEF PaddleChanged, Returns, ui
    <3>2. QED
      BY <2>1, <3>1, ReturnsDue
  <2>4. QED
    BY <2>2, <2>3
<1>4. CASE ElementEntered
  <2>1. /\ handler' = Waiting /\ UNCHANGED <<calls, due, phys, latch>> /\ handler.name = "enter"
        /\ squeezed' = (squeezed \/ (Live("dit") /\ Live("dah")))
    BY <1>4 DEF ElementEntered, Returns, ui, Loaded
  <2>2. QED
    BY <2>1, ReturnsDue DEF Wants
<1>5. CASE ElementOver
  <2>1. handler.name = "timer" /\ state \in Elements
    BY <1>0, <1>5 DEF ElementOver, Loaded, TypeOK
  <2>2. CASE NextElements = {}
    <3>1. /\ handler'.name = "goIdle" /\ handler'.seen = {}
          /\ handler'.left = <<<<"latch", "dit">>, <<"latch", "dah">>>>
          /\ UNCHANGED <<calls, due, phys, latch>> /\ squeezed' = FALSE
      BY <1>5, <2>2 DEF ElementOver, GoIdle, Runs, ui
    <3>2. ClearsLeft'
      BY <3>1 DEF ClearsLeft
    <3>3. QED
      BY <2>1, <3>1, <3>2, HandlerDue
  <2>3. CASE NextElements # {}
    <3>1. PICK el \in NextElements : EnterElement(el)
      BY <1>5, <2>3 DEF ElementOver
    <3>2. el \in Elements /\ (Wants(el) \/ squeezed)
      BY <2>1, <3>1, CellsOK DEF NextElements
    <3>3. QED
      BY <1>0, <2>1, <3>1, <3>2, EnterDue
  <2>4. QED
    BY <2>2, <2>3
<1>6. CASE Cleared
  <2>1. /\ handler' = Waiting /\ UNCHANGED <<calls, due, phys, latch, squeezed>>
        /\ handler.left = <<>>
    BY <1>6 DEF Cleared, Returns, Loaded, ui
  <2>2. QED
    BY <2>1, ReturnsDue
<1>7. CASE TakePaddle \/ TimerFires
  <2>1. /\ handler.name = "wait" /\ handler'.name \in {"paddle", "timer"} /\ handler'.seen = {}
        /\ UNCHANGED <<calls, due, phys, latch, squeezed>>
    BY <1>7, WaitingOK DEF TakePaddle, Take, TimerFires, Runs, ui
  <2>2. ClearsLeft'
    BY <2>1 DEF ClearsLeft
  <2>3. QED
    BY <2>1, <2>2, HandlerDue
<1>8. CASE TakeStop
  <2>1. /\ handler.name = "wait" /\ handler'.name = "stop" /\ handler'.seen = {}
        /\ handler'.left = <<<<"phys", "dit">>, <<"phys", "dah">>,
                             <<"latch", "dit">>, <<"latch", "dah">>>>
        /\ UNCHANGED <<calls, due, phys, latch>> /\ squeezed' = FALSE
    BY <1>8, WaitingOK DEF TakeStop, Take, Runs, ui
  <2>2. ClearsLeft'
    BY <2>1 DEF ClearsLeft
  <2>3. QED
    BY <2>1, <2>2, HandlerDue
<1>9. CASE TakeSetting
  <2>1. UNCHANGED <<calls, due, phys, latch, squeezed, handler>>
    BY <1>9 DEF TakeSetting, Take, ui
  <2>2. handler.name = "wait"
    BY <1>9, WaitingOK DEF TakeSetting, Take
  <2>3. ClearsLeft'
    BY <2>1, <2>2 DEF ClearsLeft
  <2>4. QED
    BY <2>1, <2>2, <2>3, HandlerDue
<1>10. QED
  BY <1>1, <1>2, <1>3, <1>4, <1>5, <1>6, <1>7, <1>8, <1>9 DEF KeyerStep

(* Every step of the program keeps what asks for an element due.           *)
LEMMA DueNext ==
    ASSUME Inv, DueInv, [Next]_vars
    PROVE  DueInv'
<1>0. TypeOK
  BY DEF Inv
<1>1. CASE UiHandler
  <2>1. Fresh(calls') /\ UNCHANGED <<box, phys, latch, keyer, due>> /\ calls' \in Seq(Calls)
    BY <1>0, <1>1, UiHandlerFresh, UiHandlerStarts DEF others
  <2>2. ASSUME NEW p, Pending(p)' PROVE FALSE
    <3>1. calls' # <<>> /\ Head(calls') = calls'[1] /\ calls'[1].do = "latch"
      BY <2>1, <2>2 DEF Pending
    <3>2. QED
      BY <2>1, <3>1 DEF Fresh
  <2>3. PendingIsDue'
    BY <2>2 DEF PendingIsDue
  <2>4. AskersAreDue' /\ ClearsLeft'
    BY <2>1 DEF DueInv, AskersAreDue, ClearsLeft, keyer
  <2>5. QED
    BY <2>1, <2>3, <2>4 DEF DueInv, Fresh
<1>2. CASE UiStep
  BY <1>0, <1>2, UiStepDue
<1>3. CASE KeyerStep \/ TimerFires
  BY <1>3, KeyerDue
<1>4. CASE UNCHANGED vars
  BY <1>4 DEF vars, ui, keyer, DueInv, AskersAreDue, PendingIsDue, Pending, Forgotten, Paired,
              ClearsLeft
<1>5. QED
  BY <1>1, <1>2, <1>3, <1>4 DEF Next

(* No step of the keyer thread begins an element whose paddle was not down *)
(* since its last element began, whatever the UI thread stores meanwhile.  *)
THEOREM NoElementFromNowhere == Spec => ElementsAreDue
<1> DEFINE Due == handler'.name = "enter" /\ handler.name # "enter" => PaddleOf(state') \in due
<1>1. Init => DueInv
  <2> SUFFICES ASSUME Init PROVE DueInv
    OBVIOUS
  <2>1. handler.name = "wait" /\ handler.seen = {} /\ calls = <<>>
    BY WaitingOK DEF Init
  <2>2. Paired(<<>>)
    BY NothingFresh DEF Fresh
  <2>3. QED
    BY <2>1, <2>2 DEF Init, DueInv, AskersAreDue, PendingIsDue, Pending, ClearsLeft
<1>2. Inv /\ DueInv /\ [Next]_vars => DueInv'
  BY DueNext
<1>3. Inv /\ DueInv /\ [Next]_vars => [Due]_vars
  <2> SUFFICES ASSUME Inv, DueInv, Next, handler'.name = "enter", handler.name # "enter"
               PROVE  PaddleOf(state') \in due
    BY DEF vars
  <2>1. ASSUME NEW el \in Elements, Wants(el) \/ squeezed, EnterElement(el)
        PROVE  PaddleOf(state') \in due
    BY <2>1, SeenIsDue DEF EnterElement
  <2>2. CASE PaddleChanged
    BY <2>1, <2>2, WaitingOK DEF PaddleChanged, Returns, Elements
  <2>3. CASE ElementOver
    <3>1. state \in Elements
      BY <2>3 DEF ElementOver, Loaded, Inv, TypeOK
    <3>2. CASE NextElements = {}
      BY <2>3, <3>2 DEF ElementOver, GoIdle, Runs
    <3>3. CASE NextElements # {}
      <4>1. PICK el \in NextElements : EnterElement(el)
        BY <2>3, <3>3 DEF ElementOver
      <4>2. el \in Elements /\ (Wants(el) \/ squeezed)
        BY <3>1, <4>1, CellsOK DEF NextElements
      <4>3. QED
        BY <2>1, <4>1, <4>2
    <3>4. QED
      BY <3>2, <3>3
  <2>4. CASE Load \/ Clear
    BY <2>4 DEF Load, Clear, Inv, TypeOK, Handlers
  <2>5. CASE ElementEntered \/ Cleared
    BY <2>5, WaitingOK DEF ElementEntered, Cleared, Returns
  <2>6. CASE TakePaddle \/ TakeStop \/ TimerFires
    BY <2>6 DEF TakePaddle, TakeStop, TimerFires, Runs
  <2>7. CASE TakeSetting
    BY <2>7 DEF TakeSetting
  <2>8. CASE UiHandler \/ UiStep
    <3>1. UNCHANGED handler
      BY <2>8, UiHandlerStarts, UiStepTakes DEF Inv, others, keyer
    <3>2. QED
      BY <3>1
  <2>9. QED
    BY <2>2, <2>3, <2>4, <2>5, <2>6, <2>7, <2>8 DEF Next, KeyerStep
<1>4. [](Inv /\ DueInv) /\ [][Next]_vars => [][Due]_vars
  BY <1>3, PTL
<1>5. QED
  BY <1>1, <1>2, <1>4, Invariance, PTL DEF Spec, ElementsAreDue

(***************************************************************************)
(* The devices.  What a step does to the inputs.                           *)
(***************************************************************************)
(* One input of one source is set, one source is cleared, or nothing.      *)
Uses == Held!Next \/ UNCHANGED held

(* Clearing a source.                                                      *)
LEMMA ClearSourceOK ==
    ASSUME DevicesTypeOK, NEW s \in Devices, Held!ClearSource(s)
    PROVE  /\ Uses /\ held' \in [Devices -> SUBSET Inputs]
           /\ held'[s] = {} /\ \A t \in Devices : held'[t] \subseteq held[t]
BY DEF DevicesTypeOK, Uses, Held!Next, Held!ClearSource

(* Setting an input.                                                       *)
LEMMA SetInputOK ==
    ASSUME DevicesTypeOK, NEW s \in Devices, NEW input \in Inputs, NEW pressed \in BOOLEAN,
           Held!SetInput(s, input, pressed)
    PROVE  /\ Uses /\ held' \in [Devices -> SUBSET Inputs]
           /\ \A t \in Devices \ {s} : held'[t] = held[t]
           /\ ~pressed => held'[s] \subseteq held[s]
<1>1. Uses
  BY DEF Uses, Held!Next
<1>2. held' = [held EXCEPT ![s] = IF pressed THEN @ \cup {input} ELSE @ \ {input}]
  BY DEF Held!SetInput
<1>3. QED
  BY <1>1, <1>2 DEF DevicesTypeOK

(* Passing on a paddle.                                                    *)
LEMMA EmitPaddleOK ==
    ASSUME DevicesTypeOK, NEW s \in Devices, NEW c, NEW pressed \in BOOLEAN,
           EmitPaddle(s, c, pressed)
    PROVE  /\ Uses /\ held' \in [Devices -> SUBSET Inputs]
           /\ \A t \in Devices \ {s} : held'[t] = held[t]
           /\ ~pressed => held'[s] \subseteq held[s]
<1>1. InputOf(c) \in Inputs /\ "key" \in Inputs
  BY DEF InputOf, Inputs
<1>2. CASE UNCHANGED held
  BY <1>2 DEF Uses, DevicesTypeOK
<1>3. CASE \E input \in Inputs : Held!SetInput(s, input, pressed)
  BY <1>3, SetInputOK
<1>4. QED
  BY <1>1, <1>2, <1>3 DEF EmitPaddle

(***************************************************************************)
(* The invariant.  A source of the Android build holds inputs only while   *)
(* its device is known to be connected, and a link that is being opened    *)
(* anew is not taken for connected: then what the poll finds after a       *)
(* connected device is a link that is gone.                                *)
(***************************************************************************)
Known(s) ==
    /\ link[s] = "opening" => known[s] # "open"
    /\ held[s] # {} => known[s] = "open"
ConnInv == DevicesTypeOK /\ (~rtmidi => \A s \in Devices : Known(s))

(* What a step keeps.                                                      *)
DeviceKept == Uses /\ ConnInv'

(* The queues keep their type when edges are added, taken or dropped.      *)
LEMMA EventsOK ==
    ASSUME DevicesTypeOK, NEW s \in Devices
    PROVE  /\ [events EXCEPT ![s] = <<>>] \in [Devices -> Seq(Edges)]
           /\ \A e \in Edges : [events EXCEPT ![s] = Append(@, e)] \in [Devices -> Seq(Edges)]
           /\ events[s] # <<>> =>
                /\ Head(events[s]) \in Edges
                /\ [events EXCEPT ![s] = Tail(@)] \in [Devices -> Seq(Edges)]
<1>1. events[s] \in Seq(Edges) /\ <<>> \in Seq(Edges)
  BY DEF DevicesTypeOK
<1>2. \A e \in Edges : Append(events[s], e) \in Seq(Edges)
  BY <1>1
<1>3. events[s] # <<>> => Head(events[s]) \in Edges /\ Tail(events[s]) \in Seq(Edges)
  BY <1>1, HeadTailProperties
<1>4. QED
  BY <1>1, <1>2, <1>3 DEF DevicesTypeOK

(* The steps of a link change nothing that the UI thread keeps.            *)
LEMMA LinkKeeps ==
    ASSUME ConnInv, NEW s \in Devices,
           \/ \E c \in Contacts : Touch(s, c)
           \/ LinkOpens(s) \/ LinkFails(s) \/ LinkLost(s)
    PROVE  DeviceKept
<1>1. UNCHANGED <<held, known, paddle, setup>>
  BY DEF Touch, LinkOpens, LinkFails, LinkLost, paddle
<1>2. contact' \in [Devices -> SUBSET Contacts] /\ pending' \subseteq Devices
  BY DEF Touch, LinkOpens, LinkFails, LinkLost, ConnInv, DevicesTypeOK
<1>3. /\ link' \in [Devices -> Links]
      /\ \A t \in Devices : link'[t] = "opening" => link[t] = "opening"
  BY DEF Touch, LinkOpens, LinkFails, LinkLost, ConnInv, DevicesTypeOK, Links
<1>4. events' \in [Devices -> Seq(Edges)]
  <2>1. PortOpened \in Edges /\ \A c \in Contacts, b \in BOOLEAN : Edge(c, b) \in Edges
    BY DEF PortOpened, Edge, Edges
  <2>2. DevicesTypeOK
    BY DEF ConnInv
  <2>3. CASE \E c \in Contacts : Touch(s, c)
    <3>1. PICK c \in Contacts : Touch(s, c)
      BY <2>3
    <3>2. Edge(c, c \notin contact[s]) \in Edges
      BY <2>1
    <3>3. QED
      BY <3>1, <3>2, <2>2, EventsOK DEF Touch, DevicesTypeOK
  <2>4. CASE LinkOpens(s)
    BY <2>1, <2>2, <2>4, EventsOK DEF LinkOpens, DevicesTypeOK
  <2>5. CASE LinkFails(s) \/ LinkLost(s)
    BY <2>2, <2>5, EventsOK DEF LinkFails, LinkLost, DevicesTypeOK
  <2>6. QED
    BY <2>3, <2>4, <2>5
<1>5. DevicesTypeOK'
  BY <1>1, <1>2, <1>3, <1>4 DEF ConnInv, DevicesTypeOK, paddle, setup
<1>6. QED
  BY <1>1, <1>3, <1>5 DEF DeviceKept, Uses, ConnInv, Known, setup

(* Asking for a connection touches no input: the device is not connected.  *)
LEMMA OpenKeeps ==
    ASSUME ConnInv, NEW s \in Devices, OpenPort(s) \/ OpenRefused(s)
    PROVE  DeviceKept
<1>1. held' = held /\ contact' = contact /\ straight' = straight /\ rtmidi' = rtmidi
  BY DEF OpenPort, OpenRefused, setup
<1>2. /\ raw' \subseteq confirmed' /\ confirmed' \subseteq Contacts
      /\ debouncing' = debouncing /\ pending' \subseteq Devices
  BY DEF OpenPort, OpenRefused, paddle, ConnInv, DevicesTypeOK
<1>3. link' \in [Devices -> Links] /\ known' \in [Devices -> Links]
  BY DEF OpenPort, OpenRefused, ConnInv, DevicesTypeOK, Links
<1>4. events' \in [Devices -> Seq(Edges)]
  <2>1. events' = events \/ events' = [events EXCEPT ![s] = <<>>]
    BY DEF OpenPort, OpenRefused
  <2>2. QED
    BY <2>1, EventsOK DEF ConnInv, DevicesTypeOK
<1>5. DevicesTypeOK'
  BY <1>1, <1>2, <1>3, <1>4 DEF ConnInv, DevicesTypeOK
<1>6. ASSUME ~rtmidi, NEW t \in Devices PROVE Known(t)'
  <2>1. Known(t) /\ known[s] # "open"
    BY <1>6 DEF OpenPort, OpenRefused, ConnInv
  <2>2. \/ link' = [link EXCEPT ![s] = "opening"] /\ known' = [known EXCEPT ![s] = "opening"]
        \/ link' = [link EXCEPT ![s] = "failed"] /\ known' = known
    BY <1>6 DEF OpenPort, OpenRefused
  <2>3. CASE t = s
    BY <2>1, <2>2, <2>3, <1>1 DEF Known, ConnInv, DevicesTypeOK
  <2>4. CASE t # s
    BY <2>1, <2>2, <2>4, <1>1 DEF Known, ConnInv, DevicesTypeOK
  <2>5. QED
    BY <2>3, <2>4
<1>7. QED
  BY <1>1, <1>5, <1>6 DEF DeviceKept, Uses, ConnInv

(* Closing a port releases the source.                                     *)
LEMMA CloseKeeps ==
    ASSUME ConnInv, NEW s \in Devices, Closes(s), Held!ClearSource(s),
           contact' = contact, straight' \in BOOLEAN, rtmidi' = rtmidi
    PROVE  DeviceKept
<1>1. /\ Uses /\ held' \in [Devices -> SUBSET Inputs]
      /\ held'[s] = {} /\ \A t \in Devices \ {s} : held'[t] = held[t]
  BY ClearSourceOK DEF ConnInv, DevicesTypeOK, Held!ClearSource
<1>2. /\ raw' \subseteq confirmed' /\ confirmed' \subseteq Contacts
      /\ debouncing' \subseteq Contacts /\ pending' \subseteq Devices
  BY DEF Closes, paddle, ConnInv, DevicesTypeOK
<1>3. /\ link' \in [Devices -> Links] /\ known' \in [Devices -> Links]
      /\ link' = [link EXCEPT ![s] = "closed"] /\ known' = [known EXCEPT ![s] = "closed"]
  BY DEF Closes, ConnInv, DevicesTypeOK, Links
<1>4. events' \in [Devices -> Seq(Edges)]
  BY EventsOK DEF Closes, ConnInv, DevicesTypeOK
<1>5. DevicesTypeOK'
  BY <1>1, <1>2, <1>3, <1>4 DEF ConnInv, DevicesTypeOK
<1>6. ~rtmidi => \A t \in Devices : Known(t)'
  BY <1>1, <1>3 DEF Known, ConnInv, DevicesTypeOK
<1>7. QED
  BY <1>1, <1>5, <1>6 DEF DeviceKept, ConnInv

(* A poll that finds another state than connected has released the source. *)
LEMMA ConnectionPollKeeps ==
    ASSUME ConnInv, NEW s \in Devices, ConnectionPoll(s)
    PROVE  DeviceKept
<1>1. ~rtmidi /\ known[s] # link[s] /\ known' = [known EXCEPT ![s] = link[s]]
      /\ UNCHANGED <<contact, link, pending, events, raw, confirmed, debouncing, straight, rtmidi>>
  BY DEF ConnectionPoll, paddle, setup
<1>2. known' \in [Devices -> Links] /\ known'[s] = link[s]
  BY <1>1 DEF ConnInv, DevicesTypeOK
<1>3. /\ Uses /\ held' \in [Devices -> SUBSET Inputs]
      /\ \A t \in Devices \ {s} : held'[t] = held[t]
  BY ClearSourceOK DEF ConnectionPoll, Uses, ConnInv, DevicesTypeOK, Held!ClearSource
<1>4. DevicesTypeOK'
  BY <1>1, <1>2, <1>3 DEF ConnInv, DevicesTypeOK
<1>5. held'[s] = {}
  <2>1. CASE known[s] = "open"
    <3>1. link[s] \in {"failed", "closed"}
      BY <2>1, <1>1 DEF ConnInv, Known, DevicesTypeOK, Links
    <3>2. QED
      BY <2>1, <3>1, ClearSourceOK DEF ConnectionPoll, ConnInv
  <2>2. CASE known[s] # "open"
    BY <2>2, <1>1 DEF ConnectionPoll, ConnInv, Known
  <2>3. QED
    BY <2>1, <2>2
<1>6. Known(s)'
  BY <1>1, <1>2, <1>5 DEF Known, ConnInv, DevicesTypeOK
<1>7. \A t \in Devices \ {s} : known'[t] = known[t] /\ link'[t] = link[t]
  BY <1>1 DEF ConnInv, DevicesTypeOK
<1>8. QED
  BY <1>3, <1>4, <1>6, <1>7, <1>1 DEF DeviceKept, ConnInv, Known

(* The debounce: what is pressed is confirmed in the same step.            *)
LEMMA OnRawOK ==
    ASSUME DevicesTypeOK, NEW s \in Devices, NEW c \in Contacts, NEW pressed \in BOOLEAN,
           OnRaw(s, c, pressed)
    PROVE  /\ Uses /\ held' \in [Devices -> SUBSET Inputs]
           /\ \A t \in Devices \ {s} : held'[t] = held[t]
           /\ raw' \subseteq confirmed' /\ confirmed' \subseteq Contacts
           /\ debouncing' \subseteq Contacts
<1>1. CASE pressed /\ c \notin confirmed
  <2>1. /\ raw' = raw \cup {c} /\ confirmed' = confirmed \cup {c}
        /\ debouncing' = debouncing \ {c} /\ EmitPaddle(s, c, TRUE)
    BY <1>1 DEF OnRaw
  <2>2. /\ Uses /\ held' \in [Devices -> SUBSET Inputs]
        /\ \A t \in Devices \ {s} : held'[t] = held[t]
    BY <2>1, EmitPaddleOK
  <2>3. QED
    BY <2>1, <2>2 DEF DevicesTypeOK
<1>2. CASE ~(pressed /\ c \notin confirmed)
  <2>1. /\ raw' = (IF pressed THEN raw \cup {c} ELSE raw \ {c})
        /\ debouncing' = debouncing \cup {c}
        /\ held' = held /\ confirmed' = confirmed
    BY <1>2 DEF OnRaw
  <2>2. raw' \subseteq confirmed'
    BY <2>1, <1>2 DEF DevicesTypeOK
  <2>3. QED
    BY <2>1, <2>2 DEF Uses, DevicesTypeOK
<1>3. QED
  BY <1>1, <1>2

(* An edge sets at most an input of the source it comes from, which is     *)
(* connected if its edges are polled.                                      *)
LEMMA EdgeArrivesKeeps ==
    ASSUME ConnInv, NEW s \in Devices, EdgeArrives(s)
    PROVE  DeviceKept
<1> DEFINE edge == Head(events[s])
<1>1. edge \in Edges /\ events' \in [Devices -> Seq(Edges)]
  BY EventsOK DEF EdgeArrives, ConnInv
<1>2. UNCHANGED <<contact, link, pending, straight, rtmidi>>
  BY DEF EdgeArrives, setup
<1>3. /\ known' \in [Devices -> Links]
      /\ ~rtmidi => known' = known
      /\ \A t \in Devices \ {s} : known'[t] = known[t]
      /\ ~rtmidi => known[s] = "open"
  BY DEF EdgeArrives, ConnInv, DevicesTypeOK, Links
<1>4. /\ Uses /\ held' \in [Devices -> SUBSET Inputs]
      /\ \A t \in Devices \ {s} : held'[t] = held[t]
      /\ raw' \subseteq confirmed' /\ confirmed' \subseteq Contacts
      /\ debouncing' \subseteq Contacts
  <2>1. CASE edge = PortOpened
    BY <2>1 DEF EdgeArrives, paddle, Uses, ConnInv, DevicesTypeOK
  <2>2. CASE edge # PortOpened /\ s \notin Debounced
    <3>1. Held!SetInput(s, InputOf(edge.on), edge.pressed) /\ UNCHANGED paddle
      BY <2>2 DEF EdgeArrives
    <3>2. InputOf(edge.on) \in Inputs /\ edge.pressed \in BOOLEAN
      <4>1. edge.pressed \in BOOLEAN
        BY <1>1, <2>2 DEF Edges
      <4>2. QED
        BY <4>1 DEF InputOf, Inputs
    <3>3. QED
      BY <3>1, <3>2, SetInputOK DEF paddle, ConnInv, DevicesTypeOK
  <2>3. CASE edge # PortOpened /\ s \in Debounced
    <3>1. OnRaw(s, edge.on, edge.pressed)
      BY <2>3 DEF EdgeArrives
    <3>2. edge.pressed \in BOOLEAN /\ edge.on \in Contacts
      BY <1>1, <2>3 DEF Edges
    <3>3. QED
      BY <3>1, <3>2, OnRawOK DEF ConnInv
  <2>4. QED
    BY <2>1, <2>2, <2>3
<1>5. DevicesTypeOK'
  BY <1>1, <1>2, <1>3, <1>4 DEF ConnInv, DevicesTypeOK
<1>6. QED
  BY <1>2, <1>3, <1>4, <1>5 DEF DeviceKept, ConnInv, Known

(* The debounce timer confirms a release, never a press: what was pressed  *)
(* was confirmed at once.                                                  *)
LEMMA DebounceFiresKeeps ==
    ASSUME ConnInv, NEW s \in Devices, NEW c \in Contacts, DebounceFires(s, c)
    PROVE  DeviceKept
<1>1. UNCHANGED <<contact, link, pending, known, events, raw, straight, rtmidi>>
  BY DEF DebounceFires, setup
<1>2. /\ raw' \subseteq confirmed' /\ confirmed' \subseteq Contacts
      /\ debouncing' \subseteq Contacts
  BY DEF DebounceFires, ConnInv, DevicesTypeOK
<1>3. /\ Uses /\ held' \in [Devices -> SUBSET Inputs]
      /\ \A t \in Devices \ {s} : held'[t] = held[t]
      /\ held'[s] \subseteq held[s]
  <2>1. CASE (c \in raw) # (c \in confirmed)
    <3>1. c \notin raw /\ EmitPaddle(s, c, c \in raw)
      BY <2>1 DEF DebounceFires, ConnInv, DevicesTypeOK
    <3>2. (c \in raw) \in BOOLEAN
      OBVIOUS
    <3>3. QED
      BY <3>1, <3>2, EmitPaddleOK DEF ConnInv
  <2>2. CASE ~((c \in raw) # (c \in confirmed))
    BY <2>2 DEF DebounceFires, Uses, ConnInv, DevicesTypeOK
  <2>3. QED
    BY <2>1, <2>2
<1>4. DevicesTypeOK'
  BY <1>1, <1>2, <1>3 DEF ConnInv, DevicesTypeOK
<1>5. QED
  BY <1>1, <1>3, <1>4 DEF DeviceKept, ConnInv, Known

(* A new mapping releases what the source holds.                           *)
LEMMA MappingChangedKeeps ==
    ASSUME ConnInv, NEW s \in Devices, MappingChanged(s)
    PROVE  DeviceKept
<1>1. UNCHANGED <<contact, link, pending, known, events, raw, confirmed, debouncing, straight, rtmidi>>
  BY DEF MappingChanged, paddle, setup
<1>2. /\ Uses /\ held' \in [Devices -> SUBSET Inputs]
      /\ \A t \in Devices : held'[t] \subseteq held[t]
  BY ClearSourceOK DEF MappingChanged, ConnInv
<1>3. DevicesTypeOK'
  BY <1>1, <1>2 DEF ConnInv, DevicesTypeOK
<1>4. QED
  BY <1>1, <1>2, <1>3 DEF DeviceKept, ConnInv, Known

(* Every step keeps the invariant and uses the aggregator as it may.       *)
LEMMA ConnNext ==
    ASSUME ConnInv, [DevicesNext]_deviceVars
    PROVE  DeviceKept
<1>1. CASE UNCHANGED deviceVars
  BY <1>1 DEF deviceVars, paddle, DeviceKept, Uses, ConnInv, DevicesTypeOK, Known, setup
<1>2. CASE DevicesNext
  <2>1. PICK s \in Devices : Step(s)
    BY <1>2 DEF DevicesNext
  <2>2. CASE ClosePort(s)
    <3>1. straight' \in BOOLEAN /\ contact' = contact /\ rtmidi' = rtmidi
      BY <2>2 DEF ClosePort, ConnInv, DevicesTypeOK, setup
    <3>2. QED
      BY <2>2, <3>1, CloseKeeps DEF ClosePort
  <2>3. CASE KeyingModeChanged(s)
    <3>1. straight' \in BOOLEAN /\ contact' = contact /\ rtmidi' = rtmidi
      BY <2>3 DEF KeyingModeChanged, ConnInv, DevicesTypeOK, setup
    <3>2. CASE known[s] = "open"
      BY <2>3, <3>1, <3>2, CloseKeeps DEF KeyingModeChanged
    <3>3. CASE known[s] # "open"
      <4>1. UNCHANGED <<held, link, pending, known, events, raw, confirmed, debouncing>>
        BY <2>3, <3>3 DEF KeyingModeChanged, paddle
      <4>2. QED
        BY <3>1, <4>1 DEF DeviceKept, Uses, ConnInv, DevicesTypeOK, Known
    <3>4. QED
      BY <3>2, <3>3
  <2>4. CASE \E c \in Contacts : DebounceFires(s, c)
    BY <2>4, DebounceFiresKeeps
  <2>5. CASE OpenPort(s) \/ OpenRefused(s)
    BY <2>5, OpenKeeps
  <2>6. CASE \/ \E c \in Contacts : Touch(s, c)
             \/ LinkOpens(s) \/ LinkFails(s) \/ LinkLost(s)
    BY <2>6, LinkKeeps
  <2>7. QED
    BY <2>1, <2>2, <2>3, <2>4, <2>5, <2>6, ConnectionPollKeeps, EdgeArrivesKeeps,
       MappingChangedKeeps DEF Step
<1>3. QED
  BY <1>1, <1>2

(* At first nothing is connected and nothing is held.                      *)
LEMMA ConnInit == DevicesInit => ConnInv /\ Held!Init
<1>1. ASSUME DevicesInit PROVE Held!Init /\ held = [s \in Devices |-> {}]
  BY <1>1 DEF DevicesInit, Held!Init
<1>2. ASSUME DevicesInit PROVE [s \in Devices |-> <<>>] \in [Devices -> Seq(Edges)]
  OBVIOUS
<1>3. QED
  BY <1>1, <1>2 DEF DevicesInit, ConnInv, DevicesTypeOK, Known, Links, Inputs

(* The invariant holds of every behaviour.                                 *)
LEMMA ConnInvariance == DevicesSpec => []ConnInv
<1>1. ConnInv /\ [DevicesNext]_deviceVars => ConnInv'
  BY ConnNext DEF DeviceKept
<1>2. QED
  BY ConnInit, <1>1, PTL DEF DevicesSpec

(***************************************************************************)
(* The theorems.                                                           *)
(***************************************************************************)
(* Types, and that what is pressed was passed on as pressed.               *)
THEOREM DeviceTypes == DevicesSpec => []DevicesTypeOK
<1>1. ConnInv => DevicesTypeOK
  BY DEF ConnInv
<1>2. QED
  BY <1>1, ConnInvariance, PTL

(* On Android a source holds inputs only while its device is connected.    *)
THEOREM HeldOnlyWhileConnected == DevicesSpec => []InputsNeedDevice
<1>1. ConnInv => InputsNeedDevice
  BY DEF ConnInv, Known, InputsNeedDevice
<1>2. QED
  BY <1>1, ConnInvariance, PTL

(* The devices implement the use of the aggregator that its specification  *)
(* describes.                                                              *)
THEOREM DevicesUseAggregator == DevicesSpec => UsesAggregator
<1>1. ConnInv /\ [DevicesNext]_deviceVars => [Held!Next]_held
  BY ConnNext DEF DeviceKept, Uses
<1>2. DevicesSpec => Held!Init /\ [][Held!Next]_held
  BY ConnInit, <1>1, ConnInvariance, PTL DEF DevicesSpec
<1>3. QED
  BY <1>2 DEF UsesAggregator, Held!Spec

(***************************************************************************)
(* The keying mode.                                                        *)
(***************************************************************************)
Matches(s) == IF straight THEN held[s] \subseteq {"key"} ELSE "key" \notin held[s]
Matching == \A s \in Debounced : Matches(s)

(* What the paddle passes on is an input of the mode of now.               *)
LEMMA EmitPaddleMatches ==
    ASSUME ConnInv, Matching, NEW s \in Debounced, NEW c, NEW pressed \in BOOLEAN,
           EmitPaddle(s, c, pressed), straight' = straight
    PROVE  Matching'
<1>1. s \in Devices /\ held[s] \subseteq Inputs /\ Matches(s)
  BY DevicesAssumption DEF ConnInv, DevicesTypeOK, Matching
<1>2. Matches(s)'
  <2>1. CASE UNCHANGED held
    BY <1>1, <2>1 DEF Matches
  <2>2. ASSUME NEW input, Held!SetInput(s, input, pressed),
               input = "key" <=> straight
        PROVE  Matches(s)'
    <3>1. held'[s] = IF pressed THEN held[s] \cup {input} ELSE held[s] \ {input}
      BY <1>1, <2>2 DEF Held!SetInput, ConnInv, DevicesTypeOK
    <3>2. QED
      BY <1>1, <2>2, <3>1 DEF Matches
  <2>3. InputOf(c) # "key"
    BY DEF InputOf
  <2>4. QED
    BY <2>1, <2>2, <2>3 DEF EmitPaddle
<1>3. \A t \in Debounced : t = s
  BY DevicesAssumption
<1>4. QED
  BY <1>2, <1>3 DEF Matching

(* A step keeps the inputs in the mode: it passes on a contact, changes    *)
(* nothing of a paddle, or releases it; when the mode changes, a paddle    *)
(* that is not connected holds nothing.                                    *)
LEMMA MatchingKeeps ==
    ASSUME ConnInv, ~rtmidi, Matching, [DevicesNext]_deviceVars
    PROVE  Matching'
<1>0. \A s \in Debounced : s \in Devices
  BY DevicesAssumption
<1>1. ASSUME straight' = straight, \A s \in Debounced : held'[s] \subseteq held[s]
      PROVE  Matching'
  BY <1>1 DEF Matching, Matches
<1>2. CASE UNCHANGED <<held, straight>>
  BY <1>1, <1>2
<1>3. ASSUME NEW s \in Devices, Held!ClearSource(s), straight' = straight
      PROVE  Matching'
  <2>1. \A t \in Devices : held'[t] \subseteq held[t]
    BY <1>3, ClearSourceOK DEF ConnInv
  <2>2. QED
    BY <1>0, <1>1, <1>3, <2>1
<1>4. CASE DevicesNext
  <2>1. PICK s \in Devices : Step(s)
    BY <1>4 DEF DevicesNext
  <2>2. CASE \/ \E c \in Contacts : Touch(s, c)
             \/ LinkOpens(s) \/ LinkFails(s) \/ LinkLost(s)
             \/ OpenPort(s) \/ OpenRefused(s)
    BY <1>2, <2>2 DEF Touch, LinkOpens, LinkFails, LinkLost, OpenPort, OpenRefused, setup
  <2>3. CASE ClosePort(s) \/ MappingChanged(s)
    BY <1>3, <2>3 DEF ClosePort, MappingChanged, setup
  <2>4. CASE ConnectionPoll(s)
    BY <1>2, <1>3, <2>4 DEF ConnectionPoll, setup
  <2>5. CASE KeyingModeChanged(s)
    <3>1. \A t \in Debounced : t = s
      BY <2>5, DevicesAssumption DEF KeyingModeChanged
    <3>2. held'[s] = {}
      <4>1. CASE known[s] = "open"
        BY <2>5, <4>1, ClearSourceOK DEF KeyingModeChanged, ConnInv
      <4>2. CASE known[s] # "open"
        BY <2>5, <4>2 DEF KeyingModeChanged, ConnInv, Known
      <4>3. QED
        BY <4>1, <4>2
    <3>3. Matches(s)'
      BY <3>2 DEF Matches
    <3>4. QED
      BY <3>1, <3>3 DEF Matching
  <2>6. CASE EdgeArrives(s)
    <3> DEFINE edge == Head(events[s])
    <3>1. straight' = straight /\ edge \in Edges
      BY <2>6, EventsOK DEF EdgeArrives, setup, ConnInv
    <3>2. CASE edge = PortOpened
      BY <1>2, <2>6, <3>1, <3>2 DEF EdgeArrives
    <3>3. CASE edge # PortOpened /\ s \notin Debounced
      <4>1. Held!SetInput(s, InputOf(edge.on), edge.pressed)
        BY <2>6, <3>3 DEF EdgeArrives
      <4>2. \A t \in Devices : t # s => held'[t] = held[t]
        BY <4>1 DEF Held!SetInput, ConnInv, DevicesTypeOK
      <4>3. QED
        BY <1>0, <1>1, <3>1, <3>3, <4>2
    <3>4. CASE edge # PortOpened /\ s \in Debounced
      <4>1. OnRaw(s, edge.on, edge.pressed)
        BY <2>6, <3>4 DEF EdgeArrives
      <4>2. CASE UNCHANGED held
        BY <1>2, <3>1, <4>2
      <4>3. CASE EmitPaddle(s, edge.on, TRUE)
        BY <3>1, <3>4, <4>3, EmitPaddleMatches
      <4>4. QED
        BY <4>1, <4>2, <4>3 DEF OnRaw
    <3>5. QED
      BY <3>2, <3>3, <3>4
  <2>7. CASE \E c \in Contacts : DebounceFires(s, c)
    <3>1. PICK c \in Contacts : DebounceFires(s, c)
      BY <2>7
    <3>2. straight' = straight /\ s \in Debounced
      BY <3>1 DEF DebounceFires, setup
    <3>3. CASE UNCHANGED held
      BY <1>2, <3>2, <3>3
    <3>4. CASE EmitPaddle(s, c, c \in raw)
      <4>1. (c \in raw) \in BOOLEAN
        OBVIOUS
      <4>2. QED
        BY <3>2, <3>4, <4>1, EmitPaddleMatches
    <3>5. QED
      BY <3>1, <3>3, <3>4 DEF DebounceFires
  <2>8. QED
    BY <2>1, <2>2, <2>3, <2>4, <2>5, <2>6, <2>7 DEF Step
<1>5. QED
  BY <1>2, <1>4 DEF deviceVars, setup

(* On Android no contact stays held as an input of the keying mode of      *)
(* before: the change of mode closes a connected paddle, and one that is   *)
(* not connected holds nothing.                                            *)
THEOREM HeldInTheModeOfNow == DevicesSpec => []InputsMatchMode
<1> DEFINE I == ~rtmidi => Matching
<1>1. DevicesInit => I
  <2>1. ASSUME DevicesInit PROVE \A s \in Devices : held[s] = {} /\ straight = FALSE
    BY <2>1 DEF DevicesInit, Held!Init
  <2>2. QED
    BY <2>1, DevicesAssumption DEF Matching, Matches
<1>2. ConnInv /\ I /\ [DevicesNext]_deviceVars => I'
  <2>1. [DevicesNext]_deviceVars => rtmidi' = rtmidi
    <3>1. ASSUME NEW s \in Devices, Step(s) PROVE rtmidi' = rtmidi
      <4>1. CASE \E c \in Contacts : Touch(s, c) \/ DebounceFires(s, c)
        BY <4>1 DEF Touch, DebounceFires, setup
      <4>2. CASE \/ LinkOpens(s) \/ LinkFails(s) \/ LinkLost(s)
                 \/ OpenPort(s) \/ OpenRefused(s)
        BY <4>2 DEF LinkOpens, LinkFails, LinkLost, OpenPort, OpenRefused, setup
      <4>3. CASE \/ ClosePort(s) \/ KeyingModeChanged(s)
                 \/ ConnectionPoll(s) \/ EdgeArrives(s) \/ MappingChanged(s)
        BY <4>3 DEF ClosePort, KeyingModeChanged, ConnectionPoll, EdgeArrives,
           MappingChanged, setup
      <4>4. QED
        BY <3>1, <4>1, <4>2, <4>3 DEF Step
    <3>2. QED
      BY <3>1 DEF DevicesNext, deviceVars, setup
  <2>2. QED
    BY <2>1, MatchingKeeps
<1>3. I => InputsMatchMode
  BY DEF Matching, Matches, InputsMatchMode
<1>4. QED
  BY <1>1, <1>2, <1>3, ConnInvariance, PTL DEF DevicesSpec
=============================================================================

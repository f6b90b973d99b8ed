------------------------- MODULE DigitalTxLinkProofs -------------------------
(***************************************************************************)
(* What holds of DigitalTxLink for any number of transmissions, of lost    *)
(* connections and of audio frames.                                        *)
(***************************************************************************)
EXTENDS DigitalTxLink, SequenceTheorems, TLAPS

(***************************************************************************)
(* What a queue holds                                                      *)
(***************************************************************************)
\* The generations of the calls of those names.
Gens(q, names) ==
    {q[i].generation : i \in {j \in 1..Len(q) : q[j].name \in names}}

\* No two calls of those names are of one generation.
Distinct(q, names) ==
    \A i, j \in 1..Len(q) :
        /\ q[i].name \in names /\ q[j].name \in names
        /\ q[i].generation = q[j].generation
        => i = j

\* The calls of those names are of ever higher generations, all above n.
Rising(q, names, n) ==
    \A i \in 1..Len(q) : q[i].name \in names =>
        /\ n < q[i].generation
        /\ \A j \in 1..Len(q) :
               i < j /\ q[j].name \in names => q[i].generation < q[j].generation

(***************************************************************************)
(* Types                                                                   *)
(***************************************************************************)
UiCalls == {"prepared", "notPrepared", "keyRequested", "failed", "accepted",
            "finished", "finishedWell", "disconnected"}
IoCalls == {"acknowledge", "stop", "stopFt", "beginSstv", "beginFt", "packet"}
AudioCalls == {"prepare", "beginSstv", "stopSstv", "schedule", "cancel", "keyed",
               "accepted", "unkeyed"}

(* The types, by the owner of the variables.                               *)
TypedShared ==
    /\ generation \in GenerationOrNone /\ scheduledGeneration \in GenerationOrNone
    /\ sstvActive \in BOOLEAN /\ connected \in BOOLEAN
TypedQueues ==
    /\ toUi \in Seq(Posted(UiCalls)) /\ toIo \in Seq(Posted(IoCalls))
    /\ toAudio \in Seq(Posted(AudioCalls))
TypedUi ==
    /\ lastGeneration \in GenerationOrNone /\ ft \in GenerationOrNone
    /\ sstv \in {"idle", "starting", "active", "draining"}
    /\ keyGuards \subseteq GenerationOrNone /\ drains \subseteq GenerationOrNone
    /\ completed \subseteq GenerationOrNone /\ halted \subseteq GenerationOrNone
    /\ starts \in 0..MaxStarts
(* Where the I/O thread can be within a handler.                            *)
IoStage == ioInside \in {"loop", "begin", "armed", "key", "ticked", "write"}
TypedIo ==
    /\ gateOpen \in BOOLEAN /\ gateGeneration \in Nat
    /\ active \in BOOLEAN /\ latched \in BOOLEAN /\ myGeneration \in GenerationOrNone
    /\ kind \in {"none", "sstv", "ft"}
    /\ draining \subseteq GenerationOrNone /\ onAir \in GenerationOrNone
    /\ losses \in 0..MaxLosses /\ stopsTaken \subseteq GenerationOrNone
    /\ IoStage
    /\ heard \subseteq [gen : Generations, frame : 1..Frames, over : GenerationOrNone]
TypedAudio ==
    /\ phase \in {"idle", "waiting", "keying", "audio", "drain", "unkeying"}
    /\ txGeneration \in GenerationOrNone /\ ftEncoding \in GenerationOrNone
    /\ keyed \in BOOLEAN /\ drained \in BOOLEAN /\ ftFrame \in 0..Frames
    /\ sstvGeneration \in GenerationOrNone /\ sstvPrepared \in BOOLEAN
    /\ imageFrame \in 0..Frames /\ inside \in {"loop", "begin", "image", "tick"}
Typed == TypedShared /\ TypedQueues /\ TypedUi /\ TypedIo /\ TypedAudio

(***************************************************************************)
(* The inductive invariant: numbers                                        *)
(***************************************************************************)
\* A transmission takes a generation to start and, if it is SSTV, one to end.
Counted ==
    IF sstv = "idle" THEN lastGeneration <= 2 * starts
                     ELSE lastGeneration + 1 <= 2 * starts

\* Both encoders stop at the last frame, and the first packet is frame one.
Framed(q) == \A i \in 1..Len(q) : q[i].name = "packet" => q[i].frame # 0
FramesLeft ==
    /\ phase \in {"waiting", "keying", "audio"} => ftFrame < Frames
    /\ sstvActive \/ inside \in {"begin", "image"} => sstvPrepared
    /\ sstvPrepared => imageFrame < Frames
    /\ Framed(toIo)

(***************************************************************************)
(* The inductive invariant: the gate                                       *)
(***************************************************************************)
\* The guard, the gate and the radio are of one transmission, or of none; a
\* begin arms the guard before it opens the gate.
GateIsGuarded ==
    /\ active = (gateOpen \/ ioInside \in {"armed", "key"})
    /\ ioInside \in {"armed", "key"} => ~gateOpen
    /\ ioInside \in {"ticked", "write"} => gateOpen
    /\ ioInside = "begin" => ~active /\ ~latched
    /\ active => ~latched
    /\ IF gateOpen THEN onAir = myGeneration /\ gateGeneration = myGeneration
                   ELSE onAir = 0
    /\ generation # 0 => active /\ generation = myGeneration

\* A packet that passed the tick is still the first call of the I/O thread,
\* and is of the transmission that the gate is open for.
Handled ==
    /\ ioInside \in {"ticked", "write"} =>
           AtHead(toIo, "packet") /\ Head(toIo).generation = gateGeneration
    /\ ioInside = "write" => Head(toIo).generation # 0

(***************************************************************************)
(* The inductive invariant: which generations are in use, and for what     *)
(***************************************************************************)
\* An SSTV transmission that was asked for and has not been keyed.
Asked == Gens(toAudio, {"prepare"})
Prepared == Gens(toUi, {"prepared"})
Requested == Gens(toIo, {"beginSstv"})
Pending == Asked \union Prepared \union Requested

Stops == Gens(toIo, {"stop"})
Scheduled == Gens(toAudio, {"schedule"})
FtBegins == Gens(toIo, {"beginFt"})
FtStops == Gens(toIo, {"stopFt"})
Sounds == Gens(toIo, {"packet"})

SstvUses == Pending \union Stops \union (IF SstvBusy THEN {lastGeneration} ELSE {})
FtUses ==
    {scheduledGeneration, ft, ftEncoding} \union Scheduled \union FtBegins \union FtStops
    \union (IF phase # "idle" THEN {txGeneration} ELSE {})
Known == {generation, sstvGeneration} \union halted \union stopsTaken \union Sounds

\* A generation is of SSTV or of FT8/FT4, none is met before it is issued,
\* and orders name one.
OwnGenerations ==
    /\ SstvUses \intersect FtUses = {}
    /\ \A g \in SstvUses \union FtUses \union Known : g <= lastGeneration
    /\ 0 \notin SstvUses \union Scheduled \union FtBegins \union FtStops
    /\ phase # "idle" => txGeneration # 0

\* An SSTV transmission waits for the radio in one place, and no audio of it
\* exists or is being made before the radio is keyed for it.
KeyedOnce ==
    /\ Rising(toAudio, {"prepare"}, sstvGeneration)
    /\ Distinct(toUi, {"prepared"}) /\ Distinct(toIo, {"beginSstv"})
    /\ Asked \intersect Prepared = {}
    /\ (Asked \union Prepared) \intersect Requested = {}
    /\ generation \notin Pending
    /\ Sounds \intersect Pending = {}
    /\ inside = "image" => sstvGeneration \notin Pending

\* The audio thread will know the SSTV transmission of the UI thread.
PreparesLast == SstvBusy => lastGeneration \in Asked \union {sstvGeneration}

(***************************************************************************)
(* The inductive invariant: stops                                          *)
(***************************************************************************)
\* No begin is behind the stop of its transmission.
BeginsFirst(q) ==
    \A i, j \in 1..Len(q) :
        i < j /\ q[i].name = "stop" /\ q[j].name = "beginSstv"
        => q[i].generation # q[j].generation
\* Whoever is about to key the radio is not stopped.
AboutToKey == ioInside = "key" \/ (ioInside = "armed" /\ kind = "sstv")
StopsAreFinal ==
    /\ stopsTaken \intersect (Requested \union {0, scheduledGeneration}) = {}
    /\ AboutToKey => myGeneration \notin stopsTaken
    /\ SstvBusy => lastGeneration \notin stopsTaken \union Stops
    /\ BeginsFirst(toIo)

\* The stop of g is queued, ahead of every packet of it.
StopAhead(q, g) ==
    \E k \in 1..Len(q) :
        /\ q[k].name = "stop" /\ q[k].generation = g
        /\ \A i \in 1..k : ~(q[i].name = "packet" /\ q[i].generation = g)
\* The open generation, unless the slot it was opened for is yet to be checked.
Confirmed == IF ioInside = "armed" /\ kind = "ft" THEN {} ELSE {generation}
HaltsAreFinal ==
    \A g \in halted \ {0} :
        /\ scheduledGeneration # g
        /\ SstvBusy => g # lastGeneration
        /\ g \in Requested \union Confirmed => StopAhead(toIo, g)

IInv ==
    /\ Typed
    /\ Counted /\ FramesLeft
    /\ GateIsGuarded /\ Handled /\ AudioInItsOwnOver
    /\ OwnGenerations /\ KeyedOnce /\ PreparesLast
    /\ StopsAreFinal /\ HaltsAreFinal
(***************************************************************************)
(* Queues                                                                  *)
(***************************************************************************)
(* What an element at the end of a queue changes.                          *)
LEMMA AppendIs ==
    ASSUME NEW S, NEW s \in Seq(S), NEW c \in S
    PROVE  /\ Append(s, c) \in Seq(S) /\ s \o <<c>> = Append(s, c)
           /\ Len(s) \in Nat /\ Len(Append(s, c)) = Len(s) + 1
           /\ \A i \in 1..Len(s) : Append(s, c)[i] = s[i]
           /\ Append(s, c)[Len(s) + 1] = c
BY AppendProperties, AppendIsConcat

(* What taking the first element of a queue changes.                       *)
LEMMA TailIs ==
    ASSUME NEW S, NEW s \in Seq(S), s # <<>>
    PROVE  /\ Head(s) \in S /\ Tail(s) \in Seq(S)
           /\ Len(s) \in Nat \ {0} /\ Len(Tail(s)) = Len(s) - 1
           /\ \A i \in 1..Len(s) - 1 : Tail(s)[i] = s[i + 1]
           /\ Head(s) = s[1]
BY HeadTailProperties, EmptySeq

(* Which generations the calls of these names are for.                     *)
LEMMA InGens ==
    ASSUME NEW q, NEW names, NEW g
    PROVE  g \in Gens(q, names) <=>
               \E i \in 1..Len(q) : q[i].name \in names /\ q[i].generation = g
BY DEF Gens

(* A call put behind a queue adds its generation.                          *)
LEMMA GensAppend ==
    ASSUME NEW S, NEW q \in Seq(S), NEW c \in S, NEW names
    PROVE  Gens(Append(q, c), names) =
               IF c.name \in names THEN Gens(q, names) \union {c.generation}
                                   ELSE Gens(q, names)
<1> DEFINE t == Append(q, c)
<1>1. /\ Len(q) \in Nat /\ Len(t) = Len(q) + 1
      /\ \A i \in 1..Len(q) : t[i] = q[i]
      /\ t[Len(q) + 1] = c
  BY AppendIs
<1> HIDE DEF t
<1>2. ASSUME NEW g
      PROVE  g \in Gens(t, names) <=>
                 g \in Gens(q, names) \/ (c.name \in names /\ g = c.generation)
  BY <1>1, InGens
<1> QED BY <1>2 DEF t

(* A call taken from a queue was one of them.                              *)
LEMMA GensTail ==
    ASSUME NEW S, NEW q \in Seq(S), q # <<>>, NEW names
    PROVE  Gens(q, names) =
               IF Head(q).name \in names
               THEN Gens(Tail(q), names) \union {Head(q).generation}
               ELSE Gens(Tail(q), names)
<1> DEFINE t == Tail(q)
<1>1. /\ Len(q) \in Nat \ {0} /\ Len(t) = Len(q) - 1
      /\ \A i \in 1..Len(q) - 1 : t[i] = q[i + 1]
      /\ Head(q) = q[1]
  BY TailIs
<1> HIDE DEF t
<1>2. ASSUME NEW g, g \in Gens(q, names)
      PROVE  g \in Gens(t, names) \/ (Head(q).name \in names /\ g = Head(q).generation)
  <2>1. PICK i \in 1..Len(q) : q[i].name \in names /\ q[i].generation = g
    BY <1>2, InGens
  <2>2. CASE i # 1
    <3>1. i - 1 \in 1..Len(t) /\ t[i - 1] = q[i]
      BY <1>1, <2>2
    <3> QED BY <3>1, <2>1, InGens
  <2> QED BY <1>1, <2>1, <2>2
<1>3. ASSUME NEW g, g \in Gens(t, names) PROVE g \in Gens(q, names)
  <2>1. PICK i \in 1..Len(t) : t[i].name \in names /\ t[i].generation = g
    BY <1>3, InGens
  <2>2. i + 1 \in 1..Len(q) /\ q[i + 1] = t[i]
    BY <1>1
  <2> QED BY <2>1, <2>2, InGens
<1>4. Head(q).name \in names => Head(q).generation \in Gens(q, names)
  <2>1. 1 \in 1..Len(q)
    BY <1>1
  <2> QED BY <1>1, <2>1, InGens
<1> QED BY <1>2, <1>3, <1>4 DEF t

(* A generation not yet queued may be put behind.                          *)
LEMMA DistinctAppend ==
    ASSUME NEW S, NEW q \in Seq(S), NEW c \in S, NEW names, Distinct(q, names),
           c.name \in names => c.generation \notin Gens(q, names)
    PROVE  Distinct(Append(q, c), names)
<1> DEFINE t == Append(q, c)
<1>1. /\ Len(q) \in Nat /\ Len(t) = Len(q) + 1
      /\ \A i \in 1..Len(q) : t[i] = q[i]
      /\ t[Len(q) + 1] = c
  BY AppendIs
<1>2. c.name \in names =>
          \A i \in 1..Len(q) : ~(q[i].name \in names /\ q[i].generation = c.generation)
  BY InGens
<1> HIDE DEF t
<1>3. Distinct(t, names)
  BY <1>1, <1>2 DEF Distinct
<1> QED BY <1>3 DEF t

(* What is left of a queue has not the generation taken.                   *)
LEMMA DistinctTail ==
    ASSUME NEW S, NEW q \in Seq(S), q # <<>>, NEW names, Distinct(q, names)
    PROVE  /\ Distinct(Tail(q), names)
           /\ Head(q).name \in names => Head(q).generation \notin Gens(Tail(q), names)
<1> DEFINE t == Tail(q)
<1>1. /\ Len(q) \in Nat \ {0} /\ Len(t) = Len(q) - 1
      /\ \A i \in 1..Len(q) - 1 : t[i] = q[i + 1]
      /\ Head(q) = q[1]
  BY TailIs
<1> HIDE DEF t
<1>2. Distinct(t, names)
  <2> SUFFICES ASSUME NEW i \in 1..Len(t), NEW j \in 1..Len(t),
                      t[i].name \in names, t[j].name \in names,
                      t[i].generation = t[j].generation
               PROVE  i = j
    BY DEF Distinct
  <2>1. i + 1 \in 1..Len(q) /\ j + 1 \in 1..Len(q)
    BY <1>1
  <2>2. i + 1 = j + 1
    BY <1>1, <2>1 DEF Distinct
  <2> QED BY <1>1, <2>2
<1>3. ASSUME Head(q).name \in names, Head(q).generation \in Gens(t, names)
      PROVE  FALSE
  <2>1. PICK i \in 1..Len(t) : t[i].name \in names /\ t[i].generation = Head(q).generation
    BY <1>3, InGens
  <2>2. 1 \in 1..Len(q) /\ i + 1 \in 1..Len(q) /\ q[i + 1] = t[i]
    BY <1>1
  <2>3. 1 = i + 1
    BY <1>1, <1>3, <2>1, <2>2 DEF Distinct
  <2> QED BY <1>1, <2>3
<1> QED BY <1>2, <1>3 DEF t

(* A later generation keeps the order.                                     *)
LEMMA RisingAppend ==
    ASSUME NEW S, NEW q \in Seq(S), NEW c \in S, NEW names, NEW n, Rising(q, names, n),
           c.name \in names => /\ n < c.generation
                               /\ \A g \in Gens(q, names) : g < c.generation
    PROVE  Rising(Append(q, c), names, n)
<1> DEFINE t == Append(q, c)
<1>1. /\ Len(q) \in Nat /\ Len(t) = Len(q) + 1
      /\ \A i \in 1..Len(q) : t[i] = q[i]
      /\ t[Len(q) + 1] = c
  BY AppendIs
<1>2. c.name \in names =>
          \A i \in 1..Len(q) : q[i].name \in names => q[i].generation < c.generation
  BY InGens
<1> HIDE DEF t
<1>3. Rising(t, names, n)
  <2> SUFFICES ASSUME NEW i \in 1..Len(t), t[i].name \in names
               PROVE  /\ n < t[i].generation
                      /\ \A j \in 1..Len(t) :
                             i < j /\ t[j].name \in names => t[i].generation < t[j].generation
    BY DEF Rising
  <2>1. CASE i = Len(q) + 1
    BY <1>1, <2>1
  <2>2. CASE i \in 1..Len(q)
    <3>1. ASSUME NEW j \in 1..Len(t), i < j, t[j].name \in names
          PROVE  t[i].generation < t[j].generation
      <4>1. CASE j = Len(q) + 1
        BY <1>1, <1>2, <2>2, <3>1, <4>1
      <4>2. CASE j \in 1..Len(q)
        BY <1>1, <2>2, <3>1, <4>2 DEF Rising
      <4> QED BY <1>1, <4>1, <4>2
    <3> QED BY <1>1, <2>2, <3>1 DEF Rising
  <2> QED BY <1>1, <2>1, <2>2
<1> QED BY <1>3 DEF t

(* What is left is later than what was taken.                              *)
LEMMA RisingTail ==
    ASSUME NEW S, NEW q \in Seq(S), q # <<>>, NEW names, NEW n, Rising(q, names, n)
    PROVE  /\ Head(q).name \in names =>
                  /\ n < Head(q).generation
                  /\ Rising(Tail(q), names, Head(q).generation)
                  /\ \A g \in Gens(Tail(q), names) : Head(q).generation < g
           /\ Rising(Tail(q), names, n)
<1> DEFINE t == Tail(q)
<1>1. /\ Len(q) \in Nat \ {0} /\ Len(t) = Len(q) - 1
      /\ \A i \in 1..Len(q) - 1 : t[i] = q[i + 1]
      /\ Head(q) = q[1]
  BY TailIs
<1> HIDE DEF t
<1>2. ASSUME NEW i \in 1..Len(t), t[i].name \in names
      PROVE  /\ n < t[i].generation
             /\ Head(q).name \in names => Head(q).generation < t[i].generation
             /\ \A j \in 1..Len(t) :
                    i < j /\ t[j].name \in names => t[i].generation < t[j].generation
  <2>1. 1 \in 1..Len(q) /\ i + 1 \in 1..Len(q) /\ 1 < i + 1 /\ q[i + 1] = t[i]
    BY <1>1
  <2>2. \A j \in 1..Len(t) : j + 1 \in 1..Len(q) /\ q[j + 1] = t[j] /\ (i < j => i + 1 < j + 1)
    BY <1>1
  <2> QED BY <1>1, <1>2, <2>1, <2>2 DEF Rising
<1>3. Head(q).name \in names => n < Head(q).generation
  <2>1. 1 \in 1..Len(q)
    BY <1>1
  <2> QED BY <1>1, <2>1 DEF Rising
<1>4. Head(q).name \in names => \A g \in Gens(t, names) : Head(q).generation < g
  BY <1>2, InGens
<1>5. Rising(t, names, n) /\ (Head(q).name \in names => Rising(t, names, Head(q).generation))
  BY <1>2 DEF Rising
<1> QED BY <1>3, <1>4, <1>5 DEF t

(* A begin may be queued where no stop of its generation is.               *)
LEMMA BeginsAppend ==
    ASSUME NEW S, NEW q \in Seq(S), NEW c \in S, BeginsFirst(q),
           c.name = "beginSstv" => c.generation \notin Gens(q, {"stop"})
    PROVE  BeginsFirst(Append(q, c))
<1> DEFINE t == Append(q, c)
<1>1. /\ Len(q) \in Nat /\ Len(t) = Len(q) + 1
      /\ \A i \in 1..Len(q) : t[i] = q[i]
      /\ t[Len(q) + 1] = c
  BY AppendIs
<1>2. c.name = "beginSstv" =>
          \A i \in 1..Len(q) : ~(q[i].name \in {"stop"} /\ q[i].generation = c.generation)
  BY InGens
<1> HIDE DEF t
<1>3. BeginsFirst(t)
  <2> SUFFICES ASSUME NEW i \in 1..Len(t), NEW j \in 1..Len(t), i < j,
                      t[i].name = "stop", t[j].name = "beginSstv"
               PROVE  t[i].generation # t[j].generation
    BY DEF BeginsFirst
  <2>1. i \in 1..Len(q) /\ t[i] = q[i]
    BY <1>1
  <2>2. CASE j = Len(q) + 1
    BY <1>1, <1>2, <2>1, <2>2
  <2>3. CASE j \in 1..Len(q)
    BY <1>1, <2>1, <2>3 DEF BeginsFirst
  <2> QED BY <1>1, <2>2, <2>3
<1> QED BY <1>3 DEF t

(* Once a stop is taken, no begin of its generation is left.               *)
LEMMA BeginsTail ==
    ASSUME NEW S, NEW q \in Seq(S), q # <<>>, BeginsFirst(q)
    PROVE  /\ BeginsFirst(Tail(q))
           /\ Head(q).name = "stop" => Head(q).generation \notin Gens(Tail(q), {"beginSstv"})
<1> DEFINE t == Tail(q)
<1>1. /\ Len(q) \in Nat \ {0} /\ Len(t) = Len(q) - 1
      /\ \A i \in 1..Len(q) - 1 : t[i] = q[i + 1]
      /\ Head(q) = q[1]
  BY TailIs
<1> HIDE DEF t
<1>2. BeginsFirst(t)
  <2> SUFFICES ASSUME NEW i \in 1..Len(t), NEW j \in 1..Len(t), i < j,
                      t[i].name = "stop", t[j].name = "beginSstv"
               PROVE  t[i].generation # t[j].generation
    BY DEF BeginsFirst
  <2>1. i + 1 \in 1..Len(q) /\ j + 1 \in 1..Len(q) /\ i + 1 < j + 1
        /\ q[i + 1] = t[i] /\ q[j + 1] = t[j]
    BY <1>1
  <2> QED BY <2>1 DEF BeginsFirst
<1>3. ASSUME Head(q).name = "stop", Head(q).generation \in Gens(t, {"beginSstv"})
      PROVE  FALSE
  <2>1. PICK i \in 1..Len(t) :
            t[i].name \in {"beginSstv"} /\ t[i].generation = Head(q).generation
    BY <1>3, InGens
  <2>2. 1 \in 1..Len(q) /\ i + 1 \in 1..Len(q) /\ 1 < i + 1 /\ q[i + 1] = t[i]
    BY <1>1
  <2> QED BY <1>1, <1>3, <2>1, <2>2 DEF BeginsFirst
<1> QED BY <1>2, <1>3 DEF t

(* A stop queued before any packet stays ahead of them.                    *)
LEMMA AheadAppend ==
    ASSUME NEW S, NEW q \in Seq(S), NEW c \in S, NEW g
    PROVE  /\ StopAhead(q, g) => StopAhead(Append(q, c), g)
           /\ c.name = "stop" /\ c.generation = g /\ g \notin Gens(q, {"packet"})
              => StopAhead(Append(q, c), g)
<1> DEFINE t == Append(q, c)
<1>1. /\ Len(q) \in Nat /\ Len(t) = Len(q) + 1
      /\ \A i \in 1..Len(q) : t[i] = q[i]
      /\ t[Len(q) + 1] = c
  BY AppendIs
<1> HIDE DEF t
<1>2. ASSUME StopAhead(q, g) PROVE StopAhead(t, g)
  <2>1. PICK k \in 1..Len(q) :
            /\ q[k].name = "stop" /\ q[k].generation = g
            /\ \A i \in 1..k : ~(q[i].name = "packet" /\ q[i].generation = g)
    BY <1>2 DEF StopAhead
  <2>2. k \in 1..Len(t) /\ t[k] = q[k] /\ \A i \in 1..k : t[i] = q[i]
    BY <1>1
  <2> QED BY <2>1, <2>2 DEF StopAhead
<1>3. ASSUME c.name = "stop", c.generation = g, g \notin Gens(q, {"packet"})
      PROVE  StopAhead(t, g)
  <2>1. \A i \in 1..Len(q) : ~(q[i].name \in {"packet"} /\ q[i].generation = g)
    BY <1>3, InGens
  <2>2. \A i \in 1..Len(q) + 1 : ~(t[i].name = "packet" /\ t[i].generation = g)
    BY <1>1, <1>3, <2>1
  <2> QED BY <1>1, <1>3, <2>2 DEF StopAhead
<1> QED BY <1>2, <1>3 DEF t

(* While the stop is queued, no packet of its generation is taken.         *)
LEMMA AheadTail ==
    ASSUME NEW S, NEW q \in Seq(S), q # <<>>, NEW g, StopAhead(q, g)
    PROVE  /\ ~(Head(q).name = "packet" /\ Head(q).generation = g)
           /\ ~(Head(q).name = "stop" /\ Head(q).generation = g) => StopAhead(Tail(q), g)
<1> DEFINE t == Tail(q)
<1>1. /\ Len(q) \in Nat \ {0} /\ Len(t) = Len(q) - 1
      /\ \A i \in 1..Len(q) - 1 : t[i] = q[i + 1]
      /\ Head(q) = q[1]
  BY TailIs
<1> HIDE DEF t
<1>2. PICK k \in 1..Len(q) :
          /\ q[k].name = "stop" /\ q[k].generation = g
          /\ \A i \in 1..k : ~(q[i].name = "packet" /\ q[i].generation = g)
  BY DEF StopAhead
<1>3. 1 \in 1..k
  BY <1>1
<1>4. ASSUME k # 1 PROVE StopAhead(t, g)
  <2>1. k - 1 \in 1..Len(t) /\ t[k - 1] = q[k]
    BY <1>1, <1>4
  <2>2. \A i \in 1..k - 1 : i + 1 \in 1..k /\ t[i] = q[i + 1]
    BY <1>1
  <2> QED BY <1>2, <2>1, <2>2, SMTT(30) DEF StopAhead
<1> QED BY <1>1, <1>2, <1>3, <1>4 DEF t

(***************************************************************************)
(* Types                                                                   *)
(***************************************************************************)
LEMMA TypedIs == TypeOK <=> Typed
BY DEF TypeOK, Typed, TypedShared, TypedQueues, TypedUi, TypedIo, IoStage, TypedAudio, UiCalls,
       IoCalls, AudioCalls

(* The queues hold calls.                                                  *)
LEMMA QueueTypes ==
    ASSUME Typed
    PROVE  /\ toUi \in Seq(Posted(UiCalls)) /\ toIo \in Seq(Posted(IoCalls))
           /\ toAudio \in Seq(Posted(AudioCalls))
BY DEF Typed, TypedQueues

(* What counts generations counts them.                                    *)
LEMMA NumberTypes ==
    ASSUME Typed
    PROVE  /\ 0 \in GenerationOrNone /\ Generations = GenerationOrNone \ {0}
           /\ MaxGeneration \in Nat /\ GenerationOrNone \subseteq Nat
           /\ generation \in GenerationOrNone /\ scheduledGeneration \in GenerationOrNone
           /\ lastGeneration \in GenerationOrNone /\ ft \in GenerationOrNone
           /\ myGeneration \in GenerationOrNone /\ onAir \in GenerationOrNone
           /\ txGeneration \in GenerationOrNone /\ ftEncoding \in GenerationOrNone
           /\ sstvGeneration \in GenerationOrNone
           /\ Label \in GenerationOrNone /\ EncodingFinished \in GenerationOrNone
           /\ Frames \in Nat \ {0} /\ MaxStarts \in Nat \ {0} /\ MaxLosses \in Nat
           /\ 0 \in 0..Frames
<1>1. /\ Frames \in Nat \ {0} /\ MaxStarts \in Nat \ {0} /\ MaxLosses \in Nat
      /\ MaxGeneration \in Nat
  BY LinkAssumption DEF MaxGeneration
<1>2. /\ 0 \in GenerationOrNone /\ Generations = GenerationOrNone \ {0}
      /\ GenerationOrNone \subseteq Nat
  BY <1>1 DEF GenerationOrNone, Generations
<1>3. /\ generation \in GenerationOrNone /\ scheduledGeneration \in GenerationOrNone
      /\ lastGeneration \in GenerationOrNone /\ ft \in GenerationOrNone
      /\ myGeneration \in GenerationOrNone /\ onAir \in GenerationOrNone
      /\ txGeneration \in GenerationOrNone /\ ftEncoding \in GenerationOrNone
      /\ sstvGeneration \in GenerationOrNone
  BY DEF Typed, TypedShared, TypedUi, TypedIo, TypedAudio
<1>4. Label \in GenerationOrNone /\ EncodingFinished \in GenerationOrNone
  BY <1>2, <1>3 DEF Label, EncodingFinished
<1> QED BY <1>1, <1>2, <1>3, <1>4

(* A new generation is one of those numbered.                              *)
LEMMA IssuedIs ==
    ASSUME Typed, Counted, starts < MaxStarts \/ SstvBusy
    PROVE  /\ Issued \in GenerationOrNone /\ Issued # 0 /\ lastGeneration < Issued
           /\ Issued = lastGeneration + 1
<1>1. /\ starts \in Nat /\ MaxStarts \in Nat /\ starts <= MaxStarts
      /\ lastGeneration \in Nat
  BY NumberTypes DEF Typed, TypedUi
<1>2. lastGeneration + 1 <= 2 * MaxStarts
  <2>1. CASE SstvBusy
    BY <1>1, <2>1 DEF Counted, SstvBusy
  <2>2. CASE starts < MaxStarts
    BY <1>1, <2>2 DEF Counted
  <2> QED BY <2>1, <2>2
<1> QED BY <1>1, <1>2 DEF Issued, GenerationOrNone, MaxGeneration

(* A posted call is one element at the end of the queue.                   *)
LEMMA CallIs ==
    ASSUME NEW N, NEW q \in Seq(Posted(N)), NEW name \in N,
           NEW g \in GenerationOrNone
    PROVE  /\ [name |-> name, generation |-> g, frame |-> 0] \in Posted(N)
           /\ q \o Call(name, g) = Append(q, [name |-> name, generation |-> g, frame |-> 0])
           /\ q \o Call(name, g) \in Seq(Posted(N))
<1>1. [name |-> name, generation |-> g, frame |-> 0] \in Posted(N)
  BY LinkAssumption DEF Posted
<1> QED BY <1>1, AppendIs DEF Call

(* A packet is one call.                                                   *)
LEMMA PacketIs ==
    ASSUME NEW N, NEW q \in Seq(Posted(N)), "packet" \in N,
           NEW g \in GenerationOrNone, NEW n \in 0..Frames
    PROVE  /\ [name |-> "packet", generation |-> g, frame |-> n] \in Posted(N)
           /\ q \o Packet(g, n)
                  = Append(q, [name |-> "packet", generation |-> g, frame |-> n])
           /\ q \o Packet(g, n) \in Seq(Posted(N))
<1>1. [name |-> "packet", generation |-> g, frame |-> n] \in Posted(N)
  BY DEF Posted
<1> QED BY <1>1, AppendIs DEF Packet

(* A call at the head of a queue, and what it leaves.                      *)
LEMMA TakenIs ==
    ASSUME NEW N, NEW q \in Seq(Posted(N)), NEW name, AtHead(q, name)
    PROVE  /\ q # <<>> /\ Head(q) \in Posted(N)
           /\ Head(q).name = name /\ Head(q).generation \in GenerationOrNone
           /\ Head(q).frame \in 0..Frames
           /\ Tail(q) \in Seq(Posted(N))
<1>1. q # <<>> /\ Head(q).name = name
  BY DEF AtHead
<1>2. Head(q) \in Posted(N) /\ Tail(q) \in Seq(Posted(N))
  BY <1>1, TailIs
<1> QED BY <1>1, <1>2 DEF Posted

(* Closing a gate leaves a generation or none.                             *)
LEMMA ClosedTypes ==
    ASSUME Typed, NEW g
    PROVE  Closed(g) \in GenerationOrNone /\ Unscheduled(g) \in GenerationOrNone
BY NumberTypes DEF Closed, Unscheduled

(* Calls posted to the threads, and calls taken by them.                   *)
LEMMA Posts ==
    ASSUME Typed, NEW g \in GenerationOrNone
    PROVE  /\ toUi \o Call("prepared", g) \in Seq(Posted(UiCalls))
           /\ toUi \o Call("notPrepared", g) \in Seq(Posted(UiCalls))
           /\ toUi \o Call("keyRequested", g) \in Seq(Posted(UiCalls))
           /\ toUi \o Call("failed", g) \in Seq(Posted(UiCalls))
           /\ toUi \o Call("accepted", g) \in Seq(Posted(UiCalls))
           /\ toUi \o Call("finished", g) \in Seq(Posted(UiCalls))
           /\ toUi \o Call("finishedWell", g) \in Seq(Posted(UiCalls))
           /\ toUi \o Call("disconnected", g) \in Seq(Posted(UiCalls))
           /\ toIo \o Call("acknowledge", g) \in Seq(Posted(IoCalls))
           /\ toIo \o Call("stop", g) \in Seq(Posted(IoCalls))
           /\ toIo \o Call("stopFt", g) \in Seq(Posted(IoCalls))
           /\ toIo \o Call("beginSstv", g) \in Seq(Posted(IoCalls))
           /\ toIo \o Call("beginFt", g) \in Seq(Posted(IoCalls))
           /\ \A n \in 0..Frames : toIo \o Packet(g, n) \in Seq(Posted(IoCalls))
           /\ toAudio \o Call("prepare", g) \in Seq(Posted(AudioCalls))
           /\ toAudio \o Call("beginSstv", g) \in Seq(Posted(AudioCalls))
           /\ toAudio \o Call("stopSstv", g) \in Seq(Posted(AudioCalls))
           /\ toAudio \o Call("schedule", g) \in Seq(Posted(AudioCalls))
           /\ toAudio \o Call("cancel", g) \in Seq(Posted(AudioCalls))
           /\ toAudio \o Call("keyed", g) \in Seq(Posted(AudioCalls))
           /\ toAudio \o Call("accepted", g) \in Seq(Posted(AudioCalls))
           /\ toAudio \o Call("unkeyed", g) \in Seq(Posted(AudioCalls))
<1>1. \A name \in UiCalls : toUi \o Call(name, g) \in Seq(Posted(UiCalls))
  BY QueueTypes, CallIs
<1>2. /\ \A name \in IoCalls : toIo \o Call(name, g) \in Seq(Posted(IoCalls))
      /\ \A n \in 0..Frames : toIo \o Packet(g, n) \in Seq(Posted(IoCalls))
  <2>1. "packet" \in IoCalls
    BY DEF IoCalls
  <2> QED BY <2>1, QueueTypes, CallIs, PacketIs
<1>3. \A name \in AudioCalls : toAudio \o Call(name, g) \in Seq(Posted(AudioCalls))
  BY QueueTypes, CallIs
<1>4. /\ \A name \in {"prepared", "notPrepared", "keyRequested", "failed", "accepted",
                        "finished", "finishedWell", "disconnected"} : name \in UiCalls
      /\ \A name \in {"acknowledge", "stop", "stopFt", "beginSstv", "beginFt"} :
             name \in IoCalls
      /\ \A name \in {"prepare", "beginSstv", "stopSstv", "schedule", "cancel", "keyed",
                        "accepted", "unkeyed"} : name \in AudioCalls
  BY DEF UiCalls, IoCalls, AudioCalls
<1> QED BY <1>1, <1>2, <1>3, <1>4

(* What the UI thread takes is a call for it.                              *)
LEMMA UiTake ==
    ASSUME Typed, NEW name, UiTakes(name)
    PROVE  /\ toUi' \in Seq(Posted(UiCalls))
           /\ Head(toUi).name = name /\ Head(toUi).generation \in GenerationOrNone
BY QueueTypes, TakenIs DEF UiTakes

(* What the I/O thread takes is a call for it.                             *)
LEMMA IoTake ==
    ASSUME Typed, NEW name, IoTakes(name)
    PROVE  /\ toIo' \in Seq(Posted(IoCalls)) /\ toIo # <<>>
           /\ Head(toIo).name = name /\ Head(toIo).generation \in GenerationOrNone
           /\ Head(toIo).frame \in 0..Frames
BY QueueTypes, TakenIs DEF IoTakes

(* What the audio thread takes is a call for it.                           *)
LEMMA AudioTake ==
    ASSUME Typed, NEW name, AudioTakes(name)
    PROVE  /\ toAudio' \in Seq(Posted(AudioCalls))
           /\ Head(toAudio).name = name /\ Head(toAudio).generation \in GenerationOrNone
BY QueueTypes, TakenIs DEF AudioTakes

(* At first everything is idle.                                            *)
LEMMA InitType == Init => Typed
<1> SUFFICES ASSUME Init PROVE Typed
  OBVIOUS
<1>1. 0 \in GenerationOrNone /\ 0 \in 0..MaxLosses /\ 0 \in 0..MaxStarts /\ 0 \in 0..Frames
  BY LinkAssumption DEF GenerationOrNone, MaxGeneration
<1> QED BY <1>1, EmptySeq
    DEF Init, Typed, TypedShared, TypedQueues, TypedUi, TypedIo, IoStage, TypedAudio

(* The types of variables that a thread leaves alone.                      *)
LEMMA KeepsTypes ==
    /\ Typed /\ UNCHANGED shared => TypedShared'
    /\ Typed /\ UNCHANGED uiVars => TypedUi'
    /\ Typed /\ UNCHANGED ioVars => TypedIo'
    /\ Typed /\ UNCHANGED ioData /\ IoStage' => TypedIo'
    /\ Typed /\ UNCHANGED audioVars => TypedAudio'
    /\ Typed /\ UNCHANGED toUi => toUi' \in Seq(Posted(UiCalls))
    /\ Typed /\ UNCHANGED toIo => toIo' \in Seq(Posted(IoCalls))
    /\ Typed /\ UNCHANGED toAudio => toAudio' \in Seq(Posted(AudioCalls))
<1>1. Typed => TypedIo /\ TypedAudio
  BY DEF Typed
<1>2. Typed /\ UNCHANGED ioData /\ IoStage' => TypedIo'
  <2> SUFFICES ASSUME TypedIo, UNCHANGED ioData, IoStage'
               PROVE  TypedIo'
    BY <1>1
  <2>1. /\ gateOpen' = gateOpen /\ gateGeneration' = gateGeneration
        /\ active' = active /\ latched' = latched /\ myGeneration' = myGeneration
        /\ kind' = kind
    BY DEF ioData, guard
  <2>2. /\ draining' = draining /\ onAir' = onAir /\ losses' = losses
        /\ heard' = heard /\ stopsTaken' = stopsTaken
    BY DEF ioData
  <2> QED BY <2>1, <2>2 DEF TypedIo, IoStage
<1>3. Typed /\ UNCHANGED ioVars => TypedIo'
  <2> SUFFICES ASSUME TypedIo, UNCHANGED ioVars
               PROVE  TypedIo'
    BY <1>1
  <2>1. UNCHANGED ioData /\ UNCHANGED ioInside
    BY DEF ioVars
  <2>2. /\ gateOpen' = gateOpen /\ gateGeneration' = gateGeneration
        /\ active' = active /\ latched' = latched /\ myGeneration' = myGeneration
        /\ kind' = kind
    BY <2>1 DEF ioData, guard
  <2>3. /\ draining' = draining /\ onAir' = onAir /\ losses' = losses
        /\ heard' = heard /\ stopsTaken' = stopsTaken
    BY <2>1 DEF ioData
  <2> QED BY <2>1, <2>2, <2>3 DEF TypedIo, IoStage
<1>4. Typed /\ UNCHANGED audioVars => TypedAudio'
  BY <1>1 DEF TypedAudio, audioVars, ftVars, sstvVars
<1> QED BY <1>2, <1>3, <1>4
        DEF Typed, TypedShared, TypedQueues, TypedUi, shared, uiVars

(* Stopping an image, whoever does it.                                     *)
LEMMA StopSstvType ==
    ASSUME Typed, Counted, SstvBusy, StopSstv, toUi' \in Seq(Posted(UiCalls)),
           keyGuards' \subseteq keyGuards
    PROVE  Typed'
<1>1. Issued \in GenerationOrNone
  BY IssuedIs
<1>2. TypedQueues'
  BY Posts, NumberTypes DEF StopSstv, TypedQueues
<1>3. TypedShared'
  BY ClosedTypes, NumberTypes DEF StopSstv, RequestSstvStop, Typed, TypedShared
<1>4. TypedUi'
  BY <1>1 DEF StopSstv, Typed, TypedUi
<1> QED BY <1>2, <1>3, <1>4, KeepsTypes DEF StopSstv, Typed

(* Stopping an over, whoever does it.                                      *)
LEMMA StopFtType ==
    ASSUME Typed, StopFt, toUi' \in Seq(Posted(UiCalls))
    PROVE  Typed'
<1>1. TypedQueues'
  BY Posts, NumberTypes DEF StopFt, TypedQueues
<1>2. TypedShared'
  BY ClosedTypes, NumberTypes DEF StopFt, Typed, TypedShared
<1>3. TypedUi'
  BY DEF StopFt, Typed, TypedUi
<1> QED BY <1>1, <1>2, <1>3, KeepsTypes DEF StopFt, Typed

(* The UI thread keeps the types.                                          *)
LEMMA UiTypeStep == Typed /\ Counted /\ UiThread => Typed'
<1> SUFFICES ASSUME Typed, Counted, UiThread PROVE Typed'
  OBVIOUS
<1> USE KeepsTypes
<1>1. CASE StartSstv
  <2>1. Issued \in GenerationOrNone /\ starts' \in 0..MaxStarts
    <3>1. starts < MaxStarts /\ starts' = starts + 1
      BY <1>1 DEF StartSstv
    <3>2. starts' \in 0..MaxStarts
      BY <3>1, NumberTypes DEF Typed, TypedUi
    <3> QED BY <3>1, <3>2, IssuedIs
  <2>2. TypedQueues'
    BY <1>1, <2>1, Posts, NumberTypes DEF StartSstv, TypedQueues
  <2>3. TypedUi'
    BY <1>1, <2>1 DEF StartSstv, Typed, TypedUi
  <2> QED BY <1>1, <2>2, <2>3 DEF StartSstv, Typed
<1>2. CASE OperatorStopsSstv
  BY <1>2, StopSstvType DEF OperatorStopsSstv
<1>3. CASE OnPrepared
  <2>1. toUi' \in Seq(Posted(UiCalls)) /\ Head(toUi).generation \in GenerationOrNone
    BY <1>3, UiTake DEF OnPrepared
  <2>2. TypedQueues'
    BY <1>3, <2>1, Posts DEF OnPrepared, TypedQueues
  <2>3. TypedUi'
    BY <1>3 DEF OnPrepared, Typed, TypedUi
  <2> QED BY <1>3, <2>2, <2>3 DEF OnPrepared, Typed
<1>4. CASE OnKeyRequested
  <2>1. toUi' \in Seq(Posted(UiCalls)) /\ Head(toUi).generation \in GenerationOrNone
    BY <1>4, UiTake DEF OnKeyRequested
  <2>2. TypedUi'
    BY <1>4, <2>1 DEF OnKeyRequested, Typed, TypedUi
  <2> QED BY <1>4, <2>1, <2>2 DEF OnKeyRequested, Typed, TypedQueues
<1>5. ASSUME NEW g \in Generations, KeyGuardElapsed(g)
      PROVE  Typed'
  <2>0. UNCHANGED toUi /\ g \in GenerationOrNone
    BY <1>5, NumberTypes DEF KeyGuardElapsed
  <2>1. CASE g = lastGeneration /\ sstv = "starting" /\ ~connected
    BY <1>5, <2>0, <2>1, StopSstvType DEF KeyGuardElapsed, SstvBusy
  <2>2. CASE g = lastGeneration /\ sstv = "starting" /\ connected
    <3>1. TypedQueues'
      BY <1>5, <2>0, <2>2, Posts DEF KeyGuardElapsed, TypedQueues
    <3>2. TypedUi'
      BY <1>5, <2>2 DEF KeyGuardElapsed, Typed, TypedUi
    <3> QED BY <1>5, <2>2, <3>1, <3>2 DEF KeyGuardElapsed, Typed
  <2>3. CASE ~(g = lastGeneration /\ sstv = "starting")
    <3>1. TypedUi'
      BY <1>5, <2>3 DEF KeyGuardElapsed, Typed, TypedUi
    <3> QED BY <1>5, <2>3, <3>1 DEF KeyGuardElapsed, Typed, TypedQueues
  <2> QED BY <2>1, <2>2, <2>3
<1>6. CASE OnFailed
  <2>1. toUi' \in Seq(Posted(UiCalls))
    BY <1>6, UiTake DEF OnFailed
  <2>2. CASE Head(toUi).generation = lastGeneration /\ SstvBusy
    BY <1>6, <2>1, <2>2, StopSstvType DEF OnFailed
  <2>3. CASE ~(Head(toUi).generation = lastGeneration /\ SstvBusy)
    <3>1. TypedUi'
      BY <1>6, <2>3 DEF OnFailed, Typed, TypedUi
    <3> QED BY <1>6, <2>1, <2>3, <3>1 DEF OnFailed, Typed, TypedQueues
  <2> QED BY <2>2, <2>3
<1>7. CASE OnAccepted
  <2>1. toUi' \in Seq(Posted(UiCalls))
    BY <1>7, UiTake DEF OnAccepted
  <2>2. TypedUi'
    BY <1>7 DEF OnAccepted, Typed, TypedUi
  <2> QED BY <1>7, <2>1, <2>2 DEF OnAccepted, Typed, TypedQueues
<1>8. ASSUME NEW g \in Generations, DrainElapsed(g)
      PROVE  Typed'
  <2>0. g \in GenerationOrNone
    BY NumberTypes
  <2>1. CASE g = lastGeneration /\ sstv = "draining"
    <3>1. Issued \in GenerationOrNone
      BY <2>1, IssuedIs DEF SstvBusy
    <3>2. TypedQueues'
      BY <1>8, <2>0, <2>1, Posts DEF DrainElapsed, TypedQueues
    <3>3. TypedUi'
      BY <1>8, <2>0, <2>1, <3>1 DEF DrainElapsed, Typed, TypedUi
    <3> QED BY <1>8, <2>1, <3>2, <3>3 DEF DrainElapsed, Typed
  <2>2. CASE ~(g = lastGeneration /\ sstv = "draining")
    <3>1. TypedUi'
      BY <1>8, <2>2 DEF DrainElapsed, Typed, TypedUi
    <3> QED BY <1>8, <2>2, <3>1 DEF DrainElapsed, Typed, TypedQueues
  <2> QED BY <2>1, <2>2
<1>9. ASSUME NEW operator \in BOOLEAN, StartFt(operator)
      PROVE  Typed'
  <2>1. Issued \in GenerationOrNone /\ starts' \in 0..MaxStarts
    <3>1. starts < MaxStarts /\ starts' = starts + 1
      BY <1>9 DEF StartFt
    <3>2. starts' \in 0..MaxStarts
      BY <3>1, NumberTypes DEF Typed, TypedUi
    <3> QED BY <3>1, <3>2, IssuedIs
  <2>2. toIo' \in Seq(Posted(IoCalls))
    <3>1. toIo \o <<>> = toIo
      BY QueueTypes, ConcatEmptySeq
    <3> QED BY <1>9, <3>1, Posts, QueueTypes, NumberTypes DEF StartFt
  <2>3. TypedQueues'
    BY <1>9, <2>1, <2>2, Posts DEF StartFt, TypedQueues
  <2>4. TypedUi'
    BY <1>9, <2>1 DEF StartFt, Typed, TypedUi
  <2>5. TypedShared'
    BY <1>9, <2>1 DEF StartFt, Typed, TypedShared
  <2> QED BY <1>9, <2>3, <2>4, <2>5 DEF StartFt, Typed
<1>10. CASE OperatorStopsFt
  BY <1>10, StopFtType DEF OperatorStopsFt
<1>11. CASE OnFinished
  <2>1. toUi' \in Seq(Posted(UiCalls)) /\ Head(toUi).generation \in GenerationOrNone
    BY <1>11, UiTake DEF OnFinished
  <2>2. TypedUi'
    BY <1>11, <2>1, NumberTypes DEF OnFinished, Typed, TypedUi
  <2>3. TypedShared'
    BY <1>11, ClosedTypes DEF OnFinished, Typed, TypedShared
  <2> QED BY <1>11, <2>1, <2>2, <2>3 DEF OnFinished, Typed, TypedQueues
<1>12. CASE OnDisconnected
  <2>1. toUi' \in Seq(Posted(UiCalls))
    BY <1>12, UiTake DEF OnDisconnected
  <2>2. CASE SstvBusy /\ StopSstv /\ UNCHANGED keyGuards
    BY <2>1, <2>2, StopSstvType
  <2>3. CASE StopFt
    BY <2>1, <2>3, StopFtType
  <2>4. CASE UiUnmoved
    <3>1. TypedUi'
      BY <2>4 DEF UiUnmoved, Typed, TypedUi
    <3> QED BY <2>1, <2>4, <3>1 DEF UiUnmoved, Typed, TypedQueues
  <2> QED BY <1>12, <2>2, <2>3, <2>4 DEF OnDisconnected
<1>13. CASE OnReceiveReport
  <2>1. UNCHANGED toUi
    BY <1>13 DEF OnReceiveReport
  <2>2. CASE sstv \in {"active", "draining"} /\ StopSstv /\ UNCHANGED keyGuards
    BY <2>1, <2>2, StopSstvType DEF SstvBusy
  <2>3. CASE StopFt
    BY <2>1, <2>3, StopFtType
  <2> QED BY <1>13, <2>2, <2>3 DEF OnReceiveReport
<1> QED BY <1>1, <1>2, <1>3, <1>4, <1>5, <1>6, <1>7, <1>8, <1>9, <1>10, <1>11,
           <1>12, <1>13 DEF UiThread

(* What the I/O thread does, by what it changes.                           *)
\* It reads, and goes on to the next part of what it is doing.
Busies ==
    \/ \E k \in {"sstv", "ft"} : AdmitBegin(k)
    \/ ConfirmSlot /\ StillWanted(myGeneration, kind)
    \/ TakePacket
    \/ CheckPacket /\ Allows(Head(toIo).generation)

\* The slot was revoked while the guard was begun.
SlotLost == ConfirmSlot /\ ~StillWanted(myGeneration, kind)

\* A packet is taken: dropped, or it trips the guard, or it is written.
PacketDropped ==
    /\ IoTakes("packet")
    /\ \/ ioInside = "loop" /\ ~PacketWanted(Head(toIo).generation)
       \/ ioInside = "ticked" /\ ~Allows(Head(toIo).generation)
    /\ ioInside' = "loop"
    /\ UNCHANGED <<shared, toUi, toAudio, uiVars, ioData, audioVars>>
PacketTrips == IoTakes("packet") /\ TripGuard /\ UNCHANGED <<uiVars, audioVars>>
PacketHeard ==
    /\ ioInside = "write"
    /\ IoTakes("packet")
    /\ LET g == Head(toIo).generation
           n == Head(toIo).frame
       IN  /\ heard' = heard \union {[gen |-> g, frame |-> n, over |-> onAir]}
           /\ IF ~Final(n)
              THEN UNCHANGED <<toUi, toAudio, draining>>
              ELSE IF scheduledGeneration = g
              THEN draining' = draining \union {g} /\ UNCHANGED <<toUi, toAudio>>
              ELSE ReportAccepted(g) /\ UNCHANGED draining
    /\ ioInside' = "loop"
    /\ UNCHANGED <<shared, gateOpen, gateGeneration, guard, onAir, losses, stopsTaken,
                   uiVars, audioVars>>
PacketTaken == PacketDropped \/ PacketTrips \/ PacketHeard

IoActs ==
    \/ Busies \/ SlotLost \/ KeyRadio \/ PacketTaken
    \/ TakeAcknowledge \/ TakeStop \/ TakeStopFt
    \/ \E k \in {"sstv", "ft"} : RefuseBegin(k) \/ ArmGuard(k)
    \/ TripCancelled \/ TripOnReadings
    \/ \E g \in Generations : DrainPoll(g)
    \/ ConnectionLost \/ Reconnected

LEMMA IoActsIs == IoThread => IoActs
<1>1. ConfirmSlot => Busies \/ SlotLost
  BY DEF Busies, SlotLost
<1>2. RefusePacket => PacketTaken
  BY DEF RefusePacket, PacketTaken, PacketDropped, PacketTrips, ioVars
<1>3. CheckPacket => Busies \/ PacketTaken
  BY DEF CheckPacket, Busies, PacketTaken, PacketDropped
<1>4. WritePacket => PacketTaken
  BY DEF WritePacket, PacketTaken, PacketTrips, PacketHeard
<1>5. TakePacket \/ (\E k \in {"sstv", "ft"} : AdmitBegin(k)) => Busies
  BY DEF Busies
<1> QED BY <1>1, <1>2, <1>3, <1>4, <1>5 DEF IoThread, IoActs

LEMMA BusyIs ==
    Busies => /\ UNCHANGED <<shared, queues, uiVars, ioData, audioVars>>
              /\ ioInside' \in {"begin", "key", "ticked", "write"}
BY DEF Busies, AdmitBegin, ConfirmSlot, CheckSlot, TakePacket, AdmitPacket, CheckPacket,
       shared, queues, ioData, guard

LEMMA SlotLostIs ==
    SlotLost =>
        /\ ioInside = "armed" /\ ~StillWanted(myGeneration, kind)
        /\ ioInside' = "loop" /\ active' = FALSE /\ generation' = Closed(myGeneration)
        /\ UNCHANGED <<scheduledGeneration, sstvActive, connected, queues, uiVars,
                       gateOpen, gateGeneration, latched, myGeneration, kind, draining,
                       onAir, losses, heard, stopsTaken, audioVars>>
BY DEF SlotLost, ConfirmSlot, CheckSlot

(* Writing RX.                                                             *)
LEMMA UnkeyType ==
    ASSUME Typed, Unkey, stopsTaken' \subseteq GenerationOrNone, latched' \in BOOLEAN
    PROVE  TypedIo' /\ generation' \in GenerationOrNone /\ UNCHANGED <<sstvActive, connected>>
<1>1. gateGeneration + 1 \in Nat
  BY DEF Typed, TypedIo
<1>2. generation' \in GenerationOrNone
  BY ClosedTypes DEF Unkey
<1> QED BY <1>1, <1>2, NumberTypes DEF Unkey, Typed, TypedIo, IoStage

(* A trip of the guard.                                                    *)
LEMMA TripType ==
    ASSUME Typed, TripGuard, toIo' \in Seq(Posted(IoCalls)),
           UNCHANGED <<uiVars, audioVars>>
    PROVE  Typed'
<1>1. TypedQueues'
  BY QueueTypes, NumberTypes, Posts DEF TripGuard, ReportFailure, TypedQueues
<1>2. Unkey /\ latched' = TRUE /\ UNCHANGED <<scheduledGeneration, stopsTaken>>
  BY DEF TripGuard
<1>3. TypedIo' /\ generation' \in GenerationOrNone /\ UNCHANGED <<sstvActive, connected>>
  BY <1>2, UnkeyType DEF Typed, TypedIo
<1>4. TypedShared'
  BY <1>2, <1>3 DEF Typed, TypedShared
<1> QED BY <1>1, <1>3, <1>4, KeepsTypes DEF Typed

(* The I/O thread keeps the types.                                         *)
LEMMA IoTypeStep == Typed /\ FramesLeft /\ Handled /\ IoThread => Typed'
<1> SUFFICES ASSUME Typed, FramesLeft, Handled, IoThread PROVE Typed'
  OBVIOUS
<1> USE KeepsTypes DEF IoStage
<1>1. CASE TakeAcknowledge
  <2>1. TypedQueues'
    BY <1>1, IoTake DEF TakeAcknowledge, TypedQueues
  <2>2. TypedIo'
    BY <1>1 DEF TakeAcknowledge, Typed, TypedIo
  <2> QED BY <1>1, <2>1, <2>2 DEF TakeAcknowledge, Typed
<1>2. CASE TakeStop
  <2>1. toIo' \in Seq(Posted(IoCalls)) /\ Head(toIo).generation \in GenerationOrNone
    BY <1>2, IoTake DEF TakeStop
  <2>2. TypedQueues'
    BY <1>2, <2>1 DEF TakeStop, TypedQueues
  <2>3. stopsTaken' \subseteq GenerationOrNone /\ latched' \in BOOLEAN /\ Unkey
    BY <1>2, <2>1 DEF TakeStop, Typed, TypedIo
  <2>4. TypedIo' /\ generation' \in GenerationOrNone /\ UNCHANGED <<sstvActive, connected>>
    BY <2>3, UnkeyType
  <2>5. TypedShared'
    BY <1>2, <2>4 DEF TakeStop, Typed, TypedShared
  <2> QED BY <1>2, <2>2, <2>4, <2>5 DEF TakeStop, Typed
<1>3. CASE TakeStopFt
  <2>1. toIo' \in Seq(Posted(IoCalls)) /\ Head(toIo).generation \in GenerationOrNone
    BY <1>3, IoTake DEF TakeStopFt
  <2>2. TypedQueues'
    BY <1>3, <2>1, Posts DEF TakeStopFt, TypedQueues
  <2>3. stopsTaken' \subseteq GenerationOrNone /\ latched' \in BOOLEAN
    BY <1>3, <2>1 DEF TakeStopFt, Typed, TypedIo
  <2>4. TypedIo' /\ generation' \in GenerationOrNone /\ UNCHANGED <<sstvActive, connected>>
    <3>1. CASE gateOpen /\ gateGeneration = Head(toIo).generation
      BY <1>3, <2>3, <3>1, UnkeyType DEF TakeStopFt
    <3>2. CASE ~(gateOpen /\ gateGeneration = Head(toIo).generation)
      BY <1>3, <2>3, <3>2 DEF TakeStopFt, Typed, TypedIo, TypedShared
    <3> QED BY <3>1, <3>2
  <2>5. TypedShared'
    BY <1>3, <2>4, ClosedTypes DEF TakeStopFt, Typed, TypedShared
  <2> QED BY <1>3, <2>2, <2>4, <2>5 DEF TakeStopFt, Typed
<1>4. CASE PacketTaken
  <2> DEFINE g == Head(toIo).generation
             n == Head(toIo).frame
  <2>1. /\ toIo' \in Seq(Posted(IoCalls)) /\ toIo # <<>> /\ Head(toIo).name = "packet"
        /\ g \in GenerationOrNone /\ n \in 0..Frames
    BY <1>4, IoTake DEF PacketTaken, PacketDropped, PacketTrips, PacketHeard
  <2>2. n \in 1..Frames
    <3>1. Len(toIo) \in Nat \ {0} /\ Head(toIo) = toIo[1]
      BY <2>1, TailIs, QueueTypes
    <3>2. n # 0
      BY <2>1, <3>1 DEF FramesLeft, Framed
    <3> QED BY <2>1, <3>2, NumberTypes, SMTT(30)
  <2>3. CASE PacketDropped
    BY <2>1, <2>3 DEF PacketDropped, Typed, TypedQueues
  <2>4. CASE PacketTrips
    BY <2>1, <2>4, TripType DEF PacketTrips
  <2>5. CASE PacketHeard
    <3>1. heard' \subseteq [gen : Generations, frame : 1..Frames, over : GenerationOrNone]
      <4>1. g \in Generations
        BY <2>1, <2>5, NumberTypes DEF PacketHeard, Handled
      <4>2. [gen |-> g, frame |-> n, over |-> onAir]
                \in [gen : Generations, frame : 1..Frames, over : GenerationOrNone]
        BY <2>2, <4>1, NumberTypes
      <4> QED BY <2>5, <4>2 DEF PacketHeard, Typed, TypedIo
    <3>2. TypedQueues' /\ draining' \subseteq draining \union {g}
      BY <2>1, <2>5, Posts DEF PacketHeard, ReportAccepted, TypedQueues
    <3>3. TypedIo'
      <4> HIDE DEF g, n
      <4> QED BY <2>1, <2>5, <3>1, <3>2 DEF PacketHeard, Typed, TypedIo, guard
    <3> QED BY <2>5, <3>2, <3>3 DEF PacketHeard, Typed
  <2> QED BY <1>4, <2>3, <2>4, <2>5 DEF PacketTaken
<1>5. ASSUME NEW k \in {"sstv", "ft"}, RefuseBegin(k)
      PROVE  Typed'
  <2> DEFINE g == Head(toIo).generation
  <2>1. toIo' \in Seq(Posted(IoCalls)) /\ g \in GenerationOrNone
    BY <1>5, IoTake DEF RefuseBegin
  <2>2. TypedQueues'
    BY <1>5, <2>1, Posts DEF RefuseBegin, ReportFailure, TypedQueues
  <2> QED BY <1>5, <2>2 DEF RefuseBegin, Typed
<1>11. ASSUME NEW k \in {"sstv", "ft"}, ArmGuard(k)
       PROVE  Typed'
  <2> DEFINE g == Head(toIo).generation
  <2>1. toIo' \in Seq(Posted(IoCalls)) /\ g \in GenerationOrNone
    BY <1>11, IoTake DEF ArmGuard
  <2>2. TypedQueues'
    BY <1>11, <2>1 DEF ArmGuard, TypedQueues
  <2>3. TypedIo'
    BY <1>11, <2>1 DEF ArmGuard, Typed, TypedIo
  <2>4. TypedShared'
    BY <1>11, <2>1 DEF ArmGuard, Typed, TypedShared
  <2> QED BY <1>11, <2>2, <2>3, <2>4 DEF ArmGuard, Typed
<1>12. CASE SlotLost
  <2>1. generation' \in GenerationOrNone
    BY <1>12, SlotLostIs, ClosedTypes
  <2>2. TypedShared' /\ TypedIo'
    BY <1>12, <2>1, SlotLostIs DEF Typed, TypedShared, TypedIo
  <2> QED BY <1>12, <2>2, SlotLostIs DEF Typed, TypedQueues, queues
<1>13. CASE KeyRadio
  <2>1. TypedQueues'
    BY <1>13, NumberTypes, Posts DEF KeyRadio, TypedQueues
  <2>2. TypedIo'
    BY <1>13, NumberTypes DEF KeyRadio, Typed, TypedIo, guard
  <2> QED BY <1>13, <2>1, <2>2 DEF KeyRadio, Typed
<1>14. CASE Busies
  BY <1>14, BusyIs DEF Typed, TypedQueues, queues
<1>6. CASE TripCancelled
  BY <1>6, TripType DEF TripCancelled
<1>7. CASE TripOnReadings
  BY <1>7, TripType DEF TripOnReadings
<1>8. ASSUME NEW g \in Generations, DrainPoll(g)
      PROVE  Typed'
  <2>1. g \in GenerationOrNone
    BY NumberTypes
  <2>2. TypedQueues'
    BY <1>8, <2>1, Posts, QueueTypes DEF DrainPoll, ReportAccepted, TypedQueues
  <2>3. TypedIo'
    BY <1>8 DEF DrainPoll, Typed, TypedIo, guard
  <2> QED BY <1>8, <2>2, <2>3 DEF DrainPoll, Typed
<1>9. CASE ConnectionLost
  <2>1. TypedQueues'
    BY <1>9, Posts, NumberTypes DEF ConnectionLost, TypedQueues
  <2>2. losses' \in 0..MaxLosses
    BY <1>9, NumberTypes DEF ConnectionLost, Typed, TypedIo
  <2>3. TypedIo'
    BY <1>9, <2>2, NumberTypes DEF ConnectionLost, Typed, TypedIo
  <2>4. TypedShared'
    BY <1>9, ClosedTypes DEF ConnectionLost, Typed, TypedShared
  <2> QED BY <1>9, <2>1, <2>3, <2>4 DEF ConnectionLost, Typed
<1>10. CASE Reconnected
  <2>1. TypedShared'
    BY <1>10 DEF Reconnected, Typed, TypedShared
  <2> QED BY <1>10, <2>1 DEF Reconnected, Typed, TypedQueues, queues
<1> QED BY <1>1, <1>2, <1>3, <1>4, <1>5, <1>6, <1>7, <1>8, <1>9, <1>10, <1>11,
           <1>12, <1>13, <1>14, IoActsIs DEF IoActs

(* The transmitter gives an over up.                                       *)
LEMMA FailType ==
    ASSUME Typed, Fail, toAudio' \in Seq(Posted(AudioCalls))
    PROVE  Typed'
<1>1. TypedQueues'
  BY Posts, NumberTypes DEF Fail, TypedQueues
<1>2. TypedShared'
  BY ClosedTypes DEF Fail, Typed, TypedShared
<1>3. TypedAudio'
  BY NumberTypes DEF WaveCleared, Fail, Typed, TypedAudio, sstvVars
<1> QED BY <1>1, <1>2, <1>3, KeepsTypes DEF Fail, Typed

(* The audio thread keeps the types.                                       *)
LEMMA AudioTypeStep == Typed /\ FramesLeft /\ AudioThread => Typed'
<1> SUFFICES ASSUME Typed, FramesLeft, AudioThread PROVE Typed'
  OBVIOUS
<1>0. /\ phase = "audio" => ftFrame + 1 \in 0..Frames
      /\ inside = "image" => imageFrame + 1 \in 0..Frames
  <2>1. Frames \in Nat /\ ftFrame \in 0..Frames /\ imageFrame \in 0..Frames
    BY NumberTypes DEF Typed, TypedAudio
  <2>2. /\ phase = "audio" => ftFrame < Frames
        /\ inside = "image" => imageFrame < Frames
    BY DEF FramesLeft
  <2> QED BY <2>1, <2>2
<1> USE KeepsTypes
<1>1. CASE TakePrepare
  <2>1. toAudio' \in Seq(Posted(AudioCalls)) /\ Head(toAudio).generation \in GenerationOrNone
    BY <1>1, AudioTake DEF TakePrepare
  <2>2. TypedQueues'
    BY <1>1, <2>1, Posts DEF TakePrepare, TypedQueues
  <2>3. TypedAudio'
    BY <1>1, <2>1, NumberTypes DEF TakePrepare, Typed, TypedAudio, ftVars
  <2> QED BY <1>1, <2>2, <2>3 DEF TakePrepare, Typed
<1>2. CASE TakeBeginSstv
  <2>1. TypedQueues'
    BY <1>2, AudioTake DEF TakeBeginSstv, TypedQueues
  <2>2. TypedAudio'
    BY <1>2 DEF TakeBeginSstv, Typed, TypedAudio, ftVars, sstvVars
  <2> QED BY <1>2, <2>1, <2>2 DEF TakeBeginSstv, Typed
<1>3. CASE Launch
  <2>1. TypedQueues'
    BY <1>3, Posts, NumberTypes DEF Launch, TypedQueues
  <2>2. TypedAudio'
    BY <1>3 DEF Launch, Typed, TypedAudio, ftVars
  <2>3. TypedShared'
    BY <1>3, ClosedTypes DEF Launch, Typed, TypedShared
  <2> QED BY <1>3, <2>1, <2>2, <2>3 DEF Launch, Typed
<1>4. CASE TakeStopSstv
  <2>1. TypedQueues'
    BY <1>4, AudioTake DEF TakeStopSstv, TypedQueues
  <2>2. TypedAudio' /\ TypedShared'
    BY <1>4 DEF TakeStopSstv, SstvStopped, Typed, TypedAudio, TypedShared, ftVars
  <2> QED BY <1>4, <2>1, <2>2 DEF TakeStopSstv, Typed
<1>5. CASE Pacer
  <2>1. TypedAudio'
    BY <1>5 DEF Pacer, SstvStopped, Typed, TypedAudio, ftVars
  <2>2. TypedShared'
    BY <1>5, ClosedTypes DEF Pacer, SstvStopped, Typed, TypedShared
  <2> QED BY <1>5, <2>1, <2>2 DEF Pacer, Typed, TypedQueues, queues
<1>6. CASE PostImage
  <2>1. imageFrame' \in 0..Frames
    BY <1>0, <1>6 DEF PostImage, Typed, TypedAudio
  <2>2. TypedQueues'
    BY <1>6, <2>1, Posts, NumberTypes DEF PostImage, TypedQueues
  <2>3. TypedAudio'
    BY <1>6, <2>1 DEF PostImage, SstvStopped, Typed, TypedAudio, ftVars
  <2>4. TypedShared'
    BY <1>6, ClosedTypes DEF PostImage, SstvStopped, Typed, TypedShared
  <2> QED BY <1>6, <2>2, <2>3, <2>4 DEF PostImage, Typed
<1>7. CASE TakeSchedule
  <2>1. toAudio' \in Seq(Posted(AudioCalls)) /\ Head(toAudio).generation \in GenerationOrNone
    BY <1>7, AudioTake DEF TakeSchedule
  <2>2. TypedQueues'
    BY <1>7, <2>1, Posts DEF TakeSchedule, RefuseSchedule, TypedQueues
  <2>3. TypedAudio'
    BY <1>7, <2>1, NumberTypes DEF WaveCleared, TakeSchedule, Typed, TypedAudio, sstvVars
  <2> QED BY <1>7, <2>2, <2>3 DEF TakeSchedule, Typed
<1>8. CASE TakeCancel
  <2>1. toAudio' \in Seq(Posted(AudioCalls))
    BY <1>8, AudioTake DEF TakeCancel
  <2> QED BY <1>8, <2>1, FailType DEF TakeCancel, Typed, TypedQueues
<1>9. CASE TakeKeyed
  <2>1. TypedQueues'
    BY <1>9, AudioTake DEF TakeKeyed, TypedQueues
  <2>2. TypedAudio'
    BY <1>9 DEF TakeKeyed, Mine, Typed, TypedAudio, sstvVars
  <2> QED BY <1>9, <2>1, <2>2 DEF TakeKeyed, Typed
<1>10. CASE TakeAccepted
  <2>1. TypedQueues'
    BY <1>10, AudioTake DEF TakeAccepted, TypedQueues
  <2>2. TypedAudio'
    BY <1>10 DEF TakeAccepted, Mine, Typed, TypedAudio, sstvVars
  <2> QED BY <1>10, <2>1, <2>2 DEF TakeAccepted, Typed
<1>11. CASE TakeUnkeyed
  <2>1. toAudio' \in Seq(Posted(AudioCalls))
    BY <1>11, AudioTake DEF TakeUnkeyed
  <2>2. TypedQueues'
    BY <1>11, <2>1, Posts, NumberTypes DEF TakeUnkeyed, TypedQueues
  <2>3. TypedAudio'
    BY <1>11, NumberTypes DEF WaveCleared, TakeUnkeyed, Typed, TypedAudio, sstvVars
  <2> QED BY <1>11, <2>2, <2>3 DEF TakeUnkeyed, Typed
<1>12. CASE TickFails
  BY <1>12, FailType DEF TickFails
<1>13. CASE Tick
  <2>1. TypedAudio'
    BY <1>13 DEF Tick, Typed, TypedAudio, ftVars, sstvVars
  <2> QED BY <1>13, <2>1 DEF Tick, Typed, TypedQueues, queues
<1>14. CASE TickWaits
  <2>1. TypedAudio'
    BY <1>14 DEF TickWaits, Ticks, Typed, TypedAudio, ftVars, sstvVars
  <2> QED BY <1>14, <2>1 DEF TickWaits, Typed, TypedQueues, queues
<1>15. CASE RequestKey
  <2>1. TypedQueues'
    BY <1>15, Posts, NumberTypes DEF RequestKey, TypedQueues
  <2>2. TypedAudio'
    BY <1>15 DEF RequestKey, Ticks, Typed, TypedAudio, sstvVars
  <2> QED BY <1>15, <2>1, <2>2 DEF RequestKey, Typed
<1>16. CASE StartAudio
  <2>1. TypedAudio'
    BY <1>16 DEF StartAudio, Ticks, Typed, TypedAudio, sstvVars
  <2>2. TypedShared'
    BY <1>16, ClosedTypes DEF StartAudio, Typed, TypedShared
  <2> QED BY <1>16, <2>1, <2>2 DEF StartAudio, Typed, TypedQueues, queues
<1>17. CASE EmitFrame
  <2>1. ftFrame' \in 0..Frames
    BY <1>0, <1>17 DEF EmitFrame, Ticks
  <2>2. TypedQueues'
    BY <1>17, <2>1, Posts, NumberTypes DEF EmitFrame, TypedQueues
  <2>3. TypedAudio'
    BY <1>17, <2>1 DEF EmitFrame, Ticks, PhaseAfterFrame, Typed, TypedAudio, sstvVars
  <2>4. TypedShared'
    BY <1>17, ClosedTypes DEF EmitFrame, Typed, TypedShared
  <2> QED BY <1>17, <2>2, <2>3, <2>4 DEF EmitFrame, Typed
<1>18. CASE RequestUnkey
  <2>1. TypedQueues'
    BY <1>18, Posts, NumberTypes DEF RequestUnkey, TypedQueues
  <2>2. TypedAudio'
    BY <1>18 DEF RequestUnkey, Ticks, Typed, TypedAudio, sstvVars
  <2> QED BY <1>18, <2>1, <2>2 DEF RequestUnkey, Typed
<1> QED BY <1>1, <1>2, <1>3, <1>4, <1>5, <1>6, <1>7, <1>8, <1>9, <1>10, <1>11, <1>12,
           <1>13, <1>14, <1>15, <1>16, <1>17, <1>18 DEF AudioThread

(* Every step keeps them.                                                  *)
LEMMA TypeStep == Typed /\ Counted /\ FramesLeft /\ Handled /\ [Next]_vars => Typed'
<1> SUFFICES ASSUME Typed, Counted, FramesLeft, Handled, [Next]_vars PROVE Typed'
  OBVIOUS
<1>1. CASE UNCHANGED vars
  BY <1>1, KeepsTypes DEF vars, queues, Typed, TypedQueues
<1> QED BY <1>1, UiTypeStep, IoTypeStep, AudioTypeStep DEF Next

(***************************************************************************)
(* What posting and taking calls does to the invariant's sets              *)
(***************************************************************************)
LEMMA SameQueues ==
    /\ UNCHANGED toUi => /\ Prepared' = Prepared
                         /\ Distinct(toUi, {"prepared"}) => Distinct(toUi', {"prepared"})
    /\ UNCHANGED toAudio =>
           /\ Asked' = Asked /\ Scheduled' = Scheduled
           /\ \A n : Rising(toAudio, {"prepare"}, n) => Rising(toAudio', {"prepare"}, n)
    /\ UNCHANGED toIo =>
           /\ Requested' = Requested /\ Stops' = Stops /\ FtBegins' = FtBegins
           /\ FtStops' = FtStops /\ Sounds' = Sounds
           /\ Distinct(toIo, {"beginSstv"}) => Distinct(toIo', {"beginSstv"})
           /\ BeginsFirst(toIo) => BeginsFirst(toIo')
           /\ \A g : StopAhead(toIo, g) => StopAhead(toIo', g)
BY DEF Prepared, Asked, Scheduled, Requested, Stops, FtBegins, FtStops, Sounds

(* What a call to the UI thread adds to the images prepared.               *)
LEMMA UiPosts ==
    ASSUME Typed, NEW name \in UiCalls, NEW g \in GenerationOrNone,
           toUi' = toUi \o Call(name, g)
    PROVE  /\ Prepared' = IF name = "prepared" THEN Prepared \union {g} ELSE Prepared
           /\ Distinct(toUi, {"prepared"}) /\ (name = "prepared" => g \notin Prepared)
              => Distinct(toUi', {"prepared"})
<1> DEFINE c == [name |-> name, generation |-> g, frame |-> 0]
<1>1. /\ toUi \in Seq(Posted(UiCalls)) /\ c \in Posted(UiCalls)
      /\ toUi' = Append(toUi, c)
  BY QueueTypes, CallIs
<1>2. c.name = name /\ c.generation = g
  OBVIOUS
<1> HIDE DEF c
<1>0. \A names : Gens(Append(toUi, c), names) =
                     IF c.name \in names THEN Gens(toUi, names) \union {c.generation}
                                         ELSE Gens(toUi, names)
  BY <1>1, GensAppend
<1>3. Gens(toUi', {"prepared"}) = IF name \in {"prepared"}
                                  THEN Gens(toUi, {"prepared"}) \union {g}
                                  ELSE Gens(toUi, {"prepared"})
  BY <1>0, <1>1, <1>2
<1>4. ASSUME Distinct(toUi, {"prepared"}), name = "prepared" => g \notin Prepared
      PROVE  Distinct(toUi', {"prepared"})
  <2>1. c.name \in {"prepared"} => c.generation \notin Gens(toUi, {"prepared"})
    BY <1>2, <1>4 DEF Prepared
  <2> QED BY <1>1, <1>4, <2>1, DistinctAppend
<1> QED BY <1>3, <1>4 DEF Prepared

(* What the UI thread takes is no longer on its way.                       *)
LEMMA UiTaken ==
    ASSUME Typed, NEW name, UiTakes(name)
    PROVE  /\ Prepared = IF name = "prepared"
                         THEN Prepared' \union {Head(toUi).generation} ELSE Prepared'
           /\ Distinct(toUi, {"prepared"}) =>
                  /\ Distinct(toUi', {"prepared"})
                  /\ name = "prepared" => Head(toUi).generation \notin Prepared'
<1>1. /\ toUi \in Seq(Posted(UiCalls)) /\ toUi # <<>> /\ Head(toUi).name = name
      /\ toUi' = Tail(toUi)
  BY QueueTypes, TakenIs DEF UiTakes
<1>2. Gens(toUi, {"prepared"}) =
          IF name \in {"prepared"}
          THEN Gens(Tail(toUi), {"prepared"}) \union {Head(toUi).generation}
          ELSE Gens(Tail(toUi), {"prepared"})
  BY <1>1, GensTail
<1>3. ASSUME Distinct(toUi, {"prepared"})
      PROVE  /\ Distinct(Tail(toUi), {"prepared"})
             /\ name \in {"prepared"}
                => Head(toUi).generation \notin Gens(Tail(toUi), {"prepared"})
  BY <1>1, <1>3, DistinctTail
<1> QED BY <1>1, <1>2, <1>3 DEF Prepared

(* What a call to the audio thread adds to what it is asked for.           *)
LEMMA AudioPosts ==
    ASSUME Typed, NEW name \in AudioCalls, NEW g \in GenerationOrNone,
           toAudio' = toAudio \o Call(name, g)
    PROVE  /\ Asked' = IF name = "prepare" THEN Asked \union {g} ELSE Asked
           /\ Scheduled' = IF name = "schedule" THEN Scheduled \union {g} ELSE Scheduled
           /\ \A n : /\ Rising(toAudio, {"prepare"}, n)
                     /\ name = "prepare" => n < g /\ \A h \in Asked : h < g
                     => Rising(toAudio', {"prepare"}, n)
<1> DEFINE c == [name |-> name, generation |-> g, frame |-> 0]
<1>1. /\ toAudio \in Seq(Posted(AudioCalls)) /\ c \in Posted(AudioCalls)
      /\ toAudio' = Append(toAudio, c)
  BY QueueTypes, CallIs
<1>2. c.name = name /\ c.generation = g
  OBVIOUS
<1> HIDE DEF c
<1>0. \A names : Gens(Append(toAudio, c), names) =
                     IF c.name \in names THEN Gens(toAudio, names) \union {c.generation}
                                         ELSE Gens(toAudio, names)
  BY <1>1, GensAppend
<1>3. /\ Gens(toAudio', {"prepare"}) = IF name \in {"prepare"}
                                       THEN Gens(toAudio, {"prepare"}) \union {g}
                                       ELSE Gens(toAudio, {"prepare"})
      /\ Gens(toAudio', {"schedule"}) = IF name \in {"schedule"}
                                        THEN Gens(toAudio, {"schedule"}) \union {g}
                                        ELSE Gens(toAudio, {"schedule"})
  BY <1>0, <1>1, <1>2
<1>4. ASSUME NEW n, Rising(toAudio, {"prepare"}, n),
             name = "prepare" => n < g /\ \A h \in Asked : h < g
      PROVE  Rising(toAudio', {"prepare"}, n)
  <2>1. c.name \in {"prepare"} =>
            n < c.generation /\ \A h \in Gens(toAudio, {"prepare"}) : h < c.generation
    BY <1>2, <1>4 DEF Asked
  <2> QED BY <1>1, <1>4, <2>1, RisingAppend
<1> QED BY <1>3, <1>4 DEF Asked, Scheduled

(* What the audio thread takes is no longer asked for.                     *)
LEMMA AudioTaken ==
    ASSUME Typed, NEW name, AudioTakes(name)
    PROVE  /\ Asked = IF name = "prepare"
                      THEN Asked' \union {Head(toAudio).generation} ELSE Asked'
           /\ Scheduled = IF name = "schedule"
                          THEN Scheduled' \union {Head(toAudio).generation} ELSE Scheduled'
           /\ \A n : Rising(toAudio, {"prepare"}, n) =>
                  /\ Rising(toAudio', {"prepare"}, n)
                  /\ name = "prepare" =>
                         /\ n < Head(toAudio).generation
                         /\ Rising(toAudio', {"prepare"}, Head(toAudio).generation)
                         /\ \A g \in Asked' : Head(toAudio).generation < g
<1>1. /\ toAudio \in Seq(Posted(AudioCalls)) /\ toAudio # <<>>
      /\ Head(toAudio).name = name /\ toAudio' = Tail(toAudio)
  BY QueueTypes, TakenIs DEF AudioTakes
<1>2. /\ Gens(toAudio, {"prepare"}) =
             IF name \in {"prepare"}
             THEN Gens(Tail(toAudio), {"prepare"}) \union {Head(toAudio).generation}
             ELSE Gens(Tail(toAudio), {"prepare"})
      /\ Gens(toAudio, {"schedule"}) =
             IF name \in {"schedule"}
             THEN Gens(Tail(toAudio), {"schedule"}) \union {Head(toAudio).generation}
             ELSE Gens(Tail(toAudio), {"schedule"})
  BY <1>1, GensTail
<1>3. ASSUME NEW n, Rising(toAudio, {"prepare"}, n)
      PROVE  /\ Rising(Tail(toAudio), {"prepare"}, n)
             /\ name \in {"prepare"} =>
                    /\ n < Head(toAudio).generation
                    /\ Rising(Tail(toAudio), {"prepare"}, Head(toAudio).generation)
                    /\ \A g \in Gens(Tail(toAudio), {"prepare"}) :
                           Head(toAudio).generation < g
  BY <1>1, <1>3, RisingTail
<1> QED BY <1>1, <1>2, <1>3 DEF Asked, Scheduled

(* What a call behind the I/O thread's queue adds.                         *)
LEMMA IoAppended ==
    ASSUME Typed, NEW c \in Posted(IoCalls), toIo' = Append(toIo, c)
    PROVE  /\ Requested' = IF c.name = "beginSstv"
                           THEN Requested \union {c.generation} ELSE Requested
           /\ Stops' = IF c.name = "stop" THEN Stops \union {c.generation} ELSE Stops
           /\ FtBegins' = IF c.name = "beginFt"
                          THEN FtBegins \union {c.generation} ELSE FtBegins
           /\ FtStops' = IF c.name = "stopFt"
                         THEN FtStops \union {c.generation} ELSE FtStops
           /\ Sounds' = IF c.name = "packet" THEN Sounds \union {c.generation} ELSE Sounds
           /\ /\ Distinct(toIo, {"beginSstv"})
              /\ c.name = "beginSstv" => c.generation \notin Requested
              => Distinct(toIo', {"beginSstv"})
           /\ BeginsFirst(toIo) /\ (c.name = "beginSstv" => c.generation \notin Stops)
              => BeginsFirst(toIo')
           /\ \A g : StopAhead(toIo, g) => StopAhead(toIo', g)
           /\ c.name = "stop" /\ c.generation \notin Sounds
              => StopAhead(toIo', c.generation)
<1>1. toIo \in Seq(Posted(IoCalls))
  BY QueueTypes
<1>0. \A names : Gens(Append(toIo, c), names) =
                     IF c.name \in names THEN Gens(toIo, names) \union {c.generation}
                                         ELSE Gens(toIo, names)
  BY <1>1, GensAppend
<1>2. /\ Gens(toIo', {"beginSstv"}) = IF c.name \in {"beginSstv"}
                                      THEN Gens(toIo, {"beginSstv"}) \union {c.generation}
                                      ELSE Gens(toIo, {"beginSstv"})
      /\ Gens(toIo', {"stop"}) = IF c.name \in {"stop"}
                                 THEN Gens(toIo, {"stop"}) \union {c.generation}
                                 ELSE Gens(toIo, {"stop"})
      /\ Gens(toIo', {"beginFt"}) = IF c.name \in {"beginFt"}
                                    THEN Gens(toIo, {"beginFt"}) \union {c.generation}
                                    ELSE Gens(toIo, {"beginFt"})
      /\ Gens(toIo', {"stopFt"}) = IF c.name \in {"stopFt"}
                                   THEN Gens(toIo, {"stopFt"}) \union {c.generation}
                                   ELSE Gens(toIo, {"stopFt"})
      /\ Gens(toIo', {"packet"}) = IF c.name \in {"packet"}
                                   THEN Gens(toIo, {"packet"}) \union {c.generation}
                                   ELSE Gens(toIo, {"packet"})
  BY <1>0
<1>3. ASSUME Distinct(toIo, {"beginSstv"}),
             c.name = "beginSstv" => c.generation \notin Requested
      PROVE  Distinct(toIo', {"beginSstv"})
  <2>1. c.name \in {"beginSstv"} => c.generation \notin Gens(toIo, {"beginSstv"})
    BY <1>3 DEF Requested
  <2> QED BY <1>1, <1>3, <2>1, DistinctAppend
<1>4. ASSUME BeginsFirst(toIo), c.name = "beginSstv" => c.generation \notin Stops
      PROVE  BeginsFirst(toIo')
  BY <1>1, <1>4, BeginsAppend DEF Stops
<1>5. \A g : StopAhead(toIo, g) => StopAhead(toIo', g)
  BY <1>1, AheadAppend
<1>6. c.name = "stop" /\ c.generation \notin Sounds => StopAhead(toIo', c.generation)
  BY <1>1, AheadAppend DEF Sounds
<1> QED BY <1>2, <1>3, <1>4, <1>5, <1>6 DEF Requested, Stops, FtBegins, FtStops, Sounds

(* The same, for a call that is posted.                                    *)
LEMMA IoPosts ==
    ASSUME Typed, NEW name \in IoCalls, NEW g \in GenerationOrNone,
           toIo' = toIo \o Call(name, g)
    PROVE  /\ Requested' = IF name = "beginSstv" THEN Requested \union {g} ELSE Requested
           /\ Stops' = IF name = "stop" THEN Stops \union {g} ELSE Stops
           /\ FtBegins' = IF name = "beginFt" THEN FtBegins \union {g} ELSE FtBegins
           /\ FtStops' = IF name = "stopFt" THEN FtStops \union {g} ELSE FtStops
           /\ name # "packet" => Sounds' = Sounds
           /\ Distinct(toIo, {"beginSstv"}) /\ (name = "beginSstv" => g \notin Requested)
              => Distinct(toIo', {"beginSstv"})
           /\ BeginsFirst(toIo) /\ (name = "beginSstv" => g \notin Stops)
              => BeginsFirst(toIo')
           /\ \A h : StopAhead(toIo, h) => StopAhead(toIo', h)
           /\ name = "stop" /\ g \notin Sounds => StopAhead(toIo', g)
<1> DEFINE c == [name |-> name, generation |-> g, frame |-> 0]
<1>1. c \in Posted(IoCalls) /\ toIo' = Append(toIo, c)
  BY QueueTypes, CallIs
<1>2. c.name = name /\ c.generation = g
  OBVIOUS
<1> HIDE DEF c
<1> QED BY <1>1, <1>2, IoAppended

(* The same, for a packet.                                                 *)
LEMMA IoPacketPosts ==
    ASSUME Typed, NEW g \in GenerationOrNone, NEW n \in 0..Frames,
           toIo' = toIo \o Packet(g, n)
    PROVE  /\ Requested' = Requested /\ Stops' = Stops /\ FtBegins' = FtBegins
           /\ FtStops' = FtStops /\ Sounds' = Sounds \union {g}
           /\ Distinct(toIo, {"beginSstv"}) => Distinct(toIo', {"beginSstv"})
           /\ BeginsFirst(toIo) => BeginsFirst(toIo')
           /\ \A h : StopAhead(toIo, h) => StopAhead(toIo', h)
<1> DEFINE c == [name |-> "packet", generation |-> g, frame |-> n]
<1>1. c \in Posted(IoCalls) /\ toIo' = Append(toIo, c)
  <2>1. "packet" \in IoCalls
    BY DEF IoCalls
  <2> QED BY <2>1, QueueTypes, PacketIs
<1>2. c.name = "packet" /\ c.generation = g
  OBVIOUS
<1> HIDE DEF c
<1> QED BY <1>1, <1>2, IoAppended

(* What the I/O thread takes is no longer on its way.                      *)
LEMMA IoTaken ==
    ASSUME Typed, NEW name, IoTakes(name)
    PROVE  /\ Requested = IF name = "beginSstv"
                          THEN Requested' \union {Head(toIo).generation} ELSE Requested'
           /\ Stops = IF name = "stop"
                      THEN Stops' \union {Head(toIo).generation} ELSE Stops'
           /\ FtBegins = IF name = "beginFt"
                         THEN FtBegins' \union {Head(toIo).generation} ELSE FtBegins'
           /\ FtStops = IF name = "stopFt"
                        THEN FtStops' \union {Head(toIo).generation} ELSE FtStops'
           /\ Sounds = IF name = "packet"
                       THEN Sounds' \union {Head(toIo).generation} ELSE Sounds'
           /\ Distinct(toIo, {"beginSstv"}) =>
                  /\ Distinct(toIo', {"beginSstv"})
                  /\ name = "beginSstv" => Head(toIo).generation \notin Requested'
           /\ BeginsFirst(toIo) =>
                  /\ BeginsFirst(toIo')
                  /\ name = "stop" => Head(toIo).generation \notin Requested'
           /\ \A g : StopAhead(toIo, g) =>
                  /\ ~(name = "packet" /\ Head(toIo).generation = g)
                  /\ ~(name = "stop" /\ Head(toIo).generation = g) => StopAhead(toIo', g)
<1> DEFINE h == Head(toIo).generation
           t == Tail(toIo)
<1>1. /\ toIo \in Seq(Posted(IoCalls)) /\ toIo # <<>> /\ Head(toIo).name = name
      /\ toIo' = t
  BY QueueTypes, TakenIs DEF IoTakes
<1>2. \A names : Gens(toIo, names) = IF name \in names THEN Gens(t, names) \union {h}
                                                       ELSE Gens(t, names)
  BY <1>1, GensTail
<1>3. ASSUME Distinct(toIo, {"beginSstv"})
      PROVE  /\ Distinct(t, {"beginSstv"})
             /\ name \in {"beginSstv"} => h \notin Gens(t, {"beginSstv"})
  BY <1>1, <1>3, DistinctTail
<1>4. ASSUME BeginsFirst(toIo)
      PROVE  BeginsFirst(t) /\ (name = "stop" => h \notin Gens(t, {"beginSstv"}))
  BY <1>1, <1>4, BeginsTail
<1>5. ASSUME NEW g, StopAhead(toIo, g)
      PROVE  /\ ~(name = "packet" /\ h = g)
             /\ ~(name = "stop" /\ h = g) => StopAhead(t, g)
  BY <1>1, <1>5, AheadTail
<1>6. /\ Gens(toIo, {"beginSstv"}) = IF name = "beginSstv"
             THEN Gens(t, {"beginSstv"}) \union {h} ELSE Gens(t, {"beginSstv"})
      /\ Gens(toIo, {"stop"}) = IF name = "stop"
             THEN Gens(t, {"stop"}) \union {h} ELSE Gens(t, {"stop"})
      /\ Gens(toIo, {"beginFt"}) = IF name = "beginFt"
             THEN Gens(t, {"beginFt"}) \union {h} ELSE Gens(t, {"beginFt"})
      /\ Gens(toIo, {"stopFt"}) = IF name = "stopFt"
             THEN Gens(t, {"stopFt"}) \union {h} ELSE Gens(t, {"stopFt"})
      /\ Gens(toIo, {"packet"}) = IF name = "packet"
             THEN Gens(t, {"packet"}) \union {h} ELSE Gens(t, {"packet"})
  BY <1>2
<1> HIDE DEF h, t
<1>7. /\ Requested' = Gens(t, {"beginSstv"}) /\ Stops' = Gens(t, {"stop"})
      /\ FtBegins' = Gens(t, {"beginFt"}) /\ FtStops' = Gens(t, {"stopFt"})
      /\ Sounds' = Gens(t, {"packet"})
  BY <1>1 DEF Requested, Stops, FtBegins, FtStops, Sounds
<1>8. /\ Requested = Gens(toIo, {"beginSstv"}) /\ Stops = Gens(toIo, {"stop"})
      /\ FtBegins = Gens(toIo, {"beginFt"}) /\ FtStops = Gens(toIo, {"stopFt"})
      /\ Sounds = Gens(toIo, {"packet"})
  BY DEF Requested, Stops, FtBegins, FtStops, Sounds
<1> QED BY <1>1, <1>3, <1>4, <1>5, <1>6, <1>7, <1>8 DEF h

(***************************************************************************)
(* The steps of each thread                                                *)
(***************************************************************************)
LEMMA OthersKept ==
    /\ UiThread => UNCHANGED <<connected, ioVars, audioVars>>
    /\ IoThread => UNCHANGED <<sstvActive, uiVars, audioVars>>
    /\ AudioThread => UNCHANGED <<connected, uiVars, ioVars>>
<1>1. UiThread => UNCHANGED <<connected, ioVars, audioVars>>
  <2>1. StopSstv => UNCHANGED <<connected, ioVars, audioVars>>
    BY DEF StopSstv
  <2>2. StopFt => UNCHANGED <<connected, ioVars, audioVars>>
    BY DEF StopFt
  <2>3. \A g : KeyGuardElapsed(g) => UNCHANGED <<connected, ioVars, audioVars>>
    BY <2>1 DEF KeyGuardElapsed, shared
  <2>4. \A g : DrainElapsed(g) => UNCHANGED <<connected, ioVars, audioVars>>
    BY DEF DrainElapsed, shared
  <2>5. \A operator : StartFt(operator) => UNCHANGED <<connected, ioVars, audioVars>>
    BY DEF StartFt
  <2>6. OnDisconnected \/ OnReceiveReport \/ OnFailed \/ OperatorStopsSstv \/ OperatorStopsFt
        => UNCHANGED <<connected, ioVars, audioVars>>
    BY <2>1, <2>2 DEF OnDisconnected, OnReceiveReport, OnFailed, OperatorStopsSstv,
       OperatorStopsFt, UiUnmoved, shared
  <2>7. StartSstv \/ OnPrepared \/ OnKeyRequested \/ OnAccepted \/ OnFinished
        => UNCHANGED <<connected, ioVars, audioVars>>
    BY DEF StartSstv, OnPrepared, OnKeyRequested, OnAccepted, OnFinished, shared
  <2> QED BY <2>3, <2>4, <2>5, <2>6, <2>7 DEF UiThread
<1>2. IoThread => UNCHANGED <<sstvActive, uiVars, audioVars>>
  <2>1. Unkey => UNCHANGED sstvActive
    BY DEF Unkey
  <2>2. TripGuard => UNCHANGED sstvActive
    BY <2>1 DEF TripGuard
  <2>3. \A k : RefuseBegin(k) \/ ArmGuard(k) => UNCHANGED <<sstvActive, uiVars, audioVars>>
    BY DEF RefuseBegin, ArmGuard, shared
  <2>4. \A g : DrainPoll(g) => UNCHANGED <<sstvActive, uiVars, audioVars>>
    BY DEF DrainPoll, shared
  <2>5. PacketTaken => UNCHANGED <<sstvActive, uiVars, audioVars>>
    BY <2>2 DEF PacketTaken, PacketDropped, PacketTrips, PacketHeard, shared
  <2>6. TakeStop \/ TakeStopFt => UNCHANGED <<sstvActive, uiVars, audioVars>>
    BY <2>1 DEF TakeStop, TakeStopFt
  <2>7. TripCancelled \/ TripOnReadings => UNCHANGED <<sstvActive, uiVars, audioVars>>
    BY <2>2 DEF TripCancelled, TripOnReadings
  <2>8. TakeAcknowledge \/ ConnectionLost \/ Reconnected
        => UNCHANGED <<sstvActive, uiVars, audioVars>>
    BY DEF TakeAcknowledge, ConnectionLost, Reconnected, shared
  <2>9. Busies \/ SlotLost \/ KeyRadio => UNCHANGED <<sstvActive, uiVars, audioVars>>
    BY BusyIs, SlotLostIs DEF KeyRadio, shared
  <2> QED BY <2>3, <2>4, <2>5, <2>6, <2>7, <2>8, <2>9, IoActsIs DEF IoActs
<1>3. AudioThread => UNCHANGED <<connected, uiVars, ioVars>>
  <2>1. Fail => UNCHANGED <<connected, uiVars, ioVars>>
    BY DEF Fail
  <2>2. TakeCancel \/ TickFails => UNCHANGED <<connected, uiVars, ioVars>>
    BY <2>1 DEF TakeCancel, TickFails, shared
  <2>3. TakePrepare \/ TakeBeginSstv \/ Launch \/ TakeStopSstv \/ Pacer \/ PostImage
        => UNCHANGED <<connected, uiVars, ioVars>>
    BY DEF TakePrepare, TakeBeginSstv, Launch, TakeStopSstv, Pacer, PostImage, shared
  <2>4. TakeSchedule \/ TakeKeyed \/ TakeAccepted \/ TakeUnkeyed \/ Tick \/ TickWaits
        => UNCHANGED <<connected, uiVars, ioVars>>
    BY DEF TakeSchedule, TakeKeyed, TakeAccepted, TakeUnkeyed, Tick, TickWaits, shared
  <2>5. RequestKey \/ StartAudio \/ EmitFrame \/ RequestUnkey
        => UNCHANGED <<connected, uiVars, ioVars>>
    BY DEF RequestKey, StartAudio, EmitFrame, RequestUnkey, shared
  <2> QED BY <2>2, <2>3, <2>4, <2>5 DEF AudioThread
<1> QED BY <1>1, <1>2, <1>3

(* The UI thread starts, stops or hands on a transmission, or passes the   *)
(* one it has from one stage to the next.                                  *)
UiQuietTake ==
    \/ UNCHANGED toUi
    \/ \E name \in {"keyRequested", "failed", "accepted", "disconnected"} : UiTakes(name)
UiStopsSstv == SstvBusy /\ StopSstv /\ UiQuietTake
UiStopsFt == StopFt /\ UiQuietTake
UiPasses ==
    /\ UiQuietTake
    /\ UNCHANGED <<shared, toIo, lastGeneration, ft, starts, completed, halted>>
    /\ UNCHANGED toAudio \/ \E g \in Generations : toAudio' = toAudio \o Call("beginSstv", g)
    /\ sstv' # "idle" <=> sstv # "idle"

(* What the UI thread does, by what it posts.                              *)
LEMMA UiCases ==
    ASSUME UiThread
    PROVE  \/ StartSstv \/ OnPrepared \/ OnFinished
           \/ UiStopsSstv \/ UiStopsFt \/ UiPasses
           \/ \E g \in Generations : DrainElapsed(g)
           \/ \E operator \in BOOLEAN : StartFt(operator)
<1>1. OperatorStopsSstv => UiStopsSstv
  BY DEF OperatorStopsSstv, UiStopsSstv, UiQuietTake
<1>2. OperatorStopsFt => UiStopsFt
  BY DEF OperatorStopsFt, UiStopsFt, UiQuietTake
<1>3. OnKeyRequested => UiPasses
  BY DEF OnKeyRequested, UiPasses, UiQuietTake
<1>4. OnAccepted => UiPasses
  BY DEF OnAccepted, UiPasses, UiQuietTake
<1>5. OnFailed => UiPasses \/ UiStopsSstv
  BY DEF OnFailed, UiPasses, UiStopsSstv, UiQuietTake
<1>6. OnDisconnected => UiPasses \/ UiStopsSstv \/ UiStopsFt
  BY DEF OnDisconnected, UiPasses, UiStopsSstv, UiStopsFt, UiUnmoved, UiQuietTake
<1>7. OnReceiveReport => UiStopsSstv \/ UiStopsFt
  BY DEF OnReceiveReport, UiStopsSstv, UiStopsFt, UiQuietTake, SstvBusy
<1>8. ASSUME NEW g \in Generations, KeyGuardElapsed(g) PROVE UiPasses \/ UiStopsSstv
  BY <1>8 DEF KeyGuardElapsed, UiPasses, UiStopsSstv, UiQuietTake, SstvBusy
<1> QED BY <1>1, <1>2, <1>3, <1>4, <1>5, <1>6, <1>7, <1>8 DEF UiThread

(* Only the UI thread gives out a generation, the next one.                *)
LEMMA CountedStep == IInv /\ [Next]_vars => Counted'
<1> SUFFICES ASSUME IInv, [Next]_vars PROVE Counted'
  OBVIOUS
<1>0. starts \in Nat /\ lastGeneration \in Nat /\ Counted
  BY NumberTypes DEF IInv, Typed, TypedUi
<1>1. CASE UiThread
  <2>1. CASE StartSstv
    BY <1>0, <2>1 DEF StartSstv, Counted, Issued
  <2>2. CASE UiStopsSstv
    BY <1>0, <2>2 DEF UiStopsSstv, StopSstv, Counted, Issued, SstvBusy
  <2>3. CASE OnPrepared
    BY <1>0, <2>3 DEF OnPrepared, Counted
  <2>4. ASSUME NEW g \in Generations, DrainElapsed(g) PROVE Counted'
    BY <1>0, <2>4 DEF DrainElapsed, Counted, Issued
  <2>5. ASSUME NEW operator \in BOOLEAN, StartFt(operator) PROVE Counted'
    BY <1>0, <2>5 DEF StartFt, Counted, Issued
  <2>6. CASE UiStopsFt
    BY <1>0, <2>6 DEF UiStopsFt, StopFt, Counted
  <2>7. CASE OnFinished
    BY <1>0, <2>7 DEF OnFinished, Counted
  <2>8. CASE UiPasses
    BY <1>0, <2>8 DEF UiPasses, Counted
  <2> QED BY <1>1, <2>1, <2>2, <2>3, <2>4, <2>5, <2>6, <2>7, <2>8, UiCases
<1>2. CASE UNCHANGED uiVars
  BY <1>0, <1>2 DEF uiVars, Counted
<1> QED BY <1>1, <1>2, OthersKept DEF Next, vars

(* The packets on their way have a frame.                                  *)
LEMMA FramedAppend ==
    ASSUME NEW S, NEW q \in Seq(S), NEW c \in S, c.name = "packet" => c.frame # 0,
           Framed(q)
    PROVE  Framed(Append(q, c))
<1> DEFINE t == Append(q, c)
<1>1. /\ Len(q) \in Nat /\ Len(t) = Len(q) + 1
      /\ \A i \in 1..Len(q) : t[i] = q[i]
      /\ t[Len(q) + 1] = c
  BY AppendIs
<1> HIDE DEF t
<1>2. Framed(t)
  BY <1>1 DEF Framed
<1> QED BY <1>2 DEF t

(* What is left of a queue of frames is one.                               *)
LEMMA FramedTail ==
    ASSUME NEW S, NEW q \in Seq(S), q # <<>>, Framed(q)
    PROVE  Framed(Tail(q))
<1> DEFINE t == Tail(q)
<1>1. /\ Len(q) \in Nat \ {0} /\ Len(t) = Len(q) - 1
      /\ \A i \in 1..Len(q) - 1 : t[i] = q[i + 1]
  BY TailIs
<1> HIDE DEF t
<1>2. Framed(t)
  BY <1>1 DEF Framed
<1> QED BY <1>2 DEF t

\* A call or a packet is posted to the I/O thread, or nothing.
Appends ==
    \/ UNCHANGED toIo
    \/ \E name \in IoCalls \ {"packet"}, g \in GenerationOrNone : toIo' = toIo \o Call(name, g)
    \/ \E g \in GenerationOrNone, n \in 1..Frames : toIo' = toIo \o Packet(g, n)
FramedMove == Appends \/ \E name : IoTakes(name)
(* No packet comes but from the pacers.                                    *)
LEMMA FramedStays ==
    ASSUME Typed, Framed(toIo), FramedMove
    PROVE  Framed(toIo')
<1>0. toIo \in Seq(Posted(IoCalls))
  BY QueueTypes
<1>1. CASE UNCHANGED toIo
  BY <1>1
<1>2. ASSUME NEW name, IoTakes(name) PROVE Framed(toIo')
  <2>1. toIo # <<>> /\ toIo' = Tail(toIo)
    BY <1>0, <1>2, TakenIs DEF IoTakes
  <2> QED BY <1>0, <2>1, FramedTail
<1>3. ASSUME NEW name \in IoCalls \ {"packet"}, NEW g \in GenerationOrNone,
             toIo' = toIo \o Call(name, g)
      PROVE  Framed(toIo')
  <2> DEFINE c == [name |-> name, generation |-> g, frame |-> 0]
  <2>1. c \in Posted(IoCalls) /\ toIo' = Append(toIo, c)
    BY <1>0, <1>3, CallIs
  <2>2. c.name # "packet"
    OBVIOUS
  <2> HIDE DEF c
  <2> QED BY <1>0, <2>1, <2>2, FramedAppend
<1>4. ASSUME NEW g \in GenerationOrNone, NEW n \in 1..Frames,
             toIo' = toIo \o Packet(g, n)
      PROVE  Framed(toIo')
  <2> DEFINE c == [name |-> "packet", generation |-> g, frame |-> n]
  <2>1. c \in Posted(IoCalls) /\ toIo' = Append(toIo, c)
    <3>1. "packet" \in IoCalls
      BY DEF IoCalls
    <3>2. n \in 0..Frames
      BY NumberTypes
    <3> QED BY <1>0, <1>4, <3>1, <3>2, PacketIs
  <2>2. c.frame # 0
    BY NumberTypes
  <2> HIDE DEF c
  <2> QED BY <1>0, <2>1, <2>2, FramedAppend
<1> QED BY <1>1, <1>2, <1>3, <1>4 DEF FramedMove, Appends

(* What the UI thread posts.                                               *)
LEMMA UiAppends ==
    ASSUME Typed, UiThread
    PROVE  Appends
<1>1. CASE StartSstv
  BY <1>1, NumberTypes DEF StartSstv, Appends, IoCalls
<1>2. CASE UiStopsSstv
  BY <1>2, NumberTypes DEF UiStopsSstv, StopSstv, Appends, IoCalls
<1>3. CASE OnPrepared
  <2>1. \A name : UiTakes(name) => Head(toUi).generation \in GenerationOrNone
    BY UiTake
  <2> QED BY <1>3, <2>1 DEF OnPrepared, Appends, IoCalls
<1>4. ASSUME NEW g \in Generations, DrainElapsed(g) PROVE Appends
  BY <1>4, NumberTypes DEF DrainElapsed, Appends, IoCalls
<1>5. ASSUME NEW operator \in BOOLEAN, StartFt(operator) PROVE Appends
  <2>1. toIo \o <<>> = toIo
    BY QueueTypes, ConcatEmptySeq
  <2> QED BY <1>5, <2>1, NumberTypes DEF StartFt, Appends, IoCalls
<1>6. CASE UiStopsFt
  BY <1>6, NumberTypes DEF UiStopsFt, StopFt, Appends, IoCalls
<1>7. CASE OnFinished
  BY <1>7 DEF OnFinished, Appends
<1>8. CASE UiPasses
  BY <1>8 DEF UiPasses, Appends
<1> QED BY <1>1, <1>2, <1>3, <1>4, <1>5, <1>6, <1>7, <1>8, UiCases

(* The UI and I/O threads make no packet.                                  *)
LEMMA IoFramed ==
    ASSUME Typed, UiThread \/ IoThread
    PROVE  FramedMove
<1>1. CASE UiThread
  BY <1>1, UiAppends DEF FramedMove
<1>2. CASE IoThread
  <2>1. TakeAcknowledge \/ TakeStop \/ TakeStopFt \/ PacketTaken => FramedMove
    BY DEF TakeAcknowledge, TakeStop, TakeStopFt, PacketTaken, PacketDropped, PacketTrips,
           PacketHeard, FramedMove, Appends
  <2>2. \A k : RefuseBegin(k) \/ ArmGuard(k) => FramedMove
    BY DEF RefuseBegin, ArmGuard, FramedMove, Appends
  <2>3. TripCancelled \/ TripOnReadings \/ ConnectionLost \/ Reconnected => FramedMove
    BY DEF TripCancelled, TripOnReadings, ConnectionLost, Reconnected, queues, FramedMove, Appends
  <2>4. \A g : DrainPoll(g) => FramedMove
    BY DEF DrainPoll, FramedMove, Appends
  <2>5. Busies \/ SlotLost \/ KeyRadio => FramedMove
    BY BusyIs, SlotLostIs DEF KeyRadio, queues, FramedMove, Appends
  <2> QED BY <1>2, <2>1, <2>2, <2>3, <2>4, <2>5, IoActsIs DEF IoActs
<1> QED BY <1>1, <1>2

(* The pacers stop at their last frame.                                    *)
LEMMA FramesStep == IInv /\ [Next]_vars => FramesLeft'
<1> SUFFICES ASSUME IInv, [Next]_vars PROVE FramesLeft'
  OBVIOUS
<1>0. /\ Typed /\ FramesLeft /\ Framed(toIo) /\ Frames \in Nat \ {0}
      /\ imageFrame \in 0..Frames /\ ftFrame \in 0..Frames
      /\ sstvPrepared \in BOOLEAN /\ sstvActive \in BOOLEAN
  BY NumberTypes DEF IInv, Typed, TypedShared, TypedAudio, FramesLeft
<1> DEFINE FtLeft == phase \in {"waiting", "keying", "audio"} => ftFrame < Frames
           SstvLeft == /\ sstvActive \/ inside \in {"begin", "image"} => sstvPrepared
                       /\ sstvPrepared => imageFrame < Frames
<1>u. FramesLeft = (FtLeft /\ SstvLeft /\ Framed(toIo))
  BY DEF FramesLeft
<1>v. FramesLeft' = (FtLeft' /\ SstvLeft' /\ Framed(toIo)')
  BY DEF FramesLeft
<1>w. FtLeft /\ SstvLeft
  BY <1>0, <1>u
<1>f. UNCHANGED ftVars => FtLeft'
  BY <1>w DEF ftVars
<1>s. UNCHANGED <<sstvVars, inside>> /\ (sstvActive' => sstvActive) => SstvLeft'
  BY <1>w DEF sstvVars
<1>q. FramedMove => Framed(toIo')
  BY <1>0, FramedStays
<1>t. UNCHANGED toIo => FramedMove
  BY DEF FramedMove, Appends
<1>1. CASE UiThread \/ IoThread
  <2>1. UNCHANGED audioVars
    BY <1>1, OthersKept
  <2>2. sstvActive' => sstvActive
    <3>1. CASE UiThread
      BY <3>1, UiCases DEF StartSstv, OnPrepared, OnFinished, UiStopsSstv, StopSstv,
         RequestSstvStop, UiStopsFt, StopFt, UiPasses, DrainElapsed, StartFt, shared
    <3> QED BY <1>1, <3>1, OthersKept
  <2> QED BY <1>0, <1>1, <1>v, <1>f, <1>s, <1>q, <2>1, <2>2, IoFramed DEF audioVars
<1>2. CASE AudioThread
  <2>1. CASE TakePrepare
    <3>1. SstvLeft'
      BY <1>0, <1>w, <2>1 DEF TakePrepare, AudioTakes, shared
    <3> QED BY <1>v, <1>f, <1>q, <1>t, <2>1, <3>1 DEF TakePrepare
  <2>2. CASE TakeBeginSstv
    <3>1. SstvLeft'
      BY <1>0, <1>w, <2>2 DEF TakeBeginSstv, shared, sstvVars
    <3> QED BY <1>v, <1>f, <1>q, <1>t, <2>2, <3>1 DEF TakeBeginSstv
  <2>3. CASE Launch
    <3>0. /\ inside = "begin" /\ inside' = "loop" /\ imageFrame' = imageFrame
          /\ \/ sstvPrepared' = sstvPrepared
             \/ sstvActive' = sstvActive /\ ~sstvActive /\ sstvPrepared' = FALSE
      BY <2>3 DEF Launch
    <3>1. sstvPrepared /\ imageFrame < Frames
      BY <1>w, <3>0
    <3>4. SstvLeft'
      <4>1. CASE sstvPrepared' = sstvPrepared
        BY <3>0, <3>1, <4>1
      <4>2. CASE sstvActive' = sstvActive /\ ~sstvActive /\ sstvPrepared' = FALSE
        <5>1. ~sstvActive'
          BY <4>2
        <5> QED BY <3>0, <4>2, <5>1
      <4> QED BY <3>0, <4>1, <4>2
    <3> QED BY <1>v, <1>f, <1>q, <1>t, <2>3, <3>4 DEF Launch
  <2>4. CASE TakeStopSstv
    <3>1. SstvLeft'
      BY <1>0, <1>w, <2>4 DEF TakeStopSstv, SstvStopped, AudioTakes
    <3> QED BY <1>v, <1>f, <1>q, <1>t, <2>4, <3>1 DEF TakeStopSstv
  <2>5. CASE Pacer
    <3>0. /\ sstvActive /\ imageFrame' = imageFrame
          /\ \/ sstvActive' = FALSE /\ sstvPrepared' = FALSE /\ inside' = inside
             \/ sstvActive' = sstvActive /\ sstvPrepared' = sstvPrepared
          /\ inside = "loop"
      BY <2>5 DEF Pacer, SstvStopped
    <3>1. sstvPrepared /\ imageFrame < Frames
      BY <1>w, <3>0
    <3>4. SstvLeft'
      <4>1. CASE sstvActive' = FALSE /\ sstvPrepared' = FALSE /\ inside' = inside
        BY <3>0, <4>1
      <4>2. CASE sstvActive' = sstvActive /\ sstvPrepared' = sstvPrepared
        <5>1. sstvPrepared'
          BY <3>1, <4>2
        <5> QED BY <3>0, <3>1, <5>1
      <4> QED BY <3>0, <4>1, <4>2
    <3> QED BY <1>v, <1>f, <1>q, <1>t, <2>5, <3>4 DEF Pacer, queues
  <2>6. CASE PostImage
    <3>0. imageFrame < Frames /\ inside = "image"
      BY <1>w, <2>6 DEF PostImage
    <3>1. /\ inside' = "loop"
          /\ \/ sstvActive' = FALSE /\ sstvPrepared' = FALSE
             \/ /\ imageFrame' = imageFrame + 1 /\ imageFrame' # Frames
                /\ sstvActive' = sstvActive /\ sstvPrepared' = sstvPrepared
      BY <2>6 DEF PostImage, SstvStopped
    <3>3. SstvLeft'
      <4>1. imageFrame + 1 <= Frames
        BY <1>0, <3>0
      <4>2. imageFrame' = imageFrame + 1 /\ imageFrame' # Frames => imageFrame' < Frames
        BY <1>0, <4>1
      <4> QED BY <1>w, <3>1, <4>2
    <3>2. FramedMove
      <4>1. imageFrame + 1 \in 1..Frames
        BY <1>0, <3>0
      <4> QED BY <2>6, <4>1, <1>0, <1>t, NumberTypes DEF PostImage, FramedMove, Appends
    <3> QED BY <1>v, <1>f, <1>q, <2>6, <3>3, <3>2 DEF PostImage
  <2>7. CASE TakeSchedule
    <3>1. FtLeft'
      BY <1>0, <1>w, <2>7 DEF WaveCleared, TakeSchedule
    <3> QED BY <1>v, <1>s, <1>q, <1>t, <2>7, <3>1 DEF TakeSchedule, shared
  <2>8. CASE Fail
    <3>1. FtLeft' /\ SstvLeft'
      BY <1>0, <1>w, <2>8 DEF Fail, sstvVars
    <3>2. FramedMove
      BY <2>8, <1>0, NumberTypes DEF Fail, FramedMove, Appends, IoCalls
    <3> QED BY <1>v, <1>q, <3>1, <3>2
  <2>9. CASE TakeCancel
    BY <1>v, <1>f, <1>s, <1>q, <1>t, <2>8, <2>9 DEF TakeCancel, audioVars, shared
  <2>10. CASE TakeKeyed
    BY <1>v, <1>w, <1>s, <1>q, <1>t, <2>10 DEF TakeKeyed, shared
  <2>11. CASE TakeAccepted
    BY <1>v, <1>w, <1>s, <1>q, <1>t, <2>11 DEF TakeAccepted, shared
  <2>12. CASE TakeUnkeyed
    <3>1. FtLeft'
      BY <1>w, <2>12 DEF TakeUnkeyed
    <3> QED BY <1>v, <1>s, <1>q, <1>t, <2>12, <3>1 DEF TakeUnkeyed, shared
  <2>13. CASE TickFails
    BY <2>8, <2>13 DEF TickFails
  <2>14. CASE Tick \/ TickWaits
    <3>1. SstvLeft'
      BY <1>w, <2>14 DEF Tick, TickWaits, Ticks, shared, sstvVars
    <3> QED BY <1>v, <1>f, <1>q, <1>t, <2>14, <3>1 DEF Tick, TickWaits, queues
  <2>15. CASE RequestKey
    <3>1. FtLeft' /\ SstvLeft'
      BY <1>w, <2>15 DEF RequestKey, Ticks, shared, sstvVars
    <3>2. FramedMove
      BY <2>15, <1>0, NumberTypes DEF RequestKey, FramedMove, Appends, IoCalls
    <3> QED BY <1>v, <1>q, <3>1, <3>2
  <2>16. CASE StartAudio
    <3>1. FtLeft' /\ SstvLeft'
      BY <1>w, <2>16 DEF StartAudio, Ticks, sstvVars
    <3> QED BY <1>v, <1>q, <1>t, <2>16, <3>1 DEF StartAudio, queues
  <2>17. CASE EmitFrame
    <3>0. ftFrame < Frames
      BY <1>w, <2>17 DEF EmitFrame, Ticks
    <3>1. FtLeft' /\ SstvLeft'
      BY <1>0, <1>w, <2>17, <3>0 DEF EmitFrame, Ticks, PhaseAfterFrame, sstvVars
    <3>2. FramedMove
      <4>1. ftFrame + 1 \in 1..Frames
        BY <1>0, <3>0
      <4> QED BY <2>17, <4>1, <1>0, <1>t, NumberTypes DEF EmitFrame, FramedMove, Appends
    <3> QED BY <1>v, <1>q, <3>1, <3>2
  <2>18. CASE RequestUnkey
    <3>1. FtLeft' /\ SstvLeft'
      BY <1>w, <2>18 DEF RequestUnkey, Ticks, shared, sstvVars
    <3>2. FramedMove
      BY <2>18, <1>0, NumberTypes DEF RequestUnkey, FramedMove, Appends, IoCalls
    <3> QED BY <1>v, <1>q, <3>1, <3>2
  <2> QED BY <1>2, <2>1, <2>2, <2>3, <2>4, <2>5, <2>6, <2>7, <2>9, <2>10, <2>11, <2>12,
             <2>13, <2>14, <2>15, <2>16, <2>17, <2>18 DEF AudioThread
<1>3. CASE UNCHANGED vars
  BY <1>3, <1>v, <1>f, <1>s, <1>q, <1>t DEF vars, audioVars, shared, queues
<1> QED BY <1>1, <1>2, <1>3 DEF Next

(***************************************************************************)
(* The gate and the radio                                                  *)
(***************************************************************************)
(* The other threads only close the gate and revoke the slot, but for the  *)
(* one that the start of an FT8/FT4 transmission schedules.                *)
LEMMA OnlyClosed ==
    ASSUME UiThread \/ AudioThread
    PROVE  generation' \in {0, generation}
<1>1. CASE UiThread
  <2>1. \A g : DrainElapsed(g) => generation' = generation
    BY DEF DrainElapsed, shared
  <2>2. \A operator : StartFt(operator) => generation' = generation
    BY DEF StartFt
  <2>3. StartSstv \/ OnPrepared \/ OnFinished \/ UiPasses => generation' = generation
    BY DEF StartSstv, OnPrepared, OnFinished, UiPasses, shared
  <2>4. UiStopsSstv \/ UiStopsFt => generation' \in {0, generation}
    BY DEF UiStopsSstv, StopSstv, RequestSstvStop, UiStopsFt, StopFt, Closed
  <2> QED BY <1>1, <2>1, <2>2, <2>3, <2>4, UiCases
<1>2. CASE AudioThread
  <2>1. Fail => generation' \in {0, generation}
    BY DEF Fail, Closed
  <2>2. TakeCancel \/ TickFails => generation' \in {0, generation}
    BY <2>1 DEF TakeCancel, TickFails, shared
  <2>3. TakePrepare \/ TakeBeginSstv \/ Launch \/ TakeStopSstv \/ Pacer \/ PostImage
        => generation' \in {0, generation}
    BY DEF TakePrepare, TakeBeginSstv, Launch, TakeStopSstv, Pacer, PostImage, shared, Closed
  <2>4. TakeSchedule \/ TakeKeyed \/ TakeAccepted \/ TakeUnkeyed \/ Tick \/ TickWaits
        => generation' = generation
    BY DEF TakeSchedule, TakeKeyed, TakeAccepted, TakeUnkeyed, Tick, TickWaits, shared
  <2>5. RequestKey \/ StartAudio \/ EmitFrame \/ RequestUnkey
        => generation' \in {0, generation}
    BY DEF RequestKey, StartAudio, EmitFrame, RequestUnkey, shared, Closed
  <2> QED BY <1>2, <2>2, <2>3, <2>4, <2>5 DEF AudioThread
<1> QED BY <1>1, <1>2

(* What a step of the I/O thread does to the gate and the radio.           *)
GateStays ==
    UNCHANGED <<generation, active, latched, myGeneration, gateOpen, gateGeneration, onAir>>
\* It is in its event loop, or at the end of what it was doing.
Returns ==
    \/ UNCHANGED ioInside
    \/ ioInside \in {"ticked", "write"} /\ ioInside' = "loop"
Acknowledges ==
    /\ latched' = (latched /\ active)
    /\ UNCHANGED <<generation, active, myGeneration, gateOpen, gateGeneration, onAir, ioInside>>
    /\ ioInside = "loop"
Arms(g) ==
    /\ ioInside = "begin" /\ ioInside' = "armed"
    /\ generation' = g /\ active' = TRUE /\ myGeneration' = g
    /\ UNCHANGED <<latched, gateOpen, gateGeneration, onAir>>
Releases ==
    /\ ioInside = "armed" /\ ioInside' = "loop"
    /\ active' = FALSE /\ generation' = Closed(myGeneration)
    /\ UNCHANGED <<latched, myGeneration, gateOpen, gateGeneration, onAir>>
Opens ==
    /\ ioInside = "key" /\ ioInside' = "loop"
    /\ gateOpen' = TRUE /\ gateGeneration' = myGeneration /\ onAir' = myGeneration
    /\ UNCHANGED <<generation, active, latched, myGeneration>>
Unkeys ==
    /\ active' = FALSE /\ gateOpen' = FALSE /\ onAir' = 0
    /\ generation' = Closed(myGeneration)
    /\ ioInside' = "loop"
    /\ UNCHANGED myGeneration
    /\ UNCHANGED latched \/ (active /\ latched' = TRUE)

(* A begin that is taken is for a transmission of its kind.                *)
LEMMA TakesBegin ==
    ASSUME Typed, OwnGenerations, NEW k \in {"sstv", "ft"}, IoTakes(BeginCall(k))
    PROVE  /\ Head(toIo).generation \in Generations
           /\ k = "sstv" => Head(toIo).generation \in Requested
           /\ k = "ft" => Head(toIo).generation \in FtBegins
<1> DEFINE g == Head(toIo).generation
           name == BeginCall(k)
<1>1. IoTakes(name)
  OBVIOUS
<1>2. g \in GenerationOrNone
  BY <1>1, IoTake
<1>3. /\ name = "beginSstv" => g \in Requested
      /\ name = "beginFt" => g \in FtBegins
  <2> HIDE DEF name
  <2> QED BY <1>1, IoTaken
<1>4. /\ k = "sstv" => g \in Requested
      /\ k = "ft" => g \in FtBegins
  BY <1>3 DEF BeginCall
<1>5. g # 0
  BY <1>4 DEF OwnGenerations, SstvUses, Pending
<1> QED BY <1>2, <1>4, <1>5, NumberTypes

(* What the I/O thread does to the gate and the guard.                     *)
LEMMA IoGateCases ==
    ASSUME Typed, OwnGenerations, IoThread
    PROVE  \/ GateStays /\ (Returns \/ Busies)
           \/ Acknowledges
           \/ Unkeys
           \/ Releases /\ SlotLost
           \/ Opens /\ KeyRadio
           \/ \E k \in {"sstv", "ft"} : ArmGuard(k) /\ Arms(Head(toIo).generation)
<1>1. TakeAcknowledge => Acknowledges
  BY DEF TakeAcknowledge, Acknowledges, shared
<1>2. TakeStop => Unkeys
  BY DEF TakeStop, Unkey, Unkeys
<1>3. TakeStopFt => Unkeys \/ (GateStays /\ Returns)
  BY DEF TakeStopFt, Unkey, Unkeys, GateStays, Returns
<1>4. TripGuard => Unkeys
  BY DEF TripGuard, Unkey, Unkeys
<1>5. PacketTaken => Unkeys \/ (GateStays /\ Returns)
  <2>1. PacketDropped => GateStays /\ Returns
    BY DEF PacketDropped, GateStays, Returns, shared, ioData, guard
  <2>2. PacketHeard => GateStays /\ Returns
    BY DEF PacketHeard, GateStays, Returns, shared, guard
  <2> QED BY <1>4, <2>1, <2>2 DEF PacketTaken, PacketTrips
<1>6. TripCancelled \/ TripOnReadings => Unkeys
  BY <1>4 DEF TripCancelled, TripOnReadings
<1>7. \A g : DrainPoll(g) => GateStays /\ Returns
  BY DEF DrainPoll, GateStays, Returns, shared, guard
<1>8. ConnectionLost => Unkeys
  BY DEF ConnectionLost, Unkeys
<1>9. Reconnected => GateStays /\ Returns
  BY DEF Reconnected, GateStays, Returns, ioVars, ioData, guard
<1>10. \A k : RefuseBegin(k) => GateStays /\ Returns
  BY DEF RefuseBegin, GateStays, Returns, shared, ioVars, ioData, guard
<1>11. \A k : ArmGuard(k) => Arms(Head(toIo).generation)
  BY DEF ArmGuard, Arms
<1>12. Busies => GateStays
  BY BusyIs DEF GateStays, shared, ioData, guard
<1>13. SlotLost => Releases
  BY SlotLostIs DEF Releases
<1>14. KeyRadio => Opens
  BY DEF KeyRadio, Opens, shared, guard
<1>15. (\E k \in {"sstv", "ft"} : RefuseBegin(k) \/ ArmGuard(k)) =>
           \/ GateStays /\ Returns
           \/ \E k \in {"sstv", "ft"} : ArmGuard(k) /\ Arms(Head(toIo).generation)
  BY <1>10, <1>11
<1>16. (\E g \in Generations : DrainPoll(g)) => GateStays /\ Returns
  BY <1>7
<1> DEFINE Begins == \E k \in {"sstv", "ft"} : RefuseBegin(k) \/ ArmGuard(k)
           Polls == \E g \in Generations : DrainPoll(g)
           Armed == \E k \in {"sstv", "ft"} : ArmGuard(k) /\ Arms(Head(toIo).generation)
<1>17. /\ Begins => (GateStays /\ Returns) \/ Armed
       /\ Polls => GateStays /\ Returns
       /\ \/ Busies \/ SlotLost \/ KeyRadio \/ PacketTaken \/ TakeAcknowledge \/ TakeStop
          \/ TakeStopFt \/ Begins \/ TripCancelled \/ TripOnReadings \/ Polls
          \/ ConnectionLost \/ Reconnected
  BY <1>15, <1>16, IoActsIs DEF IoActs
<1>18. SUFFICES \/ GateStays /\ (Returns \/ Busies)
                \/ Acknowledges
                \/ Unkeys
                \/ Releases /\ SlotLost
                \/ Opens /\ KeyRadio
                \/ Armed
  OBVIOUS
<1> HIDE DEF Begins, Polls, Armed
<1> QED BY <1>1, <1>2, <1>3, <1>5, <1>6, <1>8, <1>9, <1>12, <1>13, <1>14, <1>17

(* The guard is for the transmission it was, or for the one just begun.    *)
LEMMA GuardMoves ==
    ASSUME Typed, OwnGenerations, GateIsGuarded, [Next]_vars
    PROVE  \/ /\ UNCHANGED <<myGeneration, kind>>
              /\ active' => active
              /\ generation' \in {0, generation}
           \/ \E k \in {"sstv", "ft"} : ArmGuard(k)
<1>1. CASE UiThread \/ AudioThread
  BY <1>1, OnlyClosed, OthersKept DEF ioVars, ioData, guard
<1>2. CASE UNCHANGED vars
  BY <1>2 DEF ioVars, ioData, guard, vars, shared
<1>3. CASE IoThread /\ ~\E k \in {"sstv", "ft"} : ArmGuard(k)
  <2>1. UNCHANGED kind
    <3>1. TripGuard \/ Unkey => UNCHANGED kind
      BY DEF TripGuard, Unkey
    <3>2. TakeAcknowledge \/ TakeStop \/ TakeStopFt \/ TripCancelled \/ TripOnReadings
          => UNCHANGED kind
      BY <3>1 DEF TakeAcknowledge, TakeStop, TakeStopFt, TripCancelled, TripOnReadings
    <3>3. PacketTaken => UNCHANGED kind
      BY <3>1 DEF PacketTaken, PacketDropped, PacketTrips, PacketHeard, ioData, guard
    <3>4. \A k : RefuseBegin(k) => UNCHANGED kind
      BY DEF RefuseBegin, ioVars, ioData, guard
    <3>5. \A g : DrainPoll(g) => UNCHANGED kind
      BY DEF DrainPoll, guard
    <3>6. ConnectionLost \/ Reconnected => UNCHANGED kind
      BY DEF ConnectionLost, Reconnected, ioVars, ioData, guard
    <3>7. Busies \/ SlotLost \/ KeyRadio => UNCHANGED kind
      BY BusyIs, SlotLostIs DEF KeyRadio, ioData, guard
    <3> QED BY <1>3, <3>2, <3>3, <3>4, <3>5, <3>6, <3>7, IoActsIs DEF IoActs
  <2>2. UNCHANGED myGeneration /\ (active' => active) /\ generation' \in {0, generation}
    <3>1. GateStays \/ Acknowledges \/ Unkeys \/ Releases \/ Opens
      BY <1>3, IoGateCases
    <3>2. Closed(myGeneration) \in {0, generation}
      BY DEF Closed
    <3> QED BY <3>1, <3>2 DEF GateStays, Acknowledges, Unkeys, Releases, Opens
  <2> QED BY <2>1, <2>2
<1> QED BY <1>1, <1>2, <1>3 DEF Next

(* The gate opens for the generation that the guard was begun for.         *)
LEMMA GateStep == IInv /\ [Next]_vars => GateIsGuarded'
<1> SUFFICES ASSUME IInv, [Next]_vars PROVE GateIsGuarded'
  OBVIOUS
<1>0. /\ Typed /\ GateIsGuarded /\ OwnGenerations
      /\ active \in BOOLEAN /\ gateOpen \in BOOLEAN /\ latched \in BOOLEAN
  BY DEF IInv, Typed, TypedIo
<1>1. CASE generation' \in {0, generation} /\ UNCHANGED ioVars
  BY <1>0, <1>1 DEF GateIsGuarded, ioVars, ioData, guard
<1>2. CASE GateStays /\ Returns
  BY <1>0, <1>2 DEF GateIsGuarded, GateStays, Returns
<1>3. CASE Acknowledges
  BY <1>0, <1>3 DEF GateIsGuarded, Acknowledges
<1>4. CASE Unkeys
  <2>1. generation' = 0
    BY <1>0, <1>4 DEF GateIsGuarded, Unkeys, Closed
  <2> QED BY <1>4, <2>1 DEF GateIsGuarded, Unkeys
<1>5. ASSUME NEW g, Arms(g) PROVE GateIsGuarded'
  <2>1. ~latched' /\ ~gateOpen' /\ onAir' = 0
    BY <1>0, <1>5 DEF GateIsGuarded, Arms
  <2>2. active' = TRUE /\ ioInside' = "armed" /\ myGeneration' = g /\ generation' = g
    BY <1>5 DEF Arms
  <2> QED BY <2>1, <2>2 DEF GateIsGuarded
<1>6. CASE GateStays /\ Busies
  <2>1. CASE \E k \in {"sstv", "ft"} : AdmitBegin(k)
    <3>1. ioInside = "loop" /\ ioInside' = "begin" /\ ~active /\ ~latched
      BY <2>1 DEF AdmitBegin, GuardFree
    <3> QED BY <1>0, <1>6, <3>1 DEF GateIsGuarded, GateStays
  <2>2. CASE ConfirmSlot /\ StillWanted(myGeneration, kind)
    <3>1. ioInside = "armed" /\ ioInside' = "key"
      BY <2>2 DEF ConfirmSlot, CheckSlot
    <3> QED BY <1>0, <1>6, <3>1 DEF GateIsGuarded, GateStays
  <2>3. CASE TakePacket
    <3>1. ioInside = "loop" /\ ioInside' = "ticked" /\ gateOpen
      BY <2>3 DEF TakePacket, AdmitPacket, PacketWanted
    <3> QED BY <1>0, <1>6, <3>1 DEF GateIsGuarded, GateStays
  <2>4. CASE CheckPacket /\ Allows(Head(toIo).generation)
    <3>1. ioInside = "ticked" /\ ioInside' = "write"
      BY <2>4 DEF CheckPacket
    <3> QED BY <1>0, <1>6, <3>1 DEF GateIsGuarded, GateStays
  <2> QED BY <1>6, <2>1, <2>2, <2>3, <2>4 DEF Busies
<1>9. CASE Releases
  <2>1. generation' = 0
    BY <1>0, <1>9 DEF GateIsGuarded, Releases, Closed
  <2> QED BY <1>0, <1>9, <2>1 DEF GateIsGuarded, Releases
<1>10. CASE Opens
  BY <1>0, <1>10 DEF GateIsGuarded, Opens
<1>11. CASE IoThread
  BY <1>0, <1>2, <1>3, <1>4, <1>5, <1>6, <1>9, <1>10, <1>11, IoGateCases
<1>7. CASE UiThread \/ AudioThread
  BY <1>1, <1>7, OnlyClosed, OthersKept
<1>8. CASE UNCHANGED vars
  BY <1>1, <1>8 DEF vars, shared
<1> QED BY <1>11, <1>7, <1>8 DEF Next

(* What the audio thread posts.                                            *)
LEMMA AudioAppends ==
    ASSUME Typed, FramesLeft, AudioThread
    PROVE  Appends
<1>0. /\ Label \in GenerationOrNone /\ txGeneration \in GenerationOrNone
      /\ ftEncoding \in GenerationOrNone
      /\ imageFrame \in 0..Frames /\ ftFrame \in 0..Frames /\ Frames \in Nat
  BY NumberTypes DEF Typed, TypedAudio
<1>1. TakePrepare \/ TakeBeginSstv \/ Launch \/ TakeStopSstv \/ Pacer => UNCHANGED toIo
  BY DEF TakePrepare, TakeBeginSstv, Launch, TakeStopSstv, Pacer, queues
<1>2. TakeSchedule \/ TakeKeyed \/ TakeAccepted \/ TakeUnkeyed \/ Tick \/ TickWaits \/ StartAudio
      => UNCHANGED toIo
  BY DEF TakeSchedule, TakeKeyed, TakeAccepted, TakeUnkeyed, Tick, TickWaits, StartAudio, queues
<1>3. Fail => Appends
  BY <1>0 DEF Fail, Appends, IoCalls
<1>4. TakeCancel \/ TickFails => Fail \/ UNCHANGED toIo
  BY DEF TakeCancel, TickFails
<1>5. RequestKey \/ RequestUnkey => Appends
  BY <1>0 DEF RequestKey, RequestUnkey, Appends, IoCalls
<1>6. ASSUME PostImage PROVE Appends
  <2>1. imageFrame < Frames
    BY <1>6 DEF PostImage, FramesLeft
  <2>2. imageFrame + 1 \in 1..Frames
    BY <1>0, <2>1
  <2> QED BY <1>0, <1>6, <2>2 DEF PostImage, Appends
<1>7. ASSUME EmitFrame PROVE Appends
  <2>1. ftFrame < Frames
    BY <1>7 DEF EmitFrame, Ticks, FramesLeft
  <2>2. ftFrame + 1 \in 1..Frames
    BY <1>0, <2>1
  <2> QED BY <1>0, <1>7, <2>2 DEF EmitFrame, Appends
<1> QED BY <1>1, <1>2, <1>3, <1>4, <1>5, <1>6, <1>7 DEF AudioThread, Appends

(* What is posted to the I/O thread is behind what it is to take first.    *)
LEMMA HeadStays ==
    ASSUME Typed, Appends, toIo # <<>>
    PROVE  toIo' # <<>> /\ Head(toIo') = Head(toIo)
<1>0. toIo \in Seq(Posted(IoCalls))
  BY QueueTypes
<1>1. ASSUME NEW c \in Posted(IoCalls), toIo' = Append(toIo, c)
      PROVE  toIo' # <<>> /\ Head(toIo') = Head(toIo)
  BY <1>0, <1>1, AppendProperties, HeadTailProperties
<1>2. ASSUME NEW name \in IoCalls \ {"packet"}, NEW g \in GenerationOrNone,
             toIo' = toIo \o Call(name, g)
      PROVE  toIo' # <<>> /\ Head(toIo') = Head(toIo)
  BY <1>0, <1>1, <1>2, CallIs
<1>3. ASSUME NEW g \in GenerationOrNone, NEW n \in 1..Frames, toIo' = toIo \o Packet(g, n)
      PROVE  toIo' # <<>> /\ Head(toIo') = Head(toIo)
  <2>1. n \in 0..Frames /\ "packet" \in IoCalls
    BY NumberTypes DEF IoCalls
  <2> QED BY <1>0, <1>1, <1>3, <2>1, PacketIs
<1> QED BY <1>2, <1>3 DEF Appends

(* It comes to the second check of a packet, or to the write, by reading   *)
(* alone.                                                                  *)
LEMMA IoGoesOn ==
    ASSUME Typed, OwnGenerations, IoThread, ioInside' \in {"ticked", "write"}
    PROVE  Busies
<1> SUFFICES ASSUME ~Busies PROVE FALSE
  OBVIOUS
<1>1. Returns \/ Acknowledges \/ Unkeys \/ Releases \/ Opens \/ \E g : Arms(g)
  BY IoGateCases
<1>2. ioInside' = ioInside
  BY <1>1 DEF Returns, Acknowledges, Unkeys, Releases, Opens, Arms
<1>3. PacketDropped \/ PacketHeard => ioInside' = "loop"
  BY DEF PacketDropped, PacketHeard
<1>4. TripGuard \/ Unkey => ioInside' = "loop"
  BY DEF TripGuard, Unkey
<1>5. TakeAcknowledge \/ TakeStop \/ TakeStopFt \/ TripCancelled \/ TripOnReadings
      \/ ConnectionLost \/ Reconnected => ioInside = "loop"
  BY DEF TakeAcknowledge, TakeStop, TakeStopFt, TripCancelled, TripOnReadings,
         ConnectionLost, Reconnected
<1>6. \A k : RefuseBegin(k) \/ ArmGuard(k) => ioInside \in {"loop", "begin"}
  BY DEF RefuseBegin, ArmGuard
<1>7. \A g : DrainPoll(g) => ioInside = "loop"
  BY DEF DrainPoll
<1>8. SlotLost \/ KeyRadio => ioInside' = "loop"
  BY SlotLostIs DEF KeyRadio
<1> QED BY <1>2, <1>3, <1>4, <1>5, <1>6, <1>7, <1>8, IoActsIs
        DEF IoActs, PacketTaken, PacketTrips

(* What the I/O thread is to take first is not touched by the others.      *)
LEMMA OthersKeepHead ==
    ASSUME IInv, UiThread \/ AudioThread \/ UNCHANGED vars
    PROVE  /\ UNCHANGED <<ioInside, gateGeneration, heard>>
           /\ toIo # <<>> => toIo' # <<>> /\ Head(toIo') = Head(toIo)
<1>1. CASE UiThread \/ AudioThread
  <2>1. Typed /\ FramesLeft
    BY DEF IInv
  <2>2. UNCHANGED <<ioInside, gateGeneration, heard>>
    BY <1>1, OthersKept DEF ioVars, ioData
  <2> QED BY <1>1, <2>1, <2>2, UiAppends, AudioAppends, HeadStays DEF IInv
<1>2. CASE UNCHANGED vars
  BY <1>2 DEF vars, queues, ioVars, ioData
<1> QED BY <1>1, <1>2

(* A packet that passed the tick stays the first call.                     *)
LEMMA HandledStep == IInv /\ [Next]_vars => Handled'
<1> SUFFICES ASSUME IInv, [Next]_vars PROVE Handled'
  OBVIOUS
<1>0. /\ Typed /\ OwnGenerations /\ Handled
  BY DEF IInv
<1>1. CASE UiThread \/ AudioThread \/ UNCHANGED vars
  BY <1>0, <1>1, OthersKeepHead DEF Handled, AtHead
<1>2. CASE ioInside' \notin {"ticked", "write"}
  BY <1>2 DEF Handled
<1>3. CASE IoThread /\ ioInside' \in {"ticked", "write"}
  <2>1. Busies /\ UNCHANGED <<toIo, gateGeneration>>
    BY <1>0, <1>3, IoGoesOn, BusyIs DEF queues, ioData
  <2>2. CASE TakePacket
    <3>1. AtHead(toIo, "packet") /\ Head(toIo).generation = gateGeneration /\ ioInside' = "ticked"
      BY <2>2 DEF TakePacket, AdmitPacket, PacketWanted
    <3> QED BY <2>1, <3>1 DEF Handled, AtHead
  <2>3. CASE CheckPacket /\ Allows(Head(toIo).generation)
    <3>1. ioInside = "ticked" /\ Head(toIo).generation # 0
      BY <2>3 DEF CheckPacket, Allows
    <3> QED BY <1>0, <2>1, <3>1 DEF Handled, AtHead
  <2> QED BY <1>3, <2>1, <2>2, <2>3 DEF Busies, AdmitBegin, ConfirmSlot, CheckSlot
<1> QED BY <1>1, <1>2, <1>3 DEF Next

(* What is written is a packet of the transmission the radio is on for.    *)
LEMMA HeardIs ==
    ASSUME IInv, [Next]_vars, NEW h \in heard' \ heard
    PROVE  /\ PacketHeard /\ IoTakes("packet")
           /\ toIo # <<>> /\ Head(toIo).name = "packet"
           /\ h.gen = Head(toIo).generation /\ h.over = onAir
           /\ h.frame = Head(toIo).frame
           /\ gateOpen /\ gateGeneration = h.gen /\ h.gen # 0 /\ h.over = h.gen
<1>1. IoThread
  <2>1. CASE UiThread \/ AudioThread
    BY <2>1, OthersKept DEF ioVars, ioData
  <2>2. CASE UNCHANGED vars
    BY <2>2 DEF vars, ioVars, ioData
  <2> QED BY <2>1, <2>2 DEF Next
<1>2. PacketHeard
  <2>1. TripGuard \/ Unkey => heard' = heard
    BY DEF TripGuard, Unkey
  <2>2. TakeStop \/ TakeStopFt \/ TripCancelled \/ TripOnReadings => heard' = heard
    BY <2>1 DEF TakeStop, TakeStopFt, TripCancelled, TripOnReadings
  <2>3. TakeAcknowledge \/ ConnectionLost \/ Reconnected => heard' = heard
    BY DEF TakeAcknowledge, ConnectionLost, Reconnected, ioVars, ioData
  <2>4. \A k : RefuseBegin(k) \/ ArmGuard(k) => heard' = heard
    BY DEF RefuseBegin, ArmGuard, ioVars, ioData
  <2>5. \A g : DrainPoll(g) => heard' = heard
    BY DEF DrainPoll
  <2>6. Busies \/ SlotLost \/ KeyRadio \/ PacketDropped => heard' = heard
    BY BusyIs, SlotLostIs DEF KeyRadio, PacketDropped, ioData
  <2> QED BY <1>1, <2>1, <2>2, <2>3, <2>4, <2>5, <2>6, IoActsIs
          DEF IoActs, PacketTaken, PacketTrips
<1> DEFINE g == Head(toIo).generation
           n == Head(toIo).frame
<1>3. heard' = heard \union {[gen |-> g, frame |-> n, over |-> onAir]}
  BY <1>2 DEF PacketHeard
<1>4. h = [gen |-> g, frame |-> n, over |-> onAir]
  BY <1>3
<1>5. h.gen = g /\ h.over = onAir /\ h.frame = n
  BY <1>4
<1>6. onAir = g /\ gateOpen /\ gateGeneration = g /\ g # 0
  BY <1>2 DEF PacketHeard, IInv, GateIsGuarded, Handled
<1> QED BY <1>2, <1>5, <1>6 DEF PacketHeard, IoTakes, AtHead

(* A packet is written only in the over it was made for.                   *)
LEMMA OverStep == IInv /\ [Next]_vars => AudioInItsOwnOver'
<1> SUFFICES ASSUME IInv, [Next]_vars, NEW h \in heard' PROVE h.over = h.gen
  BY DEF AudioInItsOwnOver
<1>1. CASE h \in heard
  BY <1>1 DEF IInv, AudioInItsOwnOver
<1>2. CASE h \notin heard
  BY <1>2, HeardIs
<1> QED BY <1>1, <1>2


(***************************************************************************)
(* Steps that neither start, stop nor hand on a transmission               *)
(***************************************************************************)
FtOver == IF phase # "idle" THEN {txGeneration} ELSE {}
QuietUi == Prepared' \subseteq Prepared /\ Distinct(toUi', {"prepared"})
QuietAudio ==
    /\ Asked' = Asked /\ Scheduled' \subseteq Scheduled
    /\ Rising(toAudio', {"prepare"}, sstvGeneration)
QuietIo ==
    /\ Requested' \subseteq Requested /\ Stops' \subseteq Stops
    /\ FtBegins' \subseteq FtBegins \union FtOver
    /\ FtStops' \subseteq FtStops \union FtOver
    /\ Sounds' \subseteq Sounds \union FtUses
                        \union (IF inside = "image" THEN {sstvGeneration} ELSE {})
    /\ Distinct(toIo', {"beginSstv"}) /\ BeginsFirst(toIo')
    /\ \A g : StopAhead(toIo, g) => StopAhead(toIo', g)
QuietFt ==
    /\ ft' \in {0, ft} /\ ftEncoding' \in FtUses \union {0}
    /\ phase' # "idle" => txGeneration' \in FtUses \ {0}
\* Nobody comes closer to keying the radio but for the slot that still stands.
QuietKey ==
    /\ Confirmed' \subseteq Confirmed \union {0, scheduledGeneration}
    /\ AboutToKey' => \/ AboutToKey /\ UNCHANGED myGeneration
                      \/ myGeneration' = scheduledGeneration
Quiet ==
    /\ UNCHANGED <<lastGeneration, sstvGeneration, halted, stopsTaken>>
    /\ SstvBusy' => SstvBusy
    /\ generation' \in {0, generation}
    /\ scheduledGeneration' \in {0, scheduledGeneration}
    /\ QuietUi /\ QuietAudio /\ QuietIo /\ QuietFt /\ QuietKey
    /\ inside' = "image" => inside = "image" \/ Allows(sstvGeneration)

Lasting ==
    OwnGenerations /\ KeyedOnce /\ PreparesLast /\ StopsAreFinal /\ HaltsAreFinal

(* The over of the transmitter is one of FT8 or FT4.                       *)
LEMMA FtOverIs ==
    ASSUME OwnGenerations
    PROVE  FtOver \subseteq FtUses \ {0}
BY DEF FtOver, FtUses, OwnGenerations

(* A step that moves nothing of it on keeps what lasts.                    *)
LEMMA QuietStep ==
    ASSUME IInv, Quiet
    PROVE  Lasting'
<1>0. OwnGenerations /\ KeyedOnce /\ PreparesLast /\ StopsAreFinal /\ HaltsAreFinal
  BY DEF IInv
<1>1. /\ UNCHANGED <<lastGeneration, sstvGeneration, halted, stopsTaken>>
      /\ SstvBusy' => SstvBusy
      /\ generation' \in {0, generation}
      /\ scheduledGeneration' \in {0, scheduledGeneration}
      /\ QuietUi /\ QuietAudio /\ QuietIo /\ QuietFt /\ QuietKey
      /\ inside' = "image" => inside = "image" \/ Allows(sstvGeneration)
  BY DEF Quiet
<1>2. Pending' \subseteq Pending
  BY <1>1 DEF Pending, QuietUi, QuietAudio, QuietIo
<1>3. SstvUses' \subseteq SstvUses
  BY <1>1, <1>2 DEF SstvUses, QuietIo
<1>4. FtUses' \subseteq FtUses \union {0}
  <2>1. scheduledGeneration' \in FtUses \union {0} /\ ft' \in FtUses \union {0}
        /\ ftEncoding' \in FtUses \union {0}
    BY <1>1 DEF FtUses, QuietFt
  <2>2. Scheduled' \subseteq FtUses /\ FtBegins' \subseteq FtUses /\ FtStops' \subseteq FtUses
    BY <1>0, <1>1, FtOverIs DEF FtUses, QuietAudio, QuietIo
  <2>3. phase' # "idle" => txGeneration' \in FtUses
    BY <1>1 DEF QuietFt
  <2>4. FtUses' = {scheduledGeneration', ft', ftEncoding'} \union Scheduled' \union FtBegins'
                  \union FtStops' \union (IF phase' # "idle" THEN {txGeneration'} ELSE {})
    BY DEF FtUses
  <2> QED BY <2>1, <2>2, <2>3, <2>4
<1>5. Known' \subseteq Known \union FtUses \union {0}
  BY <1>1 DEF Known, QuietIo
<1>6. OwnGenerations'
  <2>1. (SstvUses \intersect FtUses = {})'
    BY <1>0, <1>3, <1>4 DEF OwnGenerations
  <2>2. (\A g \in SstvUses \union FtUses \union Known : g <= lastGeneration)'
    <3>1. lastGeneration \in Nat
      BY NumberTypes DEF IInv
    <3>2. 0 <= lastGeneration
      BY <3>1
    <3> QED BY <1>0, <1>1, <1>3, <1>4, <1>5, <3>2 DEF OwnGenerations
  <2>3. (0 \notin SstvUses \union Scheduled \union FtBegins \union FtStops)'
    BY <1>0, <1>1, <1>3, FtOverIs DEF OwnGenerations, QuietAudio, QuietIo
  <2>4. (phase # "idle" => txGeneration # 0)'
    BY <1>1 DEF QuietFt
  <2> QED BY <2>1, <2>2, <2>3, <2>4 DEF OwnGenerations
<1>7. KeyedOnce'
  <2>1. (generation \notin Pending)'
    BY <1>0, <1>1, <1>2 DEF KeyedOnce, OwnGenerations, SstvUses
  <2>2. (Sounds \intersect Pending = {})'
    <3>1. FtUses \intersect Pending = {}
      BY <1>0 DEF OwnGenerations, SstvUses
    <3> QED BY <1>0, <1>1, <1>2, <3>1 DEF KeyedOnce, QuietIo
  <2>3. (inside = "image" => sstvGeneration \notin Pending)'
    BY <1>0, <1>1, <1>2 DEF KeyedOnce, Allows
  <2>4. (Asked \intersect Prepared = {} /\ (Asked \union Prepared) \intersect Requested = {})'
    BY <1>0, <1>1 DEF KeyedOnce, QuietUi, QuietAudio, QuietIo
  <2> QED BY <1>1, <2>1, <2>2, <2>3, <2>4 DEF KeyedOnce, QuietUi, QuietAudio, QuietIo
<1>8. PreparesLast'
  BY <1>0, <1>1 DEF PreparesLast, QuietAudio
<1>9. StopsAreFinal'
  BY <1>0, <1>1 DEF StopsAreFinal, QuietIo, QuietKey
<1>10. HaltsAreFinal'
  <2> SUFFICES ASSUME NEW g \in halted' \ {0}
               PROVE  /\ scheduledGeneration' # g
                      /\ SstvBusy' => g # lastGeneration'
                      /\ g \in Requested' \union Confirmed' => StopAhead(toIo', g)
    BY DEF HaltsAreFinal
  <2>1. /\ scheduledGeneration # g
        /\ SstvBusy => g # lastGeneration
        /\ g \in Requested \union Confirmed => StopAhead(toIo, g)
    BY <1>0, <1>1 DEF HaltsAreFinal
  <2> QED BY <1>1, <2>1 DEF QuietIo, QuietKey
<1> QED BY <1>6, <1>7, <1>8, <1>9, <1>10 DEF Lasting

(* Calls to the UI thread that say nothing of an image prepared.           *)
LEMMA UiQueueQuiet ==
    ASSUME IInv,
           \/ UNCHANGED toUi \/ \E name : UiTakes(name)
           \/ \E name \in UiCalls \ {"prepared"}, g \in GenerationOrNone :
                  toUi' = toUi \o Call(name, g)
    PROVE  QuietUi
<1>0. Typed /\ Distinct(toUi, {"prepared"})
  BY DEF IInv, KeyedOnce
<1>1. CASE UNCHANGED toUi
  BY <1>0, <1>1, SameQueues DEF QuietUi
<1>2. ASSUME NEW name, UiTakes(name) PROVE QuietUi
  BY <1>0, <1>2, UiTaken DEF QuietUi
<1>3. ASSUME NEW name \in UiCalls \ {"prepared"}, NEW g \in GenerationOrNone,
             toUi' = toUi \o Call(name, g)
      PROVE  QuietUi
  BY <1>0, <1>3, UiPosts DEF QuietUi
<1> QED BY <1>1, <1>2, <1>3

(* Calls to the audio thread that ask for no transmission.                 *)
LEMMA AudioQueueQuiet ==
    ASSUME IInv,
           \/ UNCHANGED toAudio
           \/ \E name \in AudioCalls \ {"prepare"} : AudioTakes(name)
           \/ \E name \in AudioCalls \ {"prepare", "schedule"}, g \in GenerationOrNone :
                  toAudio' = toAudio \o Call(name, g)
    PROVE  QuietAudio
<1>0. Typed /\ Rising(toAudio, {"prepare"}, sstvGeneration)
  BY DEF IInv, KeyedOnce
<1>1. CASE UNCHANGED toAudio
  BY <1>0, <1>1, SameQueues DEF QuietAudio
<1>2. ASSUME NEW name \in AudioCalls \ {"prepare"}, AudioTakes(name) PROVE QuietAudio
  BY <1>0, <1>2, AudioTaken DEF QuietAudio
<1>3. ASSUME NEW name \in AudioCalls \ {"prepare", "schedule"}, NEW g \in GenerationOrNone,
             toAudio' = toAudio \o Call(name, g)
      PROVE  QuietAudio
  BY <1>0, <1>3, AudioPosts DEF QuietAudio
<1> QED BY <1>1, <1>2, <1>3

(* Calls to the I/O thread that stop no image.                             *)
LEMMA IoQueueQuiet ==
    ASSUME IInv,
           \/ UNCHANGED toIo \/ \E name \in IoCalls \ {"stop"} : IoTakes(name)
           \/ \E g \in GenerationOrNone : toIo' = toIo \o Call("acknowledge", g)
           \/ phase # "idle" /\ \E name \in {"beginFt", "stopFt"} :
                  toIo' = toIo \o Call(name, txGeneration)
           \/ \E n \in 0..Frames, g \in GenerationOrNone :
                  /\ toIo' = toIo \o Packet(g, n)
                  /\ g \in FtUses \/ (inside = "image" /\ g = sstvGeneration)
    PROVE  QuietIo
<1>0. /\ Typed /\ Distinct(toIo, {"beginSstv"}) /\ BeginsFirst(toIo)
      /\ txGeneration \in GenerationOrNone
  BY NumberTypes DEF IInv, KeyedOnce, StopsAreFinal
<1>1. CASE UNCHANGED toIo
  BY <1>0, <1>1, SameQueues DEF QuietIo
<1>2. ASSUME NEW name \in IoCalls \ {"stop"}, IoTakes(name) PROVE QuietIo
  BY <1>0, <1>2, IoTaken DEF QuietIo
<1>3. ASSUME NEW g \in GenerationOrNone, toIo' = toIo \o Call("acknowledge", g)
      PROVE  QuietIo
  <2>1. "acknowledge" \in IoCalls
    BY DEF IoCalls
  <2> QED BY <1>0, <1>3, <2>1, IoPosts DEF QuietIo
<1>4. ASSUME phase # "idle", NEW name \in {"beginFt", "stopFt"},
             toIo' = toIo \o Call(name, txGeneration)
      PROVE  QuietIo
  <2>1. name \in IoCalls /\ FtOver = {txGeneration} /\ name # "packet" /\ name # "stop"
        /\ name # "beginSstv"
    BY <1>4 DEF IoCalls, FtOver
  <2> QED BY <1>0, <1>4, <2>1, IoPosts DEF QuietIo
<1>5. ASSUME NEW n \in 0..Frames, NEW g \in GenerationOrNone,
             toIo' = toIo \o Packet(g, n),
             g \in FtUses \/ (inside = "image" /\ g = sstvGeneration)
      PROVE  QuietIo
  BY <1>0, <1>5, IoPacketPosts DEF QuietIo
<1> QED BY <1>1, <1>2, <1>3, <1>4, <1>5

(* The transmitter keeps its over, or lets go of it.                       *)
LEMMA FtKept ==
    ASSUME IInv, UNCHANGED <<phase, txGeneration>>, ft' \in {0, ft},
           ftEncoding' \in {0, ftEncoding, txGeneration},
           ftEncoding' # txGeneration \/ phase # "idle" \/ UNCHANGED ftEncoding
    PROVE  QuietFt
BY DEF QuietFt, FtUses, IInv, OwnGenerations

(* Nobody is about to key the radio who was not.                           *)
LEMMA KeyKept ==
    ASSUME generation' \in {0, generation},
           \/ UNCHANGED <<ioInside, kind, myGeneration>>
           \/ ioInside' \notin {"armed", "key"} /\ (generation' = 0 \/ ioInside # "armed")
    PROVE  QuietKey
<1>1. CASE UNCHANGED <<ioInside, kind, myGeneration>>
  BY <1>1 DEF QuietKey, Confirmed, AboutToKey
<1>2. CASE ioInside' \notin {"armed", "key"} /\ (generation' = 0 \/ ioInside # "armed")
  BY <1>2 DEF QuietKey, Confirmed, AboutToKey
<1> QED BY <1>1, <1>2

LEMMA OthersKeyKept ==
    ASSUME UiThread \/ AudioThread
    PROVE  QuietKey
BY OnlyClosed, OthersKept, KeyKept DEF ioVars, ioData, guard

(* The UI thread.                                                          *)
LEMMA UiQuiet ==
    ASSUME IInv, UiThread, UiPasses \/ OnFinished
    PROVE  Quiet
<1>0. Typed
  BY DEF IInv
<1>a. UNCHANGED <<stopsTaken, sstvGeneration, inside, phase, txGeneration, ftEncoding>>
  BY OthersKept DEF ioVars, ioData, audioVars, sstvVars, ftVars
<1>1. CASE UiPasses
  <2>1. /\ UNCHANGED <<shared, toIo, lastGeneration, ft, halted>>
        /\ SstvBusy' => SstvBusy
    BY <1>1 DEF UiPasses, SstvBusy
  <2>2. QuietUi
    BY <1>1, UiQueueQuiet DEF UiPasses, UiQuietTake
  <2>3. QuietAudio
    <3>1. "beginSstv" \in AudioCalls \ {"prepare", "schedule"}
      BY DEF AudioCalls
    <3> QED BY <1>0, <1>1, <3>1, AudioQueueQuiet, NumberTypes DEF UiPasses
  <2> QED BY <1>a, <2>1, <2>2, <2>3, FtKept, IoQueueQuiet, OthersKeyKept DEF Quiet, shared
<1>2. CASE OnFinished
  <2>1. /\ UNCHANGED <<generation, toIo, toAudio, lastGeneration, sstv, halted>>
        /\ ft' \in {0, ft} /\ scheduledGeneration' \in {0, scheduledGeneration}
    BY <1>2 DEF OnFinished, Unscheduled
  <2>2. QuietUi
    BY <1>2, UiQueueQuiet DEF OnFinished
  <2> QED BY <1>a, <2>1, <2>2, FtKept, IoQueueQuiet, AudioQueueQuiet, OthersKeyKept
          DEF Quiet, SstvBusy
<1> QED BY <1>1, <1>2

(* The I/O thread.                                                         *)
LEMMA IoQuiet ==
    ASSUME IInv, IoThread,
           UNCHANGED <<scheduledGeneration, stopsTaken>>,
           generation' \in {0, generation},
           QuietUi, QuietAudio, QuietIo, QuietKey
    PROVE  Quiet
<1>1. UNCHANGED <<uiVars, audioVars>>
  BY OthersKept
<1>2. UNCHANGED <<lastGeneration, halted, sstv, ft, sstvGeneration, inside, phase,
                  txGeneration, ftEncoding>>
  BY <1>1 DEF uiVars, audioVars, sstvVars, ftVars
<1> QED BY <1>2, FtKept DEF Quiet, SstvBusy

IoPlain ==
    \/ TakeAcknowledge \/ PacketTaken \/ TripCancelled \/ TripOnReadings
    \/ \E g \in Generations : DrainPoll(g)
    \/ ConnectionLost \/ Reconnected
    \/ \E k \in {"sstv", "ft"} : RefuseBegin(k)
    \/ Busies \/ SlotLost \/ KeyRadio

(* Reports to the UI thread move nothing on.                               *)
LEMMA Reports ==
    ASSUME IInv
    PROVE  /\ active /\ ReportFailure(myGeneration, kind) => QuietUi /\ QuietAudio
           /\ \A k : \A g \in GenerationOrNone :
                  ReportFailure(g, k) => QuietUi /\ QuietAudio
           /\ \A g \in GenerationOrNone : ReportAccepted(g) => QuietUi /\ QuietAudio
<1>1. /\ "failed" \in UiCalls \ {"prepared"} /\ "accepted" \in UiCalls \ {"prepared"}
      /\ "cancel" \in AudioCalls \ {"prepare", "schedule"}
      /\ "accepted" \in AudioCalls \ {"prepare", "schedule"}
  BY DEF UiCalls, AudioCalls
<1>2. ASSUME NEW g \in GenerationOrNone, NEW k, ReportFailure(g, k)
      PROVE  QuietUi /\ QuietAudio
  BY <1>1, <1>2, UiQueueQuiet, AudioQueueQuiet DEF ReportFailure
<1>3. ASSUME NEW g \in GenerationOrNone, ReportAccepted(g)
      PROVE  QuietUi /\ QuietAudio
  BY <1>1, <1>3, UiQueueQuiet, AudioQueueQuiet DEF ReportAccepted
<1>4. myGeneration \in GenerationOrNone
  BY NumberTypes DEF IInv
<1> QED BY <1>2, <1>3, <1>4

(* Most steps of the I/O thread move nothing on.                           *)
LEMMA IoPlainQuiet ==
    ASSUME IInv, IoThread, IoPlain
    PROVE  Quiet
<1>0. Typed /\ \A g : UNCHANGED toUi => QuietUi
  BY UiQueueQuiet DEF IInv
<1>1. UNCHANGED toAudio => QuietAudio
  BY AudioQueueQuiet
<1>2. UNCHANGED toIo => QuietIo
  BY IoQueueQuiet
<1>3. ASSUME NEW name \in {"acknowledge", "packet", "beginSstv", "beginFt"}, IoTakes(name)
      PROVE  QuietIo
  BY <1>3, IoQueueQuiet DEF IoCalls
<1>k. /\ UNCHANGED <<generation, ioInside, kind, myGeneration>> => QuietKey
      /\ UNCHANGED generation /\ ioInside # "armed" /\ ioInside' = "loop" => QuietKey
  BY KeyKept
<1>z. generation' = Closed(myGeneration) => generation' = 0
  BY DEF IInv, GateIsGuarded, Closed
<1>4. ASSUME TripGuard PROVE /\ QuietUi /\ QuietAudio /\ generation' \in {0, generation}
                             /\ UNCHANGED <<scheduledGeneration, stopsTaken>> /\ QuietKey
  <2>1. /\ QuietUi /\ QuietAudio /\ UNCHANGED <<scheduledGeneration, stopsTaken>>
        /\ generation' = 0 /\ ioInside' = "loop"
    BY <1>4, <1>z, Reports DEF TripGuard, Unkey
  <2> QED BY <2>1, KeyKept
<1>5. CASE TakeAcknowledge
  BY <1>0, <1>1, <1>3, <1>k, <1>5, IoQuiet DEF TakeAcknowledge, shared
<1>6. CASE PacketTaken
  <2>1. QuietIo /\ Head(toIo).generation \in GenerationOrNone
    BY <1>0, <1>3, <1>6, IoTake DEF PacketTaken, PacketDropped, PacketTrips, PacketHeard
  <2>2. CASE PacketTrips
    BY <1>4, <2>1, <2>2, IoQuiet DEF PacketTrips
  <2>3. CASE PacketDropped
    BY <1>0, <1>1, <1>k, <2>1, <2>3, IoQuiet DEF PacketDropped, shared, ioData
  <2>4. CASE PacketHeard
    <3>1. UNCHANGED <<toUi, toAudio>> \/ ReportAccepted(Head(toIo).generation)
      BY <2>4 DEF PacketHeard
    <3> QED BY <1>0, <1>1, <1>k, <2>1, <2>4, <3>1, Reports, IoQuiet DEF PacketHeard, shared
  <2> QED BY <1>6, <2>2, <2>3, <2>4 DEF PacketTaken
<1>7. CASE TripCancelled \/ TripOnReadings
  BY <1>2, <1>4, <1>7, IoQuiet DEF TripCancelled, TripOnReadings
<1>8. ASSUME NEW g \in Generations, DrainPoll(g) PROVE Quiet
  <2>1. g \in GenerationOrNone
    BY <1>0, NumberTypes
  <2>2. QuietUi /\ QuietAudio
    BY <1>0, <1>1, <1>8, <2>1, Reports DEF DrainPoll
  <2> QED BY <1>2, <1>k, <1>8, <2>2, IoQuiet DEF DrainPoll, shared, guard
<1>9. CASE ConnectionLost
  <2>1. "disconnected" \in UiCalls \ {"prepared"}
    BY DEF UiCalls
  <2>2. QuietUi
    BY <1>0, <1>9, <2>1, UiQueueQuiet, NumberTypes DEF ConnectionLost
  <2>3. generation' = 0 /\ QuietKey
    BY <1>9, <1>z, KeyKept DEF ConnectionLost
  <2> QED BY <1>1, <1>2, <1>9, <2>2, <2>3, IoQuiet DEF ConnectionLost
<1>10. CASE Reconnected
  BY <1>0, <1>1, <1>2, <1>k, <1>10, IoQuiet DEF Reconnected, queues, ioVars, ioData, guard
<1>11. ASSUME NEW k \in {"sstv", "ft"}, RefuseBegin(k)
       PROVE  Quiet
  <2>1. IoTakes(BeginCall(k)) /\ BeginCall(k) \in {"beginSstv", "beginFt"}
    BY <1>11 DEF RefuseBegin, BeginCall
  <2>2. Head(toIo).generation \in GenerationOrNone /\ QuietIo
    BY <1>0, <1>3, <2>1, IoTake
  <2>3. QuietUi /\ QuietAudio
    BY <1>0, <1>1, <1>11, <2>2, Reports DEF RefuseBegin
  <2> QED BY <1>k, <1>11, <2>2, <2>3, IoQuiet DEF RefuseBegin, shared, ioVars, ioData, guard
<1>12. CASE Busies
  <2>1. UNCHANGED <<shared, queues, ioData>>
    BY <1>12, BusyIs
  <2>2. QuietKey
    <3>1. CASE ConfirmSlot /\ StillWanted(myGeneration, kind)
      <4>1. ioInside = "armed" /\ UNCHANGED <<generation, kind, myGeneration>>
        BY <3>1, <2>1 DEF ConfirmSlot, CheckSlot, shared, ioData, guard
      <4>2. kind = "sstv" \/ scheduledGeneration = myGeneration
        BY <3>1 DEF StillWanted
      <4>3. generation \in {0, myGeneration}
        BY DEF IInv, GateIsGuarded
      <4> QED BY <4>1, <4>2, <4>3 DEF QuietKey, Confirmed, AboutToKey
    <3>2. CASE ~ConfirmSlot
      <4>1. ioInside' \notin {"armed", "key"} /\ ioInside # "armed"
        BY <1>12, <3>2 DEF Busies, AdmitBegin, TakePacket, AdmitPacket, CheckPacket
      <4> QED BY <2>1, <4>1, KeyKept DEF shared
    <3> QED BY <1>12, <3>1, <3>2 DEF Busies, AdmitBegin, TakePacket, AdmitPacket, CheckPacket,
               ConfirmSlot, CheckSlot
  <2> QED BY <1>0, <1>1, <1>2, <2>1, <2>2, IoQuiet DEF shared, queues, ioData
<1>13. CASE SlotLost
  <2>1. generation' = 0 /\ QuietKey
    BY <1>13, <1>z, SlotLostIs, KeyKept
  <2> QED BY <1>0, <1>1, <1>2, <1>13, <2>1, SlotLostIs, IoQuiet DEF queues
<1>14. CASE KeyRadio
  <2>1. "keyRequested" \in UiCalls \ {"prepared"} /\ "keyed" \in AudioCalls \ {"prepare", "schedule"}
    BY DEF UiCalls, AudioCalls
  <2>2. myGeneration \in GenerationOrNone
    BY <1>0, NumberTypes
  <2>3. QuietUi /\ QuietAudio
    BY <1>0, <1>1, <1>14, <2>1, <2>2, UiQueueQuiet, AudioQueueQuiet DEF KeyRadio
  <2>4. QuietKey
    BY <1>k, <1>14 DEF KeyRadio, shared
  <2> QED BY <1>2, <1>14, <2>3, <2>4, IoQuiet DEF KeyRadio, shared
<1> QED BY <1>5, <1>6, <1>7, <1>8, <1>9, <1>10, <1>11, <1>12, <1>13, <1>14 DEF IoPlain

(* The audio thread, all of it but the preparation of an image.            *)
LEMMA AudioQuiet ==
    ASSUME IInv, AudioThread,
           generation' \in {0, generation},
           scheduledGeneration' \in {0, scheduledGeneration},
           sstvGeneration' = sstvGeneration,
           QuietUi, QuietAudio, QuietIo, QuietFt,
           inside' = "image" => inside = "image" \/ Allows(sstvGeneration)
    PROVE  Quiet
<1>1. UNCHANGED <<uiVars, ioVars>>
  BY OthersKept
<1>2. UNCHANGED <<lastGeneration, halted, sstv, stopsTaken>>
  BY <1>1 DEF uiVars, ioVars, ioData
<1> QED BY <1>2, OthersKeyKept DEF Quiet, SstvBusy

(* Nor does the audio thread, but to prepare an image.                     *)
LEMMA AudioStepQuiet ==
    ASSUME IInv, AudioThread, ~TakePrepare
    PROVE  Quiet
<1>0. /\ Typed /\ OwnGenerations
      /\ txGeneration \in GenerationOrNone /\ sstvGeneration \in GenerationOrNone
      /\ Label \in GenerationOrNone
  BY NumberTypes DEF IInv
<1>g. generation' \in {0, generation}
  BY OnlyClosed
<1>u. UNCHANGED <<ft, starts>>
  BY OthersKept DEF uiVars
<1>1. UNCHANGED toUi => QuietUi
  BY UiQueueQuiet
<1>2. UNCHANGED toAudio => QuietAudio
  BY AudioQueueQuiet
<1>3. UNCHANGED toIo => QuietIo
  BY IoQueueQuiet
<1>4. UNCHANGED <<phase, txGeneration, ftEncoding>> => QuietFt
  BY <1>u, FtKept
<1>5. \A name \in {"failed", "finished", "finishedWell"}, g \in GenerationOrNone :
          toUi' = toUi \o Call(name, g) => QuietUi
  <2>1. {"failed", "finished", "finishedWell"} \subseteq UiCalls \ {"prepared"}
    BY DEF UiCalls
  <2> QED BY <2>1, UiQueueQuiet
<1>6. \A name \in AudioCalls \ {"prepare"} : AudioTakes(name) => QuietAudio
  BY AudioQueueQuiet
<1>7. phase # "idle" => txGeneration # 0 /\ txGeneration \in FtUses
  BY <1>0 DEF OwnGenerations, FtUses
<1>8. EncodingFinished \in FtUses \union {0} /\ ftEncoding \in FtUses
  BY DEF EncodingFinished, FtUses
<1>9. ASSUME Fail, phase # "idle", QuietAudio PROVE Quiet
  <2>1. QuietUi
    BY <1>0, <1>5, <1>9 DEF Fail
  <2>2. QuietIo
    BY <1>9, IoQueueQuiet DEF Fail
  <2>3. QuietFt
    BY <1>u, <1>8, <1>9 DEF Fail, QuietFt
  <2>4. /\ scheduledGeneration' \in {0, scheduledGeneration}
        /\ sstvGeneration' = sstvGeneration /\ inside' = "loop"
    BY <1>9 DEF Fail, Unscheduled, sstvVars
  <2> QED BY <1>g, <1>9, <2>1, <2>2, <2>3, <2>4, AudioQuiet
<1>10. CASE TakeBeginSstv
  <2>1. QuietAudio
    BY <1>6, <1>10 DEF TakeBeginSstv, AudioCalls
  <2> QED BY <1>g, <1>1, <1>3, <1>4, <1>10, <2>1, AudioQuiet
          DEF TakeBeginSstv, shared, ftVars, sstvVars
<1>11. CASE Launch
  <2>1. QuietUi
    BY <1>0, <1>1, <1>5, <1>11 DEF Launch
  <2>2. /\ UNCHANGED <<scheduledGeneration, sstvGeneration, toIo, toAudio, phase,
                       txGeneration, ftEncoding>>
        /\ inside' = "loop"
    BY <1>11 DEF Launch, ftVars
  <2> QED BY <1>g, <1>2, <1>3, <1>4, <2>1, <2>2, AudioQuiet
<1>12. CASE TakeStopSstv
  <2>1. QuietAudio
    BY <1>6, <1>12 DEF TakeStopSstv, AudioCalls
  <2> QED BY <1>g, <1>1, <1>3, <1>4, <1>12, <2>1, AudioQuiet DEF TakeStopSstv, ftVars
<1>13. CASE Pacer
  <2>1. /\ UNCHANGED <<scheduledGeneration, sstvGeneration, toUi, toIo, toAudio, phase,
                       txGeneration, ftEncoding>>
        /\ inside' = "image" => inside = "image" \/ Allows(sstvGeneration)
    BY <1>13 DEF Pacer, ftVars, queues
  <2> QED BY <1>g, <1>1, <1>2, <1>3, <1>4, <2>1, AudioQuiet
<1>14. CASE PostImage
  <2>1. /\ UNCHANGED <<scheduledGeneration, sstvGeneration, toAudio, phase,
                       txGeneration, ftEncoding>>
        /\ inside' = "loop" /\ inside = "image"
    BY <1>14 DEF PostImage, ftVars
  <2>2. QuietUi
    BY <1>0, <1>1, <1>5, <1>14 DEF PostImage
  <2>3. Label \in FtUses \/ Label = sstvGeneration
    BY <1>8 DEF Label
  <2>4. CASE UNCHANGED toIo
    BY <1>g, <1>2, <1>3, <1>4, <2>1, <2>2, <2>4, AudioQuiet
  <2>5. CASE imageFrame' = imageFrame + 1 /\ toIo' = toIo \o Packet(Label, imageFrame')
    <3>1. imageFrame + 1 \in 0..Frames
      <4>1. /\ inside = "image" => sstvPrepared
            /\ sstvPrepared => imageFrame < Frames
            /\ imageFrame \in 0..Frames /\ Frames \in Nat
        BY NumberTypes DEF IInv, FramesLeft, Typed, TypedAudio
      <4> QED BY <2>1, <4>1
    <3>2. QuietIo
      BY <1>0, <2>1, <2>3, <2>5, <3>1, IoQueueQuiet
    <3> QED BY <1>g, <1>2, <1>4, <2>1, <2>2, <3>2, AudioQuiet
  <2> QED BY <1>14, <2>4, <2>5 DEF PostImage
<1>15. CASE TakeSchedule
  <2> DEFINE g == Head(toAudio).generation
  <2>1. /\ QuietAudio /\ g \in GenerationOrNone /\ g \in Scheduled
    <3>1. "schedule" \in AudioCalls \ {"prepare"} /\ AudioTakes("schedule")
      BY <1>15 DEF AudioCalls, TakeSchedule
    <3> QED BY <1>0, <1>6, <3>1, AudioTake, AudioTaken
  <2>2. /\ UNCHANGED <<scheduledGeneration, sstvGeneration, toIo, ftEncoding, inside>>
        /\ \/ toUi' = toUi \o Call("finished", g) /\ UNCHANGED <<phase, txGeneration>>
           \/ UNCHANGED toUi /\ phase' = "waiting" /\ txGeneration' = g
    BY <1>15 DEF TakeSchedule, RefuseSchedule, shared, sstvVars
  <2>3. QuietUi
    BY <1>1, <1>5, <2>1, <2>2
  <2>4. QuietFt
    <3>1. g # 0 /\ g \in FtUses
      BY <1>0, <2>1 DEF OwnGenerations, FtUses
    <3>2. CASE txGeneration' = g /\ phase' = "waiting"
      BY <1>u, <1>8, <2>2, <3>1, <3>2 DEF QuietFt
    <3> QED BY <1>4, <2>2, <3>2
  <2> QED BY <1>g, <1>3, <2>1, <2>2, <2>3, <2>4, AudioQuiet
<1>16. CASE TakeCancel
  <2>1. QuietAudio
    BY <1>6, <1>16 DEF TakeCancel, AudioCalls
  <2>2. CASE phase # "idle" /\ Fail
    BY <1>9, <2>1, <2>2
  <2>3. CASE UNCHANGED <<shared, toUi, toIo, uiVars, ioVars, audioVars>>
    BY <1>g, <1>1, <1>3, <1>4, <2>1, <2>3, AudioQuiet DEF shared, audioVars, ftVars, sstvVars
  <2> QED BY <1>16, <2>2, <2>3 DEF TakeCancel
<1>17. CASE TakeKeyed \/ TakeAccepted
  <2>1. QuietAudio
    BY <1>6, <1>17 DEF TakeKeyed, TakeAccepted, AudioCalls
  <2> QED BY <1>g, <1>1, <1>3, <1>4, <1>17, <2>1, AudioQuiet
          DEF TakeKeyed, TakeAccepted, shared, sstvVars
<1>18. CASE TakeUnkeyed
  <2>1. QuietAudio
    BY <1>6, <1>18 DEF TakeUnkeyed, AudioCalls
  <2>2. UNCHANGED <<scheduledGeneration, sstvGeneration, toIo, inside, txGeneration>>
    BY <1>18 DEF TakeUnkeyed, shared, sstvVars
  <2>3. QuietUi
    BY <1>0, <1>1, <1>5, <1>18 DEF TakeUnkeyed
  <2>4. QuietFt
    <3>1. CASE phase' = "idle" /\ ftEncoding' = EncodingFinished
      BY <1>u, <1>8, <3>1 DEF QuietFt
    <3> QED BY <1>4, <1>18, <2>2, <3>1 DEF TakeUnkeyed
  <2> QED BY <1>g, <1>3, <2>1, <2>2, <2>3, <2>4, AudioQuiet
<1>19. CASE TickFails
  BY <1>2, <1>9, <1>19 DEF TickFails
<1>20. CASE Tick \/ TickWaits
  <2>1. UNCHANGED <<scheduledGeneration, sstvGeneration, toUi, toIo, toAudio, phase,
                    txGeneration, ftEncoding>>
        /\ inside' # "image"
    BY <1>20 DEF Tick, TickWaits, Ticks, shared, queues, ftVars, sstvVars
  <2> QED BY <1>g, <1>1, <1>2, <1>3, <1>4, <2>1, AudioQuiet
<1>21. CASE RequestKey \/ RequestUnkey
  <2>1. /\ UNCHANGED <<scheduledGeneration, sstvGeneration, toUi, toAudio,
                       txGeneration, ftEncoding>>
        /\ inside' = "loop" /\ phase # "idle"
        /\ \E name \in {"beginFt", "stopFt"} : toIo' = toIo \o Call(name, txGeneration)
    BY <1>21 DEF RequestKey, RequestUnkey, Ticks, shared, sstvVars
  <2>2. QuietIo
    BY <2>1, IoQueueQuiet
  <2>3. QuietFt
    BY <1>u, <1>7, <1>8, <2>1 DEF QuietFt
  <2> QED BY <1>g, <1>1, <1>2, <2>1, <2>2, <2>3, AudioQuiet
<1>22. CASE StartAudio
  <2>1. /\ UNCHANGED <<scheduledGeneration, sstvGeneration, toUi, toIo, toAudio,
                       txGeneration>>
        /\ inside' = "loop" /\ phase = "keying" /\ ftEncoding' \in {ftEncoding, txGeneration}
    BY <1>22 DEF StartAudio, Ticks, queues, sstvVars
  <2>2. QuietFt
    BY <1>u, <1>7, <1>8, <2>1 DEF QuietFt
  <2> QED BY <1>g, <1>1, <1>2, <1>3, <2>1, <2>2, AudioQuiet
<1>23. CASE EmitFrame
  <2>1. /\ UNCHANGED <<scheduledGeneration, sstvGeneration, toUi, toAudio,
                       txGeneration, ftEncoding>>
        /\ inside' = "loop" /\ phase = "audio" /\ ftFrame' = ftFrame + 1
        /\ UNCHANGED toIo \/ toIo' = toIo \o Packet(ftEncoding, ftFrame')
    BY <1>23 DEF EmitFrame, Ticks, sstvVars
  <2>2. QuietFt
    BY <1>u, <1>7, <1>8, <2>1 DEF QuietFt
  <2>3. ftFrame + 1 \in 0..Frames /\ ftEncoding \in GenerationOrNone
    <3>1. /\ phase = "audio" => ftFrame < Frames
          /\ ftFrame \in 0..Frames /\ Frames \in Nat
          /\ ftEncoding \in GenerationOrNone
      BY NumberTypes DEF IInv, FramesLeft, Typed, TypedAudio
    <3> QED BY <2>1, <3>1
  <2>4. QuietIo
    BY <1>3, <1>8, <2>1, <2>3, IoQueueQuiet
  <2> QED BY <1>g, <1>1, <1>2, <2>1, <2>2, <2>4, AudioQuiet
<1> QED BY <1>10, <1>11, <1>12, <1>13, <1>14, <1>15, <1>16, <1>17, <1>18, <1>19, <1>20,
           <1>21, <1>22, <1>23 DEF AudioThread

(***************************************************************************)
(* The steps that start a transmission                                     *)
(***************************************************************************)
(* What is issued is above everything that is known.                       *)
LEMMA IssuedIsNew ==
    ASSUME IInv, starts < MaxStarts \/ SstvBusy
    PROVE  /\ Issued \notin SstvUses \union FtUses \union Known \union {0}
           /\ \A g \in SstvUses \union FtUses \union Known : g < Issued /\ g <= Issued
           /\ Issued <= Issued
           /\ lastGeneration < Issued /\ 0 < Issued /\ Issued \in GenerationOrNone
<1>1. /\ Issued \in GenerationOrNone /\ Issued # 0 /\ Issued = lastGeneration + 1
      /\ \A g \in SstvUses \union FtUses \union Known : g <= lastGeneration
      /\ lastGeneration \in Nat
  BY IssuedIs, NumberTypes DEF IInv, OwnGenerations
<1>3. Issued \notin SstvUses \union FtUses \union Known
  BY <1>1
<1> HIDE DEF Issued
<1>4. \A g \in SstvUses \union FtUses \union Known : g \in Nat
  <2>1. /\ \A i \in 1..Len(toUi) : toUi[i].generation \in Nat
        /\ \A i \in 1..Len(toIo) : toIo[i].generation \in Nat
        /\ \A i \in 1..Len(toAudio) : toAudio[i].generation \in Nat
    <3>1. ASSUME NEW N, NEW q \in Seq(Posted(N)), NEW i \in 1..Len(q)
          PROVE  q[i].generation \in Nat
      <4>1. q[i] \in Posted(N) /\ GenerationOrNone \subseteq Nat
        BY ElementOfSeq, NumberTypes DEF IInv
      <4> QED BY <4>1 DEF Posted
    <3> QED BY <3>1, QueueTypes DEF IInv
  <2>2. /\ \A names : Gens(toUi, names) \subseteq Nat
        /\ \A names : Gens(toIo, names) \subseteq Nat
        /\ \A names : Gens(toAudio, names) \subseteq Nat
    BY <2>1 DEF Gens
  <2>3. halted \subseteq Nat /\ stopsTaken \subseteq Nat
    BY NumberTypes DEF IInv, Typed, TypedUi, TypedIo
  <2>4. /\ generation \in Nat /\ sstvGeneration \in Nat /\ scheduledGeneration \in Nat
        /\ ft \in Nat /\ ftEncoding \in Nat /\ txGeneration \in Nat
    BY NumberTypes DEF IInv
  <2>5. SstvUses \subseteq Nat
    BY <1>1, <2>2 DEF SstvUses, Pending, Asked, Prepared, Requested, Stops
  <2>6. FtUses \subseteq Nat
    BY <2>2, <2>4 DEF FtUses, Scheduled, FtBegins, FtStops
  <2>7. Known \subseteq Nat
    BY <2>2, <2>3, <2>4 DEF Known, Sounds
  <2> QED BY <2>5, <2>6, <2>7
<1> QED BY <1>1, <1>3, <1>4

(* The UI thread starts an image.                                          *)
LEMMA StartSstvLasts ==
    ASSUME IInv, StartSstv
    PROVE  Lasting'
<1>0. OwnGenerations /\ KeyedOnce /\ PreparesLast /\ StopsAreFinal /\ HaltsAreFinal /\ Typed
  BY DEF IInv
<1> DEFINE n == Issued
<1>1. /\ n \notin SstvUses \union FtUses \union Known \union {0}
      /\ \A g \in SstvUses \union FtUses \union Known : g < n /\ g <= n
      /\ n <= n
      /\ lastGeneration < n /\ 0 < n /\ n \in GenerationOrNone
  BY IssuedIsNew DEF StartSstv
<1>2. /\ lastGeneration' = n /\ ~SstvBusy /\ SstvBusy'
      /\ toIo' = toIo \o Call("acknowledge", 0) /\ toAudio' = toAudio \o Call("prepare", n)
      /\ UNCHANGED <<generation, scheduledGeneration, toUi, ft, halted, stopsTaken,
                     sstvGeneration, inside, phase, txGeneration, ftEncoding>>
  BY DEF StartSstv, SstvBusy, shared, ioVars, ioData, audioVars, sstvVars, ftVars
<1> HIDE DEF n
<1>3. /\ Requested' = Requested /\ Stops' = Stops /\ FtBegins' = FtBegins
      /\ FtStops' = FtStops /\ Sounds' = Sounds
      /\ Distinct(toIo', {"beginSstv"}) /\ BeginsFirst(toIo')
      /\ \A g : StopAhead(toIo, g) => StopAhead(toIo', g)
  <2>1. "acknowledge" \in IoCalls
    BY DEF IoCalls
  <2> QED BY <1>0, <1>2, <2>1, IoPosts, NumberTypes DEF KeyedOnce, StopsAreFinal
<1>4. Prepared' = Prepared /\ Distinct(toUi', {"prepared"})
  BY <1>0, <1>2, SameQueues DEF KeyedOnce
<1>5. Asked \subseteq SstvUses /\ sstvGeneration \in Known /\ generation \in Known
      /\ Sounds \subseteq Known /\ Prepared \subseteq SstvUses /\ Requested \subseteq SstvUses
      /\ scheduledGeneration \in FtUses /\ stopsTaken \subseteq Known /\ Stops \subseteq SstvUses
      /\ halted \subseteq Known
  BY DEF SstvUses, Pending, Known, FtUses
<1>6. Asked' = Asked \union {n} /\ Scheduled' = Scheduled
      /\ Rising(toAudio', {"prepare"}, sstvGeneration)
  <2>1. "prepare" \in AudioCalls
    BY DEF AudioCalls
  <2>2. sstvGeneration < n /\ \A h \in Asked : h < n
    BY <1>1, <1>5
  <2> QED BY <1>0, <1>1, <1>2, <2>1, <2>2, AudioPosts DEF KeyedOnce
<1>7. SstvUses' = SstvUses \union {n} /\ FtUses' = FtUses /\ Known' = Known
      /\ Pending' = Pending \union {n}
  BY <1>2, <1>3, <1>4, <1>6 DEF SstvUses, FtUses, Known, Pending
<1>8. OwnGenerations'
  <2>1. \A g \in SstvUses \union {n} \union FtUses \union Known : g <= n
    BY <1>1
  <2>2. 0 \notin SstvUses \union {n}
    BY <1>0, <1>1 DEF OwnGenerations
  <2>3. (SstvUses \union {n}) \intersect FtUses = {}
    BY <1>0, <1>1 DEF OwnGenerations
  <2> QED BY <1>0, <1>2, <1>3, <1>6, <1>7, <2>1, <2>2, <2>3 DEF OwnGenerations
<1>9. KeyedOnce'
  BY <1>0, <1>1, <1>2, <1>3, <1>4, <1>5, <1>6, <1>7 DEF KeyedOnce
<1>10. PreparesLast'
  BY <1>2, <1>6 DEF PreparesLast
<1>k. QuietKey
  BY OthersKeyKept DEF UiThread
<1>11. StopsAreFinal'
  BY <1>0, <1>1, <1>2, <1>3, <1>5, <1>k DEF StopsAreFinal, QuietKey
<1>12. HaltsAreFinal'
  BY <1>0, <1>1, <1>2, <1>3, <1>5, <1>k DEF HaltsAreFinal, QuietKey
<1> QED BY <1>8, <1>9, <1>10, <1>11, <1>12 DEF Lasting

(* The UI thread starts an over.                                           *)
LEMMA StartFtLasts ==
    ASSUME IInv, NEW operator \in BOOLEAN, StartFt(operator)
    PROVE  Lasting'
<1>0. OwnGenerations /\ KeyedOnce /\ PreparesLast /\ StopsAreFinal /\ HaltsAreFinal /\ Typed
  BY DEF IInv
<1> DEFINE n == Issued
<1>1. /\ n \notin SstvUses \union FtUses \union Known \union {0}
      /\ \A g \in SstvUses \union FtUses \union Known : g < n /\ g <= n
      /\ n <= n
      /\ lastGeneration < n /\ 0 < n /\ n \in GenerationOrNone
  BY IssuedIsNew DEF StartFt
<1>2. /\ lastGeneration' = n /\ ~SstvBusy /\ ~SstvBusy'
      /\ toIo' = toIo \o (IF operator THEN Call("acknowledge", 0) ELSE <<>>)
      /\ toAudio' = toAudio \o Call("schedule", n)
      /\ ft' = n /\ scheduledGeneration' = n
      /\ UNCHANGED <<generation, toUi, halted, stopsTaken,
                     sstvGeneration, inside, phase, txGeneration, ftEncoding>>
  BY DEF StartFt, SstvBusy, ioVars, ioData, audioVars, sstvVars, ftVars
<1> HIDE DEF n
<1>3. QuietIo /\ QuietUi
  <2>1. toIo \o <<>> = toIo
    BY <1>0, QueueTypes, ConcatEmptySeq
  <2> QED BY <1>0, <1>2, <2>1, IoQueueQuiet, UiQueueQuiet, NumberTypes
<1>4. Asked' = Asked /\ Scheduled' = Scheduled \union {n}
      /\ Rising(toAudio', {"prepare"}, sstvGeneration)
  <2>1. "schedule" \in AudioCalls
    BY DEF AudioCalls
  <2> QED BY <1>0, <1>1, <1>2, <2>1, AudioPosts DEF KeyedOnce
<1>5. FtOver \subseteq FtUses \ {0}
  BY <1>0, FtOverIs
<1>6. /\ Pending' \subseteq Pending /\ SstvUses' \subseteq SstvUses
      /\ FtUses' \subseteq FtUses \union {n}
      /\ Known' \subseteq Known \union FtUses \union SstvUses \union {sstvGeneration}
  BY <1>2, <1>3, <1>4, <1>5
     DEF SstvUses, FtUses, Known, Pending, QuietIo, QuietUi
<1>7. sstvGeneration \in Known /\ generation \in Known /\ stopsTaken \subseteq Known
      /\ halted \subseteq Known /\ Pending \subseteq SstvUses
  BY DEF Known, SstvUses
<1>8. OwnGenerations'
  <2>1. \A g \in SstvUses' \union FtUses' \union Known' : g <= n
    BY <1>1, <1>6, <1>7
  <2>2. 0 \notin SstvUses' \union Scheduled' \union FtBegins' \union FtStops'
    BY <1>0, <1>1, <1>3, <1>4, <1>5, <1>6 DEF OwnGenerations, QuietIo
  <2>3. SstvUses' \intersect FtUses' = {}
    BY <1>0, <1>1, <1>6 DEF OwnGenerations
  <2> QED BY <1>0, <1>2, <2>1, <2>2, <2>3 DEF OwnGenerations
<1>9. KeyedOnce'
  <2>1. (Sounds \intersect Pending = {})'
    <3>1. FtUses \intersect Pending = {}
      BY <1>0 DEF OwnGenerations, SstvUses
    <3> QED BY <1>0, <1>3, <1>6, <3>1 DEF KeyedOnce, QuietIo
  <2>2. (Asked \intersect Prepared = {} /\ (Asked \union Prepared) \intersect Requested = {})'
    BY <1>0, <1>3, <1>4 DEF KeyedOnce, QuietUi, QuietIo
  <2>3. (generation \notin Pending /\ (inside = "image" => sstvGeneration \notin Pending))'
    BY <1>0, <1>2, <1>6 DEF KeyedOnce
  <2> QED BY <1>2, <1>3, <1>4, <2>1, <2>2, <2>3 DEF KeyedOnce, QuietUi, QuietIo
<1>10. PreparesLast'
  BY <1>2 DEF PreparesLast
<1>k. QuietKey
  BY OthersKeyKept DEF UiThread
<1>11. StopsAreFinal'
  <2>1. AboutToKey' => myGeneration' \notin stopsTaken'
    BY <1>0, <1>2, <1>k DEF StopsAreFinal, QuietKey
  <2> QED BY <1>0, <1>1, <1>2, <1>3, <1>7, <2>1 DEF StopsAreFinal, QuietIo
<1>12. HaltsAreFinal'
  <2> SUFFICES ASSUME NEW g \in halted' \ {0}
               PROVE  /\ scheduledGeneration' # g
                      /\ SstvBusy' => g # lastGeneration'
                      /\ g \in Requested' \union Confirmed' => StopAhead(toIo', g)
    BY DEF HaltsAreFinal
  <2>1. /\ g \in Requested \union Confirmed => StopAhead(toIo, g)
        /\ g # scheduledGeneration
    BY <1>0, <1>2 DEF HaltsAreFinal
  <2> QED BY <1>1, <1>2, <1>3, <1>7, <1>k, <2>1 DEF QuietIo, QuietKey
<1> QED BY <1>8, <1>9, <1>10, <1>11, <1>12 DEF Lasting

(***************************************************************************)
(* The steps of the UI thread that end a transmission or hand it on        *)
(***************************************************************************)
LEMMA StopSstvLasts ==
    ASSUME IInv, UiThread, UiStopsSstv
    PROVE  Lasting'
<1>0. OwnGenerations /\ KeyedOnce /\ PreparesLast /\ StopsAreFinal /\ HaltsAreFinal /\ Typed
  BY DEF IInv
<1> DEFINE n == Issued
           g == lastGeneration
<1>1. /\ \A h \in SstvUses \union FtUses \union Known : h < n /\ h <= n
      /\ lastGeneration < n /\ 0 < n /\ g \in GenerationOrNone
  BY IssuedIsNew, NumberTypes DEF UiStopsSstv, IInv
<1>2. /\ lastGeneration' = n /\ SstvBusy /\ ~SstvBusy'
      /\ halted' = halted \union {g} /\ generation' = Closed(sstvGeneration)
      /\ toIo' = toIo \o Call("stop", g) /\ toAudio' = toAudio \o Call("stopSstv", 0)
      /\ UiQuietTake
  BY DEF UiStopsSstv, StopSstv, RequestSstvStop, SstvBusy
<1>3. UNCHANGED <<scheduledGeneration, ft, stopsTaken, sstvGeneration, inside, phase,
                  txGeneration, ftEncoding>>
  BY DEF UiStopsSstv, StopSstv, ioVars, ioData, audioVars, sstvVars, ftVars
<1>4. g \in SstvUses /\ g \notin FtUses /\ g # 0
  BY <1>0, <1>2 DEF SstvUses, OwnGenerations
<1> HIDE DEF n, g
<1>5. QuietUi /\ QuietAudio
  <2>1. "stopSstv" \in AudioCalls \ {"prepare", "schedule"}
    BY DEF AudioCalls
  <2> QED BY <1>0, <1>2, <2>1, UiQueueQuiet, AudioQueueQuiet, NumberTypes DEF UiQuietTake
<1>6. /\ Requested' = Requested /\ Stops' = Stops \union {g} /\ FtBegins' = FtBegins
      /\ FtStops' = FtStops /\ Sounds' = Sounds
      /\ Distinct(toIo', {"beginSstv"}) /\ BeginsFirst(toIo')
      /\ \A h : StopAhead(toIo, h) => StopAhead(toIo', h)
      /\ g \notin Sounds => StopAhead(toIo', g)
  <2>1. "stop" \in IoCalls
    BY DEF IoCalls
  <2> QED BY <1>0, <1>1, <1>2, <2>1, IoPosts DEF KeyedOnce, StopsAreFinal
<1>7. /\ Pending' \subseteq Pending /\ SstvUses' \subseteq SstvUses
      /\ FtUses' \subseteq FtUses /\ Known' \subseteq Known \union SstvUses \union {0}
      /\ generation' \in {0, generation}
  BY <1>2, <1>3, <1>4, <1>5, <1>6
     DEF SstvUses, FtUses, Known, Pending, QuietUi, QuietAudio, Closed
<1>8. OwnGenerations'
  <2>1. \A h \in SstvUses' \union FtUses' \union Known' : h <= n
    <3>1. 0 <= n
      <4>1. n \in Nat
        BY NumberTypes DEF IInv, n, Issued
      <4> QED BY <4>1
    <3> QED BY <1>1, <1>7, <3>1
  <2>2. 0 \notin SstvUses' \union Scheduled' \union FtBegins' \union FtStops'
    BY <1>0, <1>5, <1>6, <1>7 DEF OwnGenerations, QuietAudio
  <2>3. SstvUses' \intersect FtUses' = {}
    BY <1>0, <1>7 DEF OwnGenerations
  <2> QED BY <1>0, <1>2, <1>3, <2>1, <2>2, <2>3 DEF OwnGenerations
<1>9. KeyedOnce'
  <2>1. (generation \notin Pending)'
    BY <1>0, <1>7 DEF KeyedOnce, OwnGenerations, SstvUses
  <2>2. (Asked \intersect Prepared = {} /\ (Asked \union Prepared) \intersect Requested = {})'
    BY <1>0, <1>5, <1>6 DEF KeyedOnce, QuietUi, QuietAudio
  <2>3. (Sounds \intersect Pending = {} /\ (inside = "image" => sstvGeneration \notin Pending))'
    BY <1>0, <1>3, <1>6, <1>7 DEF KeyedOnce
  <2> QED BY <1>3, <1>5, <1>6, <2>1, <2>2, <2>3 DEF KeyedOnce, QuietUi, QuietAudio
<1>10. PreparesLast'
  BY <1>2 DEF PreparesLast
<1>k. QuietKey /\ Confirmed' \subseteq {generation'}
  BY OthersKeyKept DEF Confirmed
<1>11. StopsAreFinal'
  BY <1>0, <1>2, <1>3, <1>6, <1>k DEF StopsAreFinal, QuietKey
<1>12. HaltsAreFinal'
  <2> SUFFICES ASSUME NEW h \in halted' \ {0}
               PROVE  /\ scheduledGeneration' # h
                      /\ SstvBusy' => h # lastGeneration'
                      /\ h \in Requested' \union Confirmed' => StopAhead(toIo', h)
    BY DEF HaltsAreFinal
  <2>1. CASE h \in halted
    BY <1>0, <1>2, <1>3, <1>6, <1>7, <1>k, <2>1 DEF HaltsAreFinal, QuietKey
  <2>2. CASE h = g
    <3>1. scheduledGeneration' # g
      BY <1>3, <1>4 DEF FtUses
    <3>2. g \in Requested => StopAhead(toIo', g)
      BY <1>0, <1>6 DEF KeyedOnce, Pending
    <3>3. generation' # g
      <4> SUFFICES ASSUME generation' = g PROVE FALSE
        OBVIOUS
      <4>1. generation = g /\ g # sstvGeneration
        BY <1>2, <1>4 DEF Closed
      <4>2. g \in Asked
        BY <1>0, <1>2, <4>1 DEF PreparesLast, g
      <4> QED BY <1>0, <4>1, <4>2 DEF KeyedOnce, Pending
    <3> QED BY <1>2, <1>6, <1>k, <2>2, <3>1, <3>2, <3>3
  <2> QED BY <1>2, <2>1, <2>2
<1> QED BY <1>8, <1>9, <1>10, <1>11, <1>12 DEF Lasting

(* The drain timer of a transmission that has ended does nothing.          *)
LEMMA DrainLasts ==
    ASSUME IInv, UiThread, NEW d \in Generations, DrainElapsed(d)
    PROVE  Lasting'
<1>0. OwnGenerations /\ KeyedOnce /\ PreparesLast /\ StopsAreFinal /\ HaltsAreFinal /\ Typed
  BY DEF IInv
<1>1. /\ UNCHANGED <<generation, scheduledGeneration, ft, halted, stopsTaken, sstvGeneration,
                     inside, phase, txGeneration, ftEncoding, toUi, toAudio>>
  BY DEF DrainElapsed, shared, ioVars, ioData, audioVars, sstvVars, ftVars
<1>2. QuietUi /\ QuietAudio
  BY <1>1, UiQueueQuiet, AudioQueueQuiet
<1>k. QuietKey
  BY OthersKeyKept
<1>3. CASE UNCHANGED <<lastGeneration, sstv, toIo>>
  BY <1>1, <1>2, <1>3, <1>k, IoQueueQuiet, FtKept, QuietStep DEF Quiet, SstvBusy
<1>4. CASE ~UNCHANGED <<lastGeneration, sstv, toIo>>
  <2> DEFINE n == Issued
             g == lastGeneration
  <2>1. /\ lastGeneration' = n /\ SstvBusy /\ ~SstvBusy'
        /\ toIo' = toIo \o Call("stop", g)
    BY <1>4 DEF DrainElapsed, SstvBusy
  <2>2. /\ \A h \in SstvUses \union FtUses \union Known : h < n /\ h <= n
        /\ lastGeneration < n /\ 0 < n /\ g \in GenerationOrNone
    BY <2>1, IssuedIsNew, NumberTypes DEF IInv
  <2>3. g \in SstvUses
    BY <2>1 DEF SstvUses
  <2> HIDE DEF n, g
  <2>4. /\ Requested' = Requested /\ Stops' = Stops \union {g} /\ FtBegins' = FtBegins
        /\ FtStops' = FtStops /\ Sounds' = Sounds
        /\ Distinct(toIo', {"beginSstv"}) /\ BeginsFirst(toIo')
        /\ \A h : StopAhead(toIo, h) => StopAhead(toIo', h)
    <3>1. "stop" \in IoCalls
      BY DEF IoCalls
    <3> QED BY <1>0, <2>1, <2>2, <3>1, IoPosts DEF KeyedOnce, StopsAreFinal
  <2>5. /\ Pending' \subseteq Pending /\ SstvUses' \subseteq SstvUses
        /\ FtUses' \subseteq FtUses /\ Known' = Known
    BY <1>1, <1>2, <2>1, <2>3, <2>4
       DEF SstvUses, FtUses, Known, Pending, QuietUi, QuietAudio
  <2>6. OwnGenerations'
    <3>1. \A h \in SstvUses' \union FtUses' \union Known' : h <= n
      BY <2>2, <2>5
    <3>2. 0 \notin SstvUses' \union Scheduled' \union FtBegins' \union FtStops'
      BY <1>0, <1>2, <2>4, <2>5 DEF OwnGenerations, QuietAudio
    <3>3. SstvUses' \intersect FtUses' = {}
      BY <1>0, <2>5 DEF OwnGenerations
    <3> QED BY <1>0, <1>1, <2>1, <3>1, <3>2, <3>3 DEF OwnGenerations
  <2>7. KeyedOnce'
    <3>1. (Asked \intersect Prepared = {} /\ (Asked \union Prepared) \intersect Requested = {})'
      BY <1>0, <1>2, <2>4 DEF KeyedOnce, QuietUi, QuietAudio
    <3>2. (/\ generation \notin Pending /\ Sounds \intersect Pending = {}
           /\ inside = "image" => sstvGeneration \notin Pending)'
      BY <1>0, <1>1, <2>4, <2>5 DEF KeyedOnce
    <3> QED BY <1>1, <1>2, <2>4, <3>1, <3>2 DEF KeyedOnce, QuietUi, QuietAudio
  <2>8. PreparesLast'
    BY <2>1 DEF PreparesLast
  <2>9. StopsAreFinal'
    BY <1>0, <1>1, <1>k, <2>1, <2>4 DEF StopsAreFinal, QuietKey
  <2>10. HaltsAreFinal'
    BY <1>0, <1>1, <1>k, <2>1, <2>4 DEF HaltsAreFinal, QuietKey
  <2> QED BY <2>6, <2>7, <2>8, <2>9, <2>10 DEF Lasting
<1> QED BY <1>3, <1>4

(* The UI thread stops an over.                                            *)
LEMMA StopFtLasts ==
    ASSUME IInv, UiThread, UiStopsFt
    PROVE  Lasting'
<1>0. OwnGenerations /\ KeyedOnce /\ PreparesLast /\ StopsAreFinal /\ HaltsAreFinal /\ Typed
  BY DEF IInv
<1>1. /\ ft # 0 /\ ft \in GenerationOrNone /\ ft \in FtUses
      /\ halted' = halted \union {ft} /\ generation' = Closed(ft)
      /\ scheduledGeneration' = Unscheduled(ft)
      /\ toIo' = toIo \o Call("stopFt", ft) /\ toAudio' = toAudio \o Call("cancel", ft)
      /\ UiQuietTake
  BY <1>0, NumberTypes DEF UiStopsFt, StopFt, FtUses
<1>2. UNCHANGED <<lastGeneration, sstv, ft, stopsTaken, sstvGeneration, inside, phase,
                  txGeneration, ftEncoding>>
  BY DEF UiStopsFt, StopFt, ioVars, ioData, audioVars, sstvVars, ftVars
<1>3. /\ generation' \in {0, generation} /\ generation' # ft
      /\ scheduledGeneration' \in {0, scheduledGeneration} /\ scheduledGeneration' # ft
  BY <1>1 DEF Closed, Unscheduled
<1>4. SstvBusy' = SstvBusy
  BY <1>2 DEF SstvBusy
<1>5. QuietUi /\ QuietAudio
  <2>1. "cancel" \in AudioCalls \ {"prepare", "schedule"}
    BY DEF AudioCalls
  <2> QED BY <1>0, <1>1, <2>1, UiQueueQuiet, AudioQueueQuiet DEF UiQuietTake
<1>6. /\ Requested' = Requested /\ Stops' = Stops /\ FtBegins' = FtBegins
      /\ FtStops' = FtStops \union {ft} /\ Sounds' = Sounds
      /\ Distinct(toIo', {"beginSstv"}) /\ BeginsFirst(toIo')
      /\ \A h : StopAhead(toIo, h) => StopAhead(toIo', h)
  <2>1. "stopFt" \in IoCalls
    BY DEF IoCalls
  <2> QED BY <1>0, <1>1, <2>1, IoPosts DEF KeyedOnce, StopsAreFinal
<1>7. /\ Pending' \subseteq Pending /\ SstvUses' \subseteq SstvUses
      /\ FtUses' \subseteq FtUses \union {0} /\ Known' \subseteq Known \union FtUses \union {0}
  BY <1>1, <1>2, <1>3, <1>4, <1>5, <1>6
     DEF SstvUses, FtUses, Known, Pending, QuietUi, QuietAudio
<1>8. OwnGenerations'
  <2>1. \A h \in SstvUses' \union FtUses' \union Known' : h <= lastGeneration
    <3>1. 0 <= lastGeneration
      BY <1>0, NumberTypes
    <3> QED BY <1>0, <1>7, <3>1 DEF OwnGenerations
  <2>2. 0 \notin SstvUses' \union Scheduled' \union FtBegins' \union FtStops'
    BY <1>0, <1>1, <1>5, <1>6, <1>7 DEF OwnGenerations, QuietAudio
  <2>3. SstvUses' \intersect FtUses' = {}
    BY <1>0, <1>7 DEF OwnGenerations
  <2> QED BY <1>0, <1>2, <2>1, <2>2, <2>3 DEF OwnGenerations
<1>9. KeyedOnce'
  <2>1. (generation \notin Pending)'
    BY <1>0, <1>3, <1>7 DEF KeyedOnce, OwnGenerations, SstvUses
  <2>2. (Asked \intersect Prepared = {} /\ (Asked \union Prepared) \intersect Requested = {})'
    BY <1>0, <1>5, <1>6 DEF KeyedOnce, QuietUi, QuietAudio
  <2>3. (Sounds \intersect Pending = {} /\ (inside = "image" => sstvGeneration \notin Pending))'
    BY <1>0, <1>2, <1>6, <1>7 DEF KeyedOnce
  <2> QED BY <1>2, <1>5, <1>6, <2>1, <2>2, <2>3 DEF KeyedOnce, QuietUi, QuietAudio
<1>10. PreparesLast'
  BY <1>0, <1>2, <1>4, <1>5 DEF PreparesLast, QuietAudio
<1>k. QuietKey /\ Confirmed' \subseteq {generation'}
  BY OthersKeyKept DEF Confirmed
<1>11. StopsAreFinal'
  BY <1>0, <1>2, <1>3, <1>4, <1>6, <1>k DEF StopsAreFinal, QuietKey
<1>12. HaltsAreFinal'
  <2> SUFFICES ASSUME NEW h \in halted' \ {0}
               PROVE  /\ scheduledGeneration' # h
                      /\ SstvBusy' => h # lastGeneration'
                      /\ h \in Requested' \union Confirmed' => StopAhead(toIo', h)
    BY DEF HaltsAreFinal
  <2>1. CASE h \in halted
    BY <1>0, <1>2, <1>3, <1>4, <1>6, <1>k, <2>1 DEF HaltsAreFinal, QuietKey
  <2>2. CASE h = ft
    <3>1. ft \notin SstvUses
      BY <1>0, <1>1 DEF OwnGenerations
    <3> QED BY <1>2, <1>3, <1>4, <1>6, <1>k, <2>2, <3>1 DEF SstvUses, Pending
  <2> QED BY <1>1, <2>1, <2>2
<1> QED BY <1>8, <1>9, <1>10, <1>11, <1>12 DEF Lasting

(* The UI thread asks for a prepared image to be keyed.                    *)
LEMMA OnPreparedLasts ==
    ASSUME IInv, UiThread, OnPrepared
    PROVE  Lasting'
<1>0. OwnGenerations /\ KeyedOnce /\ PreparesLast /\ StopsAreFinal /\ HaltsAreFinal /\ Typed
  BY DEF IInv
<1>1. UNCHANGED <<generation, scheduledGeneration, lastGeneration, ft, halted, stopsTaken,
                  sstvGeneration, inside, phase, txGeneration, ftEncoding, toAudio>>
  BY DEF OnPrepared, shared, ioVars, ioData, audioVars, sstvVars, ftVars
<1>2. QuietUi /\ QuietAudio
  BY <1>1, UiQueueQuiet, AudioQueueQuiet DEF OnPrepared
<1> DEFINE g == Head(toUi).generation
<1>k. QuietKey
  BY OthersKeyKept
<1>3. CASE UNCHANGED toIo /\ sstv' \in {sstv, "idle"}
  BY <1>1, <1>2, <1>3, <1>k, IoQueueQuiet, FtKept, QuietStep DEF Quiet, SstvBusy
<1>4. CASE /\ UiTakes("prepared") /\ g = lastGeneration /\ sstv = "starting"
           /\ toIo' = toIo \o Call("beginSstv", g) /\ UNCHANGED sstv
  <2>1. /\ Prepared = Prepared' \union {g} /\ g \notin Prepared'
        /\ Distinct(toUi', {"prepared"})
    BY <1>0, <1>4, UiTaken DEF KeyedOnce
  <2>2. /\ SstvBusy /\ SstvBusy' /\ g = lastGeneration /\ g \in GenerationOrNone
    BY <1>0, <1>4, NumberTypes DEF SstvBusy
  <2>3. g \notin Requested \union Stops \union stopsTaken \union Asked
    BY <1>0, <2>1, <2>2 DEF KeyedOnce, StopsAreFinal
  <2>4. toIo' = toIo \o Call("beginSstv", g)
    BY <1>4
  <2> HIDE DEF g
  <2>5. /\ Requested' = Requested \union {g} /\ Stops' = Stops /\ FtBegins' = FtBegins
        /\ FtStops' = FtStops /\ Sounds' = Sounds
        /\ Distinct(toIo', {"beginSstv"}) /\ BeginsFirst(toIo')
        /\ \A h : StopAhead(toIo, h) => StopAhead(toIo', h)
    <3>1. "beginSstv" \in IoCalls
      BY DEF IoCalls
    <3> QED BY <1>0, <2>2, <2>3, <2>4, <3>1, IoPosts DEF KeyedOnce, StopsAreFinal
  <2>6. Asked' = Asked /\ Scheduled' = Scheduled
    BY <1>1, SameQueues
  <2>7. Pending' = Pending
    BY <2>1, <2>5, <2>6 DEF Pending
  <2>8. SstvUses' = SstvUses /\ FtUses' = FtUses /\ Known' = Known
    BY <1>1, <2>2, <2>5, <2>6, <2>7 DEF SstvUses, FtUses, Known
  <2>9. OwnGenerations'
    BY <1>0, <1>1, <2>5, <2>6, <2>8 DEF OwnGenerations
  <2>10. KeyedOnce'
    <3>1. (Asked \intersect Prepared = {} /\ (Asked \union Prepared) \intersect Requested = {})'
      BY <1>0, <2>1, <2>3, <2>5, <2>6 DEF KeyedOnce
    <3>2. (/\ generation \notin Pending /\ Sounds \intersect Pending = {}
           /\ inside = "image" => sstvGeneration \notin Pending)'
      BY <1>0, <1>1, <2>5, <2>7 DEF KeyedOnce
    <3> QED BY <1>1, <1>2, <2>1, <2>5, <3>1, <3>2 DEF KeyedOnce, QuietAudio
  <2>11. PreparesLast'
    BY <1>0, <1>1, <2>2, <2>6 DEF PreparesLast
  <2>12. StopsAreFinal'
    <3>1. g # 0 /\ g # scheduledGeneration
      <4>1. g \in SstvUses
        BY <2>2 DEF SstvUses
      <4> QED BY <1>0, <4>1 DEF OwnGenerations, FtUses
    <3> QED BY <1>0, <1>1, <1>k, <2>2, <2>3, <2>5, <3>1 DEF StopsAreFinal, QuietKey
  <2>13. HaltsAreFinal'
    BY <1>0, <1>1, <1>k, <2>2, <2>5 DEF HaltsAreFinal, QuietKey
  <2> QED BY <2>9, <2>10, <2>11, <2>12, <2>13 DEF Lasting
<1> QED BY <1>3, <1>4 DEF OnPrepared

(***************************************************************************)
(* The steps of the I/O thread that key the radio or obey a stop, and the  *)
(* audio thread's turn to an image                                         *)
(***************************************************************************)
LEMMA TakeStopLasts ==
    ASSUME IInv, IoThread, TakeStop
    PROVE  Lasting'
<1>0. /\ OwnGenerations /\ KeyedOnce /\ PreparesLast /\ StopsAreFinal /\ HaltsAreFinal
      /\ Typed /\ GateIsGuarded
  BY DEF IInv
<1>1. UNCHANGED <<lastGeneration, halted, sstv, ft, sstvGeneration, inside, phase,
                  txGeneration, ftEncoding, scheduledGeneration, toUi, toAudio>>
  BY OthersKept DEF uiVars, audioVars, sstvVars, ftVars, TakeStop
<1>2. SstvBusy' = SstvBusy /\ QuietUi /\ QuietAudio
  BY <1>1, UiQueueQuiet, AudioQueueQuiet DEF SstvBusy
<1> DEFINE g == Head(toIo).generation
<1>3. /\ generation' = 0 /\ stopsTaken' = stopsTaken \union {g} /\ IoTakes("stop")
      /\ ioInside' = "loop"
  BY <1>0 DEF TakeStop, Unkey, Closed, GateIsGuarded
<1>4. /\ Requested = Requested' /\ Stops = Stops' \union {g} /\ FtBegins = FtBegins'
      /\ FtStops = FtStops' /\ Sounds = Sounds'
      /\ Distinct(toIo', {"beginSstv"}) /\ BeginsFirst(toIo')
      /\ g \notin Requested'
      /\ \A h : StopAhead(toIo, h) /\ h # g => StopAhead(toIo', h)
  BY <1>0, <1>3, IoTaken DEF KeyedOnce, StopsAreFinal
<1> HIDE DEF g
<1>5. g \in SstvUses /\ g # 0 /\ g # scheduledGeneration
  BY <1>0, <1>4 DEF SstvUses, FtUses, OwnGenerations
<1>6. /\ Pending' \subseteq Pending /\ SstvUses' \subseteq SstvUses
      /\ FtUses' \subseteq FtUses /\ Known' \subseteq Known \union SstvUses \union {0}
  BY <1>1, <1>2, <1>3, <1>4, <1>5 DEF SstvUses, FtUses, Known, Pending, QuietUi, QuietAudio
<1>7. OwnGenerations'
  <2>1. \A h \in SstvUses' \union FtUses' \union Known' : h <= lastGeneration
    <3>1. 0 <= lastGeneration
      BY <1>0, NumberTypes
    <3> QED BY <1>0, <1>6, <3>1 DEF OwnGenerations
  <2>2. 0 \notin SstvUses' \union Scheduled' \union FtBegins' \union FtStops'
    BY <1>0, <1>2, <1>4, <1>6 DEF OwnGenerations, QuietAudio
  <2> QED BY <1>0, <1>1, <1>6, <2>1, <2>2 DEF OwnGenerations
<1>8. KeyedOnce'
  <2>1. (Asked \intersect Prepared = {} /\ (Asked \union Prepared) \intersect Requested = {})'
    BY <1>0, <1>2, <1>4 DEF KeyedOnce, QuietUi, QuietAudio
  <2>2. (/\ generation \notin Pending /\ Sounds \intersect Pending = {}
         /\ inside = "image" => sstvGeneration \notin Pending)'
    BY <1>0, <1>1, <1>3, <1>4, <1>6 DEF KeyedOnce, OwnGenerations, SstvUses
  <2> QED BY <1>1, <1>2, <1>4, <2>1, <2>2 DEF KeyedOnce, QuietUi, QuietAudio
<1>9. PreparesLast'
  BY <1>0, <1>1, <1>2 DEF PreparesLast, QuietAudio
<1>k. ~AboutToKey' /\ Confirmed' = {0}
  BY <1>3 DEF AboutToKey, Confirmed
<1>10. StopsAreFinal'
  BY <1>0, <1>1, <1>2, <1>3, <1>4, <1>5, <1>k DEF StopsAreFinal
<1>11. HaltsAreFinal'
  BY <1>0, <1>1, <1>2, <1>3, <1>4, <1>k DEF HaltsAreFinal
<1> QED BY <1>7, <1>8, <1>9, <1>10, <1>11 DEF Lasting

(* The I/O thread takes the stop of an over.                               *)
LEMMA TakeStopFtLasts ==
    ASSUME IInv, IoThread, TakeStopFt
    PROVE  Lasting'
<1>0. /\ OwnGenerations /\ KeyedOnce /\ PreparesLast /\ StopsAreFinal /\ HaltsAreFinal
      /\ Typed
  BY DEF IInv
<1>1. UNCHANGED <<lastGeneration, halted, sstv, ft, sstvGeneration, inside, phase,
                  txGeneration, ftEncoding, toUi>>
  BY OthersKept DEF uiVars, audioVars, sstvVars, ftVars, TakeStopFt
<1> DEFINE g == Head(toIo).generation
<1>2. /\ generation' \in {0, generation} /\ stopsTaken' = stopsTaken \union {g}
      /\ scheduledGeneration' \in {0, scheduledGeneration}
      /\ IoTakes("stopFt") /\ toAudio' = toAudio \o Call("unkeyed", g)
      /\ ioInside = "loop" /\ ioInside' = "loop"
  BY DEF TakeStopFt, Unkey, Closed, Unscheduled
<1>3. g # 0 => scheduledGeneration' # g
  BY DEF TakeStopFt, Unscheduled
<1>4. g \in FtStops /\ g \in GenerationOrNone
  BY <1>0, <1>2, IoTaken, IoTake
<1>5. QuietIo
  BY <1>2, IoQueueQuiet DEF IoCalls
<1> HIDE DEF g
<1>6. QuietUi /\ QuietAudio
  <2>1. "unkeyed" \in AudioCalls \ {"prepare", "schedule"}
    BY DEF AudioCalls
  <2> QED BY <1>1, <1>2, <1>4, <2>1, UiQueueQuiet, AudioQueueQuiet
<1>7. g \in FtUses /\ g \notin SstvUses /\ g # 0
  BY <1>0, <1>4 DEF FtUses, OwnGenerations
<1>8. QuietFt
  BY <1>1, FtKept
<1>9. SstvBusy' = SstvBusy
  BY <1>1 DEF SstvBusy
<1>10. /\ Pending' \subseteq Pending /\ SstvUses' \subseteq SstvUses
  BY <1>1, <1>5, <1>6, <1>9 DEF SstvUses, Pending, QuietUi, QuietAudio, QuietIo
<1>11. FtUses' \subseteq FtUses \union {0}
  BY <1>0, <1>1, <1>2, <1>5, <1>6, FtOverIs DEF FtUses, QuietIo, QuietAudio
<1>12. Known' \subseteq Known \union FtUses \union {0}
                  \union (IF inside = "image" THEN {sstvGeneration} ELSE {})
  BY <1>1, <1>2, <1>5, <1>7 DEF Known, QuietIo
<1>13. OwnGenerations'
  <2>1. \A h \in SstvUses' \union FtUses' \union Known' : h <= lastGeneration
    <3>1. 0 <= lastGeneration /\ sstvGeneration \in Known
      BY <1>0, NumberTypes DEF Known
    <3> QED BY <1>0, <1>10, <1>11, <1>12, <3>1 DEF OwnGenerations
  <2>2. 0 \notin SstvUses' \union Scheduled' \union FtBegins' \union FtStops'
    BY <1>0, <1>5, <1>6, <1>10, FtOverIs DEF OwnGenerations, QuietAudio, QuietIo
  <2>3. SstvUses' \intersect FtUses' = {}
    BY <1>0, <1>10, <1>11 DEF OwnGenerations
  <2> QED BY <1>0, <1>1, <2>1, <2>2, <2>3 DEF OwnGenerations
<1>14. KeyedOnce'
  <2>1. (Asked \intersect Prepared = {} /\ (Asked \union Prepared) \intersect Requested = {})'
    BY <1>0, <1>5, <1>6 DEF KeyedOnce, QuietUi, QuietAudio, QuietIo
  <2>2. (generation \notin Pending /\ (inside = "image" => sstvGeneration \notin Pending))'
    BY <1>0, <1>1, <1>2, <1>10 DEF KeyedOnce, OwnGenerations, SstvUses
  <2>3. (Sounds \intersect Pending = {})'
    <3>1. FtUses \intersect Pending = {}
      BY <1>0 DEF OwnGenerations, SstvUses
    <3> QED BY <1>0, <1>5, <1>10, <3>1 DEF KeyedOnce, QuietIo
  <2> QED BY <1>1, <1>5, <1>6, <2>1, <2>2, <2>3 DEF KeyedOnce, QuietUi, QuietAudio, QuietIo
<1>15. PreparesLast'
  BY <1>0, <1>1, <1>6, <1>9 DEF PreparesLast, QuietAudio
<1>k. ~AboutToKey' /\ Confirmed = {generation} /\ Confirmed' = {generation'}
  BY <1>2 DEF AboutToKey, Confirmed
<1>16. StopsAreFinal'
  <2>1. g \notin Requested' \union {0, scheduledGeneration'}
    BY <1>3, <1>7, <1>5 DEF SstvUses, Pending, QuietIo
  <2>2. SstvBusy => g # lastGeneration
    BY <1>7 DEF SstvUses
  <2> QED BY <1>0, <1>1, <1>2, <1>5, <1>9, <1>k, <2>1, <2>2 DEF StopsAreFinal, QuietIo
<1>17. HaltsAreFinal'
  BY <1>0, <1>1, <1>2, <1>5, <1>9, <1>k DEF HaltsAreFinal, QuietIo, OwnGenerations
<1> QED BY <1>13, <1>14, <1>15, <1>16, <1>17 DEF Lasting

(* What the guard is armed for is of its mode and not stopped, and if it   *)
(* is an image the stop, if there is one, is behind it, ahead of any audio.*)
LEMMA ArmedFor ==
    ASSUME IInv, NEW k \in {"sstv", "ft"}, ArmGuard(k)
    PROVE  LET g == Head(toIo).generation
           IN  /\ g \in Generations /\ g \notin Pending'
               /\ k = "sstv" => /\ g \in SstvUses /\ g \notin stopsTaken
                                /\ g \in halted => StopAhead(toIo', g)
               /\ k = "ft" => g \in FtUses
               /\ QuietUi /\ QuietAudio /\ QuietIo
<1> DEFINE g == Head(toIo).generation
           name == BeginCall(k)
<1>0. /\ OwnGenerations /\ KeyedOnce /\ StopsAreFinal /\ HaltsAreFinal /\ Typed
  BY DEF IInv
<1>2. IoTakes(name) /\ name \in IoCalls \ {"stop"} /\ UNCHANGED <<toUi, toAudio>>
  BY DEF ArmGuard, IoCalls, BeginCall
<1>1. /\ g \in Generations
      /\ k = "sstv" => g \in Requested
      /\ k = "ft" => g \in FtBegins
  BY <1>0, <1>2, TakesBegin
<1>3. QuietIo /\ QuietUi /\ QuietAudio
  BY <1>2, IoQueueQuiet, UiQueueQuiet, AudioQueueQuiet
<1>5. /\ k = "sstv" => g \notin Requested'
      /\ \A h : StopAhead(toIo, h) => StopAhead(toIo', h)
  <2>1. Distinct(toIo, {"beginSstv"})
    BY <1>0 DEF KeyedOnce
  <2>2. k = "sstv" => name = "beginSstv"
    BY DEF BeginCall
  <2> HIDE DEF name
  <2> QED BY <1>0, <1>2, <1>3, <2>1, <2>2, IoTaken DEF QuietIo
<1>6. Pending' \subseteq Pending
  BY <1>3 DEF Pending, QuietUi, QuietAudio, QuietIo
<1> HIDE DEF name, g
<1>7. CASE k = "sstv"
  <2>1. g \in Pending /\ g \in SstvUses /\ g \notin stopsTaken
    BY <1>0, <1>1, <1>7 DEF Pending, SstvUses, StopsAreFinal
  <2>2. g \notin Pending'
    BY <1>0, <1>1, <1>3, <1>5, <1>7 DEF Pending, KeyedOnce, QuietUi, QuietAudio
  <2>3. g \in halted => StopAhead(toIo', g)
    <3>1. g # 0
      BY <1>0, <2>1 DEF OwnGenerations
    <3> QED BY <1>0, <1>1, <1>5, <1>7, <3>1 DEF HaltsAreFinal
  <2> QED BY <1>1, <1>3, <1>7, <2>1, <2>2, <2>3 DEF g
<1>8. CASE k = "ft"
  <2>1. g \in FtUses
    BY <1>1, <1>8 DEF FtUses
  <2>2. g \notin Pending
    BY <1>0, <2>1 DEF OwnGenerations, SstvUses
  <2> QED BY <1>1, <1>3, <1>6, <1>8, <2>1, <2>2 DEF g
<1> QED BY <1>7, <1>8

(* The I/O thread arms the guard.                                          *)
LEMMA ArmLasts ==
    ASSUME IInv, IoThread, NEW k \in {"sstv", "ft"}, ArmGuard(k)
    PROVE  Lasting'
<1> DEFINE g == Head(toIo).generation
<1>0. /\ OwnGenerations /\ KeyedOnce /\ PreparesLast /\ StopsAreFinal /\ HaltsAreFinal
      /\ Typed
  BY DEF IInv
<1>1. /\ generation' = g /\ myGeneration' = g /\ kind' = k /\ ioInside' = "armed"
      /\ UNCHANGED <<scheduledGeneration, stopsTaken>>
  BY DEF ArmGuard
<1>2. UNCHANGED <<lastGeneration, halted, sstv, ft, sstvGeneration, inside, phase,
                  txGeneration, ftEncoding>>
  BY OthersKept DEF uiVars, audioVars, sstvVars, ftVars
<1>3. /\ g \in Generations /\ g \notin Pending'
      /\ k = "sstv" => /\ g \in SstvUses /\ g \notin stopsTaken
                       /\ g \in halted => StopAhead(toIo', g)
      /\ g \in SstvUses \union FtUses
      /\ QuietUi /\ QuietAudio /\ QuietIo
  BY ArmedFor
<1>k. /\ AboutToKey' => k = "sstv" /\ myGeneration' = g
      /\ Confirmed' = IF k = "ft" THEN {} ELSE {g}
  BY <1>1 DEF AboutToKey, Confirmed
<1> HIDE DEF g
<1>4. QuietFt /\ SstvBusy' = SstvBusy
  BY <1>2, FtKept DEF SstvBusy
<1>5. /\ Pending' \subseteq Pending /\ SstvUses' \subseteq SstvUses
  BY <1>2, <1>3, <1>4 DEF SstvUses, Pending, QuietUi, QuietAudio, QuietIo
<1>6. FtUses' \subseteq FtUses
  BY <1>0, <1>1, <1>2, <1>3, FtOverIs DEF FtUses, QuietIo, QuietAudio
<1>7. Known' \subseteq Known \union FtUses \union SstvUses
  BY <1>1, <1>2, <1>3 DEF Known, QuietIo
<1>8. OwnGenerations'
  <2>1. \A h \in SstvUses' \union FtUses' \union Known' : h <= lastGeneration
    BY <1>0, <1>5, <1>6, <1>7 DEF OwnGenerations
  <2>2. 0 \notin SstvUses' \union Scheduled' \union FtBegins' \union FtStops'
    BY <1>0, <1>3, <1>5, FtOverIs DEF OwnGenerations, QuietAudio, QuietIo
  <2>3. SstvUses' \intersect FtUses' = {}
    BY <1>0, <1>5, <1>6 DEF OwnGenerations
  <2> QED BY <1>0, <1>2, <2>1, <2>2, <2>3 DEF OwnGenerations
<1>9. KeyedOnce'
  <2>1. (Asked \intersect Prepared = {} /\ (Asked \union Prepared) \intersect Requested = {})'
    BY <1>0, <1>3 DEF KeyedOnce, QuietUi, QuietAudio, QuietIo
  <2>2. (generation \notin Pending /\ (inside = "image" => sstvGeneration \notin Pending))'
    BY <1>0, <1>1, <1>2, <1>3, <1>5 DEF KeyedOnce
  <2>3. (Sounds \intersect Pending = {})'
    <3>1. FtUses \intersect Pending = {}
      BY <1>0 DEF OwnGenerations, SstvUses
    <3> QED BY <1>0, <1>3, <1>5, <3>1 DEF KeyedOnce, QuietIo
  <2> QED BY <1>2, <1>3, <2>1, <2>2, <2>3 DEF KeyedOnce, QuietUi, QuietAudio, QuietIo
<1>10. PreparesLast'
  BY <1>0, <1>2, <1>3, <1>4 DEF PreparesLast, QuietAudio
<1>11. StopsAreFinal'
  BY <1>0, <1>1, <1>2, <1>3, <1>4, <1>k DEF StopsAreFinal, QuietIo
<1>12. HaltsAreFinal'
  BY <1>0, <1>1, <1>2, <1>3, <1>4, <1>k DEF HaltsAreFinal, QuietIo
<1> QED BY <1>8, <1>9, <1>10, <1>11, <1>12 DEF Lasting

(* The audio thread prepares an image.                                     *)
LEMMA TakePrepareLasts ==
    ASSUME IInv, AudioThread, TakePrepare
    PROVE  Lasting'
<1>0. /\ OwnGenerations /\ KeyedOnce /\ PreparesLast /\ StopsAreFinal /\ HaltsAreFinal
      /\ Typed
  BY DEF IInv
<1> DEFINE g == Head(toAudio).generation
<1>1. UNCHANGED <<lastGeneration, halted, sstv, ft, stopsTaken, generation,
                  scheduledGeneration, inside, phase, txGeneration, ftEncoding, toIo>>
  BY OthersKept DEF uiVars, ioVars, ioData, ftVars, TakePrepare, shared
<1>2. /\ sstvGeneration' = g /\ AudioTakes("prepare") /\ inside # "image"
      /\ \E name \in {"prepared", "notPrepared"} : toUi' = toUi \o Call(name, g)
  BY DEF TakePrepare, AudioTakes
<1>3. /\ Asked = Asked' \union {g} /\ Scheduled = Scheduled'
      /\ sstvGeneration < g /\ Rising(toAudio', {"prepare"}, g)
      /\ \A h \in Asked' : g < h
      /\ g \in GenerationOrNone
  BY <1>0, <1>2, AudioTaken, AudioTake DEF KeyedOnce
<1> HIDE DEF g
<1>4. g \in Asked /\ g \in Pending /\ g \in SstvUses
  BY <1>3 DEF Pending, SstvUses
<1>5. g \notin Asked'
  <2>1. ~(g < g)
    BY <1>0, <1>3, NumberTypes
  <2> QED BY <1>3, <2>1
<1>6. /\ Prepared' \subseteq Prepared \union {g}
      /\ Distinct(toUi', {"prepared"})
  <2>1. {"prepared", "notPrepared"} \subseteq UiCalls
    BY DEF UiCalls
  <2>2. g \notin Prepared
    BY <1>0, <1>4 DEF KeyedOnce
  <2> QED BY <1>0, <1>2, <1>3, <2>1, <2>2, UiPosts DEF KeyedOnce
<1>7. /\ Requested' = Requested /\ Stops' = Stops /\ FtBegins' = FtBegins
      /\ FtStops' = FtStops /\ Sounds' = Sounds
      /\ Distinct(toIo', {"beginSstv"}) /\ BeginsFirst(toIo')
      /\ \A h : StopAhead(toIo, h) => StopAhead(toIo', h)
  BY <1>0, <1>1, SameQueues DEF KeyedOnce, StopsAreFinal
<1>8. SstvBusy' = SstvBusy
  BY <1>1 DEF SstvBusy
<1>9. /\ Pending' \subseteq Pending /\ SstvUses' \subseteq SstvUses /\ FtUses' = FtUses
      /\ Known' \subseteq Known \union SstvUses
  BY <1>1, <1>2, <1>3, <1>4, <1>6, <1>7, <1>8 DEF Pending, SstvUses, FtUses, Known
<1>10. OwnGenerations'
  BY <1>0, <1>1, <1>3, <1>7, <1>9 DEF OwnGenerations
<1>11. KeyedOnce'
  <2>1. (Asked \intersect Prepared = {} /\ (Asked \union Prepared) \intersect Requested = {})'
    BY <1>0, <1>3, <1>4, <1>5, <1>6, <1>7 DEF KeyedOnce
  <2>2. (generation \notin Pending /\ Sounds \intersect Pending = {} /\ inside # "image")'
    BY <1>0, <1>1, <1>2, <1>7, <1>9 DEF KeyedOnce
  <2> QED BY <1>2, <1>3, <1>6, <1>7, <2>1, <2>2 DEF KeyedOnce
<1>12. PreparesLast'
  <2>1. SstvBusy => lastGeneration # sstvGeneration
    <3>1. g <= lastGeneration
      BY <1>0, <1>4 DEF OwnGenerations
    <3>2. g \in Nat /\ lastGeneration \in Nat /\ sstvGeneration \in Nat
      BY <1>0, <1>3, NumberTypes
    <3> QED BY <1>3, <3>1, <3>2
  <2> QED BY <1>0, <1>1, <1>2, <1>3, <1>8, <2>1 DEF PreparesLast
<1>k. QuietKey
  BY OthersKeyKept
<1>13. StopsAreFinal'
  BY <1>0, <1>1, <1>7, <1>8, <1>k DEF StopsAreFinal, QuietKey
<1>14. HaltsAreFinal'
  BY <1>0, <1>1, <1>7, <1>8, <1>k DEF HaltsAreFinal, QuietKey
<1> QED BY <1>10, <1>11, <1>12, <1>13, <1>14 DEF Lasting

(***************************************************************************)
(* The inductive invariant                                                 *)
(***************************************************************************)
LEMMA LastingStep == IInv /\ [Next]_vars => Lasting'
<1> SUFFICES ASSUME IInv, [Next]_vars PROVE Lasting'
  OBVIOUS
<1>1. CASE UiThread
  <2>1. StartSstv => Lasting'
    BY StartSstvLasts
  <2>2. OnPrepared => Lasting'
    BY <1>1, OnPreparedLasts
  <2>3. OnFinished \/ UiPasses => Lasting'
    BY <1>1, UiQuiet, QuietStep
  <2>4. UiStopsSstv => Lasting'
    BY <1>1, StopSstvLasts
  <2>5. UiStopsFt => Lasting'
    BY <1>1, StopFtLasts
  <2>6. \A g \in Generations : DrainElapsed(g) => Lasting'
    BY <1>1, DrainLasts
  <2>7. \A operator \in BOOLEAN : StartFt(operator) => Lasting'
    BY StartFtLasts
  <2> QED BY <1>1, <2>1, <2>2, <2>3, <2>4, <2>5, <2>6, <2>7, UiCases
<1>2. CASE IoThread
  <2>1. IoPlain => Lasting'
    BY <1>2, IoPlainQuiet, QuietStep
  <2>2. TakeStop => Lasting'
    BY <1>2, TakeStopLasts
  <2>3. TakeStopFt => Lasting'
    BY <1>2, TakeStopFtLasts
  <2>4. \A k \in {"sstv", "ft"} : ArmGuard(k) => Lasting'
    BY <1>2, ArmLasts
  <2> QED BY <1>2, <2>1, <2>2, <2>3, <2>4, IoActsIs DEF IoActs, IoPlain
<1>3. CASE AudioThread
  BY <1>3, TakePrepareLasts, AudioStepQuiet, QuietStep
<1>4. CASE UNCHANGED vars
  <2>1. /\ UNCHANGED <<generation, scheduledGeneration, lastGeneration, ft, sstv, halted,
                       stopsTaken, sstvGeneration, inside, phase, txGeneration, ftEncoding>>
        /\ UNCHANGED <<toUi, toIo, toAudio, ioInside, kind, myGeneration>>
    BY <1>4 DEF vars, shared, queues, uiVars, ioVars, ioData, guard, audioVars, ftVars, sstvVars
  <2>2. Quiet
    BY <2>1, UiQueueQuiet, AudioQueueQuiet, IoQueueQuiet, FtKept, KeyKept
       DEF Quiet, SstvBusy
  <2> QED BY <2>2, QuietStep
<1> QED BY <1>1, <1>2, <1>3, <1>4 DEF Next

(* At first nothing is on its way.                                         *)
LEMMA InitIInv == Init => IInv
<1> SUFFICES ASSUME Init PROVE IInv
  OBVIOUS
<1>1. Typed
  BY InitType
<1>2. /\ toUi = <<>> /\ toIo = <<>> /\ toAudio = <<>> /\ Len(<<>>) = 0
      /\ 1..0 = {}
  BY DEF Init
<1>3. /\ \A names : Gens(toUi, names) = {} /\ Gens(toIo, names) = {}
                    /\ Gens(toAudio, names) = {}
  BY <1>2 DEF Gens
<1>4. Counted
  BY LinkAssumption DEF Init, Counted
<1>5. FramesLeft
  BY <1>2 DEF Init, FramesLeft, Framed
<1>6. GateIsGuarded /\ Handled /\ AudioInItsOwnOver
  BY DEF Init, GateIsGuarded, Handled, AudioInItsOwnOver
<1>7. Pending = {} /\ Stops = {} /\ Scheduled = {} /\ FtBegins = {} /\ FtStops = {}
      /\ Sounds = {} /\ Asked = {} /\ Prepared = {} /\ Requested = {}
  BY <1>3 DEF Pending, Asked, Prepared, Requested, Stops, Scheduled, FtBegins, FtStops, Sounds
<1>8. SstvUses = {} /\ FtUses = {0} /\ Known = {0} /\ ~SstvBusy /\ lastGeneration = 0
  BY <1>7 DEF Init, SstvUses, FtUses, Known, SstvBusy
<1>9. OwnGenerations
  BY <1>7, <1>8 DEF Init, OwnGenerations
<1>10. KeyedOnce
  <2>1. Rising(toAudio, {"prepare"}, sstvGeneration)
    BY <1>2 DEF Rising
  <2>2. Distinct(toUi, {"prepared"}) /\ Distinct(toIo, {"beginSstv"})
    BY <1>2 DEF Distinct
  <2> QED BY <1>7, <2>1, <2>2 DEF Init, KeyedOnce
<1>11. PreparesLast
  BY <1>8 DEF PreparesLast
<1>12. StopsAreFinal
  BY <1>2, <1>7, <1>8 DEF Init, StopsAreFinal, BeginsFirst, AboutToKey
<1>13. HaltsAreFinal
  BY DEF Init, HaltsAreFinal
<1> QED BY <1>1, <1>4, <1>5, <1>6, <1>9, <1>10, <1>11, <1>12, <1>13 DEF IInv

(* The strengthening that every theorem about the link rests on: nothing   *)
(* outlives the generation it was made for.  A generation belongs to one   *)
(* mode; an SSTV transmission waits to be keyed in one place, before any   *)
(* sound of it exists; and its stop is never overtaken.                    *)
THEOREM Inductive == Spec => []IInv
<1>1. IInv /\ [Next]_vars => IInv'
  <2> SUFFICES ASSUME IInv, [Next]_vars PROVE IInv'
    OBVIOUS
  <2>1. Typed'
    BY TypeStep DEF IInv
  <2>2. /\ Counted' /\ FramesLeft' /\ GateIsGuarded' /\ Handled' /\ AudioInItsOwnOver'
        /\ Lasting'
    BY CountedStep, FramesStep, GateStep, HandledStep, OverStep, LastingStep
  <2> QED BY <2>1, <2>2 DEF IInv, Lasting
<1> QED BY <1>1, InitIInv, PTL DEF Spec

(* Every variable of the three threads, the queues between them and the    *)
(* histories keeps its type; generations never run out.                    *)
THEOREM Types == Spec => []TypeOK
<1>1. IInv => TypeOK
  BY TypedIs DEF IInv
<1> QED BY <1>1, Inductive, PTL

(* Audio is written to the radio only while it transmits for the very      *)
(* transmission the packet was made for, whatever was stopped, restarted   *)
(* or lost while the packet waited (sendDigitalAudio).                     *)
THEOREM AudioStaysInItsOver == Spec => []AudioInItsOwnOver
<1>1. IInv => AudioInItsOwnOver
  BY DEF IInv
<1> QED BY <1>1, Inductive, PTL

(* Once the UI thread has stopped a transmission every packet of it is     *)
(* refused by the last check of the gate (sendDigitalAudio): the stop      *)
(* itself shuts the gate, and if the begin is still queued the stop is     *)
(* behind it and ahead of every packet.  Only the packet that had passed   *)
(* that check when the stop came is still written.                         *)
THEOREM HaltIsFinal == Spec => HaltRefuses
<1>1. IInv /\ [Next]_vars =>
          [ioInside # "write" /\ ioInside' = "write" => Head(toIo).generation \notin halted]_vars
  <2> DEFINE g == Head(toIo).generation
  <2> SUFFICES ASSUME IInv, [Next]_vars, ioInside # "write", ioInside' = "write", g \in halted
               PROVE  FALSE
    OBVIOUS
  <2>1. CheckPacket /\ Allows(g)
    <3>1. IoThread
      BY OthersKept DEF Next, vars, ioVars
    <3>2. ~(\/ GateStays /\ Returns
            \/ Acknowledges
            \/ Unkeys
            \/ Releases /\ SlotLost
            \/ Opens /\ KeyRadio)
      BY DEF Returns, Acknowledges, Unkeys, Releases, Opens
    <3>3. ~\E k \in {"sstv", "ft"} : ArmGuard(k)
      BY DEF ArmGuard
    <3>4. Busies
      BY <3>1, <3>2, <3>3, IoGateCases DEF IInv
    <3> QED BY <3>4 DEF Busies, AdmitBegin, ConfirmSlot, CheckSlot, TakePacket, AdmitPacket
  <2>2. generation = g /\ g # 0 /\ ioInside = "ticked"
    BY <2>1 DEF CheckPacket, Allows
  <2>3. StopAhead(toIo, g)
    BY <2>2 DEF IInv, HaltsAreFinal, Confirmed
  <2>4. toIo # <<>> /\ Head(toIo).name = "packet"
    BY <2>1 DEF CheckPacket, AtHead
  <2>5. ~(Head(toIo).name = "packet" /\ Head(toIo).generation = g)
    BY <2>3, <2>4, QueueTypes, AheadTail DEF IInv
  <2> QED BY <2>4, <2>5
<1> QED BY <1>1, Inductive, PTL DEF Spec, HaltRefuses

(* A stop the I/O thread has carried out is never undone: no begin that    *)
(* arrives later keys the radio for that transmission.                     *)
THEOREM StopIsFinal == Spec => StopWins
<1>1. IInv /\ [Next]_vars => [onAir' # onAir => onAir' \notin stopsTaken]_vars
  <2> SUFFICES ASSUME IInv, [Next]_vars, onAir' # onAir PROVE onAir' \notin stopsTaken
    OBVIOUS
  <2>1. 0 \notin stopsTaken
    BY DEF IInv, StopsAreFinal
  <2>2. IoThread
    <3>1. UiThread \/ AudioThread => onAir' = onAir
      BY OthersKept DEF ioVars, ioData
    <3> QED BY <3>1 DEF Next, vars, ioVars, ioData
  <2>3. CASE GateStays \/ Acknowledges \/ Unkeys \/ Releases
    BY <2>1, <2>3 DEF GateStays, Acknowledges, Unkeys, Releases
  <2>4. CASE Opens
    <3>1. ioInside = "key" /\ onAir' = myGeneration
      BY <2>4 DEF Opens
    <3> QED BY <3>1 DEF IInv, StopsAreFinal, AboutToKey
  <2>5. ASSUME NEW g, Arms(g) PROVE onAir' \notin stopsTaken
    BY <2>5 DEF Arms
  <2> QED BY <2>2, <2>3, <2>4, <2>5, IoGateCases DEF IInv
<1> QED BY <1>1, Inductive, PTL DEF Spec, StopWins

(* The threads together use the gate as TxGate promises: it is opened for  *)
(* one generation at a time with the guard that watches it, any thread     *)
(* may shut it, and after a trip it stays shut until the operator          *)
(* acknowledges.                                                           *)
THEOREM LinkImplementsGate == Spec => GateSpec
<1>1. Init => Gate!Init
  BY DEF Init, Gate!Init
<1>2. IInv /\ [Next]_vars => [Gate!Next]_(Gate!gate)
  <2> SUFFICES ASSUME IInv, [Next]_vars PROVE [Gate!Next]_(Gate!gate)
    OBVIOUS
  <2>0. /\ Typed /\ OwnGenerations /\ GateIsGuarded
        /\ latched \in BOOLEAN /\ active \in BOOLEAN
    BY DEF IInv, Typed, TypedIo
  <2>1. CASE UiThread \/ AudioThread
    <3>1. generation' \in {0, generation} /\ UNCHANGED <<active, latched, myGeneration>>
      BY <2>1, OnlyClosed, OthersKept DEF ioVars, ioData, guard
    <3>2. CASE generation' = generation
      BY <3>1, <3>2 DEF Gate!gate
    <3>3. CASE generation # 0 /\ generation' = 0
      BY <3>1, <3>3 DEF Gate!Next, Gate!Shut
    <3> QED BY <3>1, <3>2, <3>3
  <2>2. CASE GateStays
    BY <2>2 DEF GateStays, Gate!gate
  <2>3. CASE Acknowledges
    <3>1. CASE active
      <4>1. ~latched
        BY <2>0, <3>1 DEF GateIsGuarded
      <4>2. latched' = latched
        BY <2>0, <2>3, <3>1 DEF Acknowledges
      <4> QED BY <2>3, <4>2 DEF Acknowledges, Gate!gate
    <3>2. CASE ~active
      BY <2>0, <2>3, <3>2 DEF Acknowledges, Gate!Next, Gate!Acknowledge
    <3> QED BY <3>1, <3>2
  <2>4. CASE Unkeys
    <3>1. generation' = 0
      BY <2>0, <2>4 DEF GateIsGuarded, Unkeys, Closed
    <3>2. CASE active /\ latched' = TRUE
      BY <2>4, <3>1, <3>2 DEF Unkeys, Gate!Next, Gate!Trip
    <3>3. CASE active /\ UNCHANGED latched
      BY <2>4, <3>1, <3>3 DEF Unkeys, Gate!Next, Gate!Release
    <3>4. CASE ~active /\ UNCHANGED latched
      <4>1. generation = 0 /\ active' = active
        BY <2>0, <2>4, <3>4 DEF GateIsGuarded, Unkeys
      <4> QED BY <2>4, <3>1, <3>4, <4>1 DEF Unkeys, Gate!gate
    <3> QED BY <2>4, <3>2, <3>3, <3>4 DEF Unkeys
  <2>5. ASSUME NEW k \in {"sstv", "ft"}, ArmGuard(k), Arms(Head(toIo).generation)
        PROVE  [Gate!Next]_(Gate!gate)
    <3>1. Head(toIo).generation \in 1..MaxGeneration
      BY <2>0, <2>5, TakesBegin DEF Generations, ArmGuard
    <3>2. ~active /\ ~latched /\ latched' = latched
      BY <2>0, <2>5 DEF Arms, GateIsGuarded
    <3>3. Gate!Open(Head(toIo).generation)
      BY <2>5, <3>2 DEF Arms, Gate!Open
    <3> QED BY <3>1, <3>3 DEF Gate!Next
  <2>8. CASE Releases /\ SlotLost
    <3>1. active /\ generation' = 0
      BY <2>0, <2>8 DEF GateIsGuarded, Releases, Closed
    <3> QED BY <2>8, <3>1 DEF Releases, Gate!Next, Gate!Release
  <2>9. CASE Opens
    BY <2>9 DEF Opens, Gate!gate
  <2>6. CASE IoThread
    BY <2>0, <2>2, <2>3, <2>4, <2>5, <2>6, <2>8, <2>9, IoGateCases
  <2>7. CASE UNCHANGED vars
    BY <2>7 DEF vars, shared, ioVars, ioData, guard, Gate!gate
  <2> QED BY <2>1, <2>6, <2>7 DEF Next
<1> QED BY <1>1, <1>2, Inductive, PTL DEF Spec, GateSpec, Gate!Spec

(***************************************************************************)
(* What posting and taking calls does to what a queue holds                *)
(***************************************************************************)
LEMMA CallPosted ==
    ASSUME NEW N, NEW q \in Seq(Posted(N)), NEW name \in N, NEW g \in GenerationOrNone,
           NEW names
    PROVE  /\ Gens(q \o Call(name, g), names) = IF name \in names THEN Gens(q, names) \union {g}
                                                 ELSE Gens(q, names)
           /\ Distinct(q, names) /\ (name \in names => g \notin Gens(q, names))
              => Distinct(q \o Call(name, g), names)
<1> DEFINE c == [name |-> name, generation |-> g, frame |-> 0]
<1>1. c \in Posted(N) /\ q \o Call(name, g) = Append(q, c)
  BY CallIs
<1>2. c.name = name /\ c.generation = g
  OBVIOUS
<1> HIDE DEF c
<1>3. Gens(Append(q, c), names) = IF c.name \in names THEN Gens(q, names) \union {c.generation}
                                                      ELSE Gens(q, names)
  BY <1>1, GensAppend
<1>4. ASSUME Distinct(q, names), c.name \in names => c.generation \notin Gens(q, names)
      PROVE  Distinct(Append(q, c), names)
  BY <1>1, <1>4, DistinctAppend
<1> QED BY <1>1, <1>2, <1>3, <1>4

(* A call to the UI thread, and the generations on their way to it.        *)
LEMMA UiPosted ==
    ASSUME Typed, NEW name \in UiCalls, NEW g \in GenerationOrNone,
           toUi' = toUi \o Call(name, g)
    PROVE  \A names :
               /\ Gens(toUi', names) = IF name \in names THEN Gens(toUi, names) \union {g}
                                                         ELSE Gens(toUi, names)
               /\ Distinct(toUi, names) /\ (name \in names => g \notin Gens(toUi, names))
                  => Distinct(toUi', names)
BY QueueTypes, CallPosted

(* The same for the audio thread.                                          *)
LEMMA AudioPosted ==
    ASSUME Typed, NEW name \in AudioCalls, NEW g \in GenerationOrNone,
           toAudio' = toAudio \o Call(name, g)
    PROVE  \A names :
               /\ Gens(toAudio', names) = IF name \in names THEN Gens(toAudio, names) \union {g}
                                                            ELSE Gens(toAudio, names)
               /\ Distinct(toAudio, names) /\ (name \in names => g \notin Gens(toAudio, names))
                  => Distinct(toAudio', names)
BY QueueTypes, CallPosted

(* The same for the I/O thread.                                            *)
LEMMA IoPosted ==
    ASSUME Typed, NEW name \in IoCalls, NEW g \in GenerationOrNone,
           toIo' = toIo \o Call(name, g)
    PROVE  \A names :
               /\ Gens(toIo', names) = IF name \in names THEN Gens(toIo, names) \union {g}
                                                         ELSE Gens(toIo, names)
               /\ Distinct(toIo, names) /\ (name \in names => g \notin Gens(toIo, names))
                  => Distinct(toIo', names)
BY QueueTypes, CallPosted

(* The same for a packet.                                                  *)
LEMMA IoPacketPosted ==
    ASSUME Typed, NEW g \in GenerationOrNone, NEW n \in 0..Frames,
           toIo' = toIo \o Packet(g, n)
    PROVE  \A names :
               /\ Gens(toIo', names) = IF "packet" \in names THEN Gens(toIo, names) \union {g}
                                                             ELSE Gens(toIo, names)
               /\ "packet" \notin names /\ Distinct(toIo, names) => Distinct(toIo', names)
<1> DEFINE c == [name |-> "packet", generation |-> g, frame |-> n]
<1>1. c \in Posted(IoCalls) /\ toIo' = Append(toIo, c) /\ toIo \in Seq(Posted(IoCalls))
  <2>1. "packet" \in IoCalls
    BY DEF IoCalls
  <2> QED BY <2>1, QueueTypes, PacketIs
<1>2. c.name = "packet" /\ c.generation = g
  OBVIOUS
<1> HIDE DEF c
<1> QED BY <1>1, <1>2, GensAppend, DistinctAppend

(* A call the UI thread takes, and the generations left behind it.         *)
LEMMA UiTook ==
    ASSUME Typed, NEW name, UiTakes(name)
    PROVE  /\ Head(toUi).generation \in GenerationOrNone
           /\ \A names :
               /\ Gens(toUi, names) = IF name \in names
                                      THEN Gens(toUi', names) \union {Head(toUi).generation}
                                      ELSE Gens(toUi', names)
               /\ Distinct(toUi, names) =>
                      /\ Distinct(toUi', names)
                      /\ name \in names => Head(toUi).generation \notin Gens(toUi', names)
<1>1. /\ toUi \in Seq(Posted(UiCalls)) /\ toUi # <<>> /\ Head(toUi).name = name
      /\ toUi' = Tail(toUi) /\ Head(toUi).generation \in GenerationOrNone
  BY QueueTypes, TakenIs DEF UiTakes
<1>2. ASSUME NEW names
      PROVE  /\ Gens(toUi, names) = IF Head(toUi).name \in names
                             THEN Gens(Tail(toUi), names) \union {Head(toUi).generation}
                             ELSE Gens(Tail(toUi), names)
             /\ Distinct(toUi, names) =>
                      /\ Distinct(Tail(toUi), names)
                      /\ Head(toUi).name \in names
                         => Head(toUi).generation \notin Gens(Tail(toUi), names)
  BY <1>1, GensTail, DistinctTail
<1> QED BY <1>1, <1>2

(* The same for the audio thread.                                          *)
LEMMA AudioTook ==
    ASSUME Typed, NEW name, AudioTakes(name)
    PROVE  /\ Head(toAudio).generation \in GenerationOrNone
           /\ \A names :
               /\ Gens(toAudio, names) = IF name \in names
                                      THEN Gens(toAudio', names) \union {Head(toAudio).generation}
                                      ELSE Gens(toAudio', names)
               /\ Distinct(toAudio, names) =>
                      /\ Distinct(toAudio', names)
                      /\ name \in names => Head(toAudio).generation \notin Gens(toAudio', names)
<1>1. /\ toAudio \in Seq(Posted(AudioCalls)) /\ toAudio # <<>> /\ Head(toAudio).name = name
      /\ toAudio' = Tail(toAudio) /\ Head(toAudio).generation \in GenerationOrNone
  BY QueueTypes, TakenIs DEF AudioTakes
<1>2. ASSUME NEW names
      PROVE  /\ Gens(toAudio, names) = IF Head(toAudio).name \in names
                             THEN Gens(Tail(toAudio), names) \union {Head(toAudio).generation}
                             ELSE Gens(Tail(toAudio), names)
             /\ Distinct(toAudio, names) =>
                      /\ Distinct(Tail(toAudio), names)
                      /\ Head(toAudio).name \in names
                         => Head(toAudio).generation \notin Gens(Tail(toAudio), names)
  BY <1>1, GensTail, DistinctTail
<1> QED BY <1>1, <1>2

(* The same for the I/O thread.                                            *)
LEMMA IoTook ==
    ASSUME Typed, NEW name, IoTakes(name)
    PROVE  /\ Head(toIo).generation \in GenerationOrNone
           /\ \A names :
               /\ Gens(toIo, names) = IF name \in names
                                      THEN Gens(toIo', names) \union {Head(toIo).generation}
                                      ELSE Gens(toIo', names)
               /\ Distinct(toIo, names) =>
                      /\ Distinct(toIo', names)
                      /\ name \in names => Head(toIo).generation \notin Gens(toIo', names)
<1>1. /\ toIo \in Seq(Posted(IoCalls)) /\ toIo # <<>> /\ Head(toIo).name = name
      /\ toIo' = Tail(toIo) /\ Head(toIo).generation \in GenerationOrNone
  BY QueueTypes, TakenIs DEF IoTakes
<1>2. ASSUME NEW names
      PROVE  /\ Gens(toIo, names) = IF Head(toIo).name \in names
                             THEN Gens(Tail(toIo), names) \union {Head(toIo).generation}
                             ELSE Gens(Tail(toIo), names)
             /\ Distinct(toIo, names) =>
                      /\ Distinct(Tail(toIo), names)
                      /\ Head(toIo).name \in names
                         => Head(toIo).generation \notin Gens(Tail(toIo), names)
  BY <1>1, GensTail, DistinctTail
<1> QED BY <1>1, <1>2

(* What the I/O thread does to the queues of the other threads.            *)
LEMMA IoMoves ==
    ASSUME IInv, IoThread
    PROVE  /\ UNCHANGED <<sstvActive, uiVars, audioVars>>
           /\ scheduledGeneration' \in {0, scheduledGeneration}
           /\ \/ UNCHANGED toUi
              \/ \E name \in {"failed", "accepted", "keyRequested", "disconnected"},
                    g \in GenerationOrNone : toUi' = toUi \o Call(name, g)
           /\ \/ UNCHANGED toAudio
              \/ \E name \in {"cancel", "accepted", "keyed", "unkeyed"},
                    g \in GenerationOrNone : toAudio' = toAudio \o Call(name, g)
           /\ UNCHANGED toIo \/ \E name : IoTakes(name)
<1> DEFINE UiOk == \/ UNCHANGED toUi
                   \/ \E name \in {"failed", "accepted", "keyRequested", "disconnected"},
                         g \in GenerationOrNone : toUi' = toUi \o Call(name, g)
           AudioOk == \/ UNCHANGED toAudio
                      \/ \E name \in {"cancel", "accepted", "keyed", "unkeyed"},
                            g \in GenerationOrNone : toAudio' = toAudio \o Call(name, g)
           Ok == /\ scheduledGeneration' \in {0, scheduledGeneration}
                 /\ UiOk /\ AudioOk
                 /\ UNCHANGED toIo \/ \E name : IoTakes(name)
<1>0. /\ Typed /\ 0 \in GenerationOrNone /\ myGeneration \in GenerationOrNone
      /\ Generations \subseteq GenerationOrNone
  BY NumberTypes DEF IInv
<1>h. \A name : IoTakes(name) => Head(toIo).generation \in GenerationOrNone
  BY <1>0, IoTake
<1>1. \A k : \A g \in GenerationOrNone : ReportFailure(g, k) => UiOk /\ AudioOk
  BY DEF ReportFailure
<1>2. \A g \in GenerationOrNone : ReportAccepted(g) => UiOk /\ AudioOk
  BY DEF ReportAccepted
<1>3. TripGuard => UiOk /\ AudioOk /\ UNCHANGED scheduledGeneration
  BY <1>0, <1>1 DEF TripGuard
<1>4. ASSUME TakeAcknowledge \/ TakeStop PROVE Ok
  BY <1>4 DEF TakeAcknowledge, TakeStop, shared
<1>5. ASSUME TakeStopFt PROVE Ok
  <2>1. Head(toIo).generation \in GenerationOrNone
    BY <1>5, <1>h DEF TakeStopFt
  <2> QED BY <1>5, <2>1 DEF TakeStopFt, Unscheduled
<1>6. ASSUME PacketTaken PROVE Ok
  <2>1. Head(toIo).generation \in GenerationOrNone /\ IoTakes("packet")
    BY <1>6, <1>h DEF PacketTaken, PacketDropped, PacketTrips, PacketHeard
  <2>2. UiOk /\ AudioOk /\ UNCHANGED scheduledGeneration
    <3>1. UNCHANGED <<toUi, toAudio>> => UiOk /\ AudioOk
      OBVIOUS
    <3> HIDE DEF UiOk, AudioOk
    <3> QED BY <1>2, <1>3, <1>6, <2>1, <3>1
            DEF PacketTaken, PacketDropped, PacketTrips, PacketHeard, shared
  <2> QED BY <2>1, <2>2
<1>7. ASSUME NEW k \in {"sstv", "ft"}, RefuseBegin(k) \/ ArmGuard(k) PROVE Ok
  <2>1. Head(toIo).generation \in GenerationOrNone /\ IoTakes(BeginCall(k))
    BY <1>7, <1>h DEF RefuseBegin, ArmGuard
  <2>2. UiOk /\ AudioOk /\ UNCHANGED scheduledGeneration
    BY <1>1, <1>7, <2>1 DEF RefuseBegin, ArmGuard, shared
  <2> QED BY <2>1, <2>2
<1>12. ASSUME Busies \/ SlotLost PROVE Ok
  BY <1>12, BusyIs, SlotLostIs DEF shared, queues
<1>13. ASSUME KeyRadio PROVE Ok
  BY <1>0, <1>13 DEF KeyRadio, shared
<1>8. ASSUME TripCancelled \/ TripOnReadings PROVE Ok
  BY <1>3, <1>8 DEF TripCancelled, TripOnReadings
<1>9. ASSUME NEW g \in Generations, DrainPoll(g) PROVE Ok
  BY <1>0, <1>2, <1>9 DEF DrainPoll, shared
<1>10. ASSUME ConnectionLost \/ Reconnected PROVE Ok
  BY <1>0, <1>10 DEF ConnectionLost, Reconnected, queues
<1>11. Ok
  BY <1>4, <1>5, <1>6, <1>7, <1>8, <1>9, <1>10, <1>12, <1>13, IoActsIs DEF IoActs
<1> QED BY <1>11, OthersKept

(***************************************************************************)
(* The life of an FT8/FT4 over: it is scheduled, then with the             *)
(* transmitter, then reported as ended, and in one of these places only.   *)
(***************************************************************************)
EndCalls == {"finished", "finishedWell"}
Ended == Gens(toUi, EndCalls)

OneOver ==
    /\ Scheduled \union FtOver \union Ended \subseteq {ft} \ {0}
    /\ Scheduled = {} \/ phase = "idle"
    /\ Ended = {} \/ (Scheduled = {} /\ phase = "idle")
    /\ Distinct(toAudio, {"schedule"}) /\ Distinct(toUi, EndCalls)
    /\ scheduledGeneration \in {0, ft}
    /\ SstvBusy => ft = 0
    /\ ftEncoding # 0 =>
           phase \in {"audio", "drain", "unkeying"} /\ ftEncoding = txGeneration
    /\ inside = "tick" => phase # "idle"

(* Moves of a queue that add no call of those names.                       *)
UiWithout(names) ==
    \/ UNCHANGED toUi \/ \E name : UiTakes(name)
    \/ \E name \in UiCalls \ names, g \in GenerationOrNone : toUi' = toUi \o Call(name, g)
AudioWithout(names) ==
    \/ UNCHANGED toAudio \/ \E name : AudioTakes(name)
    \/ \E name \in AudioCalls \ names, g \in GenerationOrNone :
           toAudio' = toAudio \o Call(name, g)
IoWithout(names) ==
    \/ UNCHANGED toIo \/ \E name : IoTakes(name)
    \/ \E name \in IoCalls \ names, g \in GenerationOrNone : toIo' = toIo \o Call(name, g)
    \/ /\ "packet" \notin names
       /\ \E g \in GenerationOrNone, n \in 0..Frames : toIo' = toIo \o Packet(g, n)

(* No call of these names comes to the UI thread.                          *)
LEMMA UiKept ==
    ASSUME Typed, NEW names, UiWithout(names)
    PROVE  /\ Gens(toUi', names) \subseteq Gens(toUi, names)
           /\ Distinct(toUi, names) => Distinct(toUi', names)
<1>1. CASE UNCHANGED toUi
  BY <1>1
<1>2. ASSUME NEW name, UiTakes(name)
      PROVE  /\ Gens(toUi', names) \subseteq Gens(toUi, names)
             /\ Distinct(toUi, names) => Distinct(toUi', names)
  BY <1>2, UiTook
<1>3. ASSUME NEW name \in UiCalls \ names, NEW g \in GenerationOrNone,
             toUi' = toUi \o Call(name, g)
      PROVE  /\ Gens(toUi', names) \subseteq Gens(toUi, names)
             /\ Distinct(toUi, names) => Distinct(toUi', names)
  BY <1>3, UiPosted
<1> QED BY <1>1, <1>2, <1>3 DEF UiWithout

(* The same for the audio thread.                                          *)
LEMMA AudioKept ==
    ASSUME Typed, NEW names, AudioWithout(names)
    PROVE  /\ Gens(toAudio', names) \subseteq Gens(toAudio, names)
           /\ Distinct(toAudio, names) => Distinct(toAudio', names)
<1>1. CASE UNCHANGED toAudio
  BY <1>1
<1>2. ASSUME NEW name, AudioTakes(name)
      PROVE  /\ Gens(toAudio', names) \subseteq Gens(toAudio, names)
             /\ Distinct(toAudio, names) => Distinct(toAudio', names)
  BY <1>2, AudioTook
<1>3. ASSUME NEW name \in AudioCalls \ names, NEW g \in GenerationOrNone,
             toAudio' = toAudio \o Call(name, g)
      PROVE  /\ Gens(toAudio', names) \subseteq Gens(toAudio, names)
             /\ Distinct(toAudio, names) => Distinct(toAudio', names)
  BY <1>3, AudioPosted
<1> QED BY <1>1, <1>2, <1>3 DEF AudioWithout

(* The same for the I/O thread.                                            *)
LEMMA IoKept ==
    ASSUME Typed, NEW names, IoWithout(names)
    PROVE  /\ Gens(toIo', names) \subseteq Gens(toIo, names)
           /\ Distinct(toIo, names) => Distinct(toIo', names)
<1>1. CASE UNCHANGED toIo
  BY <1>1
<1>2. ASSUME NEW name, IoTakes(name)
      PROVE  /\ Gens(toIo', names) \subseteq Gens(toIo, names)
             /\ Distinct(toIo, names) => Distinct(toIo', names)
  BY <1>2, IoTook
<1>3. ASSUME NEW name \in IoCalls \ names, NEW g \in GenerationOrNone,
             toIo' = toIo \o Call(name, g)
      PROVE  /\ Gens(toIo', names) \subseteq Gens(toIo, names)
             /\ Distinct(toIo, names) => Distinct(toIo', names)
  BY <1>3, IoPosted
<1>4. ASSUME "packet" \notin names, NEW g \in GenerationOrNone, NEW n \in 0..Frames,
             toIo' = toIo \o Packet(g, n)
      PROVE  /\ Gens(toIo', names) \subseteq Gens(toIo, names)
             /\ Distinct(toIo, names) => Distinct(toIo', names)
  BY <1>4, IoPacketPosted
<1> QED BY <1>1, <1>2, <1>3, <1>4 DEF IoWithout

(* No end of an over is reported.                                          *)
LEMMA EndsKept ==
    ASSUME Typed, UiWithout(EndCalls)
    PROVE  /\ Ended' \subseteq Ended
           /\ Distinct(toUi, EndCalls) => Distinct(toUi', EndCalls)
BY UiKept DEF Ended

(* No over is scheduled.                                                   *)
LEMMA SchedulesKept ==
    ASSUME Typed, AudioWithout({"schedule"})
    PROVE  /\ Scheduled' \subseteq Scheduled
           /\ Distinct(toAudio, {"schedule"}) => Distinct(toAudio', {"schedule"})
BY AudioKept DEF Scheduled

(* Where none begins, none ends and the transmitter stands still.          *)
LEMMA OneOverKept ==
    ASSUME Typed, OneOver, UiWithout(EndCalls), AudioWithout({"schedule"}),
           UNCHANGED <<ft, phase, txGeneration, ftEncoding>>,
           scheduledGeneration' \in {0, scheduledGeneration},
           SstvBusy' => SstvBusy,
           inside' = "tick" => phase # "idle"
    PROVE  OneOver'
<1>1. FtOver' = FtOver
  BY DEF FtOver
<1> QED BY <1>1, EndsKept, SchedulesKept DEF OneOver

(* The UI thread schedules an over only when it has none.                  *)
LEMMA UiOneOver ==
    ASSUME IInv, OneOver, UiThread
    PROVE  OneOver'
<1>0. /\ Typed /\ Generations \subseteq GenerationOrNone
      /\ lastGeneration \in GenerationOrNone /\ ft \in GenerationOrNone /\ 0 \in GenerationOrNone
  BY NumberTypes DEF IInv
<1>a. UNCHANGED <<phase, txGeneration, ftEncoding, inside>>
  BY OthersKept DEF audioVars, ftVars
<1>q. UNCHANGED toUi \/ UiQuietTake => UiWithout(EndCalls)
  BY DEF UiWithout, UiQuietTake
<1>r. \A name \in {"prepare", "beginSstv", "stopSstv", "cancel"}, g \in GenerationOrNone :
         toAudio' = toAudio \o Call(name, g) => AudioWithout({"schedule"})
  BY DEF AudioWithout, AudioCalls
<1>s. UNCHANGED toAudio => AudioWithout({"schedule"})
  BY DEF AudioWithout
<1>t. inside' = "tick" => phase # "idle"
  BY <1>a DEF OneOver
<1>1. CASE StartSstv
  <2>1. /\ ft = 0 /\ UNCHANGED <<ft, scheduledGeneration>> /\ UiWithout(EndCalls)
        /\ toAudio' = toAudio \o Call("prepare", Issued)
    BY <1>1, <1>q DEF StartSstv, shared
  <2>2. Issued \in GenerationOrNone
    BY <1>1, IssuedIs DEF StartSstv, IInv
  <2>3. AudioWithout({"schedule"})
    BY <1>r, <2>1, <2>2
  <2>4. FtOver' = FtOver
    BY <1>a DEF FtOver
  <2> QED BY <1>0, <1>a, <1>t, <2>1, <2>3, <2>4, EndsKept, SchedulesKept DEF OneOver
<1>2. CASE UiStopsSstv
  <2>1. /\ UNCHANGED <<ft, scheduledGeneration>> /\ ~SstvBusy'
        /\ UiWithout(EndCalls) /\ AudioWithout({"schedule"})
    BY <1>0, <1>2, <1>q, <1>r DEF UiStopsSstv, StopSstv, SstvBusy
  <2> QED BY <1>0, <1>a, <1>t, <2>1, OneOverKept
<1>3. CASE OnPrepared
  <2>1. /\ UNCHANGED <<ft, scheduledGeneration>> /\ UiWithout(EndCalls) /\ AudioWithout({"schedule"})
        /\ SstvBusy' => SstvBusy
    BY <1>3, <1>s DEF OnPrepared, UiWithout, shared, SstvBusy
  <2> QED BY <1>0, <1>a, <1>t, <2>1, OneOverKept
<1>4. ASSUME NEW g \in Generations, DrainElapsed(g) PROVE OneOver'
  <2>1. /\ UNCHANGED <<ft, scheduledGeneration>> /\ UiWithout(EndCalls) /\ AudioWithout({"schedule"})
        /\ SstvBusy' => SstvBusy
    BY <1>4, <1>q, <1>s DEF DrainElapsed, shared, SstvBusy
  <2> QED BY <1>0, <1>a, <1>t, <2>1, OneOverKept
<1>5. CASE UiPasses
  <2>1. /\ UNCHANGED <<ft, scheduledGeneration>> /\ UiWithout(EndCalls) /\ AudioWithout({"schedule"})
        /\ SstvBusy' => SstvBusy
    BY <1>0, <1>5, <1>q, <1>r, <1>s DEF UiPasses, shared, SstvBusy
  <2> QED BY <1>0, <1>a, <1>t, <2>1, OneOverKept
<1>6. CASE UiStopsFt
  <2>1. /\ UNCHANGED <<ft, sstv>> /\ UiWithout(EndCalls) /\ AudioWithout({"schedule"})
        /\ scheduledGeneration' \in {0, scheduledGeneration}
    BY <1>0, <1>6, <1>q, <1>r DEF UiStopsFt, StopFt, Unscheduled
  <2> QED BY <1>0, <1>a, <1>t, <2>1, OneOverKept DEF SstvBusy
<1>7. ASSUME NEW operator \in BOOLEAN, StartFt(operator) PROVE OneOver'
  <2>1. /\ ft = 0 /\ ~SstvBusy /\ ft' = Issued /\ scheduledGeneration' = Issued
        /\ UNCHANGED <<toUi, sstv>>
        /\ toAudio' = toAudio \o Call("schedule", Issued)
    BY <1>7 DEF StartFt, SstvBusy
  <2>2. Issued \in GenerationOrNone /\ Issued # 0
    BY <1>7, IssuedIs DEF StartFt, IInv
  <2>3. Scheduled = {} /\ Ended = {} /\ FtOver = {} /\ phase = "idle" /\ ftEncoding = 0
    <3>1. FtOver = {}
      BY <2>1 DEF OneOver
    <3>2. phase = "idle"
      BY <3>1 DEF FtOver
    <3> QED BY <2>1, <3>1, <3>2 DEF OneOver
  <2>4. Scheduled' = {Issued} /\ Distinct(toAudio', {"schedule"})
    <3>1. "schedule" \in AudioCalls
      BY DEF AudioCalls
    <3> QED BY <1>0, <2>1, <2>2, <2>3, <3>1, AudioPosted DEF Scheduled, OneOver
  <2>5. Ended' = {} /\ Distinct(toUi', EndCalls) /\ FtOver' = {}
    BY <1>a, <2>1, <2>3 DEF Ended, OneOver, FtOver
  <2> QED BY <1>a, <1>t, <2>1, <2>2, <2>3, <2>4, <2>5 DEF OneOver, SstvBusy
<1>8. CASE OnFinished
  <2> DEFINE g == Head(toUi).generation
  <2>1. PICK name \in EndCalls : UiTakes(name)
    BY <1>8 DEF OnFinished, EndCalls
  <2>2. g \in Ended /\ g \notin Ended' /\ Ended' \subseteq Ended /\ Distinct(toUi', EndCalls)
    BY <1>0, <2>1, UiTook DEF Ended, OneOver
  <2>3. g = ft /\ ft # 0 /\ Ended' = {} /\ Scheduled = {} /\ phase = "idle" /\ ftEncoding = 0
    BY <2>2 DEF OneOver
  <2>4. /\ ft' = 0 /\ scheduledGeneration' = 0
        /\ UNCHANGED <<toAudio, sstv>>
    BY <1>8, <2>3 DEF OnFinished, Unscheduled, OneOver
  <2>5. Scheduled' = {} /\ Distinct(toAudio', {"schedule"}) /\ FtOver' = {}
    BY <1>a, <2>3, <2>4 DEF Scheduled, OneOver, FtOver
  <2> HIDE DEF g
  <2> QED BY <1>a, <1>t, <2>2, <2>3, <2>4, <2>5 DEF OneOver, SstvBusy
<1> QED BY <1>1, <1>2, <1>3, <1>4, <1>5, <1>6, <1>7, <1>8, UiCases

(* The transmitter reports the over it had as ended.                       *)
LEMMA OverEnds ==
    ASSUME Typed, OneOver, phase # "idle", phase' = "idle",
           NEW name \in EndCalls, toUi' = toUi \o Call(name, txGeneration),
           AudioWithout({"schedule"}), ftEncoding' = EncodingFinished, ft' = ft, SstvBusy' = SstvBusy,
           scheduledGeneration' \in {0, scheduledGeneration}, inside' # "tick"
    PROVE  OneOver'
<1>1. /\ txGeneration = ft /\ ft # 0 /\ Scheduled = {} /\ Ended = {}
      /\ txGeneration \in GenerationOrNone
  BY NumberTypes DEF OneOver, FtOver
<1>2. name \in UiCalls
  BY DEF EndCalls, UiCalls
<1>3. Ended' = {ft} /\ Distinct(toUi', EndCalls)
  BY <1>1, <1>2, UiPosted DEF Ended, OneOver
<1>4. Scheduled' = {} /\ Distinct(toAudio', {"schedule"})
  BY <1>1, SchedulesKept DEF OneOver
<1>5. FtOver' = {} /\ ftEncoding' = 0
  BY DEF FtOver, EncodingFinished, OneOver
<1> QED BY <1>1, <1>3, <1>4, <1>5 DEF OneOver

(* The transmitter takes an over, and reports its end as it drops it.      *)
LEMMA AudioOneOver ==
    ASSUME IInv, OneOver, AudioThread
    PROVE  OneOver'
<1>0. /\ Typed /\ txGeneration \in GenerationOrNone /\ sstvGeneration \in GenerationOrNone
      /\ Label \in GenerationOrNone
  BY NumberTypes DEF IInv
<1>a. UNCHANGED <<ft, sstv>> /\ SstvBusy' = SstvBusy
  BY OthersKept DEF uiVars, SstvBusy
<1>u. UNCHANGED toUi => UiWithout(EndCalls)
  BY DEF UiWithout
<1>p. \A name \in {"prepared", "notPrepared", "failed"}, g \in GenerationOrNone :
          toUi' = toUi \o Call(name, g) => UiWithout(EndCalls)
  BY DEF UiWithout, UiCalls, EndCalls
<1>t. \A name : AudioTakes(name) => AudioWithout({"schedule"}) /\ inside = "loop"
  BY DEF AudioWithout, AudioTakes
<1>s. UNCHANGED toAudio => AudioWithout({"schedule"})
  BY DEF AudioWithout
<1>1. ASSUME Fail, phase # "idle", AudioWithout({"schedule"}) PROVE OneOver'
  <2>1. "finished" \in EndCalls
    BY DEF EndCalls
  <2>2. /\ phase' = "idle" /\ toUi' = toUi \o Call("finished", txGeneration)
        /\ ftEncoding' = EncodingFinished /\ inside' # "tick"
        /\ scheduledGeneration' \in {0, scheduledGeneration}
    BY <1>1 DEF Fail, Unscheduled
  <2> QED BY <1>0, <1>1, <1>a, <2>1, <2>2, OverEnds
<1>2. CASE TakePrepare
  <2>1. Head(toAudio).generation \in GenerationOrNone /\ AudioTakes("prepare")
    BY <1>0, <1>2, AudioTook DEF TakePrepare
  <2>2. /\ UNCHANGED <<phase, txGeneration, ftEncoding, inside, scheduledGeneration>>
        /\ UiWithout(EndCalls)
    BY <1>2, <1>p, <2>1 DEF TakePrepare, shared, ftVars
  <2> QED BY <1>0, <1>a, <1>t, <2>1, <2>2, OneOverKept
<1>3. CASE TakeBeginSstv \/ TakeStopSstv \/ TakeKeyed \/ TakeAccepted
  <2>1. /\ UNCHANGED <<phase, txGeneration, ftEncoding, scheduledGeneration, toUi>>
        /\ inside' # "tick" /\ AudioWithout({"schedule"})
    BY <1>3, <1>t DEF TakeBeginSstv, TakeStopSstv, TakeKeyed, TakeAccepted, shared, ftVars
  <2> QED BY <1>0, <1>a, <1>u, <2>1, OneOverKept
<1>4. CASE Launch \/ Pacer \/ PostImage
  <2>1. /\ UNCHANGED <<phase, txGeneration, ftEncoding, scheduledGeneration, toAudio>>
        /\ inside' # "tick" /\ UiWithout(EndCalls)
    BY <1>0, <1>4, <1>u, <1>p DEF Launch, Pacer, PostImage, queues, ftVars
  <2> QED BY <1>0, <1>a, <1>s, <2>1, OneOverKept
<1>5. CASE TakeSchedule
  <2> DEFINE g == Head(toAudio).generation
  <2>1. /\ g \in GenerationOrNone /\ g \in Scheduled /\ g \notin Scheduled'
        /\ Scheduled' \subseteq Scheduled /\ Distinct(toAudio', {"schedule"})
        /\ inside = "loop"
    BY <1>0, <1>5, <1>t, AudioTook DEF TakeSchedule, Scheduled, OneOver
  <2>2. g = ft /\ ft # 0 /\ Scheduled' = {} /\ phase = "idle" /\ Ended = {} /\ ftEncoding = 0
    BY <2>1 DEF OneOver
  <2>3. UNCHANGED <<scheduledGeneration, ftEncoding, inside>>
    BY <1>5 DEF TakeSchedule, shared
  <2>4. CASE toUi' = toUi \o Call("finished", g) /\ UNCHANGED <<phase, txGeneration>>
    <3>1. "finished" \in UiCalls /\ "finished" \in EndCalls
      BY DEF UiCalls, EndCalls
    <3>2. Ended' = {g} /\ Distinct(toUi', EndCalls)
      <4> HIDE DEF g
      <4> QED BY <1>0, <2>1, <2>2, <2>4, <3>1, UiPosted DEF Ended, OneOver
    <3>3. FtOver' = {}
      BY <2>2, <2>4 DEF FtOver
    <3> QED BY <1>a, <2>1, <2>2, <2>3, <2>4, <3>2, <3>3 DEF OneOver
  <2>5. CASE UNCHANGED toUi /\ phase' = "waiting" /\ txGeneration' = g
    <3>1. Ended' = {} /\ Distinct(toUi', EndCalls)
      BY <2>2, <2>5 DEF Ended, OneOver
    <3>2. FtOver' = {g}
      BY <2>5 DEF FtOver
    <3> QED BY <1>a, <2>1, <2>2, <2>3, <2>5, <3>1, <3>2 DEF OneOver
  <2> QED BY <1>5, <2>4, <2>5 DEF TakeSchedule, RefuseSchedule
<1>6. CASE TakeCancel
  <2>1. AudioWithout({"schedule"}) /\ inside = "loop"
    BY <1>6, <1>t DEF TakeCancel
  <2>2. CASE Fail /\ phase # "idle"
    BY <1>1, <2>1, <2>2
  <2>3. CASE UNCHANGED <<shared, toUi, toIo, uiVars, ioVars, audioVars>>
    BY <1>0, <1>a, <1>u, <2>1, <2>3, OneOverKept DEF shared, audioVars, ftVars
  <2> QED BY <1>6, <2>2, <2>3 DEF TakeCancel
<1>7. CASE TakeUnkeyed
  <2>1. AudioWithout({"schedule"}) /\ inside = "loop"
       /\ UNCHANGED <<inside, txGeneration, scheduledGeneration>>
    BY <1>7, <1>t DEF TakeUnkeyed, shared
  <2>2. CASE UNCHANGED <<phase, ftEncoding, toUi>>
    BY <1>0, <1>a, <1>u, <2>1, <2>2, OneOverKept
  <2>3. CASE ~UNCHANGED <<phase, ftEncoding, toUi>>
    <3>1. /\ phase # "idle" /\ phase' = "idle" /\ ftEncoding' = EncodingFinished
          /\ toUi' = toUi \o Call("finishedWell", txGeneration)
      BY <1>7, <2>3 DEF TakeUnkeyed, Mine
    <3>2. "finishedWell" \in EndCalls
      BY DEF EndCalls
    <3> QED BY <1>0, <1>a, <2>1, <3>1, <3>2, OverEnds
  <2> QED BY <2>2, <2>3
<1>8. CASE TickFails
  BY <1>1, <1>8, <1>s DEF TickFails
<1>9. CASE Tick \/ TickWaits
  <2>1. /\ UNCHANGED <<phase, txGeneration, ftEncoding, scheduledGeneration, toUi, toAudio>>
        /\ inside' = "tick" => phase # "idle"
    BY <1>9 DEF Tick, TickWaits, Ticks, shared, queues, ftVars
  <2> QED BY <1>0, <1>a, <1>u, <1>s, <2>1, OneOverKept
<1>10. CASE RequestKey \/ StartAudio \/ EmitFrame \/ RequestUnkey
  <2>1. /\ UNCHANGED <<txGeneration, scheduledGeneration, toUi, toAudio>>
        /\ phase # "idle" /\ inside' = "loop"
    BY <1>10 DEF RequestKey, StartAudio, EmitFrame, RequestUnkey, Ticks, shared, queues
  <2>2. phase' # "idle"
    BY <1>10 DEF RequestKey, StartAudio, EmitFrame, RequestUnkey, PhaseAfterFrame
  <2>3. ftEncoding' # 0 => phase' \in {"audio", "drain", "unkeying"} /\ ftEncoding' = txGeneration
    BY <1>10 DEF RequestKey, StartAudio, EmitFrame, RequestUnkey, Ticks, PhaseAfterFrame, OneOver
  <2>4. FtOver' = FtOver
    BY <2>1, <2>2 DEF FtOver
  <2> QED BY <1>0, <1>a, <1>u, <1>s, <2>1, <2>2, <2>3, <2>4, EndsKept, SchedulesKept DEF OneOver
<1> QED BY <1>2, <1>3, <1>4, <1>5, <1>6, <1>7, <1>8, <1>9, <1>10 DEF AudioThread

(* There is one over at a time.                                            *)
LEMMA OneOverStep == IInv /\ OneOver /\ [Next]_vars => OneOver'
<1> SUFFICES ASSUME IInv, OneOver, [Next]_vars PROVE OneOver'
  OBVIOUS
<1>0. Typed
  BY DEF IInv
<1>1. CASE IoThread
  <2>1. /\ UNCHANGED <<ft, sstv, phase, txGeneration, ftEncoding, inside>>
        /\ scheduledGeneration' \in {0, scheduledGeneration}
    BY <1>1, IoMoves DEF uiVars, audioVars, ftVars
  <2>2. UiWithout(EndCalls)
    BY <1>1, IoMoves DEF UiWithout, UiCalls, EndCalls
  <2>3. AudioWithout({"schedule"})
    BY <1>1, IoMoves DEF AudioWithout, AudioCalls
  <2>4. inside' = "tick" => phase # "idle"
    BY <2>1 DEF OneOver
  <2> QED BY <1>0, <2>1, <2>2, <2>3, <2>4, OneOverKept DEF SstvBusy
<1>2. CASE UNCHANGED vars
  <2>1. /\ UNCHANGED <<ft, sstv, phase, txGeneration, ftEncoding, inside, scheduledGeneration,
                       toUi, toAudio>>
    BY <1>2 DEF vars, shared, queues, uiVars, audioVars, ftVars
  <2>2. UiWithout(EndCalls) /\ AudioWithout({"schedule"})
    BY <2>1 DEF UiWithout, AudioWithout
  <2>3. inside' = "tick" => phase # "idle"
    BY <2>1 DEF OneOver
  <2> QED BY <1>0, <2>1, <2>2, <2>3, OneOverKept DEF SstvBusy
<1> QED BY <1>1, <1>2, UiOneOver, AudioOneOver DEF Next

(***************************************************************************)
(* What the UI thread and the audio thread do, by what the frames depend   *)
(* on.                                                                     *)
(***************************************************************************)
IoMore ==
    \/ UNCHANGED toIo
    \/ \E name \in {"acknowledge", "stop", "stopFt", "beginSstv"}, g \in GenerationOrNone :
           toIo' = toIo \o Call(name, g)

(* The UI thread sends the I/O thread no packet and no FT stream's begin.  *)
LEMMA UiMoves ==
    ASSUME IInv, UiThread
    PROVE  IoMore
<1>0. /\ Typed /\ Generations \subseteq GenerationOrNone
      /\ lastGeneration \in GenerationOrNone /\ ft \in GenerationOrNone /\ 0 \in GenerationOrNone
  BY NumberTypes DEF IInv
<1>1. StartSstv => IoMore
  BY <1>0 DEF StartSstv, IoMore
<1>2. UiStopsSstv => IoMore
  BY <1>0 DEF UiStopsSstv, StopSstv, IoMore
<1>3. ASSUME OnPrepared PROVE IoMore
  <2>1. CASE UNCHANGED toIo
    BY <2>1 DEF IoMore
  <2>2. CASE ~UNCHANGED toIo
    <3>1. UiTakes("prepared") /\ toIo' = toIo \o Call("beginSstv", Head(toUi).generation)
      BY <1>3, <2>2 DEF OnPrepared
    <3> QED BY <1>0, <3>1, UiTake DEF IoMore
  <2> QED BY <2>1, <2>2
<1>4. ASSUME NEW g \in Generations, DrainElapsed(g) PROVE IoMore
  BY <1>0, <1>4 DEF DrainElapsed, IoMore
<1>5. UiPasses => IoMore
  BY DEF UiPasses, IoMore
<1>6. UiStopsFt => IoMore
  BY <1>0 DEF UiStopsFt, StopFt, IoMore
<1>7. ASSUME NEW operator \in BOOLEAN, StartFt(operator) PROVE IoMore
  <2>1. toIo \o <<>> = toIo
    <3>1. toIo \in Seq(Posted(IoCalls))
      BY <1>0, QueueTypes
    <3> QED BY <3>1, ConcatEmptySeq
  <2> QED BY <1>0, <1>7, <2>1 DEF StartFt, IoMore
<1>8. OnFinished => IoMore
  BY DEF OnFinished, IoMore
<1> QED BY <1>1, <1>2, <1>3, <1>4, <1>5, <1>6, <1>7, <1>8, UiCases

AudioPasses ==
    /\ UNCHANGED <<scheduledGeneration, toIo, phase, txGeneration, drained, ftFrame, ftEncoding,
                   sstvGeneration, imageFrame>>
    /\ UNCHANGED toUi \/ toUi' = toUi \o Call("failed", sstvGeneration)
    /\ \/ UNCHANGED toAudio
       \/ \E name \in {"beginSstv", "stopSstv", "keyed", "cancel", "unkeyed"} :
              AudioTakes(name) /\ (name = "stopSstv" => ~sstvPrepared')
    /\ sstvPrepared' => sstvPrepared
AudioFails ==
    /\ phase # "idle" /\ Fail
    /\ UNCHANGED toAudio \/ AudioTakes("cancel")
Completes ==
    /\ AudioTakes("unkeyed")
    /\ phase = "unkeying" /\ phase' = "idle"
    /\ toUi' = toUi \o Call("finishedWell", txGeneration)
    /\ ftEncoding' = EncodingFinished
    /\ WaveCleared
    /\ UNCHANGED <<shared, toIo, txGeneration, sstvVars>>

(* What the audio thread does, by what it posts.                           *)
LEMMA AudioCases ==
    ASSUME Typed, AudioThread
    PROVE  \/ TakePrepare \/ PostImage \/ TakeSchedule \/ TakeAccepted
           \/ RequestKey \/ StartAudio \/ EmitFrame \/ RequestUnkey
           \/ AudioFails \/ Completes \/ AudioPasses
<1>1. ASSUME TakeBeginSstv \/ TakeKeyed PROVE AudioPasses
  <2>1. \E name \in {"beginSstv", "keyed"} : AudioTakes(name)
    BY <1>1 DEF TakeBeginSstv, TakeKeyed
  <2>2. UNCHANGED <<scheduledGeneration, toUi, toIo, phase, txGeneration, drained, ftFrame,
                    ftEncoding, sstvGeneration, imageFrame, sstvPrepared>>
    BY <1>1 DEF TakeBeginSstv, TakeKeyed, shared, ftVars, sstvVars
  <2> QED BY <2>1, <2>2 DEF AudioPasses
<1>2. ASSUME Launch \/ Pacer PROVE AudioPasses
  BY <1>2 DEF Launch, Pacer, AudioPasses, SstvStopped, queues, ftVars
<1>3. ASSUME TakeStopSstv PROVE AudioPasses
  BY <1>3 DEF TakeStopSstv, AudioPasses, SstvStopped, ftVars
<1>4. ASSUME Tick \/ TickWaits PROVE AudioPasses
  BY <1>4 DEF Tick, TickWaits, AudioPasses, shared, queues, ftVars, sstvVars
<1>5. ASSUME TakeCancel PROVE AudioFails \/ AudioPasses
  <2>1. AudioTakes("cancel")
    BY <1>5 DEF TakeCancel
  <2>2. CASE phase # "idle" /\ Fail
    BY <2>1, <2>2 DEF AudioFails
  <2>3. CASE UNCHANGED <<shared, toUi, toIo, uiVars, ioVars, audioVars>>
    BY <2>1, <2>3 DEF AudioPasses, shared, audioVars, ftVars, sstvVars
  <2> QED BY <1>5, <2>2, <2>3 DEF TakeCancel
<1>6. ASSUME TakeUnkeyed PROVE Completes \/ AudioPasses
  <2>1. AudioTakes("unkeyed") /\ UNCHANGED <<shared, toIo, txGeneration, sstvVars>>
    BY <1>6 DEF TakeUnkeyed
  <2>2. CASE ~Mine("unkeying")
    BY <1>6, <2>1, <2>2 DEF TakeUnkeyed, AudioPasses, shared, sstvVars
  <2>3. CASE Mine("unkeying")
    BY <1>6, <2>1, <2>3 DEF TakeUnkeyed, Mine, Completes
  <2> QED BY <2>2, <2>3
<1>7. ASSUME TickFails PROVE AudioFails
  BY <1>7 DEF TickFails, AudioFails
<1> QED BY <1>1, <1>2, <1>3, <1>4, <1>5, <1>6, <1>7 DEF AudioThread

(***************************************************************************)
(* Generations in use: a step puts a generation to another use, or issues  *)
(* a new one.                                                              *)
(***************************************************************************)
HeardGens == {h.gen : h \in heard}
Old(used, uses) == \A g \in used : g \in uses \/ lastGeneration < g

(* What was heard stays so; what is added was queued.                      *)
LEMMA HeardKept ==
    ASSUME IInv, [Next]_vars
    PROVE  /\ heard \subseteq heard'
           /\ HeardGens' \subseteq HeardGens \union Sounds
<1>1. HeardGens' \subseteq HeardGens \union Sounds
  <2> SUFFICES ASSUME NEW h \in heard', h \notin heard
               PROVE  h.gen \in Sounds
    BY DEF HeardGens
  <2>1. IoTakes("packet") /\ h.gen = Head(toIo).generation
    BY HeardIs
  <2> QED BY <2>1, IoTaken DEF IInv
<1>2. heard \subseteq heard'
  <2>1. TripGuard \/ Unkey => heard' = heard
    BY DEF TripGuard, Unkey
  <2>2. TakeStop \/ TakeStopFt \/ TripCancelled \/ TripOnReadings => heard' = heard
    BY <2>1 DEF TakeStop, TakeStopFt, TripCancelled, TripOnReadings
  <2>3. TakeAcknowledge \/ ConnectionLost \/ Reconnected => heard' = heard
    BY DEF TakeAcknowledge, ConnectionLost, Reconnected, ioVars, ioData
  <2>4. \A k : RefuseBegin(k) \/ ArmGuard(k) => heard' = heard
    BY DEF RefuseBegin, ArmGuard, ioVars, ioData
  <2>5. \A g : DrainPoll(g) => heard' = heard
    BY DEF DrainPoll
  <2>6. PacketTaken => heard \subseteq heard'
    BY <2>1 DEF PacketTaken, PacketDropped, PacketTrips, PacketHeard, ioData
  <2>7. UiThread \/ AudioThread \/ UNCHANGED vars => heard' = heard
    BY OthersKept DEF ioVars, ioData, vars
  <2>8. Busies \/ SlotLost \/ KeyRadio => heard' = heard
    BY BusyIs, SlotLostIs DEF KeyRadio, ioData
  <2> QED BY <2>2, <2>3, <2>4, <2>5, <2>6, <2>7, <2>8, IoActsIs DEF IoActs, Next
<1> QED BY <1>1, <1>2

(* A quiet step brings no generation into use.                             *)
LEMMA QuietUses ==
    ASSUME IInv, Quiet
    PROVE  /\ SstvUses' \subseteq SstvUses /\ FtUses' \subseteq FtUses \union {0}
           /\ FtBegins' \subseteq FtBegins \union FtOver
           /\ UNCHANGED <<lastGeneration, sstvGeneration>>
<1>0. OwnGenerations
  BY DEF IInv
<1>1. /\ UNCHANGED <<lastGeneration, sstvGeneration>>
      /\ SstvBusy' => SstvBusy
      /\ scheduledGeneration' \in {0, scheduledGeneration}
      /\ QuietUi /\ QuietAudio /\ QuietIo /\ QuietFt
  BY DEF Quiet
<1>2. Pending' \subseteq Pending
  BY <1>1 DEF Pending, QuietUi, QuietAudio, QuietIo
<1>3. SstvUses' \subseteq SstvUses
  BY <1>1, <1>2 DEF SstvUses, QuietIo
<1>4. FtUses' \subseteq FtUses \union {0}
  <2>1. scheduledGeneration' \in FtUses \union {0} /\ ft' \in FtUses \union {0}
        /\ ftEncoding' \in FtUses \union {0}
    BY <1>1 DEF FtUses, QuietFt
  <2>2. Scheduled' \subseteq FtUses /\ FtBegins' \subseteq FtUses /\ FtStops' \subseteq FtUses
    BY <1>0, <1>1, FtOverIs DEF FtUses, QuietAudio, QuietIo
  <2>3. phase' # "idle" => txGeneration' \in FtUses
    BY <1>1 DEF QuietFt
  <2>4. FtUses' = {scheduledGeneration', ft', ftEncoding'} \union Scheduled' \union FtBegins'
                  \union FtStops' \union (IF phase' # "idle" THEN {txGeneration'} ELSE {})
    BY DEF FtUses
  <2> QED BY <2>1, <2>2, <2>3, <2>4
<1> QED BY <1>1, <1>3, <1>4 DEF QuietIo

UsesMove ==
    /\ Old(SstvUses', SstvUses) /\ Old(FtUses', FtUses \union {0})
    /\ FtBegins' \subseteq FtBegins \union FtOver
    /\ lastGeneration <= lastGeneration'
    /\ sstvGeneration' \in {sstvGeneration} \union Asked

(* Such calls add no begin of an over and no sound.                        *)
LEMMA IoMoreKeeps ==
    ASSUME Typed, IoMore
    PROVE  FtBegins' = FtBegins /\ Sounds' = Sounds
<1>1. CASE UNCHANGED toIo
  BY <1>1 DEF FtBegins, Sounds
<1>2. ASSUME NEW name \in {"acknowledge", "stop", "stopFt", "beginSstv"},
             NEW g \in GenerationOrNone, toIo' = toIo \o Call(name, g)
      PROVE  FtBegins' = FtBegins /\ Sounds' = Sounds
  <2>1. name \in IoCalls
    BY DEF IoCalls
  <2> QED BY <1>2, <2>1, IoPosts
<1> QED BY <1>1, <1>2 DEF IoMore

(* What the UI thread brings into use it has just given out.               *)
LEMMA UiUses ==
    ASSUME IInv, UiThread
    PROVE  UsesMove
<1>0. /\ Typed /\ OwnGenerations /\ lastGeneration \in Nat /\ lastGeneration <= lastGeneration
      /\ lastGeneration \in GenerationOrNone /\ ft \in GenerationOrNone /\ 0 \in GenerationOrNone
  BY NumberTypes DEF IInv
<1>1. /\ FtBegins' = FtBegins
      /\ UNCHANGED <<sstvGeneration, phase, txGeneration, ftEncoding>>
  BY <1>0, UiMoves, IoMoreKeeps, OthersKept DEF audioVars, sstvVars, ftVars
<1>2. ASSUME Quiet PROVE UsesMove
  BY <1>0, <1>2, QuietUses DEF UsesMove, Old
<1>3. ASSUME Old(SstvUses', SstvUses), Old(FtUses', FtUses \union {0}),
             lastGeneration <= lastGeneration'
      PROVE  UsesMove
  BY <1>1, <1>3 DEF UsesMove
<1>n. ASSUME starts < MaxStarts \/ SstvBusy
      PROVE  lastGeneration < Issued /\ lastGeneration <= Issued /\ Issued \in GenerationOrNone
  <2>1. lastGeneration < Issued /\ Issued \in GenerationOrNone
    BY <1>n, IssuedIsNew
  <2> QED BY <1>0, <2>1, NumberTypes
<1>4. CASE StartSstv
  <2>1. /\ lastGeneration' = Issued /\ SstvBusy' /\ starts < MaxStarts
        /\ toIo' = toIo \o Call("acknowledge", 0) /\ toAudio' = toAudio \o Call("prepare", Issued)
        /\ UNCHANGED <<scheduledGeneration, toUi, ft>>
    BY <1>4 DEF StartSstv, SstvBusy, shared
  <2>2. "acknowledge" \in IoCalls /\ "prepare" \in AudioCalls
    BY DEF IoCalls, AudioCalls
  <2>3. Requested' = Requested /\ Stops' = Stops /\ FtStops' = FtStops
    BY <1>0, <2>1, <2>2, IoPosts
  <2>4. Asked' = Asked \union {Issued} /\ Scheduled' = Scheduled
    BY <1>0, <1>n, <2>1, <2>2, AudioPosts
  <2>5. Prepared' = Prepared
    BY <2>1, SameQueues
  <2>6. Old(SstvUses', SstvUses)
    BY <1>n, <2>1, <2>3, <2>4, <2>5 DEF SstvUses, Pending, Old
  <2>7. FtUses' = FtUses
    BY <1>1, <2>1, <2>3, <2>4 DEF FtUses
  <2> QED BY <1>3, <1>n, <2>1, <2>6, <2>7 DEF Old
<1>5. ASSUME NEW operator \in BOOLEAN, StartFt(operator) PROVE UsesMove
  <2>1. /\ lastGeneration' = Issued /\ ~SstvBusy' /\ starts < MaxStarts
        /\ toIo' = toIo \o (IF operator THEN Call("acknowledge", 0) ELSE <<>>)
        /\ toAudio' = toAudio \o Call("schedule", Issued)
        /\ ft' = Issued /\ scheduledGeneration' = Issued
        /\ UNCHANGED toUi
    BY <1>5 DEF StartFt, SstvBusy
  <2>2. "schedule" \in AudioCalls
    BY DEF AudioCalls
  <2>3. QuietIo
    <3>1. toIo \o <<>> = toIo
      BY <1>0, QueueTypes, ConcatEmptySeq
    <3> QED BY <1>0, <2>1, <3>1, IoQueueQuiet
  <2>4. Scheduled' = Scheduled \union {Issued} /\ Asked' = Asked
    BY <1>0, <1>n, <2>1, <2>2, AudioPosts
  <2>5. Prepared' = Prepared
    BY <2>1, SameQueues
  <2>6. SstvUses' \subseteq SstvUses
    BY <2>1, <2>3, <2>4, <2>5 DEF SstvUses, Pending, QuietIo
  <2>7. FtUses' \subseteq FtUses \union {Issued}
    <3>1. FtOver \subseteq FtUses
      BY DEF FtOver, FtUses
    <3> QED BY <1>1, <2>1, <2>3, <2>4, <3>1 DEF FtUses, QuietIo
  <2> QED BY <1>3, <1>n, <2>1, <2>6, <2>7 DEF Old
<1>6. CASE UiStopsSstv
  <2>1. /\ lastGeneration' = Issued /\ SstvBusy /\ ~SstvBusy'
        /\ toIo' = toIo \o Call("stop", lastGeneration)
        /\ toAudio' = toAudio \o Call("stopSstv", 0)
        /\ UNCHANGED <<scheduledGeneration, ft>>
    BY <1>6 DEF UiStopsSstv, StopSstv, SstvBusy
  <2>2. "stop" \in IoCalls /\ "stopSstv" \in AudioCalls
    BY DEF IoCalls, AudioCalls
  <2>3. Requested' = Requested /\ Stops' = Stops \union {lastGeneration} /\ FtStops' = FtStops
    BY <1>0, <2>1, <2>2, IoPosts
  <2>4. Asked' = Asked /\ Scheduled' = Scheduled
    BY <1>0, <2>1, <2>2, AudioPosts
  <2>5. QuietUi
    BY <1>6, UiQueueQuiet DEF UiStopsSstv, UiQuietTake
  <2>6. SstvUses' \subseteq SstvUses
    BY <2>1, <2>3, <2>4, <2>5 DEF SstvUses, Pending, QuietUi
  <2>7. FtUses' = FtUses
    BY <1>1, <2>1, <2>3, <2>4 DEF FtUses
  <2> QED BY <1>3, <1>n, <2>1, <2>6, <2>7 DEF Old
<1>7. ASSUME NEW g \in Generations, DrainElapsed(g) PROVE UsesMove
  <2>1. UNCHANGED <<scheduledGeneration, ft, toUi, toAudio>>
    BY <1>7 DEF DrainElapsed, shared
  <2>2. Prepared' = Prepared /\ Asked' = Asked /\ Scheduled' = Scheduled
    BY <2>1, SameQueues
  <2>3. CASE UNCHANGED <<lastGeneration, sstv, toIo>>
    <3>1. SstvUses' = SstvUses /\ FtUses' = FtUses
      BY <1>1, <2>1, <2>2, <2>3, SameQueues DEF SstvUses, FtUses, Pending, SstvBusy
    <3> QED BY <1>0, <1>3, <2>3, <3>1 DEF Old
  <2>4. CASE /\ SstvBusy /\ ~SstvBusy' /\ lastGeneration' = Issued
             /\ toIo' = toIo \o Call("stop", lastGeneration)
    <3>1. "stop" \in IoCalls
      BY DEF IoCalls
    <3>2. Requested' = Requested /\ Stops' = Stops \union {lastGeneration} /\ FtStops' = FtStops
      BY <1>0, <2>4, <3>1, IoPosts
    <3>3. SstvUses' \subseteq SstvUses /\ FtUses' = FtUses
      BY <1>1, <2>1, <2>2, <2>4, <3>2 DEF SstvUses, FtUses, Pending
    <3> QED BY <1>3, <1>n, <2>4, <3>3 DEF Old
  <2> QED BY <1>7, <2>3, <2>4 DEF DrainElapsed, SstvBusy
<1>8. CASE UiStopsFt
  <2>1. /\ UNCHANGED <<lastGeneration, sstv, ft>>
        /\ scheduledGeneration' \in {0, scheduledGeneration}
        /\ toIo' = toIo \o Call("stopFt", ft) /\ toAudio' = toAudio \o Call("cancel", ft)
    BY <1>8 DEF UiStopsFt, StopFt, Unscheduled
  <2>2. "stopFt" \in IoCalls /\ "cancel" \in AudioCalls
    BY DEF IoCalls, AudioCalls
  <2>3. Requested' = Requested /\ Stops' = Stops /\ FtStops' = FtStops \union {ft}
    BY <1>0, <2>1, <2>2, IoPosts
  <2>4. Asked' = Asked /\ Scheduled' = Scheduled
    BY <1>0, <2>1, <2>2, AudioPosts
  <2>5. QuietUi
    BY <1>8, UiQueueQuiet DEF UiStopsFt, UiQuietTake
  <2>6. SstvUses' \subseteq SstvUses
    BY <2>1, <2>3, <2>4, <2>5 DEF SstvUses, Pending, QuietUi, SstvBusy
  <2>7. FtUses' \subseteq FtUses \union {0}
    BY <1>1, <2>1, <2>3, <2>4 DEF FtUses
  <2> QED BY <1>0, <1>3, <2>1, <2>6, <2>7 DEF Old
<1>9. CASE OnPrepared
  <2>1. UNCHANGED <<scheduledGeneration, lastGeneration, ft, toAudio>>
    BY <1>9 DEF OnPrepared, shared
  <2>2. QuietUi /\ Asked' = Asked /\ Scheduled' = Scheduled
    BY <1>9, <2>1, UiQueueQuiet, SameQueues DEF OnPrepared
  <2>3. CASE UNCHANGED toIo /\ sstv' \in {sstv, "idle"}
    <3>1. SstvUses' \subseteq SstvUses /\ FtUses' = FtUses
      BY <1>1, <2>1, <2>2, <2>3, SameQueues DEF SstvUses, FtUses, Pending, SstvBusy, QuietUi
    <3> QED BY <1>0, <1>3, <2>1, <3>1 DEF Old
  <2>4. CASE /\ SstvBusy /\ UNCHANGED sstv
             /\ toIo' = toIo \o Call("beginSstv", lastGeneration)
    <3>1. "beginSstv" \in IoCalls
      BY DEF IoCalls
    <3>2. Requested' = Requested \union {lastGeneration} /\ Stops' = Stops /\ FtStops' = FtStops
      BY <1>0, <2>4, <3>1, IoPosts
    <3>3. SstvUses' \subseteq SstvUses /\ FtUses' = FtUses
      BY <1>1, <2>1, <2>2, <2>4, <3>2 DEF SstvUses, FtUses, Pending, QuietUi, SstvBusy
    <3> QED BY <1>0, <1>3, <2>1, <3>3 DEF Old
  <2> QED BY <1>9, <2>3, <2>4 DEF OnPrepared, SstvBusy
<1> QED BY <1>2, <1>4, <1>5, <1>6, <1>7, <1>8, <1>9, UiQuiet, UiCases

(* The I/O thread brings none into use.                                    *)
LEMMA IoUses ==
    ASSUME IInv, IoThread
    PROVE  UsesMove
<1>0. /\ Typed /\ OwnGenerations /\ lastGeneration <= lastGeneration
  BY NumberTypes DEF IInv
<1>1. /\ UNCHANGED <<lastGeneration, ft, sstv, sstvGeneration, phase, txGeneration, ftEncoding>>
      /\ scheduledGeneration' \in {0, scheduledGeneration}
  BY IoMoves DEF uiVars, audioVars, sstvVars, ftVars
<1>2. Gens(toUi', {"prepared"}) \subseteq Gens(toUi, {"prepared"})
  <2>1. UiWithout({"prepared"})
    BY IoMoves DEF UiWithout, UiCalls
  <2> QED BY <1>0, <2>1, UiKept
<1>3. /\ Gens(toAudio', {"prepare"}) \subseteq Gens(toAudio, {"prepare"})
      /\ Gens(toAudio', {"schedule"}) \subseteq Gens(toAudio, {"schedule"})
  <2>1. AudioWithout({"prepare"}) /\ AudioWithout({"schedule"})
    BY IoMoves DEF AudioWithout, AudioCalls
  <2> QED BY <1>0, <2>1, AudioKept
<1>4. \A name : Gens(toIo', {name}) \subseteq Gens(toIo, {name})
  <2>1. \A names : IoWithout(names)
    BY IoMoves DEF IoWithout
  <2> QED BY <1>0, <2>1, IoKept
<1>5. SstvUses' \subseteq SstvUses
  BY <1>1, <1>2, <1>3, <1>4 DEF SstvUses, Pending, Asked, Prepared, Requested, Stops, SstvBusy
<1>6. FtUses' \subseteq FtUses \union {0}
  BY <1>1, <1>3, <1>4 DEF FtUses, Scheduled, FtBegins, FtStops
<1>7. FtBegins' \subseteq FtBegins
  BY <1>4 DEF FtBegins
<1> QED BY <1>0, <1>1, <1>5, <1>6, <1>7 DEF UsesMove, Old

(* The audio thread hands on what it was asked for.                        *)
LEMMA AudioUses ==
    ASSUME IInv, AudioThread
    PROVE  UsesMove
<1>0. /\ Typed /\ OwnGenerations /\ lastGeneration <= lastGeneration
      /\ UNCHANGED <<lastGeneration, ft, sstv>>
  BY NumberTypes, OthersKept DEF IInv, uiVars
<1>1. CASE ~TakePrepare
  BY <1>0, <1>1, AudioStepQuiet, QuietUses DEF UsesMove, Old
<1>2. CASE TakePrepare
  <2> DEFINE g == Head(toAudio).generation
  <2>1. /\ UNCHANGED <<scheduledGeneration, toIo, phase, txGeneration, ftEncoding>>
        /\ sstvGeneration' = g /\ AudioTakes("prepare")
        /\ \E name \in {"prepared", "notPrepared"} : toUi' = toUi \o Call(name, g)
    BY <1>2 DEF TakePrepare, shared, ftVars
  <2>2. Asked = Asked' \union {g} /\ Scheduled' = Scheduled /\ g \in GenerationOrNone
    BY <1>0, <2>1, AudioTaken, AudioTake
  <2> HIDE DEF g
  <2>3. Prepared' \subseteq Prepared \union {g}
    <3>1. {"prepared", "notPrepared"} \subseteq UiCalls
      BY DEF UiCalls
    <3> QED BY <1>0, <2>1, <2>2, <3>1, UiPosts
  <2>4. Requested' = Requested /\ Stops' = Stops /\ FtStops' = FtStops /\ FtBegins' = FtBegins
    BY <2>1, SameQueues
  <2>5. SstvUses' \subseteq SstvUses /\ FtUses' = FtUses
    BY <1>0, <2>1, <2>2, <2>3, <2>4 DEF SstvUses, FtUses, Pending, SstvBusy
  <2> QED BY <1>0, <2>1, <2>2, <2>4, <2>5 DEF UsesMove, Old
<1> QED BY <1>1, <1>2

(* A generation comes into use when it is given out.                       *)
LEMMA UsesStep == IInv /\ [Next]_vars => UsesMove
<1> SUFFICES ASSUME IInv, [Next]_vars PROVE UsesMove
  OBVIOUS
<1>1. CASE UNCHANGED vars
  <2>1. /\ UNCHANGED <<scheduledGeneration, lastGeneration, ft, sstv, sstvGeneration, phase,
                       txGeneration, ftEncoding>>
        /\ UNCHANGED <<toUi, toIo, toAudio>>
    BY <1>1 DEF vars, shared, queues, uiVars, audioVars, ftVars, sstvVars
  <2>2. SstvUses' = SstvUses /\ FtUses' = FtUses /\ FtBegins' = FtBegins
    BY <2>1, SameQueues DEF SstvUses, FtUses, Pending, SstvBusy
  <2>3. lastGeneration <= lastGeneration'
    BY <2>1, NumberTypes DEF IInv
  <2> QED BY <2>1, <2>2, <2>3 DEF UsesMove, Old
<1> QED BY <1>1, UiUses, IoUses, AudioUses DEF Next

(***************************************************************************)
(* A generation of FT8/FT4 stays one, queued or on the air.                *)
(***************************************************************************)
OwnFt ==
    /\ \A g \in FtBegins \union HeardGens : g <= lastGeneration
    /\ FtBegins \intersect SstvUses = {}
    /\ (FtUses \union FtBegins) \intersect {sstvGeneration} \subseteq {0}

(* Generations in use are numbers.                                         *)
LEMMA UsesAreNumbers ==
    ASSUME Typed
    PROVE  \A g \in SstvUses \union FtUses \union Known : g \in Nat
<1>1. /\ \A i \in 1..Len(toUi) : toUi[i].generation \in Nat
      /\ \A i \in 1..Len(toIo) : toIo[i].generation \in Nat
      /\ \A i \in 1..Len(toAudio) : toAudio[i].generation \in Nat
  <2>1. ASSUME NEW N, NEW q \in Seq(Posted(N)), NEW i \in 1..Len(q)
        PROVE  q[i].generation \in Nat
    <3>1. q[i] \in Posted(N) /\ GenerationOrNone \subseteq Nat
      BY ElementOfSeq, NumberTypes
    <3> QED BY <3>1 DEF Posted
  <2> QED BY <2>1, QueueTypes
<1>2. /\ \A names : Gens(toUi, names) \subseteq Nat
      /\ \A names : Gens(toIo, names) \subseteq Nat
      /\ \A names : Gens(toAudio, names) \subseteq Nat
  BY <1>1 DEF Gens
<1>3. halted \subseteq Nat /\ stopsTaken \subseteq Nat
  BY NumberTypes DEF Typed, TypedUi, TypedIo
<1>4. /\ generation \in Nat /\ sstvGeneration \in Nat /\ scheduledGeneration \in Nat
      /\ ft \in Nat /\ ftEncoding \in Nat /\ txGeneration \in Nat /\ lastGeneration \in Nat
  BY NumberTypes
<1>5. SstvUses \subseteq Nat
  BY <1>2, <1>4 DEF SstvUses, Pending, Asked, Prepared, Requested, Stops
<1>6. FtUses \subseteq Nat
  BY <1>2, <1>4 DEF FtUses, Scheduled, FtBegins, FtStops
<1>7. Known \subseteq Nat
  BY <1>2, <1>3, <1>4 DEF Known, Sounds
<1> QED BY <1>5, <1>6, <1>7

(* A generation of FT8 or FT4 stays one.                                   *)
LEMMA OwnFtStep == IInv /\ OwnFt /\ [Next]_vars => OwnFt'
<1> SUFFICES ASSUME IInv, OwnFt, [Next]_vars PROVE OwnFt'
  OBVIOUS
<1>0. OwnGenerations /\ Typed
  BY DEF IInv
<1>1. UsesMove
  BY UsesStep
<1>2. FtOver \subseteq FtUses \ {0} /\ Asked \subseteq SstvUses
  BY <1>0, FtOverIs DEF SstvUses, Pending
<1>3. HeardGens' \subseteq HeardGens \union Sounds
  BY HeardKept
<1>n. /\ \A g \in FtBegins \union HeardGens \union SstvUses \union FtUses \union Known : g \in Nat
      /\ lastGeneration \in Nat /\ lastGeneration' \in Nat
  <2>1. /\ \A i \in 1..Len(toIo) : toIo[i].generation \in Nat
    <3>1. ASSUME NEW i \in 1..Len(toIo)
          PROVE  toIo[i].generation \in Nat
      <4>1. toIo[i] \in Posted(IoCalls) /\ GenerationOrNone \subseteq Nat
        BY <1>0, QueueTypes, ElementOfSeq, NumberTypes
      <4> QED BY <4>1 DEF Posted
    <3> QED BY <3>1
  <2>2. FtBegins \subseteq Nat
    BY <2>1 DEF FtBegins, Gens
  <2>3. HeardGens \subseteq Nat
    <3>1. heard \subseteq [gen : Generations, frame : 1..Frames, over : GenerationOrNone]
          /\ Generations \subseteq Nat
      BY <1>0, NumberTypes DEF Typed, TypedIo
    <3> QED BY <3>1 DEF HeardGens
  <2>4. \A g \in SstvUses \union FtUses \union Known : g \in Nat
    BY <1>0, UsesAreNumbers
  <2>5. lastGeneration \in Nat /\ lastGeneration' \in Nat
    <3>1. Typed'
      BY TypeStep DEF IInv
    <3>2. GenerationOrNone \subseteq Nat /\ lastGeneration \in GenerationOrNone
      BY <1>0, NumberTypes
    <3> QED BY <3>1, <3>2 DEF Typed, TypedUi
  <2> QED BY <2>2, <2>3, <2>4, <2>5
<1>4. \A g \in FtBegins' \union HeardGens' : g <= lastGeneration
  <2>1. Sounds \subseteq Known
    BY DEF Known
  <2> QED BY <1>0, <1>1, <1>2, <1>3, <2>1 DEF OwnFt, UsesMove, OwnGenerations
<1>5. \A g \in FtBegins' \union HeardGens' : g \in Nat /\ ~(lastGeneration < g)
  <2>1. Sounds \subseteq Known
    BY DEF Known
  <2> QED BY <1>1, <1>2, <1>3, <1>4, <1>n, <2>1 DEF UsesMove
<1>6. \A g \in FtBegins' \union HeardGens' : g <= lastGeneration'
  BY <1>1, <1>4, <1>5, <1>n DEF UsesMove
<1>7. FtBegins' \intersect SstvUses' = {}
  BY <1>0, <1>1, <1>2, <1>5 DEF OwnFt, UsesMove, Old, OwnGenerations
<1>8. (FtUses' \union FtBegins') \intersect {sstvGeneration'} \subseteq {0}
  <2>1. sstvGeneration' \in {sstvGeneration} \union SstvUses
    BY <1>1, <1>2 DEF UsesMove
  <2>2. ~(lastGeneration < sstvGeneration')
    BY <1>0, <1>n, <2>1 DEF OwnGenerations, Known
  <2>3. sstvGeneration' \in FtUses' => sstvGeneration' \in FtUses \union {0}
    BY <1>1, <2>2 DEF UsesMove, Old
  <2>4. sstvGeneration' \in SstvUses => sstvGeneration' \notin FtUses \union FtBegins \union FtOver
    BY <1>0, <1>2 DEF OwnGenerations, OwnFt
  <2> QED BY <1>1, <1>2, <2>1, <2>3, <2>4 DEF UsesMove, OwnFt
<1> QED BY <1>6, <1>7, <1>8 DEF OwnFt

(***************************************************************************)
(* The slot that is revoked while the guard is begun                       *)
(***************************************************************************)
\* What the guard keeps open for FT8/FT4 is no image; only what was issued is
\* ever halted.
OwnKind ==
    /\ kind = "ft" => generation \notin SstvUses
    /\ 0 \notin halted

LEMMA OwnKindStep == IInv /\ OwnKind /\ [Next]_vars => OwnKind'
<1> SUFFICES ASSUME IInv, OwnKind, [Next]_vars PROVE OwnKind'
  OBVIOUS
<1>0. OwnGenerations /\ Typed /\ GateIsGuarded
  BY DEF IInv
<1>1. Old(SstvUses', SstvUses)
  BY UsesStep DEF UsesMove
<1>2. ASSUME kind' = "ft"
      PROVE  generation' \notin SstvUses /\ generation' \in FtUses \union Known \union {0}
  <2>1. CASE UNCHANGED kind /\ generation' \in {0, generation}
    BY <1>0, <1>2, <2>1 DEF OwnKind, OwnGenerations, Known
  <2>2. ASSUME NEW k \in {"sstv", "ft"}, ArmGuard(k)
        PROVE  generation' \notin SstvUses /\ generation' \in FtUses
    <3>1. k = "ft" /\ generation' = Head(toIo).generation
      BY <1>2, <2>2 DEF ArmGuard
    <3>2. generation' \in FtUses
      BY <2>2, <3>1, ArmedFor
    <3> QED BY <1>0, <3>2 DEF OwnGenerations
  <2> QED BY <1>0, <2>1, <2>2, GuardMoves
<1>3. kind' = "ft" => generation' \notin SstvUses'
  <2>1. \A g \in FtUses \union Known \union {0} : ~(lastGeneration < g)
    <3>1. \A g \in FtUses \union Known \union {0} : g \in Nat
      BY <1>0, UsesAreNumbers
    <3>2. lastGeneration \in Nat
      BY <1>0, NumberTypes
    <3>3. \A g \in FtUses \union Known \union {0} : g <= lastGeneration
      BY <1>0, <3>2 DEF OwnGenerations
    <3> QED BY <3>1, <3>2, <3>3
  <2> QED BY <1>1, <1>2, <2>1 DEF Old
<1>4. 0 \notin halted'
  <2>1. CASE UiThread
    <3>1. SstvBusy => lastGeneration # 0
      BY <1>0 DEF OwnGenerations, SstvUses
    <3>2. UiStopsSstv \/ UiStopsFt => 0 \notin halted'
      BY <3>1 DEF OwnKind, UiStopsSstv, StopSstv, UiStopsFt, StopFt, SstvBusy
    <3>3. StartSstv \/ OnPrepared \/ OnFinished \/ UiPasses => halted' = halted
      BY DEF StartSstv, OnPrepared, OnFinished, UiPasses
    <3>4. \A g : DrainElapsed(g) => halted' = halted
      BY DEF DrainElapsed
    <3>5. \A operator : StartFt(operator) => halted' = halted
      BY DEF StartFt
    <3> QED BY <2>1, <3>2, <3>3, <3>4, <3>5, UiCases DEF OwnKind
  <2>2. CASE IoThread \/ AudioThread \/ UNCHANGED vars
    BY <2>2, OthersKept DEF OwnKind, uiVars, vars
  <2> QED BY <2>1, <2>2 DEF Next
<1> QED BY <1>3, <1>4 DEF OwnKind

(* Whenever the I/O thread is back in its event loop, the gate is not open *)
(* for an over that the UI thread stopped: the stop shuts an open gate,    *)
(* and a begin that opens it afterwards reads the slot again, finds it     *)
(* revoked and gives the guard up (beginDigitalAudioTransmit).             *)
THEOREM HaltedIsShut == Spec => []HaltedStaysShut
<1>1. Init => OwnKind
  BY DEF Init, OwnKind
<1>2. IInv /\ OwnKind => HaltedStaysShut
  <2> SUFFICES ASSUME IInv, OwnKind, ioInside = "loop", kind = "ft", generation \in halted
               PROVE  FALSE
    BY DEF HaltedStaysShut
  <2>1. StopAhead(toIo, generation)
    BY DEF IInv, HaltsAreFinal, Confirmed, OwnKind
  <2>2. PICK k \in 1..Len(toIo) : toIo[k].name = "stop" /\ toIo[k].generation = generation
    BY <2>1 DEF StopAhead
  <2>3. generation \in Stops
    BY <2>2 DEF Stops, Gens
  <2> QED BY <2>3 DEF OwnKind, SstvUses
<1> QED BY <1>1, <1>2, OwnKindStep, Inductive, PTL DEF Spec

(***************************************************************************)
(* The order of the calls to the audio thread                              *)
(***************************************************************************)
\* No call `second` is queued behind a call `first`.
NoneBehind(q, first, second) ==
    \A i, j \in 1..Len(q) : i < j /\ q[i].name = first => q[j].name # second

(* A call may be queued where none of the other kind is.                   *)
LEMMA NoneBehindAppend ==
    ASSUME NEW S, NEW q \in Seq(S), NEW c \in S, NEW first, NEW second,
           NoneBehind(q, first, second),
           c.name = second => Gens(q, {first}) = {}
    PROVE  NoneBehind(Append(q, c), first, second)
<1> DEFINE t == Append(q, c)
<1>1. /\ Len(q) \in Nat /\ Len(t) = Len(q) + 1
      /\ \A i \in 1..Len(q) : t[i] = q[i]
      /\ t[Len(q) + 1] = c
  BY AppendIs
<1>2. c.name = second => \A i \in 1..Len(q) : q[i].name # first
  <2>1. \A g : g \in Gens(q, {first}) <=>
               \E i \in 1..Len(q) : q[i].name \in {first} /\ q[i].generation = g
    BY InGens
  <2> QED BY <2>1
<1> HIDE DEF t
<1>3. NoneBehind(t, first, second)
  BY <1>1, <1>2 DEF NoneBehind
<1> QED BY <1>3 DEF t

(* Once the first is taken, none of the other kind is left.                *)
LEMMA NoneBehindTail ==
    ASSUME NEW S, NEW q \in Seq(S), q # <<>>, NEW first, NEW second,
           NoneBehind(q, first, second)
    PROVE  /\ NoneBehind(Tail(q), first, second)
           /\ Head(q).name = first => Gens(Tail(q), {second}) = {}
<1> DEFINE t == Tail(q)
<1>1. /\ Len(q) \in Nat \ {0} /\ Len(t) = Len(q) - 1
      /\ \A i \in 1..Len(q) - 1 : t[i] = q[i + 1]
      /\ Head(q) = q[1]
  BY TailIs
<1> HIDE DEF t
<1>2. NoneBehind(t, first, second)
  <2> SUFFICES ASSUME NEW i \in 1..Len(t), NEW j \in 1..Len(t), i < j, t[i].name = first
               PROVE  t[j].name # second
    BY DEF NoneBehind
  <2>1. i + 1 \in 1..Len(q) /\ j + 1 \in 1..Len(q) /\ i + 1 < j + 1
        /\ t[i] = q[i + 1] /\ t[j] = q[j + 1]
    BY <1>1
  <2> QED BY <2>1 DEF NoneBehind
<1>3. ASSUME Head(q).name = first, NEW g, g \in Gens(t, {second}) PROVE FALSE
  <2>1. PICK i \in 1..Len(t) : t[i].name = second
    BY <1>3, InGens
  <2>2. 1 \in 1..Len(q) /\ i + 1 \in 1..Len(q) /\ 1 < i + 1 /\ q[i + 1] = t[i]
    BY <1>1
  <2> QED BY <1>1, <1>3, <2>1, <2>2 DEF NoneBehind
<1> QED BY <1>2, <1>3 DEF t

\* The UI thread starts no image while an over is being sent, so no image is
\* prepared between the scheduling of an over and its end.
PreparesFirst ==
    /\ NoneBehind(toAudio, "schedule", "prepare")
    /\ phase # "idle" => Asked = {}
    /\ ftEncoding # 0 => ~sstvPrepared

(* An image is asked for only when no over is scheduled.                   *)
LEMMA OrderPosted ==
    ASSUME Typed, NEW name \in AudioCalls, NEW g \in GenerationOrNone,
           toAudio' = toAudio \o Call(name, g),
           NoneBehind(toAudio, "schedule", "prepare"),
           name = "prepare" => Scheduled = {}
    PROVE  NoneBehind(toAudio', "schedule", "prepare")
<1> DEFINE c == [name |-> name, generation |-> g, frame |-> 0]
<1>1. /\ toAudio \in Seq(Posted(AudioCalls)) /\ c \in Posted(AudioCalls)
      /\ toAudio' = Append(toAudio, c)
  BY QueueTypes, CallIs
<1>2. c.name = name
  OBVIOUS
<1> HIDE DEF c
<1>3. c.name = "prepare" => Gens(toAudio, {"schedule"}) = {}
  BY <1>2 DEF Scheduled
<1> QED BY <1>1, <1>3, NoneBehindAppend

(* When an over is taken, no image is asked for.                           *)
LEMMA OrderTaken ==
    ASSUME Typed, NEW name, AudioTakes(name), NoneBehind(toAudio, "schedule", "prepare")
    PROVE  /\ NoneBehind(toAudio', "schedule", "prepare")
           /\ name = "schedule" => Asked' = {}
<1>1. /\ toAudio \in Seq(Posted(AudioCalls)) /\ toAudio # <<>>
      /\ Head(toAudio).name = name /\ toAudio' = Tail(toAudio)
  BY QueueTypes, TakenIs DEF AudioTakes
<1>2. /\ NoneBehind(Tail(toAudio), "schedule", "prepare")
      /\ Head(toAudio).name = "schedule" => Gens(Tail(toAudio), {"prepare"}) = {}
  BY <1>1, NoneBehindTail
<1> QED BY <1>1, <1>2 DEF Asked

(* Where no image is asked for the order stays.                            *)
LEMMA OrderKept ==
    ASSUME Typed, AudioWithout({"prepare"}), NoneBehind(toAudio, "schedule", "prepare")
    PROVE  NoneBehind(toAudio', "schedule", "prepare") /\ Asked' \subseteq Asked
<1>1. Asked' \subseteq Asked
  BY AudioKept DEF Asked
<1>2. CASE UNCHANGED toAudio
  BY <1>1, <1>2
<1>3. ASSUME NEW name, AudioTakes(name) PROVE NoneBehind(toAudio', "schedule", "prepare")
  BY <1>3, OrderTaken
<1>4. ASSUME NEW name \in AudioCalls \ {"prepare"}, NEW g \in GenerationOrNone,
             toAudio' = toAudio \o Call(name, g)
      PROVE  NoneBehind(toAudio', "schedule", "prepare")
  BY <1>4, OrderPosted
<1> QED BY <1>1, <1>2, <1>3, <1>4 DEF AudioWithout

(* No image is prepared from the scheduling of an over to its end.         *)
LEMMA PreparesFirstStep == IInv /\ OneOver /\ PreparesFirst /\ [Next]_vars => PreparesFirst'
<1> SUFFICES ASSUME IInv, OneOver, PreparesFirst, [Next]_vars PROVE PreparesFirst'
  OBVIOUS
<1>0. /\ Typed /\ NoneBehind(toAudio, "schedule", "prepare")
      /\ \A name : name \in AudioCalls \ {"prepare"} => name \in AudioCalls
  BY DEF IInv, PreparesFirst
<1>1. ASSUME AudioWithout({"prepare"}), phase' # "idle" => phase # "idle",
             ftEncoding' # 0 /\ sstvPrepared' => ftEncoding # 0 /\ sstvPrepared
      PROVE  PreparesFirst'
  BY <1>0, <1>1, OrderKept DEF PreparesFirst
<1>s. UNCHANGED toAudio => AudioWithout({"prepare"})
  BY DEF AudioWithout
<1>t. \A name : AudioTakes(name) => AudioWithout({"prepare"})
  BY DEF AudioWithout
<1>2. CASE UiThread
  <2>1. UNCHANGED <<phase, ftEncoding, sstvPrepared>>
    BY <1>2, OthersKept DEF audioVars, ftVars, sstvVars
  <2>2. CASE StartSstv
    <3>1. ft = 0 /\ toAudio' = toAudio \o Call("prepare", Issued) /\ Issued \in GenerationOrNone
      BY <2>2, IssuedIs DEF StartSstv, IInv
    <3>2. Scheduled = {} /\ phase = "idle"
      BY <3>1 DEF OneOver, FtOver
    <3>3. "prepare" \in AudioCalls
      BY DEF AudioCalls
    <3>4. NoneBehind(toAudio', "schedule", "prepare")
      BY <1>0, <3>1, <3>2, <3>3, OrderPosted
    <3> QED BY <2>1, <3>2, <3>4 DEF PreparesFirst
  <2>3. CASE ~StartSstv
    <3>1. \A name \in {"schedule", "beginSstv", "stopSstv", "cancel"}, g \in GenerationOrNone :
              toAudio' = toAudio \o Call(name, g) => AudioWithout({"prepare"})
      BY DEF AudioWithout, AudioCalls
    <3>0. Generations \subseteq GenerationOrNone /\ 0 \in GenerationOrNone /\ ft \in GenerationOrNone
      BY <1>0, NumberTypes
    <3>2. OnPrepared \/ OnFinished => AudioWithout({"prepare"})
      BY <1>s DEF OnPrepared, OnFinished
    <3>3. UiStopsSstv \/ UiStopsFt => AudioWithout({"prepare"})
      BY <3>0, <3>1 DEF UiStopsSstv, StopSstv, UiStopsFt, StopFt
    <3>4. UiPasses => AudioWithout({"prepare"})
      BY <1>s, <3>0, <3>1 DEF UiPasses
    <3>5. \A g \in Generations : DrainElapsed(g) => AudioWithout({"prepare"})
      BY <1>s DEF DrainElapsed
    <3>6. ASSUME NEW operator \in BOOLEAN, StartFt(operator) PROVE AudioWithout({"prepare"})
      BY <3>1, <3>6, IssuedIs DEF StartFt, IInv
    <3> QED BY <1>1, <1>2, <2>1, <2>3, <3>2, <3>3, <3>4, <3>5, <3>6, UiCases
  <2> QED BY <2>2, <2>3
<1>3. CASE IoThread
  <2>1. UNCHANGED <<phase, ftEncoding, sstvPrepared>>
    BY <1>3, OthersKept DEF audioVars, ftVars, sstvVars
  <2>2. AudioWithout({"prepare"})
    BY <1>3, IoMoves DEF AudioWithout, AudioCalls
  <2> QED BY <1>1, <2>1, <2>2
<1>4. CASE AudioThread
  <2>1. CASE TakePrepare
    <3>1. /\ AudioTakes("prepare") /\ UNCHANGED <<phase, ftEncoding>>
      BY <2>1 DEF TakePrepare, ftVars
    <3>2. Asked # {}
      BY <1>0, <3>1, AudioTaken
    <3>3. phase = "idle" /\ ftEncoding = 0
      BY <3>2 DEF PreparesFirst, OneOver
    <3> QED BY <1>0, <3>1, <3>3, OrderTaken DEF PreparesFirst
  <2>2. CASE TakeSchedule
    <3>1. AudioTakes("schedule") /\ UNCHANGED <<ftEncoding, sstvPrepared>>
      BY <2>2 DEF TakeSchedule, sstvVars
    <3> QED BY <1>0, <3>1, OrderTaken DEF PreparesFirst
  <2>3. CASE TakeAccepted
    BY <1>1, <1>t, <2>3 DEF TakeAccepted, sstvVars
  <2>4. CASE PostImage \/ RequestKey \/ EmitFrame \/ RequestUnkey
    <3>1. UNCHANGED <<toAudio, ftEncoding>> /\ (sstvPrepared' => sstvPrepared)
          /\ (phase' # "idle" => phase # "idle")
      BY <2>4 DEF PostImage, RequestKey, EmitFrame, RequestUnkey, Ticks, SstvStopped, ftVars,
                  sstvVars
    <3> QED BY <1>1, <1>s, <3>1
  <2>5. CASE StartAudio
    <3>1. UNCHANGED <<toAudio, sstvPrepared>> /\ phase = "keying"
          /\ (UNCHANGED ftEncoding \/ ~sstvPrepared)
      BY <2>5 DEF StartAudio, Ticks, queues, sstvVars
    <3> QED BY <1>1, <1>s, <3>1
  <2>6. CASE AudioFails \/ Completes
    <3>1. AudioWithout({"prepare"}) /\ phase' = "idle" /\ UNCHANGED sstvPrepared
          /\ ftEncoding' = EncodingFinished
      BY <1>s, <1>t, <2>6 DEF AudioFails, Fail, Completes, sstvVars
    <3>2. ftEncoding' # 0 => ftEncoding # 0
      BY <3>1 DEF EncodingFinished
    <3> QED BY <1>1, <3>1, <3>2
  <2>7. CASE AudioPasses
    <3>1. AudioWithout({"prepare"})
      BY <1>s, <1>t, <2>7 DEF AudioPasses
    <3> QED BY <1>1, <2>7, <3>1 DEF AudioPasses
  <2> QED BY <1>0, <1>4, <2>1, <2>2, <2>3, <2>4, <2>5, <2>6, <2>7, AudioCases
<1>5. CASE UNCHANGED vars
  <2>1. UNCHANGED <<toAudio, phase, ftEncoding, sstvPrepared>>
    BY <1>5 DEF vars, queues, audioVars, ftVars, sstvVars
  <2> QED BY <1>1, <1>s, <2>1
<1> QED BY <1>2, <1>3, <1>4, <1>5 DEF Next

(***************************************************************************)
(* The guard watches only while there is a connection                      *)
(***************************************************************************)
OnlyConnected == active \/ ioInside = "begin" => connected

(* A guard is set while connected, and trips when it is not.               *)
LEMMA OnlyConnectedStep == IInv /\ OnlyConnected /\ [Next]_vars => OnlyConnected'
<1> SUFFICES ASSUME IInv, OnlyConnected, [Next]_vars PROVE OnlyConnected'
  OBVIOUS
<1>0. Typed /\ OwnGenerations /\ GateIsGuarded
  BY DEF IInv
<1>1. CASE UiThread \/ AudioThread \/ UNCHANGED vars
  <2>1. UNCHANGED <<connected, active, ioInside>>
    BY <1>1, OthersKept DEF ioVars, ioData, guard, vars, shared
  <2> QED BY <2>1 DEF OnlyConnected
<1>2. CASE IoThread
  <2>1. CASE ConnectionLost \/ Reconnected
    BY <2>1 DEF ConnectionLost, Reconnected, OnlyConnected
  <2>2. CASE ~ConnectionLost /\ ~Reconnected
    <3>1. connected' = connected
      <4>1. TripGuard \/ Unkey => connected' = connected
        BY DEF TripGuard, Unkey
      <4>2. TakeAcknowledge \/ TakeStop \/ TakeStopFt \/ TripCancelled \/ TripOnReadings
            => connected' = connected
        BY <4>1 DEF TakeAcknowledge, TakeStop, TakeStopFt, TripCancelled, TripOnReadings, shared
      <4>3. PacketTaken => connected' = connected
        BY <4>1 DEF PacketTaken, PacketDropped, PacketTrips, PacketHeard, shared
      <4>4. \A k : RefuseBegin(k) \/ ArmGuard(k) => connected' = connected
        BY DEF RefuseBegin, ArmGuard, shared
      <4>5. \A g : DrainPoll(g) => connected' = connected
        BY DEF DrainPoll, shared
      <4>6. Busies \/ SlotLost \/ KeyRadio => connected' = connected
        BY BusyIs, SlotLostIs DEF KeyRadio, shared
      <4> QED BY <1>2, <2>2, <4>2, <4>3, <4>4, <4>5, <4>6, IoActsIs DEF IoActs
    <3>2. ioInside' = "begin" => ioInside = "begin" \/ connected
      <4>1. Busies => ioInside' # "begin" \/ connected
        BY DEF Busies, AdmitBegin, ConfirmSlot, CheckSlot, TakePacket, AdmitPacket, CheckPacket
      <4> QED BY <1>0, <1>2, <4>1, IoGateCases
              DEF Returns, Acknowledges, Unkeys, Releases, Opens, Arms
    <3>3. active' => active \/ ioInside = "begin"
      BY <1>0, <1>2, IoGateCases
      DEF GateStays, Acknowledges, Unkeys, Releases, Opens, Arms
    <3> QED BY <3>1, <3>2, <3>3 DEF OnlyConnected
  <2> QED BY <2>1, <2>2
<1> QED BY <1>1, <1>2 DEF Next

(***************************************************************************)
(* An over of FT8/FT4 waits to be keyed in one place: as a call to the     *)
(* audio thread, with the transmitter, or as a call to the I/O thread.     *)
(***************************************************************************)
FtWaits == Scheduled \union FtBegins \union (IF phase = "waiting" THEN {txGeneration} ELSE {})
FtKeyedOnce ==
    /\ Distinct(toIo, {"beginFt"})
    /\ generation \notin FtWaits
    /\ Sounds \intersect FtWaits = {}
    /\ phase # "idle" /\ txGeneration \in FtBegins => phase = "keying"
    /\ Scheduled \intersect FtBegins = {}
    /\ phase \in {"waiting", "keying"} => ftFrame = 0

(* What waits to be keyed is of FT8 or FT4.                                *)
LEMMA NoneWaitsForNothing ==
    ASSUME OwnGenerations
    PROVE  0 \notin FtWaits /\ FtWaits \subseteq FtUses
BY DEF OwnGenerations, FtWaits, FtUses

(* Where nothing waits anew, the over waits in one place.                  *)
LEMMA FtKeyedOnceKept ==
    ASSUME IInv, FtKeyedOnce, Distinct(toIo', {"beginFt"}),
           generation' \in {0, generation},
           FtBegins' \subseteq FtBegins, Scheduled' \subseteq Scheduled, Sounds' \subseteq Sounds,
           UNCHANGED txGeneration, phase' \in {phase, "idle"},
           phase' = "idle" \/ UNCHANGED ftFrame
    PROVE  FtKeyedOnce'
<1>1. FtWaits' \subseteq FtWaits
  BY DEF FtWaits
<1>2. 0 \notin FtWaits
  BY NoneWaitsForNothing DEF IInv
<1> QED BY <1>1, <1>2 DEF FtKeyedOnce

(* The same, by the calls that are not posted.                             *)
LEMMA FtKeyedOncePosted ==
    ASSUME IInv, FtKeyedOnce, IoWithout({"beginFt", "packet"}), AudioWithout({"schedule"}),
           generation' \in {0, generation},
           UNCHANGED txGeneration, phase' \in {phase, "idle"},
           phase' = "idle" \/ UNCHANGED ftFrame
    PROVE  FtKeyedOnce'
<1>0. Typed
  BY DEF IInv
<1>1. IoWithout({"beginFt"}) /\ IoWithout({"packet"})
  BY DEF IoWithout
<1>2. /\ FtBegins' \subseteq FtBegins /\ Sounds' \subseteq Sounds
      /\ Distinct(toIo', {"beginFt"})
  BY <1>0, <1>1, IoKept DEF FtBegins, Sounds, FtKeyedOnce
<1>3. Scheduled' \subseteq Scheduled
  BY <1>0, SchedulesKept
<1> QED BY <1>2, <1>3, FtKeyedOnceKept

(* The UI thread schedules a generation that is nowhere else.              *)
LEMMA UiFtKeyedOnce ==
    ASSUME IInv, OneOver, OwnFt, FtKeyedOnce, UiThread
    PROVE  FtKeyedOnce'
<1>0. /\ Typed /\ Generations \subseteq GenerationOrNone /\ ft \in GenerationOrNone
      /\ 0 \in GenerationOrNone
  BY NumberTypes DEF IInv
<1>1. UNCHANGED <<phase, txGeneration, ftFrame>> /\ generation' \in {0, generation}
  BY OthersKept, OnlyClosed DEF audioVars, ftVars
<1>2. IoWithout({"beginFt", "packet"})
  BY UiMoves DEF IoMore, IoWithout, IoCalls
<1>3. CASE \A operator \in BOOLEAN : ~StartFt(operator)
  <2>1. \A name \in {"prepare", "beginSstv", "stopSstv", "cancel"}, g \in GenerationOrNone :
            toAudio' = toAudio \o Call(name, g) => AudioWithout({"schedule"})
    BY DEF AudioWithout, AudioCalls
  <2>2. UNCHANGED toAudio => AudioWithout({"schedule"})
    BY DEF AudioWithout
  <2>3. OnPrepared \/ OnFinished => AudioWithout({"schedule"})
    BY <2>2 DEF OnPrepared, OnFinished
  <2>4. UiStopsSstv \/ UiStopsFt => AudioWithout({"schedule"})
    BY <1>0, <2>1 DEF UiStopsSstv, StopSstv, UiStopsFt, StopFt
  <2>5. UiPasses => AudioWithout({"schedule"})
    BY <1>0, <2>1, <2>2 DEF UiPasses
  <2>6. \A g \in Generations : DrainElapsed(g) => AudioWithout({"schedule"})
    BY <2>2 DEF DrainElapsed
  <2>7. StartSstv => AudioWithout({"schedule"})
    BY <2>1, IssuedIs DEF StartSstv, IInv
  <2> QED BY <1>1, <1>2, <1>3, <2>3, <2>4, <2>5, <2>6, <2>7, UiCases, FtKeyedOncePosted
<1>4. ASSUME NEW operator \in BOOLEAN, StartFt(operator) PROVE FtKeyedOnce'
  <2>1. /\ toAudio' = toAudio \o Call("schedule", Issued) /\ Issued \in GenerationOrNone
        /\ Issued \notin SstvUses \union FtUses \union Known \union {0}
        /\ lastGeneration < Issued /\ UNCHANGED generation
    BY <1>4, IssuedIsNew DEF StartFt
  <2>2. "schedule" \in AudioCalls
    BY DEF AudioCalls
  <2>3. Scheduled' = Scheduled \union {Issued}
    BY <1>0, <2>1, <2>2, AudioPosts
  <2>4. /\ FtBegins' = FtBegins /\ Sounds' = Sounds /\ Distinct(toIo', {"beginFt"})
    <3>1. IoWithout({"beginFt"})
      BY <1>2 DEF IoWithout
    <3> QED BY <1>0, <3>1, UiMoves, IoMoreKeeps, IoKept DEF FtKeyedOnce
  <2>5. Issued \notin FtBegins
    <3>1. Issued \in Nat /\ lastGeneration \in Nat
      BY <1>0, <2>1, NumberTypes
    <3>2. ~(Issued <= lastGeneration)
      BY <2>1, <3>1
    <3> QED BY <3>2 DEF OwnFt
  <2>6. FtWaits' = FtWaits \union {Issued}
    BY <1>1, <2>3, <2>4 DEF FtWaits
  <2>7. Issued \notin Sounds \union {generation}
    BY <2>1 DEF Known
  <2> QED BY <1>1, <2>1, <2>3, <2>4, <2>5, <2>6, <2>7 DEF FtKeyedOnce
<1> QED BY <1>3, <1>4

(* The I/O thread takes the begin before the gate opens.                   *)
LEMMA IoFtKeyedOnce ==
    ASSUME IInv, OneOver, OwnFt, FtKeyedOnce, IoThread
    PROVE  FtKeyedOnce'
<1>0. Typed /\ OwnGenerations /\ GateIsGuarded
  BY DEF IInv
<1>1. UNCHANGED <<phase, txGeneration, ftFrame>>
  BY IoMoves DEF audioVars, ftVars
<1>2. AudioWithout({"schedule"}) /\ \A names : IoWithout(names)
  BY IoMoves DEF AudioWithout, AudioCalls, IoWithout
<1>3. CASE GateStays \/ Acknowledges \/ Unkeys \/ Releases \/ Opens
  <2>1. generation' \in {0, generation}
    BY <1>3 DEF GateStays, Acknowledges, Unkeys, Releases, Opens, Closed
  <2> QED BY <1>1, <1>2, <2>1, FtKeyedOncePosted
<1>4. ASSUME NEW k \in {"sstv", "ft"}, ArmGuard(k)
      PROVE  FtKeyedOnce'
  <2> DEFINE g == Head(toIo).generation
  <2>1. /\ g \in Generations /\ (k = "sstv" => g \in Requested) /\ (k = "ft" => g \in FtBegins)
        /\ generation' = g
    BY <1>0, <1>4, TakesBegin DEF ArmGuard
  <2>2. /\ FtBegins' \subseteq FtBegins /\ Sounds' \subseteq Sounds /\ Scheduled' \subseteq Scheduled
        /\ Distinct(toIo', {"beginFt"})
    BY <1>0, <1>2, IoKept, SchedulesKept DEF FtBegins, Sounds, FtKeyedOnce
  <2>3. FtWaits' \subseteq FtWaits
    BY <1>1, <2>2 DEF FtWaits
  <2>4. g \notin FtWaits'
    <3>1. CASE k = "ft"
      <4>1. IoTakes("beginFt")
        BY <1>4, <3>1 DEF ArmGuard, BeginCall
      <4>2. g \notin FtBegins'
        BY <1>0, <4>1, IoTook DEF FtBegins, FtKeyedOnce
      <4>3. g \notin Scheduled /\ (phase = "waiting" => txGeneration # g)
        BY <2>1, <3>1 DEF FtKeyedOnce
      <4> HIDE DEF g
      <4> QED BY <1>1, <2>2, <4>2, <4>3 DEF FtWaits
    <3>2. CASE k = "sstv"
      <4>1. g \in SstvUses
        BY <2>1, <3>2 DEF SstvUses, Pending
      <4>2. FtWaits \subseteq FtUses
        BY <1>0, NoneWaitsForNothing
      <4> HIDE DEF g
      <4> QED BY <1>0, <2>3, <4>1, <4>2 DEF OwnFt, OwnGenerations
    <3> QED BY <3>1, <3>2
  <2> HIDE DEF g
  <2> QED BY <1>1, <2>1, <2>2, <2>3, <2>4 DEF FtKeyedOnce
<1> QED BY <1>0, <1>3, <1>4, IoGateCases

\* The frames of an image are labelled as its own.
LEMMA LabelIs ==
    ASSUME IInv, PreparesFirst, inside = "image"
    PROVE  Label = sstvGeneration
BY DEF IInv, FramesLeft, PreparesFirst, Label

(* The transmitter asks to be keyed once.                                  *)
LEMMA AudioFtKeyedOnce ==
    ASSUME IInv, OneOver, PreparesFirst, OwnFt, FtKeyedOnce, AudioThread
    PROVE  FtKeyedOnce'
<1>0. /\ Typed /\ OwnGenerations /\ txGeneration \in GenerationOrNone
      /\ sstvGeneration \in GenerationOrNone /\ generation' \in {0, generation}
      /\ 0 \notin FtWaits /\ FtWaits \subseteq FtUses \union FtBegins
      /\ "stopFt" \in IoCalls \ {"beginFt", "packet"} /\ "beginFt" \in IoCalls
  BY NumberTypes, OnlyClosed, NoneWaitsForNothing DEF IInv, IoCalls
<1>1. UNCHANGED toIo => IoWithout({"beginFt", "packet"})
  BY DEF IoWithout
<1>2. toIo' = toIo \o Call("stopFt", txGeneration) => IoWithout({"beginFt", "packet"})
  BY <1>0 DEF IoWithout
<1>3. /\ UNCHANGED toAudio => AudioWithout({"schedule"})
      /\ \A name : AudioTakes(name) => AudioWithout({"schedule"})
  BY DEF AudioWithout
<1>4. CASE TakePrepare \/ TakeAccepted \/ AudioPasses \/ AudioFails \/ Completes
  <2>1. /\ UNCHANGED txGeneration /\ phase' \in {phase, "idle"}
        /\ phase' = "idle" \/ UNCHANGED ftFrame
        /\ IoWithout({"beginFt", "packet"}) /\ AudioWithout({"schedule"})
    BY <1>1, <1>2, <1>3, <1>4
       DEF TakePrepare, TakeAccepted, AudioPasses, AudioFails, Fail, Completes, ftVars
  <2> QED BY <1>0, <2>1, FtKeyedOncePosted
<1>5. ASSUME NEW g \in GenerationOrNone, NEW n \in 0..Frames, toIo' = toIo \o Packet(g, n),
             UNCHANGED <<toAudio, txGeneration>>,
             phase' # "waiting" \/ UNCHANGED phase,
             phase' = "idle" <=> phase = "idle", phase' = "keying" <=> phase = "keying",
             phase' \in {"waiting", "keying"} => UNCHANGED ftFrame,
             g \notin FtWaits \/ (g = txGeneration /\ phase = "audio" /\ phase' # "waiting")
      PROVE  FtKeyedOnce'
  <2>1. FtBegins' = FtBegins /\ Sounds' = Sounds \union {g} /\ Scheduled' = Scheduled
    BY <1>0, <1>5, IoPacketPosts, SameQueues
  <2>2. Distinct(toIo', {"beginFt"})
    BY <1>0, <1>5, IoPacketPosted DEF FtKeyedOnce
  <2>3. FtWaits' \subseteq FtWaits
    BY <1>5, <2>1 DEF FtWaits
  <2>4. g \notin FtWaits'
    BY <1>5, <2>1, <2>3 DEF FtWaits, FtKeyedOnce, OneOver
  <2> QED BY <1>0, <1>5, <2>1, <2>2, <2>3, <2>4 DEF FtKeyedOnce
<1>6. CASE PostImage
  <2>1. inside = "image" /\ UNCHANGED <<toAudio, phase, txGeneration, ftFrame>>
    BY <1>6 DEF PostImage, ftVars
  <2>2. CASE UNCHANGED toIo
    BY <1>0, <1>1, <1>3, <2>1, <2>2, FtKeyedOncePosted
  <2>3. CASE toIo' = toIo \o Packet(Label, imageFrame + 1)
    <3>1. imageFrame + 1 \in 0..Frames
      <4>1. /\ sstvPrepared /\ imageFrame < Frames
            /\ imageFrame \in 0..Frames /\ Frames \in Nat
        BY <2>1, NumberTypes DEF IInv, FramesLeft, Typed, TypedAudio
      <4> QED BY <4>1
    <3>2. Label = sstvGeneration
      BY <2>1, LabelIs
    <3>3. sstvGeneration \notin FtWaits
      BY <1>0 DEF OwnFt
    <3> QED BY <1>0, <1>5, <2>1, <2>3, <3>1, <3>2, <3>3
  <2> QED BY <1>6, <2>2, <2>3 DEF PostImage
<1>7. CASE TakeSchedule
  <2> DEFINE g == Head(toAudio).generation
  <2>1. /\ Scheduled' \subseteq Scheduled /\ g \in Scheduled /\ g \notin Scheduled'
        /\ UNCHANGED <<toIo, generation>>
    BY <1>0, <1>7, AudioTook DEF TakeSchedule, Scheduled, OneOver, shared
  <2>2. FtBegins' = FtBegins /\ Sounds' = Sounds /\ Distinct(toIo', {"beginFt"})
    BY <2>1, SameQueues DEF FtKeyedOnce
  <2>3. CASE UNCHANGED <<phase, txGeneration, ftFrame>>
    BY <1>0, <2>1, <2>2, <2>3, FtKeyedOnceKept
  <2>4. CASE phase' = "waiting" /\ txGeneration' = g /\ ftFrame' = 0
    <3>1. FtWaits' \subseteq FtWaits
      BY <2>1, <2>2, <2>4 DEF FtWaits
    <3> QED BY <2>1, <2>2, <2>4, <3>1 DEF FtKeyedOnce
  <2> QED BY <1>7, <2>3, <2>4 DEF WaveCleared, TakeSchedule
<1>8. CASE RequestKey
  <2>1. /\ phase = "waiting" /\ phase' = "keying" /\ toIo' = toIo \o Call("beginFt", txGeneration)
        /\ UNCHANGED <<toAudio, generation, txGeneration, ftFrame>>
    BY <1>8 DEF RequestKey, Ticks, shared
  <2>2. txGeneration \notin FtBegins /\ Scheduled = {} /\ txGeneration \in FtWaits
    BY <2>1 DEF FtKeyedOnce, OneOver, FtWaits
  <2>3. /\ FtBegins' = FtBegins \union {txGeneration} /\ Sounds' = Sounds /\ Scheduled' = Scheduled
    BY <1>0, <2>1, IoPosts, SameQueues
  <2>4. Distinct(toIo', {"beginFt"})
    BY <1>0, <2>1, <2>2, IoPosted DEF FtBegins, FtKeyedOnce
  <2>5. FtWaits' \subseteq FtWaits
    BY <2>1, <2>2, <2>3 DEF FtWaits
  <2> QED BY <2>1, <2>2, <2>3, <2>4, <2>5 DEF FtKeyedOnce
<1>9. CASE StartAudio
  <2>1. /\ phase = "keying" /\ phase' = "audio" /\ Allows(txGeneration)
        /\ UNCHANGED <<toAudio, toIo, txGeneration>>
    BY <1>9 DEF StartAudio, Ticks, queues
  <2>2. txGeneration \notin FtBegins
    BY <2>1 DEF Allows, FtKeyedOnce, FtWaits
  <2>3. FtBegins' = FtBegins /\ Sounds' = Sounds /\ Scheduled' = Scheduled
        /\ Distinct(toIo', {"beginFt"})
    BY <2>1, SameQueues DEF FtKeyedOnce
  <2>4. FtWaits' \subseteq FtWaits
    BY <2>1, <2>3 DEF FtWaits
  <2> QED BY <1>0, <2>1, <2>2, <2>3, <2>4 DEF FtKeyedOnce
<1>10. CASE EmitFrame
  <2>1. /\ phase = "audio" /\ phase' \in {"audio", "drain"} /\ ftEncoding = txGeneration
        /\ UNCHANGED <<toAudio, txGeneration>>
        /\ UNCHANGED toIo \/ toIo' = toIo \o Packet(txGeneration, ftFrame + 1)
    BY <1>10 DEF EmitFrame, Ticks, PhaseAfterFrame
  <2>2. CASE UNCHANGED toIo
    <3>1. FtBegins' = FtBegins /\ Sounds' = Sounds /\ Scheduled' = Scheduled
          /\ Distinct(toIo', {"beginFt"})
      BY <2>1, <2>2, SameQueues DEF FtKeyedOnce
    <3>2. FtWaits' \subseteq FtWaits
      BY <2>1, <3>1 DEF FtWaits
    <3> QED BY <1>0, <2>1, <3>1, <3>2 DEF FtKeyedOnce
  <2>3. CASE toIo' = toIo \o Packet(txGeneration, ftFrame + 1)
    <3>1. ftFrame + 1 \in 0..Frames
      <4>1. ftFrame < Frames /\ ftFrame \in 0..Frames /\ Frames \in Nat
        BY <2>1, NumberTypes DEF IInv, FramesLeft, Typed, TypedAudio
      <4> QED BY <4>1
    <3> QED BY <1>0, <1>5, <2>1, <2>3, <3>1
  <2> QED BY <2>1, <2>2, <2>3
<1>11. CASE RequestUnkey
  <2>1. /\ phase = "drain" /\ phase' = "unkeying" /\ toIo' = toIo \o Call("stopFt", txGeneration)
        /\ UNCHANGED <<toAudio, txGeneration>>
    BY <1>11 DEF RequestUnkey, Ticks
  <2>2. FtBegins' = FtBegins /\ Sounds' = Sounds /\ Scheduled' = Scheduled
    BY <1>0, <2>1, IoPosts, SameQueues
  <2>3. Distinct(toIo', {"beginFt"})
    BY <1>0, <2>1, IoPosted DEF FtKeyedOnce
  <2>4. FtWaits' \subseteq FtWaits
    BY <2>1, <2>2 DEF FtWaits
  <2> QED BY <1>0, <2>1, <2>2, <2>3, <2>4 DEF FtKeyedOnce
<1> QED BY <1>0, <1>4, <1>6, <1>7, <1>8, <1>9, <1>10, <1>11, AudioCases

(* An over waits to be keyed in one place.                                 *)
LEMMA FtKeyedOnceStep ==
    IInv /\ OneOver /\ PreparesFirst /\ OwnFt /\ FtKeyedOnce /\ [Next]_vars => FtKeyedOnce'
<1> SUFFICES ASSUME IInv, OneOver, PreparesFirst, OwnFt, FtKeyedOnce, [Next]_vars
             PROVE  FtKeyedOnce'
  OBVIOUS
<1>1. CASE UNCHANGED vars
  <2>1. UNCHANGED <<toIo, toAudio, generation, phase, txGeneration, ftFrame>>
    BY <1>1 DEF vars, shared, queues, audioVars, ftVars
  <2>2. IoWithout({"beginFt", "packet"}) /\ AudioWithout({"schedule"})
    BY <2>1 DEF IoWithout, AudioWithout
  <2> QED BY <2>1, <2>2, FtKeyedOncePosted
<1> QED BY <1>1, UiFtKeyedOnce, IoFtKeyedOnce, AudioFtKeyedOnce DEF Next

(***************************************************************************)
(* The frames of a transmission are written in order, or are queued        *)
(***************************************************************************)
\* Frame m of g was written while the radio transmitted for g.
Reached(h, g, m) == [gen |-> g, frame |-> m, over |-> g] \in h
\* A packet with frame m of g is among the first n calls.
QueuedBy(q, g, m, n) ==
    \E j \in 1..n : q[j] = [name |-> "packet", generation |-> g, frame |-> m]
\* The first n frames of g were written or are queued.
Covered(h, q, g, n) == \A m \in 1..n : Reached(h, g, m) \/ QueuedBy(q, g, m, Len(q))
\* The frames before a queued one were written or are queued before it.
Preceded(h, q, g) ==
    \A i \in 1..Len(q) :
        q[i].name = "packet" /\ q[i].generation = g =>
            \A m \in 1..q[i].frame - 1 : Reached(h, g, m) \/ QueuedBy(q, g, m, i - 1)

(* A packet queued stays where it is.                                      *)
LEMMA QueuedByAppend ==
    ASSUME NEW S, NEW q \in Seq(S), NEW c \in S, NEW g, NEW m, NEW n \in 0..Len(q),
           QueuedBy(q, g, m, n)
    PROVE  QueuedBy(Append(q, c), g, m, n) /\ QueuedBy(Append(q, c), g, m, Len(Append(q, c)))
<1> DEFINE t == Append(q, c)
<1>1. /\ Len(q) \in Nat /\ Len(t) = Len(q) + 1
      /\ \A i \in 1..Len(q) : t[i] = q[i]
  BY AppendIs
<1>2. PICK j \in 1..n : q[j] = [name |-> "packet", generation |-> g, frame |-> m]
  BY DEF QueuedBy
<1>3. j \in 1..Len(q) /\ j \in 1..Len(t)
  BY <1>1, <1>2
<1> HIDE DEF t
<1>4. t[j] = [name |-> "packet", generation |-> g, frame |-> m]
  BY <1>1, <1>2, <1>3
<1>5. QueuedBy(t, g, m, n) /\ QueuedBy(t, g, m, Len(t))
  BY <1>2, <1>3, <1>4 DEF QueuedBy
<1> QED BY <1>5 DEF t

(* The next frame extends what is covered.                                 *)
LEMMA CoveredAppend ==
    ASSUME NEW h, NEW S, NEW q \in Seq(S), NEW c \in S, NEW g, NEW n \in Nat,
           Covered(h, q, g, n)
    PROVE  /\ Covered(h, Append(q, c), g, n)
           /\ c = [name |-> "packet", generation |-> g, frame |-> n + 1]
              => Covered(h, Append(q, c), g, n + 1)
<1>0. Len(q) \in Nat
  BY AppendIs
<1>1. Covered(h, Append(q, c), g, n)
  <2> SUFFICES ASSUME NEW m \in 1..n, ~Reached(h, g, m)
               PROVE  QueuedBy(Append(q, c), g, m, Len(Append(q, c)))
    BY DEF Covered
  <2>1. QueuedBy(q, g, m, Len(q)) /\ Len(q) \in 0..Len(q)
    BY <1>0 DEF Covered
  <2> QED BY <2>1, QueuedByAppend
<1>2. ASSUME c = [name |-> "packet", generation |-> g, frame |-> n + 1]
      PROVE  Covered(h, Append(q, c), g, n + 1)
  <2> DEFINE t == Append(q, c)
  <2>1. t[Len(t)] = c /\ Len(t) \in 1..Len(t)
    BY <1>0, AppendIs
  <2>2. QueuedBy(t, g, n + 1, Len(t))
    <3> HIDE DEF t
    <3> QED BY <1>2, <2>1 DEF QueuedBy
  <2>3. \A m \in 1..n + 1 : m \in 1..n \/ m = n + 1
    OBVIOUS
  <2> QED BY <1>1, <2>2, <2>3 DEF Covered
<1> QED BY <1>1, <1>2

(* A frame may be queued when those before it are.                         *)
LEMMA PrecededAppend ==
    ASSUME NEW h, NEW S, NEW q \in Seq(S), NEW c \in S, NEW g,
           Preceded(h, q, g),
           c.name = "packet" /\ c.generation = g => Covered(h, q, g, c.frame - 1)
    PROVE  Preceded(h, Append(q, c), g)
<1> DEFINE t == Append(q, c)
<1>1. /\ Len(q) \in Nat /\ Len(t) = Len(q) + 1
      /\ \A i \in 1..Len(q) : t[i] = q[i]
      /\ t[Len(q) + 1] = c
  BY AppendIs
<1>2. \A k, m : \A n \in 0..Len(q) : QueuedBy(q, k, m, n) => QueuedBy(t, k, m, n)
  BY QueuedByAppend
<1> HIDE DEF t
<1>3. ASSUME NEW i \in 1..Len(t), t[i].name = "packet", t[i].generation = g,
             NEW m \in 1..t[i].frame - 1, ~Reached(h, g, m)
      PROVE  QueuedBy(t, g, m, i - 1)
  <2>1. CASE i \in 1..Len(q)
    <3>1. QueuedBy(q, g, m, i - 1)
      BY <1>1, <1>3, <2>1 DEF Preceded
    <3>2. i - 1 \in 0..Len(q)
      BY <1>1, <2>1
    <3> QED BY <1>2, <3>1, <3>2
  <2>2. CASE i = Len(q) + 1
    <3>1. QueuedBy(q, g, m, Len(q))
      BY <1>1, <1>3, <2>2 DEF Covered
    <3>2. i - 1 = Len(q) /\ Len(q) \in 0..Len(q)
      BY <1>1, <2>2
    <3> QED BY <1>2, <3>1, <3>2
  <2>3. i \in 1..Len(q) \/ i = Len(q) + 1
    BY <1>1
  <2> QED BY <2>1, <2>2, <2>3
<1>4. Preceded(h, t, g)
  BY <1>3 DEF Preceded
<1> QED BY <1>4 DEF t

(* A packet taken was the head; the others move up.                        *)
LEMMA QueuedByTail ==
    ASSUME NEW S, NEW q \in Seq(S), q # <<>>, NEW g, NEW m, NEW n \in 1..Len(q),
           QueuedBy(q, g, m, n)
    PROVE  \/ Head(q) = [name |-> "packet", generation |-> g, frame |-> m]
           \/ QueuedBy(Tail(q), g, m, n - 1)
<1> DEFINE t == Tail(q)
<1>1. /\ Len(q) \in Nat \ {0} /\ Len(t) = Len(q) - 1
      /\ \A i \in 1..Len(q) - 1 : t[i] = q[i + 1]
      /\ Head(q) = q[1]
  BY TailIs
<1>2. PICK j \in 1..n : q[j] = [name |-> "packet", generation |-> g, frame |-> m]
  BY DEF QueuedBy
<1> HIDE DEF t
<1>3. CASE j = 1
  BY <1>1, <1>2, <1>3
<1>4. CASE j # 1
  <2>1. j - 1 \in 1..n - 1 /\ j - 1 \in 1..Len(q) - 1 /\ (j - 1) + 1 = j
    BY <1>1, <1>2, <1>4
  <2>2. t[j - 1] = [name |-> "packet", generation |-> g, frame |-> m]
    BY <1>1, <1>2, <2>1
  <2>3. QueuedBy(t, g, m, n - 1)
    BY <2>1, <2>2 DEF QueuedBy
  <2> QED BY <2>3 DEF t
<1> QED BY <1>3, <1>4

\* The head is taken, and written if it is a frame of g.
LEMMA FramesTail ==
    ASSUME NEW h, NEW k, h \subseteq k, NEW S, NEW q \in Seq(S), q # <<>>, NEW g,
           Head(q).name = "packet" /\ Head(q).generation = g => Reached(k, g, Head(q).frame)
    PROVE  /\ Preceded(h, q, g) => Preceded(k, Tail(q), g)
           /\ \A n \in Nat : Covered(h, q, g, n) => Covered(k, Tail(q), g, n)
<1> DEFINE t == Tail(q)
<1>1. /\ Len(q) \in Nat \ {0} /\ Len(t) = Len(q) - 1
      /\ \A i \in 1..Len(q) - 1 : t[i] = q[i + 1]
  BY TailIs
<1>2. ASSUME NEW m, NEW n \in 1..Len(q), Reached(h, g, m) \/ QueuedBy(q, g, m, n)
      PROVE  Reached(k, g, m) \/ QueuedBy(t, g, m, n - 1)
  <2>1. CASE Reached(h, g, m)
    BY <2>1 DEF Reached
  <2>2. CASE QueuedBy(q, g, m, n)
    <3>1. \/ Head(q) = [name |-> "packet", generation |-> g, frame |-> m]
          \/ QueuedBy(t, g, m, n - 1)
      BY <2>2, QueuedByTail
    <3> HIDE DEF t
    <3> QED BY <3>1
  <2> QED BY <1>2, <2>1, <2>2
<1> HIDE DEF t
<1>3. ASSUME Preceded(h, q, g) PROVE Preceded(k, t, g)
  <2> SUFFICES ASSUME NEW i \in 1..Len(t), t[i].name = "packet", t[i].generation = g,
                      NEW m \in 1..t[i].frame - 1
               PROVE  Reached(k, g, m) \/ QueuedBy(t, g, m, i - 1)
    BY DEF Preceded
  <2>1. i + 1 \in 1..Len(q) /\ (i + 1) - 1 = i /\ i \in 1..Len(q) /\ t[i] = q[i + 1]
    BY <1>1
  <2>2. Reached(h, g, m) \/ QueuedBy(q, g, m, i)
    <3>1. q[i + 1].name = "packet" /\ q[i + 1].generation = g /\ m \in 1..q[i + 1].frame - 1
      BY <2>1
    <3>2. Reached(h, g, m) \/ QueuedBy(q, g, m, (i + 1) - 1)
      BY <1>3, <2>1, <3>1 DEF Preceded
    <3> QED BY <2>1, <3>2
  <2> QED BY <1>2, <2>1, <2>2
<1>4. ASSUME NEW n \in Nat, Covered(h, q, g, n) PROVE Covered(k, t, g, n)
  <2>1. Len(q) \in 1..Len(q) /\ Len(q) - 1 = Len(t)
    BY <1>1
  <2> QED BY <1>2, <1>4, <2>1 DEF Covered
<1> QED BY <1>3, <1>4 DEF t

(* More that was heard takes nothing away.                                 *)
LEMMA FramesMore ==
    ASSUME NEW h, NEW k, h \subseteq k, NEW q, NEW g
    PROVE  /\ Preceded(h, q, g) => Preceded(k, q, g)
           /\ \A n : Covered(h, q, g, n) => Covered(k, q, g, n)
<1>1. \A m : Reached(h, g, m) => Reached(k, g, m)
  BY DEF Reached
<1> QED BY <1>1 DEF Preceded, Covered

(***************************************************************************)
(* The first frame of an image is made after the radio was keyed for it    *)
(***************************************************************************)
HandedOn == Prepared \union Requested

(* The UI thread asks for an image with a generation of its own.           *)
LEMMA UiPending ==
    ASSUME IInv, UiThread
    PROVE  /\ Asked' = Asked \/ (StartSstv /\ Asked' = Asked \union {Issued})
           /\ HandedOn' \subseteq HandedOn
<1>0. /\ Typed /\ lastGeneration \in GenerationOrNone /\ ft \in GenerationOrNone
      /\ 0 \in GenerationOrNone /\ Generations \subseteq GenerationOrNone
  BY NumberTypes DEF IInv
<1>1. ASSUME Quiet PROVE Asked' = Asked /\ HandedOn' \subseteq HandedOn
  BY <1>1 DEF Quiet, QuietUi, QuietAudio, QuietIo, HandedOn
<1>2. \A name \in {"acknowledge", "stop", "stopFt"}, g \in GenerationOrNone :
          toIo' = toIo \o Call(name, g) => Requested' = Requested
  <2>1. \A name \in {"acknowledge", "stop", "stopFt"} : name \in IoCalls /\ name # "beginSstv"
    BY DEF IoCalls
  <2> QED BY <1>0, <2>1, IoPosts
<1>3. \A name \in {"schedule", "beginSstv", "stopSstv", "cancel"}, g \in GenerationOrNone :
          toAudio' = toAudio \o Call(name, g) => Asked' = Asked
  <2>1. \A name \in {"schedule", "beginSstv", "stopSstv", "cancel"} :
            name \in AudioCalls /\ name # "prepare"
    BY DEF AudioCalls
  <2> QED BY <1>0, <2>1, AudioPosts
<1>4. UiQuietTake => Prepared' \subseteq Prepared
  BY UiQueueQuiet DEF UiQuietTake, QuietUi
<1>5. CASE StartSstv
  <2>1. /\ toIo' = toIo \o Call("acknowledge", 0) /\ toAudio' = toAudio \o Call("prepare", Issued)
        /\ UNCHANGED toUi /\ Issued \in GenerationOrNone
    BY <1>5, IssuedIs DEF StartSstv, IInv
  <2>2. "prepare" \in AudioCalls
    BY DEF AudioCalls
  <2>3. Asked' = Asked \union {Issued}
    BY <1>0, <2>1, <2>2, AudioPosts
  <2> QED BY <1>0, <1>2, <1>5, <2>1, <2>3, SameQueues DEF HandedOn
<1>6. ASSUME NEW operator \in BOOLEAN, StartFt(operator)
      PROVE  Asked' = Asked /\ HandedOn' \subseteq HandedOn
  <2>1. /\ toIo' = toIo \o (IF operator THEN Call("acknowledge", 0) ELSE <<>>)
        /\ toAudio' = toAudio \o Call("schedule", Issued)
        /\ UNCHANGED toUi /\ Issued \in GenerationOrNone
    BY <1>6, IssuedIs DEF StartFt, IInv
  <2>2. toIo' = toIo \/ toIo' = toIo \o Call("acknowledge", 0)
    <3>1. toIo \o <<>> = toIo
      BY <1>0, QueueTypes, ConcatEmptySeq
    <3> QED BY <2>1, <3>1
  <2>3. Requested' = Requested
    BY <1>0, <1>2, <2>2, SameQueues
  <2> QED BY <1>3, <2>1, <2>3, SameQueues DEF HandedOn
<1>7. CASE UiStopsSstv \/ UiStopsFt
  <2>1. Requested' = Requested /\ Asked' = Asked
    BY <1>0, <1>2, <1>3, <1>7 DEF UiStopsSstv, UiStopsFt, StopSstv, StopFt
  <2> QED BY <1>4, <1>7, <2>1 DEF UiStopsSstv, UiStopsFt, HandedOn
<1>8. ASSUME NEW g \in Generations, DrainElapsed(g)
      PROVE  Asked' = Asked /\ HandedOn' \subseteq HandedOn
  <2>1. UNCHANGED <<toUi, toAudio>> /\ (UNCHANGED toIo \/ toIo' = toIo \o Call("stop", g))
    BY <1>8 DEF DrainElapsed
  <2> QED BY <1>0, <1>2, <2>1, SameQueues DEF HandedOn
<1>9. CASE OnPrepared
  <2>1. Asked' = Asked
    BY <1>9, SameQueues DEF OnPrepared
  <2>2. CASE UNCHANGED toIo
    <3>1. Prepared' \subseteq Prepared
      BY <1>9, UiQueueQuiet DEF OnPrepared, QuietUi
    <3> QED BY <2>1, <2>2, <3>1, SameQueues DEF HandedOn
  <2>3. CASE /\ UiTakes("prepared")
             /\ toIo' = toIo \o Call("beginSstv", Head(toUi).generation)
    <3> DEFINE g == Head(toUi).generation
    <3>1. Prepared = Prepared' \union {g} /\ g \in GenerationOrNone
      BY <1>0, <2>3, UiTaken, UiTake
    <3>2. "beginSstv" \in IoCalls
      BY DEF IoCalls
    <3>3. Requested' = Requested \union {g}
      BY <1>0, <2>3, <3>1, <3>2, IoPosts
    <3> QED BY <2>1, <3>1, <3>3 DEF HandedOn
  <2> QED BY <1>9, <2>2, <2>3 DEF OnPrepared
<1> QED BY <1>1, <1>5, <1>6, <1>7, <1>8, <1>9, UiQuiet, UiCases

(* Where an image that waits can go.                                       *)
LEMMA PendingMoves ==
    ASSUME IInv, [Next]_vars
    PROVE  /\ Asked' \subseteq Asked \/ (StartSstv /\ Asked' = Asked \union {Issued})
           /\ ~TakePrepare => HandedOn' \subseteq HandedOn /\ sstvGeneration' = sstvGeneration
           /\ TakePrepare => /\ Head(toAudio).generation \in Asked
                             /\ Head(toAudio).generation \notin Asked'
                             /\ Head(toAudio).generation \in GenerationOrNone
                             /\ HandedOn' \subseteq HandedOn \union {Head(toAudio).generation}
                             /\ sstvGeneration' = Head(toAudio).generation
<1>0. Typed /\ KeyedOnce
  BY DEF IInv
<1>1. CASE UiThread
  <2>1. ~TakePrepare
    <3>1. UiThread => UNCHANGED audioVars
      BY OthersKept
    <3>2. TakePrepare => sstvGeneration' # sstvGeneration
      <4>1. ASSUME TakePrepare PROVE Head(toAudio).generation # sstvGeneration
        <5>1. AudioTakes("prepare") /\ Rising(toAudio, {"prepare"}, sstvGeneration)
          BY <1>0, <4>1 DEF TakePrepare, KeyedOnce
        <5>2. sstvGeneration < Head(toAudio).generation
          BY <1>0, <5>1, AudioTaken
        <5>3. sstvGeneration \in Nat
          BY <1>0, NumberTypes
        <5> QED BY <5>2, <5>3
      <4> QED BY <4>1 DEF TakePrepare
    <3> QED BY <1>1, <3>1, <3>2 DEF audioVars, sstvVars
  <2>2. UNCHANGED sstvGeneration
    BY <1>1, OthersKept DEF audioVars, sstvVars
  <2> QED BY <1>1, <2>1, <2>2, UiPending
<1>2. CASE ~UiThread /\ ~TakePrepare
  <2>1. CASE IoThread
    <3>1. Prepared' \subseteq Prepared
      <4>1. UiWithout({"prepared"})
        BY <2>1, IoMoves DEF UiWithout, UiCalls
      <4> QED BY <1>0, <4>1, UiKept DEF Prepared
    <3>2. Requested' \subseteq Requested
      <4>1. IoWithout({"beginSstv"})
        BY <2>1, IoMoves DEF IoWithout
      <4> QED BY <1>0, <4>1, IoKept DEF Requested
    <3>3. Asked' \subseteq Asked
      <4>1. AudioWithout({"prepare"})
        BY <2>1, IoMoves DEF AudioWithout, AudioCalls
      <4> QED BY <1>0, <4>1, AudioKept DEF Asked
    <3>4. UNCHANGED sstvGeneration
      BY <2>1, IoMoves DEF audioVars, sstvVars
    <3> QED BY <1>2, <3>1, <3>2, <3>3, <3>4 DEF HandedOn
  <2>2. CASE AudioThread
    <3>1. Quiet
      BY <1>2, <2>2, AudioStepQuiet
    <3> QED BY <1>2, <3>1 DEF Quiet, QuietUi, QuietAudio, QuietIo, HandedOn
  <2>3. CASE UNCHANGED vars
    <3>1. UNCHANGED <<toUi, toIo, toAudio, sstvGeneration>>
      BY <2>3 DEF vars, queues, audioVars, sstvVars
    <3> QED BY <1>2, <3>1, SameQueues DEF HandedOn
  <2> QED BY <1>2, <2>1, <2>2, <2>3 DEF Next
<1>3. CASE TakePrepare
  <2> DEFINE g == Head(toAudio).generation
  <2>1. /\ AudioTakes("prepare") /\ UNCHANGED toIo /\ sstvGeneration' = g
        /\ \E name \in {"prepared", "notPrepared"} : toUi' = toUi \o Call(name, g)
    BY <1>3 DEF TakePrepare
  <2>2. Asked = Asked' \union {g} /\ g \in GenerationOrNone /\ g \notin Asked'
    <3>1. /\ Asked = Asked' \union {g} /\ g \in GenerationOrNone /\ \A k \in Asked' : g < k
      BY <1>0, <2>1, AudioTaken, AudioTake DEF KeyedOnce
    <3>2. g \in Nat
      BY <1>0, <3>1, NumberTypes
    <3> QED BY <3>1, <3>2
  <2> HIDE DEF g
  <2>3. Prepared' \subseteq Prepared \union {g}
    <3>1. {"prepared", "notPrepared"} \subseteq UiCalls
      BY DEF UiCalls
    <3> QED BY <1>0, <2>1, <2>2, <3>1, UiPosts
  <2>4. Requested' = Requested
    BY <2>1, SameQueues
  <2> QED BY <1>3, <2>1, <2>2, <2>3, <2>4 DEF HandedOn, g
<1> QED BY <1>1, <1>2, <1>3

ImageStarts == sstvGeneration \in HandedOn => imageFrame = 0

(* An image that waits to be keyed has no frame yet.                       *)
LEMMA ImageStartsStep == IInv /\ ImageStarts /\ [Next]_vars => ImageStarts'
<1> SUFFICES ASSUME IInv, ImageStarts, [Next]_vars PROVE ImageStarts'
  OBVIOUS
<1>0. Typed /\ KeyedOnce
  BY DEF IInv
<1>1. CASE TakePrepare
  <2> DEFINE g == Head(toAudio).generation
  <2>1. /\ AudioTakes("prepare") /\ UNCHANGED toIo /\ sstvGeneration' = g /\ g \in GenerationOrNone
        /\ imageFrame' = 0 \/ toUi' = toUi \o Call("notPrepared", g)
    BY <1>1, PendingMoves DEF TakePrepare
  <2>2. g \in Asked
    BY <1>1, PendingMoves
  <2>3. g \notin HandedOn
    BY <1>0, <2>2 DEF KeyedOnce, HandedOn
  <2> HIDE DEF g
  <2>4. CASE toUi' = toUi \o Call("notPrepared", g)
    <3>1. "notPrepared" \in UiCalls
      BY DEF UiCalls
    <3>2. HandedOn' = HandedOn
      BY <1>0, <2>1, <2>4, <3>1, UiPosts, SameQueues DEF HandedOn
    <3> QED BY <2>1, <2>3, <3>2 DEF ImageStarts
  <2> QED BY <2>1, <2>4 DEF ImageStarts
<1>2. CASE ~TakePrepare
  <2>1. HandedOn' \subseteq HandedOn /\ sstvGeneration' = sstvGeneration
    BY <1>2, PendingMoves
  <2>2. CASE UNCHANGED imageFrame
    BY <2>1, <2>2 DEF ImageStarts
  <2>3. CASE ~UNCHANGED imageFrame
    <3>1. AudioThread
      BY <2>3, OthersKept DEF Next, vars, audioVars, sstvVars
    <3>2. PostImage
      <4>1. TakeSchedule \/ TakeAccepted \/ RequestKey \/ StartAudio \/ EmitFrame \/ RequestUnkey
            => UNCHANGED imageFrame
        BY DEF TakeSchedule, TakeAccepted, RequestKey, StartAudio, EmitFrame, RequestUnkey, sstvVars
      <4>2. AudioFails \/ Completes \/ AudioPasses => UNCHANGED imageFrame
        BY DEF AudioFails, Fail, Completes, AudioPasses, sstvVars
      <4> QED BY <1>0, <1>2, <2>3, <3>1, <4>1, <4>2, AudioCases
    <3>3. sstvGeneration \notin Pending
      BY <1>0, <3>2 DEF PostImage, KeyedOnce
    <3> QED BY <2>1, <3>3 DEF ImageStarts, Pending, HandedOn
  <2> QED BY <2>2, <2>3
<1> QED BY <1>1, <1>2

(***************************************************************************)
(* The frames of the open transmission                                     *)
(***************************************************************************)
FramesFollow ==
    generation # 0 =>
        /\ Preceded(heard, toIo, generation)
        /\ generation = sstvGeneration => Covered(heard, toIo, generation, imageFrame)
        /\ phase # "idle" /\ generation = txGeneration
           => Covered(heard, toIo, generation, ftFrame)

\* What was written or queued stays so.
FramesHeld(g) ==
    /\ Preceded(heard, toIo, g) => Preceded(heard', toIo', g)
    /\ \A n \in Nat : Covered(heard, toIo, g, n) => Covered(heard', toIo', g, n)

(* Calls that are no packets leave the frames.                             *)
LEMMA FramesPosted ==
    ASSUME Typed, heard \subseteq heard', NEW names, "packet" \in names, IoWithout(names),
           \A name : ~IoTakes(name)
    PROVE  \A g : FramesHeld(g)
<1>0. toIo \in Seq(Posted(IoCalls))
  BY QueueTypes
<1>1. UNCHANGED toIo => \A g : FramesHeld(g)
  BY FramesMore DEF FramesHeld
<1>2. ASSUME NEW name \in IoCalls \ names, NEW k \in GenerationOrNone,
             toIo' = toIo \o Call(name, k), NEW g
      PROVE  FramesHeld(g)
  <2> DEFINE c == [name |-> name, generation |-> k, frame |-> 0]
  <2>1. c \in Posted(IoCalls) /\ toIo' = Append(toIo, c) /\ c.name # "packet"
    BY <1>0, <1>2, CallIs
  <2> HIDE DEF c
  <2>2. /\ Preceded(heard, toIo, g) => Preceded(heard, toIo', g)
        /\ \A n \in Nat : Covered(heard, toIo, g, n) => Covered(heard, toIo', g, n)
    BY <1>0, <2>1, PrecededAppend, CoveredAppend
  <2>3. /\ Preceded(heard, toIo', g) => Preceded(heard', toIo', g)
        /\ \A n : Covered(heard, toIo', g, n) => Covered(heard', toIo', g, n)
    BY FramesMore
  <2> QED BY <2>2, <2>3 DEF FramesHeld
<1> QED BY <1>1, <1>2 DEF IoWithout

(* So does a packet that is written, or any call taken.                    *)
LEMMA FramesTaken ==
    ASSUME Typed, heard \subseteq heard', NEW name, IoTakes(name), NEW g,
           name = "packet" /\ Head(toIo).generation = g => Reached(heard', g, Head(toIo).frame)
    PROVE  FramesHeld(g)
<1>1. /\ toIo \in Seq(Posted(IoCalls)) /\ toIo # <<>> /\ Head(toIo).name = name
      /\ toIo' = Tail(toIo)
  BY QueueTypes, TakenIs DEF IoTakes
<1> QED BY <1>1, FramesTail DEF FramesHeld

(* So do steps that make no frame.                                         *)
LEMMA FramesKept ==
    ASSUME Typed, FramesFollow, generation' \in {0, generation},
           generation' # 0 => FramesHeld(generation),
           generation' # 0 /\ generation' = sstvGeneration'
               => generation = sstvGeneration /\ UNCHANGED imageFrame,
           generation' # 0 /\ phase' # "idle" /\ generation' = txGeneration'
               => phase # "idle" /\ generation = txGeneration /\ UNCHANGED ftFrame
    PROVE  FramesFollow'
<1>1. imageFrame \in Nat /\ ftFrame \in Nat
  BY NumberTypes DEF Typed, TypedAudio
<1> SUFFICES ASSUME generation' # 0
             PROVE  /\ Preceded(heard', toIo', generation')
                    /\ generation' = sstvGeneration'
                       => Covered(heard', toIo', generation', imageFrame')
                    /\ phase' # "idle" /\ generation' = txGeneration'
                       => Covered(heard', toIo', generation', ftFrame')
  BY DEF FramesFollow
<1>2. generation' = generation /\ generation # 0 /\ FramesHeld(generation)
  OBVIOUS
<1>3. Preceded(heard', toIo', generation')
  BY <1>2 DEF FramesFollow, FramesHeld
<1>4. ASSUME generation' = sstvGeneration' PROVE Covered(heard', toIo', generation', imageFrame')
  <2>1. Covered(heard, toIo, generation, imageFrame) /\ UNCHANGED imageFrame
    BY <1>2, <1>4 DEF FramesFollow
  <2> QED BY <1>1, <1>2, <2>1 DEF FramesHeld
<1>5. ASSUME phase' # "idle", generation' = txGeneration'
      PROVE  Covered(heard', toIo', generation', ftFrame')
  <2>1. Covered(heard, toIo, generation, ftFrame) /\ UNCHANGED ftFrame
    BY <1>2, <1>5 DEF FramesFollow
  <2> QED BY <1>1, <1>2, <2>1 DEF FramesHeld
<1> QED BY <1>3, <1>4, <1>5

\* A packet of the open transmission is written, or the transmission closed.
LEMMA OpenIsWritten ==
    ASSUME IInv, OnlyConnected, IoThread, IoTakes("packet"), generation' # 0,
           generation' = generation, Head(toIo).generation = generation
    PROVE  /\ PacketHeard
           /\ heard' = heard \union {[gen |-> generation, frame |-> Head(toIo).frame,
                                      over |-> generation]}
<1>0. GateIsGuarded
  BY DEF IInv
<1>1. toIo \in Seq(Posted(IoCalls)) /\ toIo # <<>> /\ toIo' = Tail(toIo)
      /\ Head(toIo).name = "packet"
  BY QueueTypes, TakenIs DEF IoTakes, IInv
<1>2. toIo' # toIo
  <2>1. Len(Tail(toIo)) # Len(toIo)
    BY <1>1, TailIs
  <2> QED BY <1>1, <2>1
<1>3. PacketTaken
  <2>1. ~TakeAcknowledge /\ ~TakeStop /\ ~TakeStopFt
    BY <1>1 DEF TakeAcknowledge, TakeStop, TakeStopFt, IoTakes, AtHead
  <2>2. \A k \in {"sstv", "ft"} : ~RefuseBegin(k) /\ ~ArmGuard(k)
    BY <1>1 DEF RefuseBegin, ArmGuard, BeginCall, IoTakes, AtHead
  <2>3. TripCancelled \/ TripOnReadings \/ ConnectionLost \/ Reconnected => UNCHANGED toIo
    BY DEF TripCancelled, TripOnReadings, ConnectionLost, Reconnected, queues
  <2>4. \A g : DrainPoll(g) => UNCHANGED toIo
    BY DEF DrainPoll
  <2>5. Busies \/ SlotLost \/ KeyRadio => UNCHANGED toIo
    BY BusyIs, SlotLostIs DEF KeyRadio, queues
  <2> QED BY <1>2, <2>1, <2>2, <2>3, <2>4, <2>5, IoActsIs DEF IoActs
<1>4. /\ active /\ generation = myGeneration /\ Allows(generation)
      /\ ioInside = "loop" => PacketWanted(generation)
      /\ gateOpen => onAir = generation
  BY <1>0 DEF GateIsGuarded, OnlyConnected, PacketWanted, Allows
<1>5. ~TripGuard
  <2>1. TripGuard => generation' = 0
    BY <1>4 DEF TripGuard, Unkey, Closed
  <2> QED BY <2>1
<1>6. PacketHeard
  BY <1>3, <1>4, <1>5 DEF PacketTaken, PacketDropped, PacketTrips
<1>7. gateOpen
  BY <1>0, <1>6 DEF GateIsGuarded, PacketHeard
<1> QED BY <1>4, <1>6, <1>7 DEF PacketHeard

(* The UI thread makes no frame.                                           *)
LEMMA UiFramesFollow ==
    ASSUME IInv, FramesFollow, UiThread
    PROVE  FramesFollow'
<1>1. /\ Typed /\ UNCHANGED <<heard, sstvGeneration, imageFrame, phase, txGeneration, ftFrame>>
      /\ generation' \in {0, generation}
  BY OthersKept, OnlyClosed DEF ioVars, ioData, audioVars, sstvVars, ftVars, IInv
<1>2. toIo' = toIo \/ \E name \in IoCalls \ {"packet"}, g \in GenerationOrNone :
                          toIo' = toIo \o Call(name, g)
  BY UiMoves DEF IoMore, IoCalls
<1>3. \A name : ~IoTakes(name)
  <2>1. Len(toIo) \in Nat /\ (toIo # <<>> => Len(Tail(toIo)) = Len(toIo) - 1)
    BY <1>1, QueueTypes, TailIs
  <2>2. Len(toIo') = Len(toIo) \/ Len(toIo') = Len(toIo) + 1
    <3>1. ASSUME NEW name \in IoCalls \ {"packet"}, NEW g \in GenerationOrNone
          PROVE  Len(toIo \o Call(name, g)) = Len(toIo) + 1
      <4> DEFINE c == [name |-> name, generation |-> g, frame |-> 0]
      <4>1. /\ toIo \in Seq(Posted(IoCalls)) /\ c \in Posted(IoCalls)
            /\ toIo \o Call(name, g) = Append(toIo, c)
        BY <1>1, QueueTypes, CallIs
      <4> HIDE DEF c
      <4> QED BY <4>1, AppendIs
    <3> QED BY <1>2, <3>1
  <2> QED BY <2>1, <2>2 DEF IoTakes, AtHead
<1>4. \A g : FramesHeld(g)
  BY <1>1, <1>2, <1>3, FramesPosted DEF IoWithout
<1> QED BY <1>1, <1>4, FramesKept

(* The I/O thread writes the frames of the open gate in turn.              *)
LEMMA IoFramesFollow ==
    ASSUME IInv, OnlyConnected, OwnFt, FtKeyedOnce, ImageStarts, FramesFollow, IoThread
    PROVE  FramesFollow'
<1>0. /\ Typed /\ OwnGenerations /\ KeyedOnce /\ GateIsGuarded /\ heard \subseteq heard'
  BY HeardKept DEF IInv, Next
<1>1. UNCHANGED <<sstvGeneration, imageFrame, phase, txGeneration, ftFrame>>
  BY IoMoves DEF audioVars, sstvVars, ftVars
<1>2. CASE generation' \in {0, generation}
  <2>1. ASSUME generation' # 0 PROVE FramesHeld(generation)
    <3>1. CASE UNCHANGED toIo
      BY <1>0, <3>1, FramesMore DEF FramesHeld
    <3>2. ASSUME NEW name, IoTakes(name) PROVE FramesHeld(generation)
      <4>1. ASSUME name = "packet", Head(toIo).generation = generation
            PROVE  Reached(heard', generation, Head(toIo).frame)
        BY <1>2, <2>1, <3>2, <4>1, OpenIsWritten DEF Reached
      <4> QED BY <1>0, <3>2, <4>1, FramesTaken
    <3> QED BY <3>1, <3>2, IoMoves
  <2> QED BY <1>0, <1>1, <1>2, <2>1, FramesKept
<1>3. ASSUME NEW k \in {"sstv", "ft"}, ArmGuard(k)
      PROVE  FramesFollow'
  <2> DEFINE g == Head(toIo).generation
  <2>1. /\ g \in Generations /\ (k = "sstv" => g \in Requested) /\ (k = "ft" => g \in FtBegins)
        /\ generation' = g
    BY <1>0, <1>3, TakesBegin DEF ArmGuard
  <2>2. g \notin Sounds'
    <3>1. Sounds' \subseteq Sounds
      BY <1>0, IoMoves, IoKept DEF Sounds, IoWithout
    <3>2. g \notin Sounds
      BY <1>0, <2>1 DEF KeyedOnce, Pending, FtKeyedOnce, FtWaits
    <3> QED BY <3>1, <3>2
  <2> HIDE DEF g
  <2>3. Preceded(heard', toIo', g)
    <3>1. \A i \in 1..Len(toIo') : toIo'[i].name = "packet" => toIo'[i].generation # g
      <4>1. \A h : h \in Gens(toIo', {"packet"}) <=>
                   \E i \in 1..Len(toIo') : toIo'[i].name \in {"packet"} /\ toIo'[i].generation = h
        BY InGens
      <4> QED BY <2>2, <4>1 DEF Sounds
    <3> QED BY <3>1 DEF Preceded
  <2>4. g = sstvGeneration => imageFrame = 0
    <3>1. CASE k = "sstv"
      BY <2>1, <3>1 DEF ImageStarts, HandedOn
    <3>2. CASE k = "ft"
      <4>1. g # 0
        BY <1>0, <2>1, NumberTypes
      <4> QED BY <2>1, <3>2, <4>1 DEF OwnFt
    <3> QED BY <3>1, <3>2
  <2>5. phase # "idle" /\ g = txGeneration => ftFrame = 0
    <3>1. CASE k = "ft"
      BY <2>1, <3>1 DEF FtKeyedOnce
    <3>2. CASE k = "sstv"
      BY <1>0, <2>1, <3>2 DEF OwnGenerations, SstvUses, Pending, FtUses
    <3> QED BY <3>1, <3>2
  <2>6. \A h, q : Covered(h, q, g, 0)
    BY DEF Covered
  <2> QED BY <1>1, <2>1, <2>3, <2>4, <2>5, <2>6 DEF FramesFollow
<1>4. CASE GateStays \/ Acknowledges \/ Unkeys \/ Releases \/ Opens
  <2>1. generation' \in {0, generation}
    BY <1>4 DEF GateStays, Acknowledges, Unkeys, Releases, Opens, Closed
  <2> QED BY <1>2, <2>1
<1> QED BY <1>0, <1>3, <1>4, IoGateCases

(* A pacer queues the frame after its last.                                *)
LEMMA FrameQueued ==
    ASSUME Typed, UNCHANGED heard, NEW g \in GenerationOrNone, NEW n \in Nat,
           n + 1 \in 0..Frames, toIo' = toIo \o Packet(g, n + 1)
    PROVE  /\ \A k : k # g => FramesHeld(k)
           /\ Preceded(heard, toIo, g) /\ Covered(heard, toIo, g, n) =>
                  /\ Preceded(heard', toIo', g) /\ Covered(heard', toIo', g, n + 1)
                  /\ \A m \in Nat : Covered(heard, toIo, g, m) => Covered(heard', toIo', g, m)
<1> DEFINE c == [name |-> "packet", generation |-> g, frame |-> n + 1]
<1>1. c \in Posted(IoCalls) /\ toIo' = Append(toIo, c) /\ toIo \in Seq(Posted(IoCalls))
  <2>1. "packet" \in IoCalls
    BY DEF IoCalls
  <2> QED BY <2>1, QueueTypes, PacketIs
<1>2. c.generation = g /\ c.name = "packet" /\ c.frame - 1 = n
      /\ c = [name |-> "packet", generation |-> g, frame |-> n + 1]
  OBVIOUS
<1> HIDE DEF c
<1>3. \A k : k # g => FramesHeld(k)
  BY <1>1, <1>2, PrecededAppend, CoveredAppend DEF FramesHeld
<1>4. ASSUME Preceded(heard, toIo, g), Covered(heard, toIo, g, n)
      PROVE  /\ Preceded(heard', toIo', g) /\ Covered(heard', toIo', g, n + 1)
             /\ \A m \in Nat : Covered(heard, toIo, g, m) => Covered(heard', toIo', g, m)
  <2>1. Preceded(heard, Append(toIo, c), g)
    BY <1>1, <1>2, <1>4, PrecededAppend
  <2>2. Covered(heard, Append(toIo, c), g, n + 1)
    BY <1>1, <1>2, <1>4, CoveredAppend
  <2>3. \A m \in Nat : Covered(heard, toIo, g, m) => Covered(heard, Append(toIo, c), g, m)
    BY <1>1, CoveredAppend
  <2> QED BY <1>1, <2>1, <2>2, <2>3
<1> QED BY <1>3, <1>4

(* The pacers queue their frames in turn.                                  *)
LEMMA AudioFramesFollow ==
    ASSUME IInv, PreparesFirst, OwnFt, FtKeyedOnce, FramesFollow, AudioThread
    PROVE  FramesFollow'
<1>0. /\ Typed /\ OwnGenerations /\ KeyedOnce /\ UNCHANGED heard
      /\ generation' \in {0, generation} /\ heard \subseteq heard'
      /\ txGeneration \in GenerationOrNone /\ sstvGeneration \in GenerationOrNone
      /\ imageFrame \in Nat /\ ftFrame \in Nat
  BY NumberTypes, OthersKept, OnlyClosed DEF IInv, ioVars, ioData, Typed, TypedAudio
<1>1. UNCHANGED toIo => \A g : FramesHeld(g)
  BY <1>0, FramesMore DEF FramesHeld
<1>2. \A name \in {"beginFt", "stopFt"} :
          toIo' = toIo \o Call(name, txGeneration) => \A g : FramesHeld(g)
  <2> SUFFICES ASSUME NEW name \in {"beginFt", "stopFt"},
                      toIo' = toIo \o Call(name, txGeneration), NEW g
               PROVE  FramesHeld(g)
    OBVIOUS
  <2> DEFINE c == [name |-> name, generation |-> txGeneration, frame |-> 0]
  <2>1. c \in Posted(IoCalls) /\ toIo' = Append(toIo, c) /\ c.name # "packet"
        /\ toIo \in Seq(Posted(IoCalls))
    <3>1. name \in IoCalls
      BY DEF IoCalls
    <3> QED BY <1>0, <3>1, QueueTypes, CallIs
  <2> HIDE DEF c
  <2> QED BY <1>0, <2>1, PrecededAppend, CoveredAppend DEF FramesHeld
<1>3. CASE TakePrepare
  <2>1. /\ UNCHANGED <<toIo, generation, phase, txGeneration, ftFrame>>
        /\ sstvGeneration' = Head(toAudio).generation /\ AudioTakes("prepare")
    BY <1>3 DEF TakePrepare, shared, ftVars
  <2>2. sstvGeneration' \in Asked
    BY <1>0, <2>1, AudioTaken
  <2>3. generation # sstvGeneration'
    BY <1>0, <2>2 DEF KeyedOnce, Pending
  <2> QED BY <1>0, <1>1, <2>1, <2>3, FramesKept
<1>4. CASE PostImage
  <2>1. /\ Label = sstvGeneration /\ UNCHANGED <<sstvGeneration, phase, txGeneration, ftFrame>>
    BY <1>4, LabelIs DEF PostImage, ftVars
  <2>2. CASE UNCHANGED <<toIo, imageFrame>>
    BY <1>0, <1>1, <2>1, <2>2, FramesKept
  <2>3. CASE /\ toIo' = toIo \o Packet(sstvGeneration, imageFrame + 1)
             /\ imageFrame' = imageFrame + 1 /\ UNCHANGED generation
    <3>1. imageFrame + 1 \in 0..Frames
      <4>1. /\ sstvPrepared /\ imageFrame < Frames
            /\ imageFrame \in 0..Frames /\ Frames \in Nat
        BY <1>4, NumberTypes DEF PostImage, IInv, FramesLeft, Typed, TypedAudio
      <4> QED BY <4>1
    <3>2. /\ \A k : k # sstvGeneration => FramesHeld(k)
          /\ Preceded(heard, toIo, sstvGeneration)
             /\ Covered(heard, toIo, sstvGeneration, imageFrame) =>
                  /\ Preceded(heard', toIo', sstvGeneration)
                  /\ Covered(heard', toIo', sstvGeneration, imageFrame + 1)
                  /\ \A m \in Nat : Covered(heard, toIo, sstvGeneration, m)
                                    => Covered(heard', toIo', sstvGeneration, m)
      BY <1>0, <2>3, <3>1, FrameQueued
    <3>3. CASE sstvGeneration # generation
      BY <1>0, <2>1, <2>3, <3>2, <3>3, FramesKept
    <3>4. CASE sstvGeneration = generation
      BY <1>0, <2>1, <2>3, <3>2, <3>4 DEF FramesFollow
    <3> QED BY <3>3, <3>4
  <2> QED BY <1>4, <2>1, <2>2, <2>3 DEF PostImage
<1>5. CASE EmitFrame
  <2>1. /\ phase = "audio" /\ phase' # "idle" /\ ftEncoding = txGeneration
        /\ UNCHANGED <<txGeneration, sstvGeneration, imageFrame>> /\ ftFrame' = ftFrame + 1
    BY <1>5 DEF EmitFrame, Ticks, PhaseAfterFrame, sstvVars
  <2>2. CASE UNCHANGED toIo /\ generation' = Closed(txGeneration)
    <3>1. generation' # 0 => txGeneration # generation'
      BY <2>2 DEF Closed
    <3> QED BY <1>0, <1>1, <2>1, <2>2, <3>1, FramesKept
  <2>3. CASE toIo' = toIo \o Packet(txGeneration, ftFrame + 1) /\ UNCHANGED generation
    <3>1. ftFrame + 1 \in 0..Frames
      <4>1. ftFrame < Frames /\ ftFrame \in 0..Frames /\ Frames \in Nat
        BY <2>1, NumberTypes DEF IInv, FramesLeft, Typed, TypedAudio
      <4> QED BY <4>1
    <3>2. /\ \A k : k # txGeneration => FramesHeld(k)
          /\ Preceded(heard, toIo, txGeneration)
             /\ Covered(heard, toIo, txGeneration, ftFrame) =>
                  /\ Preceded(heard', toIo', txGeneration)
                  /\ Covered(heard', toIo', txGeneration, ftFrame + 1)
                  /\ \A m \in Nat : Covered(heard, toIo, txGeneration, m)
                                    => Covered(heard', toIo', txGeneration, m)
      BY <1>0, <2>3, <3>1, FrameQueued
    <3>3. CASE txGeneration # generation
      BY <1>0, <2>1, <2>3, <3>2, <3>3, FramesKept
    <3>4. CASE txGeneration = generation
      BY <1>0, <2>1, <2>3, <3>2, <3>4 DEF FramesFollow
    <3> QED BY <3>3, <3>4
  <2> QED BY <1>5, <2>1, <2>2, <2>3 DEF EmitFrame
<1>6. CASE TakeSchedule
  <2> DEFINE g == Head(toAudio).generation
  <2>1. /\ UNCHANGED <<toIo, generation, sstvGeneration, imageFrame>> /\ AudioTakes("schedule")
        /\ \/ UNCHANGED <<phase, txGeneration, ftFrame>>
           \/ txGeneration' = g
    BY <1>6 DEF TakeSchedule, shared, sstvVars
  <2>2. g \in Scheduled
    BY <1>0, <2>1, AudioTaken
  <2>3. generation # g
    BY <2>2 DEF FtKeyedOnce, FtWaits
  <2> HIDE DEF g
  <2> QED BY <1>0, <1>1, <2>1, <2>3, FramesKept
<1>7. CASE RequestKey \/ RequestUnkey \/ StartAudio
  <2>1. /\ UNCHANGED <<txGeneration, ftFrame, sstvGeneration, imageFrame>> /\ phase # "idle"
        /\ \/ UNCHANGED toIo
           \/ \E name \in {"beginFt", "stopFt"} : toIo' = toIo \o Call(name, txGeneration)
    BY <1>7 DEF RequestKey, RequestUnkey, StartAudio, Ticks, queues, sstvVars
  <2> QED BY <1>0, <1>1, <1>2, <2>1, FramesKept
<1>8. CASE TakeAccepted \/ AudioPasses
  <2>1. UNCHANGED <<toIo, phase, txGeneration, ftFrame, sstvGeneration, imageFrame>>
    BY <1>8 DEF TakeAccepted, AudioPasses, sstvVars
  <2> QED BY <1>0, <1>1, <2>1, FramesKept
<1>9. CASE AudioFails \/ Completes
  <2>1. /\ UNCHANGED <<sstvGeneration, imageFrame>> /\ phase' = "idle"
        /\ UNCHANGED toIo \/ toIo' = toIo \o Call("stopFt", txGeneration)
    BY <1>9 DEF AudioFails, Fail, Completes, sstvVars
  <2> QED BY <1>0, <1>1, <1>2, <2>1, FramesKept
<1> QED BY <1>0, <1>3, <1>4, <1>5, <1>6, <1>7, <1>8, <1>9, AudioCases

(* Each frame is behind those before it.                                   *)
LEMMA FramesFollowStep ==
    /\ IInv /\ PreparesFirst /\ OwnFt /\ OnlyConnected /\ FtKeyedOnce /\ ImageStarts
    /\ FramesFollow /\ [Next]_vars
    => FramesFollow'
<1> SUFFICES ASSUME IInv, PreparesFirst, OwnFt, OnlyConnected, FtKeyedOnce, ImageStarts,
                    FramesFollow, [Next]_vars
             PROVE  FramesFollow'
  OBVIOUS
<1>1. CASE UNCHANGED vars
  <2>1. /\ UNCHANGED <<toIo, generation, heard, phase, txGeneration, ftFrame,
                       sstvGeneration, imageFrame>>
    BY <1>1 DEF vars, shared, queues, ioVars, ioData, audioVars, ftVars, sstvVars
  <2> QED BY <2>1 DEF FramesFollow
<1> QED BY <1>1, UiFramesFollow, IoFramesFollow, AudioFramesFollow DEF Next

\* The packet about to be written is behind the frames before it, though its
\* generation may have been closed since it was let on.
WriteFollows ==
    ioInside = "write" =>
        \A m \in 1..Head(toIo).frame - 1 : Reached(heard, Head(toIo).generation, m)

(* It was let on while its generation was open, as the first of the queue. *)
LEMMA WriteFollowsStep == IInv /\ FramesFollow /\ WriteFollows /\ [Next]_vars => WriteFollows'
<1> SUFFICES ASSUME IInv, FramesFollow, WriteFollows, [Next]_vars, ioInside' = "write"
             PROVE  WriteFollows'
  BY DEF WriteFollows
<1>0. /\ Typed /\ OwnGenerations /\ Handled
  BY DEF IInv
<1>1. CASE UiThread \/ AudioThread \/ UNCHANGED vars
  <2>1. ioInside = "write" /\ heard' = heard /\ Head(toIo') = Head(toIo)
    BY <1>0, <1>1, OthersKeepHead DEF Handled, AtHead
  <2> QED BY <2>1 DEF WriteFollows
<1>2. CASE IoThread
  <2>1. Busies /\ UNCHANGED <<toIo, heard>>
    BY <1>0, <1>2, IoGoesOn, BusyIs DEF queues, ioData
  <2>2. AtHead(toIo, "packet") /\ Allows(Head(toIo).generation)
    BY <2>1 DEF Busies, AdmitBegin, ConfirmSlot, CheckSlot, TakePacket, AdmitPacket, CheckPacket
  <2>3. generation # 0 /\ Head(toIo).generation = generation
    BY <2>2 DEF Allows
  <2>4. 1 \in 1..Len(toIo) /\ toIo[1] = Head(toIo) /\ Head(toIo).name = "packet"
    BY <1>0, <2>2, QueueTypes, TailIs DEF AtHead
  <2>5. ASSUME NEW m \in 1..Head(toIo).frame - 1 PROVE Reached(heard, generation, m)
    <3>1. Reached(heard, generation, m) \/ QueuedBy(toIo, generation, m, 1 - 1)
      BY <2>3, <2>4 DEF FramesFollow, Preceded
    <3>2. ~QueuedBy(toIo, generation, m, 1 - 1)
      BY DEF QueuedBy
    <3> QED BY <3>1, <3>2
  <2> QED BY <2>1, <2>3, <2>5 DEF WriteFollows
<1> QED BY <1>1, <1>2 DEF Next

(***************************************************************************)
(* What is reported as accepted or complete was written, every frame of it *)
(***************************************************************************)
AllHeard(h, g) == \A m \in 1..Frames : Reached(h, g, m)
WellCalls == {"accepted", "finishedWell"}
Accepted == Gens(toAudio, {"accepted"})
Well == Gens(toUi, WellCalls)
Done == draining \union drains \union completed \union Well \union Accepted
        \union (IF drained THEN {txGeneration} ELSE {})
DoneHeard ==
    /\ \A g \in Done : AllHeard(heard, g)
    /\ phase = "unkeying" => drained

(* A transmission that was heard whole may be called done.                 *)
LEMMA DoneMore ==
    ASSUME IInv, DoneHeard, [Next]_vars, NEW g, AllHeard(heard', g),
           Done' \subseteq Done \union {g},
           phase' = "unkeying" => drained'
    PROVE  DoneHeard'
<1>1. heard \subseteq heard'
  BY HeardKept
<1>2. \A k : AllHeard(heard, k) => AllHeard(heard', k)
  BY <1>1 DEF AllHeard, Reached
<1> QED BY <1>2 DEF DoneHeard

(* Where nothing is called done, nothing changes.                          *)
LEMMA DoneKept ==
    ASSUME IInv, DoneHeard, [Next]_vars, Done' \subseteq Done, phase' = "unkeying" => drained'
    PROVE  DoneHeard'
<1>1. heard \subseteq heard'
  BY HeardKept
<1>2. \A k : AllHeard(heard, k) => AllHeard(heard', k)
  BY <1>1 DEF AllHeard, Reached
<1> QED BY <1>2 DEF DoneHeard

(* The last frame of a transmission is written.                            *)
LEMMA LastFrame ==
    ASSUME IInv, WriteFollows, PacketHeard, NEW g, NEW n, g = Head(toIo).generation,
           n = Head(toIo).frame, Final(n)
    PROVE  AllHeard(heard', g)
<1>1. toIo \in Seq(Posted(IoCalls)) /\ toIo # <<>> /\ Head(toIo).frame \in 0..Frames
  BY QueueTypes, TakenIs DEF PacketHeard, IoTakes, IInv
<1>2. heard' = heard \union {[gen |-> g, frame |-> n, over |-> onAir]}
  BY DEF PacketHeard
<1>3. onAir = g
  BY DEF PacketHeard, IInv, GateIsGuarded, Handled
<1>4. n = Frames
  <2>1. Frames \in Nat /\ n \in 0..Frames /\ n >= Frames
    BY <1>1, NumberTypes DEF Final, IInv
  <2> QED BY <2>1
<1>5. \A m \in 1..Frames - 1 : Reached(heard', g, m)
  BY <1>2, <1>4 DEF PacketHeard, WriteFollows, Reached
<1>6. Reached(heard', g, Frames)
  BY <1>2, <1>3, <1>4 DEF Reached
<1>7. \A m \in 1..Frames : m = Frames \/ m \in 1..Frames - 1
  BY NumberTypes DEF IInv
<1> QED BY <1>5, <1>6, <1>7 DEF AllHeard

(* What the I/O thread reports as accepted.                                *)
LEMMA IoReports ==
    ASSUME IInv, IoThread
    PROVE  \/ /\ UiWithout(WellCalls) /\ AudioWithout({"accepted"}) /\ draining' \subseteq draining
           \/ \E g \in draining : ReportAccepted(g) /\ draining' \subseteq draining
           \/ LET g == Head(toIo).generation
                  n == Head(toIo).frame
              IN  /\ PacketHeard /\ Final(n)
                  /\ \/ draining' = draining \union {g} /\ UNCHANGED <<toUi, toAudio>>
                     \/ ReportAccepted(g) /\ UNCHANGED draining
<1> DEFINE Plain == UiWithout(WellCalls) /\ AudioWithout({"accepted"})
                    /\ draining' \subseteq draining
<1>0. /\ Typed /\ 0 \in GenerationOrNone /\ myGeneration \in GenerationOrNone
  BY NumberTypes DEF IInv
<1>h. \A name : IoTakes(name) => Head(toIo).generation \in GenerationOrNone
  BY <1>0, IoTake
<1>1. UNCHANGED <<toUi, toAudio>> => UiWithout(WellCalls) /\ AudioWithout({"accepted"})
  BY DEF UiWithout, AudioWithout
<1>2. /\ \A g \in GenerationOrNone : toUi' = toUi \o Call("failed", g) => UiWithout(WellCalls)
      /\ \A g \in GenerationOrNone : toUi' = toUi \o Call("keyRequested", g) => UiWithout(WellCalls)
      /\ \A g \in GenerationOrNone : toUi' = toUi \o Call("disconnected", g) => UiWithout(WellCalls)
  BY DEF UiWithout, UiCalls, WellCalls
<1>3. /\ \A g \in GenerationOrNone : toAudio' = toAudio \o Call("cancel", g) => AudioWithout({"accepted"})
      /\ \A g \in GenerationOrNone : toAudio' = toAudio \o Call("keyed", g) => AudioWithout({"accepted"})
      /\ \A g \in GenerationOrNone : toAudio' = toAudio \o Call("unkeyed", g) => AudioWithout({"accepted"})
  BY DEF AudioWithout, AudioCalls
<1>4. UNCHANGED toUi => UiWithout(WellCalls)
  BY DEF UiWithout
<1>5. UNCHANGED toAudio => AudioWithout({"accepted"})
  BY DEF AudioWithout
<1>6. \A k : \A g \in GenerationOrNone :
          ReportFailure(g, k) => UiWithout(WellCalls) /\ AudioWithout({"accepted"})
  BY <1>2, <1>3, <1>4, <1>5 DEF ReportFailure
<1>7. TripGuard => Plain
  BY <1>0, <1>6 DEF TripGuard, Unkey
<1>8. TakeAcknowledge \/ TakeStop => Plain
  BY <1>1 DEF TakeAcknowledge, TakeStop, Unkey
<1>9. ASSUME TakeStopFt PROVE Plain
  <2>1. Head(toIo).generation \in GenerationOrNone
    BY <1>9, <1>h DEF TakeStopFt
  <2> QED BY <1>3, <1>4, <1>9, <2>1 DEF TakeStopFt, Unkey
<1>10. TripCancelled \/ TripOnReadings => Plain
  BY <1>7 DEF TripCancelled, TripOnReadings
<1>11. ASSUME NEW k \in {"sstv", "ft"}, RefuseBegin(k) \/ ArmGuard(k) PROVE Plain
  <2>1. Head(toIo).generation \in GenerationOrNone
    BY <1>11, <1>h DEF RefuseBegin, ArmGuard
  <2>2. UNCHANGED draining
    BY <1>11 DEF RefuseBegin, ArmGuard, ioVars, ioData
  <2>3. UNCHANGED <<toUi, toAudio>> \/ ReportFailure(Head(toIo).generation, k)
    BY <1>11 DEF RefuseBegin, ArmGuard
  <2> QED BY <1>1, <1>6, <2>1, <2>2, <2>3
<1>15. Busies \/ SlotLost => Plain
  BY <1>1, BusyIs, SlotLostIs DEF queues, ioData
<1>16. KeyRadio => Plain
  BY <1>0, <1>2, <1>3, <1>4, <1>5 DEF KeyRadio
<1>12. ConnectionLost \/ Reconnected => Plain
  BY <1>0, <1>1, <1>2, <1>5 DEF ConnectionLost, Reconnected, queues, ioVars, ioData
<1> HIDE DEF Plain
<1>13. ASSUME NEW g \in Generations, DrainPoll(g)
       PROVE  Plain \/ (g \in draining /\ ReportAccepted(g) /\ draining' \subseteq draining)
  BY <1>1, <1>13 DEF DrainPoll, Plain
<1>14. ASSUME PacketTaken
       PROVE  \/ Plain
              \/ LET g == Head(toIo).generation
                     n == Head(toIo).frame
                 IN  /\ PacketHeard /\ Final(n)
                     /\ \/ draining' = draining \union {g} /\ UNCHANGED <<toUi, toAudio>>
                        \/ ReportAccepted(g) /\ UNCHANGED draining
  <2>1. CASE PacketTrips
    BY <1>7, <2>1 DEF PacketTrips
  <2>2. CASE UNCHANGED <<toUi, toAudio, draining>>
    BY <1>1, <2>2 DEF Plain
  <2>3. PacketDropped => UNCHANGED <<toUi, toAudio, draining>>
    BY DEF PacketDropped, ioData
  <2>4. CASE PacketHeard /\ ~UNCHANGED <<toUi, toAudio, draining>>
    BY <2>4 DEF PacketHeard
  <2> QED BY <1>14, <2>1, <2>2, <2>3, <2>4 DEF PacketTaken
<1> QED BY <1>8, <1>9, <1>10, <1>11, <1>12, <1>13, <1>14, <1>15, <1>16, IoActsIs
        DEF IoActs, Plain

(* The UI thread calls done what was reported as such.                     *)
LEMMA UiDoneHeard ==
    ASSUME IInv, DoneHeard, UiThread
    PROVE  DoneHeard'
<1>s. [Next]_vars
  BY DEF Next
<1>0. /\ Typed /\ Generations \subseteq GenerationOrNone /\ ft \in GenerationOrNone
      /\ 0 \in GenerationOrNone /\ UNCHANGED <<draining, phase, drained, txGeneration>>
  BY NumberTypes, OthersKept DEF IInv, ioVars, ioData, audioVars, ftVars
<1>1. /\ \A name : UiTakes(name) => Well' \subseteq Well
      /\ \A name \in WellCalls : UiTakes(name) => Head(toUi).generation \in Well
  BY <1>0, UiTook DEF Well
<1>2. UNCHANGED toUi => Well' = Well
  BY DEF Well
<1>3. /\ \A name \in {"prepare", "schedule", "beginSstv", "stopSstv", "cancel"},
            g \in GenerationOrNone : toAudio' = toAudio \o Call(name, g) => Accepted' \subseteq Accepted
      /\ UNCHANGED toAudio => Accepted' \subseteq Accepted
  <2>1. \A name \in {"prepare", "schedule", "beginSstv", "stopSstv", "cancel"} :
            name \in AudioCalls /\ name \notin {"accepted"}
    BY DEF AudioCalls
  <2> QED BY <1>0, <2>1, AudioPosted DEF Accepted
<1> DEFINE Ok == /\ Well' \subseteq Well /\ Accepted' \subseteq Accepted
                 /\ drains' \subseteq drains \union Well
                 /\ completed' \subseteq completed \union drains \union Well
<1>4. SstvBusy /\ StopSstv => /\ Accepted' \subseteq Accepted /\ UNCHANGED <<drains, completed>>
  BY <1>0, <1>3 DEF StopSstv
<1>5. StopFt => /\ Accepted' \subseteq Accepted /\ UNCHANGED <<drains, completed>>
  BY <1>0, <1>3 DEF StopFt
<1>6. ASSUME StartSstv PROVE Ok
  <2>1. Issued \in GenerationOrNone
    BY <1>6, IssuedIs DEF StartSstv, IInv
  <2> QED BY <1>2, <1>3, <1>6, <2>1 DEF StartSstv
<1>7. ASSUME NEW operator \in BOOLEAN, StartFt(operator) PROVE Ok
  <2>1. Issued \in GenerationOrNone
    BY <1>7, IssuedIs DEF StartFt, IInv
  <2> QED BY <1>2, <1>3, <1>7, <2>1 DEF StartFt
<1>8. ASSUME OperatorStopsSstv \/ OperatorStopsFt \/ OnReceiveReport PROVE Ok
  BY <1>2, <1>4, <1>5, <1>8 DEF OperatorStopsSstv, OperatorStopsFt, OnReceiveReport, SstvBusy
<1>9. ASSUME OnPrepared \/ OnKeyRequested PROVE Ok
  BY <1>1, <1>3, <1>9 DEF OnPrepared, OnKeyRequested
<1>10. ASSUME OnFailed \/ OnDisconnected PROVE Ok
  BY <1>1, <1>3, <1>4, <1>5, <1>10 DEF OnFailed, OnDisconnected, UiUnmoved
<1>11. ASSUME OnAccepted PROVE Ok
  <2>1. "accepted" \in WellCalls
    BY DEF WellCalls
  <2> QED BY <1>1, <1>3, <1>11, <2>1 DEF OnAccepted
<1>12. ASSUME OnFinished PROVE Ok
  <2>1. UiTakes("finishedWell") \/ (UiTakes("finished") /\ Head(toUi).name # "finishedWell")
    BY <1>12 DEF OnFinished, UiTakes, AtHead
  <2>2. "finishedWell" \in WellCalls
    BY DEF WellCalls
  <2> QED BY <1>1, <1>3, <1>12, <2>1, <2>2 DEF OnFinished
<1>13. ASSUME NEW g \in Generations, KeyGuardElapsed(g) PROVE Ok
  <2>1. UNCHANGED toUi /\ g \in GenerationOrNone
    BY <1>0, <1>13 DEF KeyGuardElapsed
  <2>2. \/ UNCHANGED <<drains, completed, toAudio>> \/ (SstvBusy /\ StopSstv)
        \/ UNCHANGED <<drains, completed>> /\ toAudio' = toAudio \o Call("beginSstv", g)
    BY <1>13 DEF KeyGuardElapsed, SstvBusy
  <2> QED BY <1>2, <1>3, <1>4, <2>1, <2>2
<1>14. ASSUME NEW g \in Generations, DrainElapsed(g) PROVE Ok
  BY <1>2, <1>3, <1>14 DEF DrainElapsed
<1>15. Ok
  BY <1>6, <1>7, <1>8, <1>9, <1>10, <1>11, <1>12, <1>13, <1>14 DEF UiThread
<1>16. Done' \subseteq Done /\ (phase' = "unkeying" => drained')
  BY <1>0, <1>15 DEF Done, DoneHeard
<1> QED BY <1>s, <1>16, DoneKept

(* The queue of packets has drained: each of them was written.             *)
LEMMA IoDoneHeard ==
    ASSUME IInv, WriteFollows, DoneHeard, IoThread
    PROVE  DoneHeard'
<1>s. [Next]_vars
  BY DEF Next
<1>0. /\ Typed /\ Generations \subseteq GenerationOrNone
      /\ draining \subseteq GenerationOrNone
  BY NumberTypes DEF IInv, Typed, TypedIo
<1>1. /\ UNCHANGED <<drains, completed, phase, drained, txGeneration>>
      /\ phase' = "unkeying" => drained'
  BY IoMoves DEF uiVars, audioVars, ftVars, DoneHeard
<1>2. ASSUME NEW g \in GenerationOrNone, ReportAccepted(g)
      PROVE  Well' \subseteq Well \union {g} /\ Accepted' \subseteq Accepted \union {g}
  <2>1. "accepted" \in UiCalls /\ "accepted" \in AudioCalls
    BY DEF UiCalls, AudioCalls
  <2>2. Well' \subseteq Well \union {g}
    BY <1>0, <1>2, <2>1, UiPosted DEF ReportAccepted, Well
  <2>3. Accepted' \subseteq Accepted \union {g}
    BY <1>0, <1>2, <2>1, AudioPosted DEF ReportAccepted, Accepted
  <2> QED BY <2>2, <2>3
<1>3. CASE UiWithout(WellCalls) /\ AudioWithout({"accepted"}) /\ draining' \subseteq draining
  <2>1. Well' \subseteq Well /\ Accepted' \subseteq Accepted
    BY <1>0, <1>3, UiKept, AudioKept DEF Well, Accepted
  <2>2. Done' \subseteq Done
    BY <1>1, <1>3, <2>1 DEF Done
  <2> QED BY <1>s, <1>1, <2>2, DoneKept
<1>4. ASSUME NEW g \in draining, ReportAccepted(g), draining' \subseteq draining
      PROVE  DoneHeard'
  <2>1. Done' \subseteq Done
    BY <1>0, <1>1, <1>2, <1>4 DEF Done
  <2> QED BY <1>s, <1>1, <2>1, DoneKept
<1>5. ASSUME NEW g, NEW n, g = Head(toIo).generation, n = Head(toIo).frame,
             PacketHeard, Final(n),
             \/ draining' = draining \union {g} /\ UNCHANGED <<toUi, toAudio>>
             \/ ReportAccepted(g) /\ UNCHANGED draining
      PROVE  DoneHeard'
  <2>1. AllHeard(heard', g)
    BY <1>5, LastFrame
  <2>2. g \in GenerationOrNone
    BY <1>0, <1>5, IoTake DEF PacketHeard
  <2>3. UNCHANGED <<toUi, toAudio>> => Well' = Well /\ Accepted' = Accepted
    BY DEF Well, Accepted
  <2>4. Done' \subseteq Done \union {g}
    BY <1>1, <1>2, <1>5, <2>2, <2>3 DEF Done
  <2> QED BY <1>1, <1>s, <2>1, <2>4, DoneMore
<1> QED BY <1>3, <1>4, <1>5, IoReports

(* The transmitter passes on what it was told.                             *)
LEMMA AudioDoneHeard ==
    ASSUME IInv, DoneHeard, AudioThread
    PROVE  DoneHeard'
<1>s. [Next]_vars
  BY DEF Next
<1>0. /\ Typed /\ UNCHANGED <<draining, drains, completed>>
      /\ txGeneration \in GenerationOrNone /\ sstvGeneration \in GenerationOrNone
      /\ Label \in GenerationOrNone
  BY NumberTypes, OthersKept DEF IInv, ioVars, ioData, uiVars
<1>1. /\ UNCHANGED toUi => Well' \subseteq Well
      /\ \A name \in {"prepared", "notPrepared", "failed", "finished"}, g \in GenerationOrNone :
            toUi' = toUi \o Call(name, g) => Well' \subseteq Well
      /\ toUi' = toUi \o Call("finishedWell", txGeneration) => Well' \subseteq Well \union {txGeneration}
  <2>1. /\ \A name \in {"prepared", "notPrepared", "failed", "finished"} :
               name \in UiCalls /\ name \notin WellCalls
        /\ "finishedWell" \in UiCalls
    BY DEF UiCalls, WellCalls
  <2>2. \A name \in UiCalls, g \in GenerationOrNone : toUi' = toUi \o Call(name, g) =>
            Gens(toUi', WellCalls) = IF name \in WellCalls THEN Gens(toUi, WellCalls) \union {g}
                                                           ELSE Gens(toUi, WellCalls)
    BY <1>0, UiPosted
  <2> QED BY <1>0, <2>1, <2>2 DEF Well
<1>2. /\ UNCHANGED toAudio => Accepted' \subseteq Accepted
      /\ \A name : AudioTakes(name) => Accepted' \subseteq Accepted
      /\ AudioTakes("accepted") => Head(toAudio).generation \in Accepted
  <2>1. "accepted" \in {"accepted"}
    OBVIOUS
  <2> QED BY <1>0, <2>1, AudioTook DEF Accepted
<1>3. ASSUME Well' \subseteq Well, Accepted' \subseteq Accepted,
             drained' => drained /\ UNCHANGED txGeneration,
             phase' = "unkeying" => drained'
      PROVE  DoneHeard'
  <2>1. Done' \subseteq Done
    BY <1>0, <1>3 DEF Done
  <2> QED BY <1>s, <1>3, <2>1, DoneKept
<1>4. CASE TakePrepare
  <2>1. /\ UNCHANGED <<phase, drained, txGeneration>> /\ AudioTakes("prepare")
        /\ \E name \in {"prepared", "notPrepared"} : toUi' = toUi \o Call(name, Head(toAudio).generation)
    BY <1>4 DEF TakePrepare, ftVars
  <2>2. Head(toAudio).generation \in GenerationOrNone
    BY <1>0, <2>1, AudioTake
  <2> QED BY <1>1, <1>2, <1>3, <2>1, <2>2 DEF DoneHeard
<1>5. CASE PostImage
  <2>1. /\ UNCHANGED <<toAudio, phase, drained, txGeneration>>
        /\ UNCHANGED toUi \/ toUi' = toUi \o Call("failed", Label)
    BY <1>5 DEF PostImage, ftVars
  <2> QED BY <1>0, <1>1, <1>2, <1>3, <2>1 DEF DoneHeard
<1>6. CASE TakeSchedule
  <2>1. AudioTakes("schedule")
    BY <1>6 DEF TakeSchedule
  <2>2. Head(toAudio).generation \in GenerationOrNone
    BY <1>0, <2>1, AudioTake
  <2>3. \/ UNCHANGED <<phase, drained, txGeneration>>
           /\ toUi' = toUi \o Call("finished", Head(toAudio).generation)
        \/ UNCHANGED toUi /\ phase' = "waiting" /\ drained' = FALSE
    BY <1>6 DEF WaveCleared, TakeSchedule, RefuseSchedule
  <2> QED BY <1>1, <1>2, <1>3, <2>1, <2>2, <2>3 DEF DoneHeard
<1>7. CASE TakeAccepted
  <2>1. /\ UNCHANGED <<toUi, phase, txGeneration>> /\ AudioTakes("accepted")
        /\ drained' = (drained \/ Mine("drain"))
    BY <1>7 DEF TakeAccepted
  <2>2. ~drained /\ drained' => txGeneration \in Accepted
    BY <1>2, <2>1 DEF Mine
  <2>3. Done' \subseteq Done
    BY <1>0, <1>1, <1>2, <2>1, <2>2 DEF Done
  <2>4. phase' = "unkeying" => drained'
    BY <2>1 DEF DoneHeard
  <2> QED BY <1>s, <2>3, <2>4, DoneKept
<1>8. CASE RequestKey \/ StartAudio \/ EmitFrame
  <2>1. UNCHANGED <<toUi, toAudio, drained, txGeneration>> /\ phase' # "unkeying"
    BY <1>8 DEF RequestKey, StartAudio, EmitFrame, PhaseAfterFrame, queues
  <2> QED BY <1>1, <1>2, <1>3, <2>1
<1>9. CASE RequestUnkey
  <2>1. UNCHANGED <<toUi, toAudio, drained, txGeneration>> /\ drained
    BY <1>9 DEF RequestUnkey
  <2> QED BY <1>1, <1>2, <1>3, <2>1
<1>10. CASE AudioFails
  <2>1. /\ ~drained' /\ UNCHANGED txGeneration /\ phase' = "idle"
        /\ toUi' = toUi \o Call("finished", txGeneration)
        /\ UNCHANGED toAudio \/ AudioTakes("cancel")
    BY <1>10 DEF AudioFails, Fail, WaveCleared
  <2> QED BY <1>0, <1>1, <1>2, <1>3, <2>1
<1>11. CASE Completes
  <2>1. /\ ~drained' /\ UNCHANGED txGeneration /\ phase = "unkeying" /\ phase' = "idle"
        /\ toUi' = toUi \o Call("finishedWell", txGeneration) /\ AudioTakes("unkeyed")
    BY <1>11 DEF Completes, WaveCleared
  <2>2. txGeneration \in Done
    BY <2>1 DEF DoneHeard, Done
  <2>3. Done' \subseteq Done
    BY <1>0, <1>1, <1>2, <2>1, <2>2 DEF Done
  <2>4. phase' # "unkeying"
    BY <2>1
  <2> QED BY <1>s, <2>3, <2>4, DoneKept
<1>12. CASE AudioPasses
  <2>1. /\ UNCHANGED <<phase, drained, txGeneration>>
        /\ UNCHANGED toUi \/ toUi' = toUi \o Call("failed", sstvGeneration)
        /\ UNCHANGED toAudio \/ \E name : AudioTakes(name)
    BY <1>12 DEF AudioPasses
  <2> QED BY <1>0, <1>1, <1>2, <1>3, <2>1 DEF DoneHeard
<1> QED BY <1>0, <1>4, <1>5, <1>6, <1>7, <1>8, <1>9, <1>10, <1>11, <1>12, AudioCases

(* What is called done, by any thread, was heard whole.                    *)
LEMMA DoneHeardStep == IInv /\ WriteFollows /\ DoneHeard /\ [Next]_vars => DoneHeard'
<1> SUFFICES ASSUME IInv, WriteFollows, DoneHeard, [Next]_vars PROVE DoneHeard'
  OBVIOUS
<1>1. CASE UNCHANGED vars
  <2>1. UNCHANGED <<toUi, toAudio, heard, draining, drains, completed, phase, drained, txGeneration>>
    BY <1>1 DEF vars, queues, uiVars, ioVars, ioData, audioVars, ftVars
  <2>2. Done' = Done
    BY <2>1 DEF Done, Well, Accepted
  <2> QED BY <2>1, <2>2 DEF DoneHeard
<1> QED BY <1>1, UiDoneHeard, IoDoneHeard, AudioDoneHeard DEF Next

(***************************************************************************)
(* The second inductive invariant, relative to the first                   *)
(***************************************************************************)
InOrder ==
    /\ OneOver /\ PreparesFirst /\ OwnFt /\ OnlyConnected /\ FtKeyedOnce
    /\ ImageStarts /\ FramesFollow /\ WriteFollows /\ DoneHeard

(* At first there is nothing to be in order.                               *)
LEMMA InitInOrder == Init => InOrder
<1> SUFFICES ASSUME Init PROVE InOrder
  OBVIOUS
<1>1. /\ generation = 0 /\ scheduledGeneration = 0 /\ connected /\ ~active
      /\ toUi = <<>> /\ toIo = <<>> /\ toAudio = <<>>
      /\ ft = 0 /\ sstv = "idle" /\ phase = "idle" /\ ftEncoding = 0 /\ ftFrame = 0
      /\ txGeneration = 0 /\ ~drained /\ ~sstvPrepared /\ sstvGeneration = 0 /\ imageFrame = 0
      /\ inside = "loop" /\ heard = {} /\ draining = {} /\ drains = {} /\ completed = {}
      /\ lastGeneration = 0 /\ ioInside = "loop"
  BY DEF Init
<1>2. \A names : Gens(<<>>, names) = {} /\ Distinct(<<>>, names)
  BY DEF Gens, Distinct
<1>3. OneOver
  BY <1>1, <1>2 DEF OneOver, FtOver, Scheduled, Ended, SstvBusy
<1>4. PreparesFirst
  BY <1>1 DEF PreparesFirst, NoneBehind
<1>5. HeardGens = {} /\ FtBegins = {} /\ Scheduled = {} /\ Sounds = {}
  BY <1>1, <1>2 DEF HeardGens, FtBegins, Scheduled, Sounds
<1>6. OwnFt
  BY <1>1, <1>5 DEF OwnFt
<1>7. FtWaits = {}
  BY <1>1, <1>5 DEF FtWaits
<1>8. FtKeyedOnce
  BY <1>1, <1>2, <1>5, <1>7 DEF FtKeyedOnce
<1>9. OnlyConnected /\ ImageStarts /\ FramesFollow /\ WriteFollows
  BY <1>1 DEF OnlyConnected, ImageStarts, FramesFollow, WriteFollows
<1>10. Done = {}
  BY <1>1, <1>2 DEF Done, Well, Accepted
<1>11. DoneHeard
  BY <1>1, <1>10 DEF DoneHeard
<1> QED BY <1>3, <1>4, <1>6, <1>8, <1>9, <1>11 DEF InOrder

(* What a transmission leaves behind it, in order: an over is in one place *)
(* of the three threads, its frames are posted and written one after       *)
(* another, none is skipped while the gate stays open, and whatever is     *)
(* reported as accepted, drained or complete was written, every frame of   *)
(* it.                                                                     *)
THEOREM OrderInductive == Spec => []InOrder
<1>1. IInv /\ InOrder /\ [Next]_vars => InOrder'
  <2> SUFFICES ASSUME IInv, InOrder, [Next]_vars PROVE InOrder'
    OBVIOUS
  <2>0. /\ OneOver /\ PreparesFirst /\ OwnFt /\ OnlyConnected /\ FtKeyedOnce
        /\ ImageStarts /\ FramesFollow /\ WriteFollows /\ DoneHeard
    BY DEF InOrder
  <2>1. OneOver' /\ PreparesFirst' /\ OwnFt' /\ OnlyConnected'
    BY <2>0, OneOverStep, PreparesFirstStep, OwnFtStep, OnlyConnectedStep
  <2>2. FtKeyedOnce' /\ ImageStarts'
    BY <2>0, FtKeyedOnceStep, ImageStartsStep
  <2>3. FramesFollow' /\ WriteFollows' /\ DoneHeard'
    BY <2>0, FramesFollowStep, WriteFollowsStep, DoneHeardStep
  <2> QED BY <2>1, <2>2, <2>3 DEF InOrder
<1> QED BY <1>1, InitInOrder, Inductive, PTL DEF Spec

(* A transmission is reported as complete only when each of its frames was *)
(* written while the radio transmitted for it (beginSstvTransmitDrain,     *)
(* confirmScheduledAudioDrained), whatever was revoked, lost or restarted  *)
(* while the reports were on their way.                                    *)
THEOREM CompleteIsHeard == Spec => []CompletedWasHeard
<1>1. InOrder => CompletedWasHeard
  BY DEF InOrder, DoneHeard, Done, AllHeard, Reached, CompletedWasHeard
<1> QED BY <1>1, OrderInductive, PTL

(***************************************************************************)
(* The frames of an image are those the encoder has made                   *)
(***************************************************************************)
FramesUpTo(q, g, n) ==
    \A i \in 1..Len(q) : q[i].name = "packet" /\ q[i].generation = g => q[i].frame <= n

ImageOrder ==
    /\ HeardGens \intersect Pending = {}
    /\ sstvGeneration # 0 =>
           /\ FramesUpTo(toIo, sstvGeneration, imageFrame)
           /\ \A h \in heard : h.gen = sstvGeneration => h.frame <= imageFrame

(* The next frame is the last the encoder has made.                        *)
LEMMA UpToAppend ==
    ASSUME NEW q \in Seq(Posted(IoCalls)), NEW c \in Posted(IoCalls), NEW g,
           NEW n \in Nat, NEW m \in Nat, n <= m, FramesUpTo(q, g, n),
           c.name = "packet" /\ c.generation = g => c.frame <= m
    PROVE  FramesUpTo(Append(q, c), g, m)
<1> DEFINE t == Append(q, c)
<1>1. /\ Len(q) \in Nat /\ Len(t) = Len(q) + 1
      /\ \A i \in 1..Len(q) : t[i] = q[i] /\ q[i].frame \in Nat
      /\ t[Len(q) + 1] = c
  <2>1. \A i \in 1..Len(q) : q[i] \in Posted(IoCalls)
    BY ElementOfSeq
  <2>2. \A d \in Posted(IoCalls) : d.frame \in Nat
    BY LinkAssumption DEF Posted
  <2> QED BY <2>1, <2>2, AppendIs
<1> HIDE DEF t
<1>2. FramesUpTo(t, g, m)
  <2> SUFFICES ASSUME NEW i \in 1..Len(t), t[i].name = "packet", t[i].generation = g
               PROVE  t[i].frame <= m
    BY DEF FramesUpTo
  <2>1. CASE i \in 1..Len(q)
    <3>1. q[i].frame <= n /\ q[i].frame \in Nat /\ t[i] = q[i]
      BY <1>1, <2>1 DEF FramesUpTo
    <3> QED BY <3>1
  <2>2. CASE i = Len(q) + 1
    BY <1>1, <2>2
  <2> QED BY <1>1, <2>1, <2>2
<1> QED BY <1>2 DEF t

(* What is taken was made by the encoder.                                  *)
LEMMA UpToTail ==
    ASSUME NEW q \in Seq(Posted(IoCalls)), q # <<>>, NEW g, NEW n, FramesUpTo(q, g, n)
    PROVE  /\ FramesUpTo(Tail(q), g, n)
           /\ Head(q).name = "packet" /\ Head(q).generation = g => Head(q).frame <= n
<1> DEFINE t == Tail(q)
<1>1. /\ Len(q) \in Nat \ {0} /\ Len(t) = Len(q) - 1
      /\ \A i \in 1..Len(q) - 1 : t[i] = q[i + 1]
      /\ Head(q) = q[1]
  BY TailIs
<1> HIDE DEF t
<1>2. FramesUpTo(t, g, n)
  <2> SUFFICES ASSUME NEW i \in 1..Len(t), t[i].name = "packet", t[i].generation = g
               PROVE  t[i].frame <= n
    BY DEF FramesUpTo
  <2>1. i + 1 \in 1..Len(q) /\ t[i] = q[i + 1]
    BY <1>1
  <2> QED BY <2>1 DEF FramesUpTo
<1>3. 1 \in 1..Len(q)
  BY <1>1
<1> QED BY <1>1, <1>2, <1>3 DEF FramesUpTo, t

\* Generations that wait for the radio are no more than before, or new.
LEMMA PendingOld ==
    ASSUME IInv, [Next]_vars
    PROVE  /\ \A g \in Pending' : g \in Pending \/ lastGeneration < g
           /\ lastGeneration <= lastGeneration'
<1>1. Pending' \subseteq Pending \/ (StartSstv /\ Pending' \subseteq Pending \union {Issued})
  BY PendingMoves DEF Pending, HandedOn
<1>2. StartSstv => lastGeneration < Issued
  BY IssuedIs DEF StartSstv, IInv
<1>3. lastGeneration <= lastGeneration'
  BY UsesStep DEF UsesMove
<1> QED BY <1>1, <1>2, <1>3

(* What waits to be keyed was not heard.                                   *)
LEMMA HeardNotPending ==
    ASSUME IInv, OwnFt, ImageOrder, [Next]_vars
    PROVE  HeardGens' \intersect Pending' = {}
<1>1. \A g \in HeardGens' : g \notin Pending
  BY HeardKept DEF ImageOrder, IInv, KeyedOnce
<1>2. \A g \in HeardGens' : g \in Nat /\ g <= lastGeneration
  <2>1. \A g \in Sounds : g <= lastGeneration /\ g \in Nat
    BY UsesAreNumbers DEF IInv, OwnGenerations, Known
  <2>2. HeardGens \subseteq Nat
    <3>1. heard \subseteq [gen : Generations, frame : 1..Frames, over : GenerationOrNone]
          /\ Generations \subseteq Nat
      BY NumberTypes DEF IInv, Typed, TypedIo
    <3> QED BY <3>1 DEF HeardGens
  <2> QED BY <2>1, <2>2, HeardKept DEF OwnFt
<1>3. lastGeneration \in Nat
  BY NumberTypes DEF IInv
<1>4. \A g \in HeardGens' : ~(lastGeneration < g)
  BY <1>2, <1>3
<1> QED BY <1>1, <1>4, PendingOld

(* Where the encoder makes no frame.                                       *)
LEMMA ImageOrderKept ==
    ASSUME IInv, OwnFt, ImageOrder, [Next]_vars,
           UNCHANGED <<sstvGeneration, imageFrame>>,
           sstvGeneration # 0 /\ FramesUpTo(toIo, sstvGeneration, imageFrame)
               => FramesUpTo(toIo', sstvGeneration, imageFrame)
    PROVE  ImageOrder'
<1>1. ASSUME sstvGeneration # 0, NEW h \in heard', h.gen = sstvGeneration
      PROVE  h.frame <= imageFrame
  <2>1. CASE h \in heard
    BY <1>1, <2>1 DEF ImageOrder
  <2>2. CASE h \notin heard
    <3>1. /\ toIo # <<>> /\ Head(toIo).name = "packet" /\ h.gen = Head(toIo).generation
          /\ h.frame = Head(toIo).frame /\ toIo \in Seq(Posted(IoCalls))
      BY <2>2, HeardIs, QueueTypes DEF IInv
    <3>2. FramesUpTo(toIo, sstvGeneration, imageFrame)
      BY <1>1 DEF ImageOrder
    <3>3. Head(toIo).name = "packet" /\ Head(toIo).generation = sstvGeneration
          => Head(toIo).frame <= imageFrame
      BY <3>1, <3>2, UpToTail
    <3> QED BY <1>1, <3>1, <3>3
  <2> QED BY <2>1, <2>2
<1>2. sstvGeneration # 0 => FramesUpTo(toIo', sstvGeneration, imageFrame)
  BY DEF ImageOrder
<1> QED BY <1>1, <1>2, HeardNotPending DEF ImageOrder

\* No frame is queued by a step other than those of the encoders.
LEMMA NoFramePosted ==
    ASSUME Typed, imageFrame \in Nat, NEW names, "packet" \in names, IoWithout(names), NEW g,
           FramesUpTo(toIo, g, imageFrame)
    PROVE  FramesUpTo(toIo', g, imageFrame)
<1>0. toIo \in Seq(Posted(IoCalls)) /\ imageFrame <= imageFrame
  BY QueueTypes
<1>1. ASSUME NEW name \in IoCalls \ names, NEW k \in GenerationOrNone,
             toIo' = toIo \o Call(name, k)
      PROVE  FramesUpTo(toIo', g, imageFrame)
  <2> DEFINE c == [name |-> name, generation |-> k, frame |-> 0]
  <2>1. c \in Posted(IoCalls) /\ toIo' = Append(toIo, c) /\ c.name # "packet"
    BY <1>0, <1>1, CallIs
  <2> HIDE DEF c
  <2> QED BY <1>0, <2>1, UpToAppend
<1>2. ASSUME NEW name, IoTakes(name) PROVE FramesUpTo(toIo', g, imageFrame)
  <2>1. toIo # <<>> /\ toIo' = Tail(toIo)
    BY <1>2 DEF IoTakes, AtHead
  <2> QED BY <1>0, <2>1, UpToTail
<1> QED BY <1>1, <1>2 DEF IoWithout

(* The encoder queues its frame, or starts anew.                           *)
LEMMA AudioImageOrder ==
    ASSUME IInv, PreparesFirst, OwnFt, ImageOrder, AudioThread
    PROVE  ImageOrder'
<1>0. /\ Typed /\ KeyedOnce /\ OwnGenerations /\ UNCHANGED heard /\ [Next]_vars
      /\ txGeneration \in GenerationOrNone /\ sstvGeneration \in GenerationOrNone
      /\ imageFrame \in Nat /\ ftFrame \in Nat /\ toIo \in Seq(Posted(IoCalls))
      /\ imageFrame <= imageFrame /\ imageFrame <= imageFrame + 1
  BY NumberTypes, OthersKept, QueueTypes DEF IInv, ioVars, ioData, Typed, TypedAudio, Next
<1>1. CASE TakePrepare
  <2> DEFINE g == Head(toAudio).generation
  <2>1. /\ AudioTakes("prepare") /\ UNCHANGED toIo /\ sstvGeneration' = g
    BY <1>1 DEF TakePrepare
  <2>2. g \in Pending
    BY <1>0, <2>1, AudioTaken DEF Pending
  <2> HIDE DEF g
  <2>3. g \notin Sounds /\ g \notin HeardGens
    BY <1>0, <2>2 DEF KeyedOnce, ImageOrder
  <2>4. \A n : FramesUpTo(toIo, g, n)
    <3>1. \A i \in 1..Len(toIo) : toIo[i].name = "packet" => toIo[i].generation \in Sounds
      BY InGens DEF Sounds
    <3> QED BY <2>3, <3>1 DEF FramesUpTo
  <2>5. \A h \in heard : h.gen # g
    BY <2>3 DEF HeardGens
  <2> QED BY <1>0, <2>1, <2>4, <2>5, HeardNotPending DEF ImageOrder
<1>2. CASE PostImage
  <2>1. Label = sstvGeneration /\ UNCHANGED sstvGeneration
    BY <1>2, LabelIs DEF PostImage
  <2>2. CASE UNCHANGED <<toIo, imageFrame>>
    BY <1>0, <2>1, <2>2, ImageOrderKept
  <2>3. CASE /\ toIo' = toIo \o Packet(sstvGeneration, imageFrame + 1)
             /\ imageFrame' = imageFrame + 1
    <3> DEFINE c == [name |-> "packet", generation |-> sstvGeneration, frame |-> imageFrame + 1]
    <3>1. c \in Posted(IoCalls) /\ toIo' = Append(toIo, c)
      <4>1. imageFrame + 1 \in 0..Frames
        <5>1. /\ sstvPrepared /\ imageFrame < Frames
              /\ imageFrame \in 0..Frames /\ Frames \in Nat
          BY <1>2, NumberTypes DEF PostImage, IInv, FramesLeft, Typed, TypedAudio
        <5> QED BY <5>1
      <4>2. "packet" \in IoCalls
        BY DEF IoCalls
      <4> QED BY <1>0, <2>3, <4>1, <4>2, PacketIs
    <3>2. c.frame <= imageFrame + 1 /\ imageFrame + 1 \in Nat
      BY <1>0
    <3> HIDE DEF c
    <3>3. sstvGeneration # 0 => FramesUpTo(toIo', sstvGeneration, imageFrame + 1)
      BY <1>0, <3>1, <3>2, UpToAppend DEF ImageOrder
    <3>4. \A h \in heard : h.frame \in Nat
      BY NumberTypes DEF IInv, Typed, TypedIo
    <3>5. sstvGeneration # 0 => \A h \in heard : h.gen = sstvGeneration => h.frame <= imageFrame + 1
      BY <1>0, <3>4 DEF ImageOrder
    <3> QED BY <1>0, <2>1, <2>3, <3>3, <3>5, HeardNotPending DEF ImageOrder
  <2> QED BY <1>2, <2>1, <2>2, <2>3 DEF PostImage
<1>3. CASE EmitFrame
  <2>1. /\ phase = "audio" /\ ftEncoding = txGeneration /\ UNCHANGED <<sstvGeneration, imageFrame>>
        /\ UNCHANGED toIo \/ toIo' = toIo \o Packet(txGeneration, ftFrame + 1)
    BY <1>3 DEF EmitFrame, Ticks, sstvVars
  <2>2. CASE UNCHANGED toIo
    BY <1>0, <2>1, <2>2, ImageOrderKept
  <2>3. CASE toIo' = toIo \o Packet(txGeneration, ftFrame + 1)
    <3> DEFINE c == [name |-> "packet", generation |-> txGeneration, frame |-> ftFrame + 1]
    <3>1. c \in Posted(IoCalls) /\ toIo' = Append(toIo, c)
      <4>1. ftFrame + 1 \in 0..Frames
        <5>1. ftFrame < Frames /\ ftFrame \in 0..Frames /\ Frames \in Nat
          BY <2>1, NumberTypes DEF IInv, FramesLeft, Typed, TypedAudio
        <5> QED BY <5>1
      <4>2. "packet" \in IoCalls
        BY DEF IoCalls
      <4> QED BY <1>0, <2>3, <4>1, <4>2, PacketIs
    <3>2. sstvGeneration # 0 => c.generation # sstvGeneration
      BY <2>1 DEF OwnFt, FtUses
    <3> HIDE DEF c
    <3>3. sstvGeneration # 0 /\ FramesUpTo(toIo, sstvGeneration, imageFrame)
          => FramesUpTo(toIo', sstvGeneration, imageFrame)
      BY <1>0, <3>1, <3>2, UpToAppend
    <3> QED BY <1>0, <2>1, <3>3, ImageOrderKept
  <2> QED BY <2>1, <2>2, <2>3
<1>4. CASE TakeSchedule \/ TakeAccepted \/ RequestKey \/ StartAudio \/ RequestUnkey
           \/ AudioFails \/ Completes \/ AudioPasses
  <2>1. /\ UNCHANGED <<sstvGeneration, imageFrame>>
        /\ \/ UNCHANGED toIo
           \/ \E name \in {"beginFt", "stopFt"} : toIo' = toIo \o Call(name, txGeneration)
    BY <1>4 DEF TakeSchedule, TakeAccepted, RequestKey, StartAudio, RequestUnkey, AudioFails, Fail,
                Completes, AudioPasses, queues, sstvVars
  <2>2. IoWithout({"packet"})
    BY <1>0, <2>1 DEF IoWithout, IoCalls
  <2> QED BY <1>0, <2>1, <2>2, NoFramePosted, ImageOrderKept
<1> QED BY <1>0, <1>1, <1>2, <1>3, <1>4, AudioCases

(* No frame is on its way that the encoder has not made.                   *)
LEMMA ImageOrderStep ==
    IInv /\ PreparesFirst /\ OwnFt /\ ImageOrder /\ [Next]_vars => ImageOrder'
<1> SUFFICES ASSUME IInv, PreparesFirst, OwnFt, ImageOrder, [Next]_vars PROVE ImageOrder'
  OBVIOUS
<1>0. Typed /\ imageFrame \in Nat
  BY NumberTypes DEF IInv, Typed, TypedAudio
<1>1. CASE UiThread
  <2>1. UNCHANGED <<sstvGeneration, imageFrame>>
    BY <1>1, OthersKept DEF audioVars, sstvVars
  <2>2. IoWithout({"packet"})
    BY <1>1, UiMoves DEF IoMore, IoWithout, IoCalls
  <2> QED BY <1>0, <2>1, <2>2, NoFramePosted, ImageOrderKept
<1>2. CASE IoThread
  <2>1. UNCHANGED <<sstvGeneration, imageFrame>>
    BY <1>2, OthersKept DEF audioVars, sstvVars
  <2>2. IoWithout({"packet"})
    BY <1>2, IoMoves DEF IoWithout
  <2> QED BY <1>0, <2>1, <2>2, NoFramePosted, ImageOrderKept
<1>3. CASE UNCHANGED vars
  <2>1. UNCHANGED <<toIo, sstvGeneration, imageFrame>>
    BY <1>3 DEF vars, queues, audioVars, sstvVars
  <2> QED BY <2>1, ImageOrderKept
<1> QED BY <1>1, <1>2, <1>3, AudioImageOrder DEF Next

(***************************************************************************)
(* An image is prepared for the transmission of the UI thread, or the call *)
(* that stops it is on its way                                             *)
(***************************************************************************)
\* Behind the first i calls a stop comes before any other image is prepared.
EndsBehind(q, i) ==
    \E j \in 1..Len(q) :
        /\ i < j /\ q[j].name = "stopSstv"
        /\ \A k \in 1..Len(q) : i < k /\ k < j => q[k].name # "prepare"
PreparesEnd(q, live) ==
    \A i \in 1..Len(q) :
        q[i].name = "prepare" => q[i].generation \in live \/ EndsBehind(q, i)

(* An end queued behind the last image ends it.                            *)
LEMMA EndsBehindAppend ==
    ASSUME NEW S, NEW q \in Seq(S), NEW c \in S, NEW i \in 0..Len(q)
    PROVE  /\ EndsBehind(q, i) => EndsBehind(Append(q, c), i)
           /\ c.name = "stopSstv" /\ (\A k \in 1..Len(q) : i < k => q[k].name # "prepare")
              => EndsBehind(Append(q, c), i)
<1> DEFINE t == Append(q, c)
<1>1. /\ Len(q) \in Nat /\ Len(t) = Len(q) + 1
      /\ \A k \in 1..Len(q) : t[k] = q[k] /\ k \in 1..Len(t)
      /\ t[Len(q) + 1] = c /\ Len(q) + 1 \in 1..Len(t)
  BY AppendIs
<1> HIDE DEF t
<1>2. ASSUME EndsBehind(q, i) PROVE EndsBehind(t, i)
  <2>1. PICK j \in 1..Len(q) :
            /\ i < j /\ q[j].name = "stopSstv"
            /\ \A k \in 1..Len(q) : i < k /\ k < j => q[k].name # "prepare"
    BY <1>2 DEF EndsBehind
  <2>2. ASSUME NEW k \in 1..Len(t), i < k, k < j PROVE t[k].name # "prepare"
    <3>1. k \in 1..Len(q)
      BY <1>1, <2>2
    <3> QED BY <1>1, <2>1, <2>2, <3>1
  <2>3. j \in 1..Len(t) /\ t[j].name = "stopSstv"
    BY <1>1, <2>1
  <2> QED BY <2>1, <2>2, <2>3 DEF EndsBehind
<1>3. ASSUME c.name = "stopSstv", \A k \in 1..Len(q) : i < k => q[k].name # "prepare"
      PROVE  EndsBehind(t, i)
  <2> DEFINE j == Len(q) + 1
  <2>1. i < j /\ j \in 1..Len(t) /\ t[j].name = "stopSstv"
    BY <1>1, <1>3
  <2>2. ASSUME NEW k \in 1..Len(t), i < k, k < j PROVE t[k].name # "prepare"
    <3>1. k \in 1..Len(q)
      BY <1>1, <2>2
    <3> QED BY <1>1, <1>3, <2>2, <3>1
  <2> HIDE DEF j
  <2> QED BY <2>1, <2>2 DEF EndsBehind
<1> QED BY <1>2, <1>3 DEF t

(* It does so until it is taken.                                           *)
LEMMA EndsBehindTail ==
    ASSUME NEW S, NEW q \in Seq(S), q # <<>>, NEW i \in 0..Len(q), EndsBehind(q, i),
           i = 0 => Head(q).name # "stopSstv"
    PROVE  /\ i = 0 => Head(q).name # "prepare" /\ EndsBehind(Tail(q), 0)
           /\ i # 0 => EndsBehind(Tail(q), i - 1)
<1> DEFINE t == Tail(q)
<1>1. /\ Len(q) \in Nat \ {0} /\ Len(t) = Len(q) - 1
      /\ \A k \in 1..Len(q) - 1 : t[k] = q[k + 1]
      /\ Head(q) = q[1] /\ 1 \in 1..Len(q)
  BY TailIs
<1> HIDE DEF t
<1>2. PICK j \in 1..Len(q) :
          /\ i < j /\ q[j].name = "stopSstv"
          /\ \A k \in 1..Len(q) : i < k /\ k < j => q[k].name # "prepare"
  BY DEF EndsBehind
<1>3. j # 1
  BY <1>1, <1>2
<1>4. j - 1 \in 1..Len(t) /\ t[j - 1].name = "stopSstv" /\ i - 1 < j - 1
  <2>1. j - 1 \in 1..Len(q) - 1 /\ (j - 1) + 1 = j
    BY <1>1, <1>3
  <2> QED BY <1>1, <1>2, <2>1
<1>5. ASSUME NEW k \in 1..Len(t), i - 1 < k, k < j - 1 PROVE t[k].name # "prepare"
  <2>1. k + 1 \in 1..Len(q) /\ i < k + 1 /\ k + 1 < j /\ t[k] = q[k + 1]
    BY <1>1, <1>5
  <2> QED BY <1>2, <2>1
<1>6. CASE i = 0
  <2>1. 0 < j - 1 /\ \A k \in 1..Len(t) : k < j - 1 => t[k].name # "prepare"
    BY <1>3, <1>5, <1>6
  <2>2. EndsBehind(t, 0)
    BY <1>4, <2>1 DEF EndsBehind
  <2>3. Head(q).name # "prepare"
    BY <1>1, <1>2, <1>3, <1>6
  <2> QED BY <1>6, <2>2, <2>3 DEF t
<1>7. CASE i # 0
  <2>1. EndsBehind(t, i - 1)
    BY <1>4, <1>5 DEF EndsBehind
  <2> QED BY <1>7, <2>1 DEF t
<1> QED BY <1>6, <1>7

(* An image asked for is live, or its end is queued behind.                *)
LEMMA PreparesEndAppend ==
    ASSUME NEW S, NEW q \in Seq(S), NEW c \in S, NEW live, NEW later, PreparesEnd(q, live),
           c.name = "prepare" => c.generation \in later,
           \A i \in 1..Len(q) :
               q[i].name = "prepare" /\ q[i].generation \in live =>
                   \/ q[i].generation \in later
                   \/ /\ c.name = "stopSstv"
                      /\ \A k \in 1..Len(q) : i < k => q[k].name # "prepare"
    PROVE  PreparesEnd(Append(q, c), later)
<1> DEFINE t == Append(q, c)
<1>1. /\ Len(q) \in Nat /\ Len(t) = Len(q) + 1
      /\ \A i \in 1..Len(q) : t[i] = q[i] /\ i \in 0..Len(q)
      /\ t[Len(q) + 1] = c
  BY AppendIs
<1>2. \A i \in 1..Len(q) :
          /\ EndsBehind(q, i) => EndsBehind(t, i)
          /\ c.name = "stopSstv" /\ (\A k \in 1..Len(q) : i < k => q[k].name # "prepare")
             => EndsBehind(t, i)
  BY <1>1, EndsBehindAppend
<1> HIDE DEF t
<1>3. PreparesEnd(t, later)
  <2> SUFFICES ASSUME NEW i \in 1..Len(t), t[i].name = "prepare"
               PROVE  t[i].generation \in later \/ EndsBehind(t, i)
    BY DEF PreparesEnd
  <2>1. CASE i \in 1..Len(q)
    <3>1. q[i].name = "prepare" /\ t[i] = q[i]
      BY <1>1, <2>1
    <3>2. q[i].generation \in live \/ EndsBehind(q, i)
      BY <2>1, <3>1 DEF PreparesEnd
    <3> QED BY <1>2, <2>1, <3>1, <3>2
  <2>2. CASE i = Len(q) + 1
    BY <1>1, <2>2
  <2> QED BY <1>1, <2>1, <2>2
<1> QED BY <1>3 DEF t

(* So is one that is taken.                                                *)
LEMMA PreparesEndTail ==
    ASSUME NEW S, NEW q \in Seq(S), q # <<>>, NEW live, PreparesEnd(q, live)
    PROVE  /\ PreparesEnd(Tail(q), live)
           /\ Head(q).name = "prepare" => Head(q).generation \in live \/ EndsBehind(Tail(q), 0)
<1> DEFINE t == Tail(q)
<1>1. /\ Len(q) \in Nat \ {0} /\ Len(t) = Len(q) - 1
      /\ \A k \in 1..Len(q) - 1 : t[k] = q[k + 1]
      /\ Head(q) = q[1] /\ 1 \in 1..Len(q)
  BY TailIs
<1>2. \A i \in 1..Len(q) : EndsBehind(q, i) => EndsBehind(t, i - 1)
  BY <1>1, EndsBehindTail
<1> HIDE DEF t
<1>3. PreparesEnd(t, live)
  <2> SUFFICES ASSUME NEW i \in 1..Len(t), t[i].name = "prepare"
               PROVE  t[i].generation \in live \/ EndsBehind(t, i)
    BY DEF PreparesEnd
  <2>1. i + 1 \in 1..Len(q) /\ t[i] = q[i + 1] /\ (i + 1) - 1 = i
    BY <1>1
  <2>2. t[i].generation \in live \/ EndsBehind(q, i + 1)
    BY <2>1 DEF PreparesEnd
  <2>3. EndsBehind(q, i + 1) => EndsBehind(t, (i + 1) - 1)
    BY <1>2, <2>1
  <2> QED BY <2>1, <2>2, <2>3
<1>4. Head(q).name = "prepare" => Head(q).generation \in live \/ EndsBehind(t, 0)
  <2>1. Head(q).name = "prepare" => Head(q).generation \in live \/ EndsBehind(q, 1)
    BY <1>1 DEF PreparesEnd
  <2>2. EndsBehind(q, 1) => EndsBehind(t, 1 - 1)
    BY <1>1, <1>2
  <2> QED BY <2>1, <2>2
<1> QED BY <1>3, <1>4 DEF t

(***************************************************************************)
(* A refused image is over, and an image that is prepared will be stopped  *)
(***************************************************************************)
LiveSstv == IF SstvBusy THEN {lastGeneration} ELSE {}
Refused == Gens(toUi, {"notPrepared"})

\* A refused image was not handed on, is not keyed and is not with the encoder.
Refusals ==
    /\ Refused \intersect Pending = {}
    /\ \A g \in Refused : g <= lastGeneration
    /\ active /\ kind = "sstv" =>
           myGeneration \notin Refused \union Pending /\ myGeneration <= lastGeneration
    /\ sstvPrepared => sstvGeneration \notin Refused
ImageEnds ==
    /\ sstvPrepared => sstvGeneration \in LiveSstv \/ EndsBehind(toAudio, 0)
    /\ PreparesEnd(toAudio, LiveSstv)

\* An image is prepared only when the encoder has stopped.
LEMMA PreparesIdle ==
    ASSUME IInv, ImageEnds, TakePrepare
    PROVE  ~sstvPrepared
<1>0. /\ Typed /\ KeyedOnce /\ OwnGenerations /\ toAudio \in Seq(Posted(AudioCalls))
      /\ AudioTakes("prepare")
  BY QueueTypes DEF IInv, TakePrepare
<1> DEFINE g == Head(toAudio).generation
<1>1. sstvGeneration < g /\ g \in Asked /\ g \in Nat /\ sstvGeneration \in Nat
      /\ lastGeneration \in Nat
  <2>1. g \in GenerationOrNone
    BY <1>0, AudioTook
  <2>2. sstvGeneration < g /\ Asked = Asked' \union {g}
    BY <1>0, AudioTaken DEF KeyedOnce
  <2>3. g \in Nat /\ sstvGeneration \in Nat /\ lastGeneration \in Nat
    BY <1>0, <2>1, NumberTypes
  <2> QED BY <2>2, <2>3
<1>2. g <= lastGeneration
  BY <1>0, <1>1 DEF OwnGenerations, SstvUses, Pending
<1> HIDE DEF g
<1>3. sstvGeneration \notin LiveSstv
  BY <1>1, <1>2 DEF LiveSstv
<1>4. ~EndsBehind(toAudio, 0)
  <2>1. toAudio # <<>> /\ Head(toAudio).name = "prepare" /\ 0 \in 0..Len(toAudio)
    <3>1. toAudio # <<>> /\ Head(toAudio).name = "prepare"
      BY <1>0 DEF AudioTakes, AtHead
    <3>2. Len(toAudio) \in Nat
      BY <1>0, LenProperties
    <3> QED BY <3>1, <3>2
  <2> QED BY <1>0, <2>1, EndsBehindTail
<1> QED BY <1>3, <1>4 DEF ImageEnds

\* Only preparing an image gives the encoder one.
LEMMA PreparedKept ==
    ASSUME Typed, [Next]_vars, ~TakePrepare
    PROVE  sstvPrepared' => sstvPrepared
<1>1. CASE UiThread \/ IoThread \/ UNCHANGED vars
  <2>1. UNCHANGED sstvPrepared
    BY <1>1, OthersKept DEF vars, audioVars, sstvVars
  <2> QED BY <2>1
<1>2. CASE AudioThread
  <2>1. PostImage => (sstvPrepared' => sstvPrepared)
    BY DEF PostImage, SstvStopped
  <2>2. TakeSchedule \/ TakeAccepted \/ RequestKey \/ StartAudio \/ EmitFrame \/ RequestUnkey
        => UNCHANGED sstvPrepared
    BY DEF TakeSchedule, TakeAccepted, RequestKey, StartAudio, EmitFrame, RequestUnkey, sstvVars
  <2>3. AudioFails \/ Completes => UNCHANGED sstvPrepared
    BY DEF AudioFails, Fail, Completes, sstvVars
  <2>4. AudioPasses => (sstvPrepared' => sstvPrepared)
    BY DEF AudioPasses
  <2> QED BY <1>2, <2>1, <2>2, <2>3, <2>4, AudioCases
<1> QED BY <1>1, <1>2 DEF Next

(* An image is refused when the audio thread will not take it.             *)
LEMMA RefusedMoves ==
    ASSUME IInv, [Next]_vars
    PROVE  \/ Refused' \subseteq Refused
           \/ /\ TakePrepare
              /\ toUi' = toUi \o Call("notPrepared", Head(toAudio).generation)
              /\ Refused' = Refused \union {Head(toAudio).generation}
              /\ HandedOn' = HandedOn
<1>0. Typed /\ sstvGeneration \in GenerationOrNone /\ Label \in GenerationOrNone
      /\ txGeneration \in GenerationOrNone
  BY NumberTypes DEF IInv
<1>1. ASSUME UiWithout({"notPrepared"}) PROVE Refused' \subseteq Refused
  BY <1>0, <1>1, UiKept DEF Refused
<1>2. CASE UiThread
  <2>1. UNCHANGED toUi \/ \E name : UiTakes(name)
    <3>1. StartSstv \/ UiStopsSstv \/ UiStopsFt \/ UiPasses \/ OnPrepared \/ OnFinished
          => UNCHANGED toUi \/ \E name : UiTakes(name)
      BY DEF StartSstv, UiStopsSstv, UiStopsFt, UiPasses, OnPrepared, OnFinished, UiQuietTake
    <3>2. \A g : DrainElapsed(g) => UNCHANGED toUi
      BY DEF DrainElapsed
    <3>3. \A operator : StartFt(operator) => UNCHANGED toUi
      BY DEF StartFt
    <3> QED BY <1>2, <3>1, <3>2, <3>3, UiCases
  <2> QED BY <1>1, <2>1 DEF UiWithout
<1>3. CASE IoThread
  BY <1>1, <1>3, IoMoves DEF UiWithout, UiCalls
<1>4. CASE UNCHANGED vars
  BY <1>1, <1>4 DEF UiWithout, vars, queues
<1>5. CASE AudioThread /\ ~TakePrepare
  <2>1. \/ UNCHANGED toUi
        \/ \E name \in {"failed", "finished", "finishedWell"}, g \in GenerationOrNone :
               toUi' = toUi \o Call(name, g)
    <3>1. PostImage \/ AudioPasses \/ AudioFails \/ Completes =>
              \/ UNCHANGED toUi
              \/ \E name \in {"failed", "finished", "finishedWell"}, g \in GenerationOrNone :
                     toUi' = toUi \o Call(name, g)
      BY <1>0 DEF PostImage, AudioPasses, AudioFails, Fail, Completes
    <3>2. TakeAccepted \/ RequestKey \/ StartAudio \/ EmitFrame \/ RequestUnkey => UNCHANGED toUi
      BY DEF TakeAccepted, RequestKey, StartAudio, EmitFrame, RequestUnkey, queues
    <3>3. ASSUME TakeSchedule
          PROVE  \/ UNCHANGED toUi
                 \/ \E g \in GenerationOrNone : toUi' = toUi \o Call("finished", g)
      <4>1. Head(toAudio).generation \in GenerationOrNone
        BY <1>0, <3>3, AudioTook DEF TakeSchedule
      <4> QED BY <3>3, <4>1 DEF TakeSchedule, RefuseSchedule
    <3> QED BY <1>0, <1>5, <3>1, <3>2, <3>3, AudioCases
  <2>2. UiWithout({"notPrepared"})
    BY <2>1 DEF UiWithout, UiCalls
  <2> QED BY <1>1, <2>2
<1>6. CASE TakePrepare
  <2> DEFINE g == Head(toAudio).generation
  <2>1. /\ UNCHANGED toIo /\ g \in GenerationOrNone
        /\ toUi' = toUi \o Call("prepared", g) \/ toUi' = toUi \o Call("notPrepared", g)
    BY <1>6, PendingMoves DEF TakePrepare
  <2>2. {"prepared", "notPrepared"} \subseteq UiCalls
    BY DEF UiCalls
  <2> HIDE DEF g
  <2>3. CASE toUi' = toUi \o Call("prepared", g)
    <3>1. UiWithout({"notPrepared"})
      BY <2>1, <2>2, <2>3 DEF UiWithout
    <3> QED BY <1>1, <3>1
  <2>4. CASE toUi' = toUi \o Call("notPrepared", g)
    <3>1. Refused' = Refused \union {g} /\ Prepared' = Prepared
      BY <1>0, <2>1, <2>2, <2>4, UiPosted, UiPosts DEF Refused
    <3>2. HandedOn' = HandedOn
      BY <2>1, <3>1, SameQueues DEF HandedOn
    <3> QED BY <1>6, <2>4, <3>1, <3>2 DEF g
  <2> QED BY <2>1, <2>3, <2>4
<1> QED BY <1>2, <1>3, <1>4, <1>5, <1>6 DEF Next

(* A refused image is handed on by nobody.                                 *)
LEMMA RefusalsStep == IInv /\ ImageEnds /\ Refusals /\ [Next]_vars => Refusals'
<1> SUFFICES ASSUME IInv, ImageEnds, Refusals, [Next]_vars PROVE Refusals'
  OBVIOUS
<1>0. /\ Typed /\ KeyedOnce /\ OwnGenerations
      /\ \A g \in Pending' : g \in Pending \/ lastGeneration < g
      /\ lastGeneration <= lastGeneration' /\ lastGeneration \in Nat /\ lastGeneration' \in Nat
  <2>1. Typed'
    BY TypeStep DEF IInv
  <2>2. lastGeneration' \in Nat
    <3>1. GenerationOrNone \subseteq Nat
      BY NumberTypes DEF IInv
    <3> QED BY <2>1, <3>1 DEF Typed, TypedUi
  <2> QED BY <2>2, PendingOld, NumberTypes DEF IInv
<1>1. \A g \in Refused \union {myGeneration} : g \in Nat
  <2>1. myGeneration \in Nat
    BY NumberTypes DEF IInv, Typed, TypedIo
  <2>2. Refused \subseteq Nat
    <3>1. ASSUME NEW i \in 1..Len(toUi) PROVE toUi[i].generation \in Nat
      <4>1. toUi[i] \in Posted(UiCalls) /\ GenerationOrNone \subseteq Nat
        BY <1>0, QueueTypes, ElementOfSeq, NumberTypes
      <4> QED BY <4>1 DEF Posted
    <3> QED BY <3>1 DEF Refused, Gens
  <2> QED BY <2>1, <2>2
<1>2. ASSUME active', kind' = "sstv", UNCHANGED <<myGeneration, kind>>, active
      PROVE  /\ myGeneration' \notin Pending' /\ myGeneration' <= lastGeneration'
             /\ myGeneration' \notin Refused /\ myGeneration \notin Pending
  <2>1. myGeneration \notin Refused \union Pending /\ myGeneration <= lastGeneration
    BY <1>2 DEF Refusals
  <2>2. ~(lastGeneration < myGeneration)
    BY <1>0, <1>1, <2>1
  <2>3. myGeneration <= lastGeneration'
    BY <1>0, <1>1, <2>1
  <2> QED BY <1>0, <1>2, <2>1, <2>2, <2>3
<1>3. ASSUME NEW k \in {"sstv", "ft"}, ArmGuard(k), k = "sstv"
      PROVE  /\ myGeneration' \notin Refused /\ myGeneration' \notin Pending'
             /\ myGeneration' <= lastGeneration'
  <2>0. IoTakes(BeginCall(k)) /\ myGeneration' = Head(toIo).generation
    BY <1>3 DEF ArmGuard
  <2>1. myGeneration' \notin Pending' /\ myGeneration' \in Requested /\ myGeneration' \in Generations
    BY <1>0, <1>3, <2>0, ArmedFor, TakesBegin
  <2>2. myGeneration' <= lastGeneration /\ myGeneration' \notin Refused
    BY <1>0, <2>1 DEF Refusals, Pending, OwnGenerations, SstvUses
  <2>3. myGeneration' \in Nat
    BY <1>0, <2>1, NumberTypes
  <2> QED BY <1>0, <2>1, <2>2, <2>3
<1>4. CASE Refused' \subseteq Refused
  <2>1. Refused' \intersect Pending' = {}
    <3>1. \A g \in Refused : ~(lastGeneration < g)
      BY <1>0, <1>1 DEF Refusals
    <3> QED BY <1>0, <1>4, <3>1 DEF Refusals
  <2>2. \A g \in Refused' : g <= lastGeneration'
    <3>1. \A g \in Refused : g <= lastGeneration /\ g \in Nat
      BY <1>1 DEF Refusals
    <3> QED BY <1>0, <1>4, <3>1
  <2>3. active' /\ kind' = "sstv" =>
            myGeneration' \notin Refused' \union Pending' /\ myGeneration' <= lastGeneration'
    <3>1. CASE UNCHANGED <<myGeneration, kind>> /\ (active' => active)
      BY <1>2, <1>4, <3>1
    <3>2. ASSUME NEW k \in {"sstv", "ft"}, ArmGuard(k), kind' = "sstv"
          PROVE  myGeneration' \notin Refused' \union Pending' /\ myGeneration' <= lastGeneration'
      <4>1. k = "sstv"
        BY <3>2 DEF ArmGuard
      <4> QED BY <1>3, <1>4, <3>2, <4>1
    <3> QED BY <1>0, <3>1, <3>2, GuardMoves DEF IInv
  <2>4. sstvPrepared' => sstvGeneration' \notin Refused'
    <3>1. CASE TakePrepare
      <4>1. sstvGeneration' \in Asked
        BY <3>1, PendingMoves
      <4> QED BY <1>4, <4>1 DEF Refusals, Pending
    <3>2. CASE ~TakePrepare
      BY <1>0, <1>4, <3>2, PendingMoves, PreparedKept DEF Refusals
    <3> QED BY <3>1, <3>2
  <2> QED BY <2>1, <2>2, <2>3, <2>4 DEF Refusals
<1>5. ASSUME TakePrepare, toUi' = toUi \o Call("notPrepared", Head(toAudio).generation),
             Refused' = Refused \union {Head(toAudio).generation}, HandedOn' = HandedOn
      PROVE  Refusals'
  <2> DEFINE g == Head(toAudio).generation
  <2>1. g \in Asked /\ g \notin Asked' /\ Refused' = Refused \union {g} /\ AudioThread
        /\ sstvGeneration' = g /\ g \in GenerationOrNone
    BY <1>5, PendingMoves DEF AudioThread
  <2>2. ~sstvPrepared'
    <3>1. ~sstvPrepared
      BY <1>5, PreparesIdle
    <3>2. "prepared" # "notPrepared"
      OBVIOUS
    <3>3. toUi \o Call("prepared", g) # toUi \o Call("notPrepared", g)
      <4>1. {"prepared", "notPrepared"} \subseteq UiCalls /\ toUi \in Seq(Posted(UiCalls))
        BY <1>0, QueueTypes DEF UiCalls
      <4> DEFINE c == [name |-> "prepared", generation |-> g, frame |-> 0]
                 d == [name |-> "notPrepared", generation |-> g, frame |-> 0]
      <4>2. /\ toUi \o Call("prepared", g) = Append(toUi, c) /\ c \in Posted(UiCalls)
            /\ toUi \o Call("notPrepared", g) = Append(toUi, d) /\ d \in Posted(UiCalls)
        BY <2>1, <4>1, CallIs
      <4>3. c # d
        OBVIOUS
      <4> HIDE DEF c, d
      <4>4. /\ Append(toUi, c)[Len(toUi) + 1] = c /\ Append(toUi, d)[Len(toUi) + 1] = d
        BY <4>1, <4>2, AppendIs
      <4> QED BY <4>2, <4>3, <4>4
    <3> QED BY <1>5, <3>1, <3>3 DEF TakePrepare
  <2> HIDE DEF g
  <2>3. g \notin HandedOn /\ g \in Pending /\ g <= lastGeneration
    BY <1>0, <2>1 DEF KeyedOnce, HandedOn, Pending, OwnGenerations, SstvUses
  <2>4. UNCHANGED lastGeneration /\ UNCHANGED <<active, kind, myGeneration>>
    BY <2>1, OthersKept DEF uiVars, ioVars, ioData, guard
  <2>5. Pending' \subseteq Pending \ {g}
    <3>1. Asked' \subseteq Asked \/ StartSstv
      BY PendingMoves
    <3>2. ~StartSstv
      BY <1>5, <2>2, <2>1 DEF StartSstv, TakePrepare, AudioTakes, AtHead, uiVars, ioVars, ioData
    <3> QED BY <1>5, <2>1, <2>3, <3>1, <3>2 DEF Pending, HandedOn
  <2>6. active /\ kind = "sstv" =>
            myGeneration \notin Refused \union Pending /\ myGeneration <= lastGeneration
    BY DEF Refusals
  <2> QED BY <2>1, <2>2, <2>3, <2>4, <2>5, <2>6 DEF Refusals
<1> QED BY <1>4, <1>5, RefusedMoves

(* Types used below.                                                       *)
LEMMA LiveAudioIs ==
    ASSUME Typed
    PROVE  /\ toAudio \in Seq(Posted(AudioCalls)) /\ Len(toAudio) \in Nat
           /\ 0 \in 0..Len(toAudio) /\ lastGeneration \in Nat /\ sstvGeneration \in Nat
           /\ lastGeneration \in GenerationOrNone /\ ft \in GenerationOrNone
           /\ 0 \in GenerationOrNone
           /\ \A i \in 1..Len(toAudio) : i \in 0..Len(toAudio) /\ toAudio[i].generation \in Nat
<1>1. toAudio \in Seq(Posted(AudioCalls)) /\ Len(toAudio) \in Nat
  BY QueueTypes, LenProperties
<1>2. ASSUME NEW i \in 1..Len(toAudio) PROVE toAudio[i].generation \in Nat
  <2>1. toAudio[i] \in Posted(AudioCalls) /\ GenerationOrNone \subseteq Nat
    BY <1>1, ElementOfSeq, NumberTypes
  <2> QED BY <2>1 DEF Posted
<1> QED BY <1>1, <1>2, NumberTypes, SMTT(30)

\* A call posted to the audio thread.
LEMMA ImageEndsPosted ==
    ASSUME Typed, ImageEnds, NEW name \in AudioCalls, NEW g \in GenerationOrNone,
           toAudio' = toAudio \o Call(name, g),
           name = "prepare" => g \in LiveSstv',
           sstvPrepared' => sstvPrepared, UNCHANGED sstvGeneration,
           LiveSstv \subseteq LiveSstv'
               \/ /\ name = "stopSstv"
                  /\ sstvPrepared /\ sstvGeneration \in LiveSstv
                     => \A k \in 1..Len(toAudio) : toAudio[k].name # "prepare"
                  /\ \A i, k \in 1..Len(toAudio) :
                         /\ toAudio[i].name = "prepare" /\ toAudio[i].generation \in LiveSstv
                         /\ i < k
                         => toAudio[k].name # "prepare"
    PROVE  ImageEnds'
<1> DEFINE c == [name |-> name, generation |-> g, frame |-> 0]
<1>1. c \in Posted(AudioCalls) /\ toAudio' = Append(toAudio, c)
  BY LiveAudioIs, CallIs
<1>2. c.name = name /\ c.generation = g
  OBVIOUS
<1> HIDE DEF c
<1>3. PreparesEnd(toAudio, LiveSstv)
  BY DEF ImageEnds
<1>4. \A i \in 1..Len(toAudio) :
          toAudio[i].name = "prepare" /\ toAudio[i].generation \in LiveSstv =>
              \/ toAudio[i].generation \in LiveSstv'
              \/ /\ c.name = "stopSstv"
                 /\ \A k \in 1..Len(toAudio) : i < k => toAudio[k].name # "prepare"
  BY <1>2
<1>5. PreparesEnd(toAudio', LiveSstv')
  BY <1>1, <1>2, <1>3, <1>4, LiveAudioIs, PreparesEndAppend
<1>6. ASSUME sstvPrepared' PROVE sstvGeneration \in LiveSstv' \/ EndsBehind(toAudio', 0)
  <2>1. /\ EndsBehind(toAudio, 0) => EndsBehind(toAudio', 0)
        /\ c.name = "stopSstv" /\ (\A k \in 1..Len(toAudio) : 0 < k => toAudio[k].name # "prepare")
           => EndsBehind(toAudio', 0)
    BY <1>1, LiveAudioIs, EndsBehindAppend
  <2>2. sstvGeneration \in LiveSstv \/ EndsBehind(toAudio, 0)
    BY <1>6 DEF ImageEnds
  <2> QED BY <1>2, <1>6, <2>1, <2>2
<1> QED BY <1>5, <1>6 DEF ImageEnds

\* A call taken by the audio thread.
LEMMA ImageEndsTaken ==
    ASSUME Typed, ImageEnds, NEW name, AudioTakes(name), name # "prepare",
           name = "stopSstv" => ~sstvPrepared',
           sstvPrepared' => sstvPrepared, UNCHANGED sstvGeneration, UNCHANGED LiveSstv
    PROVE  ImageEnds'
<1>1. /\ toAudio # <<>> /\ Head(toAudio).name = name /\ toAudio' = Tail(toAudio)
  BY DEF AudioTakes, AtHead
<1>2. PreparesEnd(toAudio', LiveSstv')
  BY <1>1, LiveAudioIs, PreparesEndTail DEF ImageEnds
<1>3. ASSUME sstvPrepared' PROVE sstvGeneration \in LiveSstv' \/ EndsBehind(toAudio', 0)
  <2>1. sstvGeneration \in LiveSstv \/ EndsBehind(toAudio, 0)
    BY <1>3 DEF ImageEnds
  <2>2. EndsBehind(toAudio, 0) => EndsBehind(toAudio', 0)
    BY <1>1, <1>3, LiveAudioIs, EndsBehindTail
  <2> QED BY <2>1, <2>2
<1> QED BY <1>2, <1>3 DEF ImageEnds

\* The queue is as it was, and what was live still is or was never prepared.
LEMMA ImageEndsKept ==
    ASSUME Typed, ImageEnds, UNCHANGED toAudio, UNCHANGED sstvGeneration,
           sstvPrepared' => sstvPrepared,
           \A g \in LiveSstv \ LiveSstv' : g \notin Asked /\ ~(sstvPrepared /\ sstvGeneration = g)
    PROVE  ImageEnds'
<1>1. \A i \in 1..Len(toAudio) : toAudio[i].name = "prepare" => toAudio[i].generation \in Asked
  BY DEF Asked, Gens
<1> QED BY <1>1 DEF ImageEnds, PreparesEnd

\* Once the image is prepared, or stopped, no other is asked for.
LEMMA LastIsAskedLast ==
    ASSUME IInv
    PROVE  /\ \A i, k \in 1..Len(toAudio) :
                  /\ toAudio[i].name = "prepare" /\ toAudio[i].generation = lastGeneration
                  /\ i < k
                  => toAudio[k].name # "prepare"
           /\ sstvGeneration = lastGeneration
              => \A k \in 1..Len(toAudio) : toAudio[k].name # "prepare"
<1>0. Typed /\ KeyedOnce /\ OwnGenerations
  BY DEF IInv
<1>1. ASSUME NEW k \in 1..Len(toAudio), toAudio[k].name = "prepare"
      PROVE  ~(lastGeneration < toAudio[k].generation)
  <2>1. toAudio[k].generation \in Asked
    BY <1>1 DEF Asked, Gens
  <2>2. toAudio[k].generation <= lastGeneration
    BY <1>0, <2>1 DEF OwnGenerations, SstvUses, Pending
  <2> QED BY <1>0, <2>2, LiveAudioIs
<1> QED BY <1>0, <1>1 DEF KeyedOnce, Rising

(* The UI thread stops its image: the end is queued.                       *)
LEMMA StopSstvImageEnds ==
    ASSUME IInv, ImageEnds, UiStopsSstv
    PROVE  ImageEnds'
<1>1. /\ toAudio' = toAudio \o Call("stopSstv", 0) /\ ~SstvBusy' /\ SstvBusy
      /\ UNCHANGED <<sstvGeneration, sstvPrepared>>
  BY DEF UiStopsSstv, StopSstv, SstvBusy, audioVars, sstvVars
<1>2. LiveSstv = {lastGeneration}
  BY <1>1 DEF LiveSstv
<1>3. "stopSstv" \in AudioCalls /\ Typed
  BY DEF AudioCalls, IInv
<1> QED BY <1>1, <1>2, <1>3, LiveAudioIs, LastIsAskedLast, ImageEndsPosted

\* A transmission that drained has no image left to prepare or to make.
LEMMA DrainImageEnds ==
    ASSUME IInv, DoneHeard, ImageOrder, ImageEnds, NEW g \in Generations, DrainElapsed(g)
    PROVE  ImageEnds'
<1>0. Typed /\ UNCHANGED <<toAudio, sstvGeneration, sstvPrepared>>
  BY DEF IInv, DrainElapsed, audioVars, sstvVars
<1>1. g \in HeardGens /\ [gen |-> g, frame |-> Frames, over |-> g] \in heard
  <2>1. AllHeard(heard, g)
    BY DEF DrainElapsed, DoneHeard, Done
  <2>2. Frames \in 1..Frames
    BY LinkAssumption
  <2>3. [gen |-> g, frame |-> Frames, over |-> g] \in heard
    BY <2>1, <2>2 DEF AllHeard, Reached
  <2>4. [gen |-> g, frame |-> Frames, over |-> g].gen = g
    OBVIOUS
  <2> QED BY <2>3, <2>4 DEF HeardGens
<1>2. g \notin Asked
  BY <1>1 DEF ImageOrder, Pending
<1>3. ~(sstvPrepared /\ sstvGeneration = g)
  <2>1. SUFFICES ASSUME sstvPrepared, sstvGeneration = g PROVE FALSE
    OBVIOUS
  <2>2. imageFrame < Frames
    BY <2>1 DEF IInv, FramesLeft
  <2>3. g # 0
    BY NumberTypes, <1>0 DEF Generations
  <2>4. Frames <= imageFrame
    <3> DEFINE h == [gen |-> g, frame |-> Frames, over |-> g]
    <3>1. h \in heard /\ h.gen = g /\ h.frame = Frames
      BY <1>1
    <3> HIDE DEF h
    <3> QED BY <2>1, <2>3, <3>1 DEF ImageOrder
  <2>5. imageFrame \in Nat /\ Frames \in Nat
    BY <1>0, NumberTypes DEF Typed, TypedAudio
  <2> QED BY <2>2, <2>4, <2>5
<1>4. \A k \in LiveSstv \ LiveSstv' : k = g
  <2>1. g = lastGeneration \/ UNCHANGED <<lastGeneration, sstv>>
    BY DEF DrainElapsed
  <2> QED BY <2>1 DEF LiveSstv, SstvBusy
<1> QED BY <1>0, <1>2, <1>3, <1>4, ImageEndsKept

(* The UI thread lets go of an image only with its end queued.             *)
LEMMA UiImageEnds ==
    ASSUME IInv, DoneHeard, ImageOrder, Refusals, ImageEnds, UiThread
    PROVE  ImageEnds'
<1>0. /\ Typed /\ UNCHANGED <<sstvGeneration, sstvPrepared>>
      /\ Generations \subseteq GenerationOrNone
  BY OthersKept, NumberTypes DEF IInv, audioVars, sstvVars
<1>1. CASE StartSstv
  <2>1. /\ toAudio' = toAudio \o Call("prepare", Issued) /\ LiveSstv = {} /\ LiveSstv' = {Issued}
        /\ Issued \in GenerationOrNone
    BY <1>1, IssuedIs DEF StartSstv, LiveSstv, SstvBusy, IInv
  <2>2. "prepare" \in AudioCalls
    BY DEF AudioCalls
  <2> QED BY <1>0, <2>1, <2>2, ImageEndsPosted
<1>2. ASSUME NEW operator \in BOOLEAN, StartFt(operator) PROVE ImageEnds'
  <2>1. /\ toAudio' = toAudio \o Call("schedule", Issued) /\ LiveSstv = {} /\ LiveSstv' = {}
        /\ Issued \in GenerationOrNone
    BY <1>2, IssuedIs DEF StartFt, LiveSstv, SstvBusy, IInv
  <2>2. "schedule" \in AudioCalls
    BY DEF AudioCalls
  <2> QED BY <1>0, <2>1, <2>2, ImageEndsPosted
<1>3. CASE UiStopsFt
  <2>1. toAudio' = toAudio \o Call("cancel", ft) /\ LiveSstv' = LiveSstv
    BY <1>3 DEF UiStopsFt, StopFt, LiveSstv, SstvBusy
  <2>2. "cancel" \in AudioCalls
    BY DEF AudioCalls
  <2> QED BY <1>0, <2>1, <2>2, LiveAudioIs, ImageEndsPosted
<1>4. CASE UiPasses
  <2>1. LiveSstv' = LiveSstv
    BY <1>4 DEF UiPasses, LiveSstv, SstvBusy
  <2>2. "beginSstv" \in AudioCalls
    BY DEF AudioCalls
  <2>3. ASSUME NEW g \in Generations, toAudio' = toAudio \o Call("beginSstv", g) PROVE ImageEnds'
    <3>1. g \in GenerationOrNone
      BY <1>0
    <3> QED BY <1>0, <2>1, <2>2, <2>3, <3>1, ImageEndsPosted
  <2>4. CASE UNCHANGED toAudio
    BY <1>0, <2>1, <2>4, ImageEndsKept
  <2> QED BY <1>4, <2>3, <2>4 DEF UiPasses
<1>5. CASE OnFinished
  <2>1. UNCHANGED toAudio /\ LiveSstv' = LiveSstv
    BY <1>5 DEF OnFinished, LiveSstv, SstvBusy
  <2> QED BY <1>0, <2>1, ImageEndsKept
<1>6. CASE OnPrepared
  <2>1. UNCHANGED toAudio
    BY <1>6 DEF OnPrepared
  <2>2. CASE UNCHANGED sstv
    <3>1. LiveSstv' = LiveSstv
      BY <1>6, <2>2 DEF OnPrepared, LiveSstv, SstvBusy
    <3> QED BY <1>0, <2>1, <3>1, ImageEndsKept
  <2>3. CASE ~UNCHANGED sstv
    <3>1. UiTakes("notPrepared") /\ Head(toUi).generation = lastGeneration
      BY <1>6, <2>3 DEF OnPrepared
    <3>2. lastGeneration \in Refused
      BY <1>0, <3>1, UiTook DEF Refused
    <3>3. lastGeneration \notin Asked /\ ~(sstvPrepared /\ sstvGeneration = lastGeneration)
      BY <3>2 DEF Refusals, Pending
    <3>4. \A g \in LiveSstv : g = lastGeneration
      BY DEF LiveSstv
    <3> QED BY <1>0, <2>1, <3>3, <3>4, ImageEndsKept
  <2> QED BY <2>2, <2>3
<1> QED BY <1>1, <1>2, <1>3, <1>4, <1>5, <1>6, StopSstvImageEnds, DrainImageEnds, UiCases

(* The audio thread prepares an image that is live or will end.            *)
LEMMA AudioImageEnds ==
    ASSUME IInv, ImageEnds, AudioThread
    PROVE  ImageEnds'
<1>0. /\ Typed /\ [Next]_vars /\ UNCHANGED <<lastGeneration, sstv>> /\ LiveSstv' = LiveSstv
  BY OthersKept DEF IInv, Next, uiVars, LiveSstv, SstvBusy
<1>1. CASE TakePrepare
  <2> DEFINE g == Head(toAudio).generation
  <2>1. /\ toAudio # <<>> /\ Head(toAudio).name = "prepare" /\ toAudio' = Tail(toAudio)
        /\ sstvGeneration' = g
    BY <1>1 DEF TakePrepare, AudioTakes, AtHead
  <2>2. PreparesEnd(toAudio', LiveSstv) /\ (g \in LiveSstv \/ EndsBehind(toAudio', 0))
    BY <1>0, <2>1, LiveAudioIs, PreparesEndTail DEF ImageEnds
  <2> QED BY <1>0, <2>1, <2>2 DEF ImageEnds
<1>2. CASE ~TakePrepare
  <2>1. UNCHANGED sstvGeneration /\ (sstvPrepared' => sstvPrepared)
    BY <1>0, <1>2, PendingMoves, PreparedKept
  <2>2. CASE UNCHANGED toAudio
    BY <1>0, <2>1, <2>2, ImageEndsKept
  <2>3. ASSUME NEW name, AudioTakes(name), name # "prepare", name = "stopSstv" => ~sstvPrepared'
        PROVE  ImageEnds'
    BY <1>0, <2>1, <2>3, ImageEndsTaken
  <2>4. \/ UNCHANGED toAudio
        \/ \E name : AudioTakes(name) /\ name # "prepare" /\ (name = "stopSstv" => ~sstvPrepared')
    <3>1. PostImage \/ RequestKey \/ StartAudio \/ EmitFrame \/ RequestUnkey => UNCHANGED toAudio
      BY DEF PostImage, RequestKey, StartAudio, EmitFrame, RequestUnkey, queues
    <3>2. TakeSchedule => AudioTakes("schedule")
      BY DEF TakeSchedule
    <3>3. TakeAccepted => AudioTakes("accepted")
      BY DEF TakeAccepted
    <3>4. AudioFails => UNCHANGED toAudio \/ AudioTakes("cancel")
      BY DEF AudioFails
    <3>5. Completes => AudioTakes("unkeyed")
      BY DEF Completes
    <3>6. AudioPasses =>
              \/ UNCHANGED toAudio
              \/ \E name \in {"beginSstv", "stopSstv", "keyed", "cancel", "unkeyed"} :
                     AudioTakes(name) /\ (name = "stopSstv" => ~sstvPrepared')
      BY DEF AudioPasses
    <3> QED BY <1>0, <1>2, <3>1, <3>2, <3>3, <3>4, <3>5, <3>6, AudioCases
  <2> QED BY <2>2, <2>3, <2>4
<1> QED BY <1>1, <1>2

(* An image that is prepared is live, or its end is queued.                *)
LEMMA ImageEndsStep ==
    IInv /\ DoneHeard /\ ImageOrder /\ Refusals /\ ImageEnds /\ [Next]_vars => ImageEnds'
<1> SUFFICES ASSUME IInv, DoneHeard, ImageOrder, Refusals, ImageEnds, [Next]_vars
             PROVE  ImageEnds'
  OBVIOUS
<1>0. Typed
  BY DEF IInv
<1>1. CASE IoThread
  <2>1. UNCHANGED <<sstvGeneration, sstvPrepared, lastGeneration, sstv>>
    BY <1>1, OthersKept DEF uiVars, audioVars, sstvVars
  <2>2. LiveSstv' = LiveSstv
    BY <2>1 DEF LiveSstv, SstvBusy
  <2>3. CASE UNCHANGED toAudio
    BY <1>0, <2>1, <2>2, <2>3, ImageEndsKept
  <2>4. ASSUME NEW name \in {"cancel", "accepted", "keyed", "unkeyed"}, NEW g \in GenerationOrNone,
               toAudio' = toAudio \o Call(name, g)
        PROVE  ImageEnds'
    <3>1. name \in AudioCalls /\ name # "prepare"
      BY DEF AudioCalls
    <3> QED BY <1>0, <2>1, <2>2, <2>4, <3>1, ImageEndsPosted
  <2> QED BY <1>1, <2>3, <2>4, IoMoves
<1>2. CASE UNCHANGED vars
  <2>1. UNCHANGED <<sstvGeneration, sstvPrepared, lastGeneration, sstv, toAudio>>
    BY <1>2 DEF vars, queues, uiVars, audioVars, sstvVars
  <2>2. LiveSstv' = LiveSstv
    BY <2>1 DEF LiveSstv, SstvBusy
  <2> QED BY <1>0, <2>1, <2>2, ImageEndsKept
<1> QED BY <1>1, <1>2, UiImageEnds, AudioImageEnds DEF Next

(***************************************************************************)
(* Whatever is keyed, or is about to be, is live or its stop is queued     *)
(***************************************************************************)
LiveFt == IF phase \in {"keying", "audio", "drain"} THEN {txGeneration} ELSE {}

\* Each call of that name is for a live transmission, or its stop is behind it.
Followed(q, name, stop, live) ==
    \A i \in 1..Len(q) : q[i].name = name =>
        \/ q[i].generation \in live
        \/ \E j \in 1..Len(q) :
               i < j /\ q[j].name = stop /\ q[j].generation = q[i].generation

SstvUnkeyed ==
    /\ active /\ kind = "sstv" => myGeneration \in LiveSstv \union Stops
    /\ Followed(toIo, "beginSstv", "stop", LiveSstv)
FtUnkeyed ==
    /\ active /\ kind # "sstv" => myGeneration \in LiveFt \union FtStops
    /\ Followed(toIo, "beginFt", "stopFt", LiveFt)

(* A begin queued is live, or its stop is queued behind.                   *)
LEMMA FollowedAppend ==
    ASSUME NEW S, NEW q \in Seq(S), NEW c \in S, NEW name, NEW stop, NEW live, NEW later,
           Followed(q, name, stop, live),
           c.name = name => c.generation \in later,
           \A i \in 1..Len(q) : q[i].name = name /\ q[i].generation \in live =>
               \/ q[i].generation \in later
               \/ c.name = stop /\ c.generation = q[i].generation
    PROVE  Followed(Append(q, c), name, stop, later)
<1> DEFINE t == Append(q, c)
<1>1. /\ Len(q) \in Nat /\ Len(t) = Len(q) + 1
      /\ \A i \in 1..Len(q) : t[i] = q[i] /\ i \in 1..Len(t) /\ i < Len(q) + 1
      /\ t[Len(q) + 1] = c /\ Len(q) + 1 \in 1..Len(t)
  BY AppendIs
<1> HIDE DEF t
<1>2. ASSUME NEW i \in 1..Len(t), t[i].name = name
      PROVE  \/ t[i].generation \in later
             \/ \E j \in 1..Len(t) :
                    i < j /\ t[j].name = stop /\ t[j].generation = t[i].generation
  <2>1. CASE i = Len(q) + 1
    BY <1>1, <1>2, <2>1
  <2>2. CASE i \in 1..Len(q)
    <3>1. t[i] = q[i] /\ q[i].name = name
      BY <1>1, <1>2, <2>2
    <3>2. CASE q[i].generation \in live
      <4>1. CASE c.name = stop /\ c.generation = q[i].generation
        BY <1>1, <2>2, <3>1, <4>1
      <4> QED BY <2>2, <3>1, <3>2, <4>1
    <3>3. CASE q[i].generation \notin live
      <4>1. PICK j \in 1..Len(q) :
                i < j /\ q[j].name = stop /\ q[j].generation = q[i].generation
        BY <2>2, <3>1, <3>3 DEF Followed
      <4>2. j \in 1..Len(t) /\ t[j] = q[j]
        BY <1>1
      <4> QED BY <3>1, <4>1, <4>2
    <3> QED BY <3>2, <3>3
  <2> QED BY <1>1, <2>1, <2>2
<1> QED BY <1>2 DEF Followed, t

(* So is one that is taken.                                                *)
LEMMA FollowedTail ==
    ASSUME NEW S, NEW q \in Seq(S), q # <<>>, NEW name, NEW stop, NEW live,
           Followed(q, name, stop, live), name # stop
    PROVE  /\ Followed(Tail(q), name, stop, live)
           /\ Head(q).name = name
              => Head(q).generation \in live \union Gens(Tail(q), {stop})
<1> DEFINE t == Tail(q)
<1>1. /\ Len(q) \in Nat \ {0} /\ Len(t) = Len(q) - 1
      /\ \A k \in 1..Len(q) - 1 : t[k] = q[k + 1]
      /\ Head(q) = q[1] /\ 1 \in 1..Len(q)
  BY TailIs
<1> HIDE DEF t
<1>2. ASSUME NEW i \in 1..Len(q), NEW j \in 1..Len(q), i < j
      PROVE  j - 1 \in 1..Len(t) /\ t[j - 1] = q[j] /\ i - 1 < j - 1
  <2>1. j - 1 \in 1..Len(q) - 1 /\ (j - 1) + 1 = j
    BY <1>1, <1>2
  <2> QED BY <1>1, <1>2, <2>1
<1>3. ASSUME NEW i \in 1..Len(t), t[i].name = name
      PROVE  \/ t[i].generation \in live
             \/ \E j \in 1..Len(t) :
                    i < j /\ t[j].name = stop /\ t[j].generation = t[i].generation
  <2>1. i + 1 \in 1..Len(q) /\ t[i] = q[i + 1] /\ (i + 1) - 1 = i
    BY <1>1
  <2>2. CASE t[i].generation \notin live
    <3>1. PICK j \in 1..Len(q) :
              i + 1 < j /\ q[j].name = stop /\ q[j].generation = q[i + 1].generation
      BY <1>3, <2>1, <2>2 DEF Followed
    <3>2. j - 1 \in 1..Len(t) /\ t[j - 1] = q[j] /\ i < j - 1
      BY <1>2, <2>1, <3>1
    <3> QED BY <2>1, <3>1, <3>2
  <2> QED BY <2>2
<1>4. ASSUME Head(q).name = name, Head(q).generation \notin live
      PROVE  Head(q).generation \in Gens(t, {stop})
  <2>1. PICK j \in 1..Len(q) : 1 < j /\ q[j].name = stop /\ q[j].generation = q[1].generation
    BY <1>1, <1>4 DEF Followed
  <2>2. j - 1 \in 1..Len(t) /\ t[j - 1] = q[j]
    BY <1>1, <1>2, <2>1
  <2> QED BY <1>1, <2>1, <2>2 DEF Gens
<1>5. Followed(t, name, stop, live)
  BY <1>3 DEF Followed
<1> QED BY <1>4, <1>5 DEF t

(* Types used below.                                                       *)
LEMMA IoQueueIs ==
    ASSUME Typed
    PROVE  /\ toIo \in Seq(Posted(IoCalls))
           /\ lastGeneration \in GenerationOrNone /\ txGeneration \in GenerationOrNone
           /\ ft \in GenerationOrNone /\ 0 \in GenerationOrNone
           /\ Generations \subseteq GenerationOrNone
BY QueueTypes, NumberTypes

\* Whoever takes a stop from the queue carries it out.
LEMMA StopTaken ==
    ASSUME Typed, IoThread
    PROVE  /\ IoTakes("stop") => TakeStop
           /\ IoTakes("stopFt") => TakeStopFt
<1>1. ASSUME NEW name, IoTakes(name)
      PROVE  toIo' # toIo /\ \A m : IoTakes(m) => m = name
  <2>1. Head(toIo).name = name /\ toIo # <<>> /\ toIo' = Tail(toIo)
    BY <1>1 DEF IoTakes, AtHead
  <2>2. toIo' # toIo
    BY <2>1, IoQueueIs, TailIs
  <2> QED BY <2>1, <2>2 DEF IoTakes, AtHead
<1>2. TakeAcknowledge => IoTakes("acknowledge")
  BY DEF TakeAcknowledge
<1>3. TakeStop => IoTakes("stop")
  BY DEF TakeStop
<1>4. TakeStopFt => IoTakes("stopFt")
  BY DEF TakeStopFt
<1>5. PacketTaken => IoTakes("packet")
  BY DEF PacketTaken, PacketDropped, PacketTrips, PacketHeard
<1>6. \A k : RefuseBegin(k) \/ ArmGuard(k) => IoTakes("beginSstv") \/ IoTakes("beginFt")
  BY DEF RefuseBegin, ArmGuard, BeginCall
<1>7. TripCancelled \/ TripOnReadings \/ ConnectionLost \/ Reconnected => toIo' = toIo
  BY DEF TripCancelled, TripOnReadings, ConnectionLost, Reconnected, queues
<1>8. \A g : DrainPoll(g) => toIo' = toIo
  BY DEF DrainPoll
<1>11. Busies \/ SlotLost \/ KeyRadio => toIo' = toIo
  BY BusyIs, SlotLostIs DEF KeyRadio, queues
<1>9. CASE IoTakes("stop")
  <2>1. toIo' # toIo /\ \A m : IoTakes(m) => m = "stop"
    BY <1>1, <1>9
  <2> QED BY <1>2, <1>4, <1>5, <1>6, <1>7, <1>8, <1>11, <2>1, IoActsIs DEF IoActs
<1>10. CASE IoTakes("stopFt")
  <2>1. toIo' # toIo /\ \A m : IoTakes(m) => m = "stopFt"
    BY <1>1, <1>10
  <2> QED BY <1>2, <1>3, <1>5, <1>6, <1>7, <1>8, <1>11, <2>1, IoActsIs DEF IoActs
<1> QED BY <1>9, <1>10

\* What the audio thread posts to the I/O thread, and what that is to an over.
LEMMA AudioPostsIo ==
    ASSUME IInv, AudioThread
    PROVE  \/ UNCHANGED toIo /\ LiveFt' = LiveFt
           \/ /\ toIo' = toIo \o Call("beginFt", txGeneration)
              /\ LiveFt = {} /\ LiveFt' = {txGeneration}
           \/ toIo' = toIo \o Call("stopFt", txGeneration) /\ LiveFt \subseteq {txGeneration}
           \/ /\ \E g \in GenerationOrNone, n \in 0..Frames : toIo' = toIo \o Packet(g, n)
              /\ LiveFt' = LiveFt
<1> DEFINE Stays == UNCHANGED toIo /\ LiveFt' = LiveFt
           Sends == /\ \E g \in GenerationOrNone, n \in 0..Frames : toIo' = toIo \o Packet(g, n)
                    /\ LiveFt' = LiveFt
           Ends == toIo' = toIo \o Call("stopFt", txGeneration) /\ LiveFt \subseteq {txGeneration}
<1>0. /\ Typed /\ FramesLeft /\ Label \in GenerationOrNone /\ txGeneration \in GenerationOrNone
      /\ imageFrame \in 0..Frames /\ ftFrame \in 0..Frames /\ Frames \in Nat
  BY NumberTypes DEF IInv, Typed, TypedAudio
<1>1. LiveFt \subseteq {txGeneration}
  BY DEF LiveFt
<1>2. ASSUME TakePrepare \/ TakeAccepted \/ AudioPasses PROVE Stays
  BY <1>2 DEF TakePrepare, TakeAccepted, AudioPasses, LiveFt, ftVars
<1>3. ASSUME PostImage PROVE Stays \/ Sends
  <2>1. UNCHANGED <<phase, txGeneration>> /\ inside = "image"
    BY <1>3 DEF PostImage, ftVars
  <2>2. imageFrame + 1 \in 0..Frames
    <3>1. imageFrame < Frames
      BY <1>0, <2>1 DEF FramesLeft
    <3> QED BY <1>0, <3>1
  <2>3. UNCHANGED toIo \/ toIo' = toIo \o Packet(Label, imageFrame + 1)
    BY <1>3 DEF PostImage
  <2> QED BY <1>0, <2>1, <2>2, <2>3 DEF LiveFt
<1>4. ASSUME EmitFrame PROVE Stays \/ Sends
  <2>1. /\ UNCHANGED txGeneration /\ phase = "audio" /\ phase' \in {"audio", "drain"}
        /\ ftEncoding = txGeneration
    BY <1>4 DEF EmitFrame, Ticks, PhaseAfterFrame
  <2>2. ftFrame + 1 \in 0..Frames
    <3>1. ftFrame < Frames
      BY <1>0, <2>1 DEF FramesLeft
    <3> QED BY <1>0, <3>1
  <2>3. UNCHANGED toIo \/ toIo' = toIo \o Packet(txGeneration, ftFrame + 1)
    BY <1>4, <2>1 DEF EmitFrame
  <2> QED BY <1>0, <2>1, <2>2, <2>3 DEF LiveFt
<1>5. ASSUME TakeSchedule PROVE Stays
  BY <1>5 DEF TakeSchedule, LiveFt
<1>6. ASSUME StartAudio PROVE Stays
  BY <1>6 DEF StartAudio, Ticks, queues, LiveFt
<1>7. ASSUME Completes PROVE Stays
  BY <1>7 DEF Completes, LiveFt
<1>8. ASSUME AudioFails \/ RequestUnkey PROVE Ends
  BY <1>1, <1>8 DEF AudioFails, Fail, RequestUnkey
<1>9. RequestKey =>
          /\ toIo' = toIo \o Call("beginFt", txGeneration)
          /\ LiveFt = {} /\ LiveFt' = {txGeneration}
  BY DEF RequestKey, Ticks, LiveFt
<1> QED BY <1>0, <1>2, <1>3, <1>4, <1>5, <1>6, <1>7, <1>8, <1>9, AudioCases

(***************************************************************************)
(* SSTV                                                                    *)
(***************************************************************************)
\* A call is posted to the I/O thread by another.
LEMMA SstvUnkeyedPosted ==
    ASSUME Typed, SstvUnkeyed, NEW name \in IoCalls, NEW g \in GenerationOrNone,
           toIo' = toIo \o Call(name, g), UNCHANGED guard,
           name = "beginSstv" => g \in LiveSstv',
           LiveSstv \subseteq LiveSstv' \union (IF name = "stop" THEN {g} ELSE {})
    PROVE  SstvUnkeyed'
<1> DEFINE c == [name |-> name, generation |-> g, frame |-> 0]
<1>1. c \in Posted(IoCalls) /\ toIo' = Append(toIo, c)
  BY IoQueueIs, CallIs
<1>2. c.name = name /\ c.generation = g
  OBVIOUS
<1> HIDE DEF c
<1>3. Followed(toIo, "beginSstv", "stop", LiveSstv)
  BY DEF SstvUnkeyed
<1>4. Followed(toIo', "beginSstv", "stop", LiveSstv')
  BY <1>1, <1>2, <1>3, IoQueueIs, FollowedAppend
<1>5. Stops' = IF name = "stop" THEN Stops \union {g} ELSE Stops
  BY IoPosts
<1> QED BY <1>4, <1>5 DEF SstvUnkeyed, guard

\* No call is posted, and what was live still is or was neither keyed nor asked for.
LEMMA SstvUnkeyedKept ==
    ASSUME Typed, SstvUnkeyed, UNCHANGED toIo, UNCHANGED guard,
           \A g \in LiveSstv \ LiveSstv' :
               g \notin Requested /\ ~(active /\ kind = "sstv" /\ myGeneration = g)
    PROVE  SstvUnkeyed'
<1>1. \A i \in 1..Len(toIo) : toIo[i].name = "beginSstv" => toIo[i].generation \in Requested
  BY DEF Requested, Gens
<1>2. Stops' = Stops
  BY SameQueues
<1> QED BY <1>1, <1>2 DEF SstvUnkeyed, Followed, guard

(* The UI thread lets go of an image only with its stop queued.            *)
LEMMA UiSstvUnkeyed ==
    ASSUME IInv, Refusals, SstvUnkeyed, UiThread
    PROVE  SstvUnkeyed'
<1>0. /\ Typed /\ UNCHANGED guard
      /\ {"acknowledge", "stop", "stopFt", "beginSstv"} \subseteq IoCalls
  BY OthersKept DEF IInv, ioVars, ioData, IoCalls
<1>1. CASE StartSstv
  <2>1. toIo' = toIo \o Call("acknowledge", 0) /\ LiveSstv = {}
    BY <1>1 DEF StartSstv, LiveSstv, SstvBusy
  <2> QED BY <1>0, <2>1, IoQueueIs, SstvUnkeyedPosted
<1>2. ASSUME NEW operator \in BOOLEAN, StartFt(operator) PROVE SstvUnkeyed'
  <2>1. LiveSstv = {} /\ (toIo' = toIo \/ toIo' = toIo \o Call("acknowledge", 0))
    <3>1. toIo \o <<>> = toIo
      BY <1>0, IoQueueIs, ConcatEmptySeq
    <3> QED BY <1>2, <3>1 DEF StartFt, LiveSstv, SstvBusy
  <2>2. LiveSstv = {}
    BY <1>2 DEF StartFt, LiveSstv, SstvBusy
  <2>3. CASE toIo' = toIo
    BY <1>0, <2>2, <2>3, SstvUnkeyedKept
  <2>4. CASE toIo' = toIo \o Call("acknowledge", 0)
    BY <1>0, <2>2, <2>4, IoQueueIs, SstvUnkeyedPosted
  <2> QED BY <2>1, <2>3, <2>4
<1>3. CASE UiStopsSstv
  <2>1. toIo' = toIo \o Call("stop", lastGeneration) /\ LiveSstv = {lastGeneration}
    BY <1>3 DEF UiStopsSstv, StopSstv, LiveSstv
  <2> QED BY <1>0, <2>1, IoQueueIs, SstvUnkeyedPosted
<1>4. CASE UiStopsFt
  <2>1. toIo' = toIo \o Call("stopFt", ft) /\ LiveSstv' = LiveSstv
    BY <1>4 DEF UiStopsFt, StopFt, LiveSstv, SstvBusy
  <2> QED BY <1>0, <2>1, IoQueueIs, SstvUnkeyedPosted
<1>5. CASE UiPasses \/ OnFinished
  <2>1. UNCHANGED toIo /\ LiveSstv' = LiveSstv
    BY <1>5 DEF UiPasses, OnFinished, LiveSstv, SstvBusy
  <2> QED BY <1>0, <2>1, SstvUnkeyedKept
<1>6. ASSUME NEW g \in Generations, DrainElapsed(g) PROVE SstvUnkeyed'
  <2>1. CASE UNCHANGED <<lastGeneration, sstv, toIo>>
    <3>1. LiveSstv' = LiveSstv
      BY <2>1 DEF LiveSstv, SstvBusy
    <3> QED BY <1>0, <2>1, <3>1, SstvUnkeyedKept
  <2>2. CASE ~UNCHANGED <<lastGeneration, sstv, toIo>>
    <3>1. toIo' = toIo \o Call("stop", g) /\ LiveSstv \subseteq {g}
      BY <1>6, <2>2 DEF DrainElapsed, LiveSstv
    <3> QED BY <1>0, <3>1, IoQueueIs, SstvUnkeyedPosted
  <2> QED BY <2>1, <2>2
<1>7. CASE OnPrepared
  <2>1. CASE UNCHANGED toIo /\ UNCHANGED sstv
    <3>1. LiveSstv' = LiveSstv
      BY <1>7, <2>1 DEF OnPrepared, LiveSstv, SstvBusy
    <3> QED BY <1>0, <2>1, <3>1, SstvUnkeyedKept
  <2>2. CASE ~UNCHANGED toIo
    <3>1. /\ toIo' = toIo \o Call("beginSstv", lastGeneration)
          /\ LiveSstv = {lastGeneration} /\ LiveSstv' = LiveSstv
      BY <1>7, <2>2 DEF OnPrepared, LiveSstv, SstvBusy
    <3> QED BY <1>0, <3>1, IoQueueIs, SstvUnkeyedPosted
  <2>3. CASE UNCHANGED toIo /\ ~UNCHANGED sstv
    <3>1. UiTakes("notPrepared") /\ Head(toUi).generation = lastGeneration
      BY <1>7, <2>3 DEF OnPrepared
    <3>2. lastGeneration \in Refused
      BY <1>0, <3>1, UiTook DEF Refused
    <3>3. /\ lastGeneration \notin Requested
          /\ ~(active /\ kind = "sstv" /\ myGeneration = lastGeneration)
      BY <3>2 DEF Refusals, Pending
    <3>4. \A g \in LiveSstv : g = lastGeneration
      BY DEF LiveSstv
    <3> QED BY <1>0, <2>3, <3>3, <3>4, SstvUnkeyedKept
  <2> QED BY <2>1, <2>2, <2>3
<1> QED BY <1>1, <1>2, <1>3, <1>4, <1>5, <1>6, <1>7, UiCases

\* The I/O thread keys only what will be stopped, and forgets no stop unheeded.
LEMMA IoSstvUnkeyed ==
    ASSUME IInv, SstvUnkeyed, IoThread
    PROVE  SstvUnkeyed'
<1>0. /\ Typed /\ LiveSstv' = LiveSstv /\ [Next]_vars
      /\ UNCHANGED toIo \/ \E name : IoTakes(name)
  BY OthersKept, IoMoves DEF IInv, uiVars, LiveSstv, SstvBusy, Next
<1>1. ASSUME NEW name, IoTakes(name)
      PROVE  /\ Followed(toIo', "beginSstv", "stop", LiveSstv)
             /\ name = "beginSstv" => Head(toIo).generation \in LiveSstv \union Stops'
             /\ name # "stop" => Stops' = Stops
  <2>1. /\ toIo # <<>> /\ Head(toIo).name = name /\ toIo' = Tail(toIo)
    BY <1>1 DEF IoTakes, AtHead
  <2>2. Followed(toIo, "beginSstv", "stop", LiveSstv)
    BY DEF SstvUnkeyed
  <2>3. /\ Followed(toIo', "beginSstv", "stop", LiveSstv)
        /\ name = "beginSstv" => Head(toIo).generation \in LiveSstv \union Gens(toIo', {"stop"})
    BY <1>0, <2>1, <2>2, IoQueueIs, FollowedTail
  <2>4. name # "stop" => Stops' = Stops
    BY <1>0, <1>1, IoTaken
  <2> QED BY <2>3, <2>4 DEF Stops
<1>2. Followed(toIo', "beginSstv", "stop", LiveSstv)
  BY <1>0, <1>1 DEF SstvUnkeyed
<1>3. ASSUME active', kind' = "sstv" PROVE myGeneration' \in LiveSstv \union Stops'
  <2>1. CASE active /\ UNCHANGED <<myGeneration, kind>>
    <3>1. Stops' = Stops
      <4>1. CASE UNCHANGED toIo
        BY <4>1, SameQueues
      <4>2. ASSUME NEW name, IoTakes(name) PROVE name # "stop"
        <5>1. TakeStop => ~active'
          BY DEF TakeStop, Unkey
        <5>2. ~TakeStop
          BY <1>3, <5>1
        <5> QED BY <1>0, <4>2, <5>2, StopTaken
      <4> QED BY <1>0, <1>1, <4>1, <4>2
    <3> QED BY <1>3, <2>1, <3>1 DEF SstvUnkeyed
  <2>2. ASSUME NEW k \in {"sstv", "ft"}, ArmGuard(k)
        PROVE  myGeneration' \in LiveSstv \union Stops'
    <3>1. IoTakes("beginSstv") /\ myGeneration' = Head(toIo).generation
      BY <1>3, <2>2 DEF ArmGuard, BeginCall
    <3> QED BY <1>1, <3>1
  <2> QED BY <1>0, <1>3, <2>1, <2>2, GuardMoves DEF IInv
<1> QED BY <1>0, <1>2, <1>3 DEF SstvUnkeyed

(* The audio thread keys nothing.                                          *)
LEMMA AudioSstvUnkeyed ==
    ASSUME IInv, SstvUnkeyed, AudioThread
    PROVE  SstvUnkeyed'
<1>0. /\ Typed /\ LiveSstv' = LiveSstv /\ UNCHANGED guard
      /\ {"beginFt", "stopFt"} \subseteq IoCalls
  BY OthersKept DEF IInv, uiVars, ioVars, ioData, LiveSstv, SstvBusy, IoCalls
<1>1. CASE UNCHANGED toIo
  BY <1>0, <1>1, SstvUnkeyedKept
<1>2. ASSUME NEW name \in {"beginFt", "stopFt"}, toIo' = toIo \o Call(name, txGeneration)
      PROVE  SstvUnkeyed'
  BY <1>0, <1>2, IoQueueIs, SstvUnkeyedPosted
<1>3. ASSUME NEW g \in GenerationOrNone, NEW n \in 0..Frames, toIo' = toIo \o Packet(g, n)
      PROVE  SstvUnkeyed'
  <2> DEFINE c == [name |-> "packet", generation |-> g, frame |-> n]
  <2>1. c \in Posted(IoCalls) /\ toIo' = Append(toIo, c)
    <3>1. "packet" \in IoCalls
      BY DEF IoCalls
    <3> QED BY <1>0, <1>3, <3>1, IoQueueIs, PacketIs
  <2>2. c.name = "packet"
    OBVIOUS
  <2> HIDE DEF c
  <2>3. Followed(toIo, "beginSstv", "stop", LiveSstv)
    BY DEF SstvUnkeyed
  <2>4. Followed(toIo', "beginSstv", "stop", LiveSstv)
    BY <1>0, <2>1, <2>2, <2>3, IoQueueIs, FollowedAppend
  <2>5. Stops' = Stops
    BY <1>0, <1>3, IoPacketPosts
  <2> QED BY <1>0, <2>4, <2>5 DEF SstvUnkeyed, guard
<1> QED BY <1>0, <1>1, <1>2, <1>3, AudioPostsIo

(***************************************************************************)
(* FT8/FT4                                                                 *)
(***************************************************************************)
LEMMA FtUnkeyedPosted ==
    ASSUME Typed, FtUnkeyed, NEW c \in Posted(IoCalls),
           toIo' = Append(toIo, c), UNCHANGED guard,
           c.name = "beginFt" => c.generation \in LiveFt',
           LiveFt \subseteq LiveFt' \union (IF c.name = "stopFt" THEN {c.generation} ELSE {})
    PROVE  FtUnkeyed'
<1>1. Followed(toIo, "beginFt", "stopFt", LiveFt)
  BY DEF FtUnkeyed
<1>2. Followed(toIo', "beginFt", "stopFt", LiveFt')
  BY <1>1, IoQueueIs, FollowedAppend
<1>3. FtStops' = IF c.name = "stopFt" THEN FtStops \union {c.generation} ELSE FtStops
  BY IoAppended
<1> QED BY <1>2, <1>3 DEF FtUnkeyed, guard

(* A call to the I/O thread begins a live over, or stops one.              *)
LEMMA FtUnkeyedCalled ==
    ASSUME Typed, FtUnkeyed, NEW name \in IoCalls, NEW g \in GenerationOrNone,
           toIo' = toIo \o Call(name, g), UNCHANGED guard,
           name = "beginFt" => g \in LiveFt',
           LiveFt \subseteq LiveFt' \union (IF name = "stopFt" THEN {g} ELSE {})
    PROVE  FtUnkeyed'
<1> DEFINE c == [name |-> name, generation |-> g, frame |-> 0]
<1>1. c \in Posted(IoCalls) /\ toIo' = Append(toIo, c)
  BY IoQueueIs, CallIs
<1>2. c.name = name /\ c.generation = g
  OBVIOUS
<1> HIDE DEF c
<1> QED BY <1>1, <1>2, FtUnkeyedPosted

(* The I/O thread takes a begin that is live or will be stopped.           *)
LEMMA IoFtUnkeyed ==
    ASSUME IInv, FtUnkeyed, IoThread
    PROVE  FtUnkeyed'
<1>0. /\ Typed /\ LiveFt' = LiveFt /\ [Next]_vars
      /\ UNCHANGED toIo \/ \E name : IoTakes(name)
  BY OthersKept, IoMoves DEF IInv, audioVars, ftVars, LiveFt, Next
<1>1. ASSUME NEW name, IoTakes(name)
      PROVE  /\ Followed(toIo', "beginFt", "stopFt", LiveFt)
             /\ name = "beginFt" => Head(toIo).generation \in LiveFt \union FtStops'
             /\ FtStops = IF name = "stopFt" THEN FtStops' \union {Head(toIo).generation}
                                             ELSE FtStops'
  <2>1. /\ toIo # <<>> /\ Head(toIo).name = name /\ toIo' = Tail(toIo)
    BY <1>1 DEF IoTakes, AtHead
  <2>2. Followed(toIo, "beginFt", "stopFt", LiveFt)
    BY DEF FtUnkeyed
  <2>3. /\ Followed(toIo', "beginFt", "stopFt", LiveFt)
        /\ name = "beginFt" => Head(toIo).generation \in LiveFt \union Gens(toIo', {"stopFt"})
    BY <1>0, <2>1, <2>2, IoQueueIs, FollowedTail
  <2>4. FtStops = IF name = "stopFt" THEN FtStops' \union {Head(toIo).generation} ELSE FtStops'
    BY <1>0, <1>1, IoTaken
  <2> QED BY <2>3, <2>4 DEF FtStops
<1>2. Followed(toIo', "beginFt", "stopFt", LiveFt)
  BY <1>0, <1>1 DEF FtUnkeyed
<1>3. ASSUME active', kind' # "sstv" PROVE myGeneration' \in LiveFt \union FtStops'
  <2>1. CASE active /\ UNCHANGED <<myGeneration, kind>>
    <3>0. myGeneration \in LiveFt \union FtStops
      BY <1>3, <2>1 DEF FtUnkeyed
    <3>1. CASE UNCHANGED toIo
      BY <2>1, <3>0, <3>1, SameQueues
    <3>2. ASSUME NEW name, IoTakes(name), name # "stopFt" PROVE FtStops' = FtStops
      BY <1>1, <3>2
    <3>3. CASE IoTakes("stopFt")
      <4>1. TakeStopFt
        BY <1>0, <3>3, StopTaken
      <4>2. gateOpen /\ gateGeneration = myGeneration
        BY <2>1, <4>1 DEF IInv, GateIsGuarded, TakeStopFt
      <4>3. Head(toIo).generation # myGeneration
        BY <1>3, <4>1, <4>2 DEF TakeStopFt, Unkey
      <4>4. FtStops = FtStops' \union {Head(toIo).generation}
        BY <1>1, <3>3
      <4> QED BY <2>1, <3>0, <4>3, <4>4
    <3> QED BY <1>0, <2>1, <3>0, <3>1, <3>2, <3>3
  <2>2. ASSUME NEW k \in {"sstv", "ft"}, ArmGuard(k)
        PROVE  myGeneration' \in LiveFt \union FtStops'
    <3>1. IoTakes("beginFt") /\ myGeneration' = Head(toIo).generation
      BY <1>3, <2>2 DEF ArmGuard, BeginCall
    <3> QED BY <1>1, <3>1
  <2> QED BY <1>0, <1>3, <2>1, <2>2, GuardMoves DEF IInv
<1> QED BY <1>0, <1>2, <1>3 DEF FtUnkeyed

(* Where nothing of it changes.                                            *)
LEMMA FtUnkeyedKept ==
    ASSUME FtUnkeyed, UNCHANGED toIo, UNCHANGED guard, LiveFt' = LiveFt
    PROVE  FtUnkeyed'
<1>1. FtStops' = FtStops
  BY SameQueues
<1> QED BY <1>1 DEF FtUnkeyed, guard

(* An over that is keyed is live, or its stop is queued.                   *)
LEMMA FtUnkeyedStep == IInv /\ FtUnkeyed /\ [Next]_vars => FtUnkeyed'
<1> SUFFICES ASSUME IInv, FtUnkeyed, [Next]_vars PROVE FtUnkeyed'
  OBVIOUS
<1>0. Typed
  BY DEF IInv
<1>1. CASE UiThread
  <2>1. UNCHANGED guard /\ LiveFt' = LiveFt /\ IoMore
    BY <1>1, OthersKept, UiMoves DEF ioVars, ioData, audioVars, ftVars, LiveFt
  <2>2. CASE UNCHANGED toIo
    BY <2>1, <2>2, FtUnkeyedKept
  <2>3. ASSUME NEW name \in {"acknowledge", "stop", "stopFt", "beginSstv"},
               NEW g \in GenerationOrNone, toIo' = toIo \o Call(name, g)
        PROVE  FtUnkeyed'
    <3>1. name \in IoCalls /\ name # "beginFt"
      BY DEF IoCalls
    <3> QED BY <1>0, <2>1, <2>3, <3>1, FtUnkeyedCalled
  <2> QED BY <2>1, <2>2, <2>3 DEF IoMore
<1>2. CASE AudioThread
  <2>1. /\ UNCHANGED guard /\ txGeneration \in GenerationOrNone
        /\ {"beginFt", "stopFt", "packet"} \subseteq IoCalls
    BY <1>0, <1>2, OthersKept, NumberTypes DEF ioVars, ioData, IoCalls
  <2>2. CASE UNCHANGED toIo /\ LiveFt' = LiveFt
    BY <2>1, <2>2, FtUnkeyedKept
  <2>3. CASE /\ toIo' = toIo \o Call("beginFt", txGeneration)
             /\ LiveFt = {} /\ LiveFt' = {txGeneration}
    BY <1>0, <2>1, <2>3, FtUnkeyedCalled
  <2>4. CASE toIo' = toIo \o Call("stopFt", txGeneration) /\ LiveFt \subseteq {txGeneration}
    BY <1>0, <2>1, <2>4, FtUnkeyedCalled
  <2>5. ASSUME NEW g \in GenerationOrNone, NEW n \in 0..Frames, toIo' = toIo \o Packet(g, n),
               LiveFt' = LiveFt
        PROVE  FtUnkeyed'
    <3> DEFINE c == [name |-> "packet", generation |-> g, frame |-> n]
    <3>1. c \in Posted(IoCalls) /\ toIo' = Append(toIo, c)
      BY <1>0, <2>1, <2>5, IoQueueIs, PacketIs
    <3>2. c.name = "packet"
      OBVIOUS
    <3> HIDE DEF c
    <3> QED BY <1>0, <2>1, <2>5, <3>1, <3>2, FtUnkeyedPosted
  <2> QED BY <1>2, <2>2, <2>3, <2>4, <2>5, AudioPostsIo
<1>3. CASE UNCHANGED vars
  <2>1. UNCHANGED toIo /\ UNCHANGED guard /\ UNCHANGED <<phase, txGeneration>>
    BY <1>3 DEF vars, queues, ioVars, ioData, audioVars, ftVars
  <2>2. LiveFt' = LiveFt
    BY <2>1 DEF LiveFt
  <2> QED BY <2>1, <2>2, FtUnkeyedKept
<1> QED BY <1>1, <1>2, <1>3, IoFtUnkeyed DEF Next

(* An image that is keyed is live, or its stop is queued.                  *)
LEMMA SstvUnkeyedStep == IInv /\ Refusals /\ SstvUnkeyed /\ [Next]_vars => SstvUnkeyed'
<1> SUFFICES ASSUME IInv, Refusals, SstvUnkeyed, [Next]_vars PROVE SstvUnkeyed'
  OBVIOUS
<1>1. CASE UNCHANGED vars
  <2>1. UNCHANGED toIo /\ UNCHANGED guard /\ UNCHANGED <<lastGeneration, sstv>>
    BY <1>1 DEF vars, queues, ioVars, ioData, uiVars
  <2>2. LiveSstv' = LiveSstv
    BY <2>1 DEF LiveSstv, SstvBusy
  <2> QED BY <2>1, <2>2, SstvUnkeyedKept DEF IInv
<1> QED BY <1>1, UiSstvUnkeyed, IoSstvUnkeyed, AudioSstvUnkeyed DEF Next

(***************************************************************************)
(* The third inductive invariant, relative to the other two                *)
(***************************************************************************)
WillEnd == ImageOrder /\ Refusals /\ ImageEnds /\ SstvUnkeyed /\ FtUnkeyed

(* At first there is nothing to end.                                       *)
LEMMA InitWillEnd == Init => WillEnd
<1> SUFFICES ASSUME Init PROVE WillEnd
  OBVIOUS
<1>1. /\ toUi = <<>> /\ toIo = <<>> /\ toAudio = <<>> /\ sstv = "idle" /\ phase = "idle"
      /\ ~active /\ ~sstvPrepared /\ sstvGeneration = 0 /\ heard = {} /\ Len(<<>>) = 0 /\ 1..0 = {}
  BY DEF Init
<1>2. \A names : Gens(<<>>, names) = {}
  BY DEF Gens
<1>3. HeardGens = {} /\ Refused = {}
  BY <1>1, <1>2 DEF HeardGens, Refused
<1>4. ImageOrder /\ Refusals
  BY <1>1, <1>3 DEF ImageOrder, Refusals
<1>5. ImageEnds
  BY <1>1 DEF ImageEnds, PreparesEnd
<1>6. SstvUnkeyed /\ FtUnkeyed
  BY <1>1 DEF SstvUnkeyed, FtUnkeyed, Followed
<1> QED BY <1>4, <1>5, <1>6 DEF WillEnd

(* What will undo each thing that was done: an image with the encoder or   *)
(* on its way to it, a call that keys the radio and the radio that is      *)
(* keyed are of a transmission that is live, or the call that stops them   *)
(* is already queued behind.                                               *)
THEOREM EndsInductive == Spec => []WillEnd
<1>1. IInv /\ InOrder /\ WillEnd /\ [Next]_vars => WillEnd'
  <2> SUFFICES ASSUME IInv, InOrder, WillEnd, [Next]_vars PROVE WillEnd'
    OBVIOUS
  <2>0. PreparesFirst /\ OwnFt /\ DoneHeard
    BY DEF InOrder
  <2>1. ImageOrder /\ Refusals /\ ImageEnds /\ SstvUnkeyed /\ FtUnkeyed
    BY DEF WillEnd
  <2>2. ImageOrder' /\ Refusals' /\ ImageEnds'
    BY <2>0, <2>1, ImageOrderStep, RefusalsStep, ImageEndsStep
  <2>3. SstvUnkeyed' /\ FtUnkeyed'
    BY <2>1, SstvUnkeyedStep, FtUnkeyedStep
  <2> QED BY <2>2, <2>3 DEF WillEnd
<1> QED BY <1>1, InitWillEnd, Inductive, OrderInductive, PTL DEF Spec

(* When the UI thread is free and no call is in flight, no slot, gate,     *)
(* guard, encoder or pacer is left of any transmission and the radio is in *)
(* receive, whichever of a stop, a refusal, a failure, a drain or a lost   *)
(* connection ended each.                                                  *)
THEOREM NothingStays == Spec => []NothingLeftBehind
<1>1. IInv /\ InOrder /\ WillEnd => NothingLeftBehind
  <2> SUFFICES ASSUME IInv, InOrder, WillEnd,
                      sstv = "idle", ft = 0, toUi = <<>>, toIo = <<>>, toAudio = <<>>,
                      ioInside = "loop"
               PROVE  /\ generation = 0 /\ scheduledGeneration = 0
                      /\ ~gateOpen /\ ~active /\ onAir = 0
                      /\ phase = "idle" /\ ftEncoding = 0
                      /\ inside = "loop" /\ ~sstvActive /\ ~sstvPrepared
    BY DEF NothingLeftBehind
  <2>0. /\ Typed /\ FramesLeft /\ GateIsGuarded /\ OneOver /\ ImageEnds /\ SstvUnkeyed
        /\ FtUnkeyed /\ Len(<<>>) = 0 /\ 1..0 = {}
    BY DEF IInv, InOrder, WillEnd
  <2>1. phase = "idle" /\ scheduledGeneration = 0 /\ ftEncoding = 0 /\ inside # "tick"
    <3>1. FtOver \subseteq {}
      BY <2>0 DEF OneOver
    <3>2. phase = "idle"
      BY <3>1 DEF FtOver
    <3> QED BY <2>0, <3>2 DEF OneOver
  <2>2. ~sstvPrepared
    BY <2>0 DEF ImageEnds, EndsBehind, LiveSstv, SstvBusy
  <2>3. inside = "loop" /\ ~sstvActive
    BY <2>0, <2>1, <2>2 DEF FramesLeft, Typed, TypedAudio
  <2>4. ~active
    <3>1. Stops = {} /\ FtStops = {}
      BY <2>0 DEF Stops, FtStops, Gens
    <3>2. LiveSstv = {} /\ LiveFt = {}
      BY <2>1 DEF LiveSstv, SstvBusy, LiveFt
    <3> QED BY <2>0, <3>1, <3>2 DEF SstvUnkeyed, FtUnkeyed
  <2>5. generation = 0 /\ ~gateOpen /\ onAir = 0
    BY <2>0, <2>4 DEF GateIsGuarded
  <2> QED BY <2>1, <2>2, <2>3, <2>4, <2>5
<1> QED BY <1>1, Inductive, OrderInductive, EndsInductive, PTL
=============================================================================

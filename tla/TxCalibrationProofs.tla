------------------------ MODULE TxCalibrationProofs ------------------------
(***************************************************************************)
(* What holds of TxCalibration for any number of calibrations, lost        *)
(* connections and presses of TEST on the K4.                              *)
(***************************************************************************)
EXTENDS TxCalibration, SequenceTheorems, TLAPS

(***************************************************************************)
(* What a queue holds, and what it leads to                                *)
(***************************************************************************)
Has(s, C) == \E i \in 1..Len(s) : s[i] \in C
AtMostOne(s, C) == \A i, j \in 1..Len(s) : s[i] \in C /\ s[j] \in C => i = j

\* A condition that is now as on says, that the elements in A bring about and
\* those in B end, holds after the first n elements of s.
Holds(s, on, A, B, n) ==
    \E j \in 0..n :
        /\ j = 0 => on
        /\ j > 0 => s[j] \in A
        /\ \A i \in 1..n : i > j => s[i] \notin B

Queries == {"TS"}
Settings == {"TS0", "TS1"}

\* The K4 transmits after the first n of the commands s, as it now does or not.
TransmitsAfter(s, now, n) == Holds(s, now, {"TX"}, {"RX"}, n)

\* It is then in TEST.  A TS1 counts only if the K4 cannot refuse it unnoticed.
Counted == IF excused THEN {"TS1"} ELSE {}
TestAfter(s, now, counted, n) == Holds(s, now, counted, {"TS0"}, n)

KeysInTest(s, keyedNow, testNow, counted) ==
    \A n \in 0..Len(s) :
        TransmitsAfter(s, keyedNow, n) => TestAfter(s, testNow, counted, n)

(***************************************************************************)
(* The inductive invariant: the commands and the answers                   *)
(***************************************************************************)
\* The setting of TEST is queried behind each change of it.
Queried(s) == \A i \in 1..Len(s) : s[i] \in Settings => i < Len(s) /\ s[i + 1] = "TS"
ChangesAreQueried == Queried(up)

\* No query is followed by a request for TEST.
AskedBehind(s) == \A i, j \in 1..Len(s) : i < j /\ s[i] = "TS" => s[j] # "TS1"

\* Wherever the K4 will transmit it will be in TEST, and a confirmation that
\* may belong to an earlier query comes with TEST on its way.
WillKeyInTest ==
    toggles = 0 /\ ~refused =>
        /\ KeysInTest(up, keyed, test, Counted)
        /\ phase = "enable" /\ excused => TestAfter(up, test, Counted, Len(up))

\* The one query that is open, or its answer.
OneAnswerAwaited ==
    \/ down = <<>> /\ AtMostOne(up, Queries)
    \/ down = <<Reading(test)>> /\ ~Has(up, Queries)

\* A calibration that began with no answer to come takes only its own, and
\* knows the setting it has to restore.
AnswersAreOwn ==
    toggles = 0 /\ ~excused =>
        /\ phase = "read" =>
               /\ ~Has(up, Settings) /\ test = original /\ ~restoreTest
               /\ OneAnswerAwaited
        /\ phase = "enable" =>
               /\ ~Has(up, {"TS0"}) /\ restoreTest = ~original
               /\ original => test
               /\ OneAnswerAwaited
        /\ phase = "running" =>
               /\ ~Has(up, Queries) /\ test /\ restoreTest = ~original
               /\ down = <<>>
        /\ phase = "restore" =>
               /\ ~original
               /\ Has(down, {"TS0"}) => ~test /\ ~Has(up, {"TS1"})
        /\ phase = "none" =>
               IF original THEN test /\ ~Has(up, {"TS0"})
                           ELSE ~test /\ ~Has(up, {"TS1"})
        /\ phase \in {"enable", "restore"} => AskedBehind(up)

(***************************************************************************)
(* The inductive invariant: the threads                                    *)
(***************************************************************************)
Begins == Posted({"begin"})
Ends == Posted({"succeeded", "failed"})
Asks == [name : {"prepare"}, generation : {lastGeneration}]
Replies == [name : {"prepared", "unprepared"}, generation : {lastGeneration}]
Later(names) == {c \in Posted(names) : c.generation > lastGeneration}

\* Only a running calibration has the guard, the gate and the radio.
GuardedWhileRunning ==
    /\ active \/ gateOpen \/ TransmitsAfter(up, keyed, Len(up)) => phase = "running"
    /\ generation # 0 => phase = "running" /\ generation = calibrationGeneration

\* The I/O thread has at most one calibration, asked of it, under way or
\* reported, and only while the UI thread waits for it.
OneCalibration ==
    /\ AtMostOne(toIo, Begins) /\ AtMostOne(toUi, Ends)
    /\ Has(toIo, Begins) => phase = "none" /\ ~Has(toUi, Ends)
    /\ Has(toUi, Ends) => phase = "none"
    /\ Has(toIo, Begins) \/ Has(toUi, Ends) \/ phase # "none"
           => calibrating /\ started

\* The tone of a calibration is asked for once, before it is started.
OnePreparation ==
    /\ AtMostOne(toAudio, Asks) /\ AtMostOne(toUi, Replies)
    /\ Has(toAudio, Asks) => ~Has(toUi, Replies)
    /\ Has(toAudio, Asks) \/ Has(toUi, Replies) => ~calibrating \/ ~started
    /\ ~Has(toAudio, Later({"prepare"}))
    /\ ~Has(toUi, Later({"prepared", "unprepared"}))

\* Once the UI thread is free the tone ends with what the audio thread still
\* has to do.
ToneWillEnd ==
    ~calibrating =>
        Holds(toAudio, ~prepared /\ ~toneActive, Posted({"stop"}),
              Posted({"prepare"}), Len(toAudio))

IInv ==
    /\ TypeOK
    /\ ChangesAreQueried /\ WillKeyInTest /\ AnswersAreOwn
    /\ GuardedWhileRunning /\ OneCalibration /\ OnePreparation /\ ToneWillEnd

(***************************************************************************)
(* Queues                                                                  *)
(***************************************************************************)
(* What an element at the end of a queue changes.                          *)
LEMMA AppendIs ==
    ASSUME NEW S, NEW s \in Seq(S), NEW c \in S
    PROVE  /\ Append(s, c) \in Seq(S) /\ s \o <<c>> = Append(s, c)
           /\ Len(s) \in Nat /\ Len(Append(s, c)) = Len(s) + 1
           /\ \A i \in 1..Len(s) : Append(s, c)[i] = s[i]
           /\ Append(s, c)[Len(s) + 1] = c
BY AppendProperties, AppendIsConcat

LEMMA HasAppend ==
    ASSUME NEW S, NEW s \in Seq(S), NEW c \in S, NEW C
    PROVE  Has(Append(s, c), C) <=> c \in C \/ Has(s, C)
<1>1. /\ Len(s) \in Nat /\ Len(Append(s, c)) = Len(s) + 1
      /\ \A i \in 1..Len(s) : Append(s, c)[i] = s[i]
      /\ Append(s, c)[Len(s) + 1] = c
  BY AppendIs
<1> QED BY <1>1 DEF Has

LEMMA OneAppend ==
    ASSUME NEW S, NEW s \in Seq(S), NEW c \in S, NEW C,
           AtMostOne(s, C), c \in C => ~Has(s, C)
    PROVE  AtMostOne(Append(s, c), C)
<1>1. /\ Len(s) \in Nat /\ Len(Append(s, c)) = Len(s) + 1
      /\ \A i \in 1..Len(s) : Append(s, c)[i] = s[i]
      /\ Append(s, c)[Len(s) + 1] = c
  BY AppendIs
<1> QED BY <1>1 DEF Has, AtMostOne

(* What taking the first element of a queue changes.                       *)
LEMMA TailIs ==
    ASSUME NEW S, NEW s \in Seq(S), s # <<>>
    PROVE  /\ Head(s) \in S /\ Tail(s) \in Seq(S)
           /\ Len(s) \in Nat \ {0} /\ Len(Tail(s)) = Len(s) - 1
           /\ \A i \in 1..Len(s) - 1 : Tail(s)[i] = s[i + 1]
           /\ Head(s) = s[1]
BY HeadTailProperties, EmptySeq

LEMMA HasTail ==
    ASSUME NEW S, NEW s \in Seq(S), s # <<>>, NEW C
    PROVE  Has(s, C) <=> Head(s) \in C \/ Has(Tail(s), C)
<1>1. /\ Len(s) \in Nat \ {0} /\ Len(Tail(s)) = Len(s) - 1
      /\ \A i \in 1..Len(s) - 1 : Tail(s)[i] = s[i + 1]
      /\ Head(s) = s[1]
  BY TailIs
<1>2. ASSUME Has(s, C) PROVE Head(s) \in C \/ Has(Tail(s), C)
  <2>1. PICK i \in 1..Len(s) : s[i] \in C
    BY <1>2 DEF Has
  <2>2. CASE i # 1
    <3>1. i - 1 \in 1..Len(Tail(s)) /\ Tail(s)[i - 1] = s[i]
      BY <1>1, <2>2
    <3> QED BY <3>1, <2>1 DEF Has
  <2> QED BY <1>1, <2>1, <2>2
<1>3. ASSUME Has(Tail(s), C) PROVE Has(s, C)
  BY <1>1, <1>3 DEF Has
<1>4. ASSUME Head(s) \in C PROVE Has(s, C)
  BY <1>1, <1>4 DEF Has
<1> QED BY <1>2, <1>3, <1>4

LEMMA OneTail ==
    ASSUME NEW S, NEW s \in Seq(S), s # <<>>, NEW C, AtMostOne(s, C)
    PROVE  AtMostOne(Tail(s), C) /\ (Head(s) \in C => ~Has(Tail(s), C))
<1>1. /\ Len(s) \in Nat \ {0} /\ Len(Tail(s)) = Len(s) - 1
      /\ \A i \in 1..Len(s) - 1 : Tail(s)[i] = s[i + 1]
      /\ Head(s) = s[1]
  BY TailIs
<1>2. AtMostOne(Tail(s), C)
  <2> SUFFICES ASSUME NEW i \in 1..Len(Tail(s)), NEW j \in 1..Len(Tail(s)),
                      Tail(s)[i] \in C, Tail(s)[j] \in C
               PROVE  i = j
    BY DEF AtMostOne
  <2>1. i + 1 \in 1..Len(s) /\ j + 1 \in 1..Len(s)
    BY <1>1
  <2>2. i + 1 = j + 1
    BY <1>1, <2>1 DEF AtMostOne
  <2> QED BY <1>1, <2>2
<1>3. ASSUME Head(s) \in C, Has(Tail(s), C) PROVE FALSE
  <2>1. PICK i \in 1..Len(Tail(s)) : Tail(s)[i] \in C
    BY <1>3 DEF Has
  <2>2. 1 \in 1..Len(s) /\ i + 1 \in 1..Len(s) /\ s[1] \in C /\ s[i + 1] \in C
    BY <1>1, <1>3, <2>1
  <2>3. 1 = i + 1
    BY <2>2 DEF AtMostOne
  <2> QED BY <1>1, <2>3
<1> QED BY <1>2, <1>3

LEMMA HoldsAppend ==
    ASSUME NEW S, NEW s \in Seq(S), NEW c \in S, NEW on, NEW A, NEW B
    PROVE  /\ \A n \in 0..Len(s) :
                  Holds(Append(s, c), on, A, B, n) <=> Holds(s, on, A, B, n)
           /\ Holds(Append(s, c), on, A, B, Len(s) + 1) <=>
                  c \in A \/ (c \notin B /\ Holds(s, on, A, B, Len(s)))
<1> DEFINE t == Append(s, c)
<1>1. /\ Len(s) \in Nat /\ Len(t) = Len(s) + 1
      /\ \A i \in 1..Len(s) : t[i] = s[i]
      /\ t[Len(s) + 1] = c
  BY AppendIs
<1> HIDE DEF t
<1>2. ASSUME NEW n \in 0..Len(s) PROVE Holds(t, on, A, B, n) <=> Holds(s, on, A, B, n)
  <2>1. \A i \in 1..n : t[i] = s[i]
    BY <1>1, <1>2
  <2>2. ASSUME NEW j \in 0..n
        PROVE  /\ j > 0 => t[j] = s[j]
               /\ \A i \in 1..n : i > j => t[i] = s[i]
    BY <1>1, <1>2, <2>1, <2>2
  <2> QED BY <2>2, Zenon DEF Holds
<1>3. ASSUME Holds(t, on, A, B, Len(s) + 1)
      PROVE  c \in A \/ (c \notin B /\ Holds(s, on, A, B, Len(s)))
  <2>1. PICK j \in 0..Len(s) + 1 :
            /\ j = 0 => on
            /\ j > 0 => t[j] \in A
            /\ \A i \in 1..Len(s) + 1 : i > j => t[i] \notin B
    BY <1>3 DEF Holds
  <2>2. CASE j = Len(s) + 1
    BY <1>1, <2>1, <2>2
  <2>3. CASE j \in 0..Len(s)
    <3>1. c \notin B
      BY <1>1, <2>1, <2>3
    <3>2. /\ j > 0 => s[j] \in A
          /\ \A i \in 1..Len(s) : i > j => s[i] \notin B
      BY <1>1, <2>1, <2>3
    <3> QED BY <2>1, <2>3, <3>1, <3>2 DEF Holds
  <2> QED BY <1>1, <2>2, <2>3
<1>4. ASSUME c \in A PROVE Holds(t, on, A, B, Len(s) + 1)
  <2>1. Len(s) + 1 \in 0..Len(s) + 1 /\ t[Len(s) + 1] \in A
    BY <1>1, <1>4
  <2> QED BY <1>1, <2>1 DEF Holds
<1>5. ASSUME c \notin B, Holds(s, on, A, B, Len(s))
      PROVE  Holds(t, on, A, B, Len(s) + 1)
  <2>1. PICK j \in 0..Len(s) :
            /\ j = 0 => on
            /\ j > 0 => s[j] \in A
            /\ \A i \in 1..Len(s) : i > j => s[i] \notin B
    BY <1>5 DEF Holds
  <2>2. /\ j \in 0..Len(s) + 1
        /\ j > 0 => t[j] \in A
        /\ \A i \in 1..Len(s) + 1 : i > j => t[i] \notin B
    BY <1>1, <1>5, <2>1
  <2> QED BY <2>1, <2>2 DEF Holds
<1> QED BY <1>2, <1>3, <1>4, <1>5 DEF t

LEMMA HoldsTail ==
    ASSUME NEW S, NEW s \in Seq(S), s # <<>>, NEW on, NEW A, NEW B,
           NEW n \in 0..Len(s) - 1, Holds(s, on, A, B, n + 1)
    PROVE  Holds(Tail(s), Head(s) \in A \/ (on /\ Head(s) \notin B), A, B, n)
<1> DEFINE t == Tail(s)
           now == Head(s) \in A \/ (on /\ Head(s) \notin B)
<1>1. /\ Len(s) \in Nat \ {0} /\ Len(t) = Len(s) - 1
      /\ \A i \in 1..Len(s) - 1 : t[i] = s[i + 1]
      /\ Head(s) = s[1]
  BY TailIs
<1> HIDE DEF t
<1>2. PICK j \in 0..n + 1 :
          /\ j = 0 => on
          /\ j > 0 => s[j] \in A
          /\ \A i \in 1..n + 1 : i > j => s[i] \notin B
  BY DEF Holds
<1>3. CASE j <= 1
  <2>1. now
    BY <1>1, <1>2, <1>3
  <2>2. \A i \in 1..n : t[i] \notin B
    BY <1>1, <1>2, <1>3
  <2>3. 0 \in 0..n
    BY <1>1
  <2> QED BY <2>1, <2>2, <2>3 DEF Holds, t
<1>4. CASE j > 1
  <2>1. j - 1 \in 0..n /\ j - 1 > 0 /\ t[j - 1] \in A
    BY <1>1, <1>2, <1>4
  <2>2. ASSUME NEW i \in 1..n, i > j - 1 PROVE t[i] \notin B
    BY <1>1, <1>2, <1>4, <2>2
  <2> QED BY <2>1, <2>2 DEF Holds, t
<1> QED BY <1>1, <1>2, <1>3, <1>4

(* The condition may hold earlier, be brought about by more, or be ended   *)
(* by less.                                                                *)
LEMMA HoldsMore ==
    ASSUME NEW s, NEW on, NEW now, NEW A, NEW C, NEW B, NEW n \in Nat,
           Holds(s, on, A, B, n), on => now,
           \A i \in 1..n : s[i] \in A => s[i] \in C
    PROVE  Holds(s, now, C, B, n)
BY DEF Holds

(* A condition that holds, and that nothing in the queue ends.             *)
LEMMA HoldsOn ==
    ASSUME NEW s, NEW A, NEW B, Len(s) \in Nat, ~Has(s, B), NEW n \in 0..Len(s)
    PROVE  Holds(s, TRUE, A, B, n)
BY DEF Holds, Has

(***************************************************************************)
(* Types                                                                   *)
(***************************************************************************)
UiCalls == {"prepared", "unprepared", "keyRequested", "succeeded", "failed"}
IoCalls == {"acknowledge", "begin", "cancel", "tone"}
AudioCalls == {"prepare", "beginTone", "stop"}
Commands == {"TS", "TS0", "TS1", "TX", "RX", "tone"}

(* A posted call is one element at the end of the queue.                   *)
LEMMA CallIs ==
    ASSUME NEW N, NEW q \in Seq(Posted(N)), NEW name \in N,
           NEW g \in GenerationOrNone
    PROVE  /\ [name |-> name, generation |-> g] \in Posted(N)
           /\ q \o Call(name, g) = Append(q, [name |-> name, generation |-> g])
           /\ q \o Call(name, g) \in Seq(Posted(N))
<1>1. [name |-> name, generation |-> g] \in Posted(N)
  BY DEF Posted
<1> QED BY <1>1, AppendIs DEF Call

LEMMA TakenIs ==
    ASSUME NEW N, NEW q \in Seq(Posted(N)), NEW name, AtHead(q, name)
    PROVE  /\ q # <<>> /\ Head(q) \in Posted(N)
           /\ Head(q).name = name /\ Head(q).generation \in GenerationOrNone
           /\ Tail(q) \in Seq(Posted(N))
<1>1. q # <<>> /\ Head(q).name = name
  BY DEF AtHead
<1>2. Head(q) \in Posted(N) /\ Tail(q) \in Seq(Posted(N))
  BY <1>1, TailIs
<1> QED BY <1>1, <1>2 DEF Posted

LEMMA QueueTypes ==
    ASSUME TypeOK
    PROVE  /\ toUi \in Seq(Posted(UiCalls)) /\ toIo \in Seq(Posted(IoCalls))
           /\ toAudio \in Seq(Posted(AudioCalls))
           /\ up \in Seq(Commands) /\ down \in Seq({"TS0", "TS1"})
BY DEF TypeOK, UiCalls, IoCalls, AudioCalls, Commands

LEMMA GenerationTypes ==
    ASSUME TypeOK
    PROVE  /\ 0 \in GenerationOrNone /\ Generations \subseteq GenerationOrNone
           /\ generation \in GenerationOrNone /\ toneGeneration \in GenerationOrNone
           /\ lastGeneration \in GenerationOrNone
           /\ calibrationGeneration \in GenerationOrNone
           /\ \A g : Closed(g) \in GenerationOrNone
           /\ lastGeneration < MaxStarts => lastGeneration + 1 \in GenerationOrNone
BY CalibrationAssumption DEF TypeOK, GenerationOrNone, Generations, Closed

(* Commands behind those on their way, and the first of them carried out.  *)
LEMMA UpIs ==
    ASSUME TypeOK
    PROVE  /\ \A c \in Commands : up \o <<c>> = Append(up, c)
                                  /\ up \o <<c>> \in Seq(Commands)
           /\ \A c, d \in Commands :
                  /\ up \o <<c, d>> = Append(Append(up, c), d)
                  /\ up \o <<c, d>> \in Seq(Commands)
           /\ \A c, d, e \in Commands :
                  /\ up \o (<<c>> \o <<d, e>>) = Append(Append(Append(up, c), d), e)
                  /\ up \o (<<c>> \o <<d, e>>) \in Seq(Commands)
           /\ up \o (<<"RX">> \o <<>>) = Append(up, "RX")
<1>1. up \in Seq(Commands)
  BY QueueTypes
<1>2. ASSUME NEW c \in Commands
      PROVE  up \o <<c>> = Append(up, c) /\ up \o <<c>> \in Seq(Commands)
  BY <1>1, <1>2, AppendIs
<1>3. ASSUME NEW c \in Commands, NEW d \in Commands
      PROVE  /\ up \o <<c, d>> = Append(Append(up, c), d)
             /\ up \o <<c, d>> \in Seq(Commands)
  BY <1>1, <1>3, <1>2, AppendIs
<1>4. ASSUME NEW c \in Commands, NEW d \in Commands, NEW e \in Commands
      PROVE  /\ up \o (<<c>> \o <<d, e>>) = Append(Append(Append(up, c), d), e)
             /\ up \o (<<c>> \o <<d, e>>) \in Seq(Commands)
  BY <1>1, <1>4, <1>3, AppendIs
<1>5. up \o (<<"RX">> \o <<>>) = Append(up, "RX")
  BY <1>1, <1>2 DEF Commands
<1> QED BY <1>2, <1>3, <1>4, <1>5

(* What ends a calibration keeps the types.                                *)
LEMMA CompleteType ==
    ASSUME TypeOK, NEW well \in BOOLEAN, NEW verify \in BOOLEAN,
           Complete(well, verify)
    PROVE  /\ phase' = "none" /\ success' \in BOOLEAN /\ excused' \in BOOLEAN
           /\ toUi' \in Seq(Posted(UiCalls))
<1>1. (IF well THEN "succeeded" ELSE "failed") \in UiCalls
  BY DEF UiCalls
<1>2. toUi' \in Seq(Posted(UiCalls))
  BY <1>1, CallIs, QueueTypes, GenerationTypes DEF Complete
<1> QED BY <1>2 DEF Complete, TypeOK

LEMMA FinishType ==
    ASSUME TypeOK, NEW well \in BOOLEAN, Finish(well)
    PROVE  /\ phase' \in {"none", "restore"} /\ success' \in BOOLEAN
           /\ excused' \in BOOLEAN
           /\ toUi' \in Seq(Posted(UiCalls)) /\ up' \in Seq(Commands)
           /\ generation' \in GenerationOrNone
           /\ active' \in BOOLEAN /\ gateOpen' \in BOOLEAN
<1>1. up' \in Seq(Commands)
  <2>1. {"RX", "TS0", "TS"} \subseteq Commands
    BY DEF Commands
  <2>2. up' = up \o (<<"RX">> \o <<"TS0", "TS">>) \/ up' = up \o (<<"RX">> \o <<>>)
    BY DEF Finish, ClosingCommands
  <2>3. up \o (<<"RX">> \o <<>>) \in Seq(Commands)
    BY <2>1, UpIs, QueueTypes, AppendIs
  <2> QED BY <2>1, <2>2, <2>3, UpIs, ZenonT(60)
<1>2. CASE restoreTest
  BY <1>1, <1>2, QueueTypes, GenerationTypes DEF Finish, TypeOK
<1>3. CASE ~restoreTest
  <2>1. Complete(well, FALSE)
    BY <1>3 DEF Finish
  <2> QED BY <1>1, <2>1, CompleteType, GenerationTypes DEF Finish
<1> QED BY <1>2, <1>3

LEMMA StopToneType ==
    ASSUME TypeOK, StopTone
    PROVE  /\ generation' \in GenerationOrNone /\ toneActive' \in BOOLEAN
           /\ toAudio' \in Seq(Posted(AudioCalls)) /\ connected' \in BOOLEAN
           /\ toAudio' = Append(toAudio, [name |-> "stop", generation |-> 0])
<1>1. "stop" \in AudioCalls
  BY DEF AudioCalls
<1>2. /\ toAudio \o Call("stop", 0) = Append(toAudio, [name |-> "stop", generation |-> 0])
      /\ toAudio \o Call("stop", 0) \in Seq(Posted(AudioCalls))
  BY <1>1, CallIs, QueueTypes, GenerationTypes
<1> QED BY <1>2, GenerationTypes DEF StopTone, TypeOK

LEMMA CancelNowType ==
    ASSUME TypeOK, CancelNow, toUi' \in Seq(Posted(UiCalls))
    PROVE  TypeOK'
<1>1. toIo' \in Seq(Posted(IoCalls))
  BY CallIs, QueueTypes, GenerationTypes DEF CancelNow, IoCalls
<1>2. StopTone
  BY DEF CancelNow
<1> QED BY <1>1, <1>2, StopToneType
    DEF CancelNow, TypeOK, io, audio, radio, UiCalls, IoCalls, AudioCalls

LEMMA InitType == Init => TypeOK
<1> SUFFICES ASSUME Init PROVE TypeOK
  OBVIOUS
<1>1. 0 \in GenerationOrNone /\ 0 \in 0..MaxLosses /\ 0 \in 0..MaxToggles
  BY CalibrationAssumption DEF GenerationOrNone
<1> QED BY <1>1, EmptySeq DEF Init, TypeOK

LEMMA UiTypeStep == TypeOK /\ UiThread => TypeOK'
<1> SUFFICES ASSUME TypeOK, UiThread PROVE TypeOK'
  OBVIOUS
<1> USE QueueTypes, GenerationTypes
    DEF shared, queues, io, audio, radio, UiCalls, IoCalls, AudioCalls
<1>1. CASE Start
  <2>1. lastGeneration + 1 \in GenerationOrNone
    BY <1>1 DEF Start
  <2>2. toIo' \in Seq(Posted(IoCalls)) /\ toAudio' \in Seq(Posted(AudioCalls))
    BY <1>1, <2>1, CallIs DEF Start
  <2> QED BY <1>1, <2>1, <2>2 DEF Start, TypeOK
<1>2. CASE Cancel
  BY <1>2, CancelNowType DEF Cancel
<1>3. CASE OnUnprepared
  <2>1. toUi' \in Seq(Posted(UiCalls))
    BY <1>3, TakenIs DEF OnUnprepared, UiTakes
  <2>2. CASE CancelNow
    BY <2>1, <2>2, CancelNowType
  <2>3. CASE UiIgnores
    BY <2>1, <2>3 DEF UiIgnores, TypeOK, ui
  <2> QED BY <1>3, <2>2, <2>3 DEF OnUnprepared
<1>4. CASE OnPrepared
  <2>1. /\ toUi' \in Seq(Posted(UiCalls))
        /\ Head(toUi).generation \in GenerationOrNone
    BY <1>4, TakenIs DEF OnPrepared, UiTakes
  <2>2. CASE Mine(Head(toUi).generation)
    <3>1. toIo \o Call("begin", Head(toUi).generation) \in Seq(Posted(IoCalls))
      BY <2>1, CallIs
    <3> QED BY <1>4, <2>1, <2>2, <3>1 DEF OnPrepared, TypeOK
  <2>3. CASE UiIgnores
    BY <2>1, <2>3 DEF UiIgnores, TypeOK, ui
  <2> QED BY <1>4, <2>2, <2>3 DEF OnPrepared
<1>5. CASE OnKeyRequested
  <2>1. /\ toUi' \in Seq(Posted(UiCalls))
        /\ Head(toUi).generation \in GenerationOrNone
    BY <1>5, TakenIs DEF OnKeyRequested, UiTakes
  <2> QED BY <1>5, <2>1 DEF OnKeyRequested, TypeOK
<1>6. CASE OnFinished
  <2>1. /\ toUi' \in Seq(Posted(UiCalls))
        /\ Head(toUi).generation \in GenerationOrNone
    BY <1>6, TakenIs DEF OnFinished, UiTakes
  <2>2. CASE Mine(Head(toUi).generation)
    <3>1. StopTone /\ saved' \subseteq GenerationOrNone
      BY <1>6, <2>1, <2>2 DEF OnFinished, TypeOK
    <3> QED BY <1>6, <2>1, <2>2, <3>1, StopToneType DEF OnFinished, TypeOK
  <2>3. CASE UiIgnores
    BY <2>1, <2>3 DEF UiIgnores, TypeOK, ui
  <2> QED BY <1>6, <2>2, <2>3 DEF OnFinished
<1>7. ASSUME NEW g \in Generations, KeyGuardElapsed(g)
      PROVE  TypeOK'
  <2>1. toAudio' \in Seq(Posted(AudioCalls))
    BY <1>7, CallIs DEF KeyGuardElapsed
  <2> QED BY <1>7, <2>1 DEF KeyGuardElapsed, TypeOK
<1> QED BY <1>1, <1>2, <1>3, <1>4, <1>5, <1>6, <1>7 DEF UiThread

LEMMA IoTypeStep == TypeOK /\ IoThread => TypeOK'
<1> SUFFICES ASSUME TypeOK, IoThread PROVE TypeOK'
  OBVIOUS
<1> USE QueueTypes, GenerationTypes
    DEF shared, queues, ui, audio, radio, Untouched,
        UiCalls, IoCalls, AudioCalls
<1>0. ASSUME NEW name, IoTakes(name) PROVE toIo' \in Seq(Posted(IoCalls))
  BY <1>0, TakenIs DEF IoTakes
<1>1. CASE TakeAcknowledge
  BY <1>0, <1>1 DEF TakeAcknowledge, TypeOK
<1>2. CASE TakeBegin
  <2>1. toIo' \in Seq(Posted(IoCalls)) /\ Head(toIo).generation \in GenerationOrNone
    BY <1>2, TakenIs DEF TakeBegin, IoTakes
  <2>2. toUi \o Call("failed", Head(toIo).generation) \in Seq(Posted(UiCalls))
    BY <2>1, CallIs
  <2>3. up \o <<"TS">> \in Seq(Commands)
    BY UpIs DEF Commands
  <2>4. CASE ~connected \/ active \/ phase # "none"
    BY <1>2, <2>1, <2>2, <2>4, ZenonT(60) DEF TakeBegin, TypeOK, io
  <2>5. CASE ~(~connected \/ active \/ phase # "none")
    BY <1>2, <2>1, <2>3, <2>5, ZenonT(60) DEF TakeBegin, TypeOK, AnswersToCome, TestToCome, Commands
  <2> QED BY <2>4, <2>5
<1>3. CASE TakeCancel
  <2>1. CASE phase \in {"read", "enable", "running"}
    BY <1>0, <1>3, <2>1, FinishType DEF TakeCancel, Finish, TypeOK, Commands
  <2>2. CASE phase \notin {"read", "enable", "running"}
    BY <1>0, <1>3, <2>2 DEF TakeCancel, TypeOK, io
  <2> QED BY <2>1, <2>2
<1>4. CASE TakeTone
  <2>1. up' \in Seq(Commands)
    BY <1>4, UpIs DEF TakeTone, Commands
  <2> QED BY <1>0, <1>4, <2>1 DEF TakeTone, TypeOK, io, Commands
<1>5. CASE OnAnswer
  <2>0. ASSUME NEW a, Answer(a) PROVE down' \in Seq({"TS0", "TS1"})
    BY <2>0, TailIs DEF Answer
  <2>1. ASSUME NEW a \in {"TS0", "TS1"}, OnTestRead(a), UNCHANGED toIo, Untouched
        PROVE  TypeOK'
    <3>1. up' \in Seq(Commands) /\ down' \in Seq({"TS0", "TS1"})
      BY <2>0, <2>1, UpIs DEF OnTestRead, Commands
    <3> QED BY <2>1, <3>1 DEF OnTestRead, TypeOK, Commands
  <2>2. ASSUME NEW a \in {"TS0", "TS1"}, OnTestEnabled(a), UNCHANGED toIo, Untouched
        PROVE  TypeOK'
    <3>1. down' \in Seq({"TS0", "TS1"})
      BY <2>0, <2>2 DEF OnTestEnabled
    <3>2. CASE latched
      BY <2>2, <3>1, <3>2, FinishType DEF OnTestEnabled, Finish, TypeOK, Commands
    <3>3. CASE ~latched
      <4>0. "TX" \in Commands
        BY DEF Commands
      <4>1. up' \in Seq(Commands)
        BY <2>2, <3>3, <4>0, UpIs DEF OnTestEnabled
      <4>2. toUi \o Call("keyRequested", calibrationGeneration) \in Seq(Posted(UiCalls))
        BY CallIs
      <4> QED BY <2>2, <3>1, <3>3, <4>1, <4>2 DEF OnTestEnabled, TypeOK, Commands
    <3> QED BY <3>2, <3>3
  <2>3. ASSUME NEW a \in {"TS0", "TS1"}, OnOtherAnswer(a), UNCHANGED toIo, Untouched
        PROVE  TypeOK'
    BY <2>0, <2>3 DEF OnOtherAnswer, TypeOK, io
  <2>4. CASE OnTestLost
    <3>1. down' \in Seq({"TS0", "TS1"})
      BY <2>0, <2>4 DEF OnTestLost
    <3> QED BY <1>5, <2>4, <3>1, FinishType DEF OnAnswer, OnTestLost, Finish, TypeOK, Commands
  <2>5. CASE OnTestRestored
    <3>1. down' \in Seq({"TS0", "TS1"}) /\ success \in BOOLEAN
      BY <2>0, <2>5 DEF OnTestRestored, TypeOK
    <3>2. Complete(success, FALSE)
      BY <2>5 DEF OnTestRestored
    <3> QED BY <1>5, <2>5, <3>1, <3>2, CompleteType DEF OnAnswer, OnTestRestored, TypeOK
  <2> QED BY <1>5, <2>1, <2>2, <2>3, <2>4, <2>5 DEF OnAnswer
<1>6. CASE Deadline
  <2>1. CASE RestoreExpires
    BY <1>6, <2>1, CompleteType DEF Deadline, RestoreExpires, TypeOK
  <2>2. CASE Finish(FALSE) /\ UNCHANGED <<latched, down>>
    BY <1>6, <2>2, FinishType DEF Deadline, Finish, TypeOK, Commands
  <2> QED BY <1>6, <2>1, <2>2 DEF Deadline
<1>7. CASE GuardCalibrates
  BY <1>7, FinishType DEF GuardCalibrates, Finish, TypeOK, Commands
<1>8. CASE GuardTrips
  BY <1>8, FinishType DEF GuardTrips, Finish, TypeOK, Commands
<1>9. CASE ConnectionLost
  <2>1. <<>> \in Seq(Commands) /\ <<>> \in Seq({"TS0", "TS1"})
    BY EmptySeq
  <2>2. losses' \in 0..MaxLosses
    BY <1>9, CalibrationAssumption DEF ConnectionLost, TypeOK
  <2>3. CASE phase = "none"
    BY <1>9, <2>1, <2>2, <2>3, ZenonT(60) DEF ConnectionLost, TypeOK, Commands
  <2>4. CASE phase # "none"
    BY <1>9, <2>1, <2>2, <2>4, CompleteType DEF ConnectionLost, TypeOK, Commands
  <2> QED BY <2>3, <2>4
<1>10. CASE Reconnected
  BY <1>10 DEF Reconnected, TypeOK, io
<1> QED BY <1>1, <1>2, <1>3, <1>4, <1>5, <1>6, <1>7, <1>8, <1>9, <1>10 DEF IoThread

LEMMA AudioTypeStep == TypeOK /\ AudioThread => TypeOK'
<1> SUFFICES ASSUME TypeOK, AudioThread PROVE TypeOK'
  OBVIOUS
<1> USE QueueTypes, GenerationTypes
    DEF shared, queues, ui, io, radio, UiCalls, IoCalls, AudioCalls
<1>0. ASSUME NEW name, AudioTakes(name)
      PROVE  /\ toAudio' \in Seq(Posted(AudioCalls))
             /\ Head(toAudio).generation \in GenerationOrNone
  BY <1>0, TakenIs DEF AudioTakes
<1>1. CASE TakePrepare
  <2>1. Head(toAudio).generation \in GenerationOrNone
    BY <1>0, <1>1 DEF TakePrepare
  <2>2. toUi \o Call("prepared", Head(toAudio).generation) \in Seq(Posted(UiCalls))
    BY <2>1, CallIs
  <2> QED BY <1>0, <1>1, <2>1, <2>2 DEF TakePrepare, TypeOK
<1>2. CASE TakePrepareFails
  <2>1. Head(toAudio).generation \in GenerationOrNone
    BY <1>0, <1>2 DEF TakePrepareFails
  <2>2. toUi \o Call("unprepared", Head(toAudio).generation) \in Seq(Posted(UiCalls))
    BY <2>1, CallIs
  <2> QED BY <1>0, <1>2, <2>2 DEF TakePrepareFails, TypeOK, audio
<1>3. CASE TakeBeginTone
  BY <1>0, <1>3 DEF TakeBeginTone, TypeOK, audio, Allows
<1>4. CASE TakeStop
  BY <1>0, <1>4 DEF TakeStop, TypeOK
<1>5. CASE Pace
  <2>1. toIo \o Call("tone", toneGeneration) \in Seq(Posted(IoCalls))
    BY CallIs
  <2> QED BY <1>5, <2>1, ZenonT(60) DEF Pace, TypeOK
<1> QED BY <1>1, <1>2, <1>3, <1>4, <1>5 DEF AudioThread

(* What the K4 does with a command.                                        *)
LEMMA K4Is ==
    ASSUME TypeOK, K4
    PROVE  /\ up # <<>> /\ Head(up) \in Commands /\ up' = Tail(up)
           /\ Head(up) = "TS1" => test' \in {test, TRUE}
           /\ Head(up) = "TS0" => test' = FALSE
           /\ Head(up) \notin Settings => test' = test
           /\ Head(up) = "TX" => keyed' = TRUE
           /\ Head(up) = "RX" => keyed' = FALSE
           /\ Head(up) \notin {"TX", "RX"} => keyed' = keyed
           /\ down' = IF Head(up) = "TS" THEN Append(down, Reading(test)) ELSE down
           /\ test' \in BOOLEAN /\ keyed' \in BOOLEAN /\ refused' \in BOOLEAN
<1>1. up # <<>> /\ Head(up) \in Commands
  BY TailIs, QueueTypes DEF K4
<1>2. /\ Head(up) = "TS1" => test' \in {test, TRUE}
      /\ Head(up) = "TS0" => test' = FALSE
      /\ Head(up) \notin Settings => test' = test
  BY Zenon DEF K4, Settings
<1>3. /\ Head(up) = "TX" => keyed' = TRUE
      /\ Head(up) = "RX" => keyed' = FALSE
      /\ Head(up) \notin {"TX", "RX"} => keyed' = keyed
  BY Zenon DEF K4
<1>4. test' \in BOOLEAN /\ keyed' \in BOOLEAN
  BY <1>1, <1>2, <1>3 DEF TypeOK, Commands, Settings
<1>5. refused' \in BOOLEAN
  BY DEF K4, TypeOK
<1>6. /\ up' = Tail(up)
      /\ down' = IF Head(up) = "TS" THEN Append(down, Reading(test)) ELSE down
  BY Zenon DEF K4
<1> QED BY <1>1, <1>2, <1>3, <1>4, <1>5, <1>6

LEMMA RadioTypeStep == TypeOK /\ (K4 \/ TestPressed) => TypeOK'
<1> SUFFICES ASSUME TypeOK, K4 \/ TestPressed PROVE TypeOK'
  OBVIOUS
<1> USE QueueTypes DEF shared, queues, ui, io, audio
<1>1. \A b \in BOOLEAN : Append(down, Reading(b)) \in Seq({"TS0", "TS1"})
  BY AppendIs DEF Reading
<1>2. CASE K4
  <2>1. up' \in Seq(Commands)
    BY <1>2, K4Is, TailIs
  <2>2. down' \in Seq({"TS0", "TS1"})
    BY <1>1, <1>2, K4Is DEF TypeOK
  <2>3. test' \in BOOLEAN /\ keyed' \in BOOLEAN /\ refused' \in BOOLEAN
    BY <1>2, K4Is
  <2>4. UNCHANGED <<shared, queues, ui, io, audio, toggles, losses>>
    BY <1>2 DEF K4
  <2> QED BY <2>1, <2>2, <2>3, <2>4 DEF TypeOK, Commands
<1>3. CASE TestPressed
  <2>1. down' \in Seq({"TS0", "TS1"})
    BY <1>1, <1>3 DEF TestPressed, TypeOK
  <2>2. toggles' \in 0..MaxToggles
    BY <1>3, CalibrationAssumption DEF TestPressed, TypeOK
  <2>3. UNCHANGED <<shared, queues, ui, io, audio, up, keyed, refused, losses>>
    BY <1>3 DEF TestPressed
  <2> QED BY <1>3, <2>1, <2>2, <2>3 DEF TestPressed, TypeOK
<1> QED BY <1>2, <1>3

LEMMA TypeStep == TypeOK /\ [Next]_vars => TypeOK'
<1> SUFFICES ASSUME TypeOK, [Next]_vars PROVE TypeOK'
  OBVIOUS
<1>1. CASE UNCHANGED vars
  BY <1>1 DEF vars, shared, queues, ui, io, audio, radio, TypeOK
<1> QED BY <1>1, UiTypeStep, IoTypeStep, AudioTypeStep, RadioTypeStep DEF Next

(***************************************************************************)
(* Commands on their way                                                   *)
(***************************************************************************)
LEMMA HoldsBack ==
    ASSUME NEW S, NEW s \in Seq(S), s # <<>>, NEW on, NEW A, NEW B,
           NEW n \in 0..Len(s) - 1,
           Holds(Tail(s), Head(s) \in A \/ (on /\ Head(s) \notin B), A, B, n)
    PROVE  Holds(s, on, A, B, n + 1)
<1> DEFINE t == Tail(s)
           now == Head(s) \in A \/ (on /\ Head(s) \notin B)
<1>1. /\ Len(s) \in Nat \ {0} /\ Len(t) = Len(s) - 1
      /\ \A i \in 1..Len(s) - 1 : t[i] = s[i + 1]
      /\ Head(s) = s[1]
  BY TailIs
<1> HIDE DEF t
<1>2. PICK j \in 0..n : /\ j = 0 => now
                        /\ j > 0 => t[j] \in A
                        /\ \A i \in 1..n : i > j => t[i] \notin B
  BY DEF Holds, t
<1>3. ASSUME NEW i \in 1..n + 1, i > j + 1 PROVE s[i] \notin B
  <2>1. i - 1 \in 1..n /\ i - 1 > j /\ t[i - 1] = s[i]
    BY <1>1, <1>3
  <2> QED BY <1>2, <2>1
<1>4. CASE j > 0 \/ Head(s) \in A
  <2>1. j + 1 \in 0..n + 1 /\ j + 1 > 0 /\ s[j + 1] \in A
    BY <1>1, <1>2, <1>4
  <2> QED BY <1>3, <2>1 DEF Holds
<1>5. CASE j = 0 /\ Head(s) \notin A
  <2>1. on /\ Head(s) \notin B
    BY <1>2, <1>5
  <2>2. ASSUME NEW i \in 1..n + 1 PROVE s[i] \notin B
    BY <1>1, <1>3, <1>5, <2>1, <2>2
  <2>3. 0 \in 0..n + 1 /\ ~(0 > 0)
    OBVIOUS
  <2> QED BY <2>1, <2>2, <2>3 DEF Holds
<1> QED BY <1>2, <1>4, <1>5

LEMMA HasMore ==
    ASSUME NEW s, NEW C, NEW D, C \subseteq D, Has(s, C)
    PROVE  Has(s, D)
BY DEF Has

LEMMA NothingHas == \A C : ~Has(<<>>, C) /\ AtMostOne(<<>>, C)
BY DEF Has, AtMostOne

LEMMA QueriedAppend ==
    ASSUME NEW s \in Seq(Commands), Queried(s), NEW c \in Commands, c \notin Settings
    PROVE  Queried(Append(s, c))
<1>1. /\ Len(s) \in Nat /\ Len(Append(s, c)) = Len(s) + 1
      /\ \A i \in 1..Len(s) : Append(s, c)[i] = s[i]
      /\ Append(s, c)[Len(s) + 1] = c
  BY AppendIs
<1> QED BY <1>1 DEF Queried

LEMMA QueriedPair ==
    ASSUME NEW s \in Seq(Commands), Queried(s), NEW c \in Commands
    PROVE  Queried(Append(Append(s, c), "TS"))
<1> DEFINE t == Append(s, c)
           u == Append(t, "TS")
<1>1. /\ Len(s) \in Nat /\ Len(t) = Len(s) + 1 /\ t \in Seq(Commands)
      /\ \A i \in 1..Len(s) : t[i] = s[i]
  BY AppendIs
<1>2. /\ Len(u) = Len(t) + 1
      /\ \A i \in 1..Len(t) : u[i] = t[i]
      /\ u[Len(t) + 1] = "TS"
  BY <1>1, AppendIs DEF Commands
<1> HIDE DEF t, u
<1>3. ASSUME NEW i \in 1..Len(u), u[i] \in Settings
      PROVE  i < Len(u) /\ u[i + 1] = "TS"
  <2>1. i <= Len(s) + 1
    BY <1>1, <1>2, <1>3 DEF Settings
  <2>2. CASE i <= Len(s)
    BY <1>1, <1>2, <1>3, <2>2 DEF Queried
  <2> QED BY <1>1, <1>2, <2>1, <2>2
<1> QED BY <1>3 DEF Queried, u, t

LEMMA QueriedTail ==
    ASSUME NEW s \in Seq(Commands), s # <<>>, Queried(s)
    PROVE  Queried(Tail(s))
<1>1. /\ Len(s) \in Nat \ {0} /\ Len(Tail(s)) = Len(s) - 1
      /\ \A i \in 1..Len(s) - 1 : Tail(s)[i] = s[i + 1]
  BY TailIs
<1> QED BY <1>1 DEF Queried

LEMMA QueriedNone ==
    ASSUME NEW s \in Seq(Commands), Queried(s), ~Has(s, Queries)
    PROVE  ~Has(s, Settings)
BY DEF Queried, Has, Queries

LEMMA BehindAppend ==
    ASSUME NEW s \in Seq(Commands), AskedBehind(s), NEW c \in Commands, c # "TS1"
    PROVE  AskedBehind(Append(s, c))
<1>1. /\ Len(s) \in Nat /\ Len(Append(s, c)) = Len(s) + 1
      /\ \A i \in 1..Len(s) : Append(s, c)[i] = s[i]
      /\ Append(s, c)[Len(s) + 1] = c
  BY AppendIs
<1> QED BY <1>1 DEF AskedBehind

LEMMA BehindTail ==
    ASSUME NEW s \in Seq(Commands), s # <<>>, AskedBehind(s)
    PROVE  AskedBehind(Tail(s)) /\ (Head(s) = "TS" => ~Has(Tail(s), {"TS1"}))
<1>1. /\ Len(s) \in Nat \ {0} /\ Len(Tail(s)) = Len(s) - 1
      /\ \A i \in 1..Len(s) - 1 : Tail(s)[i] = s[i + 1]
      /\ Head(s) = s[1]
  BY TailIs
<1>2. AskedBehind(Tail(s))
  BY <1>1 DEF AskedBehind
<1>3. ASSUME Head(s) = "TS" PROVE ~Has(Tail(s), {"TS1"})
  BY <1>1, <1>3 DEF AskedBehind, Has
<1> QED BY <1>2, <1>3

(* Only the query a calibration has just asked is behind no TS1.           *)
LEMMA BehindNone ==
    ASSUME NEW s \in Seq(Commands), ~Has(s, Queries)
    PROVE  /\ AskedBehind(s)
           /\ AskedBehind(Append(Append(s, "TS1"), "TS"))
<1> DEFINE t == Append(s, "TS1")
           u == Append(t, "TS")
<1>1. /\ Len(s) \in Nat /\ Len(t) = Len(s) + 1 /\ t \in Seq(Commands)
      /\ \A i \in 1..Len(s) : t[i] = s[i]
      /\ t[Len(s) + 1] = "TS1"
  BY AppendIs DEF Commands
<1>2. /\ Len(u) = Len(t) + 1
      /\ \A i \in 1..Len(t) : u[i] = t[i]
      /\ u[Len(t) + 1] = "TS"
  BY <1>1, AppendIs DEF Commands
<1> HIDE DEF t, u
<1>3. \A i \in 1..Len(s) : s[i] # "TS"
  BY DEF Has, Queries
<1>4. AskedBehind(s)
  BY <1>3 DEF AskedBehind
<1>5. ASSUME NEW i \in 1..Len(u), NEW j \in 1..Len(u), i < j, u[i] = "TS"
      PROVE  FALSE
  <2>1. i \in 1..Len(t) /\ t[i] = "TS"
    BY <1>1, <1>2, <1>5
  <2>2. i \in 1..Len(s) /\ s[i] = "TS"
    BY <1>1, <2>1
  <2> QED BY <1>3, <2>2
<1> QED BY <1>4, <1>5 DEF AskedBehind, u, t

LEMMA TransmitsAppend ==
    ASSUME NEW s \in Seq(Commands), NEW c \in Commands, NEW k
    PROVE  TransmitsAfter(Append(s, c), k, Len(Append(s, c))) <=>
               c = "TX" \/ (c # "RX" /\ TransmitsAfter(s, k, Len(s)))
<1>1. Len(Append(s, c)) = Len(s) + 1
  BY AppendIs
<1>2. Holds(Append(s, c), k, {"TX"}, {"RX"}, Len(s) + 1) <=>
          c \in {"TX"} \/ (c \notin {"RX"} /\ Holds(s, k, {"TX"}, {"RX"}, Len(s)))
  BY HoldsAppend
<1> QED BY <1>1, <1>2 DEF TransmitsAfter

LEMMA TestAppend ==
    ASSUME NEW s \in Seq(Commands), NEW c \in Commands, NEW t, NEW A
    PROVE  TestAfter(Append(s, c), t, A, Len(Append(s, c))) <=>
               c \in A \/ (c # "TS0" /\ TestAfter(s, t, A, Len(s)))
<1>1. Len(Append(s, c)) = Len(s) + 1
  BY AppendIs
<1>2. Holds(Append(s, c), t, A, {"TS0"}, Len(s) + 1) <=>
          c \in A \/ (c \notin {"TS0"} /\ Holds(s, t, A, {"TS0"}, Len(s)))
  BY HoldsAppend
<1> QED BY <1>1, <1>2 DEF TestAfter

(* A command that keys the K4 goes to a K4 in TEST, one that takes it out  *)
(* of TEST to a K4 that will not transmit.                                 *)
LEMMA KeysAppend ==
    ASSUME NEW s \in Seq(Commands), NEW c \in Commands, NEW k, NEW t, NEW A,
           KeysInTest(s, k, t, A),
           c = "TX" => TestAfter(s, t, A, Len(s)),
           c = "TS0" => ~TransmitsAfter(s, k, Len(s)),
           "TX" \notin A
    PROVE  KeysInTest(Append(s, c), k, t, A)
<1>1. Len(s) \in Nat /\ Len(Append(s, c)) = Len(s) + 1
  BY AppendIs
<1> SUFFICES ASSUME NEW n \in 0..Len(Append(s, c)),
                    TransmitsAfter(Append(s, c), k, n)
             PROVE  TestAfter(Append(s, c), t, A, n)
  BY DEF KeysInTest
<1>2. CASE n \in 0..Len(s)
  <2>0. \A m \in 0..Len(s) : Holds(Append(s, c), k, {"TX"}, {"RX"}, m) <=>
                                Holds(s, k, {"TX"}, {"RX"}, m)
    BY HoldsAppend
  <2>1. Holds(Append(s, c), k, {"TX"}, {"RX"}, n) <=> Holds(s, k, {"TX"}, {"RX"}, n)
    BY <1>2, <2>0
  <2>2. Holds(Append(s, c), t, A, {"TS0"}, n) <=> Holds(s, t, A, {"TS0"}, n)
    BY <1>2, HoldsAppend
  <2> QED BY <1>2, <2>1, <2>2 DEF TransmitsAfter, TestAfter, KeysInTest
<1>3. CASE n = Len(Append(s, c))
  <2>1. c = "TX" \/ (c # "RX" /\ TransmitsAfter(s, k, Len(s)))
    BY <1>3, TransmitsAppend
  <2>2. Len(s) \in 0..Len(s)
    BY <1>1
  <2>3. TestAfter(s, t, A, Len(s)) /\ c # "TS0"
    BY <2>1, <2>2 DEF KeysInTest
  <2> QED BY <1>3, <2>3, TestAppend
<1> QED BY <1>1, <1>2, <1>3

LEMMA KeysTail ==
    ASSUME NEW s \in Seq(Commands), s # <<>>, NEW k, NEW t, NEW A,
           KeysInTest(s, k, t, A), NEW newK, NEW newT,
           newK => Head(s) = "TX" \/ (k /\ Head(s) # "RX"),
           Head(s) \in A \/ (t /\ Head(s) # "TS0") => newT
    PROVE  KeysInTest(Tail(s), newK, newT, A)
<1>1. Len(s) \in Nat \ {0} /\ Len(Tail(s)) = Len(s) - 1
  BY TailIs
<1> SUFFICES ASSUME NEW n \in 0..Len(Tail(s)), TransmitsAfter(Tail(s), newK, n)
             PROVE  TestAfter(Tail(s), newT, A, n)
  BY DEF KeysInTest
<1>2. n \in 0..Len(s) - 1 /\ n + 1 \in 0..Len(s) /\ n \in Nat
  BY <1>1
<1>3. Holds(Tail(s), Head(s) \in {"TX"} \/ (k /\ Head(s) \notin {"RX"}),
            {"TX"}, {"RX"}, n)
  <2>1. Holds(Tail(s), newK, {"TX"}, {"RX"}, n)
    BY DEF TransmitsAfter
  <2>2. newK => Head(s) \in {"TX"} \/ (k /\ Head(s) \notin {"RX"})
    OBVIOUS
  <2> QED BY <1>2, <2>1, <2>2, HoldsMore
<1>4. Holds(s, k, {"TX"}, {"RX"}, n + 1)
  BY <1>2, <1>3, HoldsBack
<1>5. Holds(s, t, A, {"TS0"}, n + 1)
  BY <1>2, <1>4 DEF KeysInTest, TransmitsAfter, TestAfter
<1>6. Holds(Tail(s), Head(s) \in A \/ (t /\ Head(s) \notin {"TS0"}), A, {"TS0"}, n)
  BY <1>2, <1>5, HoldsTail
<1>7. Head(s) \in A \/ (t /\ Head(s) \notin {"TS0"}) => newT
  OBVIOUS
<1> QED BY <1>2, <1>6, <1>7, HoldsMore DEF TestAfter

LEMMA KeysMore ==
    ASSUME NEW s, Len(s) \in Nat, NEW k, NEW t, NEW A, NEW C,
           KeysInTest(s, k, t, A), \A i \in 1..Len(s) : s[i] \in A => s[i] \in C
    PROVE  KeysInTest(s, k, t, C)
<1> SUFFICES ASSUME NEW n \in 0..Len(s), TransmitsAfter(s, k, n)
             PROVE  TestAfter(s, t, C, n)
  BY DEF KeysInTest
<1>1. Holds(s, t, A, {"TS0"}, n)
  BY DEF KeysInTest, TestAfter
<1>2. n \in Nat /\ \A i \in 1..n : s[i] \in A => s[i] \in C
  OBVIOUS
<1> QED BY <1>1, <1>2, HoldsMore DEF TestAfter

(***************************************************************************)
(* The steps of the I/O thread, by what they do to the radio               *)
(***************************************************************************)
\* A calibration that is under way ends, or goes on to restore TEST.
Ending(well) ==
    /\ phase \in {"read", "enable", "running"}
    /\ Finish(well)
    /\ down' = down \/ (down # <<>> /\ down' = Tail(down))
    /\ toIo' = toIo \/ IoTakes("cancel")
    /\ Untouched

Keying ==
    /\ Answer("TS1") /\ phase = "enable" /\ ~latched
    /\ phase' = "running" /\ active' = TRUE /\ gateOpen' = TRUE
    /\ generation' = calibrationGeneration
    /\ up' = up \o <<"TX">>
    /\ toUi' = toUi \o Call("keyRequested", calibrationGeneration)
    /\ UNCHANGED <<calibrationGeneration, restoreTest, original, excused, test,
                   keyed, toggles, refused, toIo>>
    /\ Untouched

\* Steps that leave the calibration and the radio as they are.
Idle ==
    /\ UNCHANGED <<generation, calibrationGeneration, phase, restoreTest, active,
                   gateOpen, original, excused, radio>>
    /\ Untouched
    /\ \/ IoTakes("begin") /\ toUi' = toUi \o Call("failed", Head(toIo).generation)
       \/ toUi' = toUi /\ (toIo' = toIo \/ IoTakes("cancel") \/ IoTakes("acknowledge"))

Beginning == TakeBegin /\ phase = "none" /\ phase' = "read"
Waiting == UNCHANGED toIo /\ Untouched

LEMMA IoCases ==
    ASSUME IInv, IoThread
    PROVE  \/ Idle \/ Beginning \/ TakeTone \/ ConnectionLost \/ Keying
           \/ \E well \in BOOLEAN : Ending(well)
           \/ /\ Waiting
              /\ \/ RestoreExpires \/ OnTestRestored
                 \/ \E a \in {"TS0", "TS1"} : OnTestRead(a) \/ OnOtherAnswer(a)
<1> USE DEF Untouched, Waiting
<1>1. CASE TakeAcknowledge
  BY <1>1 DEF TakeAcknowledge, Idle, shared
<1>2. CASE TakeBegin
  <2>1. CASE ~connected \/ active \/ phase # "none"
    BY <1>2, <2>1 DEF TakeBegin, Idle, shared, io, radio
  <2>2. CASE ~(~connected \/ active \/ phase # "none")
    BY <1>2, <2>2 DEF TakeBegin, Beginning
  <2> QED BY <2>1, <2>2
<1>3. CASE TakeCancel
  <2>1. CASE phase \in {"read", "enable", "running"}
    BY <1>3, <2>1 DEF TakeCancel, Ending
  <2>2. CASE phase \notin {"read", "enable", "running"}
    BY <1>3, <2>2 DEF TakeCancel, Idle, shared, io
  <2> QED BY <2>1, <2>2
<1>4. CASE TakeTone
  BY <1>4
<1>5. CASE OnAnswer
  <2>1. CASE \E a \in {"TS0", "TS1"} : OnTestRead(a) \/ OnOtherAnswer(a)
    BY <1>5, <2>1 DEF OnAnswer
  <2>2. ASSUME NEW a \in {"TS0", "TS1"}, OnTestEnabled(a)
        PROVE  Keying \/ Ending(FALSE)
    BY <1>5, <2>2 DEF OnAnswer, OnTestEnabled, Keying, Ending, Answer, Confirms
  <2>3. CASE OnTestLost
    BY <1>5, <2>3 DEF OnAnswer, OnTestLost, Ending, Answer
  <2>4. CASE OnTestRestored
    BY <1>5, <2>4 DEF OnAnswer
  <2> QED BY <1>5, <2>1, <2>2, <2>3, <2>4 DEF OnAnswer
<1>6. CASE Deadline
  BY <1>6 DEF Deadline, Ending
<1>7. CASE GuardCalibrates \/ GuardTrips
  <2>1. phase = "running"
    BY <1>7 DEF GuardCalibrates, GuardTrips, IInv, GuardedWhileRunning
  <2> QED BY <1>7, <2>1 DEF GuardCalibrates, GuardTrips, Ending
<1>8. CASE ConnectionLost
  BY <1>8
<1>9. CASE Reconnected
  BY <1>9 DEF Reconnected, Idle, queues, io
<1> QED BY <1>1, <1>2, <1>3, <1>4, <1>5, <1>6, <1>7, <1>8, <1>9 DEF IoThread

(* How the end of a calibration queues its commands.                       *)
LEMMA ClosingIs ==
    ASSUME TypeOK, NEW well \in BOOLEAN, Finish(well)
    PROVE  /\ "RX" \in Commands /\ Append(up, "RX") \in Seq(Commands)
           /\ Append(Append(up, "RX"), "TS0") \in Seq(Commands)
           /\ ~restoreTest => phase' = "none" /\ up' = Append(up, "RX")
           /\ restoreTest => /\ phase' = "restore"
                             /\ up' = Append(Append(Append(up, "RX"), "TS0"), "TS")
           /\ excused' = excused
<1>1. "RX" \in Commands /\ "TS0" \in Commands /\ "TS" \in Commands
  BY DEF Commands
<1>2. Append(up, "RX") \in Seq(Commands) /\ Append(Append(up, "RX"), "TS0") \in Seq(Commands)
  BY <1>1, QueueTypes, AppendIs
<1>3. CASE restoreTest
  <2>1. up' = up \o (<<"RX">> \o <<"TS0", "TS">>)
    BY <1>3 DEF Finish, ClosingCommands
  <2> QED BY <1>1, <1>2, <1>3, <2>1, UpIs DEF Finish
<1>4. CASE ~restoreTest
  <2>1. up' = up \o (<<"RX">> \o <<>>)
    BY <1>4 DEF Finish, ClosingCommands
  <2>2. excused' = excused
    BY <1>4 DEF Finish, Complete, TypeOK
  <2> QED BY <1>1, <1>2, <1>4, <2>1, <2>2, UpIs DEF Finish, Complete
<1> QED BY <1>3, <1>4

(***************************************************************************)
(* The commands and the answers                                            *)
(***************************************************************************)
(* A step of the UI or the audio thread leaves the radio alone.            *)
LEMMA OthersKeepRadio ==
    UiThread \/ AudioThread => UNCHANGED <<io, radio>>
BY DEF UiThread, AudioThread, Start, Cancel, CancelNow, OnUnprepared, OnPrepared,
       OnKeyRequested, OnFinished, KeyGuardElapsed, UiIgnores, TakePrepare,
       TakePrepareFails, TakeBeginTone, TakeStop, Pace

LEMMA QueriedStep == IInv /\ [Next]_vars => ChangesAreQueried'
<1> SUFFICES ASSUME IInv, [Next]_vars PROVE Queried(up')
  BY DEF ChangesAreQueried
<1>1. TypeOK /\ up \in Seq(Commands) /\ Queried(up)
  BY QueueTypes DEF IInv, ChangesAreQueried
<1>2. {"TS", "TS0", "TS1", "TX", "RX", "tone"} \subseteq Commands
      /\ "TS" \notin Settings /\ "TX" \notin Settings /\ "RX" \notin Settings
      /\ "tone" \notin Settings
  BY DEF Commands, Settings
<1>3. CASE up' = up
  BY <1>1, <1>3
<1>4. CASE UNCHANGED vars \/ UiThread \/ AudioThread \/ TestPressed
  BY <1>3, <1>4, OthersKeepRadio DEF vars, radio, TestPressed
<1>5. CASE K4
  BY <1>1, <1>5, K4Is, QueriedTail
<1>6. CASE IoThread
  <2>1. CASE Idle
    BY <1>3, <2>1 DEF Idle, radio
  <2>2. CASE Beginning
    <3>1. up' = up \o <<"TS">>
      BY <2>2 DEF Beginning, TakeBegin, io
    <3> QED BY <1>1, <1>2, <3>1, UpIs, QueriedAppend, ZenonT(60)
  <2>3. CASE TakeTone
    <3>1. up' = up \/ up' = Append(up, "tone")
      BY <1>1, <1>2, <2>3, UpIs DEF TakeTone
    <3> QED BY <1>1, <1>2, <1>3, <3>1, QueriedAppend
  <2>4. CASE ConnectionLost
    <3>1. Len(<<>>) = 0 /\ up' = <<>>
      BY <2>4 DEF ConnectionLost
    <3> QED BY <3>1 DEF Queried
  <2>5. CASE Keying
    <3>1. up' = up \o <<"TX">>
      BY <2>5 DEF Keying
    <3> QED BY <1>1, <1>2, <3>1, UpIs, QueriedAppend, ZenonT(60)
  <2>6. ASSUME NEW well \in BOOLEAN, Ending(well) PROVE Queried(up')
    <3>1. Finish(well)
      BY <2>6 DEF Ending
    <3>2. Append(up, "RX") \in Seq(Commands) /\ Queried(Append(up, "RX"))
      BY <1>1, <1>2, <3>1, ClosingIs, QueriedAppend
    <3>3. Queried(Append(Append(Append(up, "RX"), "TS0"), "TS"))
      BY <1>2, <3>2, QueriedPair
    <3> QED BY <1>1, <3>1, <3>2, <3>3, ClosingIs
  <2>7. CASE RestoreExpires \/ OnTestRestored
    BY <1>3, <2>7 DEF RestoreExpires, OnTestRestored, radio
  <2>8. ASSUME NEW a, OnTestRead(a) PROVE Queried(up')
    <3>1. up' = up \o <<"TS1", "TS">>
      BY <2>8 DEF OnTestRead
    <3> QED BY <1>1, <1>2, <3>1, UpIs, QueriedPair, ZenonT(60)
  <2>9. ASSUME NEW a, OnOtherAnswer(a) PROVE Queried(up')
    BY <1>3, <2>9 DEF OnOtherAnswer
  <2> QED BY <1>6, <2>1, <2>2, <2>3, <2>4, <2>5, <2>6, <2>7, <2>8, <2>9, IoCases
<1> QED BY <1>4, <1>5, <1>6 DEF Next

(* Until a calibration runs the K4 will not transmit.                      *)
LEMMA SilentUnlessRunning ==
    ASSUME IInv, phase # "running"
    PROVE  ~TransmitsAfter(up, keyed, Len(up))
BY DEF IInv, GuardedWhileRunning

(* A calibration that begins with no answer to come finds the setting of   *)
(* TEST as it is.                                                          *)
LEMMA NothingToCome ==
    ASSUME IInv, ~AnswersToCome
    PROVE  /\ down = <<>> /\ ~Has(up, Queries) /\ ~Has(up, Settings)
           /\ TestToCome = test
<1>1. down = <<>> /\ ~Has(up, Queries)
  BY DEF AnswersToCome, Has, Queries
<1>2. up \in Seq(Commands) /\ Len(up) \in Nat
  BY QueueTypes, EmptySeq DEF IInv
<1>3. ~Has(up, Settings)
  BY <1>1, <1>2, QueriedNone DEF IInv, ChangesAreQueried
<1>4. \A i \in 1..Len(up) : up[i] # "TS0" /\ up[i] # "TS1"
  BY <1>3 DEF Has, Settings
<1>5. ASSUME test PROVE TestToCome
  <2>1. 0 \in 0..Len(up) /\ \A j \in 0 + 1..Len(up) : up[j] # "TS0"
    BY <1>2, <1>4
  <2> QED BY <1>5, <2>1 DEF TestToCome
<1>6. ASSUME TestToCome PROVE test
  BY <1>4, <1>6 DEF TestToCome
<1>7. test \in BOOLEAN /\ TestToCome \in BOOLEAN
  BY DEF IInv, TypeOK, TestToCome
<1> QED BY <1>1, <1>3, <1>5, <1>6, <1>7

LEMMA WillKeyStep == IInv /\ [Next]_vars => WillKeyInTest'
<1> SUFFICES ASSUME IInv, [Next]_vars, toggles' = 0, ~refused'
             PROVE  /\ KeysInTest(up', keyed', test', Counted')
                    /\ phase' = "enable" /\ excused' =>
                           TestAfter(up', test', Counted', Len(up'))
  BY DEF WillKeyInTest
<1>1. TypeOK /\ up \in Seq(Commands) /\ Len(up) \in Nat /\ Queried(up)
  BY QueueTypes, EmptySeq DEF IInv, ChangesAreQueried
<1>2. {"TS", "TS0", "TS1", "TX", "RX", "tone"} \subseteq Commands /\ "TX" \notin Counted
  BY DEF Commands, Counted
<1>3. toggles = 0 /\ ~refused
  <2>0. TestPressed \/ toggles' = toggles
    BY DEF vars, Next, UiThread, IoThread, AudioThread, TypeOK,
       radio, Start, Cancel, CancelNow, OnUnprepared, OnPrepared,
       OnKeyRequested, OnFinished, KeyGuardElapsed, UiIgnores, TakePrepare,
       TakePrepareFails, TakeBeginTone, TakeStop, Pace, K4, TestPressed,
       TakeAcknowledge, TakeBegin, TakeCancel, TakeTone, OnAnswer, Deadline,
       GuardCalibrates, GuardTrips, ConnectionLost, Reconnected, Finish,
       RestoreExpires, OnTestRead, OnTestEnabled, OnTestLost, OnTestRestored,
       OnOtherAnswer
  <2>1. toggles = 0
    BY <1>1, <2>0 DEF TestPressed, TypeOK
  <2>2. ~refused
    BY <1>1 DEF vars, Next, UiThread, IoThread, AudioThread, TypeOK,
       radio, Start, Cancel, CancelNow, OnUnprepared, OnPrepared,
       OnKeyRequested, OnFinished, KeyGuardElapsed, UiIgnores, TakePrepare,
       TakePrepareFails, TakeBeginTone, TakeStop, Pace, K4, TestPressed,
       TakeAcknowledge, TakeBegin, TakeCancel, TakeTone, OnAnswer, Deadline,
       GuardCalibrates, GuardTrips, ConnectionLost, Reconnected, Finish,
       RestoreExpires, OnTestRead, OnTestEnabled, OnTestLost, OnTestRestored,
       OnOtherAnswer
  <2> QED BY <2>1, <2>2
<1>4. /\ KeysInTest(up, keyed, test, Counted)
      /\ phase = "enable" /\ excused => TestAfter(up, test, Counted, Len(up))
  BY <1>3 DEF IInv, WillKeyInTest
<1>5. CASE UNCHANGED <<up, keyed, test, excused, phase>>
  BY <1>4, <1>5 DEF Counted
<1>6. CASE UNCHANGED vars \/ UiThread \/ AudioThread
  BY <1>5, <1>6, OthersKeepRadio DEF vars, radio, io
<1>7. CASE TestPressed
  BY <1>1, <1>3, <1>7 DEF TestPressed
<1>8. CASE K4
  <2>1. UNCHANGED <<phase, excused>> /\ Counted' = Counted
    BY <1>8 DEF K4, io, Counted
  <2>2. up # <<>> /\ up' = Tail(up)
    BY <1>1, <1>8, K4Is
  <2>3. keyed' => Head(up) = "TX" \/ (keyed /\ Head(up) # "RX")
    BY <1>1, <1>8, K4Is
  <2>4. Head(up) \in Counted \/ (test /\ Head(up) # "TS0") => test'
    <3>1. CASE Head(up) \in Counted
      <4>1. Head(up) = "TS1" /\ excused
        BY <3>1 DEF Counted
      <4> QED BY <1>8, <4>1 DEF K4
    <3>2. CASE test /\ Head(up) # "TS0"
      BY <1>1, <1>8, <3>2, K4Is DEF Settings
    <3> QED BY <3>1, <3>2
  <2>5. KeysInTest(up', keyed', test', Counted)
    BY <1>1, <1>4, <2>2, <2>3, <2>4, KeysTail
  <2>6. ASSUME TestAfter(up, test, Counted, Len(up))
        PROVE  TestAfter(up', test', Counted, Len(up'))
    <3>1. /\ Len(up') \in 0..Len(up) - 1 /\ Len(up') + 1 = Len(up)
          /\ Len(up') \in Nat
      BY <1>1, <2>2, TailIs
    <3>2. Holds(up, test, Counted, {"TS0"}, Len(up') + 1)
      BY <2>6, <3>1 DEF TestAfter
    <3>3. Holds(Tail(up), Head(up) \in Counted \/ (test /\ Head(up) \notin {"TS0"}),
                Counted, {"TS0"}, Len(up'))
      BY <1>1, <2>2, <3>1, <3>2, HoldsTail
    <3>4. Head(up) \in Counted \/ (test /\ Head(up) \notin {"TS0"}) => test'
      BY <2>4
    <3> QED BY <2>2, <3>1, <3>3, <3>4, HoldsMore DEF TestAfter
  <2> QED BY <1>4, <2>1, <2>5, <2>6
<1>9. CASE IoThread
  <2>1. CASE Idle
    BY <1>5, <2>1 DEF Idle, radio
  <2>2. CASE Beginning
    <3>1. /\ up' = Append(up, "TS") /\ UNCHANGED <<keyed, test>>
          /\ excused' = AnswersToCome /\ phase # "running" /\ phase' # "enable"
      BY <1>1, <1>2, <2>2, UpIs DEF Beginning, TakeBegin, io
    <3>2. \A i \in 1..Len(up) : up[i] \in Counted => up[i] \in Counted'
      <4>1. CASE AnswersToCome
        BY <3>1, <4>1 DEF Counted
      <4>2. CASE ~AnswersToCome
        BY <4>2, NothingToCome DEF Has, Settings, Counted
      <4> QED BY <4>1, <4>2
    <3>3. KeysInTest(up, keyed, test, Counted')
      BY <1>1, <1>4, <3>2, KeysMore
    <3>4. "TX" \notin Counted'
      BY DEF Counted
    <3>5. KeysInTest(Append(up, "TS"), keyed, test, Counted')
      BY <1>1, <1>2, <3>3, <3>4, KeysAppend
    <3> QED BY <3>1, <3>5
  <2>3. CASE TakeTone
    <3>1. /\ up' = up \/ up' = Append(up, "tone")
          /\ UNCHANGED <<keyed, test, excused, phase>>
      BY <1>1, <1>2, <2>3, UpIs DEF TakeTone, io
    <3>2. KeysInTest(Append(up, "tone"), keyed, test, Counted)
      BY <1>1, <1>2, <1>4, KeysAppend
    <3>3. TestAfter(up, test, Counted, Len(up)) =>
              TestAfter(Append(up, "tone"), test, Counted, Len(Append(up, "tone")))
      BY <1>1, <1>2, TestAppend
    <3>4. Counted' = Counted
      BY <3>1 DEF Counted
    <3> QED BY <1>4, <1>5, <3>1, <3>2, <3>3, <3>4
  <2>4. CASE ConnectionLost
    <3>1. up' = <<>> /\ keyed' = FALSE /\ phase' # "enable"
      BY <2>4 DEF ConnectionLost, Complete
    <3>2. ~Holds(<<>>, FALSE, {"TX"}, {"RX"}, 0)
      BY DEF Holds
    <3>3. \A n \in 0..Len(<<>>) : n = 0
      OBVIOUS
    <3>4. \A n \in 0..Len(<<>>) : ~TransmitsAfter(<<>>, FALSE, n)
      BY <3>2, <3>3 DEF TransmitsAfter
    <3> QED BY <3>1, <3>4 DEF KeysInTest
  <2>5. CASE Keying
    <3>1. /\ up' = Append(up, "TX") /\ UNCHANGED <<keyed, test, excused>>
          /\ phase = "enable" /\ phase' = "running" /\ Answer("TS1")
      BY <1>1, <1>2, <2>5, UpIs DEF Keying
    <3>2. TestAfter(up, test, Counted, Len(up))
      <4>1. CASE excused
        BY <1>4, <3>1, <4>1
      <4>2. CASE ~excused
        <5>1. test /\ ~Has(up, {"TS0"}) /\ test \in BOOLEAN
          BY <1>1, <1>3, <3>1, <4>2
             DEF IInv, AnswersAreOwn, OneAnswerAwaited, Answer, Reading, TypeOK
        <5>2. Len(up) \in 0..Len(up) /\ test = TRUE
          BY <1>1, <5>1
        <5> QED BY <1>1, <5>1, <5>2, HoldsOn DEF TestAfter
      <4> QED BY <4>1, <4>2
    <3>3. KeysInTest(Append(up, "TX"), keyed, test, Counted)
      BY <1>1, <1>2, <1>4, <3>2, KeysAppend
    <3>4. Counted' = Counted
      BY <3>1 DEF Counted
    <3> QED BY <3>1, <3>3, <3>4
  <2>6. ASSUME NEW well \in BOOLEAN, Ending(well)
        PROVE  KeysInTest(up', keyed', test', Counted') /\ phase' # "enable"
    <3>1. Finish(well)
      BY <2>6 DEF Ending
    <3>2. UNCHANGED <<keyed, test>>
      BY <3>1 DEF Finish
    <3>3. /\ Append(up, "RX") \in Seq(Commands)
          /\ Append(Append(up, "RX"), "TS0") \in Seq(Commands)
          /\ phase' # "enable" /\ Counted' = Counted
      BY <1>1, <3>1, ClosingIs DEF Counted
    <3>4. KeysInTest(Append(up, "RX"), keyed, test, Counted)
      BY <1>1, <1>2, <1>4, KeysAppend
    <3>5. ~TransmitsAfter(Append(up, "RX"), keyed, Len(Append(up, "RX")))
      BY <1>1, <1>2, TransmitsAppend
    <3>6. KeysInTest(Append(Append(up, "RX"), "TS0"), keyed, test, Counted)
      BY <1>2, <3>3, <3>4, <3>5, KeysAppend
    <3>7. KeysInTest(Append(Append(Append(up, "RX"), "TS0"), "TS"), keyed, test, Counted)
      BY <1>2, <3>3, <3>6, KeysAppend
    <3> QED BY <1>1, <3>1, <3>2, <3>3, <3>4, <3>7, ClosingIs
  <2>7. CASE RestoreExpires \/ OnTestRestored
    <3>1. UNCHANGED <<up, keyed, test>> /\ phase' = "none" /\ (excused => excused')
      BY <2>7 DEF RestoreExpires, OnTestRestored, Complete, radio
    <3>2. \A i \in 1..Len(up) : up[i] \in Counted => up[i] \in Counted'
      BY <3>1 DEF Counted
    <3>3. KeysInTest(up, keyed, test, Counted')
      BY <1>1, <1>4, <3>2, KeysMore
    <3> QED BY <3>1, <3>3
  <2>8. ASSUME NEW a, OnTestRead(a)
        PROVE  /\ KeysInTest(up', keyed', test', Counted')
               /\ excused' => TestAfter(up', test', Counted', Len(up'))
    <3>1. /\ up' = Append(Append(up, "TS1"), "TS") /\ UNCHANGED <<keyed, test, excused>>
          /\ phase # "running" /\ Counted' = Counted
      BY <1>1, <1>2, <2>8, UpIs DEF OnTestRead, Counted
    <3>2. Append(up, "TS1") \in Seq(Commands)
      BY <1>1, <1>2, AppendIs
    <3>3. KeysInTest(Append(up, "TS1"), keyed, test, Counted)
      BY <1>1, <1>2, <1>4, KeysAppend
    <3>4. KeysInTest(Append(Append(up, "TS1"), "TS"), keyed, test, Counted)
      BY <1>2, <3>2, <3>3, KeysAppend
    <3>5. ASSUME excused
          PROVE  TestAfter(Append(Append(up, "TS1"), "TS"), test, Counted,
                           Len(Append(Append(up, "TS1"), "TS")))
      <4>1. "TS1" \in Counted
        BY <3>5 DEF Counted
      <4>2. TestAfter(Append(up, "TS1"), test, Counted, Len(Append(up, "TS1")))
        BY <1>1, <1>2, <4>1, TestAppend
      <4> QED BY <1>2, <3>2, <4>2, TestAppend
    <3> QED BY <3>1, <3>4, <3>5
  <2>9. ASSUME NEW a, OnOtherAnswer(a)
        PROVE  UNCHANGED <<up, keyed, test, excused, phase>>
    BY <2>9 DEF OnOtherAnswer, io
  <2> QED BY <1>5, <1>9, <2>1, <2>2, <2>3, <2>4, <2>5, <2>6, <2>7, <2>8, <2>9, IoCases
<1> QED BY <1>6, <1>7, <1>8, <1>9 DEF Next

(* No TS0 or TS1 is in a queue that holds no change of TEST.               *)
LEMMA NoSettings ==
    ASSUME NEW s, ~Has(s, Settings)
    PROVE  ~Has(s, {"TS0"}) /\ ~Has(s, {"TS1"})
BY DEF Has, Settings

LEMMA AnswersStep == IInv /\ [Next]_vars => AnswersAreOwn'
<1> SUFFICES ASSUME IInv, [Next]_vars, toggles' = 0, ~excused'
             PROVE  AnswersAreOwn'
  BY DEF AnswersAreOwn
<1>1. /\ TypeOK /\ up \in Seq(Commands) /\ down \in Seq({"TS0", "TS1"})
      /\ Queried(up) /\ test \in BOOLEAN /\ original \in BOOLEAN
      /\ restoreTest \in BOOLEAN /\ excused \in BOOLEAN
  BY QueueTypes DEF IInv, ChangesAreQueried, TypeOK
<1>2. {"TS", "TS0", "TS1", "TX", "RX", "tone"} \subseteq Commands
  BY DEF Commands
<1>0. toggles = 0
  <2>0. TestPressed \/ toggles' = toggles
    BY DEF vars, Next, UiThread, IoThread, AudioThread,
       radio, Start, Cancel, CancelNow, OnUnprepared, OnPrepared,
       OnKeyRequested, OnFinished, KeyGuardElapsed, UiIgnores, TakePrepare,
       TakePrepareFails, TakeBeginTone, TakeStop, Pace, K4, TestPressed,
       TakeAcknowledge, TakeBegin, TakeCancel, TakeTone, OnAnswer, Deadline,
       GuardCalibrates, GuardTrips, ConnectionLost, Reconnected, Finish,
       RestoreExpires, OnTestRead, OnTestEnabled, OnTestLost, OnTestRestored,
       OnOtherAnswer
  <2> QED BY <1>1, <2>0 DEF TestPressed, TypeOK
<1>3. ~Has(up, Queries) => ~Has(up, Settings) /\ ~Has(up, {"TS0"}) /\ ~Has(up, {"TS1"})
  BY <1>1, QueriedNone, NoSettings
<1>4. CASE UNCHANGED <<up, down, test, excused, phase, original, restoreTest>>
  BY <1>4, <1>0 DEF IInv, AnswersAreOwn, OneAnswerAwaited
<1>5. CASE UNCHANGED vars \/ UiThread \/ AudioThread
  BY <1>4, <1>5, OthersKeepRadio DEF vars, radio, io
<1>6. CASE TestPressed
  BY <1>1, <1>0, <1>6 DEF TestPressed
<1>7. CASE K4
  <2>1. UNCHANGED <<phase, excused, original, restoreTest>>
    BY <1>7 DEF K4, io
  <2>2. AnswersAreOwn /\ ~excused
    BY <2>1 DEF IInv
  <2>3. up # <<>> /\ up' = Tail(up) /\ Head(up) \in Commands
    BY <1>1, <1>7, K4Is
  <2>4. \A C : Has(up, C) <=> Head(up) \in C \/ Has(up', C)
    BY <1>1, <2>3, HasTail
  <2>5. AskedBehind(up) =>
            AskedBehind(up') /\ (Head(up) = "TS" => ~Has(up', {"TS1"}))
    BY <1>1, <2>3, BehindTail
  <2>6. AtMostOne(up, Queries) =>
            AtMostOne(up', Queries) /\ (Head(up) = "TS" => ~Has(up', Queries))
    BY <1>1, <2>3, OneTail DEF Queries
  <2>7. /\ Has(up, Settings) <=> Head(up) \in Settings \/ Has(up', Settings)
        /\ Has(up, Queries) <=> Head(up) = "TS" \/ Has(up', Queries)
        /\ Has(up, {"TS0"}) <=> Head(up) = "TS0" \/ Has(up', {"TS0"})
        /\ Has(up, {"TS1"}) <=> Head(up) = "TS1" \/ Has(up', {"TS1"})
    BY <2>4 DEF Queries
  <2>8. CASE Head(up) = "TS"
    <3>1. down' = Append(down, Reading(test)) /\ test' = test
      BY <1>1, <1>7, <2>8, K4Is DEF Settings
    <3>2. Reading(test) \in {"TS0", "TS1"}
      BY DEF Reading
    <3>3. Has(down', {"TS0"}) => Has(down, {"TS0"}) \/ ~test
      <4>1. Has(Append(down, Reading(test)), {"TS0"}) <=>
                Reading(test) \in {"TS0"} \/ Has(down, {"TS0"})
        BY <1>1, <3>2, HasAppend
      <4> QED BY <3>1, <4>1 DEF Reading
    <3>4. down = <<>> => down' = <<Reading(test)>>
      BY <3>1
    <3>5. OneAnswerAwaited => OneAnswerAwaited'
      BY <2>6, <2>7, <2>8, <3>1, <3>4 DEF OneAnswerAwaited
    <3> QED BY <1>0, <2>1, <2>2, <2>5, <2>7, <2>8, <3>1, <3>3, <3>5
        DEF AnswersAreOwn
  <2>9. CASE Head(up) # "TS"
    <3>1. down' = down
      BY <1>1, <1>7, <2>9, K4Is
    <3>2. CASE Head(up) \notin Settings
      <4>1. test' = test
        BY <1>1, <1>7, <3>2, K4Is
      <4>2. OneAnswerAwaited => OneAnswerAwaited'
        BY <2>6, <2>7, <3>1, <4>1 DEF OneAnswerAwaited
      <4> QED BY <1>0, <2>1, <2>2, <2>5, <2>7, <3>1, <4>1, <4>2
          DEF AnswersAreOwn
    <3>3. CASE Head(up) = "TS1"
      <4>1. test' \in {test, TRUE}
        BY <1>1, <1>7, <3>3, K4Is
      <4>2. Has(up, {"TS1"}) /\ Has(up, Settings) /\ Has(up, Queries)
        BY <1>3, <2>7, <3>3 DEF Settings
      <4>3. OneAnswerAwaited => OneAnswerAwaited'
        BY <2>6, <3>1, <4>2 DEF OneAnswerAwaited
      <4> QED BY <1>0, <1>1, <2>1, <2>2, <2>5, <2>7, <3>1, <4>1, <4>2, <4>3
          DEF AnswersAreOwn
    <3>4. CASE Head(up) = "TS0"
      <4>1. test' = FALSE
        BY <1>1, <1>7, <3>4, K4Is
      <4>2. Has(up, {"TS0"}) /\ Has(up, Settings) /\ Has(up, Queries)
        BY <1>3, <2>7, <3>4 DEF Settings
      <4> QED BY <1>0, <1>1, <2>1, <2>2, <2>5, <2>7, <3>1, <4>1, <4>2
          DEF AnswersAreOwn
    <3> QED BY <3>2, <3>3, <3>4 DEF Settings
  <2> QED BY <2>8, <2>9
<1>8. CASE IoThread
  <2>1. CASE Idle
    BY <1>4, <2>1 DEF Idle, radio
  <2>2. CASE Beginning
    <3>1. /\ up' = Append(up, "TS") /\ UNCHANGED <<test, down>> /\ ~AnswersToCome
          /\ phase' = "read" /\ original' = TestToCome /\ ~restoreTest'
      BY <1>1, <1>2, <2>2, UpIs DEF Beginning, TakeBegin, io
    <3>2. /\ down = <<>> /\ ~Has(up, Queries) /\ ~Has(up, Settings)
          /\ TestToCome = test
      BY <3>1, NothingToCome
    <3>3. Has(up', Settings) <=> "TS" \in Settings \/ Has(up, Settings)
      BY <1>1, <1>2, <3>1, HasAppend
    <3>4. AtMostOne(up', Queries)
      <4>1. AtMostOne(up, Queries)
        BY <3>2 DEF AtMostOne, Has
      <4> QED BY <1>1, <1>2, <3>1, <3>2, <4>1, OneAppend
    <3> QED BY <1>1, <3>1, <3>2, <3>3, <3>4
        DEF AnswersAreOwn, OneAnswerAwaited, Settings
  <2>3. CASE TakeTone
    <3>1. /\ up' = up \/ up' = Append(up, "tone")
          /\ UNCHANGED <<down, test, excused, phase, original, restoreTest>>
      BY <1>1, <1>2, <2>3, UpIs DEF TakeTone, io
    <3>2. CASE up' = Append(up, "tone")
      <4>1. \A C : Has(up', C) <=> "tone" \in C \/ Has(up, C)
        BY <1>1, <1>2, <3>2, HasAppend
      <4>2. /\ Has(up', Settings) <=> Has(up, Settings)
            /\ Has(up', Queries) <=> Has(up, Queries)
            /\ Has(up', {"TS0"}) <=> Has(up, {"TS0"})
            /\ Has(up', {"TS1"}) <=> Has(up, {"TS1"})
        BY <4>1 DEF Settings, Queries
      <4>3. AtMostOne(up, Queries) => AtMostOne(up', Queries)
        BY <1>1, <1>2, <3>2, OneAppend DEF Queries
      <4>4. AskedBehind(up) => AskedBehind(up')
        BY <1>1, <1>2, <3>2, BehindAppend
      <4>5. OneAnswerAwaited => OneAnswerAwaited'
        BY <3>1, <4>2, <4>3 DEF OneAnswerAwaited
      <4> QED BY <1>0, <3>1, <4>2, <4>4, <4>5 DEF IInv, AnswersAreOwn
    <3> QED BY <1>4, <3>1, <3>2
  <2>4. CASE ConnectionLost
    <3>1. up' = <<>> /\ down' = <<>> /\ test' = test /\ phase' = "none"
          /\ phase = "none" /\ UNCHANGED <<excused, original, restoreTest>>
      BY <2>4 DEF ConnectionLost, Complete
    <3>2. \A C : ~Has(<<>>, C)
      BY NothingHas
    <3> QED BY <1>0, <1>1, <3>1, <3>2 DEF IInv, AnswersAreOwn
  <2>5. CASE Keying
    <3>1. /\ up' = Append(up, "TX") /\ UNCHANGED <<test, excused, original, restoreTest>>
          /\ phase = "enable" /\ phase' = "running"
          /\ down # <<>> /\ Head(down) = "TS1" /\ down' = Tail(down)
      BY <1>1, <1>2, <2>5, UpIs DEF Keying, Answer
    <3>2. down = <<Reading(test)>> /\ ~Has(up, Queries)
          /\ restoreTest = ~original
      BY <1>0, <3>1 DEF IInv, AnswersAreOwn, OneAnswerAwaited
    <3>3. test /\ down' = <<>>
      BY <3>1, <3>2 DEF Reading
    <3>4. Has(up', Queries) <=> "TX" \in Queries \/ Has(up, Queries)
      BY <1>1, <1>2, <3>1, HasAppend
    <3> QED BY <3>1, <3>2, <3>3, <3>4 DEF AnswersAreOwn, Queries
  <2>6. ASSUME NEW well \in BOOLEAN, Ending(well)
        PROVE  AnswersAreOwn'
    <3>1. /\ Finish(well) /\ phase \in {"read", "enable", "running"}
          /\ down' = down \/ (down # <<>> /\ down' = Tail(down))
      BY <2>6 DEF Ending
    <3>2. UNCHANGED <<test, original, restoreTest>>
      BY <3>1 DEF Finish
    <3>3. /\ Append(up, "RX") \in Seq(Commands)
          /\ Append(Append(up, "RX"), "TS0") \in Seq(Commands)
          /\ excused' = excused
      BY <1>1, <3>1, ClosingIs
    <3>4. AnswersAreOwn /\ ~excused
      BY <3>3 DEF IInv
    <3>5. \A C : Has(Append(up, "RX"), C) <=> "RX" \in C \/ Has(up, C)
      BY <1>1, <1>2, HasAppend
    <3>6. Has(down', {"TS0"}) => Has(down, {"TS0"})
      BY <1>1, <3>1, HasTail
    <3>7. CASE ~restoreTest
      <4>1. phase' = "none" /\ up' = Append(up, "RX")
        BY <1>1, <3>1, <3>7, ClosingIs
      <4>2. IF original THEN test /\ ~Has(up, {"TS0"})
                        ELSE ~test /\ ~Has(up, {"TS1"})
        BY <1>0, <1>1, <1>3, <3>1, <3>4, <3>7, NoSettings DEF AnswersAreOwn
      <4>3. /\ Has(up', {"TS0"}) <=> Has(up, {"TS0"})
            /\ Has(up', {"TS1"}) <=> Has(up, {"TS1"})
        BY <3>5, <4>1
      <4> QED BY <3>2, <4>1, <4>2, <4>3 DEF AnswersAreOwn
    <3>8. CASE restoreTest
      <4>1. /\ phase' = "restore"
            /\ up' = Append(Append(Append(up, "RX"), "TS0"), "TS")
        BY <1>1, <3>1, <3>8, ClosingIs
      <4>2. /\ ~original /\ AskedBehind(up)
            /\ Has(down, {"TS0"}) => ~test /\ ~Has(up, {"TS1"})
        <5>1. CASE phase = "read"
          BY <1>0, <3>4, <3>8, <5>1 DEF AnswersAreOwn
        <5>2. CASE phase = "enable"
          <6>1. ~original /\ AskedBehind(up) /\ OneAnswerAwaited
            BY <1>0, <1>1, <3>4, <3>8, <5>2 DEF AnswersAreOwn
          <6>2. CASE down = <<>>
            BY <6>1, <6>2, NothingHas
          <6>3. CASE down = <<Reading(test)>> /\ ~Has(up, Queries)
            <7>1. Has(down, {"TS0"}) => ~test
              BY <6>3 DEF Has, Reading
            <7> QED BY <1>3, <6>1, <6>3, <7>1
          <6> QED BY <6>1, <6>2, <6>3 DEF OneAnswerAwaited
        <5>3. CASE phase = "running"
          BY <1>0, <1>1, <3>4, <3>8, <5>3, BehindNone, NothingHas DEF AnswersAreOwn
        <5> QED BY <3>1, <5>1, <5>2, <5>3
      <4>3. AskedBehind(Append(up, "RX"))
        BY <1>1, <1>2, <4>2, BehindAppend
      <4>4. AskedBehind(Append(Append(up, "RX"), "TS0"))
        BY <1>2, <3>3, <4>3, BehindAppend
      <4>5. AskedBehind(up')
        BY <1>2, <3>3, <4>1, <4>4, BehindAppend
      <4>6. Has(up', {"TS1"}) <=> Has(up, {"TS1"})
        <5>1. Has(Append(Append(up, "RX"), "TS0"), {"TS1"}) <=>
                  "TS0" \in {"TS1"} \/ Has(Append(up, "RX"), {"TS1"})
          BY <1>2, <3>3, HasAppend
        <5>2. Has(Append(Append(Append(up, "RX"), "TS0"), "TS"), {"TS1"}) <=>
                  "TS" \in {"TS1"} \/ Has(Append(Append(up, "RX"), "TS0"), {"TS1"})
          <6> DEFINE t == Append(Append(up, "RX"), "TS0")
          <6>1. "TS" \in Commands /\ t \in Seq(Commands)
            BY <1>2, <3>3
          <6> HIDE DEF t
          <6>2. Has(Append(t, "TS"), {"TS1"}) <=> "TS" \in {"TS1"} \/ Has(t, {"TS1"})
            BY <6>1, HasAppend
          <6> QED BY <6>2 DEF t
        <5> QED BY <3>5, <4>1, <5>1, <5>2
      <4> QED BY <3>2, <3>6, <4>1, <4>2, <4>5, <4>6 DEF AnswersAreOwn
    <3> QED BY <3>7, <3>8
  <2>7. CASE RestoreExpires
    BY <1>1, <2>7 DEF RestoreExpires, Complete
  <2>8. CASE OnTestRestored
    <3>1. /\ UNCHANGED <<up, test, original>> /\ excused' = excused
          /\ phase = "restore" /\ phase' = "none"
          /\ down # <<>> /\ Head(down) = "TS0"
      BY <1>1, <2>8 DEF OnTestRestored, Complete, Answer
    <3>2. Has(down, {"TS0"})
      BY <1>1, <3>1, HasTail
    <3> QED BY <1>0, <3>1, <3>2 DEF IInv, AnswersAreOwn
  <2>9. ASSUME NEW a \in {"TS0", "TS1"}, OnTestRead(a)
        PROVE  AnswersAreOwn'
    <3>1. /\ up' = Append(Append(up, "TS1"), "TS") /\ UNCHANGED <<test, excused, original>>
          /\ phase = "read" /\ phase' = "enable" /\ restoreTest' = (a = "TS0")
          /\ down # <<>> /\ Head(down) = a /\ down' = Tail(down)
      BY <1>1, <1>2, <2>9, UpIs DEF OnTestRead, Answer
    <3>2. /\ down = <<Reading(test)>> /\ ~Has(up, Queries) /\ test = original
          /\ ~Has(up, Settings)
      BY <1>0, <3>1 DEF IInv, AnswersAreOwn, OneAnswerAwaited
    <3>3. down' = <<>> /\ restoreTest' = ~original
      BY <1>1, <3>1, <3>2 DEF Reading
    <3>4. Append(up, "TS1") \in Seq(Commands)
      BY <1>1, <1>2, AppendIs
    <3>5. ~Has(Append(up, "TS1"), {"TS0"}) /\ ~Has(Append(up, "TS1"), Queries)
      <4>1. /\ Has(Append(up, "TS1"), {"TS0"}) <=> "TS1" \in {"TS0"} \/ Has(up, {"TS0"})
            /\ Has(Append(up, "TS1"), Queries) <=> "TS1" \in Queries \/ Has(up, Queries)
        BY <1>1, <1>2, HasAppend
      <4> QED BY <1>3, <3>2, <4>1 DEF Queries
    <3>6. ~Has(up', {"TS0"}) /\ AtMostOne(up', Queries)
      <4>1. Has(up', {"TS0"}) <=> "TS" \in {"TS0"} \/ Has(Append(up, "TS1"), {"TS0"})
        BY <1>2, <3>1, <3>4, HasAppend
      <4>2. AtMostOne(Append(up, "TS1"), Queries)
        BY <3>5 DEF AtMostOne, Has
      <4>3. AtMostOne(up', Queries)
        BY <1>2, <3>1, <3>4, <3>5, <4>2, OneAppend
      <4> QED BY <3>5, <4>1, <4>3
    <3>7. AskedBehind(up')
      BY <1>1, <3>1, <3>2, BehindNone
    <3> QED BY <3>1, <3>2, <3>3, <3>6, <3>7 DEF AnswersAreOwn, OneAnswerAwaited
  <2>10. ASSUME NEW a \in {"TS0", "TS1"}, OnOtherAnswer(a)
         PROVE  AnswersAreOwn'
    <3>1. /\ UNCHANGED <<up, test, excused, original, restoreTest, phase>>
          /\ down # <<>> /\ Head(down) = a /\ down' = Tail(down) /\ phase # "read"
      BY <2>10 DEF OnOtherAnswer, Answer, io
    <3>2. Has(down', {"TS0"}) => Has(down, {"TS0"})
      BY <1>1, <3>1, HasTail
    <3>3. AnswersAreOwn /\ ~excused
      BY <3>1 DEF IInv
    <3>4. phase = "enable" => OneAnswerAwaited'
      <4> SUFFICES ASSUME phase = "enable" PROVE OneAnswerAwaited'
        OBVIOUS
      <4>1. down = <<Reading(test)>> /\ ~Has(up, Queries)
        BY <1>0, <3>1, <3>3 DEF AnswersAreOwn, OneAnswerAwaited
      <4>2. down' = <<>>
        BY <3>1, <4>1
      <4> QED BY <3>1, <4>1, <4>2 DEF OneAnswerAwaited, Has, AtMostOne
    <3> QED BY <1>0, <3>1, <3>2, <3>3, <3>4 DEF AnswersAreOwn
  <2> QED BY <1>8, <2>1, <2>2, <2>3, <2>4, <2>5, <2>6, <2>7, <2>8, <2>9, <2>10, IoCases
<1> QED BY <1>5, <1>6, <1>7, <1>8 DEF Next

(***************************************************************************)
(* The threads                                                             *)
(***************************************************************************)
LEMMA GuardedStep == IInv /\ [Next]_vars => GuardedWhileRunning'
<1> SUFFICES ASSUME IInv, [Next]_vars PROVE GuardedWhileRunning'
  OBVIOUS
<1>1. TypeOK /\ up \in Seq(Commands) /\ GuardedWhileRunning
  BY QueueTypes DEF IInv
<1>2. {"TS", "TS0", "TS1", "TX", "RX", "tone"} \subseteq Commands
  BY DEF Commands
<1>3. CASE /\ UNCHANGED <<active, gateOpen, keyed, phase, calibrationGeneration>>
           /\ generation' \in {generation, 0}
           /\ TransmitsAfter(up', keyed', Len(up')) => TransmitsAfter(up, keyed, Len(up))
  BY <1>1, <1>3 DEF GuardedWhileRunning
<1>4. CASE UNCHANGED vars \/ UiThread \/ AudioThread \/ TestPressed
  <2>1. UNCHANGED <<active, gateOpen, keyed, phase, calibrationGeneration, up>>
    BY <1>4, OthersKeepRadio DEF vars, radio, io, TestPressed
  <2>2. generation' \in {generation, 0}
    BY <1>4 DEF vars, shared, TestPressed, UiThread, AudioThread, Start, Cancel,
       CancelNow, OnUnprepared, OnPrepared, OnKeyRequested, OnFinished, StopTone,
       Closed, KeyGuardElapsed, UiIgnores, TakePrepare, TakePrepareFails,
       TakeBeginTone, TakeStop, Pace
  <2> QED BY <1>3, <2>1, <2>2
<1>5. CASE K4
  <2>1. /\ UNCHANGED <<active, gateOpen, phase, calibrationGeneration, generation>>
        /\ up # <<>> /\ up' = Tail(up)
    BY <1>5 DEF K4, io, shared
  <2>2. ASSUME TransmitsAfter(up', keyed', Len(up'))
        PROVE  TransmitsAfter(up, keyed, Len(up))
    <3>1. /\ Len(up') \in 0..Len(up) - 1 /\ Len(up') + 1 = Len(up)
          /\ Len(up') \in Nat
      BY <1>1, <2>1, TailIs
    <3>2. keyed' => Head(up) \in {"TX"} \/ (keyed /\ Head(up) \notin {"RX"})
      BY <1>1, <1>5, K4Is
    <3>3. Holds(Tail(up), keyed', {"TX"}, {"RX"}, Len(up'))
      BY <2>1, <2>2 DEF TransmitsAfter
    <3>4. Holds(Tail(up), Head(up) \in {"TX"} \/ (keyed /\ Head(up) \notin {"RX"}),
                {"TX"}, {"RX"}, Len(up'))
      BY <3>1, <3>2, <3>3, HoldsMore
    <3>5. Holds(up, keyed, {"TX"}, {"RX"}, Len(up') + 1)
      BY <1>1, <2>1, <3>1, <3>4, HoldsBack
    <3> QED BY <3>1, <3>5 DEF TransmitsAfter
  <2> QED BY <1>1, <2>1, <2>2 DEF GuardedWhileRunning
<1>6. CASE IoThread
  <2>1. CASE Idle
    BY <1>3, <2>1 DEF Idle, radio
  <2>2. CASE Beginning
    <3>1. /\ up' = Append(up, "TS") /\ UNCHANGED <<generation, keyed, active, gateOpen>>
          /\ phase = "none"
      BY <1>1, <1>2, <2>2, UpIs DEF Beginning, TakeBegin, io, shared
    <3>2. ~TransmitsAfter(up', keyed', Len(up'))
      BY <1>1, <1>2, <3>1, TransmitsAppend, SilentUnlessRunning
    <3> QED BY <1>1, <3>1, <3>2 DEF GuardedWhileRunning
  <2>3. CASE TakeTone
    <3>1. /\ up' = up \/ up' = Append(up, "tone")
          /\ UNCHANGED <<keyed, active, gateOpen, phase, calibrationGeneration,
                         generation>>
      BY <1>1, <1>2, <2>3, UpIs DEF TakeTone, io, shared
    <3>2. TransmitsAfter(Append(up, "tone"), keyed, Len(Append(up, "tone"))) =>
              TransmitsAfter(up, keyed, Len(up))
      BY <1>1, <1>2, TransmitsAppend
    <3> QED BY <1>3, <3>1, <3>2
  <2>4. CASE ConnectionLost
    <3>1. /\ up' = <<>> /\ keyed' = FALSE /\ ~active' /\ ~gateOpen'
          /\ generation' = Closed(calibrationGeneration)
      BY <2>4 DEF ConnectionLost
    <3>2. ~Holds(<<>>, FALSE, {"TX"}, {"RX"}, 0) /\ Len(<<>>) = 0
      BY DEF Holds
    <3>3. ~TransmitsAfter(up', keyed', Len(up'))
      BY <3>1, <3>2 DEF TransmitsAfter
    <3>4. generation' = 0
      BY <1>1, <3>1 DEF GuardedWhileRunning, Closed
    <3> QED BY <3>1, <3>3, <3>4 DEF GuardedWhileRunning
  <2>5. CASE Keying
    BY <2>5 DEF Keying, GuardedWhileRunning
  <2>6. ASSUME NEW well \in BOOLEAN, Ending(well)
        PROVE  GuardedWhileRunning'
    <3>1. Finish(well)
      BY <2>6 DEF Ending
    <3>2. /\ ~active' /\ ~gateOpen' /\ keyed' = keyed
          /\ generation' = Closed(calibrationGeneration)
      BY <3>1 DEF Finish
    <3>3. generation' = 0
      BY <1>1, <3>2 DEF GuardedWhileRunning, Closed
    <3>4. /\ Append(up, "RX") \in Seq(Commands)
          /\ Append(Append(up, "RX"), "TS0") \in Seq(Commands)
      BY <1>1, <3>1, ClosingIs
    <3>5. ~TransmitsAfter(Append(up, "RX"), keyed, Len(Append(up, "RX")))
      BY <1>1, <1>2, TransmitsAppend
    <3>6. ~TransmitsAfter(Append(Append(up, "RX"), "TS0"), keyed,
                          Len(Append(Append(up, "RX"), "TS0")))
      <4> DEFINE t == Append(up, "RX")
      <4>1. "TS0" \in Commands /\ t \in Seq(Commands) /\ ~TransmitsAfter(t, keyed, Len(t))
        BY <1>2, <3>4, <3>5
      <4> HIDE DEF t
      <4>2. ~TransmitsAfter(Append(t, "TS0"), keyed, Len(Append(t, "TS0")))
        BY <4>1, TransmitsAppend
      <4> QED BY <4>2 DEF t
    <3>7. ~TransmitsAfter(Append(Append(Append(up, "RX"), "TS0"), "TS"), keyed,
                          Len(Append(Append(Append(up, "RX"), "TS0"), "TS")))
      BY <1>2, <3>4, <3>6, TransmitsAppend
    <3>8. ~TransmitsAfter(up', keyed', Len(up'))
      BY <1>1, <3>1, <3>2, <3>5, <3>7, ClosingIs
    <3> QED BY <3>2, <3>3, <3>8 DEF GuardedWhileRunning
  <2>7. CASE RestoreExpires \/ OnTestRestored
    <3>1. /\ UNCHANGED <<active, gateOpen, keyed, calibrationGeneration, up, generation>>
          /\ phase = "restore"
      BY <2>7 DEF RestoreExpires, OnTestRestored, radio, shared
    <3> QED BY <1>1, <3>1 DEF GuardedWhileRunning
  <2>8. ASSUME NEW a, OnTestRead(a) PROVE GuardedWhileRunning'
    <3>1. /\ up' = Append(Append(up, "TS1"), "TS") /\ phase = "read"
          /\ UNCHANGED <<active, gateOpen, keyed, generation>>
      BY <1>1, <1>2, <2>8, UpIs DEF OnTestRead, shared
    <3>2. Append(up, "TS1") \in Seq(Commands)
      BY <1>1, <1>2, AppendIs
    <3>3. ~TransmitsAfter(Append(up, "TS1"), keyed, Len(Append(up, "TS1")))
      BY <1>1, <1>2, <3>1, TransmitsAppend, SilentUnlessRunning
    <3>4. ~TransmitsAfter(up', keyed', Len(up'))
      BY <1>2, <3>1, <3>2, <3>3, TransmitsAppend
    <3> QED BY <1>1, <3>1, <3>4 DEF GuardedWhileRunning
  <2>9. ASSUME NEW a, OnOtherAnswer(a) PROVE GuardedWhileRunning'
    BY <1>1, <2>9 DEF OnOtherAnswer, io, shared, GuardedWhileRunning
  <2> QED BY <1>6, <2>1, <2>2, <2>3, <2>4, <2>5, <2>6, <2>7, <2>8, <2>9, IoCases
     DEF Waiting
<1> QED BY <1>4, <1>5, <1>6 DEF Next

(* A call posted behind the others, and the first one taken.               *)
LEMMA PostIs ==
    ASSUME NEW N, NEW q \in Seq(Posted(N)), NEW name \in N,
           NEW g \in GenerationOrNone, NEW C
    PROVE  /\ Has(q \o Call(name, g), C) <=>
                  [name |-> name, generation |-> g] \in C \/ Has(q, C)
           /\ AtMostOne(q, C)
              /\ ([name |-> name, generation |-> g] \in C => ~Has(q, C))
              => AtMostOne(q \o Call(name, g), C)
<1> DEFINE c == [name |-> name, generation |-> g]
<1>1. c \in Posted(N) /\ q \o Call(name, g) = Append(q, c)
  BY CallIs
<1> HIDE DEF c
<1>2. Has(Append(q, c), C) <=> c \in C \/ Has(q, C)
  BY <1>1, HasAppend
<1>3. AtMostOne(q, C) /\ (c \in C => ~Has(q, C)) => AtMostOne(Append(q, c), C)
  BY <1>1, OneAppend
<1> QED BY <1>1, <1>2, <1>3 DEF c

LEMMA TakeIs ==
    ASSUME NEW N, NEW q \in Seq(Posted(N)), NEW name, AtHead(q, name), NEW C
    PROVE  /\ Has(q, C) <=> Head(q) \in C \/ Has(Tail(q), C)
           /\ AtMostOne(q, C) => AtMostOne(Tail(q), C)
                                 /\ (Head(q) \in C => ~Has(Tail(q), C))
<1>1. q # <<>>
  BY TakenIs
<1> QED BY <1>1, HasTail, OneTail

LEMMA PostByName ==
    ASSUME NEW N, NEW q \in Seq(Posted(N)), NEW name \in N,
           NEW g \in GenerationOrNone, NEW M
    PROVE  /\ Has(q \o Call(name, g), Posted(M)) <=> name \in M \/ Has(q, Posted(M))
           /\ AtMostOne(q, Posted(M)) /\ (name \in M => ~Has(q, Posted(M)))
              => AtMostOne(q \o Call(name, g), Posted(M))
<1>1. [name |-> name, generation |-> g] \in Posted(M) <=> name \in M
  BY DEF Posted
<1> QED BY <1>1, PostIs

LEMMA TakeByName ==
    ASSUME NEW N, NEW q \in Seq(Posted(N)), NEW name, AtHead(q, name), NEW M
    PROVE  /\ Has(q, Posted(M)) <=> name \in M \/ Has(Tail(q), Posted(M))
           /\ AtMostOne(q, Posted(M)) =>
                  AtMostOne(Tail(q), Posted(M))
                  /\ (name \in M => ~Has(Tail(q), Posted(M)))
<1>1. Head(q) \in Posted(N) /\ Head(q).name = name
  BY TakenIs
<1>2. Head(q) \in Posted(M) <=> name \in M
  BY <1>1 DEF Posted
<1> QED BY <1>2, TakeIs

(* A calibration that ends is reported once.                               *)
LEMMA CompleteIs ==
    ASSUME TypeOK, NEW well \in BOOLEAN, NEW verify, Complete(well, verify),
           ~Has(toUi, Ends)
    PROVE  AtMostOne(toUi', Ends) /\ phase' = "none"
<1> DEFINE name == IF well THEN "succeeded" ELSE "failed"
<1>1. /\ name \in UiCalls /\ toUi' = toUi \o Call(name, calibrationGeneration)
      /\ toUi \in Seq(Posted(UiCalls)) /\ calibrationGeneration \in GenerationOrNone
  BY QueueTypes, GenerationTypes DEF Complete, UiCalls
<1> HIDE DEF name
<1>2. AtMostOne(toUi, Ends)
  BY DEF AtMostOne, Has
<1>3. AtMostOne(toUi \o Call(name, calibrationGeneration), Ends)
  BY <1>1, <1>2, PostByName DEF Ends
<1> QED BY <1>1, <1>3 DEF Complete

LEMMA CancelNowIs ==
    ASSUME TypeOK, CancelNow
    PROVE  /\ \A C : Has(toIo', C) => Has(toIo, C) \/ [name |-> "cancel", generation |-> 0] \in C
           /\ AtMostOne(toIo, Begins) => AtMostOne(toIo', Begins)
           /\ Has(toIo', Begins) => Has(toIo, Begins)
           /\ toAudio' = Append(toAudio, [name |-> "stop", generation |-> 0])
           /\ calibrating /\ calibrating' = started
           /\ UNCHANGED <<started, lastGeneration, prepared>> /\ toneActive' = FALSE
<1>1. "cancel" \in IoCalls /\ "cancel" \notin {"begin"}
  BY DEF IoCalls
<1>2. toIo \in Seq(Posted(IoCalls)) /\ 0 \in GenerationOrNone
  BY QueueTypes, GenerationTypes
<1>3. toIo' = toIo \o Call("cancel", 0) /\ StopTone
  BY DEF CancelNow
<1>4. \A C : Has(toIo \o Call("cancel", 0), C) =>
                  Has(toIo, C) \/ [name |-> "cancel", generation |-> 0] \in C
  BY <1>1, <1>2, PostIs
<1>5. /\ AtMostOne(toIo, Begins) => AtMostOne(toIo \o Call("cancel", 0), Begins)
      /\ Has(toIo \o Call("cancel", 0), Begins) => Has(toIo, Begins)
  BY <1>1, <1>2, PostByName DEF Begins
<1>6. toAudio' = Append(toAudio, [name |-> "stop", generation |-> 0])
  BY <1>3, StopToneType
<1> QED BY <1>3, <1>4, <1>5, <1>6 DEF CancelNow, StopTone, audio

LEMMA OneCalibrationStep == IInv /\ [Next]_vars => OneCalibration'
<1> SUFFICES ASSUME IInv, [Next]_vars PROVE OneCalibration'
  OBVIOUS
<1>1. /\ TypeOK /\ OneCalibration /\ OnePreparation
      /\ toIo \in Seq(Posted(IoCalls)) /\ toUi \in Seq(Posted(UiCalls))
      /\ \A g : Closed(g) \in GenerationOrNone
      /\ 0 \in GenerationOrNone /\ calibrationGeneration \in GenerationOrNone
      /\ toneGeneration \in GenerationOrNone /\ started \in BOOLEAN
  BY QueueTypes, GenerationTypes DEF IInv, TypeOK
<1>2. CASE /\ AtMostOne(toIo', Begins) /\ AtMostOne(toUi', Ends)
           /\ Has(toIo', Begins) => Has(toIo, Begins)
           /\ Has(toUi', Ends) => Has(toUi, Ends)
           /\ UNCHANGED <<phase, calibrating, started>>
  BY <1>1, <1>2 DEF OneCalibration
<1>3. CASE UNCHANGED <<toIo, toUi, phase, calibrating, started>>
  BY <1>1, <1>2, <1>3 DEF OneCalibration
<1>4. ASSUME NEW name, UiTakes(name)
      PROVE  /\ AtMostOne(toUi', Ends) /\ (Has(toUi', Ends) => Has(toUi, Ends))
             /\ name \in {"succeeded", "failed"} => Has(toUi, Ends) /\ ~Has(toUi', Ends)
  BY <1>1, <1>4, TakeByName DEF UiTakes, Ends, OneCalibration
<1>5. ASSUME NEW name, IoTakes(name)
      PROVE  /\ AtMostOne(toIo', Begins) /\ (Has(toIo', Begins) => Has(toIo, Begins))
             /\ name = "begin" => Has(toIo, Begins) /\ ~Has(toIo', Begins)
  BY <1>1, <1>5, TakeByName DEF IoTakes, Begins, OneCalibration
<1>6. CASE UiThread
  <2>0. phase' = phase
    BY <1>6, OthersKeepRadio DEF io
  <2>1. CASE Start
    <3>1. "acknowledge" \in IoCalls /\ "acknowledge" \notin {"begin"}
      BY DEF IoCalls
    <3>2. toIo' = toIo \o Call("acknowledge", 0) /\ toUi' = toUi /\ ~calibrating
      BY <2>1 DEF Start
    <3>3. /\ Has(toIo \o Call("acknowledge", 0), Begins) => Has(toIo, Begins)
          /\ AtMostOne(toIo, Begins) => AtMostOne(toIo \o Call("acknowledge", 0), Begins)
      BY <1>1, <3>1, PostByName DEF Begins
    <3> QED BY <1>1, <2>0, <3>2, <3>3 DEF OneCalibration
  <2>2. ASSUME CancelNow, AtMostOne(toUi', Ends), Has(toUi', Ends) => Has(toUi, Ends)
        PROVE  OneCalibration'
    BY <1>1, <2>0, <2>2, CancelNowIs DEF OneCalibration
  <2>3. CASE Cancel
    BY <1>1, <2>2, <2>3 DEF Cancel, OneCalibration
  <2>4. ASSUME UiIgnores, AtMostOne(toUi', Ends), Has(toUi', Ends) => Has(toUi, Ends)
        PROVE  OneCalibration'
    BY <1>1, <1>2, <2>4 DEF UiIgnores, ui, io, OneCalibration
  <2>5. CASE OnUnprepared
    BY <1>4, <2>2, <2>4, <2>5 DEF OnUnprepared
  <2>6. CASE OnPrepared
    <3> DEFINE g == Head(toUi).generation
    <3>1. UiTakes("prepared") /\ Head(toUi) \in Posted(UiCalls)
          /\ Head(toUi).name = "prepared" /\ g \in GenerationOrNone
      BY <1>1, <2>6, TakenIs DEF OnPrepared, UiTakes
    <3>2. CASE ~Mine(g)
      BY <1>4, <2>4, <2>6, <3>1, <3>2 DEF OnPrepared
    <3>3. CASE Mine(g)
      <4>1. Head(toUi) \in Replies /\ calibrating
        BY <3>1, <3>3 DEF Replies, Posted, Mine
      <4>2. Has(toUi, Replies)
        BY <1>1, <3>1, <4>1, TakeIs DEF UiTakes
      <4>3. ~started
        BY <1>1, <4>1, <4>2 DEF OnePreparation
      <4>4. ~Has(toIo, Begins) /\ ~Has(toUi, Ends) /\ phase = "none"
        BY <1>1, <4>3 DEF OneCalibration
      <4>5. started' /\ calibrating' /\ toIo' = toIo \o Call("begin", g)
        BY <2>6, <3>3, <4>1 DEF OnPrepared
      <4>6. "begin" \in IoCalls
        BY DEF IoCalls
      <4>7. AtMostOne(toIo \o Call("begin", g), Begins)
        BY <1>1, <3>1, <4>4, <4>6, PostByName DEF Begins, OneCalibration
      <4> QED BY <1>4, <2>0, <3>1, <4>4, <4>5, <4>7 DEF OneCalibration
    <3> QED BY <3>2, <3>3
  <2>7. CASE OnKeyRequested
    BY <1>1, <1>2, <1>4, <2>0, <2>7 DEF OnKeyRequested, OneCalibration
  <2>8. CASE OnFinished
    <3>1. Has(toUi, Ends) /\ ~Has(toUi', Ends) /\ AtMostOne(toUi', Ends)
      BY <1>4, <2>8 DEF OnFinished
    <3>2. CASE UiIgnores
      BY <2>4, <3>1, <3>2
    <3>3. CASE toIo' = toIo
      BY <1>1, <2>0, <3>1, <3>3 DEF OneCalibration
    <3> QED BY <2>8, <3>2, <3>3 DEF OnFinished
  <2>9. ASSUME NEW g \in Generations, KeyGuardElapsed(g) PROVE OneCalibration'
    BY <1>3, <2>0, <2>9 DEF KeyGuardElapsed
  <2> QED BY <1>6, <2>1, <2>3, <2>5, <2>6, <2>7, <2>8, <2>9 DEF UiThread
<1>7. CASE AudioThread
  <2>1. UNCHANGED <<phase, calibrating, started>>
    BY <1>7 DEF AudioThread, TakePrepare, TakePrepareFails, TakeBeginTone, TakeStop,
                Pace, ui, io
  <2>2. ASSUME AtHead(toAudio, "prepare"), NEW name \in {"prepared", "unprepared"},
               toUi' = toUi \o Call(name, Head(toAudio).generation), toIo' = toIo
        PROVE  OneCalibration'
    <3>1. Head(toAudio).generation \in GenerationOrNone /\ name \in UiCalls
          /\ name \notin {"succeeded", "failed"}
      BY <1>1, <2>2, QueueTypes, TakenIs DEF UiCalls
    <3>2. /\ Has(toUi', Ends) => Has(toUi, Ends)
          /\ AtMostOne(toUi, Ends) => AtMostOne(toUi', Ends)
      BY <1>1, <2>2, <3>1, PostByName DEF Ends
    <3> QED BY <1>1, <1>2, <2>1, <2>2, <3>2 DEF OneCalibration
  <2>3. CASE TakePrepare \/ TakePrepareFails
    BY <2>2, <2>3 DEF TakePrepare, TakePrepareFails, AudioTakes
  <2>4. CASE TakeBeginTone \/ TakeStop
    BY <1>3, <2>1, <2>4 DEF TakeBeginTone, TakeStop
  <2>5. CASE Pace
    <3>1. "tone" \in IoCalls /\ "tone" \notin {"begin"}
      BY DEF IoCalls
    <3>2. /\ Has(toIo \o Call("tone", toneGeneration), Begins) => Has(toIo, Begins)
          /\ AtMostOne(toIo, Begins) =>
                 AtMostOne(toIo \o Call("tone", toneGeneration), Begins)
      BY <1>1, <3>1, PostByName DEF Begins
    <3>3. toUi' = toUi /\ (toIo' = toIo \/ toIo' = toIo \o Call("tone", toneGeneration))
      BY <2>5 DEF Pace
    <3> QED BY <1>1, <1>2, <2>1, <3>2, <3>3 DEF OneCalibration
  <2> QED BY <1>7, <2>3, <2>4, <2>5 DEF AudioThread
<1>8. CASE K4 \/ TestPressed \/ UNCHANGED vars
  BY <1>3, <1>8 DEF K4, TestPressed, vars, queues, ui, io
<1>9. CASE IoThread
  <2>0. UNCHANGED <<calibrating, started>>
    BY <1>9 DEF IoThread, TakeAcknowledge, TakeBegin, TakeCancel, TakeTone, OnAnswer,
       Deadline, GuardCalibrates, GuardTrips, ConnectionLost, Reconnected, Untouched, ui
  <2>1. CASE Idle
    <3>1. phase' = phase
      BY <2>1 DEF Idle
    <3>2. CASE IoTakes("begin") /\ toUi' = toUi \o Call("failed", Head(toIo).generation)
      <4>1. Has(toIo, Begins) /\ ~Has(toIo', Begins) /\ AtMostOne(toIo', Begins)
        BY <1>5, <3>2
      <4>2. /\ Head(toIo).generation \in GenerationOrNone
            /\ "failed" \in UiCalls
        BY <1>1, <3>2, TakenIs DEF IoTakes, UiCalls
      <4>3. ~Has(toUi, Ends) /\ AtMostOne(toUi, Ends)
        BY <1>1, <4>1 DEF OneCalibration
      <4>4. AtMostOne(toUi', Ends)
        BY <1>1, <3>2, <4>2, <4>3, PostByName DEF Ends
      <4> QED BY <1>1, <2>0, <3>1, <4>1, <4>4 DEF OneCalibration
    <3>3. CASE toUi' = toUi /\ (toIo' = toIo \/ IoTakes("cancel") \/ IoTakes("acknowledge"))
      BY <1>1, <1>2, <1>5, <2>0, <3>1, <3>3 DEF OneCalibration
    <3> QED BY <2>1, <3>2, <3>3 DEF Idle
  <2>2. CASE Beginning
    <3>1. IoTakes("begin") /\ toUi' = toUi
      BY <2>2 DEF Beginning, TakeBegin, io
    <3> QED BY <1>1, <1>5, <2>0, <3>1 DEF OneCalibration
  <2>3. CASE TakeTone
    BY <1>1, <1>2, <1>5, <2>0, <2>3 DEF TakeTone, io, OneCalibration
  <2>4. ASSUME NEW well \in BOOLEAN, NEW verify, Complete(well, verify),
               phase # "none", toIo' = toIo \/ IoTakes("cancel")
        PROVE  OneCalibration'
    <3>1. /\ ~Has(toUi, Ends) /\ ~Has(toIo, Begins) /\ calibrating /\ started
      BY <1>1, <2>4 DEF OneCalibration
    <3>2. AtMostOne(toUi', Ends) /\ phase' = "none"
      BY <1>1, <2>4, <3>1, CompleteIs
    <3> QED BY <1>1, <1>5, <2>0, <2>4, <3>1, <3>2 DEF OneCalibration
  <2>5. CASE ConnectionLost
    <3>1. toIo' = toIo
      BY <2>5 DEF ConnectionLost
    <3>2. CASE phase = "none"
      BY <1>3, <2>0, <2>5, <3>1, <3>2 DEF ConnectionLost
    <3>3. CASE phase # "none"
      BY <2>4, <2>5, <3>1, <3>3 DEF ConnectionLost
    <3> QED BY <3>2, <3>3
  <2>6. CASE Keying
    <3>1. "keyRequested" \in UiCalls /\ "keyRequested" \notin {"succeeded", "failed"}
      BY DEF UiCalls
    <3>2. /\ Has(toUi \o Call("keyRequested", calibrationGeneration), Ends) =>
                 Has(toUi, Ends)
          /\ AtMostOne(toUi, Ends) =>
                 AtMostOne(toUi \o Call("keyRequested", calibrationGeneration), Ends)
      BY <1>1, <3>1, PostByName DEF Ends
    <3> QED BY <1>1, <2>0, <2>6, <3>2 DEF Keying, OneCalibration
  <2>7. ASSUME NEW well \in BOOLEAN, Ending(well) PROVE OneCalibration'
    <3>1. CASE restoreTest
      <4>1. toUi' = toUi /\ phase' = "restore" /\ phase # "none"
            /\ (toIo' = toIo \/ IoTakes("cancel"))
        BY <2>7, <3>1 DEF Ending, Finish
      <4> QED BY <1>1, <1>5, <2>0, <4>1 DEF OneCalibration
    <3>2. CASE ~restoreTest
      BY <2>4, <2>7, <3>2 DEF Ending, Finish
    <3> QED BY <3>1, <3>2
  <2>8. CASE UNCHANGED toIo /\ (RestoreExpires \/ OnTestRestored)
    BY <1>1, <2>4, <2>8 DEF RestoreExpires, OnTestRestored, TypeOK
  <2>9. ASSUME NEW a, UNCHANGED toIo, OnTestRead(a) \/ OnOtherAnswer(a)
        PROVE  OneCalibration'
    BY <1>1, <2>0, <2>9 DEF OnTestRead, OnOtherAnswer, io, OneCalibration
  <2> QED BY <1>9, <2>1, <2>2, <2>3, <2>5, <2>6, <2>7, <2>8, <2>9, IoCases DEF Waiting
<1> QED BY <1>6, <1>7, <1>8, <1>9 DEF Next

(* The request to stop the tone is behind what the audio thread has to do. *)
LEMMA StopIs ==
    ASSUME TypeOK, StopTone
    PROVE  /\ \A C : Has(toAudio', C) <=>
                         [name |-> "stop", generation |-> 0] \in C \/ Has(toAudio, C)
           /\ AtMostOne(toAudio, Asks) => AtMostOne(toAudio', Asks)
           /\ Has(toAudio', Asks) => Has(toAudio, Asks)
           /\ Has(toAudio', Later({"prepare"})) => Has(toAudio, Later({"prepare"}))
           /\ \A on : Holds(toAudio', on, Posted({"stop"}), Posted({"prepare"}),
                            Len(toAudio'))
<1> DEFINE c == [name |-> "stop", generation |-> 0]
<1>1. /\ c \in Posted(AudioCalls) /\ c \in Posted({"stop"}) /\ c \notin Asks
      /\ c \notin Later({"prepare"})
  BY GenerationTypes DEF Posted, AudioCalls, Asks, Later
<1>2. toAudio' = Append(toAudio, c) /\ toAudio \in Seq(Posted(AudioCalls))
  BY StopToneType, QueueTypes
<1> HIDE DEF c
<1>3. \A C : Has(Append(toAudio, c), C) <=> c \in C \/ Has(toAudio, C)
  BY <1>1, <1>2, HasAppend
<1>4. AtMostOne(toAudio, Asks) => AtMostOne(Append(toAudio, c), Asks)
  BY <1>1, <1>2, OneAppend
<1>5. ASSUME NEW on
      PROVE  Holds(Append(toAudio, c), on, Posted({"stop"}), Posted({"prepare"}),
                   Len(Append(toAudio, c)))
  <2>1. Len(Append(toAudio, c)) = Len(toAudio) + 1
    BY <1>1, <1>2, AppendIs
  <2>2. Holds(Append(toAudio, c), on, Posted({"stop"}), Posted({"prepare"}),
              Len(toAudio) + 1)
    BY <1>1, <1>2, HoldsAppend
  <2> QED BY <2>1, <2>2
<1>6. \A C : Has(toAudio', C) <=> c \in C \/ Has(toAudio, C)
  BY <1>2, <1>3
<1>7. /\ Has(toAudio', Asks) => Has(toAudio, Asks)
      /\ Has(toAudio', Later({"prepare"})) => Has(toAudio, Later({"prepare"}))
  BY <1>1, <1>6
<1> QED BY <1>2, <1>4, <1>5, <1>6, <1>7 DEF c

LEMMA OnePreparationStep == IInv /\ [Next]_vars => OnePreparation'
<1> SUFFICES ASSUME IInv, [Next]_vars PROVE OnePreparation'
  OBVIOUS
<1> DEFINE LaterAsks == Later({"prepare"})
           LaterReplies == Later({"prepared", "unprepared"})
<1>1. /\ TypeOK /\ OnePreparation
      /\ toAudio \in Seq(Posted(AudioCalls)) /\ toUi \in Seq(Posted(UiCalls))
      /\ 0 \in GenerationOrNone /\ calibrationGeneration \in GenerationOrNone
      /\ lastGeneration \in GenerationOrNone
  BY QueueTypes, GenerationTypes DEF IInv
<1>2. /\ AtMostOne(toAudio, Asks) /\ AtMostOne(toUi, Replies)
      /\ Has(toAudio, Asks) => ~Has(toUi, Replies)
      /\ Has(toAudio, Asks) \/ Has(toUi, Replies) => ~calibrating \/ ~started
      /\ ~Has(toAudio, LaterAsks) /\ ~Has(toUi, LaterReplies)
  BY <1>1 DEF OnePreparation
<1>3. ASSUME lastGeneration' = lastGeneration
      PROVE  /\ Asks' = Asks /\ Replies' = Replies
             /\ \A names : Later(names)' = Later(names)
  BY <1>3 DEF Asks, Replies, Later
<1>4. ASSUME lastGeneration' = lastGeneration,
             AtMostOne(toAudio', Asks), AtMostOne(toUi', Replies),
             Has(toAudio', Asks) => Has(toAudio, Asks),
             Has(toUi', Replies) => Has(toUi, Replies),
             Has(toAudio', LaterAsks) => Has(toAudio, LaterAsks),
             Has(toUi', LaterReplies) => Has(toUi, LaterReplies),
             Has(toAudio, Asks) \/ Has(toUi, Replies) => ~calibrating' \/ ~started'
      PROVE  OnePreparation'
  <2>1. /\ AtMostOne(toAudio', Asks) /\ AtMostOne(toUi', Replies)
        /\ Has(toAudio', Asks) => ~Has(toUi', Replies)
        /\ Has(toAudio', Asks) \/ Has(toUi', Replies) => ~calibrating' \/ ~started'
        /\ ~Has(toAudio', LaterAsks) /\ ~Has(toUi', LaterReplies)
    BY <1>2, <1>4
  <2>2. Asks' = Asks /\ Replies' = Replies /\ LaterAsks' = LaterAsks
        /\ LaterReplies' = LaterReplies
    BY <1>3, <1>4
  <2> QED BY <2>1, <2>2 DEF OnePreparation
<1>5. ASSUME UNCHANGED <<toAudio, toUi, lastGeneration, calibrating, started>>
      PROVE  OnePreparation'
  BY <1>2, <1>4, <1>5
<1>6. ASSUME NEW name, UiTakes(name)
      PROVE  /\ AtMostOne(toUi', Replies) /\ (Has(toUi', Replies) => Has(toUi, Replies))
             /\ Has(toUi', LaterReplies) => Has(toUi, LaterReplies)
             /\ Head(toUi) \in Replies => Has(toUi, Replies) /\ ~Has(toUi', Replies)
             /\ Head(toUi) \in Posted(UiCalls) /\ Head(toUi).name = name
  BY <1>1, <1>2, <1>6, TakeIs, TakenIs DEF UiTakes
<1>7. ASSUME NEW name, AudioTakes(name)
      PROVE  /\ AtMostOne(toAudio', Asks) /\ (Has(toAudio', Asks) => Has(toAudio, Asks))
             /\ Has(toAudio', LaterAsks) => Has(toAudio, LaterAsks)
             /\ Head(toAudio) \in Asks => Has(toAudio, Asks) /\ ~Has(toAudio', Asks)
             /\ Head(toAudio) \in LaterAsks => Has(toAudio, LaterAsks)
             /\ Head(toAudio) \in Posted(AudioCalls) /\ Head(toAudio).name = name
  BY <1>1, <1>2, <1>7, TakeIs, TakenIs DEF AudioTakes
<1>8. CASE UiThread
  <2>1. CASE Start
    <3> DEFINE g == lastGeneration + 1
    <3>1. /\ lastGeneration' = g /\ g \in GenerationOrNone /\ ~started'
          /\ toAudio' = toAudio \o Call("prepare", g) /\ toUi' = toUi
      BY <1>1, <2>1, GenerationTypes DEF Start
    <3>2. /\ Asks' = [name : {"prepare"}, generation : {g}]
          /\ Replies' = [name : {"prepared", "unprepared"}, generation : {g}]
      BY <3>1 DEF Asks, Replies
    <3>3. /\ Asks' \subseteq LaterAsks /\ Replies' \subseteq LaterReplies
          /\ LaterAsks' \subseteq LaterAsks /\ LaterReplies' \subseteq LaterReplies
      <4>1. lastGeneration \in Nat /\ g > lastGeneration /\ GenerationOrNone \subseteq Nat
        BY <1>1 DEF GenerationOrNone
      <4>2. Asks' \subseteq LaterAsks /\ Replies' \subseteq LaterReplies
        BY <3>1, <3>2, <4>1 DEF Later, Posted
      <4>3. LaterAsks' \subseteq LaterAsks /\ LaterReplies' \subseteq LaterReplies
        <5>1. ASSUME NEW names, NEW c \in Later(names)' PROVE c \in Later(names)
          <6>1. c \in Posted(names) /\ c.generation > g
            BY <3>1, <5>1 DEF Later, Posted
          <6>2. c.generation \in Nat
            BY <4>1, <6>1 DEF Posted
          <6> QED BY <4>1, <6>1, <6>2 DEF Later
        <5> QED BY <5>1
      <4> QED BY <4>2, <4>3
    <3>4. /\ ~Has(toAudio, Asks') /\ ~Has(toAudio, LaterAsks')
          /\ ~Has(toUi, Replies') /\ ~Has(toUi, LaterReplies')
      BY <1>2, <3>3, HasMore
    <3>5. AtMostOne(toAudio, Asks') /\ AtMostOne(toUi, Replies')
      BY <3>4 DEF AtMostOne, Has
    <3>6. /\ "prepare" \in AudioCalls
          /\ [name |-> "prepare", generation |-> g] \notin LaterAsks'
      <4>1. ~(g > g)
        BY <3>1 DEF GenerationOrNone
      <4> QED BY <3>1, <4>1 DEF AudioCalls, Later
    <3>7. /\ AtMostOne(toAudio \o Call("prepare", g), Asks')
          /\ ~Has(toAudio \o Call("prepare", g), LaterAsks')
      BY <1>1, <3>1, <3>4, <3>5, <3>6, PostIs
    <3>8. /\ AtMostOne(toAudio', Asks') /\ AtMostOne(toUi', Replies')
          /\ ~Has(toUi', Replies') /\ ~Has(toUi', LaterReplies')
          /\ ~Has(toAudio', LaterAsks')
      BY <3>1, <3>4, <3>5, <3>7
    <3> QED BY <3>1, <3>8 DEF OnePreparation
  <2>2. ASSUME CancelNow, AtMostOne(toUi', Replies),
               Has(toUi', Replies) => Has(toUi, Replies),
               Has(toUi', LaterReplies) => Has(toUi, LaterReplies)
        PROVE  OnePreparation'
    <3>1. /\ StopTone /\ calibrating /\ calibrating' = started
          /\ UNCHANGED <<started, lastGeneration>>
      BY <2>2 DEF CancelNow
    <3>2. /\ AtMostOne(toAudio', Asks) /\ (Has(toAudio', Asks) => Has(toAudio, Asks))
          /\ Has(toAudio', LaterAsks) => Has(toAudio, LaterAsks)
      BY <1>1, <1>2, <3>1, StopIs
    <3>3. Has(toAudio, Asks) \/ Has(toUi, Replies) => ~calibrating' \/ ~started'
      BY <1>2, <3>1
    <3> QED BY <1>4, <2>2, <3>1, <3>2, <3>3
  <2>3. CASE Cancel
    BY <1>2, <2>2, <2>3 DEF Cancel
  <2>4. ASSUME UiIgnores, NEW name, UiTakes(name)
        PROVE  OnePreparation'
    <3>1. UNCHANGED <<toAudio, lastGeneration, calibrating, started>>
      BY <2>4 DEF UiIgnores, ui
    <3> QED BY <1>2, <1>4, <1>6, <2>4, <3>1
  <2>5. CASE OnUnprepared
    <3>1. UiTakes("unprepared")
      BY <2>5 DEF OnUnprepared
    <3>2. CASE CancelNow
      BY <1>6, <2>2, <3>1, <3>2
    <3> QED BY <2>4, <2>5, <3>1, <3>2 DEF OnUnprepared
  <2>6. CASE OnPrepared
    <3>1. UiTakes("prepared")
      BY <2>6 DEF OnPrepared
    <3>2. CASE UiIgnores
      BY <2>4, <3>1, <3>2
    <3>3. CASE Mine(Head(toUi).generation) /\ ~UiIgnores
      <4>1. UNCHANGED <<toAudio, lastGeneration>>
        BY <2>6, <3>3 DEF OnPrepared
      <4>2. Head(toUi) \in Replies
        BY <1>6, <3>1, <3>3 DEF Replies, Posted, Mine
      <4>3. Has(toUi, Replies) /\ ~Has(toUi', Replies) /\ ~Has(toAudio, Asks)
        BY <1>2, <1>6, <3>1, <4>2
      <4>4. AtMostOne(toUi', Replies) /\ ~Has(toUi', LaterReplies)
        BY <1>2, <1>6, <3>1
      <4>5. /\ AtMostOne(toAudio', Asks) /\ ~Has(toAudio', Asks)
            /\ ~Has(toAudio', LaterAsks)
        BY <1>2, <4>1, <4>3
      <4>6. Asks' = Asks /\ Replies' = Replies /\ LaterAsks' = LaterAsks
            /\ LaterReplies' = LaterReplies
        BY <1>3, <4>1
      <4> QED BY <4>3, <4>4, <4>5, <4>6 DEF OnePreparation
    <3> QED BY <2>6, <3>2, <3>3 DEF OnPrepared
  <2>7. CASE OnKeyRequested
    <3>1. /\ UiTakes("keyRequested")
          /\ UNCHANGED <<toAudio, lastGeneration, calibrating, started>>
      BY <2>7 DEF OnKeyRequested
    <3> QED BY <1>2, <1>4, <1>6, <3>1
  <2>8. CASE OnFinished
    <3>1. PICK name \in {"succeeded", "failed"} : UiTakes(name)
      BY <2>8 DEF OnFinished
    <3>2. CASE UiIgnores
      BY <2>4, <3>1, <3>2
    <3>3. CASE StopTone /\ calibrating' = FALSE /\ lastGeneration' = lastGeneration
      <4>1. /\ AtMostOne(toAudio', Asks) /\ (Has(toAudio', Asks) => Has(toAudio, Asks))
            /\ Has(toAudio', LaterAsks) => Has(toAudio, LaterAsks)
        BY <1>1, <1>2, <3>3, StopIs
      <4> QED BY <1>4, <1>6, <3>1, <3>3, <4>1
    <3> QED BY <2>8, <3>2, <3>3 DEF OnFinished
  <2>9. ASSUME NEW g \in Generations, KeyGuardElapsed(g)
        PROVE  OnePreparation'
    <3>1. /\ UNCHANGED <<toUi, lastGeneration, calibrating, started>>
          /\ toAudio' = toAudio \/ toAudio' = toAudio \o Call("beginTone", g)
      BY <2>9 DEF KeyGuardElapsed
    <3>2. CASE toAudio' = toAudio
      BY <1>5, <3>1, <3>2
    <3>3. CASE toAudio' = toAudio \o Call("beginTone", g)
      <4>1. /\ "beginTone" \in AudioCalls /\ g \in GenerationOrNone
            /\ [name |-> "beginTone", generation |-> g] \notin Asks
            /\ [name |-> "beginTone", generation |-> g] \notin LaterAsks
        BY <1>1, GenerationTypes DEF AudioCalls, Asks, Later, Posted
      <4>2. /\ AtMostOne(toAudio', Asks) /\ (Has(toAudio', Asks) => Has(toAudio, Asks))
            /\ Has(toAudio', LaterAsks) => Has(toAudio, LaterAsks)
        BY <1>1, <1>2, <3>3, <4>1, PostIs
      <4> QED BY <1>2, <1>4, <3>1, <4>2
    <3> QED BY <3>1, <3>2, <3>3
  <2> QED BY <1>8, <2>1, <2>3, <2>5, <2>6, <2>7, <2>8, <2>9 DEF UiThread
<1>9. CASE AudioThread
  <2>1. UNCHANGED <<lastGeneration, calibrating, started>>
    BY <1>9 DEF AudioThread, TakePrepare, TakePrepareFails, TakeBeginTone, TakeStop,
                Pace, ui
  <2>2. ASSUME NEW name \in {"prepared", "unprepared"}, AudioTakes("prepare"),
               toUi' = toUi \o Call(name, Head(toAudio).generation)
        PROVE  OnePreparation'
    <3> DEFINE g == Head(toAudio).generation
               c == [name |-> name, generation |-> g]
    <3>1. /\ g \in GenerationOrNone /\ name \in UiCalls
          /\ Head(toAudio) = [name |-> "prepare", generation |-> g]
      BY <1>7, <2>2 DEF Posted, UiCalls
    <3>2. /\ c \in Replies => Head(toAudio) \in Asks
          /\ c \in LaterReplies => Head(toAudio) \in LaterAsks
      BY <3>1 DEF Replies, Asks, Later, Posted
    <3>3. c \notin LaterReplies
      BY <1>2, <1>7, <2>2, <3>2
    <3>4. c \in Replies => ~Has(toUi, Replies) /\ ~Has(toAudio', Asks)
                           /\ (~calibrating \/ ~started)
      BY <1>2, <1>7, <2>2, <3>2
    <3>5. /\ Has(toUi \o Call(name, g), Replies) <=> c \in Replies \/ Has(toUi, Replies)
          /\ AtMostOne(toUi \o Call(name, g), Replies)
          /\ Has(toUi \o Call(name, g), LaterReplies) <=>
                 c \in LaterReplies \/ Has(toUi, LaterReplies)
      BY <1>1, <1>2, <3>1, <3>4, PostIs
    <3>6. /\ AtMostOne(toAudio', Asks) /\ AtMostOne(toUi', Replies)
          /\ Has(toAudio', Asks) => ~Has(toUi', Replies)
          /\ Has(toAudio', Asks) \/ Has(toUi', Replies) => ~calibrating' \/ ~started'
          /\ ~Has(toAudio', LaterAsks) /\ ~Has(toUi', LaterReplies)
      BY <1>2, <1>7, <2>1, <2>2, <3>3, <3>4, <3>5
    <3>7. Asks' = Asks /\ Replies' = Replies /\ LaterAsks' = LaterAsks
          /\ LaterReplies' = LaterReplies
      BY <1>3, <2>1
    <3> QED BY <3>6, <3>7 DEF OnePreparation
  <2>3. CASE TakePrepare \/ TakePrepareFails
    BY <2>2, <2>3 DEF TakePrepare, TakePrepareFails
  <2>4. CASE TakeBeginTone \/ TakeStop
    <3>1. PICK name \in {"beginTone", "stop"} : AudioTakes(name) /\ toUi' = toUi
      BY <2>4 DEF TakeBeginTone, TakeStop
    <3> QED BY <1>2, <1>4, <1>7, <2>1, <3>1
  <2>5. CASE Pace
    BY <1>5, <2>1, <2>5 DEF Pace
  <2> QED BY <1>9, <2>3, <2>4, <2>5 DEF AudioThread
<1>10. CASE K4 \/ TestPressed \/ UNCHANGED vars
  BY <1>5, <1>10 DEF K4, TestPressed, vars, queues, ui
<1>11. CASE IoThread
  <2>0. UNCHANGED <<toAudio, lastGeneration, calibrating, started>>
    BY <1>11 DEF IoThread, TakeAcknowledge, TakeBegin, TakeCancel, TakeTone, OnAnswer,
       Deadline, GuardCalibrates, GuardTrips, ConnectionLost, Reconnected, Untouched,
       ui, queues
  <2>1. CASE toUi' = toUi
    BY <1>5, <2>0, <2>1
  <2>2. ASSUME NEW name \in {"keyRequested", "succeeded", "failed"},
               NEW g \in GenerationOrNone, toUi' = toUi \o Call(name, g)
        PROVE  OnePreparation'
    <3>1. /\ name \in UiCalls
          /\ [name |-> name, generation |-> g] \notin Replies
          /\ [name |-> name, generation |-> g] \notin LaterReplies
      BY DEF UiCalls, Replies, Later, Posted
    <3>2. /\ AtMostOne(toUi', Replies) /\ (Has(toUi', Replies) => Has(toUi, Replies))
          /\ Has(toUi', LaterReplies) => Has(toUi, LaterReplies)
      BY <1>1, <1>2, <2>2, <3>1, PostIs
    <3> QED BY <1>2, <1>4, <2>0, <3>2
  <2>3. CASE Idle
    <3>1. CASE IoTakes("begin") /\ toUi' = toUi \o Call("failed", Head(toIo).generation)
      <4>1. Head(toIo).generation \in GenerationOrNone
        BY <1>1, <3>1, QueueTypes, TakenIs DEF IoTakes
      <4> QED BY <2>2, <3>1, <4>1
    <3> QED BY <2>1, <2>3, <3>1 DEF Idle
  <2>4. ASSUME NEW well \in BOOLEAN, NEW verify, Complete(well, verify)
        PROVE  OnePreparation'
    BY <1>1, <2>2, <2>4 DEF Complete
  <2>5. CASE Beginning \/ TakeTone
    BY <2>1, <2>5 DEF Beginning, TakeBegin, TakeTone, io
  <2>6. CASE ConnectionLost
    BY <2>1, <2>4, <2>6 DEF ConnectionLost
  <2>7. CASE Keying
    BY <1>1, <2>2, <2>7 DEF Keying
  <2>8. ASSUME NEW well \in BOOLEAN, Ending(well) PROVE OnePreparation'
    BY <2>1, <2>4, <2>8 DEF Ending, Finish
  <2>9. CASE RestoreExpires \/ OnTestRestored
    BY <1>1, <2>4, <2>9 DEF RestoreExpires, OnTestRestored, TypeOK
  <2>10. ASSUME NEW a, OnTestRead(a) \/ OnOtherAnswer(a) PROVE OnePreparation'
    BY <2>1, <2>10 DEF OnTestRead, OnOtherAnswer
  <2> QED BY <1>11, <2>3, <2>5, <2>6, <2>7, <2>8, <2>9, <2>10, IoCases
<1> QED BY <1>8, <1>9, <1>10, <1>11 DEF Next

LEMMA ToneStep == IInv /\ [Next]_vars => ToneWillEnd'
<1> SUFFICES ASSUME IInv, [Next]_vars, ~calibrating'
             PROVE  Holds(toAudio', ~prepared' /\ ~toneActive', Posted({"stop"}),
                          Posted({"prepare"}), Len(toAudio'))
  BY DEF ToneWillEnd
<1> DEFINE Quiet == ~prepared /\ ~toneActive
<1>1. TypeOK /\ toAudio \in Seq(Posted(AudioCalls)) /\ ToneWillEnd /\ Len(toAudio) \in Nat
  BY QueueTypes, EmptySeq DEF IInv
<1>2. CASE StopTone
  BY <1>1, <1>2, StopIs
<1>3. ASSUME calibrating' = calibrating
      PROVE  Holds(toAudio, Quiet, Posted({"stop"}), Posted({"prepare"}), Len(toAudio))
  BY <1>1, <1>3 DEF ToneWillEnd
<1>4. CASE UNCHANGED <<toAudio, calibrating>> /\ (Quiet => ~prepared' /\ ~toneActive')
  <2>1. Holds(toAudio, Quiet, Posted({"stop"}), Posted({"prepare"}), Len(toAudio))
    BY <1>3, <1>4
  <2> QED BY <1>1, <1>4, <2>1, HoldsMore
<1>5. CASE UiThread
  <2>1. CASE Start
    BY <2>1 DEF Start
  <2>2. CASE CancelNow
    BY <1>2, <2>2 DEF CancelNow
  <2>3. CASE UiIgnores
    BY <1>4, <2>3 DEF UiIgnores, ui, audio, shared
  <2>4. CASE OnKeyRequested
    BY <1>4, <2>4 DEF OnKeyRequested, audio, shared
  <2>5. ASSUME NEW g \in Generations, KeyGuardElapsed(g)
        PROVE  UNCHANGED <<toAudio, calibrating>> /\ (Quiet => ~prepared' /\ ~toneActive')
    BY <2>5 DEF KeyGuardElapsed, Mine, audio, shared
  <2>6. CASE OnPrepared
    BY <1>4, <2>3, <2>6 DEF OnPrepared, audio, shared
  <2>7. CASE OnFinished
    BY <1>2, <2>3, <2>7 DEF OnFinished
  <2> QED BY <1>4, <1>5, <2>1, <2>2, <2>3, <2>4, <2>5, <2>6, <2>7
      DEF UiThread, Cancel, OnUnprepared
<1>6. CASE AudioThread
  <2>1. UNCHANGED calibrating
    BY <1>6 DEF AudioThread, TakePrepare, TakePrepareFails, TakeBeginTone, TakeStop,
                Pace, ui
  <2>2. ASSUME NEW name, AudioTakes(name),
               name = "stop" \/ (Quiet /\ name # "prepare") => ~prepared' /\ ~toneActive'
        PROVE  Holds(toAudio', ~prepared' /\ ~toneActive', Posted({"stop"}),
                     Posted({"prepare"}), Len(toAudio'))
    <3>1. /\ toAudio # <<>> /\ toAudio' = Tail(toAudio)
          /\ Head(toAudio) \in Posted(AudioCalls) /\ Head(toAudio).name = name
      BY <1>1, <2>2, TakenIs DEF AudioTakes
    <3>2. /\ Len(toAudio') \in 0..Len(toAudio) - 1 /\ Len(toAudio') + 1 = Len(toAudio)
          /\ Len(toAudio') \in Nat
      BY <1>1, <3>1, TailIs
    <3>3. Holds(toAudio, Quiet, Posted({"stop"}), Posted({"prepare"}), Len(toAudio') + 1)
      BY <1>3, <2>1, <3>2
    <3>4. Holds(Tail(toAudio),
                Head(toAudio) \in Posted({"stop"})
                \/ (Quiet /\ Head(toAudio) \notin Posted({"prepare"})),
                Posted({"stop"}), Posted({"prepare"}), Len(toAudio'))
      BY <1>1, <3>1, <3>2, <3>3, HoldsTail
    <3>5. /\ Head(toAudio) \in Posted({"stop"}) => name = "stop"
          /\ Head(toAudio) \notin Posted({"prepare"}) => name # "prepare"
      BY <3>1 DEF Posted
    <3>6. Head(toAudio) \in Posted({"stop"})
          \/ (Quiet /\ Head(toAudio) \notin Posted({"prepare"}))
              => ~prepared' /\ ~toneActive'
      BY <2>2, <3>5
    <3> QED BY <3>1, <3>2, <3>4, <3>6, HoldsMore
  <2>3. CASE TakePrepare \/ TakePrepareFails
    BY <2>2, <2>3 DEF TakePrepare, TakePrepareFails
  <2>4. CASE TakeBeginTone
    BY <2>2, <2>4 DEF TakeBeginTone, audio
  <2>5. CASE TakeStop
    BY <2>2, <2>5 DEF TakeStop
  <2>6. CASE Pace
    BY <1>4, <2>1, <2>6 DEF Pace
  <2> QED BY <1>6, <2>3, <2>4, <2>5, <2>6 DEF AudioThread
<1>7. CASE IoThread \/ K4 \/ TestPressed \/ UNCHANGED vars
  <2>1. UNCHANGED <<toAudio, calibrating, prepared>>
    BY <1>7 DEF IoThread, TakeAcknowledge, TakeBegin, TakeCancel, TakeTone, OnAnswer,
       Deadline, GuardCalibrates, GuardTrips, ConnectionLost, Reconnected, Untouched,
       ui, audio, queues, K4, TestPressed, vars
  <2>2. toneActive' = toneActive
    BY <1>7 DEF IoThread, TakeAcknowledge, TakeBegin, TakeCancel, TakeTone, OnAnswer,
       Deadline, GuardCalibrates, GuardTrips, ConnectionLost, Reconnected, Untouched,
       ui, audio, queues, shared, K4, TestPressed, vars, Finish, RestoreExpires,
       OnTestRead, OnTestEnabled, OnTestLost, OnTestRestored, OnOtherAnswer
  <2> QED BY <1>4, <2>1, <2>2
<1> QED BY <1>5, <1>6, <1>7 DEF Next

(***************************************************************************)
(* The theorems                                                            *)
(***************************************************************************)
(* Every variable keeps its type, for any number of calibrations.          *)
THEOREM Types == Spec => []TypeOK
<1>1. Init => TypeOK
  BY InitType
<1>2. TypeOK /\ [Next]_vars => TypeOK'
  BY TypeStep
<1> QED BY <1>1, <1>2, PTL DEF Spec

LEMMA InitIsInductive == Init => IInv
<1> SUFFICES ASSUME Init PROVE IInv
  OBVIOUS
<1>1. TypeOK
  BY InitType
<1>2. /\ \A C : ~Has(<<>>, C) /\ AtMostOne(<<>>, C)
      /\ Len(<<>>) = 0 /\ \A n \in 0..Len(<<>>) : n = 0
  BY NothingHas
<1>3. /\ ~Holds(<<>>, FALSE, {"TX"}, {"RX"}, 0)
      /\ Holds(<<>>, TRUE, Posted({"stop"}), Posted({"prepare"}), 0)
  BY DEF Holds
<1>4. ChangesAreQueried
  BY <1>2 DEF Init, ChangesAreQueried, Queried
<1>5. \A n \in 0..Len(up) : ~TransmitsAfter(up, keyed, n)
  BY <1>2, <1>3 DEF Init, TransmitsAfter
<1>6. WillKeyInTest
  BY <1>5 DEF Init, WillKeyInTest, KeysInTest
<1>7. AnswersAreOwn
  BY <1>2 DEF Init, AnswersAreOwn
<1>8. GuardedWhileRunning
  BY <1>2, <1>5 DEF Init, GuardedWhileRunning
<1>9. OneCalibration /\ OnePreparation
  BY <1>2 DEF Init, OneCalibration, OnePreparation
<1>10. ToneWillEnd
  <2>1. ~prepared /\ ~toneActive <=> TRUE
    BY DEF Init
  <2> QED BY <1>2, <1>3, <2>1 DEF Init, ToneWillEnd
<1> QED BY <1>1, <1>4, <1>6, <1>7, <1>8, <1>9, <1>10 DEF IInv

(* The inductive invariant: what is queued and what is done belong to one  *)
(* calibration, and the commands on their way keep the tone in TEST.       *)
THEOREM Inductive == Spec => []IInv
<1>1. IInv /\ [Next]_vars => IInv'
  BY TypeStep, QueriedStep, WillKeyStep, AnswersStep, GuardedStep, OneCalibrationStep,
     OnePreparationStep, ToneStep DEF IInv
<1> QED BY <1>1, InitIsInductive, PTL DEF Spec

(* Whatever is lost, late or cancelled, and however often a calibration is *)
(* tried, TcpClient keys the K4 for a tone only in TEST, unless someone    *)
(* took it out of TEST or it refused TEST while a stale answer could stand *)
(* for its confirmation.                                                   *)
THEOREM TonesStayInTest == Spec => []KeyedInTest
<1>1. IInv => KeyedInTest
  <2> SUFFICES ASSUME IInv, keyed, ~test PROVE toggles > 0 \/ refused
    BY DEF KeyedInTest
  <2>1. TypeOK /\ up \in Seq(Commands) /\ Len(up) \in Nat
    BY QueueTypes, EmptySeq DEF IInv
  <2>2. 0 \in 0..Len(up)
    BY <2>1
  <2>3. TransmitsAfter(up, keyed, 0) /\ ~TestAfter(up, test, Counted, 0)
    BY DEF TransmitsAfter, TestAfter, Holds
  <2>4. ~KeysInTest(up, keyed, test, Counted)
    BY <2>2, <2>3 DEF KeysInTest
  <2>5. ~(toggles = 0 /\ ~refused)
    BY <2>4 DEF IInv, WillKeyInTest
  <2> QED BY <2>1, <2>5 DEF TypeOK
<1> QED BY <1>1, Inductive, PTL

(* A calibration that reports no need to verify TEST leaves it as it was.  *)
THEOREM TestIsRestored == Spec => []RestoresTest
<1>1. IInv => RestoresTest
  <2> SUFFICES ASSUME IInv, phase = "none", ~excused, toggles = 0
               PROVE  TestToCome = original
    BY DEF RestoresTest
  <2>1. TypeOK /\ Len(up) \in Nat /\ original \in BOOLEAN /\ TestToCome \in BOOLEAN
    BY QueueTypes, EmptySeq DEF IInv, TypeOK, TestToCome
  <2>2. IF original THEN test /\ ~Has(up, {"TS0"}) ELSE ~test /\ ~Has(up, {"TS1"})
    BY DEF IInv, AnswersAreOwn
  <2>3. CASE original
    <3>1. 0 \in 0..Len(up) /\ test /\ \A j \in 0 + 1..Len(up) : up[j] # "TS0"
      BY <2>1, <2>2, <2>3 DEF Has
    <3> QED BY <2>1, <2>3, <3>1 DEF TestToCome
  <2>4. CASE ~original
    <3>1. ~test /\ \A j \in 1..Len(up) : up[j] # "TS1"
      BY <2>2, <2>4 DEF Has
    <3>2. ASSUME TestToCome PROVE FALSE
      <4>1. PICK i \in 0..Len(up) : IF i = 0 THEN test ELSE up[i] = "TS1"
        BY <3>2 DEF TestToCome
      <4>2. i \in 1..Len(up) => up[i] # "TS1"
        BY <3>1
      <4> QED BY <2>1, <3>1, <4>1, <4>2
    <3> QED BY <2>1, <2>4, <3>2
  <2> QED BY <2>3, <2>4
<1> QED BY <1>1, Inductive, PTL

(* When the UI thread is free and nothing is queued, no phase, guard, gate,*)
(* tone or keyed K4 is left of a calibration, however it ended.            *)
THEOREM NothingIsLeft == Spec => []NothingLeftBehind
<1>1. IInv => NothingLeftBehind
  <2> SUFFICES ASSUME IInv, ~calibrating, queues = <<<<>>, <<>>, <<>>>>, up = <<>>
               PROVE  /\ phase = "none" /\ ~active /\ ~gateOpen /\ generation = 0
                      /\ ~prepared /\ ~toneActive /\ ~keyed
    BY DEF NothingLeftBehind
  <2>1. phase = "none"
    BY DEF IInv, OneCalibration
  <2>2. ~active /\ ~gateOpen /\ generation = 0 /\ ~TransmitsAfter(up, keyed, Len(up))
    BY <2>1 DEF IInv, GuardedWhileRunning
  <2>3. Len(<<>>) = 0 /\ toAudio = <<>>
    BY DEF queues
  <2>4. ~keyed
    <3>1. keyed => Holds(<<>>, keyed, {"TX"}, {"RX"}, 0)
      BY DEF Holds
    <3> QED BY <2>2, <2>3, <3>1 DEF TransmitsAfter
  <2>5. ~prepared /\ ~toneActive
    <3>1. Holds(<<>>, ~prepared /\ ~toneActive, Posted({"stop"}), Posted({"prepare"}), 0)
      BY <2>3 DEF IInv, ToneWillEnd
    <3> QED BY <3>1 DEF Holds
  <2> QED BY <2>1, <2>2, <2>4, <2>5
<1> QED BY <1>1, Inductive, PTL
=============================================================================

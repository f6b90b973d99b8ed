------------------------- MODULE Ft8RadioModeProofs -------------------------
(***************************************************************************)
(* What holds of Ft8RadioMode for every set of modes and any number of     *)
(* openings, bands, overs, PTT taps and losses.                            *)
(***************************************************************************)
EXTENDS Ft8RadioMode, SequenceTheorems, TLAPS

(***************************************************************************)
(* What a queue leads to once it has been served                           *)
(***************************************************************************)
\* A K4 that transmits or not, as on says, receives after the first n commands.
Off(commands, on, n) ==
    \E j \in 0 .. n :
        /\ j = 0 => ~on
        /\ j > 0 => commands[j].do = "rx"
        /\ \A i \in 1 .. n : i > j => commands[i].do # "tx"

\* A K4 in the mode of now is in that of setting after all commands.
Lands(commands, now, setting) ==
    \E j \in 0 .. Len(commands) :
        /\ j = 0 => now = setting
        /\ j > 0 => commands[j] = SetMode(setting)
        /\ \A i \in 1 .. Len(commands) :
               i > j => commands[i].do \notin {"set", "recall"}

\* Once all reports are read, the field f of the reading is that of setting.
Tells(reports, reading, setting, f) ==
    \E j \in 0 .. Len(reports) :
        /\ j = 0 => reading[f] = setting[f]
        /\ j > 0 => reports[j].of = f /\ reports[j].value = setting[f]
        /\ \A i \in 1 .. Len(reports) : i > j => reports[i].of # f

(***************************************************************************)
(* The inductive invariant                                                 *)
(***************************************************************************)
\* Every mode command on its way will find the K4 receiving.
SetsWillBeOffAir ==
    \A i \in 1 .. Len(toRadio) :
        toRadio[i].do = "set" => Off(toRadio, keyed, i - 1)

\* When the app has keyed nothing, the K4 will receive once it has obeyed.
WillReceive ==
    ~ptt /\ over # "keyed" => Off(toRadio, keyed, Len(toRadio))

\* A connection that is gone has taken the commands and the over with it, and
\* one that is there has no news of a loss.
LossIsComplete ==
    /\ ~connected => /\ toRadio = <<>> /\ ~keyed
                     /\ over # "keyed" /\ entry = Unread
    /\ connected => \A i \in 1 .. Len(toUi) : toUi[i].of # "lost"

\* The reports on their way lead to what the K4 is set to.
WillBeTold ==
    connected => \A f \in {"mode", "sub"} : Tells(toUi, seen, radio, f)

\* The mode of a known entry is kept until it is on its way back.
EntryIsKept ==
    entry # Unread =>
        /\ entry \in Settings
        /\ seen.mode # None /\ seen.sub # None
        /\ session.active => session.original # Unread
        /\ session.original # Unread => session.original = entry
        /\ ~session.active /\ session.original = Unread =>
               over = "none" /\ Lands(toRadio, radio, entry)

IInv ==
    /\ TypeOK /\ SetsWillBeOffAir /\ WillReceive /\ LossIsComplete
    /\ WillBeTold /\ EntryIsKept

(***************************************************************************)
(* The queue of commands                                                   *)
(***************************************************************************)
(* What the first commands lead to does not depend on one appended to them. *)
LEMMA OffBefore ==
    ASSUME NEW s \in Seq(Commands), NEW c \in Commands, NEW on \in BOOLEAN,
           NEW n \in 0 .. Len(s), Off(s, on, n)
    PROVE  Off(Append(s, c), on, n)
<1>1. \A i \in 1 .. n : Append(s, c)[i] = s[i]
  BY AppendProperties
<1> QED BY <1>1 DEF Off

(* A command that does not key leaves a K4 that would receive receiving,   *)
(* and RX makes any receive.                                               *)
LEMMA OffAfter ==
    ASSUME NEW s \in Seq(Commands), NEW c \in Commands, NEW on \in BOOLEAN,
           \/ c.do = "rx"
           \/ c.do # "tx" /\ Off(s, on, Len(s))
    PROVE  Off(Append(s, c), on, Len(Append(s, c)))
<1> DEFINE t == Append(s, c)
<1>1. /\ Len(s) \in Nat /\ Len(t) = Len(s) + 1
      /\ \A i \in 1 .. Len(s) : t[i] = s[i]
      /\ t[Len(s) + 1] = c
  BY AppendProperties
<1>2. CASE c.do = "rx"
  <2>1. Len(t) \in 0 .. Len(t) /\ Len(t) # 0 /\ t[Len(t)].do = "rx"
    BY <1>1, <1>2
  <2> QED BY <2>1, <1>1 DEF Off
<1>3. CASE c.do # "tx" /\ Off(s, on, Len(s))
  <2>1. PICK j \in 0 .. Len(s) :
            /\ j = 0 => ~on
            /\ j > 0 => s[j].do = "rx"
            /\ \A i \in 1 .. Len(s) : i > j => s[i].do # "tx"
    BY <1>3 DEF Off
  <2>2. \A i \in 1 .. Len(t) : i > j => t[i].do # "tx"
    BY <1>1, <1>3, <2>1
  <2>3. j \in 0 .. Len(t) /\ (j > 0 => t[j].do = "rx")
    BY <1>1, <2>1
  <2> QED BY <2>1, <2>2, <2>3 DEF Off
<1> QED BY <1>2, <1>3

(* Obeying the first command leaves what the rest lead to.                 *)
LEMMA OffServed ==
    ASSUME NEW s \in Seq(Commands), s # <<>>, NEW on \in BOOLEAN,
           NEW now \in BOOLEAN, NEW n \in 1 .. Len(s), Off(s, on, n),
           Head(s).do \in {"tx", "rx"} => now = (Head(s).do = "tx"),
           Head(s).do \notin {"tx", "rx"} => now = on
    PROVE  Off(Tail(s), now, n - 1)
<1>1. /\ Tail(s) \in Seq(Commands) /\ Len(Tail(s)) = Len(s) - 1
      /\ \A i \in 1 .. Len(s) - 1 : Tail(s)[i] = s[i + 1]
      /\ Head(s) = s[1]
  BY HeadTailProperties
<1>2. PICK j \in 0 .. n :
          /\ j = 0 => ~on
          /\ j > 0 => s[j].do = "rx"
          /\ \A i \in 1 .. n : i > j => s[i].do # "tx"
  BY DEF Off
<1>3. CASE j <= 1
  <2>1. ~now
    BY <1>1, <1>2, <1>3
  <2>2. \A i \in 1 .. n - 1 : Tail(s)[i].do # "tx"
    BY <1>1, <1>2, <1>3
  <2> QED BY <2>1, <2>2 DEF Off
<1>4. CASE j > 1
  <2>1. PICK k \in 0 .. n - 1 : k = j - 1
    BY <1>4
  <2>2. k # 0 /\ Tail(s)[k].do = "rx"
    BY <1>1, <1>2, <1>4, <2>1
  <2>3. \A i \in 1 .. n - 1 : i > k => Tail(s)[i].do # "tx"
    BY <1>1, <1>2, <2>1
  <2> QED BY <2>2, <2>3 DEF Off
<1> QED BY <1>2, <1>3, <1>4

(* A command that changes no mode leaves the mode the queue leads to.      *)
LEMMA LandsBeside ==
    ASSUME NEW s \in Seq(Commands), NEW c \in Commands, NEW now \in Settings,
           NEW e \in Settings, Lands(s, now, e), c.do \notin {"set", "recall"}
    PROVE  Lands(Append(s, c), now, e)
<1>1. /\ Len(s) \in Nat /\ Len(Append(s, c)) = Len(s) + 1
      /\ \A i \in 1 .. Len(s) : Append(s, c)[i] = s[i]
      /\ Append(s, c)[Len(s) + 1] = c
  BY AppendProperties
<1> QED BY <1>1 DEF Lands

(* A command that selects a mode is what the queue leads to.               *)
LEMMA LandsThere ==
    ASSUME NEW s \in Seq(Commands), NEW now \in Settings, NEW e \in Settings,
           SetMode(e) \in Commands
    PROVE  Lands(Append(s, SetMode(e)), now, e)
<1>1. /\ Len(s) \in Nat /\ Len(Append(s, SetMode(e))) = Len(s) + 1
      /\ Append(s, SetMode(e))[Len(s) + 1] = SetMode(e)
  BY AppendProperties
<1>2. Len(s) + 1 \in 0 .. Len(Append(s, SetMode(e)))
  BY <1>1
<1>3. \A i \in 1 .. Len(Append(s, SetMode(e))) : ~(i > Len(s) + 1)
  BY <1>1
<1> QED BY <1>1, <1>2, <1>3 DEF Lands

(* Obeying the first command leaves the mode that the rest lead to.        *)
LEMMA LandsServed ==
    ASSUME NEW s \in Seq(Commands), s # <<>>, NEW before \in Settings,
           NEW now \in Settings, NEW e \in Settings, Lands(s, before, e),
           Head(s) = SetMode(e) => now = e,
           Head(s).do \notin {"set", "recall"} => now = before
    PROVE  Lands(Tail(s), now, e)
<1>1. /\ Tail(s) \in Seq(Commands) /\ Len(Tail(s)) = Len(s) - 1
      /\ Len(s) \in Nat /\ Len(s) > 0
      /\ \A i \in 1 .. Len(s) - 1 : Tail(s)[i] = s[i + 1]
      /\ Head(s) = s[1]
  BY HeadTailProperties, EmptySeq, LenProperties
<1>2. PICK j \in 0 .. Len(s) :
          /\ j = 0 => before = e
          /\ j > 0 => s[j] = SetMode(e)
          /\ \A i \in 1 .. Len(s) : i > j => s[i].do \notin {"set", "recall"}
  BY DEF Lands
<1>3. CASE j <= 1
  <2>1. now = e
    BY <1>1, <1>2, <1>3
  <2>2. \A i \in 1 .. Len(Tail(s)) : Tail(s)[i].do \notin {"set", "recall"}
    BY <1>1, <1>2, <1>3
  <2> QED BY <2>1, <2>2, <1>1 DEF Lands
<1>4. CASE j > 1
  <2>1. j - 1 \in 0 .. Len(Tail(s)) /\ j - 1 > 0 /\ Tail(s)[j - 1] = SetMode(e)
    BY <1>1, <1>2, <1>4
  <2>2. \A i \in 1 .. Len(Tail(s)) :
            i > j - 1 => Tail(s)[i].do \notin {"set", "recall"}
    BY <1>1, <1>2
  <2> QED BY <2>1, <2>2 DEF Lands
<1> QED BY <1>2, <1>3, <1>4

(***************************************************************************)
(* The queue of reports                                                    *)
(***************************************************************************)
(* A report of something else changes nothing of what a field leads to.    *)
LEMMA TellsBeside ==
    ASSUME NEW s \in Seq(Reports), NEW r \in Reports, NEW reading, NEW setting,
           NEW f, Tells(s, reading, setting, f), r.of # f
    PROVE  Tells(Append(s, r), reading, setting, f)
<1>1. /\ Len(s) \in Nat /\ Len(Append(s, r)) = Len(s) + 1
      /\ \A i \in 1 .. Len(s) : Append(s, r)[i] = s[i]
      /\ Append(s, r)[Len(s) + 1] = r
  BY AppendProperties
<1> QED BY <1>1 DEF Tells

(* The K4 reports both fields of a setting.                                *)
LEMMA TellsSetting ==
    ASSUME NEW s \in Seq(Reports), NEW reading, NEW setting \in Settings,
           NEW f \in {"mode", "sub"}
    PROVE  Tells(s \o ReportOf(setting), reading, setting, f)
<1> DEFINE t == s \o ReportOf(setting)
<1>1. /\ Len(s) \in Nat /\ Len(t) = Len(s) + 2
      /\ t[Len(s) + 1] = [of |-> "mode", value |-> setting.mode]
      /\ t[Len(s) + 2] = [of |-> "sub", value |-> setting.sub]
  BY DEF ReportOf
<1> HIDE DEF t
<1>2. CASE f = "mode"
  <2>1. Len(s) + 1 \in 0 .. Len(t)
    BY <1>1
  <2>2. \A i \in 1 .. Len(t) : i > Len(s) + 1 => t[i].of # f
    BY <1>1, <1>2
  <2>3. t[Len(s) + 1].of = f /\ t[Len(s) + 1].value = setting[f] /\ Len(s) + 1 # 0
    BY <1>1, <1>2
  <2> QED BY <2>1, <2>2, <2>3 DEF Tells, t
<1>3. CASE f = "sub"
  <2>1. Len(s) + 2 \in 0 .. Len(t)
    BY <1>1
  <2>2. \A i \in 1 .. Len(t) : i > Len(s) + 2 => t[i].of # f
    BY <1>1
  <2>3. t[Len(s) + 2].of = f /\ t[Len(s) + 2].value = setting[f] /\ Len(s) + 2 # 0
    BY <1>1, <1>3
  <2> QED BY <2>1, <2>2, <2>3 DEF Tells, t
<1> QED BY <1>2, <1>3

(* A report that is read is in the reading.                                *)
LEMMA TellsRead ==
    ASSUME NEW s \in Seq(Reports), s # <<>>, NEW before, NEW reading,
           NEW setting, NEW f, Tells(s, before, setting, f),
           Head(s).of = f => reading[f] = Head(s).value,
           Head(s).of # f => reading[f] = before[f]
    PROVE  Tells(Tail(s), reading, setting, f)
<1>1. /\ Tail(s) \in Seq(Reports) /\ Len(Tail(s)) = Len(s) - 1
      /\ Len(s) \in Nat /\ Len(s) > 0
      /\ \A i \in 1 .. Len(s) - 1 : Tail(s)[i] = s[i + 1]
      /\ Head(s) = s[1]
  BY HeadTailProperties, EmptySeq, LenProperties
<1>2. PICK j \in 0 .. Len(s) :
          /\ j = 0 => before[f] = setting[f]
          /\ j > 0 => s[j].of = f /\ s[j].value = setting[f]
          /\ \A i \in 1 .. Len(s) : i > j => s[i].of # f
  BY DEF Tells
<1>3. CASE j <= 1
  <2>1. reading[f] = setting[f]
    BY <1>1, <1>2, <1>3
  <2>2. \A i \in 1 .. Len(Tail(s)) : Tail(s)[i].of # f
    BY <1>1, <1>2, <1>3
  <2>3. 0 \in 0 .. Len(Tail(s))
    BY <1>1
  <2> QED BY <2>1, <2>2, <2>3 DEF Tells
<1>4. CASE j > 1
  <2>1. /\ j - 1 \in 0 .. Len(Tail(s)) /\ j - 1 > 0
        /\ Tail(s)[j - 1].of = f /\ Tail(s)[j - 1].value = setting[f]
    BY <1>1, <1>2, <1>4
  <2>2. \A i \in 1 .. Len(Tail(s)) : i > j - 1 => Tail(s)[i].of # f
    BY <1>1, <1>2
  <2> QED BY <2>1, <2>2 DEF Tells
<1> QED BY <1>2, <1>3, <1>4

(***************************************************************************)
(* Types                                                                   *)
(***************************************************************************)
(* What a report holds depends on what it is of.                           *)
LEMMA ReportKinds ==
    ASSUME NEW r \in Reports
    PROVE  /\ r.of \in {"mode", "sub", "tx", "lost"}
           /\ r.of = "mode" => r.value \in Modes
           /\ r.of = "sub" => r.value \in Subs
           /\ r.of = "tx" => r.value \in BOOLEAN
<1>1. \/ r \in [of : {"mode"}, value : Modes]
      \/ r \in [of : {"sub"}, value : Subs]
      \/ r \in [of : {"tx"}, value : BOOLEAN]
      \/ r \in [of : {"lost"}, value : {None}]
  BY DEF Reports
<1> QED BY <1>1

(* The reports of a setting.                                               *)
LEMMA ReportOfType ==
    ASSUME NEW setting \in Settings
    PROVE  ReportOf(setting) \in Seq(Reports)
<1>1. /\ [of |-> "mode", value |-> setting.mode] \in Reports
      /\ [of |-> "sub", value |-> setting.sub] \in Reports
  BY DEF Reports, Settings
<1> QED BY <1>1 DEF ReportOf

(* Every setting can be read, and commanded.                               *)
LEMMA SettingsAreReadings ==
    /\ Settings \subseteq Readings
    /\ Settings \subseteq Targets
    /\ DataA \in Settings /\ Unread \in Readings
    /\ \A setting \in Targets : SetMode(setting) \in Commands
    /\ \A do \in {"recall", "tx", "rx"} : Command(do) \in Commands
    /\ \A setting \in Targets : setting # Unread
BY ModeAssumption
   DEF Settings, Targets, Readings, DataA, Unread, SetMode, Command, Commands

(* update() keeps whether the screen is open, and sends at most one mode   *)
(* command, only over a connection and when nothing is busy.               *)
LEMMA UpdateIs ==
    ASSUME TypeOK, NEW s \in Sessions, Update(s)
    PROVE  /\ session' \in Sessions /\ session'.active = s.active
           /\ entry' \in Readings
           /\ connected \/ UNCHANGED <<toRadio, entry>>
           /\ \/ toRadio' = toRadio
              \/ /\ connected /\ ~Busy
                 /\ \E setting \in Targets :
                        toRadio' = Append(toRadio, SetMode(setting))
<1>1. /\ radio \in Readings /\ entry \in Readings
      /\ DataA \in Targets /\ Unread \in Readings
  BY SettingsAreReadings DEF TypeOK
<1>2. /\ ConnectionLost(s) \in Sessions
      /\ ConnectionLost(s).active = s.active
  BY DEF ConnectionLost, Sessions
<1>3. CASE UNCHANGED <<toRadio, entry>> /\ session' \in {s, ConnectionLost(s)}
  BY <1>1, <1>2, <1>3
<1>4. CASE connected /\ ~Busy /\ TakeOver(s)
  <2>1. seen \in Targets
    BY <1>4 DEF TakeOver, Readable, TypeOK, Readings, Targets
  <2>2. session' \in Sessions /\ session'.active = s.active
    BY <1>4, <2>1 DEF TakeOver, Sessions
  <2>3. entry' \in Readings
    BY <1>1, <1>4 DEF TakeOver
  <2> QED BY <1>1, <1>4, <2>2, <2>3 DEF TakeOver
<1>5. CASE connected /\ ~Busy /\ (Rearm(s) \/ Reassert(s))
  <2>1. session' \in Sessions /\ session'.active = s.active
    BY <1>5 DEF Rearm, Reassert, Sessions
  <2> QED BY <1>1, <1>5, <2>1 DEF Rearm, Reassert
<1>6. CASE connected /\ ~Busy /\ Restore(s)
  <2>1. s.original \in Targets
    BY <1>6 DEF Restore, Sessions
  <2> QED BY <1>1, <1>2, <1>6, <2>1 DEF Restore
<1> QED BY <1>3, <1>4, <1>5, <1>6 DEF Update

(* The sessions that open and close the screen.                            *)
LEMMA EnterLeaveType ==
    ASSUME NEW s \in Sessions
    PROVE  /\ Enter(s) \in Sessions /\ Enter(s).active
           /\ Enter(s).original = s.original
           /\ Leave(s) \in Sessions /\ ~Leave(s).active
           /\ Leave(s).original = s.original
           /\ ConnectionLost(s) \in Sessions
BY DEF Enter, Leave, ConnectionLost, Sessions

(* What an update sends is a queue of commands.                            *)
LEMMA UpdateType ==
    ASSUME TypeOK, NEW s \in Sessions, Update(s)
    PROVE  toRadio' \in Seq(Commands)
<1>1. CASE toRadio' = toRadio
  BY <1>1 DEF TypeOK
<1>2. ASSUME NEW setting \in Targets, toRadio' = Append(toRadio, SetMode(setting))
      PROVE  toRadio' \in Seq(Commands)
  BY <1>2, SettingsAreReadings, AppendProperties DEF TypeOK
<1> QED BY <1>1, <1>2, UpdateIs

(* A command that selects no mode.                                         *)
LEMMA CommandQueued ==
    ASSUME TypeOK, NEW do \in {"recall", "tx", "rx"}
    PROVE  Append(toRadio, Command(do)) \in Seq(Commands)
<1>1. toRadio \in Seq(Commands) /\ Command(do) \in Commands
  BY SettingsAreReadings DEF TypeOK
<1> QED BY <1>1, AppendProperties

LEMMA InitType == Init => TypeOK
<1> SUFFICES ASSUME Init PROVE TypeOK
  OBVIOUS
<1>1. /\ session \in Sessions /\ seen \in Readings /\ entry \in Readings
      /\ toRadio \in Seq(Commands) /\ toUi \in Seq(Reports)
  BY SettingsAreReadings, EmptySeq DEF Init, Idle, Sessions
<1>2. opens \in 0 .. MaxOpens /\ events \in 0 .. MaxEvents
  BY ModeAssumption DEF Init
<1> QED BY <1>1, <1>2 DEF Init, TypeOK

LEMMA TypeStep == TypeOK /\ [Next]_vars => TypeOK'
<1> SUFFICES ASSUME TypeOK, [Next]_vars PROVE TypeOK'
  OBVIOUS
<1> USE DEF ui, link, k4, history, used
<1>0. session \in Sessions /\ MaxOpens \in Nat /\ MaxEvents \in Nat
  BY ModeAssumption DEF TypeOK
<1>1. CASE UNCHANGED vars
  BY <1>1 DEF TypeOK, vars
<1>2. CASE Open
  <2>1. Enter(session) \in Sessions
    BY <1>0, EnterLeaveType
  <2>2. session' \in Sessions /\ entry' \in Readings /\ toRadio' \in Seq(Commands)
    BY <1>2, <2>1, UpdateIs, UpdateType DEF Open
  <2>3. opens' \in 0 .. MaxOpens
    BY <1>0, <1>2 DEF Open, TypeOK
  <2> QED BY <1>2, <2>2, <2>3 DEF Open, TypeOK
<1>3. CASE Close
  <2>1. Leave(session) \in Sessions
    BY <1>0, EnterLeaveType
  <2>2. session' \in Sessions /\ entry' \in Readings /\ toRadio' \in Seq(Commands)
    BY <1>3, <2>1, UpdateIs, UpdateType DEF Close
  <2> QED BY <1>3, <2>2 DEF Close, TypeOK
<1>4. CASE Tick
  <2>1. session' \in Sessions /\ entry' \in Readings /\ toRadio' \in Seq(Commands)
    BY <1>0, <1>4, UpdateIs, UpdateType DEF Tick
  <2> QED BY <1>4, <2>1 DEF Tick, TypeOK
<1>5. CASE Recall
  <2>1. toRadio' \in Seq(Commands) /\ entry' \in Readings
    BY <1>5, SettingsAreReadings, CommandQueued DEF Recall, TypeOK
  <2> QED BY <1>0, <1>5, <2>1 DEF Recall, TypeOK
<1>6. CASE StartOver \/ Finish
  BY <1>0, <1>6 DEF StartOver, Finish, TypeOK
<1>7. CASE Press \/ Release
  <2>1. toRadio' \in Seq(Commands)
    <3>1. toRadio' \in {Append(toRadio, Command("tx")), Append(toRadio, Command("rx"))}
      BY <1>7 DEF Press, Release
    <3> QED BY <3>1, CommandQueued
  <2>2. over' \in {"none", "armed", "keyed", "done"}
    BY <1>7 DEF Press, Release, TypeOK
  <2>3. events' \in 0 .. MaxEvents
    BY <1>0, <1>7 DEF Press, Release, TypeOK
  <2> QED BY <1>7, <2>1, <2>2, <2>3 DEF Press, Release, TypeOK
<1>8. CASE Key \/ Unkey
  <2>1. toRadio' \in Seq(Commands)
    <3>1. toRadio' \in {toRadio, Append(toRadio, Command("tx")),
                        Append(toRadio, Command("rx"))}
      BY <1>8 DEF Key, Unkey
    <3> QED BY <3>1, CommandQueued DEF TypeOK
  <2> QED BY <1>8, <2>1 DEF Key, Unkey, TypeOK
<1>9. CASE Hear
  <2>1. Head(toUi) \in Reports /\ Tail(toUi) \in Seq(Reports)
    BY <1>9, HeadTailProperties DEF Hear, TypeOK
  <2>2. session' \in Sessions
    BY <1>0, <1>9, EnterLeaveType DEF Hear
  <2>3. seen' \in Readings
    BY <1>9, <2>1, ReportKinds, SettingsAreReadings DEF Hear, TypeOK, Readings
  <2>4. seenTx' \in BOOLEAN /\ ptt' \in BOOLEAN
    BY <1>9, <2>1, ReportKinds DEF Hear, TypeOK
  <2> QED BY <1>9, <2>1, <2>2, <2>3, <2>4 DEF Hear, TypeOK
<1>10. CASE Lose
  <2>1. toUi' \in Seq(Reports)
    <3>1. PICK n \in 0 .. Len(toUi) :
              toUi' = Append(SubSeq(toUi, 1, n), [of |-> "lost", value |-> None])
      BY <1>10 DEF Lose
    <3>2. SubSeq(toUi, 1, n) \in Seq(Reports)
      BY <3>1, SubSeqProperties DEF TypeOK
    <3>3. [of |-> "lost", value |-> None] \in Reports
      BY DEF Reports
    <3> QED BY <3>1, <3>2, <3>3, AppendProperties
  <2>2. toRadio' \in Seq(Commands) /\ entry' \in Readings
    BY <1>10, EmptySeq, SettingsAreReadings DEF Lose
  <2>3. over' \in {"none", "armed", "keyed", "done"} /\ events' \in 0 .. MaxEvents
    BY <1>0, <1>10 DEF Lose, TypeOK
  <2> QED BY <1>10, <2>1, <2>2, <2>3 DEF Lose, TypeOK
<1>11. CASE Connect
  BY <1>11, ReportOfType DEF Connect, TypeOK
<1>12. CASE Obey
  <2>1. Head(toRadio) \in Commands /\ toRadio' \in Seq(Commands)
    BY <1>12, HeadTailProperties DEF Obey, TypeOK
  <2>2. CASE Head(toRadio).do \in {"set", "recall"}
    <3>1. radio' \in Settings
      BY <1>12, <2>1, <2>2 DEF Obey, TypeOK, Settings, Targets, Commands
    <3>2. toUi' \in Seq(Reports) /\ keyed' = keyed
      BY <1>12, <2>2, <3>1, ReportOfType, ConcatProperties, ZenonT(60) DEF Obey, TypeOK
    <3> QED BY <1>12, <2>1, <3>1, <3>2 DEF Obey, TypeOK
  <2>3. CASE Head(toRadio).do \in {"tx", "rx"}
    <3>1. keyed' \in BOOLEAN /\ radio' = radio
      BY <1>12, <2>3 DEF Obey
    <3>2. [of |-> "tx", value |-> keyed'] \in Reports
      BY <3>1 DEF Reports
    <3>3. toUi' \in Seq(Reports)
      <4>1. toUi' = Append(toUi, [of |-> "tx", value |-> keyed'])
        BY <1>12, <2>3 DEF Obey
      <4>2. toUi \in Seq(Reports)
        BY DEF TypeOK
      <4> QED BY <4>1, <4>2, <3>2, AppendProperties
    <3> QED BY <1>12, <2>1, <3>1, <3>3 DEF Obey, TypeOK
  <2> QED BY <2>1, <2>2, <2>3 DEF Commands
<1> QED BY <1>1, <1>2, <1>3, <1>4, <1>5, <1>6, <1>7, <1>8, <1>9, <1>10, <1>11,
           <1>12 DEF Next

(***************************************************************************)
(* The commands and the transmitter                                        *)
(***************************************************************************)
Air == SetsWillBeOffAir /\ WillReceive /\ LossIsComplete

(* A command may be appended if it is no mode command or finds the K4      *)
(* receiving.                                                              *)
LEMMA AppendKeepsSets ==
    ASSUME TypeOK, SetsWillBeOffAir, NEW c \in Commands,
           toRadio' = Append(toRadio, c), keyed' = keyed,
           c.do = "set" => Off(toRadio, keyed, Len(toRadio))
    PROVE  SetsWillBeOffAir'
<1>1. /\ toRadio \in Seq(Commands) /\ keyed \in BOOLEAN
      /\ Len(toRadio) \in Nat /\ Len(toRadio') = Len(toRadio) + 1
      /\ \A i \in 1 .. Len(toRadio) : toRadio'[i] = toRadio[i]
      /\ toRadio'[Len(toRadio) + 1] = c
  BY AppendProperties, LenProperties DEF TypeOK
<1>2. SUFFICES ASSUME NEW i \in 1 .. Len(toRadio'), toRadio'[i].do = "set"
               PROVE  Off(toRadio', keyed', i - 1)
  BY DEF SetsWillBeOffAir
<1>3. PICK n \in 0 .. Len(toRadio) : n = i - 1
  BY <1>1
<1>4. Off(toRadio, keyed, n)
  <2>1. CASE i \in 1 .. Len(toRadio)
    BY <1>1, <1>2, <1>3, <2>1 DEF SetsWillBeOffAir
  <2>2. CASE i = Len(toRadio) + 1
    BY <1>1, <1>2, <1>3, <2>2
  <2> QED BY <1>1, <2>1, <2>2
<1>5. Off(Append(toRadio, c), keyed, n)
  BY <1>1, <1>4, OffBefore
<1> QED BY <1>3, <1>5

(* update() sends a mode command only when the K4 will receive.            *)
LEMMA UpdateKeepsAir ==
    ASSUME TypeOK, Air, NEW s \in Sessions, Update(s),
           UNCHANGED <<keyed, ptt, connected, toUi>>,
           over' = over \/ (over = "armed" /\ over' = "done")
    PROVE  Air'
<1>1. LossIsComplete'
  BY UpdateIs DEF Air, LossIsComplete
<1>2. CASE toRadio' = toRadio
  BY <1>1, <1>2 DEF Air, SetsWillBeOffAir, WillReceive
<1>3. ASSUME connected, ~Busy, NEW setting \in Targets,
             toRadio' = Append(toRadio, SetMode(setting))
      PROVE  Air'
  <2>1. SetMode(setting) \in Commands /\ SetMode(setting).do = "set"
    BY SettingsAreReadings DEF SetMode
  <2>2. Off(toRadio, keyed, Len(toRadio))
    BY <1>3 DEF Air, WillReceive, Busy
  <2>3. SetsWillBeOffAir'
    BY <1>3, <2>1, <2>2, AppendKeepsSets DEF Air
  <2>4. Off(Append(toRadio, SetMode(setting)), keyed, Len(toRadio'))
    BY <1>3, <2>1, <2>2, OffAfter DEF TypeOK
  <2>5. WillReceive'
    BY <1>3, <2>4 DEF WillReceive
  <2> QED BY <1>1, <2>3, <2>5 DEF Air
<1> QED BY <1>2, <1>3, UpdateIs

(* TX and RX: who keys is known to have keyed, and RX ends it.             *)
LEMMA AppendKeepsAir ==
    ASSUME TypeOK, Air, NEW do \in {"recall", "tx", "rx"}, connected,
           toRadio' = Append(toRadio, Command(do)),
           UNCHANGED <<keyed, connected, toUi>>,
           do = "tx" => ptt' \/ over' = "keyed",
           do = "recall" => UNCHANGED <<ptt, over>>
    PROVE  Air'
<1>1. Command(do) \in Commands /\ Command(do).do = do
  BY SettingsAreReadings DEF Command
<1>2. SetsWillBeOffAir'
  BY <1>1, AppendKeepsSets DEF Air
<1>3. WillReceive'
  <2> SUFFICES ASSUME ~ptt', over' # "keyed"
               PROVE  Off(toRadio', keyed', Len(toRadio'))
    BY DEF WillReceive
  <2>1. \/ do = "rx"
        \/ do = "recall" /\ Off(toRadio, keyed, Len(toRadio))
    BY DEF Air, WillReceive
  <2> QED BY <1>1, <2>1, OffAfter DEF TypeOK
<1>4. LossIsComplete'
  BY DEF Air, LossIsComplete
<1> QED BY <1>2, <1>3, <1>4 DEF Air

(* Obeying a command.                                                      *)
LEMMA ObeyKeepsAir == TypeOK /\ Air /\ Obey => Air'
<1> SUFFICES ASSUME TypeOK, Air, Obey PROVE Air'
  OBVIOUS
<1> USE DEF ui, used, history
<1>1. /\ toRadio # <<>> /\ toRadio \in Seq(Commands)
      /\ toRadio' = Tail(toRadio) /\ keyed \in BOOLEAN
      /\ Len(toRadio) \in Nat /\ Len(toRadio) > 0
      /\ Len(toRadio') = Len(toRadio) - 1
      /\ \A i \in 1 .. Len(toRadio) - 1 : toRadio'[i] = toRadio[i + 1]
  BY HeadTailProperties, EmptySeq, LenProperties DEF Obey, TypeOK
<1>2. /\ keyed' \in BOOLEAN
      /\ Head(toRadio).do \in {"tx", "rx"} => keyed' = (Head(toRadio).do = "tx")
      /\ Head(toRadio).do \notin {"tx", "rx"} => keyed' = keyed
  BY <1>1 DEF Obey
<1>3. \A n \in 1 .. Len(toRadio) : Off(toRadio, keyed, n) => Off(toRadio', keyed', n - 1)
  BY <1>1, <1>2, OffServed
<1>4. SetsWillBeOffAir'
  <2> SUFFICES ASSUME NEW i \in 1 .. Len(toRadio'), toRadio'[i].do = "set"
               PROVE  Off(toRadio', keyed', i - 1)
    BY DEF SetsWillBeOffAir
  <2>1. /\ i + 1 \in 1 .. Len(toRadio) /\ toRadio[i + 1].do = "set"
        /\ i \in 1 .. Len(toRadio) /\ (i + 1) - 1 = i
    BY <1>1
  <2>2. Off(toRadio, keyed, (i + 1) - 1)
    BY <2>1 DEF Air, SetsWillBeOffAir
  <2> QED BY <1>3, <2>1, <2>2
<1>5. WillReceive'
  <2> SUFFICES ASSUME ~ptt, over # "keyed"
               PROVE  Off(toRadio', keyed', Len(toRadio'))
    BY DEF WillReceive, Obey
  <2>1. Off(toRadio, keyed, Len(toRadio)) /\ Len(toRadio) \in 1 .. Len(toRadio)
    BY <1>1 DEF Air, WillReceive
  <2> QED BY <1>1, <1>3, <2>1
<1>6. LossIsComplete'
  <2>1. connected /\ connected' /\ toUi \in Seq(Reports)
    BY <1>1 DEF Obey, Air, LossIsComplete, TypeOK
  <2>2. CASE Head(toRadio).do \in {"set", "recall"}
    <3>1. /\ toUi' = toUi \o ReportOf(radio') /\ Len(ReportOf(radio')) = 2
          /\ ReportOf(radio')[1].of = "mode" /\ ReportOf(radio')[2].of = "sub"
      BY <2>2 DEF Obey, ReportOf
    <3>2. ReportOf(radio') \in Seq(Reports)
      BY <2>1, TypeStep, ReportOfType DEF Next, TypeOK
    <3>3. ASSUME NEW i \in 1 .. Len(toUi')
          PROVE  toUi'[i].of # "lost"
      <4>1. /\ Len(toUi) \in Nat /\ Len(toUi') = Len(toUi) + 2
            /\ i <= Len(toUi) => toUi'[i] = toUi[i]
            /\ i > Len(toUi) => toUi'[i] = ReportOf(radio')[i - Len(toUi)]
        <5>1. Len(toUi) \in Nat /\ Len(toUi') = Len(toUi) + Len(ReportOf(radio'))
          BY <2>1, <3>1, <3>2, ConcatProperties, LenProperties
        <5>2. toUi'[i] = IF i <= Len(toUi) THEN toUi[i]
                                           ELSE ReportOf(radio')[i - Len(toUi)]
          BY <2>1, <3>1, <3>2, <5>1, ConcatProperties
        <5> QED BY <3>1, <5>1, <5>2
      <4>2. CASE i <= Len(toUi)
        BY <2>1, <4>1, <4>2 DEF Air, LossIsComplete
      <4>3. CASE i > Len(toUi)
        <5>1. i - Len(toUi) = 1 \/ i - Len(toUi) = 2
          BY <4>1, <4>3
        <5> QED BY <3>1, <4>1, <4>3, <5>1
      <4> QED BY <4>1, <4>2, <4>3
    <3> QED BY <2>1, <3>3 DEF LossIsComplete
  <2>3. CASE Head(toRadio).do \in {"tx", "rx"}
    <3>1. toUi' = Append(toUi, [of |-> "tx", value |-> keyed'])
      BY <2>3 DEF Obey
    <3>2. [of |-> "tx", value |-> keyed'] \in Reports
      BY <1>2 DEF Reports
    <3>3. \A i \in 1 .. Len(toUi') : toUi'[i].of # "lost"
      BY <2>1, <3>1, <3>2, AppendProperties DEF Air, LossIsComplete
    <3> QED BY <2>1, <3>3 DEF LossIsComplete
  <2> QED BY <2>2, <2>3 DEF Obey
<1> QED BY <1>4, <1>5, <1>6 DEF Air

LEMMA AirStep == TypeOK /\ Air /\ [Next]_vars => Air'
<1> SUFFICES ASSUME TypeOK, Air, [Next]_vars PROVE Air'
  OBVIOUS
<1> USE DEF ui, link, k4, history, used
<1>0. session \in Sessions
  BY DEF TypeOK
<1>1. CASE UNCHANGED vars
  BY <1>1 DEF Air, SetsWillBeOffAir, WillReceive, LossIsComplete, vars
<1>2. CASE Open
  <2>1. /\ Enter(session) \in Sessions /\ Update(Enter(session))
        /\ UNCHANGED <<keyed, ptt, connected, toUi, over>>
    BY <1>0, <1>2, EnterLeaveType DEF Open
  <2> QED BY <2>1, UpdateKeepsAir
<1>3. CASE Close
  <2>1. Leave(session) \in Sessions /\ Update(Leave(session))
    BY <1>0, <1>3, EnterLeaveType DEF Close
  <2>2. over' = over \/ (over = "armed" /\ over' = "done")
    BY <1>3 DEF Close
  <2> QED BY <1>3, <2>1, <2>2, UpdateKeepsAir DEF Close
<1>4. CASE Tick
  <2>1. Update(session) /\ UNCHANGED <<keyed, ptt, connected, toUi, over>>
    BY <1>4 DEF Tick
  <2> QED BY <1>0, <2>1, UpdateKeepsAir
<1>5. CASE Recall
  BY <1>5, AppendKeepsAir DEF Recall
<1>6. CASE StartOver \/ Finish
  <2>1. /\ UNCHANGED <<ptt, connected, toRadio, toUi, keyed, entry>>
        /\ over # "keyed" /\ over' # "keyed"
    BY <1>6 DEF StartOver, Finish, Busy
  <2> QED BY <2>1 DEF Air, SetsWillBeOffAir, WillReceive, LossIsComplete
<1>7. CASE Press
  BY <1>7, AppendKeepsAir DEF Press
<1>8. CASE Release
  BY <1>8, AppendKeepsAir DEF Release
<1>9. CASE Key
  BY <1>9, AppendKeepsAir DEF Key
<1>10. CASE Unkey
  <2>1. CASE over = "keyed"
    BY <1>10, <2>1, AppendKeepsAir DEF Unkey
  <2>2. CASE over # "keyed"
    BY <1>10, <2>2
       DEF Unkey, Air, SetsWillBeOffAir, WillReceive, LossIsComplete
  <2> QED BY <2>1, <2>2
<1>11. CASE Hear
  <2>1. /\ toUi \in Seq(Reports) /\ toUi # <<>> /\ toUi' = Tail(toUi)
        /\ Head(toUi) = toUi[1] /\ 1 \in 1 .. Len(toUi)
        /\ \A i \in 1 .. Len(toUi') :
               i + 1 \in 1 .. Len(toUi) /\ toUi'[i] = toUi[i + 1]
    BY <1>11, HeadTailProperties, EmptySeq, LenProperties DEF Hear, TypeOK
  <2>2. LossIsComplete'
    BY <1>11, <2>1 DEF Hear, Air, LossIsComplete
  <2>3. SetsWillBeOffAir'
    BY <1>11 DEF Hear, Air, SetsWillBeOffAir
  <2>4. WillReceive'
    <3>1. CASE Head(toUi).of = "lost"
      <4>1. toRadio = <<>> /\ ~keyed
        BY <2>1, <3>1 DEF Air, LossIsComplete
      <4> QED BY <1>11, <4>1 DEF Hear, WillReceive, Off
    <3>2. CASE Head(toUi).of # "lost"
      BY <1>11, <3>2 DEF Hear, Air, WillReceive
    <3> QED BY <3>1, <3>2
  <2> QED BY <2>2, <2>3, <2>4 DEF Air
<1>12. CASE Lose
  BY <1>12 DEF Lose, Air, SetsWillBeOffAir, WillReceive, LossIsComplete, Off
<1>13. CASE Connect
  <2>1. /\ toUi' = ReportOf(radio') /\ Len(toUi') = 2
        /\ toUi'[1].of = "mode" /\ toUi'[2].of = "sub"
    BY <1>13 DEF Connect, ReportOf
  <2>2. \A i \in 1 .. Len(toUi') : i = 1 \/ i = 2
    BY <2>1
  <2> QED BY <1>13, <2>1, <2>2
          DEF Connect, Air, SetsWillBeOffAir, WillReceive, LossIsComplete
<1>14. CASE Obey
  BY <1>14, ObeyKeepsAir
<1> QED BY <1>1, <1>2, <1>3, <1>4, <1>5, <1>6, <1>7, <1>8, <1>9, <1>10, <1>11,
           <1>12, <1>13, <1>14 DEF Next

(***************************************************************************)
(* The reports and the mode of entry                                       *)
(***************************************************************************)
LEMMA ToldStep == IInv /\ [Next]_vars => WillBeTold'
<1> SUFFICES ASSUME IInv, [Next]_vars, connected', NEW f \in {"mode", "sub"}
             PROVE  Tells(toUi', seen', radio', f)
  BY DEF WillBeTold
<1> USE DEF ui, link, k4, history, used
<1>0. /\ TypeOK /\ TypeOK'
      /\ toUi \in Seq(Reports) /\ seen \in Readings /\ radio \in Settings
  BY TypeStep DEF IInv, TypeOK
<1>1. CASE UNCHANGED <<connected, toUi, seen, radio>>
  BY <1>1 DEF IInv, WillBeTold
<1>2. CASE Hear
  <2>1. connected /\ toUi # <<>> /\ Tells(toUi, seen, radio, f)
    BY <1>2 DEF Hear, IInv, WillBeTold
  <2>2. Head(toUi).of # "lost"
    BY <1>0, <2>1, HeadTailProperties, EmptySeq, LenProperties DEF IInv, LossIsComplete
  <2>3. /\ Head(toUi).of = f => seen'[f] = Head(toUi).value
        /\ Head(toUi).of # f => seen'[f] = seen[f]
    BY <1>0, <1>2, <2>2 DEF Hear, Readings
  <2> QED BY <1>0, <1>2, <2>1, <2>3, TellsRead DEF Hear
<1>3. CASE Lose
  BY <1>3 DEF Lose
<1>4. CASE Connect
  <2>1. radio' \in Settings /\ toUi' = <<>> \o ReportOf(radio')
    BY <1>0, <1>4, ReportOfType, EmptySeq, ConcatProperties DEF Connect, TypeOK
  <2> QED BY <2>1, TellsSetting, EmptySeq
<1>5. CASE Obey
  <2>1. connected /\ seen' = seen /\ radio' \in Settings
    BY <1>0, <1>5 DEF Obey, TypeOK
  <2>2. CASE Head(toRadio).do \in {"set", "recall"}
    BY <1>0, <1>5, <2>1, <2>2, TellsSetting DEF Obey
  <2>3. CASE Head(toRadio).do \in {"tx", "rx"}
    <3>1. /\ radio' = radio /\ keyed' \in BOOLEAN
          /\ toUi' = Append(toUi, [of |-> "tx", value |-> keyed'])
      BY <1>5, <2>3 DEF Obey
    <3>2. [of |-> "tx", value |-> keyed'] \in Reports
      BY <3>1 DEF Reports
    <3>3. Tells(toUi, seen, radio, f)
      BY <2>1 DEF IInv, WillBeTold
    <3> QED BY <1>0, <2>1, <3>1, <3>2, <3>3, TellsBeside
  <2> QED BY <1>5, <2>2, <2>3 DEF Obey
<1> QED BY <1>1, <1>2, <1>3, <1>4, <1>5
        DEF Next, vars, Open, Close, Tick, Recall, StartOver, Press, Release,
            Finish, Key, Unkey

(* When nothing is in flight the reading is the K4's setting, and a mode    *)
(* that was given back is the K4's.                                        *)
LEMMA QuietIsTrue ==
    ASSUME IInv, connected, Quiet
    PROVE  /\ seen = radio
           /\ \A e \in Settings : Lands(toRadio, radio, e) => radio = e
<1>1. /\ seen \in Readings /\ radio \in Settings
      /\ Len(toUi) = 0 /\ Len(toRadio) = 0
  BY EmptySeq DEF IInv, TypeOK, Quiet
<1>2. \A f \in {"mode", "sub"} : seen[f] = radio[f]
  BY <1>1 DEF IInv, WillBeTold, Tells
<1>3. seen = radio
  BY <1>1, <1>2 DEF Readings, Settings
<1> QED BY <1>1, <1>3 DEF Lands

(* update(), as opening or closing the screen and the timer call it.       *)
LEMMA UpdateKeepsEntry ==
    ASSUME IInv, NEW s \in Sessions, s.original = session.original, Update(s),
           UNCHANGED <<seen, radio>>,
           over' = over \/ (over = "armed" /\ over' = "done"),
           s.active /\ ~session.active => ~ptt /\ ~seenTx
    PROVE  EntryIsKept'
<1> SUFFICES ASSUME entry' # Unread
             PROVE  EntryIsKept'
  BY DEF EntryIsKept
<1>0. /\ seen \in Readings /\ radio \in Settings /\ toRadio \in Seq(Commands)
      /\ over = "none" => over' = "none"
  BY DEF IInv, TypeOK
<1>1. connected
  BY DEF Update, IInv, LossIsComplete
<1>2. CASE session' = s /\ UNCHANGED <<toRadio, entry>> /\ (Busy \/ ~Due(s))
  <2>1. EntryIsKept /\ entry # Unread
    BY <1>2 DEF IInv
  <2>2. ASSUME s.active PROVE s.original # Unread
    <3>1. CASE session.active
      BY <2>1, <3>1 DEF EntryIsKept
    <3>2. CASE ~session.active /\ s.original = Unread
      <4>1. ~Busy
        BY <2>1, <2>2, <3>2 DEF EntryIsKept, Busy
      <4>2. Due(s)
        BY <2>1, <2>2, <3>2 DEF EntryIsKept, Due, Readable
      <4> QED BY <1>2, <4>1, <4>2
    <3> QED BY <3>1, <3>2
  <2>3. ASSUME ~s.active, s.original = Unread
        PROVE  over' = "none" /\ Lands(toRadio', radio', entry')
    BY <1>0, <1>2, <2>1, <2>3 DEF EntryIsKept
  <2> QED BY <1>2, <2>1, <2>2, <2>3 DEF EntryIsKept
<1>3. CASE TakeOver(s)
  <2>1. Quiet /\ s.active /\ s.original = Unread /\ session'.active
    BY <1>3 DEF TakeOver, Sessions
  <2>2. seen = radio
    BY <1>1, <2>1, QuietIsTrue
  <2>3. session'.original = seen
    BY <1>3 DEF TakeOver, Sessions
  <2>4. entry' = radio
    <3>1. CASE entry = Unread
      BY <1>3, <2>1, <3>1 DEF TakeOver
    <3>2. CASE entry # Unread
      <4>1. ~session.active /\ Lands(toRadio, radio, entry) /\ entry \in Settings
        BY <2>1, <3>2 DEF IInv, EntryIsKept
      <4>2. radio = entry
        BY <1>1, <2>1, <4>1, QuietIsTrue
      <4> QED BY <1>3, <2>1, <3>2, <4>2 DEF TakeOver
    <3> QED BY <3>1, <3>2
  <2>5. seen # Unread /\ seen.mode # None /\ seen.sub # None
    BY <1>0, <2>2, ModeAssumption, SettingsAreReadings DEF Settings
  <2> QED BY <1>0, <2>1, <2>2, <2>3, <2>4, <2>5 DEF EntryIsKept
<1>4. CASE Rearm(s) \/ Reassert(s)
  <2>1. /\ s.active /\ s.original # Unread /\ entry' = entry
        /\ session'.active = s.active /\ session'.original = s.original
    BY <1>4 DEF Rearm, Reassert, Sessions
  <2> QED BY <2>1 DEF IInv, EntryIsKept
<1>5. CASE Restore(s) /\ ~Busy
  <2>1. /\ ~s.active /\ s.original # Unread /\ entry' = entry
        /\ session'.active = s.active /\ session'.original = Unread
        /\ toRadio' = Append(toRadio, SetMode(s.original))
    BY <1>5 DEF Restore, ConnectionLost, Sessions
  <2>2. entry \in Settings /\ s.original = entry
    BY <2>1 DEF IInv, EntryIsKept
  <2>3. over' = "none"
    BY <1>0, <1>5 DEF Busy
  <2>4. Lands(toRadio', radio, entry)
    BY <1>0, <2>1, <2>2, LandsThere, SettingsAreReadings
  <2> QED BY <2>1, <2>2, <2>3, <2>4 DEF IInv, EntryIsKept
<1> QED BY <1>1, <1>2, <1>3, <1>4, <1>5 DEF Update

(* Commands that select no mode disturb nothing of it.                     *)
LEMMA AppendKeepsEntry ==
    ASSUME IInv, NEW do \in {"tx", "rx"},
           toRadio' = Append(toRadio, Command(do)),
           UNCHANGED <<session, seen, radio, entry>>,
           over = "none" => over' = "none"
    PROVE  EntryIsKept'
<1>1. /\ Command(do) \in Commands /\ Command(do).do \notin {"set", "recall"}
      /\ toRadio \in Seq(Commands) /\ radio \in Settings
  BY SettingsAreReadings DEF Command, IInv, TypeOK
<1>2. \A e \in Settings : Lands(toRadio, radio, e) => Lands(toRadio', radio, e)
  BY <1>1, LandsBeside
<1> QED BY <1>2 DEF IInv, EntryIsKept

LEMMA EntryStep == IInv /\ [Next]_vars => EntryIsKept'
<1> SUFFICES ASSUME IInv, [Next]_vars PROVE EntryIsKept'
  OBVIOUS
<1> USE DEF ui, link, k4, history, used
<1>0. /\ TypeOK /\ EntryIsKept
      /\ session \in Sessions /\ seen \in Readings /\ radio \in Settings
      /\ toRadio \in Seq(Commands) /\ toUi \in Seq(Reports)
  BY DEF IInv, TypeOK
<1>1. CASE UNCHANGED vars
  BY <1>0, <1>1 DEF EntryIsKept, vars
<1>2. CASE Open
  <2>1. /\ Enter(session) \in Sessions /\ Update(Enter(session))
        /\ Enter(session).original = session.original
        /\ UNCHANGED <<seen, radio, over>> /\ ~ptt /\ ~seenTx
    BY <1>0, <1>2, EnterLeaveType DEF Open
  <2> QED BY <2>1, UpdateKeepsEntry
<1>3. CASE Close
  <2>1. /\ Leave(session) \in Sessions /\ Update(Leave(session))
        /\ Leave(session).original = session.original
        /\ UNCHANGED <<seen, radio>> /\ ~Leave(session).active
        /\ over' = over \/ (over = "armed" /\ over' = "done")
    BY <1>0, <1>3, EnterLeaveType DEF Close
  <2> QED BY <2>1, UpdateKeepsEntry
<1>4. CASE Tick
  <2>1. Update(session) /\ UNCHANGED <<seen, radio, over>>
    BY <1>4 DEF Tick
  <2> QED BY <1>0, <2>1, UpdateKeepsEntry
<1>5. CASE Recall
  BY <1>0, <1>5 DEF Recall, EntryIsKept
<1>6. CASE StartOver \/ Finish
  BY <1>0, <1>6 DEF StartOver, Finish, EntryIsKept
<1>7. CASE Press \/ Release \/ Key
  BY <1>7, AppendKeepsEntry DEF Press, Release, Key
<1>8. CASE Unkey
  <2>1. CASE over = "keyed"
    BY <1>8, <2>1, AppendKeepsEntry DEF Unkey
  <2>2. CASE over = "armed"
    BY <1>0, <1>8, <2>2 DEF Unkey, EntryIsKept
  <2> QED BY <1>8, <2>1, <2>2 DEF Unkey
<1>9. CASE Hear
  <2>1. Head(toUi) \in Reports /\ Head(toUi) = toUi[1] /\ 1 \in 1 .. Len(toUi)
    BY <1>0, <1>9, HeadTailProperties, EmptySeq, LenProperties DEF Hear
  <2>2. CASE Head(toUi).of = "lost"
    <3>1. entry' = Unread
      BY <1>9, <2>1, <2>2 DEF Hear, IInv, LossIsComplete
    <3> QED BY <3>1 DEF EntryIsKept
  <2>3. CASE Head(toUi).of # "lost"
    <3>1. /\ seen.mode # None => seen'.mode # None
          /\ seen.sub # None => seen'.sub # None
      BY <1>0, <1>9, <2>1, <2>3, ReportKinds, ModeAssumption DEF Hear, Readings
    <3>2. UNCHANGED <<session, entry, over, toRadio, radio>>
      BY <1>9, <2>3 DEF Hear
    <3> QED BY <1>0, <3>1, <3>2 DEF EntryIsKept
  <2> QED BY <2>2, <2>3
<1>10. CASE Lose \/ Connect
  BY <1>10 DEF Lose, Connect, IInv, LossIsComplete, EntryIsKept
<1>11. CASE Obey
  <2>1. /\ toRadio # <<>> /\ toRadio' = Tail(toRadio) /\ radio' \in Settings
        /\ UNCHANGED <<session, entry, over, seen>>
        /\ Head(toRadio) \in Commands
    BY <1>0, <1>11, TypeStep, HeadTailProperties DEF Obey, TypeOK
  <2>2. Head(toRadio).do \notin {"set", "recall"} => radio' = radio
    BY <1>11 DEF Obey
  <2>3. ASSUME NEW e \in Settings, Head(toRadio) = SetMode(e)
        PROVE  radio' = e
    BY <1>11, <2>3, ModeAssumption DEF Obey, SetMode, Settings
  <2>4. \A e \in Settings : Lands(toRadio, radio, e) => Lands(toRadio', radio', e)
    BY <1>0, <2>1, <2>2, <2>3, LandsServed
  <2> QED BY <1>0, <2>1, <2>4 DEF EntryIsKept
<1> QED BY <1>1, <1>2, <1>3, <1>4, <1>5, <1>6, <1>7, <1>8, <1>9, <1>10, <1>11
        DEF Next

(***************************************************************************)
(* The theorems                                                            *)
(***************************************************************************)
LEMMA InitIInv == Init => IInv
<1> SUFFICES ASSUME Init PROVE IInv
  OBVIOUS
<1>1. TypeOK
  BY InitType
<1>2. SetsWillBeOffAir /\ WillReceive /\ LossIsComplete
  BY DEF Init, SetsWillBeOffAir, WillReceive, LossIsComplete, Off
<1>3. WillBeTold /\ EntryIsKept
  BY DEF Init, WillBeTold, EntryIsKept
<1> QED BY <1>1, <1>2, <1>3 DEF IInv

LEMMA NextIInv == IInv /\ [Next]_vars => IInv'
BY TypeStep, AirStep, ToldStep, EntryStep DEF IInv, Air

LEMMA SpecIInv == Spec => []IInv
BY InitIInv, NextIInv, PTL DEF Spec

\* Every variable stays within its type.
THEOREM ModeTypes == Spec => []TypeOK
<1>1. IInv => TypeOK
  BY DEF IInv
<1> QED BY <1>1, SpecIInv, PTL

\* However old the reports are that update() decides on, no mode command of the
\* module reaches a K4 that transmits for this app.
THEOREM NeverSetsOnAir == Spec => []SetsOffAir
<1>1. IInv => SetsOffAir
  <2> SUFFICES ASSUME IInv, toRadio # <<>>, Head(toRadio).do = "set"
               PROVE  ~keyed
    BY DEF SetsOffAir
  <2>1. Head(toRadio) = toRadio[1] /\ 1 \in 1 .. Len(toRadio)
    BY HeadTailProperties, EmptySeq, LenProperties DEF IInv, TypeOK
  <2>2. Off(toRadio, keyed, 1 - 1)
    BY <2>1 DEF IInv, SetsWillBeOffAir
  <2> QED BY <2>2 DEF Off
<1> QED BY <1>1, SpecIInv, PTL

\* A mode that was taken over with nothing in flight is the K4's again once the
\* restoration is obeyed, after any number of bands, overs and reopenings.
THEOREM ModeComesBack == Spec => []RestoresEntry
<1>1. IInv => RestoresEntry
  <2> SUFFICES ASSUME IInv, ~session.active, session.original = Unread,
                      toRadio = <<>>, entry # Unread
               PROVE  radio = entry
    BY DEF RestoresEntry
  <2>1. Lands(toRadio, radio, entry) /\ Len(toRadio) = 0
    BY EmptySeq DEF IInv, EntryIsKept
  <2> QED BY <2>1 DEF Lands
<1> QED BY <1>1, SpecIInv, PTL

=============================================================================

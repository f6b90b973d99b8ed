-------------------------- MODULE Ft8ContactProofs --------------------------
(***************************************************************************)
(* What holds of Ft8Contact for every set of stations and of reports, any  *)
(* number of retries, operator actions and faults on the air.              *)
(*                                                                         *)
(* A contact is complete when each station has the other's report and      *)
(* knows that its own was taken.  No station sees the other's session: it  *)
(* has the messages it decoded, some of them late, repeated or lost.  The  *)
(* invariant says what each session and each message rests on, in terms of *)
(* two histories, the reports that went out and those that were taken.     *)
(***************************************************************************)
EXTENDS Ft8Contact, SequenceTheorems, WellFoundedInduction, TLAPS

(***************************************************************************)
(* Numbers.                                                                *)
(***************************************************************************)
(* A set of numbers has a least.                                           *)
LEMMA Least ==
    ASSUME NEW T, T \subseteq Nat, T # {}
    PROVE  \E x \in T : \A y \in T : x <= y
<1> DEFINE R == OpToRel(<, Nat)
<1>1. IsWellFoundedOn(R, Nat)
  BY NatLessThanWellFounded
<1>2. PICK x \in T : \A y \in T : ~ (<<y, x>> \in R)
  <2> HIDE DEF R
  <2> QED BY <1>1, WFMin
<1>3. \A y \in T : y < x => <<y, x>> \in R
  BY Zenon DEF OpToRel
<1> HIDE DEF R
<1>4. \A y \in T : ~(y < x)
  BY <1>2, <1>3, Zenon
<1>5. x \in Nat /\ \A y \in T : y \in Nat
  BY <1>2
<1>6. \A y \in T : x <= y
  BY <1>4, <1>5, SMT
<1> QED
  BY <1>6, <1>2

(* What holds at 0 and is handed on holds at n.                            *)
LEMMA Upward ==
    ASSUME NEW n \in Nat, NEW P, 0 \in P, \A i \in 0 .. (n - 1) : i \in P => i + 1 \in P
    PROVE  n \in P
<1> DEFINE T == {i \in 0..n : i \notin P}
<1>1. SUFFICES ASSUME T # {} PROVE FALSE
  OBVIOUS
<1>2. PICK x \in T : \A y \in T : x <= y
  <2> T \subseteq Nat OBVIOUS
  <2> HIDE DEF T
  <2> QED BY <1>1, Least
<1>3. x # 0 /\ x \in Nat
  OBVIOUS
<1>4. x - 1 \notin T
  BY <1>2, <1>3
<1> QED
  BY <1>3, <1>4

(***************************************************************************)
(* Decodes that were kept are taken one by one.                            *)
(***************************************************************************)
IsRun(f, s, q, kept, n) ==
    f = [i \in 0 .. n |-> IF i = 0 THEN q ELSE Receive(s, f[i - 1], kept[i])]

(* There is such a run, however many were kept: ReceiveAll's is one.       *)
LEMMA RunExists ==
    ASSUME NEW s, NEW q, NEW kept, NEW n \in Nat
    PROVE  \E f : IsRun(f, s, q, kept, n)
<1> DEFINE P == {i \in Nat : \E f : IsRun(f, s, q, kept, i)}
<1>1. 0 \in P
  <2>1. IsRun([i \in 0 .. 0 |-> q], s, q, kept, 0)
    BY DEF IsRun
  <2> QED BY <2>1
<1>2. ASSUME NEW i \in 0 .. (n - 1), i \in P PROVE i + 1 \in P
  <2>1. PICK f : IsRun(f, s, q, kept, i)
    BY <1>2
  <2> DEFINE g == [j \in 0 .. (i + 1) |->
                     IF j = i + 1 THEN Receive(s, f[i], kept[i + 1]) ELSE f[j]]
  <2>2. \A j \in 0 .. i : g[j] = f[j]
    OBVIOUS
  <2>3. \A j \in 0 .. (i + 1) : g[j] = IF j = 0 THEN q ELSE Receive(s, g[j - 1], kept[j])
    <3>1. ASSUME NEW j \in 0 .. i PROVE g[j] = IF j = 0 THEN q ELSE Receive(s, g[j - 1], kept[j])
      <4>1. f[j] = IF j = 0 THEN q ELSE Receive(s, f[j - 1], kept[j])
        BY <2>1 DEF IsRun
      <4>2. j # 0 => g[j - 1] = f[j - 1]
        OBVIOUS
      <4> HIDE DEF g
      <4> QED BY <4>1, <4>2, <2>2
    <3>2. g[i + 1] = Receive(s, g[i], kept[i + 1])
      BY <2>2
    <3> HIDE DEF g
    <3> QED BY <3>1, <3>2
  <2>4. IsRun(g, s, q, kept, i + 1)
    <3>1. g = [j \in 0 .. (i + 1) |-> g[j]]
      OBVIOUS
    <3> HIDE DEF g
    <3> QED BY <2>3, <3>1 DEF IsRun
  <2> HIDE DEF g
  <2> QED BY <2>4
<1> HIDE DEF P
<1>3. n \in P
  BY <1>1, <1>2, Upward
<1> QED BY <1>3 DEF P

(* What holds of the session and every decode kept hands on, holds at the end. *)
LEMMA ReceiveAllKeeps ==
    ASSUME NEW s, NEW q, NEW kept, Len(kept) \in Nat, NEW G, q \in G,
           \A x \in G : \A i \in 1 .. Len(kept) : Receive(s, x, kept[i]) \in G
    PROVE  ReceiveAll(s, q, kept) \in G
<1> DEFINE n == Len(kept)
           after == CHOOSE f : IsRun(f, s, q, kept, n)
           P == {i \in Nat : i <= n => after[i] \in G}
<1>1. ReceiveAll(s, q, kept) = after[n]
  BY Zenon DEF ReceiveAll, IsRun
<1>2. IsRun(after, s, q, kept, n)
  <2>1. \E f : IsRun(f, s, q, kept, n)
    BY RunExists
  <2> QED BY <2>1, Zenon
<1> HIDE DEF after, n
<1>n. n \in Nat
  BY DEF n
<1>3. /\ after[0] = q
      /\ \A i \in 1 .. n : after[i] = Receive(s, after[i - 1], kept[i])
  BY <1>2, <1>n DEF IsRun
<1>4. 0 \in P
  BY <1>3
<1>5. ASSUME NEW i \in 0 .. (n - 1), i \in P PROVE i + 1 \in P
  BY <1>3, <1>5, <1>n DEF n
<1>6. n \in P
  <2> HIDE DEF P
  <2> QED BY <1>4, <1>5, <1>n, Upward
<1> QED BY <1>1, <1>6, <1>n

(***************************************************************************)
(* What a session rests on: A are the reports that went out, C which       *)
(* reports were taken from whom.                                           *)
(***************************************************************************)
Reporting == {"report", "Rreport"}
Assuring == {"Rreport", "RRR", "RR73", "73"}
Closing == {"RRR", "RR73", "73"}

(* A report went out to its addressee; a station took one from another.    *)
Delivered(A, from, to, r) == \E m \in A : CarriesReport(m, from, to, r)
HasTaken(C, s, t) == \E r \in Reports : <<s, t, r>> \in C

(* A message says what its sender may say: who sends a report has one, and *)
(* who assures a report has taken one.                                     *)
WellFormed(m, C) ==
    /\ m.kind \in Reporting <=> m.report # None
    /\ m.kind \in Assuring => HasTaken(C, m.from, m.to)

(* A decode is of a message that went out, and that its sender may say.    *)
Sound(d, A, C) ==
    /\ WellFormed(d.msg, C)
    /\ d.msg.report # None => d.msg \in A

(* What no message and no operator can undo about a session: it stops at   *)
(* its retries, it is over when it is complete, and reports belong to a    *)
(* contact.                                                                *)
Shaped(q) ==
    /\ q \in Sessions
    /\ q.armed => q.retries < MaxRetries
    /\ q.complete => ~q.armed
    /\ q.dx = None => q.sent = None /\ q.received = None

(* Both reports are there, ours went out, and the partner took one of ours. *)
Exchanged(s, q, A, C) ==
    /\ q.received # None
    /\ q.sent # None
    /\ Delivered(A, s, q.dx, q.sent)
    /\ HasTaken(C, q.dx, s)

(* A session of s holds nothing it was not told, and says nothing that it  *)
(* has no right to.                                                        *)
Justified(s, q, A, C) ==
    /\ q.received # None => q.dx # None /\ Delivered(A, q.dx, s, q.received)
    /\ q.next # NoMessage => q.next.from = s
    /\ q.next.kind \in Reporting <=> q.next.report # None
    /\ q.next.report # None => q.next.report = q.sent /\ q.next.to = q.dx
    /\ q.next.kind \in Assuring => q.next.to = q.dx /\ q.received # None
    /\ q.next.kind \in Closing => Exchanged(s, q, A, C)
    /\ q.last.report # None => q.last \in A /\ q.last.from = s /\ q.last.to = q.dx
    /\ q.last.kind \in Reporting => q.last.report # None
    /\ q.last.kind \in {"RRR", "RR73"} => Exchanged(s, q, A, C)
    /\ q.complete => Exchanged(s, q, A, C)

(* More that went out and was taken takes nothing away.                    *)
LEMMA Grows ==
    ASSUME NEW A, NEW B, A \subseteq B, NEW C, NEW D, C \subseteq D
    PROVE  /\ \A s, q : Justified(s, q, A, C) => Justified(s, q, B, D)
           /\ \A m : WellFormed(m, C) => WellFormed(m, D)
           /\ \A d : Sound(d, A, C) => Sound(d, B, D)
<1>1. \A f, t, r : Delivered(A, f, t, r) => Delivered(B, f, t, r)
  BY DEF Delivered
<1>2. \A s, t : HasTaken(C, s, t) => HasTaken(D, s, t)
  BY DEF HasTaken
<1>3. \A s, q : Exchanged(s, q, A, C) => Exchanged(s, q, B, D)
  BY <1>1, <1>2 DEF Exchanged
<1>4. \A s, q : Justified(s, q, A, C) => Justified(s, q, B, D)
  BY <1>1, <1>3 DEF Justified
<1> QED BY <1>2, <1>4 DEF WellFormed, Sound

(***************************************************************************)
(* The operations on a session.                                            *)
(***************************************************************************)
(* Nothing sent or heard: nothing to justify.                              *)
LEMMA ClearedIs ==
    ASSUME NEW q \in Sessions
    PROVE  /\ Cleared(q) \in Sessions
           /\ Cleared(q) = [NewSession EXCEPT !.auto = q.auto, !.even = q.even]
           /\ Shaped(Cleared(q)) /\ Shaped(NewSession)
           /\ \A s, A, C : Justified(s, Cleared(q), A, C) /\ Justified(s, NewSession, A, C)
           /\ Cleared(q).received = None /\ Cleared(q).sent = None /\ Cleared(q).dx = None
           /\ ~Cleared(q).armed /\ ~Cleared(q).complete /\ Cleared(q).last = NoMessage
           /\ Cleared(q).retries = 0
<1> USE SessionAssumption
<1>1. NoMessage \in Messages
  BY DEF Messages
<1>2. NewSession \in Sessions
  BY <1>1 DEF NewSession, Sessions
<1>3. Cleared(q) \in Sessions
  BY <1>2 DEF Cleared, Sessions
<1>4. \A x \in {Cleared(q), NewSession} :
        /\ x.dx = None /\ x.sent = None /\ x.received = None /\ ~x.armed /\ ~x.complete
        /\ x.next = NoMessage /\ x.last = NoMessage /\ x.retries = 0
  <2>1. /\ NewSession.dx = None /\ NewSession.sent = None /\ NewSession.received = None
        /\ ~NewSession.armed /\ ~NewSession.complete
        /\ NewSession.next = NoMessage /\ NewSession.last = NoMessage /\ NewSession.retries = 0
    BY DEF NewSession
  <2>2. /\ Cleared(q).dx = None /\ Cleared(q).sent = None /\ Cleared(q).received = None
        /\ ~Cleared(q).armed /\ ~Cleared(q).complete
        /\ Cleared(q).next = NoMessage /\ Cleared(q).last = NoMessage
        /\ Cleared(q).retries = 0
    BY <1>2, <2>1 DEF Cleared, Sessions
  <2> QED BY <2>1, <2>2
<1>5. NoMessage.kind = "none" /\ NoMessage.report = None
  BY DEF NoMessage, Message
<1>6. \A x \in {Cleared(q), NewSession} : Shaped(x)
  BY <1>2, <1>3, <1>4 DEF Shaped
<1>7. \A x \in {Cleared(q), NewSession} : \A s, A, C : Justified(s, x, A, C)
  BY <1>4, <1>5 DEF Justified, Reporting, Assuring, Closing
<1> QED BY <1>3, <1>4, <1>6, <1>7 DEF Cleared

(* A station is taken up from what it was heard to send.                   *)
LEMMA SelectedIs ==
    ASSUME NEW me \in Stations, NEW q \in Sessions, NEW d \in Decodes, d.msg.from \in Stations
    PROVE  LET x == Selected(me, q, d) IN
           /\ Shaped(x) /\ ~x.armed /\ ~x.complete /\ x.retries = 0 /\ x.dx = d.msg.from
           /\ x.received # None =>
                <<me, x.dx, x.received>> \in Stations \X Stations \X Reports
           /\ \A A, C : Sound(d, A, C) => Justified(me, x, A, C)
<1> DEFINE x == Selected(me, q, d)
           heard == [Cleared(q) EXCEPT
                       !.dx = d.msg.from,
                       !.even = (d.slot % 2 # 0),
                       !.sent = d.snr,
                       !.received = IF d.msg.to = me /\ d.msg.kind = "report"
                                    THEN d.msg.report ELSE None]
           o == OpeningMessage(me, heard, d.msg)
<1> USE SessionAssumption
<1>1. /\ d.msg \in Messages /\ d.snr \in Reports \cup {None} /\ d.slot \in {0, 1}
      /\ d.msg.report \in Reports \cup {None}
  BY DEF Decodes, Messages, Slots, NoMessage, Message
<1>2. /\ heard \in Sessions
      /\ heard.dx = d.msg.from /\ heard.sent = d.snr
      /\ heard.received = IF d.msg.to = me /\ d.msg.kind = "report" THEN d.msg.report ELSE None
      /\ ~heard.armed /\ ~heard.complete /\ heard.last = NoMessage
      /\ heard.retries = 0
  <2>1. Cleared(q) \in Sessions /\ ~Cleared(q).armed /\ ~Cleared(q).complete
        /\ Cleared(q).last = NoMessage /\ Cleared(q).retries = 0
    BY ClearedIs
  <2> DEFINE c == Cleared(q)
             report == IF d.msg.to = me /\ d.msg.kind = "report" THEN d.msg.report ELSE None
             e == d.slot % 2 # 0
  <2>2. heard = [c EXCEPT !.dx = d.msg.from, !.even = e, !.sent = d.snr, !.received = report]
    OBVIOUS
  <2>3. report \in Reports \cup {None} /\ e \in BOOLEAN
    BY <1>1
  <2>4. c \in Sessions /\ ~c.armed /\ ~c.complete /\ c.last = NoMessage /\ c.retries = 0
    BY <2>1
  <2> HIDE DEF heard, c, report, e
  <2>5. /\ heard \in Sessions
        /\ heard.dx = d.msg.from /\ heard.sent = d.snr /\ heard.received = report
        /\ heard.armed = c.armed /\ heard.complete = c.complete /\ heard.last = c.last
        /\ heard.retries = c.retries
    BY <1>1, <2>2, <2>3, <2>4 DEF Sessions
  <2> QED BY <2>4, <2>5 DEF report
<1>3. /\ o \in Messages /\ o.from = me /\ o.to = heard.dx
      /\ o.kind \in {"grid", "report", "Rreport"}
      /\ o.kind = "grid" => o.report = None
      /\ o.kind \in Reporting => o.report = heard.sent /\ heard.sent # None
      /\ o.kind = "Rreport" => d.msg.to = me /\ d.msg.kind = "report"
  <2> HIDE DEF heard
  <2> QED BY <1>2 DEF OpeningMessage, Directed, Message, Messages, Kinds, Sessions, Reporting
<1>4. x = [heard EXCEPT !.next = o]
  BY DEF Selected
<1> HIDE DEF heard, o, x
<1>5. /\ x \in Sessions /\ x.next = o /\ x.dx = heard.dx /\ x.sent = heard.sent
      /\ x.received = heard.received /\ ~x.armed /\ ~x.complete /\ x.last = NoMessage
      /\ x.retries = 0
  BY <1>2, <1>3, <1>4 DEF Sessions
<1>6. Shaped(x) /\ ~x.armed /\ ~x.complete /\ x.retries = 0 /\ x.dx = d.msg.from
  BY <1>2, <1>5 DEF Shaped
<1>7. x.received # None => <<me, x.dx, x.received>> \in Stations \X Stations \X Reports
  BY <1>1, <1>2, <1>5
<1>8. ASSUME NEW A, NEW C, Sound(d, A, C) PROVE Justified(me, x, A, C)
  <2>1. NoMessage.kind = "none" /\ NoMessage.report = None
    BY DEF NoMessage, Message
  <2>2. d.msg.kind = "report" => d.msg.report # None /\ d.msg \in A
    BY <1>8 DEF Sound, WellFormed, Reporting
  <2>3. x.received # None => x.dx # None /\ Delivered(A, x.dx, me, x.received)
    BY <1>2, <1>5, <2>2 DEF Delivered, CarriesReport
  <2>4. x.next.kind \notin Closing /\ x.last = NoMessage /\ ~x.complete
    BY <1>3, <1>5 DEF Closing
  <2>5. /\ x.next.from = me
        /\ x.next.kind \in Reporting <=> x.next.report # None
        /\ x.next.report # None => x.next.report = x.sent /\ x.next.to = x.dx
        /\ x.next.kind \in Assuring => x.next.to = x.dx /\ x.received # None
    BY <1>2, <1>3, <1>5, <2>2 DEF Reporting, Assuring
  <2> QED BY <2>1, <2>3, <2>4, <2>5 DEF Justified, Reporting
<1> QED BY <1>6, <1>7, <1>8 DEF x

(* What a session gains from a message of its partner.                     *)
LEMMA HeardIs ==
    ASSUME NEW me \in Stations, NEW q, Shaped(q), NEW m \in Messages,
           m.to = me, m.from = q.dx, q.dx \in Stations
    PROVE  LET x == Heard(me, q, m) IN
           /\ Shaped(x) /\ x.dx = q.dx /\ x.sent = q.sent
           /\ \A A, C : Justified(me, q, A, C) /\ WellFormed(m, C) /\ (m.report # None => m \in A)
                          => Justified(me, x, A, C)
<1> DEFINE x == Heard(me, q, m)
           a == Answer(me, q, m)
           done == m.kind = "73" /\ q.last.kind \in {"RRR", "RR73"}
           y == Advanced(q, a)
<1> USE SessionAssumption
<1>1. /\ q \in Sessions /\ q.sent \in Reports \cup {None} /\ q.received \in Reports \cup {None}
      /\ q.next \in Messages /\ q.last \in Messages /\ q.retries \in 0 .. MaxRetries
      /\ q.armed \in BOOLEAN /\ q.complete \in BOOLEAN
  BY DEF Shaped, Sessions
<1>2. m.report \in Reports \cup {None}
  BY DEF Messages, NoMessage, Message
<1>3. \/ a = NoMessage
      \/ a = Directed(me, q, "report", q.sent) /\ q.sent # None
      \/ a = Directed(me, q, "Rreport", q.sent) /\ q.sent # None /\ m.kind = "report"
      \/ \E k \in {"RRR", "RR73"} :
            a = Directed(me, q, k, None) /\ m.kind = "Rreport" /\ SentOurReport(q)
      \/ a = Directed(me, q, "73", None) /\ m.kind \in {"RRR", "RR73"} /\ SentOurRReport(me, q)
  BY DEF Answer
<1>4. /\ a \in Messages
      /\ a # NoMessage => a.from = me /\ a.to = q.dx
      /\ a.kind \in Reporting <=> a.report # None
      /\ a.report # None => a.report = q.sent
      /\ a.kind = "Rreport" => m.kind = "report"
      /\ a.kind \in {"RRR", "RR73"} => m.kind = "Rreport" /\ SentOurReport(q)
      /\ a.kind = "73" => m.kind \in {"RRR", "RR73"} /\ SentOurRReport(me, q)
  BY <1>1, <1>3 DEF Directed, Message, Messages, NoMessage, Kinds, Reporting
<1>5. CASE done
  <2>1. x = [[q EXCEPT !.armed = FALSE] EXCEPT !.complete = TRUE]
    BY <1>5 DEF Heard, Halted
  <2>2. /\ x \in Sessions /\ x.dx = q.dx /\ x.sent = q.sent /\ x.received = q.received
        /\ x.next = q.next /\ x.last = q.last /\ ~x.armed
    BY <1>1, <2>1 DEF Sessions
  <2>3. ASSUME NEW A, NEW C, Justified(me, q, A, C) PROVE Justified(me, x, A, C)
    <3>1. Exchanged(me, q, A, C)
      BY <1>5, <2>3 DEF Justified
    <3>2. Exchanged(me, x, A, C)
      BY <2>2, <3>1 DEF Exchanged
    <3> HIDE DEF x, done
    <3> QED BY <2>2, <2>3, <3>2 DEF Justified
  <2>4. Shaped(x)
    BY <1>1, <2>2, q.dx # None DEF Shaped
  <2> QED BY <2>2, <2>3, <2>4
<1>6. CASE ~done
  <2>1. x = [y EXCEPT !.received = ReportFrom(q, m)]
    BY <1>6 DEF Heard
  <2>2. /\ y \in Sessions /\ y.dx = q.dx /\ y.sent = q.sent /\ y.last = q.last
        /\ y.complete = q.complete /\ y.armed = q.armed /\ y.next \in {q.next, a}
        /\ y.retries \in {0, q.retries}
    <3> HIDE DEF a
    <3>1. CASE a = NoMessage
      BY <1>1, <3>1 DEF Advanced
    <3>2. CASE a # NoMessage
      <4> DEFINE r == IF a = q.next THEN q.retries ELSE 0
      <4>1. y = [q EXCEPT !.next = a, !.retries = r]
        BY <3>2 DEF Advanced
      <4>2. r \in 0 .. MaxRetries /\ r \in {0, q.retries}
        BY <1>1
      <4> HIDE DEF y, r
      <4> QED BY <1>1, <1>4, <4>1, <4>2 DEF Sessions
    <3> QED BY <3>1, <3>2
  <2>3. ReportFrom(q, m) \in {q.received, m.report}
    BY DEF ReportFrom
  <2> HIDE DEF a, y, done
  <2>4. /\ x \in Sessions /\ x.dx = q.dx /\ x.sent = q.sent /\ x.last = q.last
        /\ x.complete = q.complete /\ x.armed = q.armed /\ x.next \in {q.next, a}
        /\ x.retries \in {0, q.retries} /\ x.received = ReportFrom(q, m)
        /\ (x.next = q.next \/ (a # NoMessage /\ x.next = a))
    <3>1. y.next = q.next \/ (a # NoMessage /\ y.next = a)
      BY <1>1 DEF y, Advanced, Sessions
    <3> HIDE DEF x
    <3> QED BY <1>1, <1>2, <2>1, <2>2, <2>3, <3>1 DEF Sessions
  <2> HIDE DEF x
  <2>5. ASSUME NEW A, NEW C, Justified(me, q, A, C), WellFormed(m, C),
               m.report # None => m \in A
        PROVE  Justified(me, x, A, C)
    <3>1. \/ x.received = q.received
          \/ m.kind \in Reporting /\ x.received = m.report /\ m.report # None /\ m \in A
      BY <2>4, <2>5 DEF ReportFrom, WellFormed, Reporting
    <3>2. x.received # None => x.dx # None /\ Delivered(A, x.dx, me, x.received)
      BY <1>1, <2>4, <2>5, <3>1 DEF Justified, Delivered, CarriesReport
    <3>3. q.received # None => x.received # None
      BY <3>1
    <3>4. Exchanged(me, q, A, C) => Exchanged(me, x, A, C)
      BY <2>4, <3>3 DEF Exchanged
    <3>5. SentOurReport(q) => q.sent # None /\ Delivered(A, me, q.dx, q.sent)
      BY <2>5 DEF SentOurReport, Justified, Delivered, CarriesReport, Reporting
    <3>6. m.kind \in Assuring => HasTaken(C, q.dx, me)
      BY <2>5 DEF WellFormed
    <3>7. a.kind = "Rreport" => x.received # None
      BY <1>4, <2>4, <2>5 DEF ReportFrom, WellFormed, Reporting
    <3>8. a.kind \in {"RRR", "RR73"} => Exchanged(me, x, A, C)
      <4>1. ASSUME a.kind \in {"RRR", "RR73"} PROVE Exchanged(me, x, A, C)
        <5>1. m.kind = "Rreport" /\ SentOurReport(q)
          BY <1>4, <4>1
        <5>2. x.received # None
          BY <2>4, <2>5, <5>1 DEF ReportFrom, WellFormed, Reporting
        <5> QED BY <2>4, <3>5, <3>6, <5>1, <5>2 DEF Exchanged, Assuring
      <4> QED BY <4>1
    <3>9. a.kind = "73" => Exchanged(me, x, A, C)
      <4>1. ASSUME a.kind = "73" PROVE Exchanged(me, x, A, C)
        <5>1. m.kind \in {"RRR", "RR73"} /\ SentOurRReport(me, q)
          BY <1>4, <4>1
        <5>2. q.received # None /\ q.sent # None /\ q.last.report = q.sent
          BY <5>1 DEF SentOurRReport, Directed, Message
        <5>3. Delivered(A, me, q.dx, q.sent)
          BY <2>5, <5>2 DEF Justified, Delivered, CarriesReport
        <5> QED BY <2>4, <3>3, <3>6, <5>1, <5>2, <5>3 DEF Exchanged, Assuring
      <4> QED BY <4>1
    <3>10. /\ x.next # NoMessage => x.next.from = me
           /\ x.next.kind \in Reporting <=> x.next.report # None
           /\ x.next.report # None => x.next.report = x.sent /\ x.next.to = x.dx
           /\ x.next.kind \in Assuring => x.next.to = x.dx /\ x.received # None
           /\ x.next.kind \in Closing => Exchanged(me, x, A, C)
      <4>1. CASE x.next = q.next
        BY <2>4, <2>5, <3>3, <3>4, <4>1 DEF Justified
      <4>2. CASE x.next = a /\ a # NoMessage
        <5>1. a.kind \in Closing => Exchanged(me, x, A, C)
          BY <3>8, <3>9 DEF Closing
        <5>2. a.kind \in Assuring => x.received # None
          BY <3>7, <5>1 DEF Assuring, Closing, Exchanged
        <5> QED BY <1>4, <2>4, <4>2, <5>1, <5>2
      <4> QED BY <2>4, <4>1, <4>2
    <3>11. /\ x.last.report # None => x.last \in A /\ x.last.from = me /\ x.last.to = x.dx
           /\ x.last.kind \in Reporting => x.last.report # None
           /\ x.last.kind \in {"RRR", "RR73"} => Exchanged(me, x, A, C)
           /\ x.complete => Exchanged(me, x, A, C)
      BY <2>4, <2>5, <3>4 DEF Justified
    <3> QED BY <3>2, <3>10, <3>11 DEF Justified
  <2>6. Shaped(x)
    BY <1>1, <2>4, q.dx # None DEF Shaped
  <2> QED BY <2>4, <2>5, <2>6 DEF x
<1> QED BY <1>5, <1>6

(* What is not looked at may change.                                       *)
LEMMA JustifiedAlike ==
    ASSUME NEW s, NEW q, NEW x, NEW A, NEW C, Justified(s, q, A, C),
           x.dx = q.dx, x.next = q.next, x.last = q.last, x.received = q.received,
           x.complete => q.complete, q.sent # None => x.sent = q.sent
    PROVE  Justified(s, x, A, C)
<1>1. Exchanged(s, q, A, C) => Exchanged(s, x, A, C)
  BY DEF Exchanged
<1>2. q.next.report # None => x.next.report = x.sent
  BY DEF Justified
<1> QED BY <1>1, <1>2 DEF Justified

(* Receive keeps all of it, and the partner and the report once there are any. *)
LEMMA ReceiveIs ==
    ASSUME NEW me \in Stations, NEW q, Shaped(q), NEW d \in Decodes
    PROVE  LET x == Receive(me, q, d) IN
           /\ Shaped(x)
           /\ q.dx # None => x.dx = q.dx /\ (q.sent # None => x.sent = q.sent)
           /\ \A A, C : Justified(me, q, A, C) /\ Sound(d, A, C) => Justified(me, x, A, C)
<1> DEFINE x == Receive(me, q, d)
           r == [q EXCEPT !.taken = @ /\ (d.again \/ d.msg.from # q.dx)]
           caller == IF AnswersFirst(me, r)
                     THEN [Selected(me, r, d) EXCEPT !.armed = r.armed]
                     ELSE r
           ours == [caller EXCEPT !.taken = TRUE, !.sent = IF @ = None THEN d.snr ELSE @]
           ignores == \/ ~r.auto \/ ~r.armed \/ r.complete
                      \/ d.msg.to # me
                      \/ r.taken /\ d.msg.from = r.dx
<1> USE SessionAssumption
<1>1. x = IF ignores THEN r
          ELSE IF d.msg.from # caller.dx THEN caller ELSE Heard(me, ours, d.msg)
  BY DEF Receive
<1>2. /\ q \in Sessions /\ q.dx \in Stations \cup {None} /\ q.sent \in Reports \cup {None}
      /\ q.received \in Reports \cup {None} /\ q.taken \in BOOLEAN
      /\ q.retries \in 0 .. MaxRetries /\ 0 < MaxRetries /\ MaxRetries \in Nat
  BY DEF Shaped, Sessions
<1>3. /\ d.msg \in Messages /\ d.snr \in Reports \cup {None} /\ d.again \in BOOLEAN
      /\ d.msg.to # None => d.msg.from \in Stations
  BY DEF Decodes, Messages, NoMessage, Message
<1>4. /\ r \in Sessions /\ r.dx = q.dx /\ r.sent = q.sent /\ r.received = q.received
      /\ r.next = q.next /\ r.last = q.last /\ r.armed = q.armed /\ r.complete = q.complete
      /\ r.retries = q.retries
  BY <1>2, <1>3 DEF Sessions
<1>5. Shaped(r) /\ \A A, C : Justified(me, q, A, C) => Justified(me, r, A, C)
  <2> HIDE DEF r
  <2>1. Shaped(r)
    BY <1>4 DEF Shaped
  <2> QED BY <1>4, <2>1, JustifiedAlike
<1> HIDE DEF r
<1>6. ASSUME ~ignores
      PROVE  /\ Shaped(caller)
             /\ q.dx # None => caller = r
             /\ \A A, C : Justified(me, q, A, C) /\ Sound(d, A, C) => Justified(me, caller, A, C)
  <2>1. CASE AnswersFirst(me, r)
    <3> DEFINE y == Selected(me, r, d)
    <3>1. d.msg.from \in Stations
      BY <1>3, <1>6
    <3>2. /\ Shaped(y) /\ ~y.complete /\ y.retries = 0
          /\ \A A, C : Sound(d, A, C) => Justified(me, y, A, C)
      BY <1>4, <3>1, SelectedIs
    <3>3. caller = [y EXCEPT !.armed = r.armed] /\ q.dx = None
      BY <1>4, <2>1 DEF AnswersFirst
    <3> HIDE DEF y, caller
    <3>4. y \in Sessions /\ r.armed \in BOOLEAN
      BY <1>4, <3>2 DEF Shaped, Sessions
    <3>5. /\ caller \in Sessions /\ caller.dx = y.dx /\ caller.sent = y.sent
          /\ caller.received = y.received /\ caller.next = y.next /\ caller.last = y.last
          /\ caller.complete = y.complete /\ caller.retries = y.retries
      BY <3>3, <3>4 DEF Sessions
    <3>6. Shaped(caller)
      BY <1>2, <3>2, <3>5 DEF Shaped
    <3> QED BY <3>2, <3>3, <3>5, <3>6, JustifiedAlike
  <2>2. CASE ~AnswersFirst(me, r)
    BY <1>5, <2>2
  <2> QED BY <2>1, <2>2
<1>7. ASSUME ~ignores, d.msg.from = caller.dx
      PROVE  /\ Shaped(ours) /\ ours.dx = caller.dx
             /\ caller.sent # None => ours.sent = caller.sent
             /\ \A A, C : Justified(me, q, A, C) /\ Sound(d, A, C) => Justified(me, ours, A, C)
  <2> HIDE DEF caller
  <2> DEFINE report == IF caller.sent = None THEN d.snr ELSE caller.sent
  <2>1. ours = [caller EXCEPT !.taken = TRUE, !.sent = report]
    OBVIOUS
  <2>2. caller \in Sessions /\ caller.sent \in Reports \cup {None}
    BY <1>6, <1>7 DEF Shaped, Sessions
  <2>3. report \in Reports \cup {None} /\ (caller.sent # None => report = caller.sent)
    BY <1>3, <2>2
  <2> HIDE DEF ours, report
  <2>4. /\ ours \in Sessions /\ ours.dx = caller.dx /\ ours.sent = report
        /\ ours.received = caller.received /\ ours.next = caller.next /\ ours.last = caller.last
        /\ ours.complete = caller.complete /\ ours.armed = caller.armed
        /\ ours.retries = caller.retries
    BY <2>1, <2>2, <2>3 DEF Sessions
  <2>5. caller.dx \in Stations
    BY <1>3, <1>7
  <2>6. Shaped(ours)
    BY <1>6, <1>7, <2>4, <2>5 DEF Shaped
  <2> HIDE DEF ignores
  <2> QED BY <1>6, <1>7, <2>3, <2>4, <2>6, JustifiedAlike
<1>8. CASE ignores
  BY <1>1, <1>4, <1>5, <1>8
<1>9. CASE ~ignores /\ d.msg.from # caller.dx
  <2> HIDE DEF ignores, caller
  <2> QED BY <1>1, <1>4, <1>6, <1>9
<1>10. CASE ~ignores /\ d.msg.from = caller.dx
  <2>0. x = Heard(me, ours, d.msg) /\ d.msg.to = me /\ d.msg.from \in Stations
    BY <1>1, <1>3, <1>10
  <2> HIDE DEF ignores, caller, ours, x
  <2>1. /\ Shaped(x) /\ x.dx = ours.dx /\ x.sent = ours.sent
        /\ \A A, C : Justified(me, ours, A, C) /\ WellFormed(d.msg, C)
                       /\ (d.msg.report # None => d.msg \in A) => Justified(me, x, A, C)
    BY <1>3, <1>7, <1>10, <2>0, HeardIs
  <2>2. \A A, C : Justified(me, q, A, C) /\ Sound(d, A, C) => Justified(me, x, A, C)
    BY <1>7, <1>10, <2>1 DEF Sound
  <2>3. q.dx # None => x.dx = q.dx /\ (q.sent # None => x.sent = q.sent)
    BY <1>4, <1>6, <1>7, <1>10, <2>1
  <2> QED BY <2>1, <2>2, <2>3 DEF x
<1> QED BY <1>8, <1>9, <1>10

(* What is kept as long as no contact is dropped.                          *)
Keeps(q, x) == q.dx # None => x.dx = q.dx /\ (q.sent # None => x.sent = q.sent)

(* The operations that leave the contact alone.                            *)
LEMMA SameContact ==
    ASSUME NEW q, Shaped(q), NEW x \in Sessions,
           x.dx = q.dx, x.next = q.next, x.last \in {q.last, NoMessage},
           x.received = q.received, x.sent = q.sent, x.complete = q.complete,
           x.armed => x.retries < MaxRetries /\ ~x.complete
    PROVE  /\ Shaped(x) /\ Keeps(q, x)
           /\ \A s, A, C : Justified(s, q, A, C) => Justified(s, x, A, C)
<1>1. Shaped(x) /\ Keeps(q, x)
  BY DEF Shaped, Keeps, Sessions
<1>2. NoMessage.kind = "none" /\ NoMessage.report = None
  BY DEF NoMessage, Message
<1>3. ASSUME NEW s, NEW A, NEW C, Justified(s, q, A, C) PROVE Justified(s, x, A, C)
  <2>1. Exchanged(s, q, A, C) => Exchanged(s, x, A, C)
    BY DEF Exchanged
  <2>2. /\ x.last.report # None => x.last \in A /\ x.last.from = s /\ x.last.to = x.dx
        /\ x.last.kind \in Reporting => x.last.report # None
        /\ x.last.kind \in {"RRR", "RR73"} => Exchanged(s, x, A, C)
    <3>1. CASE x.last = q.last
      BY <1>3, <2>1, <3>1 DEF Justified
    <3>2. CASE x.last = NoMessage
      BY <1>2, <3>2 DEF Reporting
    <3> QED BY <3>1, <3>2
  <2> QED BY <1>3, <2>1, <2>2 DEF Justified
<1> QED BY <1>1, <1>3

(* Ft8Session::halt: no more than the transmission stops.                  *)
LEMMA HaltedIs ==
    ASSUME NEW q, Shaped(q)
    PROVE  /\ Shaped(Halted(q)) /\ Keeps(q, Halted(q))
           /\ \A s, A, C : Justified(s, q, A, C) => Justified(s, Halted(q), A, C)
           /\ ~q.armed => Halted(q) = q
<1> DEFINE x == Halted(q)
<1>1. q \in Sessions
  BY DEF Shaped
<1>2. /\ x \in Sessions /\ x.dx = q.dx /\ x.next = q.next /\ x.last = q.last
      /\ x.received = q.received /\ x.sent = q.sent /\ x.complete = q.complete /\ ~x.armed
  BY <1>1 DEF Halted, Sessions
<1>3. ~q.armed => x = q
  <2> SUFFICES ASSUME ~q.armed PROVE x = q
    OBVIOUS
  <2>1. q.armed = FALSE
    BY <1>1 DEF Sessions
  <2> QED BY <1>1, <2>1 DEF Halted, Sessions
<1> HIDE DEF x
<1>4. /\ Shaped(x) /\ Keeps(q, x)
      /\ \A s, A, C : Justified(s, q, A, C) => Justified(s, x, A, C)
  BY <1>2, SameContact
<1> QED BY <1>3, <1>4 DEF x

(* Ft8Session::arm: the tries are counted anew, nothing else is.           *)
LEMMA ArmedIs ==
    ASSUME NEW q, Shaped(q)
    PROVE  /\ Shaped(Armed(q)) /\ Keeps(q, Armed(q))
           /\ \A s, A, C : Justified(s, q, A, C) => Justified(s, Armed(q), A, C)
<1> DEFINE x == Armed(q)
<1>1. q \in Sessions /\ 0 < MaxRetries /\ 0 \in 0 .. MaxRetries /\ NoMessage \in Messages
  BY SessionAssumption DEF Shaped, Messages
<1>2. CASE ~CanArm(q)
  BY <1>2 DEF Armed, Keeps
<1>3. CASE CanArm(q)
  <2>1. x = [q EXCEPT !.retries = 0, !.last = NoMessage, !.armed = TRUE]
    BY <1>3 DEF Armed
  <2> HIDE DEF x
  <2>2. /\ x \in Sessions /\ x.dx = q.dx /\ x.next = q.next /\ x.last = NoMessage
        /\ x.received = q.received /\ x.sent = q.sent /\ x.complete = q.complete
        /\ x.retries = 0
    BY <1>1, <2>1 DEF Sessions
  <2>3. ~x.complete
    BY <1>3, <2>2 DEF CanArm
  <2>4. /\ Shaped(x) /\ Keeps(q, x)
        /\ \A s, A, C : Justified(s, q, A, C) => Justified(s, x, A, C)
    BY <1>1, <2>2, <2>3, SameContact
  <2> QED BY <2>4 DEF x
<1> QED BY <1>2, <1>3

(* Ft8Session::callCq: nothing is left of the contact of before.           *)
LEMMA CallingCqIs ==
    ASSUME NEW me \in Stations, NEW q \in Sessions
    PROVE  /\ Shaped(CallingCq(me, q))
           /\ \A A, C : Justified(me, CallingCq(me, q), A, C)
<1> DEFINE x == CallingCq(me, q)
           c == Cleared(q)
           m == Message(None, me, "CQ", None)
<1>1. /\ c \in Sessions /\ Shaped(c) /\ \A A, C : Justified(me, c, A, C)
      /\ c.received = None /\ c.sent = None /\ c.dx = None
      /\ ~c.armed /\ ~c.complete /\ c.last = NoMessage
  BY ClearedIs
<1>2. m \in Messages /\ m.from = me /\ m.kind = "CQ" /\ m.report = None
  BY DEF Message, Messages, Kinds
<1>3. NoMessage.kind = "none" /\ NoMessage.report = None
  BY DEF NoMessage, Message
<1>4. x = [c EXCEPT !.cq = TRUE, !.next = m]
  BY DEF CallingCq
<1> HIDE DEF x, c, m
<1>5. /\ x \in Sessions /\ x.dx = None /\ x.sent = None /\ x.received = None /\ x.next = m
      /\ x.last = NoMessage /\ x.armed = c.armed /\ x.complete = c.complete
  BY <1>1, <1>2, <1>4 DEF Sessions
<1>6. Shaped(x)
  BY <1>1, <1>5 DEF Shaped
<1>7. \A A, C : Justified(me, x, A, C)
  BY <1>1, <1>2, <1>3, <1>5 DEF Justified, Reporting, Assuring, Closing
<1> QED BY <1>6, <1>7 DEF x

(* An over that went out in full.                                          *)
LEMMA SentIs ==
    ASSUME NEW q, Shaped(q)
    PROVE  /\ Shaped(Sent(q)) /\ Keeps(q, Sent(q))
           /\ \A s, A, C : Justified(s, q, A, C) /\ (q.next.report # None => q.next \in A)
                             => Justified(s, Sent(q), A, C)
<1> DEFINE x == Sent(q)
           tries == IF q.last = q.next THEN q.retries + 1 ELSE 1
           done == q.next.kind \in {"73", "RR73"} /\ q.received # None
<1>1. /\ q \in Sessions /\ q.retries \in 0 .. MaxRetries /\ q.next \in Messages
      /\ MaxRetries \in Nat \ {0}
  BY SessionAssumption DEF Shaped, Sessions
<1>2. CASE ~q.armed \/ q.complete \/ q.next = NoMessage
  BY <1>2 DEF Sent, Keeps
<1>3. CASE q.armed /\ ~q.complete /\ q.next # NoMessage
  <2>1. x = [q EXCEPT !.last = q.next, !.retries = tries, !.complete = done,
                      !.armed = ~done /\ tries < MaxRetries]
    BY <1>3 DEF Sent
  <2>2. tries \in 0 .. MaxRetries
    BY <1>1, <1>3 DEF Shaped
  <2>3. done \in BOOLEAN /\ (tries < MaxRetries) \in BOOLEAN
    OBVIOUS
  <2> HIDE DEF x, tries
  <2>4. /\ x \in Sessions /\ x.dx = q.dx /\ x.sent = q.sent /\ x.received = q.received
        /\ x.next = q.next /\ x.last = q.next /\ x.retries = tries
        /\ x.complete = done /\ x.armed = (~done /\ tries < MaxRetries)
    <3> HIDE DEF done
    <3> QED BY <1>1, <2>1, <2>2, <2>3 DEF Sessions
  <2>5. Shaped(x) /\ Keeps(q, x)
    BY <2>4 DEF Shaped, Keeps
  <2>6. ASSUME NEW s, NEW A, NEW C, Justified(s, q, A, C), q.next.report # None => q.next \in A
        PROVE  Justified(s, x, A, C)
    <3>1. q.next.kind \in Closing => Exchanged(s, x, A, C)
      BY <2>4, <2>6 DEF Justified, Exchanged
    <3>2. x.complete => Exchanged(s, x, A, C)
      BY <2>4, <3>1 DEF Closing
    <3>3. /\ x.last.report # None => x.last \in A /\ x.last.from = s /\ x.last.to = x.dx
          /\ x.last.kind \in Reporting => x.last.report # None
          /\ x.last.kind \in {"RRR", "RR73"} => Exchanged(s, x, A, C)
      BY <1>3, <2>4, <2>6, <3>1 DEF Justified, Closing
    <3> HIDE DEF done
    <3> QED BY <2>4, <2>6, <3>1, <3>2, <3>3 DEF Justified
  <2> QED BY <2>5, <2>6 DEF x
<1> QED BY <1>1, <1>2, <1>3

(* What Receive leaves of a contact that is complete.                      *)
LEMMA ReceiveComplete ==
    ASSUME NEW me \in Stations, NEW q, Shaped(q), q.complete, NEW d \in Decodes
    PROVE  Receive(me, q, d) = [q EXCEPT !.taken = Receive(me, q, d).taken]
<1> DEFINE t == q.taken /\ (d.again \/ d.msg.from # q.dx)
           r == [q EXCEPT !.taken = t]
<1>1. q \in Sessions /\ ~q.armed
  BY DEF Shaped
<1>2. r.armed = q.armed /\ r.taken = t
  BY <1>1 DEF Sessions
<1>3. Receive(me, q, d) = r
  BY <1>1, <1>2 DEF Receive
<1> HIDE DEF t
<1> QED BY <1>2, <1>3

(***************************************************************************)
(* The invariant.                                                          *)
(***************************************************************************)
(* What went out is a report to someone, and what was taken went out.      *)
Recorded ==
    /\ \A m \in aired : m.report # None /\ m.to # None
    /\ \A c \in copied : Delivered(aired, c[2], c[1], c[3])

(* The over a station has asked for says what the station may say.         *)
LiveSound(s) ==
    LET m == live[s].msg IN
    /\ WellFormed(m, copied)
    /\ m # NoMessage => m.from = s
    /\ m.report # None => m.to # None
    /\ live[s].phase = "sent" /\ m.report # None => m \in aired

(* So do the decodes that wait, were kept, or are shown.                   *)
HeardSound(s) ==
    /\ \A i \in 1 .. Len(inbox[s]) : Sound(inbox[s][i], aired, copied)
    /\ \A i \in 1 .. Len(replies[s]) : Sound(replies[s][i], aired, copied)
    /\ \A t \in Stations : Sound(rows[s][t], aired, copied)

(* What a station has, is about to say and has heard is justified.         *)
Grounded(s) ==
    /\ Justified(s, session[s], aired, copied)
    /\ LiveSound(s)
    /\ HeardSound(s)

(* A station that never dropped a contact has sent one report, to one.     *)
OneContact(s) ==
    /\ \A m \in aired : m.from = s => m.to = session[s].dx /\ m.report = session[s].sent
    /\ live[s].msg.report # None =>
         live[s].msg.to = session[s].dx /\ live[s].msg.report = session[s].sent

(* Types, the shape of sessions, and what holds whatever the operator does.*)
Typed ==
    /\ TypeOK
    /\ \A s \in Stations :
         /\ Shaped(session[s])
         /\ session[s].received # None => <<s, session[s].dx, session[s].received>> \in copied
    /\ \A s, t \in Stations : rows[s][t] # NoDecode => rows[s][t].msg.from = t

(* As long as no operator declares what no message said.                   *)
Evident ==
    manual = {} =>
      /\ Recorded
      /\ \A s \in Stations : Grounded(s)
      /\ restarted = {} => \A s \in Stations : OneContact(s)

(* The inductive invariant.                                                *)
IInv == Typed /\ Evident

(***************************************************************************)
(* A station's session becomes another.                                    *)
(***************************************************************************)
LEMMA BecomesIs ==
    ASSUME TypeOK, NEW s \in Stations, NEW x, Shaped(x), Becomes(s, x)
    PROVE  /\ session' \in [Stations -> Sessions]
           /\ session'[s] = x
           /\ \A t \in Stations \ {s} : session'[t] = session[t]
           /\ copied' \subseteq Stations \X Stations \X Reports
           /\ copied \subseteq copied'
           /\ x.received # None => <<s, x.dx, x.received>> \in copied'
           /\ \A c \in copied' : c \in copied \/ (c = <<s, x.dx, x.received>> /\ x.received # None)
<1>1. session \in [Stations -> Sessions] /\ copied \subseteq Stations \X Stations \X Reports
  BY DEF TypeOK
<1>2. x \in Sessions /\ x.dx \in Stations \cup {None} /\ x.received \in Reports \cup {None}
  BY DEF Shaped, Sessions
<1>3. x.received # None => <<s, x.dx, x.received>> \in Stations \X Stations \X Reports
  BY <1>2 DEF Shaped
<1>4. session' = [session EXCEPT ![s] = x]
  BY DEF Becomes
<1>5. copied' = copied \cup (IF x.received = None THEN {} ELSE {<<s, x.dx, x.received>>})
  BY DEF Becomes
<1>6. session' \in [Stations -> Sessions] /\ session'[s] = x
      /\ \A t \in Stations \ {s} : session'[t] = session[t]
  BY <1>1, <1>2, <1>4
<1> QED BY <1>1, <1>3, <1>5, <1>6

(* What a step makes of one session.                                       *)
Moves(s, x) ==
    /\ Becomes(s, x)
    /\ Shaped(x)
    /\ manual' = {} => manual = {} /\ (Evident => Justified(s, x, aired, copied))
    /\ restarted' = {} => restarted = {} /\ Keeps(session[s], x)

(* It leaves no other station a reason to doubt its own, and nothing else  *)
(* unjustified: an over is at most given up, and decodes only move from one*)
(* queue to the next.                                                      *)
LEMMA MovesEvident ==
    ASSUME IInv, NEW s \in Stations, NEW x, Moves(s, x), UNCHANGED aired,
           live' \in [Stations -> [phase : Phases, msg : Messages, slot : Slots]],
           \A t \in Stations : live'[t] \in {live[t], Idle},
           \A t \in Stations : HeardSound(t) =>
              /\ \A i \in 1 .. Len(inbox'[t]) : Sound(inbox'[t][i], aired, copied)
              /\ \A i \in 1 .. Len(replies'[t]) : Sound(replies'[t][i], aired, copied)
              /\ \A u \in Stations : Sound(rows'[t][u], aired, copied)
    PROVE  Evident'
<1> SUFFICES ASSUME manual' = {}
             PROVE  /\ Recorded'
                    /\ \A t \in Stations : Grounded(t)'
                    /\ restarted' = {} => \A t \in Stations : OneContact(t)'
  BY DEF Evident
<1>1. /\ Typed /\ TypeOK /\ manual = {} /\ Recorded /\ \A t \in Stations : Grounded(t)
      /\ restarted = {} => \A t \in Stations : OneContact(t)
      /\ Justified(s, x, aired, copied) /\ Becomes(s, x) /\ Shaped(x)
  BY DEF IInv, Evident, Moves, Typed
<1>2. /\ session'[s] = x
      /\ \A t \in Stations \ {s} : session'[t] = session[t]
      /\ copied \subseteq copied'
      /\ x.received # None => <<s, x.dx, x.received>> \in copied'
      /\ \A c \in copied' : c \in copied \/ (c = <<s, x.dx, x.received>> /\ x.received # None)
  BY <1>1, BecomesIs
<1>3. aired' = aired /\ aired \subseteq aired'
  OBVIOUS
<1>4. /\ \A t, q : Justified(t, q, aired, copied) => Justified(t, q, aired', copied')
      /\ \A m : WellFormed(m, copied) => WellFormed(m, copied')
      /\ \A d : Sound(d, aired, copied) => Sound(d, aired', copied')
  BY <1>2, <1>3, Grows
<1>5. Recorded'
  <2>1. ASSUME NEW c \in copied' PROVE Delivered(aired, c[2], c[1], c[3])
    <3>1. CASE c \in copied
      BY <1>1, <3>1 DEF Recorded
    <3>2. CASE c = <<s, x.dx, x.received>> /\ x.received # None
      BY <1>1, <3>2 DEF Justified
    <3> QED BY <1>2, <3>1, <3>2
  <2>2. \A c \in copied' : Delivered(aired', c[2], c[1], c[3])
    BY <1>3, <2>1
  <2>3. \A m \in aired' : m.report # None /\ m.to # None
    BY <1>1, <1>3 DEF Recorded
  <2> QED BY <2>2, <2>3 DEF Recorded
<1>6. NoMessage.kind = "none" /\ NoMessage.report = None /\ Idle.msg = NoMessage /\ Idle.phase = "idle"
  BY DEF NoMessage, Message, Idle
<1>7. ASSUME NEW t \in Stations PROVE Grounded(t)'
  <2>1. Justified(t, session'[t], aired', copied')
    BY <1>1, <1>2, <1>4 DEF Grounded
  <2>3. LiveSound(t)'
    <3>1. CASE live'[t] = live[t]
      BY <1>1, <1>3, <1>4, <3>1 DEF Grounded, LiveSound
    <3>2. CASE live'[t] = Idle
      BY <1>6, <3>2 DEF LiveSound, WellFormed, Reporting, Assuring
    <3> QED BY <3>1, <3>2
  <2>4. HeardSound(t)'
    BY <1>1, <1>4 DEF Grounded, HeardSound
  <2> QED BY <2>1, <2>3, <2>4 DEF Grounded
<1>8. ASSUME restarted' = {}, NEW t \in Stations PROVE OneContact(t)'
  <2>1. OneContact(t) /\ Grounded(t)
    BY <1>1, <1>8 DEF Moves
  <2>2. session[t].dx # None =>
          session'[t].dx = session[t].dx
          /\ (session[t].sent # None => session'[t].sent = session[t].sent)
    BY <1>2, <1>8 DEF Moves, Keeps
  <2>3. \A m \in aired' : m.from = t => m.to = session'[t].dx /\ m.report = session'[t].sent
    BY <1>1, <1>3, <2>1, <2>2 DEF OneContact, Recorded
  <2>4. live'[t].msg.report # None =>
          live'[t].msg.to = session'[t].dx /\ live'[t].msg.report = session'[t].sent
    BY <1>6, <2>1, <2>2 DEF OneContact, Grounded, LiveSound
  <2> QED BY <2>3, <2>4 DEF OneContact
<1> QED BY <1>5, <1>7, <1>8

(***************************************************************************)
(* The operator.                                                           *)
(***************************************************************************)
LEMMA Parts ==
    ASSUME IInv, NEW s \in Stations
    PROVE  /\ Typed /\ TypeOK /\ Shaped(session[s]) /\ session[s] \in Sessions
           /\ \A t \in Stations : rows[s][t] \in Decodes
           /\ replies[s] \in Seq(Decodes) /\ inbox[s] \in Seq(Decodes)
           /\ manual = {} /\ Evident =>
                Recorded /\ Grounded(s) /\ Justified(s, session[s], aired, copied)
  BY DEF IInv, Typed, TypeOK, Shaped, Evident, Grounded

(* An operator who starts over leaves nothing to keep.                     *)
LEMMA DroppedKeeps ==
    ASSUME NEW s, Dropped(s)
    PROVE  restarted' = {} => restarted = {} /\ \A x : Keeps(session[s], x)
  BY DEF Dropped, Keeps

(* Two of a session's settings.                                            *)
LEMMA Settings ==
    ASSUME NEW q, Shaped(q)
    PROVE  \A x \in {[q EXCEPT !.auto = ~@], [q EXCEPT !.even = ~@]} :
             /\ Shaped(x) /\ Keeps(q, x)
             /\ \A s, A, C : Justified(s, q, A, C) => Justified(s, x, A, C)
<1> SUFFICES ASSUME NEW x \in {[q EXCEPT !.auto = ~@], [q EXCEPT !.even = ~@]}
             PROVE  /\ Shaped(x) /\ Keeps(q, x)
                    /\ \A s, A, C : Justified(s, q, A, C) => Justified(s, x, A, C)
  OBVIOUS
<1>1. q \in Sessions
  BY DEF Shaped
<1>2. /\ x \in Sessions
      /\ x.dx = q.dx /\ x.next = q.next /\ x.last = q.last /\ x.received = q.received
      /\ x.sent = q.sent /\ x.complete = q.complete /\ x.armed = q.armed
      /\ x.retries = q.retries
  BY <1>1 DEF Sessions
<1>3. x.armed => x.retries < MaxRetries /\ ~x.complete
  BY <1>2 DEF Shaped
<1> QED BY <1>2, <1>3, SameContact

(* Whatever the operator does, a session becomes one that is justified, and *)
(* is another contact's only if the operator dropped the one before.        *)
LEMMA OperatorMoves ==
    ASSUME IInv, NEW s \in Stations, Operator(s)
    PROVE  /\ \E x : Moves(s, x)
           /\ UNCHANGED <<live, replies, inbox, slot, aired>>
           /\ keyed' \subseteq keyed /\ called' \subseteq called \cup {s}
           /\ manual \subseteq manual' /\ manual' \subseteq manual \cup {s}
           /\ restarted' \subseteq restarted \cup {s}
           /\ taps < MaxTaps /\ taps' = taps + 1
           /\ upsets' \in {upsets, upsets + 1} /\ upsets' <= MaxUpsets
           /\ rows' \in {rows, [rows EXCEPT ![s] = [t \in Stations |-> NoDecode]]}
<1> DEFINE q == session[s]
           Frame == /\ UNCHANGED <<live, replies, inbox, slot, aired>>
                    /\ taps < MaxTaps /\ taps' = taps + 1
                    /\ upsets' \in {upsets, upsets + 1} /\ upsets' <= MaxUpsets
                    /\ called' \subseteq called \cup {s}
           Rest == /\ keyed' \subseteq keyed
                   /\ manual \subseteq manual' /\ manual' \subseteq manual \cup {s}
                   /\ restarted' \subseteq restarted \cup {s}
                   /\ rows' \in {rows, [rows EXCEPT ![s] = [t \in Stations |-> NoDecode]]}
           Ok == (\E x : Moves(s, x)) /\ Frame /\ Rest
<1>1. /\ Typed /\ TypeOK /\ Shaped(q) /\ q \in Sessions
      /\ manual = {} /\ Evident => Justified(s, q, aired, copied)
  BY Parts
<1>2. CallTap(s) => Frame
  BY <1>1 DEF CallTap, Tap, Upset, TypeOK
<1>3. OtherTap(s) => Frame
  BY <1>1 DEF OtherTap, Tap, Upset, TypeOK
<1>4. Dropped(s) => restarted' \subseteq restarted \cup {s}
  BY DEF Dropped
<1>5. /\ Shaped(Cleared(q)) /\ \A A, C : Justified(s, Cleared(q), A, C)
  BY <1>1, ClearedIs
<1> HIDE DEF Frame, q
<1>6. ASSUME NEW t \in Stations, NEW call \in BOOLEAN, SelectStation(s, t, call) PROVE Ok
  <2> DEFINE y == Selected(s, q, rows[s][t])
  <2>1. rows[s][t] \in Decodes /\ rows[s][t].msg.from = t
    BY <1>1, <1>6 DEF SelectStation, Typed, TypeOK
  <2>2. /\ Shaped(y)
        /\ \A A, C : Sound(rows[s][t], A, C) => Justified(s, y, A, C)
    BY <1>1, <2>1, SelectedIs
  <2>3. manual = {} /\ Evident => Sound(rows[s][t], aired, copied)
    BY DEF Evident, Grounded, HeardSound
  <2> HIDE DEF y
  <2>4. /\ Shaped(Armed(y))
        /\ manual = {} /\ Evident => Justified(s, Armed(y), aired, copied)
        /\ manual = {} /\ Evident => Justified(s, y, aired, copied)
    BY <2>2, <2>3, ArmedIs
  <2>5. Becomes(s, Armed(y)) \/ Becomes(s, y)
    BY <1>6 DEF SelectStation, StartCall, y, q
  <2>6. UNCHANGED <<rows, manual>> /\ Dropped(s) /\ keyed' \subseteq keyed
    BY <1>6 DEF SelectStation, StartCall
  <2>7. Moves(s, Armed(y)) \/ Moves(s, y)
    BY <2>2, <2>4, <2>5, <2>6, DroppedKeeps DEF Moves
  <2>8. Frame
    BY <1>2, <1>6 DEF SelectStation
  <2> QED BY <1>4, <2>6, <2>7, <2>8
<1>7. ASSUME Cq(s) PROVE Ok
  <2> DEFINE y == CallingCq(s, q)
  <2>1. Shaped(y) /\ \A A, C : Justified(s, y, A, C)
    BY <1>1, CallingCqIs
  <2> HIDE DEF y
  <2>2. Shaped(Armed(y)) /\ Justified(s, Armed(y), aired, copied)
    BY <2>1, ArmedIs
  <2>3. /\ Becomes(s, Armed(y)) /\ UNCHANGED <<rows, manual>> /\ Dropped(s)
        /\ keyed' \subseteq keyed
    BY <1>7 DEF Cq, StartCall, y, q
  <2>4. Moves(s, Armed(y))
    BY <2>2, <2>3, DroppedKeeps DEF Moves
  <2>5. Frame
    BY <1>2, <1>7 DEF Cq
  <2> QED BY <1>4, <2>3, <2>4, <2>5
<1>8. ASSUME Call(s) PROVE Ok
  <2>1. /\ Shaped(Armed(q)) /\ Keeps(q, Armed(q))
        /\ manual = {} /\ Evident => Justified(s, Armed(q), aired, copied)
    BY <1>1, ArmedIs
  <2>2. /\ Becomes(s, Armed(q)) /\ UNCHANGED <<rows, manual, restarted>>
        /\ keyed' \subseteq keyed
    BY <1>8 DEF Call, StartCall, q
  <2>3. Moves(s, Armed(q))
    BY <2>1, <2>2 DEF Moves, q
  <2>4. Frame
    BY <1>2, <1>8 DEF Call
  <2> QED BY <2>2, <2>3, <2>4
<1>9. ASSUME HaltTx(s) PROVE Ok
  <2>1. /\ Shaped(Halted(q)) /\ Keeps(q, Halted(q))
        /\ manual = {} /\ Evident => Justified(s, Halted(q), aired, copied)
    BY <1>1, HaltedIs
  <2>2. Becomes(s, Halted(q)) /\ UNCHANGED <<keyed, rows, manual, restarted>>
    BY <1>9 DEF HaltTx, q
  <2>3. Moves(s, Halted(q))
    BY <2>1, <2>2 DEF Moves, q
  <2>4. Frame
    BY <1>3, <1>9 DEF HaltTx
  <2> QED BY <2>2, <2>3, <2>4
<1>10. ASSUME ClearQso(s) \/ RadioChanged(s) PROVE Ok
  <2>1. /\ Becomes(s, Cleared(q)) /\ UNCHANGED <<keyed, manual>> /\ Dropped(s)
        /\ rows' \in {rows, [rows EXCEPT ![s] = [t \in Stations |-> NoDecode]]}
    BY <1>10 DEF ClearQso, RadioChanged, q
  <2>2. Moves(s, Cleared(q))
    BY <1>5, <2>1, DroppedKeeps DEF Moves
  <2>3. Frame
    BY <1>3, <1>10 DEF ClearQso, RadioChanged
  <2> QED BY <1>4, <2>1, <2>2, <2>3
<1>11. ASSUME NEW m \in MessagesFor(s, q), ChooseMessage(s, m) PROVE Ok
  <2> DEFINE y == [q EXCEPT !.next = m, !.retries = 0]
  <2>1. /\ Becomes(s, y) /\ manual' = manual \cup {s} /\ UNCHANGED <<keyed, rows, restarted>>
    BY <1>11 DEF ChooseMessage, q
  <2>2. m \in Messages
    <3>1. q.dx \in Stations \cup {None} /\ q.sent \in Reports \cup {None}
      BY <1>1 DEF Sessions
    <3> QED BY <3>1 DEF MessagesFor, Directed, Message, Messages, Kinds
  <2>3. 0 < MaxRetries /\ 0 \in 0 .. MaxRetries
    BY SessionAssumption
  <2> HIDE DEF y
  <2>4. /\ y \in Sessions /\ y.dx = q.dx /\ y.sent = q.sent /\ y.received = q.received
        /\ y.complete = q.complete /\ y.armed = q.armed /\ y.retries = 0
    BY <1>1, <2>2, <2>3 DEF Sessions, y
  <2>5. Shaped(y) /\ Keeps(q, y)
    BY <1>1, <2>3, <2>4 DEF Shaped, Keeps
  <2>6. Moves(s, y)
    BY <2>1, <2>5 DEF Moves, q
  <2>7. Frame
    BY <1>3, <1>11 DEF ChooseMessage
  <2> QED BY <2>1, <2>6, <2>7
<1>12. ASSUME ToggleAuto(s) \/ TogglePeriod(s) PROVE Ok
  <2> DEFINE S == {[q EXCEPT !.auto = ~@], [q EXCEPT !.even = ~@]}
  <2>1. /\ UNCHANGED <<keyed, rows, manual, restarted>>
        /\ Becomes(s, [q EXCEPT !.auto = ~@]) \/ Becomes(s, [q EXCEPT !.even = ~@])
    BY <1>12 DEF ToggleAuto, TogglePeriod, q
  <2>2. PICK y \in S : Becomes(s, y)
    BY <2>1
  <2>s. \A z \in S : /\ Shaped(z) /\ Keeps(q, z)
                     /\ \A t, A, C : Justified(t, q, A, C) => Justified(t, z, A, C)
    BY <1>1, Settings, ZenonT(60)
  <2> HIDE DEF S
  <2>3. /\ Shaped(y) /\ Keeps(q, y)
        /\ manual = {} /\ Evident => Justified(s, y, aired, copied)
    BY <1>1, <2>s
  <2>4. Moves(s, y)
    BY <2>1, <2>2, <2>3 DEF Moves, q
  <2>5. Frame
    BY <1>3, <1>12 DEF ToggleAuto, TogglePeriod
  <2> QED BY <2>1, <2>4, <2>5
<1>13. Ok
  BY <1>6, <1>7, <1>8, <1>9, <1>10, <1>11, <1>12 DEF Operator, q
<1> QED BY <1>13 DEF Frame

(***************************************************************************)
(* The end of an over, and a decode.                                       *)
(***************************************************************************)
(* What is kept even without the operator, and what a complete contact is. *)
Settled(q, x) ==
    /\ Keeps(q, x)
    /\ q.complete => x = [q EXCEPT !.taken = x.taken]

(* Ft8Screen::finishLiveTransmit: the over has been sent, and the decodes  *)
(* kept meanwhile are taken in order; or the session is halted.            *)
LEMMA FinishMoves ==
    ASSUME IInv, NEW s \in Stations, NEW success \in BOOLEAN, Finish(s, success)
    PROVE  \E x : Moves(s, x) /\ Settled(session[s], x)
<1> DEFINE q == session[s]
           went == success /\ q.armed /\ q.next = live[s].msg
           x == IF went THEN ReceiveAll(s, Sent(q), replies[s]) ELSE Halted(q)
<1>1. /\ Becomes(s, x) /\ UNCHANGED <<manual, restarted>>
      /\ success => live[s].phase = "sent"
  BY DEF Finish
<1>2. Shaped(q) /\ q \in Sessions /\ replies[s] \in Seq(Decodes)
      /\ (manual = {} /\ Evident => Justified(s, q, aired, copied) /\ Grounded(s))
  BY Parts
<1>3. CASE went
  <2> DEFINE G == {z \in Sessions :
                     /\ Shaped(z)
                     /\ Keeps(q, z)
                     /\ manual = {} /\ Evident => Justified(s, z, aired, copied)}
             kept == replies[s]
             y == Sent(q)
  <2>1. y \in G
    <3>1. manual = {} /\ Evident => (q.next.report # None => q.next \in aired)
      BY <1>1, <1>2, <1>3 DEF Grounded, LiveSound
    <3>2. /\ Shaped(y) /\ Keeps(q, y)
          /\ manual = {} /\ Evident => Justified(s, y, aired, copied)
      BY <1>2, <3>1, SentIs
    <3> QED BY <3>2 DEF Shaped
  <2>2. ASSUME NEW z \in G, NEW i \in 1 .. Len(kept) PROVE Receive(s, z, kept[i]) \in G
    <3> DEFINE w == Receive(s, z, kept[i])
    <3>1. kept[i] \in Decodes
      BY <1>2, ElementOfSeq
    <3>2. manual = {} /\ Evident => Sound(kept[i], aired, copied)
      BY <1>2 DEF Grounded, HeardSound
    <3>3. Shaped(z) /\ Keeps(q, z) /\ (manual = {} /\ Evident => Justified(s, z, aired, copied))
      BY <2>2
    <3>4. /\ Shaped(w)
          /\ z.dx # None => w.dx = z.dx /\ (z.sent # None => w.sent = z.sent)
          /\ \A A, C : Justified(s, z, A, C) /\ Sound(kept[i], A, C) => Justified(s, w, A, C)
      BY <3>1, <3>3, ReceiveIs
    <3> HIDE DEF w, kept
    <3>5. Keeps(q, w)
      BY <3>3, <3>4 DEF Keeps
    <3>6. w \in Sessions
      BY <3>4 DEF Shaped
    <3> QED BY <3>2, <3>3, <3>4, <3>5, <3>6 DEF w
  <2>3. Len(kept) \in Nat
    BY <1>2, LenProperties
  <2> HIDE DEF G
  <2>4. ReceiveAll(s, y, kept) \in G
    BY <2>1, <2>2, <2>3, ReceiveAllKeeps
  <2>5. x = ReceiveAll(s, y, kept)
    BY <1>3
  <2> HIDE DEF x
  <2>6. /\ Shaped(x) /\ Keeps(q, x)
        /\ manual = {} /\ Evident => Justified(s, x, aired, copied)
    BY <2>4, <2>5 DEF G
  <2>7. ~q.complete
    BY <1>2, <1>3 DEF Shaped
  <2> QED BY <1>1, <2>6, <2>7 DEF Moves, Settled
<1>4. CASE ~went
  <2>1. x = Halted(q)
    BY <1>4
  <2>2. /\ Shaped(Halted(q)) /\ Keeps(q, Halted(q)) /\ (~q.armed => Halted(q) = q)
        /\ manual = {} /\ Evident => Justified(s, Halted(q), aired, copied)
    BY <1>2, HaltedIs
  <2>3. q.complete => Halted(q) = q /\ q = [q EXCEPT !.taken = q.taken]
    BY <1>2, <2>2 DEF Shaped, Sessions
  <2> HIDE DEF x
  <2> QED BY <1>1, <2>1, <2>2, <2>3 DEF Moves, Settled
<1> QED BY <1>3, <1>4

(* Ft8Screen::addDecodes, for a decode that the session takes at once.     *)
LEMMA DecodeMoves ==
    ASSUME IInv, NEW s \in Stations, AddDecode(s)
    PROVE  \E x : Moves(s, x) /\ Settled(session[s], x)
<1> DEFINE q == session[s]
           d == Head(inbox[s])
           x == Receive(s, q, d)
<1>1. /\ Shaped(q) /\ q \in Sessions /\ inbox[s] \in Seq(Decodes) /\ TypeOK
      /\ (manual = {} /\ Evident => Justified(s, q, aired, copied) /\ Grounded(s))
  BY Parts
<1>2. inbox[s] # <<>> /\ UNCHANGED <<manual, restarted>>
  BY DEF AddDecode
<1>3. d \in Decodes /\ d = inbox[s][1] /\ Len(inbox[s]) \in Nat /\ 1 \in 1 .. Len(inbox[s])
  BY <1>1, <1>2, HeadTailProperties, EmptySeq, LenProperties
<1>4. manual = {} /\ Evident => Sound(d, aired, copied)
  BY <1>1, <1>3 DEF Grounded, HeardSound
<1>5. CASE Pending(s)
  <2>1. UNCHANGED <<session, copied>>
    BY <1>5 DEF AddDecode
  <2>2. q.received # None => <<s, q.dx, q.received>> \in copied
    BY DEF IInv, Typed
  <2>3. Becomes(s, q)
    BY <1>1, <2>1, <2>2 DEF Becomes, TypeOK
  <2>4. q = [q EXCEPT !.taken = q.taken]
    BY <1>1 DEF Sessions
  <2> QED BY <1>1, <1>2, <2>3, <2>4 DEF Moves, Settled, Keeps
<1>6. CASE ~Pending(s)
  <2>1. Becomes(s, x)
    BY <1>6 DEF AddDecode
  <2>2. /\ Shaped(x)
        /\ q.dx # None => x.dx = q.dx /\ (q.sent # None => x.sent = q.sent)
        /\ \A A, C : Justified(s, q, A, C) /\ Sound(d, A, C) => Justified(s, x, A, C)
    BY <1>1, <1>3, ReceiveIs
  <2>3. q.complete => x = [q EXCEPT !.taken = x.taken]
    BY <1>1, <1>3, ReceiveComplete
  <2> HIDE DEF x, d
  <2> QED BY <1>1, <1>2, <1>4, <2>1, <2>2, <2>3 DEF Moves, Settled, Keeps
<1> QED BY <1>5, <1>6

(***************************************************************************)
(* Steps.                                                                  *)
(***************************************************************************)
(* The screens' part of the types.                                         *)
Screens ==
    /\ live \in [Stations -> [phase : Phases, msg : Messages, slot : Slots]]
    /\ replies \in [Stations -> Seq(Decodes)]
    /\ inbox \in [Stations -> Seq(Decodes)]
    /\ rows \in [Stations -> [Stations -> Decodes]]
    /\ slot \in Slots
    /\ taps \in 0 .. MaxTaps
    /\ upsets \in 0 .. MaxUpsets
    /\ aired \subseteq Messages
    /\ {keyed, called, manual, restarted} \subseteq SUBSET Stations
    /\ \A s, t \in Stations : rows[s][t] # NoDecode => rows[s][t].msg.from = t

(* A session that becomes another keeps the types.                         *)
LEMMA MovesTyped ==
    ASSUME Typed, NEW s \in Stations, NEW x, Moves(s, x), Screens'
    PROVE  Typed'
<1>1. TypeOK /\ Shaped(x) /\ Becomes(s, x)
  BY DEF Typed, Moves
<1>2. /\ session' \in [Stations -> Sessions] /\ session'[s] = x
      /\ \A t \in Stations \ {s} : session'[t] = session[t]
      /\ copied' \subseteq Stations \X Stations \X Reports /\ copied \subseteq copied'
      /\ x.received # None => <<s, x.dx, x.received>> \in copied'
  BY <1>1, BecomesIs
<1>3. ASSUME NEW t \in Stations
      PROVE  /\ Shaped(session'[t])
             /\ session'[t].received # None =>
                  <<t, session'[t].dx, session'[t].received>> \in copied'
  BY <1>1, <1>2 DEF Typed
<1>4. TypeOK'
  BY <1>2 DEF TypeOK, Screens
<1> QED BY <1>3, <1>4 DEF Typed, Screens

(* What none of the steps in between touches: sessions and histories.      *)
LEMMA StaysTyped ==
    ASSUME Typed, UNCHANGED <<session, copied>>, Screens'
    PROVE  Typed'
<1>1. TypeOK'
  BY DEF Typed, TypeOK, Screens
<1> QED BY <1>1 DEF Typed, Screens

(* They are part of the types.                                             *)
LEMMA ScreensOf ==
    ASSUME Typed PROVE Screens
  BY DEF Typed, TypeOK, Screens

(* No decode, no over.                                                     *)
LEMMA Nothing ==
    /\ NoDecode \in Decodes /\ Idle \in [phase : Phases, msg : Messages, slot : Slots]
    /\ \A A, C : Sound(NoDecode, A, C)
    /\ NoMessage.kind = "none" /\ NoMessage.report = None
<1>1. NoMessage.kind = "none" /\ NoMessage.report = None /\ NoMessage \in Messages
  BY DEF NoMessage, Message, Messages
<1>2. NoDecode \in Decodes /\ NoDecode.msg = NoMessage
  BY <1>1 DEF NoDecode, Decodes, Slots
<1>3. Idle \in [phase : Phases, msg : Messages, slot : Slots]
  BY <1>1 DEF Idle, Phases, Slots
<1>4. \A A, C : Sound(NoDecode, A, C)
  BY <1>1, <1>2 DEF Sound, WellFormed, Reporting, Assuring
<1> QED BY <1>1, <1>2, <1>3, <1>4

(* The operator: an over that has not begun may be given up with the       *)
(* session.                                                                *)
LEMMA OperatorKeeps ==
    ASSUME IInv, NEW s \in Stations, Operator(s)
    PROVE  IInv'
<1>1. Typed /\ Screens
  BY ScreensOf DEF IInv
<1>2. /\ \E x : Moves(s, x)
      /\ UNCHANGED <<live, replies, inbox, slot, aired>>
      /\ keyed' \subseteq keyed /\ called' \subseteq called \cup {s}
      /\ manual' \subseteq manual \cup {s}
      /\ restarted' \subseteq restarted \cup {s}
      /\ taps < MaxTaps /\ taps' = taps + 1
      /\ upsets' \in {upsets, upsets + 1} /\ upsets' <= MaxUpsets
      /\ rows' \in {rows, [rows EXCEPT ![s] = [t \in Stations |-> NoDecode]]}
  BY OperatorMoves
<1>3. PICK x : Moves(s, x)
  BY <1>2
<1>4. /\ \A t, u \in Stations : rows'[t][u] \in {rows[t][u], NoDecode}
      /\ rows' \in [Stations -> [Stations -> Decodes]]
  <2> DEFINE none == [t \in Stations |-> NoDecode]
  <2>1. none \in [Stations -> Decodes] /\ \A u \in Stations : none[u] = NoDecode
    BY Nothing
  <2>2. rows \in [Stations -> [Stations -> Decodes]]
    BY <1>1 DEF Screens
  <2>3. rows' = rows \/ rows' = [rows EXCEPT ![s] = none]
    BY <1>2
  <2> HIDE DEF none
  <2>4. \A t \in Stations : rows'[t] \in {rows[t], none}
    BY <2>2, <2>3
  <2>5. rows' \in [Stations -> [Stations -> Decodes]]
    BY <2>1, <2>2, <2>3
  <2> QED BY <2>1, <2>4, <2>5
<1>6. {MaxTaps, MaxUpsets} \subseteq Nat
  BY BoundsAssumption
<1>7. Screens'
  <2>1. taps' \in 0 .. MaxTaps /\ upsets' \in 0 .. MaxUpsets
    BY <1>1, <1>2, <1>6 DEF Screens
  <2>2. {keyed', called', manual', restarted'} \subseteq SUBSET Stations
    BY <1>1, <1>2 DEF Screens
  <2>3. \A t, u \in Stations : rows'[t][u] # NoDecode => rows'[t][u].msg.from = u
    BY <1>1, <1>4 DEF Screens
  <2> QED BY <1>1, <1>2, <1>4, <2>1, <2>2, <2>3 DEF Screens
<1>8. Typed'
  BY <1>1, <1>3, <1>7, MovesTyped
<1>9. Evident'
  <2>1. live' \in [Stations -> [phase : Phases, msg : Messages, slot : Slots]]
        /\ \A t \in Stations : live'[t] \in {live[t], Idle}
    BY <1>2, <1>7 DEF Screens
  <2>2. ASSUME NEW t \in Stations, HeardSound(t)
        PROVE  /\ \A i \in 1 .. Len(inbox'[t]) : Sound(inbox'[t][i], aired, copied)
               /\ \A i \in 1 .. Len(replies'[t]) : Sound(replies'[t][i], aired, copied)
               /\ \A u \in Stations : Sound(rows'[t][u], aired, copied)
    <3>1. \A u \in Stations : Sound(rows'[t][u], aired, copied)
      BY <1>4, <2>2, Nothing DEF HeardSound
    <3> QED BY <1>2, <2>2, <3>1 DEF HeardSound
  <2> QED BY <1>2, <1>3, <2>1, <2>2, MovesEvident
<1> QED BY <1>8, <1>9 DEF IInv

(* finishLiveTransmit gives up the over and the decodes kept for it.       *)
LEMMA FinishKeeps ==
    ASSUME IInv, NEW s \in Stations, NEW success \in BOOLEAN, Finish(s, success)
    PROVE  IInv'
<1>1. Typed /\ Screens
  BY ScreensOf DEF IInv
<1>2. PICK x : Moves(s, x)
  BY FinishMoves
<1>3. /\ live' = [live EXCEPT ![s] = Idle] /\ replies' = [replies EXCEPT ![s] = <<>>]
      /\ UNCHANGED <<keyed, rows, inbox, slot, taps, called, aired, manual, restarted>>
      /\ upsets' \in {upsets, upsets + 1} /\ upsets' <= MaxUpsets
  BY <1>1 DEF Finish, Upset, Screens
<1>4. /\ live' \in [Stations -> [phase : Phases, msg : Messages, slot : Slots]]
      /\ \A t \in Stations : live'[t] \in {live[t], Idle}
  BY <1>1, <1>3, Nothing DEF Screens
<1>5. /\ replies' \in [Stations -> Seq(Decodes)]
      /\ \A t \in Stations : replies'[t] \in {replies[t], <<>>}
  <2>1. <<>> \in Seq(Decodes)
    BY EmptySeq
  <2> QED BY <1>1, <1>3, <2>1 DEF Screens
<1>6. Screens'
  <2>1. upsets' \in 0 .. MaxUpsets
    BY <1>1, <1>3, BoundsAssumption DEF Screens
  <2> QED BY <1>1, <1>3, <1>4, <1>5, <2>1 DEF Screens
<1>7. Typed'
  BY <1>1, <1>2, <1>6, MovesTyped
<1>8. Evident'
  <2>1. Len(<<>>) = 0
    BY EmptySeq
  <2>2. ASSUME NEW t \in Stations, HeardSound(t)
        PROVE  /\ \A i \in 1 .. Len(inbox'[t]) : Sound(inbox'[t][i], aired, copied)
               /\ \A i \in 1 .. Len(replies'[t]) : Sound(replies'[t][i], aired, copied)
               /\ \A u \in Stations : Sound(rows'[t][u], aired, copied)
    BY <1>3, <1>5, <2>1, <2>2 DEF HeardSound
  <2> QED BY <1>2, <1>3, <1>4, <2>2, MovesEvident
<1> QED BY <1>7, <1>8 DEF IInv

(* addDecodes shows a decode, and keeps it for later or takes it.          *)
LEMMA DecodeKeeps ==
    ASSUME IInv, NEW s \in Stations, AddDecode(s)
    PROVE  IInv'
<1> DEFINE d == Head(inbox[s])
           row == [d EXCEPT !.again = FALSE]
<1>1. Typed /\ Screens /\ inbox[s] \in Seq(Decodes) /\ inbox[s] # <<>>
  BY ScreensOf DEF IInv, Screens, AddDecode
<1>2. PICK x : Moves(s, x)
  BY DecodeMoves
<1>3. /\ UNCHANGED <<live, keyed, slot, bounds, aired, manual, restarted>>
      /\ rows' = [rows EXCEPT ![s][d.msg.from] = row]
      /\ replies' \in {replies, [replies EXCEPT ![s] = Append(@, d)]}
      /\ inbox' = [inbox EXCEPT ![s] = Tail(@)]
  BY DEF AddDecode
<1>4. /\ d \in Decodes /\ d = inbox[s][1] /\ Tail(inbox[s]) \in Seq(Decodes)
      /\ Len(inbox[s]) \in Nat \ {0} /\ Len(Tail(inbox[s])) = Len(inbox[s]) - 1
      /\ \A i \in 1 .. Len(Tail(inbox[s])) : Tail(inbox[s])[i] = inbox[s][i + 1]
  BY <1>1, HeadTailProperties, EmptySeq, LenProperties
<1>5. row \in Decodes /\ row.msg = d.msg
  <2> HIDE DEF d
  <2> QED BY <1>4 DEF Decodes
<1>6. /\ replies[s] \in Seq(Decodes) /\ Append(replies[s], d) \in Seq(Decodes)
      /\ Len(replies[s]) \in Nat
      /\ Len(Append(replies[s], d)) = Len(replies[s]) + 1
      /\ \A i \in 1 .. Len(replies[s]) : Append(replies[s], d)[i] = replies[s][i]
      /\ Append(replies[s], d)[Len(replies[s]) + 1] = d
  BY <1>1, <1>4, AppendProperties, LenProperties DEF Screens
<1> HIDE DEF d, row
<1>7. \A t, u \in Stations :
        \/ rows'[t][u] = rows[t][u]
        \/ rows'[t][u] = row /\ t = s /\ u = d.msg.from
  BY <1>1, <1>3 DEF Screens
<1>8. rows' \in [Stations -> [Stations -> Decodes]]
  <2>1. rows \in [Stations -> [Stations -> Decodes]] /\ rows[s] \in [Stations -> Decodes]
    BY <1>1 DEF Screens
  <2>2. [rows[s] EXCEPT ![d.msg.from] = row] \in [Stations -> Decodes]
    BY <1>5, <2>1
  <2>3. rows' = [rows EXCEPT ![s] = [rows[s] EXCEPT ![d.msg.from] = row]]
    BY <1>3
  <2> QED BY <2>1, <2>2, <2>3
<1>9. Screens'
  <2>1. replies' \in [Stations -> Seq(Decodes)] /\ inbox' \in [Stations -> Seq(Decodes)]
    BY <1>1, <1>3, <1>4, <1>6 DEF Screens
  <2>2. ASSUME NEW t \in Stations, NEW u \in Stations, rows'[t][u] # NoDecode
        PROVE  rows'[t][u].msg.from = u
    <3>1. CASE rows'[t][u] = rows[t][u]
      BY <1>1, <2>2, <3>1 DEF Screens
    <3>2. CASE rows'[t][u] = row /\ u = d.msg.from
      BY <1>5, <3>2
    <3> QED BY <1>7, <3>1, <3>2
  <2>3. UNCHANGED <<live, slot, taps, upsets, called, aired, keyed, manual, restarted>>
    BY <1>3 DEF bounds
  <2> QED BY <1>1, <1>8, <2>1, <2>2, <2>3 DEF Screens
<1>10. Typed'
  BY <1>1, <1>2, <1>9, MovesTyped
<1>11. Evident'
  <2>1. live' \in [Stations -> [phase : Phases, msg : Messages, slot : Slots]]
        /\ \A t \in Stations : live'[t] \in {live[t], Idle}
    BY <1>3, <1>9 DEF Screens
  <2>2. ASSUME manual = {}, Evident PROVE Sound(d, aired, copied)
    BY <1>4, <2>2 DEF Evident, Grounded, HeardSound
  <2>3. ASSUME HeardSound(s) PROVE Sound(d, aired, copied) /\ Sound(row, aired, copied)
    <3>1. Sound(d, aired, copied)
      BY <1>4, <2>3 DEF HeardSound
    <3> QED BY <1>5, <3>1 DEF Sound
  <2>4. ASSUME NEW t \in Stations, HeardSound(t)
        PROVE  /\ \A i \in 1 .. Len(inbox'[t]) : Sound(inbox'[t][i], aired, copied)
               /\ \A i \in 1 .. Len(replies'[t]) : Sound(replies'[t][i], aired, copied)
               /\ \A u \in Stations : Sound(rows'[t][u], aired, copied)
    <3>1. \A u \in Stations : Sound(rows'[t][u], aired, copied)
      BY <1>7, <2>3, <2>4 DEF HeardSound
    <3>2. CASE t # s
      <4>1. inbox'[t] = inbox[t] /\ replies'[t] = replies[t]
        BY <1>1, <1>3, <3>2 DEF Screens
      <4> QED BY <2>4, <3>1, <4>1 DEF HeardSound
    <3>3. CASE t = s
      <4>1. inbox'[s] = Tail(inbox[s]) /\ replies'[s] \in {replies[s], Append(replies[s], d)}
        BY <1>1, <1>3 DEF Screens
      <4>2. \A i \in 1 .. Len(Tail(inbox[s])) : Sound(Tail(inbox[s])[i], aired, copied)
        BY <1>4, <2>4, <3>3 DEF HeardSound
      <4>3. \A i \in 1 .. Len(Append(replies[s], d)) : Sound(Append(replies[s], d)[i], aired, copied)
        BY <1>6, <2>3, <2>4, <3>3 DEF HeardSound
      <4> QED BY <2>4, <3>1, <3>3, <4>1, <4>2, <4>3 DEF HeardSound
    <3> QED BY <3>2, <3>3
  <2> QED BY <1>2, <1>3, <2>1, <2>4, MovesEvident
<1> QED BY <1>10, <1>11 DEF IInv

(* Ft8Screen::checkLiveTransmit asks for an over of the session's message. *)
LEMMA TickKeeps ==
    ASSUME IInv, NEW s \in Stations, Tick(s)
    PROVE  IInv'
<1> DEFINE q == session[s]
           over == [phase |-> "keying", msg |-> q.next, slot |-> slot]
<1>1. Typed /\ Screens /\ Shaped(q) /\ q \in Sessions
  BY ScreensOf, Parts DEF IInv
<1>2. /\ live' = [live EXCEPT ![s] = over] /\ keyed' = keyed \cup {s}
      /\ UNCHANGED <<session, replies, rows, inbox, slot, taps, upsets, called>>
      /\ UNCHANGED <<aired, copied, manual, restarted>>
  BY DEF Tick, bounds, history
<1>3. over \in [phase : Phases, msg : Messages, slot : Slots] /\ over.msg = q.next
      /\ over.phase = "keying"
  BY <1>1 DEF Screens, Sessions, Phases
<1> HIDE DEF over, q
<1>4. /\ live' \in [Stations -> [phase : Phases, msg : Messages, slot : Slots]]
      /\ live'[s] = over /\ \A t \in Stations \ {s} : live'[t] = live[t]
  BY <1>1, <1>2, <1>3 DEF Screens
<1>5. Typed'
  <2>1. Screens'
    BY <1>1, <1>2, <1>4 DEF Screens
  <2> QED BY <1>1, <1>2, <2>1, StaysTyped
<1>6. ASSUME manual = {}, Recorded, \A t \in Stations : Grounded(t),
             restarted = {} => \A t \in Stations : OneContact(t)
      PROVE  Evident'
  <2>0. Justified(s, q, aired, copied)
        /\ (q.received # None => <<s, q.dx, q.received>> \in copied)
        /\ q.sent \in Reports \cup {None} /\ q.received \in Reports \cup {None}
    BY <1>1, <1>6 DEF Grounded, Typed, Sessions, q
  <2>1. LiveSound(s)'
    <3>1. q.next.kind \in Reporting <=> q.next.report # None
      BY <2>0 DEF Justified
    <3>2. q.next # NoMessage => q.next.from = s
      BY <2>0 DEF Justified
    <3>3. q.next.report # None => q.next.to # None
      BY <1>1, <2>0 DEF Justified, Shaped
    <3>4. q.next.kind \in Assuring => HasTaken(copied, q.next.from, q.next.to)
      <4>1. ASSUME q.next.kind \in Assuring
            PROVE  /\ q.next.from = s /\ q.next.to = q.dx
                   /\ <<s, q.dx, q.received>> \in copied /\ q.received \in Reports
        BY <2>0, <4>1, Nothing DEF Justified, Assuring
      <4> QED BY <4>1 DEF HasTaken
    <3> QED BY <1>2, <1>3, <1>4, <3>1, <3>2, <3>3, <3>4 DEF LiveSound, WellFormed
  <2>2. ASSUME NEW t \in Stations PROVE Grounded(t)'
    <3>1. Justified(t, session'[t], aired', copied') /\ HeardSound(t)'
      BY <1>2, <1>6 DEF Grounded, HeardSound
    <3>2. LiveSound(t)'
      BY <1>2, <1>4, <1>6, <2>1 DEF Grounded, LiveSound
    <3> QED BY <3>1, <3>2 DEF Grounded
  <2>3. ASSUME restarted = {}, NEW t \in Stations PROVE OneContact(t)'
    <3>1. OneContact(t)
      BY <1>6, <2>3
    <3>2. CASE t = s
      <4>1. live'[t].msg.report # None =>
              live'[t].msg.to = session'[t].dx /\ live'[t].msg.report = session'[t].sent
        BY <1>2, <1>3, <1>4, <2>0, <3>2 DEF Justified, q
      <4> QED BY <1>2, <3>1, <4>1 DEF OneContact
    <3>3. CASE t # s
      BY <1>2, <1>4, <3>1, <3>3 DEF OneContact
    <3> QED BY <3>2, <3>3
  <2>4. Recorded'
    BY <1>2, <1>6 DEF Recorded
  <2> QED BY <1>2, <2>2, <2>3, <2>4 DEF Evident
<1>7. Evident'
  <2>1. CASE manual # {}
    BY <1>2, <2>1 DEF Evident
  <2>2. CASE manual = {}
    BY <1>6, <2>2 DEF IInv, Evident
  <2> QED BY <2>1, <2>2
<1> QED BY <1>5, <1>7 DEF IInv

(* The sequences a station may receive of one over.                        *)
LEMMA ShortSequences ==
    ASSUME NEW S, NEW a \in S, NEW b \in S
    PROVE  /\ <<>> \in Seq(S) /\ <<a>> \in Seq(S) /\ <<a, b>> \in Seq(S)
           /\ Len(<<>>) = 0
           /\ Len(<<a>>) = 1 /\ <<a>>[1] = a
           /\ Len(<<a, b>>) = 2 /\ <<a, b>>[1] = a /\ <<a, b>>[2] = b
  OBVIOUS

(* What the others make of an over is what was sent, or nothing.           *)
LEMMA PassesAre ==
    ASSUME Screens, NEW s \in Stations, NEW p \in Passes(s)
    PROVE  /\ p \in Seq(Decodes) /\ Len(p) \in Nat
           /\ \A i \in 1 .. Len(p) : p[i].msg = live[s].msg
<1> DEFINE Snr == Reports \cup {None}
           d(r, again) == [msg |-> live[s].msg, slot |-> slot, snr |-> r, again |-> again]
<1>1. live[s].msg \in Messages /\ slot \in Slots /\ Usual \in Snr
  BY BoundsAssumption DEF Screens
<1>2. \A r \in Snr, again \in BOOLEAN : d(r, again) \in Decodes /\ d(r, again).msg = live[s].msg
  BY <1>1 DEF Decodes
<1>3. \/ p = <<>>
      \/ \E r \in Snr : p = <<d(r, FALSE)>>
      \/ \E r \in Snr : p = <<d(Usual, FALSE), d(r, TRUE)>>
  BY DEF Passes
<1> HIDE DEF d, Snr
<1>4. CASE p = <<>>
  BY <1>4
<1>5. ASSUME NEW r \in Snr, p = <<d(r, FALSE)>>
      PROVE  /\ p \in Seq(Decodes) /\ Len(p) \in Nat
             /\ \A i \in 1 .. Len(p) : p[i].msg = live[s].msg
  <2> DEFINE a == d(r, FALSE)
  <2>1. a \in Decodes /\ a.msg = live[s].msg /\ p = <<a>>
    BY <1>2, <1>5
  <2> HIDE DEF a
  <2> QED BY <2>1, ShortSequences
<1>6. ASSUME NEW r \in Snr, p = <<d(Usual, FALSE), d(r, TRUE)>>
      PROVE  /\ p \in Seq(Decodes) /\ Len(p) \in Nat
             /\ \A i \in 1 .. Len(p) : p[i].msg = live[s].msg
  <2> DEFINE a == d(Usual, FALSE)
             b == d(r, TRUE)
  <2>1. a \in Decodes /\ b \in Decodes /\ a.msg = live[s].msg /\ b.msg = live[s].msg /\ p = <<a, b>>
    BY <1>1, <1>2, <1>6
  <2> HIDE DEF a, b
  <2> QED BY <2>1, ShortSequences
<1> QED BY <1>3, <1>4, <1>5, <1>6

(* What is at the end of a queue was there or was added.                   *)
LEMMA ConcatIs ==
    ASSUME NEW S, NEW a \in Seq(S), NEW b \in Seq(S)
    PROVE  /\ a \o b \in Seq(S)
           /\ \A i \in 1 .. Len(a \o b) :
                \/ i \in 1 .. Len(a) /\ (a \o b)[i] = a[i]
                \/ \E j \in 1 .. Len(b) : (a \o b)[i] = b[j]
<1>1. /\ a \o b \in Seq(S) /\ Len(a) \in Nat /\ Len(b) \in Nat
      /\ Len(a \o b) = Len(a) + Len(b)
      /\ \A i \in 1 .. Len(a) + Len(b) :
           (a \o b)[i] = IF i <= Len(a) THEN a[i] ELSE b[i - Len(a)]
  BY ConcatProperties, LenProperties
<1>2. ASSUME NEW i \in 1 .. Len(a \o b), i > Len(a)
      PROVE  \E j \in 1 .. Len(b) : (a \o b)[i] = b[j]
  <2>1. i - Len(a) \in 1 .. Len(b) /\ (a \o b)[i] = b[i - Len(a)]
    BY <1>1, <1>2
  <2> QED BY <2>1
<1> QED BY <1>1, <1>2

(* An over that is sent adds its report to those that went out, before     *)
(* anyone decodes it.                                                      *)
LEMMA AirKeeps ==
    ASSUME IInv, NEW s \in Stations, Air(s)
    PROVE  IInv'
<1> DEFINE m == live[s].msg
           over == [live[s] EXCEPT !.phase = "sent"]
<1>1. Typed /\ Screens /\ live[s] \in [phase : Phases, msg : Messages, slot : Slots]
  BY ScreensOf DEF IInv, Screens
<1>2. PICK p \in [{t \in Stations \ {s} : ~Pending(t) /\ t \notin keyed} -> Passes(s)] :
        inbox' = [t \in Stations |->
                    IF t \in DOMAIN p THEN inbox[t] \o p[t] ELSE inbox[t]]
  BY DEF Air
<1>3. /\ live' = [live EXCEPT ![s] = over]
      /\ aired' = aired \cup (IF m.report = None THEN {} ELSE {m})
      /\ upsets' \in {upsets, upsets + 1} /\ upsets' <= MaxUpsets
      /\ UNCHANGED <<session, replies, keyed, rows, slot, taps, called, copied, manual, restarted>>
  BY <1>1 DEF Air, Upset, Screens
<1>4. over \in [phase : Phases, msg : Messages, slot : Slots] /\ over.msg = m
  BY <1>1 DEF Phases
<1>5. m \in Messages
  BY <1>1
<1> HIDE DEF over
<1>6. /\ live' \in [Stations -> [phase : Phases, msg : Messages, slot : Slots]]
      /\ live'[s] = over /\ \A t \in Stations \ {s} : live'[t] = live[t]
  BY <1>1, <1>3, <1>4 DEF Screens
<1>7. ASSUME NEW t \in Stations
      PROVE  /\ inbox'[t] \in Seq(Decodes)
             /\ \A i \in 1 .. Len(inbox'[t]) :
                  \/ i \in 1 .. Len(inbox[t]) /\ inbox'[t][i] = inbox[t][i]
                  \/ inbox'[t][i].msg = m
  <2>1. inbox[t] \in Seq(Decodes) /\ Len(inbox[t]) \in Nat
    BY <1>1, LenProperties DEF Screens
  <2>2. CASE t \in DOMAIN p
    <3>1. /\ p[t] \in Seq(Decodes) /\ Len(p[t]) \in Nat
          /\ \A i \in 1 .. Len(p[t]) : p[t][i].msg = m
      BY <1>1, <2>2, PassesAre
    <3>2. inbox'[t] = inbox[t] \o p[t]
      BY <1>2, <2>2
    <3>3. /\ inbox[t] \o p[t] \in Seq(Decodes)
          /\ \A i \in 1 .. Len(inbox[t] \o p[t]) :
               \/ i \in 1 .. Len(inbox[t]) /\ (inbox[t] \o p[t])[i] = inbox[t][i]
               \/ \E j \in 1 .. Len(p[t]) : (inbox[t] \o p[t])[i] = p[t][j]
      <4> DEFINE a == inbox[t]
                 b == p[t]
      <4>1. a \in Seq(Decodes) /\ b \in Seq(Decodes)
        BY <2>1, <3>1
      <4> HIDE DEF a, b
      <4>2. /\ a \o b \in Seq(Decodes)
            /\ \A i \in 1 .. Len(a \o b) :
                 \/ i \in 1 .. Len(a) /\ (a \o b)[i] = a[i]
                 \/ \E j \in 1 .. Len(b) : (a \o b)[i] = b[j]
        BY <4>1, ConcatIs
      <4> QED BY <4>2 DEF a, b
    <3> HIDE DEF m
    <3> QED BY <3>1, <3>2, <3>3, Zenon
  <2>3. CASE t \notin DOMAIN p
    BY <1>2, <2>1, <2>3
  <2> QED BY <2>2, <2>3
<1>8. inbox' \in [Stations -> Seq(Decodes)]
  BY <1>2, <1>7
<1>9. Typed'
  <2>1. upsets' \in 0 .. MaxUpsets
    BY <1>1, <1>3, BoundsAssumption DEF Screens
  <2>2. aired' \subseteq Messages
    BY <1>1, <1>3, <1>5 DEF Screens
  <2> HIDE DEF m
  <2>3. Screens'
    BY <1>1, <1>3, <1>6, <1>8, <2>1, <2>2 DEF Screens
  <2> QED BY <1>1, <1>3, <2>3, StaysTyped
<1>10. ASSUME manual = {}, Recorded, \A t \in Stations : Grounded(t),
              restarted = {} => \A t \in Stations : OneContact(t)
       PROVE  Evident'
  <2>1. aired \subseteq aired' /\ (\A x \in aired' : x \in aired \/ (x = m /\ m.report # None))
        /\ (m.report # None => m \in aired') /\ copied' = copied /\ copied \subseteq copied'
    BY <1>3
  <2>2. /\ WellFormed(m, copied) /\ (m # NoMessage => m.from = s)
        /\ (m.report # None => m.to # None)
    BY <1>10 DEF Grounded, LiveSound
  <2>3. /\ \A t, q : Justified(t, q, aired, copied) => Justified(t, q, aired', copied')
        /\ \A d : Sound(d, aired, copied) => Sound(d, aired', copied')
    BY <2>1, Grows
  <2>4. \A d : d.msg = m => Sound(d, aired', copied')
    BY <2>1, <2>2 DEF Sound
  <2> HIDE DEF m
  <2>5. ASSUME NEW t \in Stations PROVE Grounded(t)'
    <3>1. Justified(t, session'[t], aired', copied')
      BY <1>3, <1>10, <2>3 DEF Grounded
    <3>2. HeardSound(t)'
      <4>1. \A i \in 1 .. Len(inbox'[t]) : Sound(inbox'[t][i], aired', copied')
        BY <1>7, <1>10, <2>3, <2>4 DEF Grounded, HeardSound
      <4>2. /\ \A i \in 1 .. Len(replies'[t]) : Sound(replies'[t][i], aired', copied')
            /\ \A u \in Stations : Sound(rows'[t][u], aired', copied')
        BY <1>3, <1>10, <2>3 DEF Grounded, HeardSound
      <4> QED BY <4>1, <4>2 DEF HeardSound
    <3>3. LiveSound(t)'
      <4>1. CASE t = s
        BY <1>4, <1>6, <2>1, <2>2, <4>1 DEF LiveSound
      <4>2. CASE t # s
        <5>1. live'[t] = live[t] /\ LiveSound(t)
          BY <1>6, <1>10, <4>2 DEF Grounded
        <5> QED BY <2>1, <5>1 DEF LiveSound
      <4> QED BY <4>1, <4>2
    <3> QED BY <3>1, <3>2, <3>3 DEF Grounded
  <2>6. ASSUME restarted = {}, NEW t \in Stations PROVE OneContact(t)'
    <3>1. OneContact(t) /\ OneContact(s)
      BY <1>10, <2>6
    <3>2. live'[t].msg = live[t].msg
      BY <1>4, <1>6 DEF m
    <3>3. ASSUME NEW x \in aired', x.from = t
          PROVE  x.to = session[t].dx /\ x.report = session[t].sent
      <4>1. CASE x \in aired
        BY <3>1, <3>3, <4>1 DEF OneContact
      <4>2. CASE x = m /\ m.report # None
        <5>1. m # NoMessage
          BY <4>2, Nothing
        <5>2. t = s
          BY <2>2, <3>3, <4>2, <5>1
        <5> QED BY <3>1, <4>2, <5>2 DEF OneContact, m
      <4> QED BY <2>1, <4>1, <4>2
    <3> QED BY <1>3, <3>1, <3>2, <3>3 DEF OneContact
  <2>7. Recorded'
    <3>1. \A f, t, r : Delivered(aired, f, t, r) => Delivered(aired', f, t, r)
      BY <2>1 DEF Delivered
    <3>2. \A x \in aired' : x.report # None /\ x.to # None
      BY <1>10, <2>1, <2>2 DEF Recorded
    <3> QED BY <1>10, <2>1, <3>1, <3>2 DEF Recorded
  <2> QED BY <1>3, <2>5, <2>6, <2>7 DEF Evident
<1>11. Evident'
  <2>1. CASE manual # {}
    BY <1>3, <2>1 DEF Evident
  <2>2. CASE manual = {}
    BY <1>10, <2>2 DEF IInv, Evident
  <2> QED BY <2>1, <2>2
<1> QED BY <1>9, <1>11 DEF IInv

(* Time passes, or nothing happens.                                        *)
LEMMA SlotKeeps ==
    ASSUME IInv, NextSlot \/ UNCHANGED vars
    PROVE  IInv'
<1>1. Typed /\ Screens
  BY ScreensOf DEF IInv
<1>2. /\ UNCHANGED <<session, live, replies, rows, inbox, taps, aired, copied, manual, restarted>>
      /\ called' = called /\ keyed' \subseteq keyed /\ slot' \in {slot, 1 - slot}
      /\ upsets' \in {upsets, upsets + 1} /\ (upsets' <= MaxUpsets \/ upsets' = upsets)
  BY <1>1 DEF NextSlot, Upset, Screens, vars, screen, bounds, history
<1>3. Screens'
  <2>1. upsets' \in 0 .. MaxUpsets /\ slot' \in Slots
    BY <1>1, <1>2, BoundsAssumption DEF Screens, Slots
  <2> QED BY <1>1, <1>2, <2>1 DEF Screens
<1>4. Typed'
  BY <1>1, <1>2, <1>3, StaysTyped
<1>5. Evident'
  <2>1. ASSUME NEW t \in Stations, Grounded(t) PROVE Grounded(t)'
    BY <1>2, <2>1 DEF Grounded, LiveSound, HeardSound
  <2>2. ASSUME NEW t \in Stations, OneContact(t) PROVE OneContact(t)'
    BY <1>2, <2>2 DEF OneContact
  <2>3. Recorded => Recorded'
    BY <1>2 DEF Recorded
  <2> QED BY <1>2, <2>1, <2>2, <2>3 DEF IInv, Evident
<1> QED BY <1>4, <1>5 DEF IInv

(* At first nobody has heard or said anything.                             *)
LEMMA InitIs == Init => IInv
<1> SUFFICES ASSUME Init PROVE IInv
  OBVIOUS
<1>1. NewSession \in Sessions /\ Shaped(NewSession) /\ NewSession.received = None
      /\ \A s, A, C : Justified(s, NewSession, A, C)
  <2>1. NoMessage \in Messages
    BY DEF Messages
  <2>2. NewSession \in Sessions
    BY <2>1, SessionAssumption DEF NewSession, Sessions
  <2>3. Shaped(NewSession) /\ \A s, A, C : Justified(s, NewSession, A, C)
    BY <2>2, ClearedIs
  <2> QED BY <2>2, <2>3 DEF NewSession
<1>2. /\ \A s \in Stations : /\ session[s] = NewSession /\ live[s] = Idle
                             /\ replies[s] = <<>> /\ inbox[s] = <<>>
      /\ \A s, t \in Stations : rows[s][t] = NoDecode
      /\ aired = {} /\ copied = {} /\ manual = {} /\ restarted = {}
  BY DEF Init
<1>3. TypeOK
  <2>1. <<>> \in Seq(Decodes)
    BY EmptySeq
  <2>2. 0 \in 0 .. MaxTaps /\ 0 \in 0 .. MaxUpsets
    BY BoundsAssumption
  <2>3. session \in [Stations -> Sessions]
    BY <1>1 DEF Init
  <2>4. /\ live \in [Stations -> [phase : Phases, msg : Messages, slot : Slots]]
        /\ rows \in [Stations -> [Stations -> Decodes]]
        /\ replies \in [Stations -> Seq(Decodes)] /\ inbox \in [Stations -> Seq(Decodes)]
    BY <2>1, Nothing DEF Init
  <2>5. {keyed, called, manual, restarted} \subseteq SUBSET Stations
        /\ slot \in Slots /\ taps = 0 /\ upsets = 0
    BY DEF Init, Slots
  <2> QED BY <1>2, <2>2, <2>3, <2>4, <2>5 DEF TypeOK
<1>4. Typed
  BY <1>1, <1>2, <1>3 DEF Typed
<1>5. ASSUME NEW s \in Stations PROVE Grounded(s) /\ OneContact(s)
  <2>1. Len(<<>>) = 0
    BY EmptySeq
  <2>2. Idle.msg = NoMessage /\ Idle.phase = "idle"
    BY DEF Idle
  <2>3. HeardSound(s)
    BY <1>2, <2>1, Nothing DEF HeardSound
  <2>4. LiveSound(s)
    BY <1>2, <2>2, Nothing DEF LiveSound, WellFormed, Reporting, Assuring
  <2>5. OneContact(s)
    BY <1>2, <2>2, Nothing DEF OneContact
  <2> QED BY <1>1, <1>2, <2>3, <2>4, <2>5 DEF Grounded
<1>6. Recorded
  BY <1>2 DEF Recorded
<1> QED BY <1>4, <1>5, <1>6 DEF IInv, Evident

(* Whatever a session holds was said by a message that went out, and       *)
(* whatever it says it may: for any number of stations, reports, retries,  *)
(* operator actions, losses and repeats (Ft8Session::receive and sent,     *)
(* Ft8Screen's tick and finishLiveTransmit).                               *)
THEOREM ContactInductive == Spec => []IInv
<1>1. IInv /\ [Next]_vars => IInv'
  <2> SUFFICES ASSUME IInv, [Next]_vars PROVE IInv'
    OBVIOUS
  <2>1. Next \/ UNCHANGED vars
    OBVIOUS
  <2>2. CASE NextSlot \/ UNCHANGED vars
    BY <2>2, SlotKeeps
  <2>3. ASSUME NEW s \in Stations, Tick(s) PROVE IInv'
    BY <2>3, TickKeeps
  <2>4. ASSUME NEW s \in Stations, Air(s) PROVE IInv'
    BY <2>4, AirKeeps
  <2>5. ASSUME NEW s \in Stations, NEW success \in BOOLEAN, Finish(s, success) PROVE IInv'
    BY <2>5, FinishKeeps
  <2>6. ASSUME NEW s \in Stations, AddDecode(s) PROVE IInv'
    BY <2>6, DecodeKeeps
  <2>7. ASSUME NEW s \in Stations, Operator(s) PROVE IInv'
    BY <2>7, OperatorKeeps
  <2> QED BY <2>1, <2>2, <2>3, <2>4, <2>5, <2>6, <2>7 DEF Next, Proceed
<1> QED BY <1>1, InitIs, PTL DEF Spec

(* Types.                                                                  *)
THEOREM ContactTypes == Spec => []TypeOK
<1>1. IInv => TypeOK
  BY DEF IInv, Typed
<1> QED BY <1>1, ContactInductive, PTL

(* A contact that Auto completed is one: both reports the log will name    *)
(* went out, the partner took ours, and the very one that the log will name*)
(* if nobody started over (Ft8Session::receive and sent).                  *)
THEOREM CompleteIsContact == Spec => []ReportsExchanged
<1>1. IInv => ReportsExchanged
  <2> SUFFICES ASSUME IInv, NEW s \in Stations, session[s].complete, manual = {}
               PROVE  LET q == session[s] IN
                      /\ q.sent # None
                      /\ q.received # None
                      /\ \E m \in aired : CarriesReport(m, q.dx, s, q.received)
                      /\ \E m \in aired : CarriesReport(m, s, q.dx, q.sent)
                      /\ \E r \in Reports : <<q.dx, s, r>> \in copied
                      /\ restarted = {} => <<q.dx, s, q.sent>> \in copied
    BY DEF ReportsExchanged
  <2> DEFINE q == session[s]
  <2>1. /\ Recorded /\ Justified(s, q, aired, copied)
        /\ restarted = {} => OneContact(s)
    BY DEF IInv, Evident, Grounded
  <2> HIDE DEF q
  <2>2. Exchanged(s, q, aired, copied)
    BY <2>1 DEF Justified, q
  <2>3. Delivered(aired, q.dx, s, q.received)
    BY <2>1, <2>2 DEF Justified, Exchanged
  <2>4. PICK r \in Reports : <<q.dx, s, r>> \in copied
    BY <2>2 DEF Exchanged, HasTaken
  <2>5. restarted = {} => r = q.sent
    <3>1. Delivered(aired, s, q.dx, r)
      BY <2>1, <2>4 DEF Recorded
    <3>2. PICK m \in aired : m.from = s /\ m.report = r
      BY <3>1 DEF Delivered, CarriesReport
    <3> QED BY <2>1, <3>2 DEF OneContact, q
  <2>6. /\ q.sent # None /\ q.received # None
        /\ \E m \in aired : CarriesReport(m, q.dx, s, q.received)
        /\ \E m \in aired : CarriesReport(m, s, q.dx, q.sent)
        /\ \E x \in Reports : <<q.dx, s, x>> \in copied
        /\ restarted = {} => <<q.dx, s, q.sent>> \in copied
    BY <2>2, <2>3, <2>4, <2>5 DEF Exchanged, Delivered
  <2> QED BY <2>6 DEF q
<1> QED BY <1>1, ContactInductive, PTL

(* Without the operator, repeated and late decodes neither reopen a        *)
(* completed contact nor replace a report that was sent in it              *)
(* (Ft8Session::receive; Ft8Screen's finishLiveTransmit and addDecodes).   *)
THEOREM CompleteStays == Spec => SettledStays
<1> DEFINE Kept(s) ==
             /\ session[s].complete =>
                  session'[s] = [session[s] EXCEPT !.taken = session'[s].taken]
             /\ (\E m \in aired : CarriesReport(m, s, session[s].dx, session[s].sent))
                  /\ session[s].sent # None =>
                  session'[s].sent = session[s].sent
           Quiet == \A s \in Stations : taps' = taps => Kept(s)
<1>1. IInv /\ [Next]_vars => Quiet
  <2> SUFFICES ASSUME IInv, [Next]_vars, taps' = taps, NEW s \in Stations PROVE Kept(s)
    OBVIOUS
  <2>1. Typed /\ TypeOK /\ Shaped(session[s]) /\ session[s] \in Sessions
    BY Parts
  <2>2. session'[s] = session[s] => Kept(s)
    BY <2>1 DEF Sessions
  <2>3. ASSUME NEW t \in Stations, \E x : Moves(t, x) /\ Settled(session[t], x) PROVE Kept(s)
    <3>1. PICK x : Moves(t, x) /\ Settled(session[t], x)
      BY <2>3
    <3>2. session'[t] = x /\ \A u \in Stations \ {t} : session'[u] = session[u]
      BY <2>1, <3>1, BecomesIs DEF Moves
    <3>3. CASE s = t
      <4>1. session[s].sent # None => session[s].dx # None
        BY <2>1 DEF Shaped
      <4> QED BY <3>1, <3>2, <3>3, <4>1 DEF Settled, Keeps
    <3>4. CASE s # t
      BY <2>2, <3>2, <3>4
    <3> QED BY <3>3, <3>4
  <2>4. ASSUME NEW t \in Stations, Operator(t) PROVE FALSE
    <3>1. taps' = taps + 1 /\ taps \in Nat
      BY <2>1, <2>4, OperatorMoves DEF TypeOK
    <3> QED BY <3>1
  <2>5. Next \/ UNCHANGED vars
    OBVIOUS
  <2> HIDE DEF Kept
  <2>6. CASE NextSlot \/ UNCHANGED vars
    BY <2>2, <2>6 DEF NextSlot, vars
  <2>7. ASSUME NEW t \in Stations, Tick(t) \/ Air(t) PROVE Kept(s)
    BY <2>2, <2>7 DEF Tick, Air
  <2>8. ASSUME NEW t \in Stations, NEW success \in BOOLEAN, Finish(t, success) PROVE Kept(s)
    BY <2>3, <2>8, FinishMoves
  <2>9. ASSUME NEW t \in Stations, AddDecode(t) PROVE Kept(s)
    BY <2>3, <2>9, DecodeMoves
  <2> QED BY <2>4, <2>5, <2>6, <2>7, <2>8, <2>9 DEF Next, Proceed
<1>2. Quiet => \A s \in Stations :
                 taps' = taps =>
                   /\ session[s].complete =>
                        session'[s] = [session[s] EXCEPT !.taken = session'[s].taken]
                   /\ (\E m \in aired : CarriesReport(m, s, session[s].dx, session[s].sent))
                        /\ session[s].sent # None =>
                        session'[s].sent = session[s].sent
  OBVIOUS
<1> HIDE DEF Quiet
<1> QED BY <1>1, <1>2, ContactInductive, PTL DEF Spec, SettledStays
=============================================================================

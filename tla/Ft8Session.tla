------------------------------ MODULE Ft8Session ------------------------------
(***************************************************************************)
(* Ft8Session: the exchange of one FT8 or FT4 contact, as a function from  *)
(* a session and what happens to it (a decode, a completed over, an        *)
(* operator's choice) to the next session.  No time and no radio here.     *)
(*                                                                         *)
(* Messages are what Ft8::parseMessage makes of their text.  Own call and  *)
(* grid are valid; one mode, so that of a decode is the session's.         *)
(***************************************************************************)
EXTENDS Naturals

CONSTANTS
    Stations,
    Reports,        \* signal reports
    None,           \* an empty call, report or signal measurement
    MaxRetries      \* maxRetries

ASSUME SessionAssumption ==
    /\ None \notin Stations \cup Reports
    /\ MaxRetries \in Nat \ {0}

CONSTANTS
    CallFirst,      \* the stations with "CQ: answer the first responder"
    UseRr73         \* the stations with "Finish with RR73"

ASSUME OptionsAssumption == CallFirst \cup UseRr73 \subseteq Stations

Kinds == {"CQ", "grid", "report", "Rreport", "RRR", "RR73", "73"}

\* What is kept of a slot's number: whether it is even.
Slots == {0, 1}

Message(to, from, kind, report) ==
    [to |-> to, from |-> from, kind |-> kind, report |-> report]

NoMessage == Message(None, None, "none", None)

Messages ==
    [to : Stations \cup {None}, from : Stations, kind : Kinds,
     report : Reports \cup {None}] \cup {NoMessage}

\* A message heard in a slot, with the strength measured, if it could be.
\* The second decode of one over has the id of the first, and no two overs
\* have the same: again says of a decode what its id would.
Decodes ==
    [msg : Messages, slot : Slots, snr : Reports \cup {None}, again : BOOLEAN]

Sessions ==
    [dx : Stations \cup {None}, next : Messages, last : Messages,
     taken : BOOLEAN,   \* m_lastReceivedId is that of the partner's last over
     sent : Reports \cup {None}, received : Reports \cup {None},
     armed : BOOLEAN, cq : BOOLEAN, complete : BOOLEAN,
     auto : BOOLEAN, even : BOOLEAN, retries : 0 .. MaxRetries]

NewSession ==
    [dx |-> None, next |-> NoMessage, last |-> NoMessage, taken |-> FALSE,
     sent |-> None, received |-> None,
     armed |-> FALSE, cq |-> FALSE, complete |-> FALSE,
     auto |-> TRUE, even |-> TRUE, retries |-> 0]

Directed(me, q, kind, report) == Message(q.dx, me, kind, report)

Halted(q) == [q EXCEPT !.armed = FALSE]

\* What is left when the contact is forgotten: the operator's settings.
Cleared(q) == [NewSession EXCEPT !.auto = q.auto, !.even = q.even]

(***************************************************************************)
(* Choosing a station from something it was heard to send.                 *)
(***************************************************************************)
OpeningMessage(me, q, m) ==
    IF m.to # me \/ q.sent = None THEN Directed(me, q, "grid", None)
    ELSE CASE m.kind = "grid"   -> Directed(me, q, "report", q.sent)
           [] m.kind = "report" -> Directed(me, q, "Rreport", q.sent)
           [] OTHER             -> Directed(me, q, "grid", None)

Selected(me, q, d) ==
    LET heard == [Cleared(q) EXCEPT
                    !.dx = d.msg.from,
                    !.even = (d.slot % 2 # 0),
                    !.sent = d.snr,
                    !.received = IF d.msg.to = me /\ d.msg.kind = "report"
                                 THEN d.msg.report ELSE None]
    IN  [heard EXCEPT !.next = OpeningMessage(me, heard, d.msg)]

CallingCq(me, q) ==
    [Cleared(q) EXCEPT !.cq = TRUE, !.next = Message(None, me, "CQ", None)]

CanArm(q) == q.next # NoMessage /\ ~q.complete

Armed(q) ==
    IF CanArm(q)
    THEN [q EXCEPT !.retries = 0, !.last = NoMessage, !.armed = TRUE]
    ELSE q

(***************************************************************************)
(* The answer to a message of the partner: NoMessage when there is none.   *)
(***************************************************************************)
\* Mutant: what was last sent is not looked at.
BelievesAnyRReport(q) == q.sent # None

\* An R report is believed only if a report of ours was the last thing sent.
SentOurReport(q) == q.sent # None /\ q.last.kind \in {"report", "Rreport"} /\ q.last.report = q.sent

\* An acknowledgment is believed only if it answers our R report.
SentOurRReport(me, q) ==
    /\ q.received # None
    /\ q.sent # None
    /\ q.last = Directed(me, q, "Rreport", q.sent)

Answer(me, q, m) ==
    CASE m.kind = "grid" /\ q.sent # None ->
            Directed(me, q, "report", q.sent)
      [] m.kind = "Rreport" /\ SentOurReport(q) ->
            Directed(me, q, IF me \in UseRr73 THEN "RR73" ELSE "RRR", None)
      [] m.kind = "report" /\ q.sent # None ->
            Directed(me, q, "Rreport", q.sent)
      [] m.kind \in {"RRR", "RR73"} /\ SentOurRReport(me, q) ->
            Directed(me, q, "73", None)
      [] OTHER -> NoMessage

\* The report a message delivers.
ReportFrom(q, m) ==
    IF m.kind = "report" \/ (m.kind = "Rreport" /\ SentOurReport(q))
    THEN m.report ELSE q.received

Advanced(q, next) ==
    IF next = NoMessage THEN q
    ELSE [q EXCEPT !.next = next, !.retries = IF next = q.next THEN @ ELSE 0]

Heard(me, q, m) ==
    IF m.kind = "73" /\ q.last.kind \in {"RRR", "RR73"}
    THEN [Halted(q) EXCEPT !.complete = TRUE]
    ELSE [Advanced(q, Answer(me, q, m)) EXCEPT !.received = ReportFrom(q, m)]

AnswersFirst(me, q) == q.dx = None /\ q.cq /\ me \in CallFirst

\* Mutants: each decode brings a new report; a decode is known by its sender.
ReceiveRemeasured(me, q, d) ==
    IF ~q.auto \/ ~q.armed \/ q.complete \/ d.msg.to # me THEN q
    ELSE IF AnswersFirst(me, q)
    THEN [Heard(me, Selected(me, q, d), d.msg) EXCEPT !.armed = q.armed]
    ELSE IF d.msg.from # q.dx THEN q
    ELSE Heard(me, [q EXCEPT !.sent = d.snr], d.msg)
ReceiveOnce(me, q, d) ==
    IF ~q.auto \/ ~q.armed \/ q.complete \/ d.msg.to # me \/ q.taken THEN q
    ELSE IF AnswersFirst(me, q)
    THEN [Heard(me, Selected(me, q, d), d.msg) EXCEPT !.armed = q.armed, !.taken = TRUE]
    ELSE IF d.msg.from # q.dx THEN q
    ELSE Heard(me, [q EXCEPT !.taken = TRUE], d.msg)

Receive(me, q0, d) ==
    LET q      == [q0 EXCEPT !.taken = @ /\ (d.again \/ d.msg.from # q0.dx)]
        caller == IF AnswersFirst(me, q)
                  THEN [Selected(me, q, d) EXCEPT !.armed = q.armed]
                  ELSE q
        ours   == [caller EXCEPT
                     !.taken = TRUE,
                     !.sent = IF @ = None THEN d.snr ELSE @]
    IN  IF \/ ~q.auto \/ ~q.armed \/ q.complete
           \/ d.msg.to # me
           \/ q.taken /\ d.msg.from = q.dx
        THEN q
        ELSE IF d.msg.from # caller.dx THEN caller ELSE Heard(me, ours, d.msg)

(***************************************************************************)
(* An over that went out in full.                                          *)
(***************************************************************************)
\* Mutant: tries are not counted up.
SentUncounted(q) ==
    IF ~q.armed \/ q.complete \/ q.next = NoMessage THEN q
    ELSE LET done == q.next.kind \in {"73", "RR73"} /\ q.received # None
         IN  [q EXCEPT !.last = q.next, !.retries = 1,
                       !.complete = done, !.armed = ~done]

Sent(q) ==
    LET tries == IF q.last = q.next THEN q.retries + 1 ELSE 1
        done  == q.next.kind \in {"73", "RR73"} /\ q.received # None
    IN  IF ~q.armed \/ q.complete \/ q.next = NoMessage THEN q
        ELSE [q EXCEPT !.last = q.next,
                       !.retries = tries,
                       !.complete = done,
                       !.armed = ~done /\ tries < MaxRetries]

===============================================================================

---------------------------- MODULE QrzUploadProofs ----------------------------
(***************************************************************************)
(* What holds of QrzUpload for every log, every number of sends, edits,    *)
(* faults and restarts.                                                    *)
(***************************************************************************)
EXTENDS QrzUpload, SequenceTheorems, FiniteSetTheorems, TLAPS

(***************************************************************************)
(* The inductive invariant                                                 *)
(***************************************************************************)
\* What waits in memory is queued on disk, and waits once.
WaitsOnce ==
    /\ \A j \in 1 .. Len(queue) :
          queue[j] \in DOMAIN log /\ log[queue[j]].state = "QUEUED"
    /\ \A j, k \in 1 .. Len(queue) : queue[j] = queue[k] => j = k

\* A contact that is queued on disk has a send that no POST has answered.
Authorised ==
    \A i \in Contacts :
        /\ posts[i] <= asked[i]
        /\ i \in DOMAIN log /\ log[i].state = "QUEUED" => posts[i] < asked[i]

\* The contact of the request is being sent on disk, and is what was posted.
InFlight ==
    /\ Busy =>
        /\ request.contact \in DOMAIN log
        /\ log[request.contact].state = "SENDING"
        /\ log[request.contact].content = request.content
    /\ reply # "none" => Busy
    /\ reply = "ok" => request \in accepted

\* Until resume the memory of the service is empty.
Starts == phase = "starting" => queue = <<>> /\ ~Busy

IInv == TypeOK /\ WaitsOnce /\ Authorised /\ InFlight /\ Starts /\ CheckedWasInserted

(***************************************************************************)
(* The log and the bounds                                                  *)
(***************************************************************************)
(* Counting one more of a kind stays within its bound.                     *)
LEMMA CountedOK ==
    ASSUME bounds \in Bounds,
           NEW kind \in {"sends", "edits", "setups", "faults", "restarts"},
           Counted(kind)
    PROVE  bounds' \in Bounds
<1>1. CASE kind = "sends"
  BY <1>1, QrzAssumption DEF Counted, Limits, Bounds
<1>2. CASE kind = "edits"
  BY <1>2, QrzAssumption DEF Counted, Limits, Bounds
<1>3. CASE kind = "setups"
  BY <1>3, QrzAssumption DEF Counted, Limits, Bounds
<1>4. CASE kind = "faults"
  BY <1>4, QrzAssumption DEF Counted, Limits, Bounds
<1>5. CASE kind = "restarts"
  BY <1>5, QrzAssumption DEF Counted, Limits, Bounds
<1> QED BY <1>1, <1>2, <1>3, <1>4, <1>5

LEMMA FaultOK ==
    ASSUME bounds \in Bounds, NEW happened \in BOOLEAN, Fault(happened)
    PROVE  bounds' \in Bounds
BY CountedOK DEF Fault

(* The log, and its indices.                                               *)
LEMMA LogIsASeq ==
    ASSUME TypeOK
    PROVE  /\ Len(log) \in Nat /\ Len(log) <= MaxContacts
           /\ DOMAIN log = 1 .. Len(log)
           /\ DOMAIN log \subseteq Contacts
           /\ \A i \in DOMAIN log : log[i] \in Records
<1>1. log \in Seq(Records) /\ Len(log) <= MaxContacts
  BY DEF TypeOK
<1>2. Len(log) \in Nat /\ DOMAIN log = 1 .. Len(log)
  BY <1>1, LenProperties
<1>3. DOMAIN log \subseteq Contacts
  BY <1>1, <1>2, QrzAssumption DEF Contacts
<1>4. \A i \in DOMAIN log : log[i] \in Records
  BY <1>1, <1>2, ElementOfSeq
<1> QED BY <1>1, <1>2, <1>3, <1>4

(* Replacing a record of the log.                                          *)
LEMMA ReplaceRecord ==
    ASSUME TypeOK, NEW i \in DOMAIN log, NEW r \in Records
    PROVE  /\ [log EXCEPT ![i] = r] \in Seq(Records)
           /\ Len([log EXCEPT ![i] = r]) = Len(log)
           /\ DOMAIN [log EXCEPT ![i] = r] = DOMAIN log
           /\ [log EXCEPT ![i] = r][i] = r
           /\ \A j \in DOMAIN log \ {i} : [log EXCEPT ![i] = r][j] = log[j]
<1>1. log \in Seq(Records) /\ i \in 1 .. Len(log)
  BY LogIsASeq DEF TypeOK
<1> QED BY <1>1, ExceptSeq, LogIsASeq, LenProperties

(* Adding one at its end.                                                  *)
LEMMA AppendRecord ==
    ASSUME TypeOK, NEW r \in Records, Len(log) < MaxContacts
    PROVE  /\ Append(log, r) \in Seq(Records)
           /\ Len(Append(log, r)) = Len(log) + 1
           /\ Len(log) + 1 \in Contacts \ DOMAIN log
           /\ DOMAIN Append(log, r) = DOMAIN log \cup {Len(log) + 1}
           /\ Append(log, r)[Len(log) + 1] = r
           /\ \A j \in DOMAIN log : Append(log, r)[j] = log[j]
<1>1. log \in Seq(Records) /\ Len(log) \in Nat /\ DOMAIN log = 1 .. Len(log)
  BY LogIsASeq DEF TypeOK
<1>2. /\ Append(log, r) \in Seq(Records)
      /\ Len(Append(log, r)) = Len(log) + 1
      /\ \A j \in 1 .. Len(log) : Append(log, r)[j] = log[j]
      /\ Append(log, r)[Len(log) + 1] = r
  BY <1>1, AppendProperties
<1>3. DOMAIN Append(log, r) = 1 .. Len(log) + 1
  BY <1>2, LenProperties
<1>4. Len(log) + 1 \in Contacts \ DOMAIN log
  BY <1>1, QrzAssumption DEF Contacts
<1> QED BY <1>1, <1>2, <1>3, <1>4

(* The queue.                                                              *)
LEMMA QueueIsASeq ==
    ASSUME TypeOK
    PROVE  /\ queue \in Seq(Contacts)
           /\ Len(queue) \in Nat
           /\ \A j \in 1 .. Len(queue) : queue[j] \in Contacts
BY LenProperties, ElementOfSeq DEF TypeOK

(* A record made from one of the log by the service is a record.           *)
LEMMA PatchedOK ==
    ASSUME NEW r \in Records, NEW state \in States, NEW status \in {"none", "Y", "M"}
    PROVE  /\ [r EXCEPT !.state = state] \in Records
           /\ [r EXCEPT !.state = state, !.status = status] \in Records
           /\ [r EXCEPT !.state = state].status = r.status
           /\ [r EXCEPT !.state = state].content = r.content
           /\ [r EXCEPT !.state = state].state = state
BY DEF Records

(***************************************************************************)
(* The start                                                               *)
(***************************************************************************)
LEMMA InitIInv == Init => IInv
<1> SUFFICES ASSUME Init PROVE IInv
  OBVIOUS
<1>1. <<>> \in Seq(Records) /\ Len(<<>>) = 0 /\ <<>> \in Seq(Contacts)
  BY EmptySeq
<1>2. TypeOK
  BY <1>1, QrzAssumption DEF Init, TypeOK, Bounds, NoPost
<1>3. DOMAIN log = {}
  BY <1>1, <1>2, LogIsASeq DEF Init
<1>4. WaitsOnce
  BY <1>1 DEF Init, WaitsOnce
<1>5. Authorised /\ InFlight /\ Starts /\ CheckedWasInserted
  BY <1>3 DEF Init, Authorised, InFlight, Starts, CheckedWasInserted, Busy
<1> QED BY <1>2, <1>4, <1>5 DEF IInv

(***************************************************************************)
(* The operator                                                            *)
(***************************************************************************)
(* Steps that leave the log, the service and the network alone.            *)
LEMMA QuietKeeps ==
    ASSUME IInv, TypeOK',
           UNCHANGED <<log, phase, queue, request, reply, qrz, history>>
    PROVE  IInv'
<1>1. WaitsOnce'
  BY DEF IInv, WaitsOnce
<1>2. Authorised'
  BY DEF IInv, Authorised, history
<1>3. InFlight' /\ Starts'
  BY DEF IInv, InFlight, Starts, Busy, qrz
<1>4. CheckedWasInserted'
  BY DEF IInv, CheckedWasInserted, Sent, qrz, history
<1> QED BY <1>1, <1>2, <1>3, <1>4 DEF IInv

LEMMA OpenEditorKeeps ==
    ASSUME IInv, NEW i \in DOMAIN log, OpenEditor(i)
    PROVE  IInv'
<1>1. bounds' \in Bounds
  BY CountedOK DEF IInv, TypeOK, OpenEditor
<1>2. editor' \in Edits
  BY LogIsASeq DEF IInv, OpenEditor, Edits
<1>3. TypeOK'
  BY <1>1, <1>2 DEF IInv, TypeOK, OpenEditor, qrz, history
<1> QED BY <1>3, QuietKeeps DEF OpenEditor

LEMMA CancelEditKeeps == ASSUME IInv, CancelEdit PROVE IInv'
<1>1. TypeOK'
  BY DEF IInv, TypeOK, CancelEdit, qrz, history
<1> QED BY <1>1, QuietKeeps DEF CancelEdit

LEMMA ConfigureKeeps ==
    ASSUME IInv, NEW call \in Stations, NEW auto \in BOOLEAN, Configure(call, auto)
    PROVE  IInv'
<1>1. bounds' \in Bounds
  BY CountedOK DEF IInv, TypeOK, Configure
<1>2. TypeOK'
  BY <1>1 DEF IInv, TypeOK, Configure, Stations, memory, qrz, history
<1> QED BY <1>2, QuietKeeps DEF Configure, memory

(* A record of log is queued: the contact is new to the queue.             *)
LEMMA QueuedOK ==
    ASSUME TypeOK, NEW r \in Records, Sendable(r)
    PROVE  /\ Queued(r) \in Records
           /\ Queued(r).state = "QUEUED"
           /\ ~Sent(Queued(r))
BY DEF TypeOK, Records, Sendable, Queued, States, Sent

(* Sending is asked for, of a contact that no POST or wait is about.       *)
LEMMA SendKeeps ==
    ASSUME IInv, phase = "up",
           NEW l, NEW i \in Contacts,
           l \in Seq(Records), Len(l) <= MaxContacts,
           DOMAIN log \subseteq DOMAIN l, DOMAIN l \subseteq DOMAIN log \cup {i},
           \A j \in DOMAIN log : l[j] = log[j],
           i \in DOMAIN l, Sendable(l[i]), Send(l, i),
           UNCHANGED <<setup, phase, request, reply, editor, stranded, qrz, posts, imported>>
    PROVE  IInv'
<1> USE DEF IInv
<1>1. Len(l) \in Nat /\ DOMAIN l = 1 .. Len(l) /\ l[i] \in Records
  BY LenProperties, ElementOfSeq
<1>2. /\ Queued(l[i]) \in Records
      /\ Queued(l[i]).state = "QUEUED"
      /\ ~Sent(Queued(l[i]))
  BY <1>1, QueuedOK
<1>3. /\ log' \in Seq(Records)
      /\ Len(log') = Len(l)
      /\ DOMAIN log' = DOMAIN l
      /\ log'[i] = Queued(l[i])
      /\ \A j \in DOMAIN log \ {i} : log'[j] = log[j]
  BY <1>1, <1>2, ExceptSeq, LenProperties DEF Send
<1>4. bounds' \in Bounds
  BY CountedOK DEF TypeOK, Send
<1>5. /\ queue' \in Seq(Contacts)
      /\ Len(queue') = Len(queue) + 1
      /\ \A j \in 1 .. Len(queue) : queue'[j] = queue[j]
      /\ queue'[Len(queue) + 1] = i
  BY QueueIsASeq, AppendProperties DEF Send
<1>6. asked' \in [Contacts -> Nat] /\ asked'[i] = asked[i] + 1
      /\ \A j \in Contacts \ {i} : asked'[j] = asked[j]
  BY DEF Send, TypeOK
<1>7. TypeOK'
  BY <1>3, <1>4, <1>5, <1>6 DEF TypeOK, Send, qrz
<1>8. i \in DOMAIN log => log[i].state \notin {"QUEUED", "SENDING"}
  BY DEF Sendable
<1>9. WaitsOnce'
  <2>1. \A j \in 1 .. Len(queue) : queue[j] # i /\ queue[j] \in DOMAIN log
    BY <1>8 DEF WaitsOnce
  <2>2. \A j \in 1 .. Len(queue') :
           queue'[j] \in DOMAIN log' /\ log'[queue'[j]].state = "QUEUED"
    BY <1>2, <1>3, <1>5, <2>1, QueueIsASeq, SMTT(30) DEF WaitsOnce
  <2>3. \A j, k \in 1 .. Len(queue') : queue'[j] = queue'[k] => j = k
    <3> SUFFICES ASSUME NEW j \in 1 .. Len(queue'), NEW k \in 1 .. Len(queue'),
                        queue'[j] = queue'[k]
                 PROVE  j = k
      OBVIOUS
    <3>1. /\ j \in 1 .. Len(queue) \/ j = Len(queue) + 1
          /\ k \in 1 .. Len(queue) \/ k = Len(queue) + 1
      BY <1>5, QueueIsASeq
    <3>2. \A m, n \in 1 .. Len(queue) : queue[m] = queue[n] => m = n
      BY DEF WaitsOnce
    <3> QED BY <1>5, <2>1, <3>1, <3>2
  <2> QED BY <2>2, <2>3 DEF WaitsOnce
<1>10. Authorised'
  <2> SUFFICES ASSUME NEW j \in Contacts
               PROVE  /\ posts[j] <= asked'[j]
                      /\ j \in DOMAIN log' /\ log'[j].state = "QUEUED"
                           => posts[j] < asked'[j]
    BY DEF Authorised
  <2>1. posts[j] \in Nat /\ asked[j] \in Nat /\ posts[j] <= asked[j]
    BY DEF TypeOK, Authorised
  <2>2. CASE j = i
    BY <1>6, <2>1, <2>2
  <2>3. CASE j # i
    <3>1. j \in DOMAIN log' => j \in DOMAIN log /\ log'[j] = log[j]
      BY <1>3, <2>3
    <3> QED BY <1>6, <2>1, <2>3, <3>1 DEF Authorised
  <2> QED BY <2>2, <2>3
<1>11. InFlight'
  BY <1>3, <1>8 DEF InFlight, Busy, qrz
<1>12. Starts'
  BY DEF Starts
<1>13. CheckedWasInserted'
  <2> SUFFICES ASSUME NEW j \in DOMAIN log' \ imported', Sent(log'[j])
               PROVE  \E post \in accepted' : post.contact = j
                        /\ (log'[j].status = "Y" => post.content = log'[j].content)
    BY DEF CheckedWasInserted, Sent
  <2>1. j # i /\ j \in DOMAIN log \ imported /\ log'[j] = log[j]
    BY <1>2, <1>3
  <2> QED BY <2>1 DEF CheckedWasInserted, qrz
<1> QED BY <1>7, <1>9, <1>10, <1>11, <1>12, <1>13

LEMMA OperatorSendsKeeps ==
    ASSUME IInv, NEW i \in DOMAIN log, OperatorSends(i)
    PROVE  IInv'
<1>1. log \in Seq(Records) /\ Len(log) <= MaxContacts /\ i \in Contacts
  BY LogIsASeq DEF IInv, TypeOK
<1> QED BY <1>1, SendKeeps DEF OperatorSends

(* A contact is added that has not been asked for.                         *)
LEMMA AddedKeeps ==
    ASSUME IInv, phase = "up", Len(log) < MaxContacts,
           NEW r \in Records, r.state = "none",
           log' = Append(log, r),
           Sent(r) => Len(log) + 1 \in imported',
           imported' \in {imported, imported \cup {Len(log) + 1}},
           bounds' \in Bounds,
           UNCHANGED <<setup, phase, memory, qrz, asked, posts>>
    PROVE  IInv'
<1> USE DEF IInv
<1>1. /\ log' \in Seq(Records)
      /\ Len(log') = Len(log) + 1
      /\ Len(log) + 1 \in Contacts \ DOMAIN log
      /\ DOMAIN log' = DOMAIN log \cup {Len(log) + 1}
      /\ log'[Len(log) + 1] = r
      /\ \A j \in DOMAIN log : log'[j] = log[j]
  BY AppendRecord
<1>2. TypeOK'
  BY <1>1, LogIsASeq, QrzAssumption DEF TypeOK, memory, qrz
<1>3. WaitsOnce'
  BY <1>1 DEF WaitsOnce, memory
<1>4. Authorised'
  BY <1>1 DEF Authorised
<1>5. InFlight' /\ Starts'
  BY <1>1 DEF InFlight, Starts, Busy, memory, qrz
<1>6. CheckedWasInserted'
  <2> SUFFICES ASSUME NEW j \in DOMAIN log' \ imported', Sent(log'[j])
               PROVE  \E post \in accepted' : post.contact = j
                        /\ (log'[j].status = "Y" => post.content = log'[j].content)
    BY DEF CheckedWasInserted, Sent
  <2>1. j \in DOMAIN log \ imported /\ log'[j] = log[j]
    BY <1>1
  <2> QED BY <2>1 DEF CheckedWasInserted, qrz
<1> QED BY <1>2, <1>3, <1>4, <1>5, <1>6

LEMMA NewContactOK ==
    ASSUME NEW station \in Stations, NEW status \in {"none", "Y"}
    PROVE  /\ [NewContact(station) EXCEPT !.status = status] \in Records
           /\ [NewContact(station) EXCEPT !.status = status].state = "none"
           /\ NewContact(station) \in Records
           /\ NewContact(station).state = "none"
           /\ ~Sent(NewContact(station))
BY QrzAssumption DEF NewContact, Records, States, Stations, Sent

LEMMA AddContactKeeps ==
    ASSUME IInv, NEW station \in Stations, AddContact(station)
    PROVE  IInv'
<1> DEFINE r == NewContact(station)
           l == Append(log, r)
<1>1. r \in Records /\ r.state = "none" /\ ~Sent(r)
  BY NewContactOK
<1>2. phase = "up" /\ Len(log) < MaxContacts
  BY DEF AddContact
<1>3. /\ l \in Seq(Records)
      /\ Len(l) = Len(log) + 1
      /\ Len(log) + 1 \in Contacts \ DOMAIN log
      /\ DOMAIN l = DOMAIN log \cup {Len(log) + 1}
      /\ l[Len(log) + 1] = r
      /\ \A j \in DOMAIN log : l[j] = log[j]
  BY <1>1, <1>2, AppendRecord DEF IInv
<1>4. CASE Sendable(r) /\ Send(l, Len(l))
  <2>1. Len(l) <= MaxContacts
    BY <1>2, <1>3, LogIsASeq, QrzAssumption DEF IInv
  <2> QED BY <1>2, <1>3, <1>4, <2>1, SendKeeps DEF AddContact
<1>5. CASE NotSent(l) /\ (Fault(TRUE) \/ Fault(FALSE))
  <2>1. bounds' \in Bounds
    BY <1>5, FaultOK DEF IInv, TypeOK
  <2>2. UNCHANGED <<setup, phase, memory, qrz, asked, posts>> /\ imported' = imported
    BY <1>5 DEF AddContact, NotSent, memory
  <2>3. log' = Append(log, r)
    BY <1>5 DEF NotSent
  <2> QED BY <1>1, <1>2, <2>1, <2>2, <2>3, AddedKeeps
<1> QED BY <1>4, <1>5 DEF AddContact

LEMMA ImportKeeps ==
    ASSUME IInv, NEW station \in Stations, NEW status \in {"none", "Y"},
           Import(station, status)
    PROVE  IInv'
<1>1. bounds' \in Bounds
  BY DEF Import, IInv, TypeOK
<1> QED BY <1>1, NewContactOK, AddedKeeps DEF Import

(* What replace makes of a record: its state stays, and it is checked only *)
(* as it was, or as edited.                                                *)
LEMMA EditedOK ==
    ASSUME NEW old \in Records, NEW source \in Records,
           NEW content \in 0 .. MaxEdits, NEW station \in Calls \cup {None}
    PROVE  LET r == Edited(old, source, content, station)
           IN  /\ r \in Records
               /\ r.state = old.state
               /\ Sent(r) <=> Sent(old)
               /\ r.status = "Y" => r = old
BY DEF Edited, Records, Sent

LEMMA SaveEditKeeps ==
    ASSUME IInv, NEW changed \in BOOLEAN, NEW station \in Stations,
           SaveEdit(changed, station)
    PROVE  IInv'
<1> USE DEF IInv
<1> DEFINE i == editor.index
           source == editor.source
           content == IF changed THEN bounds.edits ELSE source.content
           r == Edited(log[i], source, content, station)
<1>1. /\ log[i].state # "SENDING"
      /\ log' = [log EXCEPT ![i] = r]
      /\ editor' = NoEdit
      /\ UNCHANGED <<setup, phase, queue, calls, request, reply, stranded, qrz, history, bounds>>
  BY DEF SaveEdit
<1>2. i \in Contacts /\ source \in Records /\ editor \in Edits
  BY DEF SaveEdit, TypeOK, Edits
<1>3. content \in 0 .. MaxEdits /\ station \in Calls \cup {None}
  BY <1>2 DEF TypeOK, Bounds, Records, Stations
<1>4. i \in DOMAIN log /\ log[i] \in Records
  BY LogIsASeq DEF SaveEdit
<1>5. /\ r \in Records
      /\ r.state = log[i].state
      /\ Sent(r) <=> Sent(log[i])
      /\ r.status = "Y" => r = log[i]
  BY <1>2, <1>3, <1>4, EditedOK, ZenonT(60)
<1> HIDE DEF r
<1>6. /\ log' \in Seq(Records)
      /\ Len(log') = Len(log)
      /\ DOMAIN log' = DOMAIN log
      /\ log'[i] = r
      /\ \A j \in DOMAIN log \ {i} : log'[j] = log[j]
  BY <1>1, <1>4, <1>5, ReplaceRecord
<1>7. \A j \in DOMAIN log : log'[j].state = log[j].state
  BY <1>5, <1>6
<1>8. TypeOK'
  BY <1>1, <1>6 DEF TypeOK, qrz, history
<1>9. WaitsOnce'
  BY <1>1, <1>6, <1>7 DEF WaitsOnce
<1>10. Authorised'
  BY <1>1, <1>6, <1>7 DEF Authorised, history
<1>11. InFlight' /\ Starts'
  BY <1>1, <1>6 DEF InFlight, Starts, Busy, qrz
<1>12. CheckedWasInserted'
  <2> SUFFICES ASSUME NEW j \in DOMAIN log' \ imported', Sent(log'[j])
               PROVE  \E post \in accepted' : post.contact = j
                        /\ (log'[j].status = "Y" => post.content = log'[j].content)
    BY DEF CheckedWasInserted, Sent
  <2>1. j \in DOMAIN log \ imported /\ accepted' = accepted
    BY <1>1, <1>6 DEF qrz, history
  <2>2. Sent(log[j]) /\ (log'[j].status = "Y" => log'[j] = log[j])
    BY <1>5, <1>6, <2>1
  <2> QED BY <2>1, <2>2 DEF CheckedWasInserted
<1> QED BY <1>8, <1>9, <1>10, <1>11, <1>12

(***************************************************************************)
(* The service                                                             *)
(***************************************************************************)
(* What is taken from the queue is queued on disk, and waits no longer.    *)
LEMMA HeadOfQueue ==
    ASSUME TypeOK, WaitsOnce, queue # <<>>
    PROVE  /\ Head(queue) \in DOMAIN log
           /\ log[Head(queue)].state = "QUEUED"
           /\ Tail(queue) \in Seq(Contacts)
           /\ \A j \in 1 .. Len(Tail(queue)) :
                 /\ Tail(queue)[j] # Head(queue)
                 /\ Tail(queue)[j] \in DOMAIN log
                 /\ log[Tail(queue)[j]].state = "QUEUED"
           /\ \A j, k \in 1 .. Len(Tail(queue)) :
                 Tail(queue)[j] = Tail(queue)[k] => j = k
<1>1. queue \in Seq(Contacts) /\ Len(queue) \in Nat \ {0}
  BY EmptySeq DEF TypeOK
<1>2. /\ Tail(queue) \in Seq(Contacts)
      /\ Len(Tail(queue)) = Len(queue) - 1
      /\ \A j \in 1 .. Len(Tail(queue)) : Tail(queue)[j] = queue[j + 1]
  BY <1>1, HeadTailProperties
<1>3. Head(queue) = queue[1] /\ 1 \in 1 .. Len(queue)
  BY <1>1
<1>4. \A j \in 1 .. Len(Tail(queue)) : j + 1 \in 1 .. Len(queue) /\ j + 1 # 1
  BY <1>1, <1>2
<1>5. /\ \A j \in 1 .. Len(queue) : queue[j] \in DOMAIN log /\ log[queue[j]].state = "QUEUED"
      /\ \A j, k \in 1 .. Len(queue) : queue[j] = queue[k] => j = k
  BY DEF WaitsOnce
<1>6. \A j, k \in 1 .. Len(Tail(queue)) :
         Tail(queue)[j] = Tail(queue)[k] => j = k
  <2> SUFFICES ASSUME NEW j \in 1 .. Len(Tail(queue)),
                      NEW k \in 1 .. Len(Tail(queue)),
                      Tail(queue)[j] = Tail(queue)[k]
               PROVE  j = k
    OBVIOUS
  <2>1. j + 1 = k + 1
    BY <1>2, <1>4, <1>5
  <2> QED BY <1>1, <1>2, <2>1
<1> QED BY <1>2, <1>3, <1>4, <1>5, <1>6

(* A patch of record i by the service leaves the other records alone, and  *)
(* checks i only if QRZ inserted what it is.                               *)
LEMMA PatchKeeps ==
    ASSUME IInv, NEW i \in DOMAIN log, NEW r \in Records,
           r.state \in {"SENDING", "SENT", "ERROR"},
           r.content = log[i].content,
           \/ r.status = log[i].status
           \/ \E post \in accepted : post.contact = i /\ post.content = r.content,
           log' \in {log, [log EXCEPT ![i] = r]},
           UNCHANGED <<accepted, imported>>
    PROVE  /\ log' \in Seq(Records)
           /\ Len(log') = Len(log)
           /\ DOMAIN log' = DOMAIN log
           /\ log'[i] \in {log[i], r}
           /\ \A j \in DOMAIN log \ {i} : log'[j] = log[j]
           /\ CheckedWasInserted'
<1> USE DEF IInv
<1>1. /\ log' \in Seq(Records)
      /\ Len(log') = Len(log)
      /\ DOMAIN log' = DOMAIN log
      /\ log'[i] \in {log[i], r}
      /\ \A j \in DOMAIN log \ {i} : log'[j] = log[j]
  <2>1. CASE log' = log
    BY <2>1 DEF TypeOK
  <2>2. CASE log' = [log EXCEPT ![i] = r]
    BY <2>2, ReplaceRecord
  <2> QED BY <2>1, <2>2
<1>2. CheckedWasInserted'
  <2> SUFFICES ASSUME NEW j \in DOMAIN log' \ imported', Sent(log'[j])
               PROVE  \E post \in accepted' : post.contact = j
                        /\ (log'[j].status = "Y" => post.content = log'[j].content)
    BY DEF CheckedWasInserted, Sent
  <2>1. CASE log'[j] = log[j]
    BY <1>1, <2>1 DEF CheckedWasInserted
  <2>2. CASE log'[j] # log[j]
    <3>1. j = i /\ log'[j] = r
      BY <1>1, <2>2
    <3>2. CASE r.status = log[i].status
      BY <1>1, <3>1, <3>2 DEF CheckedWasInserted, Sent
    <3>3. CASE \E post \in accepted : post.contact = i /\ post.content = r.content
      BY <3>1, <3>3
    <3> QED BY <3>2, <3>3
  <2> QED BY <2>1, <2>2
<1> QED BY <1>1, <1>2

(* No POST, and no record newly queued: every send is still authorised.    *)
LEMMA StillAuthorised ==
    ASSUME IInv, UNCHANGED <<posts, asked>>, DOMAIN log' = DOMAIN log,
           \A j \in DOMAIN log : log'[j].state = "QUEUED" => log[j].state = "QUEUED"
    PROVE  Authorised'
BY DEF IInv, Authorised

(* finish, of a contact that nothing waits for.                            *)
LEMMA UploadedOK ==
    ASSUME NEW r \in Records, NEW success \in BOOLEAN
    PROVE  /\ Uploaded(r, success) \in Records
           /\ Uploaded(r, success).state \in {"SENT", "ERROR"}
           /\ Uploaded(r, success).content = r.content
           /\ ~success => Uploaded(r, success).status = r.status
BY DEF Uploaded, Records, States

LEMMA FinishKeeps ==
    ASSUME IInv, NEW i \in DOMAIN log, NEW success \in BOOLEAN, NEW saved \in BOOLEAN,
           success => \E post \in accepted :
                         post.contact = i /\ post.content = log[i].content,
           Finish(i, success, saved),
           UNCHANGED <<accepted, imported, posts, asked>>
    PROVE  /\ log' \in Seq(Records)
           /\ Len(log') = Len(log)
           /\ DOMAIN log' = DOMAIN log
           /\ \A j \in DOMAIN log \ {i} : log'[j] = log[j]
           /\ stranded' \subseteq Contacts
           /\ Authorised' /\ CheckedWasInserted'
<1> DEFINE r == Uploaded(log[i], success)
<1>1. log[i] \in Records /\ i \in Contacts
  BY LogIsASeq DEF IInv
<1>2. /\ r \in Records
      /\ r.state \in {"SENT", "ERROR"}
      /\ r.content = log[i].content
      /\ ~success => r.status = log[i].status
  BY <1>1, UploadedOK
<1>3. log' \in {log, [log EXCEPT ![i] = r]} /\ stranded' \in {stranded, stranded \cup {i}}
  BY DEF Finish
<1> HIDE DEF r
<1>4. /\ log' \in Seq(Records)
      /\ Len(log') = Len(log)
      /\ DOMAIN log' = DOMAIN log
      /\ log'[i] \in {log[i], r}
      /\ \A j \in DOMAIN log \ {i} : log'[j] = log[j]
      /\ CheckedWasInserted'
  BY <1>2, <1>3, PatchKeeps
<1>5. Authorised'
  BY <1>2, <1>4, StillAuthorised
<1>6. stranded' \subseteq Contacts
  BY <1>1, <1>3 DEF IInv, TypeOK
<1> QED BY <1>4, <1>5, <1>6

LEMMA FinishedKeeps == ASSUME IInv, Finished PROVE IInv'
<1> USE DEF IInv
<1> DEFINE i == request.contact
<1>1. PICK saved \in BOOLEAN : Fault(~saved) /\ Finish(i, reply = "ok", saved)
  BY DEF Finished
<1>2. /\ i \in DOMAIN log
      /\ log[i].state = "SENDING"
      /\ reply = "ok" => request \in accepted /\ request.content = log[i].content
  BY DEF Finished, InFlight
<1>3. /\ log' \in Seq(Records)
      /\ Len(log') = Len(log)
      /\ DOMAIN log' = DOMAIN log
      /\ \A j \in DOMAIN log \ {i} : log'[j] = log[j]
      /\ stranded' \subseteq Contacts
      /\ Authorised' /\ CheckedWasInserted'
  <2>1. UNCHANGED <<accepted, imported, posts, asked>>
    BY DEF Finished, qrz, history
  <2>2. (reply = "ok") \in BOOLEAN
    OBVIOUS
  <2> QED BY <1>1, <1>2, <2>1, <2>2, FinishKeeps
<1>4. bounds' \in Bounds
  BY <1>1, FaultOK DEF TypeOK
<1>5. TypeOK'
  BY <1>3, <1>4 DEF TypeOK, Finished, qrz, history
<1>6. WaitsOnce'
  BY <1>2, <1>3 DEF WaitsOnce, Finished
<1>7. InFlight' /\ Starts'
  BY DEF InFlight, Starts, Busy, Finished
<1> QED BY <1>3, <1>5, <1>6, <1>7

(* process, of the contact at the head of the queue.                       *)
LEMMA TakeHeadKeeps ==
    ASSUME IInv, NEW others \in Nat, TakeHead(others), ~Busy, queue # <<>>,
           phase' = "up",
           UNCHANGED <<setup, editor, accepted, asked, imported>>
    PROVE  IInv'
<1> USE DEF IInv
<1> DEFINE i == Head(queue)
<1>1. /\ i \in DOMAIN log
      /\ log[i].state = "QUEUED"
      /\ Tail(queue) \in Seq(Contacts)
      /\ \A j \in 1 .. Len(Tail(queue)) :
            /\ Tail(queue)[j] # i
            /\ Tail(queue)[j] \in DOMAIN log
            /\ log[Tail(queue)[j]].state = "QUEUED"
      /\ \A j, k \in 1 .. Len(Tail(queue)) : Tail(queue)[j] = Tail(queue)[k] => j = k
  BY HeadOfQueue
<1>2. queue' = Tail(queue)
  BY DEF TakeHead
<1>3. log[i] \in Records /\ i \in Contacts
  BY <1>1, LogIsASeq
<1>4. ASSUME DOMAIN log' = DOMAIN log, \A j \in DOMAIN log \ {i} : log'[j] = log[j]
      PROVE  WaitsOnce'
  BY <1>1, <1>2, <1>4 DEF WaitsOnce
<1>5. Starts'
  BY DEF Starts
<1>6. CASE /\ UNCHANGED <<log, stranded, request, reply, wire, posts, bounds>>
           /\ calls' = others + 1
  <2>1. TypeOK'
    BY <1>1, <1>2, <1>6 DEF TypeOK
  <2>2. WaitsOnce'
    BY <1>4, <1>6
  <2>3. Authorised' /\ InFlight' /\ CheckedWasInserted'
    BY <1>6 DEF Authorised, InFlight, Busy, CheckedWasInserted, Sent
  <2> QED BY <1>5, <2>1, <2>2, <2>3
<1>7. ASSUME NEW saved \in BOOLEAN, NEW faulty \in BOOLEAN,
             Fault(faulty), GivesUp(i, saved), calls' = others + 1
      PROVE  IInv'
  <2>1. /\ log' \in Seq(Records)
        /\ Len(log') = Len(log)
        /\ DOMAIN log' = DOMAIN log
        /\ \A j \in DOMAIN log \ {i} : log'[j] = log[j]
        /\ stranded' \subseteq Contacts
        /\ Authorised' /\ CheckedWasInserted'
    BY <1>1, <1>7, FinishKeeps DEF GivesUp
  <2>2. bounds' \in Bounds
    BY <1>7, FaultOK DEF TypeOK
  <2>3. TypeOK'
    BY <1>1, <1>2, <1>7, <2>1, <2>2, SMTT(30) DEF TypeOK, GivesUp
  <2>4. WaitsOnce'
    BY <1>4, <2>1
  <2>5. InFlight'
    BY <1>7 DEF InFlight, Busy, GivesUp
  <2> QED BY <1>5, <2>1, <2>3, <2>4, <2>5
<1>8. CASE Post(i) /\ calls' = others /\ UNCHANGED bounds
  <2> DEFINE r == [log[i] EXCEPT !.state = "SENDING"]
             post == [contact |-> i, content |-> log[i].content, try |-> posts[i] + 1]
  <2>1. /\ r \in Records /\ r.state = "SENDING"
        /\ r.content = log[i].content /\ r.status = log[i].status
    BY <1>3, PatchedOK DEF States
  <2>2. log' = [log EXCEPT ![i] = r] /\ request' = post /\ reply' = "waiting"
    BY <1>8 DEF Post
  <2>3. post \in Posts /\ post # NoPost /\ post.contact = i /\ post.content = log[i].content
    <3>1. i # 0 /\ posts[i] \in Nat /\ log[i].content \in 0 .. MaxEdits
      BY <1>3, QrzAssumption, SMTT(30) DEF TypeOK, Contacts, Records
    <3>2. post.contact = i /\ NoPost.contact = 0
      BY DEF NoPost
    <3>3. post \in Posts
      BY <1>3, <3>1 DEF Posts
    <3> QED BY <3>1, <3>2, <3>3
  <2> HIDE DEF r, post
  <2>4. /\ log' \in Seq(Records)
        /\ Len(log') = Len(log)
        /\ DOMAIN log' = DOMAIN log
        /\ \A j \in DOMAIN log \ {i} : log'[j] = log[j]
        /\ CheckedWasInserted'
    BY <1>1, <2>1, <2>2, PatchKeeps
  <2>5. log'[i] = r
    BY <1>1, <2>1, <2>2, ReplaceRecord
  <2>6. posts' \in [Contacts -> Nat] /\ posts'[i] = posts[i] + 1
        /\ \A j \in Contacts \ {i} : posts'[j] = posts[j]
    BY <1>3, <1>8 DEF Post, TypeOK
  <2>7. wire' \subseteq Posts /\ stranded' = stranded
    BY <1>8, <2>3 DEF Post, TypeOK, post
  <2>8. TypeOK'
    BY <1>1, <1>2, <1>8, <2>2, <2>3, <2>4, <2>6, <2>7 DEF TypeOK
  <2>9. WaitsOnce'
    BY <1>4, <2>4
  <2>10. Authorised'
    <3> SUFFICES ASSUME NEW j \in Contacts
                 PROVE  /\ posts'[j] <= asked[j]
                        /\ j \in DOMAIN log' /\ log'[j].state = "QUEUED"
                             => posts'[j] < asked[j]
      BY DEF Authorised
    <3>1. posts[j] \in Nat /\ asked[j] \in Nat
      BY DEF TypeOK
    <3>2. CASE j = i
      BY <1>1, <1>3, <2>1, <2>5, <2>6, <3>1, <3>2 DEF Authorised
    <3>3. CASE j # i
      BY <2>4, <2>6, <3>3 DEF Authorised
    <3> QED BY <3>2, <3>3
  <2>11. InFlight'
    BY <1>1, <2>1, <2>2, <2>3, <2>4, <2>5 DEF InFlight, Busy
  <2> QED BY <1>5, <2>4, <2>8, <2>9, <2>10, <2>11
<1>9. CASE ~Sent(log[i])
  <2>1. \/ \E saved \in BOOLEAN : Fault(~saved) /\ GivesUp(i, saved) /\ calls' = others + 1
        \/ \E saved \in BOOLEAN : Fault(TRUE) /\ GivesUp(i, saved) /\ calls' = others + 1
        \/ Post(i) /\ calls' = others /\ UNCHANGED bounds
    BY <1>9 DEF TakeHead
  <2> QED BY <1>7, <1>8, <2>1
<1> QED BY <1>6, <1>9 DEF TakeHead

LEMMA ProcessKeeps == ASSUME IInv, Process PROVE IInv'
<1> USE DEF IInv
<1> DEFINE others == IF phase = "up" THEN calls - 1 ELSE calls
<1>1. others \in Nat
  BY DEF Process, TypeOK
<1>2. phase' = "up" /\ UNCHANGED <<setup, editor, accepted, asked, imported>>
  BY DEF Process
<1>3. CASE /\ calls' = others
           /\ UNCHANGED <<log, queue, request, reply, stranded, wire, posts, bounds>>
  <2>1. TypeOK' /\ WaitsOnce'
    BY <1>1, <1>2, <1>3 DEF TypeOK, WaitsOnce
  <2>2. Authorised' /\ InFlight' /\ Starts' /\ CheckedWasInserted'
    BY <1>2, <1>3 DEF Authorised, InFlight, Starts, Busy, CheckedWasInserted, Sent
  <2> QED BY <2>1, <2>2
<1>4. CASE ~Busy /\ queue # <<>> /\ TakeHead(others)
  BY <1>1, <1>2, <1>4, TakeHeadKeeps
<1> QED BY <1>3, <1>4 DEF Process

(***************************************************************************)
(* The start of the application                                            *)
(***************************************************************************)
(* The records to queue again, in order, are a sequence without repetition.*)
LEMMA RisingOK ==
    ASSUME NEW S, IsFiniteSet(S), NEW s \in Rising(S), S \subseteq Nat
    PROVE  /\ s \in Seq(S)
           /\ \A j, k \in 1 .. Len(s) : s[j] = s[k] => j = k
<1>1. Cardinality(S) \in Nat
  BY FS_CardinalityType
<1>2. /\ s \in [1 .. Cardinality(S) -> S]
      /\ \A j, k \in 1 .. Cardinality(S) : j < k => s[j] < s[k]
  BY DEF Rising
<1>3. s \in Seq(S) /\ Len(s) = Cardinality(S)
  BY <1>1, <1>2, SeqDef
<1>4. ASSUME NEW j \in 1 .. Len(s), NEW k \in 1 .. Len(s), s[j] = s[k]
      PROVE  j = k
  <2>1. s[j] \in Nat /\ s[k] \in Nat
    BY <1>2, <1>3
  <2> QED BY <1>1, <1>2, <1>3, <1>4, <2>1
<1> QED BY <1>3, <1>4

LEMMA ResumeKeeps == ASSUME IInv, Resume PROVE IInv'
<1> USE DEF IInv
<1>1. /\ queue = <<>> /\ ~Busy
      /\ UNCHANGED <<setup, calls, request, reply, editor, qrz, history>>
  BY DEF Resume, Starts
<1>2. /\ Len(log) \in Nat /\ Len(log) <= MaxContacts
      /\ DOMAIN log = 1 .. Len(log)
      /\ DOMAIN log \subseteq Contacts
      /\ \A i \in DOMAIN log : log[i] \in Records
  BY LogIsASeq
<1>3. InFlight' /\ (phase' # "starting" => Starts')
  BY <1>1 DEF InFlight, Starts, Busy, qrz
<1>4. CASE /\ Fault(TRUE)
           /\ phase' = "up"
           /\ stranded' = InState("SENDING") \cup InState("QUEUED")
           /\ UNCHANGED <<log, queue>>
  <2>1. bounds' \in Bounds
    BY <1>4, FaultOK DEF TypeOK
  <2>2. stranded' \subseteq Contacts
    BY <1>2, <1>4 DEF InState
  <2>3. TypeOK' /\ WaitsOnce'
    BY <1>1, <1>4, <2>1, <2>2 DEF TypeOK, WaitsOnce, qrz, history
  <2>4. Authorised' /\ CheckedWasInserted'
    BY <1>1, <1>4 DEF Authorised, CheckedWasInserted, Sent, qrz, history
  <2> QED BY <1>3, <1>4, <2>3, <2>4
<1>5. ASSUME NEW failed \in SUBSET InState("SENDING"),
             Fault(failed # {}),
             stranded' = failed,
             log' = [i \in DOMAIN log |->
                       IF i \in InState("SENDING") \ failed
                       THEN [log[i] EXCEPT !.state = "ERROR"] ELSE log[i]],
             NEW s \in Rising(InState("QUEUED")),
             queue' = queue \o s,
             phase' = "resuming"
      PROVE  IInv'
  <2>1. \A i \in DOMAIN log :
           /\ log'[i] \in Records
           /\ log'[i].status = log[i].status
           /\ log'[i].content = log[i].content
           /\ log[i].state = "QUEUED" => log'[i].state = "QUEUED"
           /\ log'[i].state = "QUEUED" => log[i].state = "QUEUED"
    <3> SUFFICES ASSUME NEW i \in DOMAIN log
                 PROVE  /\ log'[i] \in Records
                        /\ log'[i].status = log[i].status
                        /\ log'[i].content = log[i].content
                        /\ log[i].state = "QUEUED" => log'[i].state = "QUEUED"
                        /\ log'[i].state = "QUEUED" => log[i].state = "QUEUED"
      OBVIOUS
    <3>1. CASE log'[i] = log[i]
      BY <1>2, <3>1
    <3>2. CASE log[i].state = "SENDING" /\ log'[i] = [log[i] EXCEPT !.state = "ERROR"]
      <4> DEFINE r == [log[i] EXCEPT !.state = "ERROR"]
      <4>1. /\ r \in Records /\ r.status = log[i].status
            /\ r.content = log[i].content /\ r.state = "ERROR"
        BY <1>2, PatchedOK DEF States
      <4> HIDE DEF r
      <4>2. log'[i] = r
        BY <3>2 DEF r
      <4> QED BY <3>2, <4>1, <4>2
    <3>3. log'[i] = IF i \in InState("SENDING") \ failed
                    THEN [log[i] EXCEPT !.state = "ERROR"] ELSE log[i]
      BY <1>5, Zenon
    <3>4. i \in InState("SENDING") => log[i].state = "SENDING"
      BY DEF InState
    <3> QED BY <3>1, <3>2, <3>3, <3>4
  <2>2. log' \in Seq(Records) /\ Len(log') = Len(log) /\ DOMAIN log' = DOMAIN log
    <3>1. log' \in [1 .. Len(log) -> Records]
      BY <1>2, <1>5, <2>1
    <3> QED BY <1>2, <3>1, SeqDef
  <2>3. /\ InState("QUEUED") \subseteq DOMAIN log
        /\ IsFiniteSet(InState("QUEUED"))
        /\ InState("QUEUED") \subseteq Nat
        /\ InState("QUEUED") \subseteq Contacts
    <3>1. InState("QUEUED") \subseteq DOMAIN log
      BY DEF InState
    <3>2. IsFiniteSet(1 .. Len(log))
      BY <1>2, FS_Interval
    <3> QED BY <1>2, <3>1, <3>2, FS_Subset
  <2>4. /\ s \in Seq(InState("QUEUED"))
        /\ \A j, k \in 1 .. Len(s) : s[j] = s[k] => j = k
    BY <1>5, <2>3, RisingOK
  <2>5. s \in Seq(Contacts) /\ \A j \in 1 .. Len(s) : s[j] \in InState("QUEUED")
    BY <2>3, <2>4, SeqMonotonic, ElementOfSeq
  <2>6. queue' = s
    BY <1>1, <1>5, <2>5, ConcatEmptySeq
  <2>7. bounds' \in Bounds /\ stranded' \subseteq Contacts
    BY <1>2, <1>5, FaultOK DEF TypeOK, InState
  <2>8. TypeOK'
    BY <1>1, <1>2, <1>5, <2>2, <2>5, <2>6, <2>7 DEF TypeOK, qrz, history
  <2>9. WaitsOnce'
    BY <2>1, <2>2, <2>4, <2>5, <2>6 DEF WaitsOnce, InState
  <2>10. Authorised'
    BY <1>1, <2>1, <2>2, StillAuthorised DEF history
  <2>11. CheckedWasInserted'
    BY <1>1, <2>1, <2>2 DEF CheckedWasInserted, Sent, qrz, history
  <2> QED BY <1>3, <1>5, <2>8, <2>9, <2>10, <2>11
<1> QED BY <1>4, <1>5 DEF Resume

LEMMA RestartKeeps == ASSUME IInv, Restart PROVE IInv'
<1> USE DEF IInv
<1>1. bounds' \in Bounds
  BY CountedOK DEF Restart, TypeOK
<1>2. <<>> \in Seq(Contacts) /\ Len(<<>>) = 0
  BY EmptySeq
<1>3. TypeOK'
  BY <1>1, <1>2 DEF Restart, TypeOK, qrz, history
<1>4. WaitsOnce'
  BY <1>2 DEF Restart, WaitsOnce
<1>5. Authorised' /\ InFlight' /\ Starts' /\ CheckedWasInserted'
  BY DEF Restart, Authorised, InFlight, Starts, Busy, CheckedWasInserted, Sent, qrz, history
<1> QED BY <1>3, <1>4, <1>5

(***************************************************************************)
(* The network and QRZ                                                     *)
(***************************************************************************)
LEMMA WireKeeps ==
    ASSUME IInv, wire' \subseteq wire, accepted' \subseteq Posts, accepted \subseteq accepted',
           \/ reply' \in {reply, "failed"}
           \/ reply' = "ok" /\ request \in accepted',
           reply' # "none" => reply # "none",
           UNCHANGED <<log, setup, phase, queue, calls, request, editor, stranded, history, bounds>>
    PROVE  IInv'
<1> USE DEF IInv
<1>1. TypeOK'
  BY DEF TypeOK, history
<1>2. WaitsOnce' /\ Authorised' /\ Starts'
  BY DEF WaitsOnce, Authorised, Starts, Busy, history
<1>3. InFlight'
  BY DEF InFlight, Busy
<1>4. CheckedWasInserted'
  BY DEF CheckedWasInserted, Sent, history
<1> QED BY <1>1, <1>2, <1>3, <1>4

LEMMA NetworkKeeps ==
    ASSUME IInv, (\E post \in wire : Insert(post) \/ Refuse(post)) \/ Deadline
    PROVE  IInv'
<1>1. ASSUME NEW post \in wire, Insert(post)
      PROVE  IInv'
  <2>1. accepted' = accepted \cup {post} /\ wire' \subseteq wire /\ post \in Posts
    BY <1>1 DEF Insert, IInv, TypeOK
  <2>2. reply' = reply \/ (request = post /\ reply = "waiting" /\ reply' \in {"ok", "failed"})
    BY <1>1 DEF Insert, Replied
  <2> QED BY <1>1, <2>1, <2>2, WireKeeps DEF Insert, IInv, TypeOK
<1>2. ASSUME NEW post \in wire, Refuse(post)
      PROVE  IInv'
  <2>1. wire' \subseteq wire /\ accepted' = accepted
    BY <1>2 DEF Refuse
  <2>2. reply' = reply \/ (reply = "waiting" /\ reply' = "failed")
    BY <1>2 DEF Refuse, Replied
  <2> QED BY <1>2, <2>1, <2>2, WireKeeps DEF Refuse, IInv, TypeOK
<1>3. CASE Deadline
  BY <1>3, WireKeeps DEF Deadline, IInv, TypeOK, qrz
<1> QED BY <1>1, <1>2, <1>3

(***************************************************************************)
(* What is checked stays checked                                           *)
(***************************************************************************)
(* Records only change by the operator's edits and by the service.         *)
LEMMA OperatorLocks ==
    ASSUME IInv, Operator, NEW i \in DOMAIN log, Sent(log[i])
    PROVE  Sent(log'[i]) /\ posts'[i] = posts[i]
<1> USE DEF IInv
<1>1. posts' = posts
  BY DEF Operator, OperatorSends, OpenEditor, AddContact, Import, SaveEdit,
         CancelEdit, Configure, history
<1>2. ASSUME NEW k \in DOMAIN log, OperatorSends(k)
      PROVE  log'[i] = log[i]
  <2>1. k # i /\ log' = [log EXCEPT ![k] = Queued(log[k])] /\ log \in Seq(Records)
    BY <1>2 DEF OperatorSends, Sendable, Send, TypeOK
  <2> QED BY <2>1, LogIsASeq
<1>3. ASSUME NEW station \in Stations, AddContact(station)
      PROVE  log'[i] = log[i]
  <2> DEFINE l == Append(log, NewContact(station))
  <2>1. /\ DOMAIN l = DOMAIN log \cup {Len(log) + 1}
        /\ Len(l) = Len(log) + 1
        /\ Len(log) + 1 \notin DOMAIN log
        /\ l[i] = log[i]
        /\ l \in Seq(Records)
    BY <1>3, AppendRecord, NewContactOK DEF AddContact
  <2>2. log' = l \/ log' = [l EXCEPT ![Len(l)] = Queued(l[Len(l)])]
    BY <1>3 DEF AddContact, Send, NotSent
  <2> HIDE DEF l
  <2> QED BY <2>1, <2>2
<1>4. ASSUME NEW station \in Stations, NEW status \in {"none", "Y"}, Import(station, status)
      PROVE  log'[i] = log[i]
  BY <1>4, AppendRecord, NewContactOK DEF Import
<1>5. ASSUME NEW changed \in BOOLEAN, NEW station \in Stations, SaveEdit(changed, station)
      PROVE  Sent(log'[i])
  <2> DEFINE k == editor.index
             source == editor.source
             content == IF changed THEN bounds.edits ELSE source.content
             r == Edited(log[k], source, content, station)
  <2>1. log' = [log EXCEPT ![k] = r] /\ k \in DOMAIN log /\ editor \in Edits
    BY <1>5 DEF SaveEdit, TypeOK
  <2>2. source \in Records /\ log[k] \in Records
    BY <2>1, LogIsASeq DEF Edits
  <2>3. content \in 0 .. MaxEdits /\ station \in Calls \cup {None}
    BY <2>2 DEF TypeOK, Bounds, Records, Stations
  <2>4. Sent(r) <=> Sent(log[k])
    BY <2>2, <2>3, EditedOK
  <2> HIDE DEF r, k
  <2> QED BY <2>1, <2>4, LogIsASeq
<1>6. ASSUME \/ CancelEdit
             \/ \E k \in DOMAIN log : OpenEditor(k)
             \/ \E call \in Stations, auto \in BOOLEAN : Configure(call, auto)
      PROVE  log' = log
  BY <1>6 DEF CancelEdit, OpenEditor, Configure
<1>7. Sent(log'[i])
  BY <1>2, <1>3, <1>4, <1>5, <1>6 DEF Operator
<1> QED BY <1>1, <1>7

LEMMA ServiceLocks ==
    ASSUME IInv, Process \/ Finished \/ Resume, NEW i \in DOMAIN log, Sent(log[i])
    PROVE  Sent(log'[i]) /\ posts'[i] = posts[i]
<1> USE DEF IInv
<1>1. ASSUME NEW k \in DOMAIN log, NEW success \in BOOLEAN, NEW saved \in BOOLEAN,
             Finish(k, success, saved)
      PROVE  Sent(log'[i])
  <2>1. log[k] \in Records /\ log' \in {log, [log EXCEPT ![k] = Uploaded(log[k], success)]}
    BY <1>1, LogIsASeq DEF Finish
  <2>2. Sent(log[k]) => Sent(Uploaded(log[k], success))
    BY <2>1 DEF Uploaded, Sent, Records
  <2> QED BY <2>1, <2>2, LogIsASeq
<1>2. CASE Finished
  <2>1. request.contact \in DOMAIN log
    BY <1>2 DEF Finished, InFlight
  <2> QED BY <1>1, <1>2, <2>1 DEF Finished, history
<1>3. CASE Process
  <2>1. CASE UNCHANGED <<log, posts>>
    BY <2>1
  <2>2. ASSUME NEW others \in Nat, queue # <<>>, TakeHead(others)
        PROVE  Sent(log'[i]) /\ posts'[i] = posts[i]
    <3>1. Head(queue) \in DOMAIN log
      BY <2>2, HeadOfQueue
    <3>2. CASE UNCHANGED <<log, posts>>
      BY <3>2
    <3>3. CASE \E saved \in BOOLEAN : GivesUp(Head(queue), saved)
      BY <1>1, <3>1, <3>3 DEF GivesUp
    <3>4. CASE ~Sent(log[Head(queue)]) /\ Post(Head(queue))
      <4>1. i # Head(queue) /\ i \in Contacts
        BY <3>4, LogIsASeq
      <4>2. log' = [log EXCEPT ![Head(queue)].state = "SENDING"]
            /\ posts' = [posts EXCEPT ![Head(queue)] = @ + 1]
        BY <3>4 DEF Post
      <4> QED BY <4>1, <4>2, LogIsASeq DEF TypeOK
    <3> QED BY <2>2, <3>2, <3>3, <3>4 DEF TakeHead
  <2>3. \/ UNCHANGED <<log, posts>>
        \/ \E others \in Nat : queue # <<>> /\ TakeHead(others)
    <3>1. (IF phase = "up" THEN calls - 1 ELSE calls) \in Nat
      BY <1>3 DEF Process, TypeOK
    <3> QED BY <1>3, <3>1 DEF Process
  <2> QED BY <2>1, <2>2, <2>3
<1>4. CASE Resume
  <2>1. posts' = posts
    BY <1>4 DEF Resume, history
  <2>2. log'[i] = log[i]
    BY <1>4 DEF Resume, InState
  <2> QED BY <2>1, <2>2
<1> QED BY <1>2, <1>3, <1>4

LEMMA StepLocks == IInv /\ [Next]_vars =>
    [\A i \in DOMAIN log : Sent(log[i]) => Sent(log'[i]) /\ posts'[i] = posts[i]]_vars
<1> SUFFICES ASSUME IInv, Next, NEW i \in DOMAIN log, Sent(log[i])
             PROVE  Sent(log'[i]) /\ posts'[i] = posts[i]
  OBVIOUS
<1>1. CASE Operator
  BY <1>1, OperatorLocks
<1>2. CASE Process \/ Finished \/ Resume
  BY <1>2, ServiceLocks
<1>3. CASE Restart \/ (\E post \in wire : Insert(post) \/ Refuse(post)) \/ Deadline
  BY <1>3 DEF Restart, Insert, Refuse, Deadline, history
<1> QED BY <1>1, <1>2, <1>3 DEF Next

(***************************************************************************)
(* The theorems                                                            *)
(***************************************************************************)
LEMMA NextIInv == IInv /\ [Next]_vars => IInv'
<1> SUFFICES ASSUME IInv, [Next]_vars PROVE IInv'
  OBVIOUS
<1>1. CASE UNCHANGED vars
  BY <1>1, QuietKeeps DEF IInv, TypeOK, vars, memory, qrz, history
<1>2. CASE Operator
  BY <1>2, OperatorSendsKeeps, OpenEditorKeeps, AddContactKeeps, ImportKeeps,
     SaveEditKeeps, CancelEditKeeps, ConfigureKeeps DEF Operator
<1>3. CASE Process \/ Finished \/ Resume \/ Restart
  BY <1>3, ProcessKeeps, FinishedKeeps, ResumeKeeps, RestartKeeps
<1>4. CASE (\E post \in wire : Insert(post) \/ Refuse(post)) \/ Deadline
  BY <1>4, NetworkKeeps
<1> QED BY <1>1, <1>2, <1>3, <1>4 DEF Next

LEMMA SpecIInv == Spec => []IInv
BY InitIInv, NextIInv, PTL DEF Spec

\* Every variable stays within its type.
THEOREM TypeCorrect == Spec => []TypeOK
<1>1. IInv => TypeOK
  BY DEF IInv
<1> QED BY <1>1, SpecIInv, PTL

\* Over any number of faults and restarts no contact is posted to QRZ more
\* often than its sending was asked for.
THEOREM NeverResent == Spec => []PostedWhenAsked
<1>1. IInv => PostedWhenAsked
  BY DEF IInv, Authorised, PostedWhenAsked
<1> QED BY <1>1, SpecIInv, PTL

\* What the log shows as sent was inserted by QRZ, as it is or as it was
\* before it was edited.
THEOREM SentWasInserted == Spec => []CheckedWasInserted
<1>1. IInv => CheckedWasInserted
  BY DEF IInv
<1> QED BY <1>1, SpecIInv, PTL

\* A contact that is checked as sent stays so and is never posted again.
THEOREM SentIsLocked == Spec => CheckedIsLocked
BY SpecIInv, StepLocks, PTL DEF Spec, CheckedIsLocked

===============================================================================

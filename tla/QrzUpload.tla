------------------------------- MODULE QrzUpload -------------------------------
(***************************************************************************)
(* The shared logbook and its uploads to QRZ: QrzLogbook, the records of   *)
(* Ft8Logbook on disk, the editor, and the application being killed and    *)
(* started again while a request may be on its way.                        *)
(*                                                                         *)
(* A contact is its index in the log: records are appended and edited, and *)
(* never removed.  Each event handler is one step; what it wrote to disk   *)
(* survives a restart and what it holds in memory does not.  Every load,   *)
(* save and read of the API key may fail.  QRZ is the environment.         *)
(***************************************************************************)
EXTENDS Naturals, Sequences, FiniteSets

CONSTANTS
    Calls,          \* station callsigns, each with its QRZ logbook
    None,
    MaxContacts,    \* bound: records in the log
    MaxSends,       \* bound: times that sending is asked for
    MaxEdits,       \* bound: edits of records
    MaxSetups,      \* bound: changes of Setup
    MaxFaults,      \* bound: failures of the disk and of the key store
    MaxRestarts     \* bound: restarts of the application
ASSUME QrzAssumption ==
    /\ None \notin Calls
    /\ {MaxContacts, MaxSends, MaxEdits, MaxSetups, MaxFaults, MaxRestarts} \subseteq Nat

VARIABLES
    log,        \* on disk: the records
    setup,      \* on disk: m_call, m_auto, m_hasKey
    phase,      \* "starting" until resume, "resuming" until its process, "up"
    queue,      \* m_queue
    calls,      \* calls of process on their way
    request,    \* the POST whose reply is awaited: m_busy
    reply,      \* of that request
    editor,     \* the record in the editor, as it was when opened
    wire,       \* POSTs that QRZ has not taken
    accepted,   \* history: what QRZ inserted
    asked,      \* history: how often the sending of each was asked for
    posts,      \* history: how often each was posted
    imported,   \* history: records that came from an ADIF file
    stranded,   \* history: records whose upload a fault made this run lose
    bounds      \* bound: sends, edits, setups, faults, restarts

memory == <<queue, calls, request, reply, editor, stranded>>
qrz == <<wire, accepted>>
history == <<asked, posts, imported>>
vars == <<log, setup, phase, memory, qrz, history, bounds>>

Contacts == 1 .. MaxContacts
States == {"none", "QUEUED", "SENDING", "SENT", "ERROR"}

\* state is _QK4_QRZ_STATE, status is QRZCOM_QSO_UPLOAD_STATUS; content is
\* what the operator edits, but for the station callsign.
Records ==
    [state : States, status : {"none", "Y", "M"},
     station : Calls \cup {None}, content : 0 .. MaxEdits]

Posts == [contact : Contacts, content : 0 .. MaxEdits, try : Nat]
NoPost == [contact |-> 0, content |-> 0, try |-> 0]
NoEdit == [index |-> 0]
Edits == [index : Contacts, source : Records]
Bounds == [sends : 0 .. MaxSends, edits : 0 .. MaxEdits, setups : 0 .. MaxSetups,
           faults : 0 .. MaxFaults, restarts : 0 .. MaxRestarts]

\* The log, the memory of the service, the network and the histories stay
\* within their types.  QrzLogbook and Ft8Logbook.
TypeOK ==
    /\ log \in Seq(Records) /\ Len(log) <= MaxContacts
    /\ setup \in [call : Calls \cup {None}, auto : BOOLEAN]
    /\ phase \in {"starting", "resuming", "up"}
    /\ queue \in Seq(Contacts)
    /\ calls \in Nat
    /\ request \in Posts \cup {NoPost}
    /\ reply \in {"none", "waiting", "ok", "failed"}
    /\ editor \in Edits \cup {NoEdit}
    /\ wire \subseteq Posts
    /\ accepted \subseteq Posts
    /\ asked \in [Contacts -> Nat]
    /\ posts \in [Contacts -> Nat]
    /\ imported \subseteq Contacts
    /\ stranded \subseteq Contacts
    /\ bounds \in Bounds

Init ==
    /\ log = <<>>
    /\ setup = [call |-> None, auto |-> FALSE]
    /\ phase = "starting"
    /\ queue = <<>> /\ calls = 0
    /\ request = NoPost /\ reply = "none"
    /\ editor = NoEdit
    /\ wire = {} /\ accepted = {}
    /\ asked = [i \in Contacts |-> 0] /\ posts = [i \in Contacts |-> 0]
    /\ imported = {} /\ stranded = {}
    /\ bounds = [sends |-> 0, edits |-> 0, setups |-> 0, faults |-> 0, restarts |-> 0]

Sent(r) == r.status \in {"Y", "M"}
Busy == request # NoPost
Configured == setup.call # None


\* One more of a bounded kind, if it happened.
Limits == [sends |-> MaxSends, edits |-> MaxEdits, setups |-> MaxSetups,
           faults |-> MaxFaults, restarts |-> MaxRestarts]
Counted(kind) ==
    /\ bounds[kind] < Limits[kind]
    /\ bounds' = [bounds EXCEPT ![kind] = @ + 1]
Fault(happened) == IF happened THEN Counted("faults") ELSE UNCHANGED bounds

(***************************************************************************)
(* The operator: the log, the editor, and Setup                            *)
(***************************************************************************)
Sendable(r) ==
    /\ Configured
    /\ ~Sent(r)
    /\ r.station \in {None, setup.call}
    /\ r.state \notin {"QUEUED", "SENDING"}

Queued(r) == [r EXCEPT !.state = "QUEUED", !.station = setup.call]

\* send, of record i of l, which is to be the log.
Send(l, i) ==
    /\ Counted("sends")
    /\ log' = [l EXCEPT ![i] = Queued(l[i])]
    /\ queue' = Append(queue, i)
    /\ calls' = calls + 1
    /\ asked' = [asked EXCEPT ![i] = @ + 1]

NotSent(l) == log' = l /\ UNCHANGED <<queue, calls, asked>>

\* Send to QRZ, of what is not refused, and could be saved.  The editor is
\* modal over the button.
OperatorSends(i) ==
    /\ phase = "up"
    /\ editor = NoEdit
    /\ Sendable(log[i])
    /\ Send(log, i)
    /\ UNCHANGED <<setup, phase, request, reply, editor, stranded, qrz, posts, imported>>

NewContact(station) == [state |-> "none", status |-> "none", station |-> station, content |-> 0]

\* A contact is logged, by FT8, by SSTV or with Add, and contactAdded sends
\* it if that is automatic and its record can be saved.
AddContact(station) ==
    /\ phase = "up"
    /\ Len(log) < MaxContacts
    /\ LET l == Append(log, NewContact(station))
       IN  IF setup.auto /\ Sendable(NewContact(station))
           THEN \/ Send(l, Len(l))
                \/ Fault(TRUE) /\ NotSent(l)
           ELSE Fault(FALSE) /\ NotSent(l)
    /\ UNCHANGED <<setup, phase, request, reply, editor, stranded, qrz, posts, imported>>

\* importRecords: the upload status is one of the fields of ADIF.
Import(station, status) ==
    /\ phase = "up"
    /\ editor = NoEdit
    /\ Len(log) < MaxContacts
    /\ log' = Append(log, [NewContact(station) EXCEPT !.status = status])
    /\ imported' = imported \cup {Len(log) + 1}
    /\ UNCHANGED <<setup, phase, memory, qrz, asked, posts, bounds>>

OpenEditor(i) ==
    /\ phase = "up"
    /\ editor = NoEdit
    /\ Counted("edits")
    /\ editor' = [index |-> i, source |-> log[i]]
    /\ UNCHANGED <<log, setup, phase, queue, calls, request, reply, stranded, qrz, history>>

\* Mutants: the mark is forgotten; the editor's copy is what is saved.
EditedUnmarked(old, source, content, station) ==
    [old EXCEPT !.content = content, !.station = station]
EditedCopy(old, source, content, station) ==
    [source EXCEPT !.content = content, !.station = station]

\* What replace makes of the record old and of an edit of what the editor
\* was opened on.
Edited(old, source, content, station) ==
    LET kept == [old EXCEPT !.content = content, !.station = station]
    IN  IF Sent(old) /\ kept # old THEN [kept EXCEPT !.status = "M"] ELSE kept

\* Save: the content is new, or as it was; so is My callsign.  It is refused
\* while the contact is being sent.
SaveEdit(changed, station) ==
    /\ editor # NoEdit
    /\ LET i == editor.index
           source == editor.source
       IN  /\ station \in {source.station, None, setup.call}
           /\ i \in DOMAIN log
           /\ log[i].state # "SENDING"
           /\ log' = [log EXCEPT ![i] =
                 Edited(@, source, IF changed THEN bounds.edits ELSE source.content, station)]
    /\ editor' = NoEdit
    /\ UNCHANGED <<setup, phase, queue, calls, request, reply, stranded, qrz, history, bounds>>

CancelEdit ==
    /\ editor # NoEdit
    /\ editor' = NoEdit
    /\ UNCHANGED <<log, setup, phase, queue, calls, request, reply, stranded, qrz, history, bounds>>

\* configure, and with None and FALSE forget.
Configure(call, auto) ==
    /\ phase = "up"
    /\ editor = NoEdit
    /\ ~Busy /\ queue = <<>>
    /\ call = None => ~auto
    /\ Counted("setups")
    /\ setup' = [call |-> call, auto |-> auto]
    /\ UNCHANGED <<log, phase, memory, qrz, history>>

(***************************************************************************)
(* The service                                                             *)
(***************************************************************************)
Uploaded(r, success) ==
    IF success THEN [r EXCEPT !.state = "SENT", !.status = "Y"]
    ELSE [r EXCEPT !.state = "ERROR"]

\* finish: the outcome is recorded, if the log can be read and written.
Finish(i, success, saved) ==
    /\ log' = IF saved THEN [log EXCEPT ![i] = Uploaded(@, success)] ELSE log
    /\ stranded' = IF saved THEN stranded ELSE stranded \cup {i}

\* The contact at the head of the queue cannot be sent.
GivesUp(i, saved) ==
    /\ Finish(i, FALSE, saved)
    /\ UNCHANGED <<request, reply, wire, posts>>

\* Mutant: the state is saved with the answer only.
PostUnsaved(i) ==
    LET post == [contact |-> i, content |-> log[i].content, try |-> posts[i] + 1]
    IN  /\ request' = post
        /\ reply' = "waiting"
        /\ wire' = wire \cup {post}
        /\ posts' = [posts EXCEPT ![i] = @ + 1]
        /\ UNCHANGED <<log, stranded>>

Post(i) ==
    LET post == [contact |-> i, content |-> log[i].content, try |-> posts[i] + 1]
    IN  /\ log' = [log EXCEPT ![i].state = "SENDING"]
        /\ request' = post
        /\ reply' = "waiting"
        /\ wire' = wire \cup {post}
        /\ posts' = [posts EXCEPT ![i] = @ + 1]
        /\ UNCHANGED stranded

\* process on the head of the queue; others is the number of its other calls
\* on their way.  After a POST it is called by finish, and otherwise again
\* at once.
TakeHead(others) ==
    LET i == Head(queue)
    IN  /\ queue' = Tail(queue)
        /\ IF Sent(log[i])
           THEN /\ UNCHANGED <<log, stranded, request, reply, wire, posts, bounds>>
                /\ calls' = others + 1
           ELSE \/ /\ log[i].station # setup.call
                   /\ \E saved \in BOOLEAN : Fault(~saved) /\ GivesUp(i, saved)
                   /\ calls' = others + 1
                \/ /\ Fault(TRUE)       \* of the disk or of the key store
                   /\ \E saved \in BOOLEAN : GivesUp(i, saved)
                   /\ calls' = others + 1
                \/ /\ log[i].station = setup.call
                   /\ Post(i)
                   /\ calls' = others
                   /\ UNCHANGED bounds

Process ==
    /\ \/ phase = "up" /\ calls > 0
       \/ phase = "resuming"
    /\ phase' = "up"
    /\ LET others == IF phase = "up" THEN calls - 1 ELSE calls
       IN  IF Busy \/ queue = <<>>
           THEN calls' = others /\ UNCHANGED <<log, queue, request, reply, stranded, wire, posts, bounds>>
           ELSE TakeHead(others)
    /\ UNCHANGED <<setup, editor, accepted, asked, imported>>

\* Mutant: process is not called after an answer.
FinishedQuietly ==
    /\ reply \in {"ok", "failed"}
    /\ \E saved \in BOOLEAN :
          Fault(~saved) /\ Finish(request.contact, reply = "ok", saved)
    /\ request' = NoPost
    /\ reply' = "none"
    /\ UNCHANGED <<setup, phase, queue, calls, editor, qrz, history>>

\* The reply has come, or has been given up.
Finished ==
    /\ reply \in {"ok", "failed"}
    /\ \E saved \in BOOLEAN :
          Fault(~saved) /\ Finish(request.contact, reply = "ok", saved)
    /\ request' = NoPost
    /\ reply' = "none"
    /\ calls' = calls + 1
    /\ UNCHANGED <<setup, phase, queue, editor, qrz, history>>

\* resume, up to its own call of process.  The records that are queued join
\* the queue in their order in the log.
InState(state) == {i \in DOMAIN log : ~Sent(log[i]) /\ log[i].state = state}

Rising(S) ==
    {f \in [1 .. Cardinality(S) -> S] :
        \A j, k \in 1 .. Cardinality(S) : j < k => f[j] < f[k]}

Resume ==
    /\ phase = "starting"
    /\ \/ /\ \E failed \in SUBSET InState("SENDING") :
               /\ Fault(failed # {})
               /\ stranded' = failed
               /\ log' = [i \in DOMAIN log |->
                            IF i \in InState("SENDING") \ failed
                            THEN [log[i] EXCEPT !.state = "ERROR"] ELSE log[i]]
          /\ \E s \in Rising(InState("QUEUED")) : queue' = queue \o s
          /\ phase' = "resuming"
       \/ /\ Fault(TRUE)        \* the log could not be read
          /\ phase' = "up"
          /\ stranded' = InState("SENDING") \cup InState("QUEUED")
          /\ UNCHANGED <<log, queue>>
    /\ UNCHANGED <<setup, calls, request, reply, editor, qrz, history>>

\* The application is killed and started again.
Restart ==
    /\ Counted("restarts")
    /\ phase' = "starting"
    /\ queue' = <<>> /\ calls' = 0
    /\ request' = NoPost /\ reply' = "none"
    /\ editor' = NoEdit
    /\ stranded' = {}
    /\ UNCHANGED <<log, setup, qrz, history>>

(***************************************************************************)
(* The network and QRZ                                                     *)
(***************************************************************************)
Replied(post, answer) ==
    reply' = IF request = post /\ reply = "waiting" THEN answer ELSE reply

\* Whatever QRZ says to it, a POST that it takes may have been inserted; an
\* answer that confirms one may be lost.
Insert(post) ==
    /\ post \in wire
    /\ wire' = wire \ {post}
    /\ accepted' = accepted \cup {post}
    /\ \E answer \in {"ok", "failed"} : Replied(post, answer)
    /\ UNCHANGED <<log, setup, phase, queue, calls, request, editor, stranded, history, bounds>>

\* It is refused, or lost.
Refuse(post) ==
    /\ post \in wire
    /\ wire' = wire \ {post}
    /\ Replied(post, "failed")
    /\ UNCHANGED <<log, setup, phase, queue, calls, request, editor, stranded, accepted, history, bounds>>

\* The request is aborted; it may have left.
Deadline ==
    /\ reply = "waiting"
    /\ reply' = "failed"
    /\ UNCHANGED <<log, setup, phase, queue, calls, request, editor, stranded, qrz, history, bounds>>

Stations == Calls \cup {None}
Operator ==
    \/ \E i \in DOMAIN log : OperatorSends(i) \/ OpenEditor(i)
    \/ \E station \in Stations : AddContact(station)
    \/ \E station \in Stations, status \in {"none", "Y"} : Import(station, status)
    \/ \E changed \in BOOLEAN, station \in Stations : SaveEdit(changed, station)
    \/ CancelEdit
    \/ \E call \in Stations, auto \in BOOLEAN : Configure(call, auto)

Next ==
    \/ Operator
    \/ Process \/ Finished \/ Resume \/ Restart
    \/ \E post \in wire : Insert(post) \/ Refuse(post)
    \/ Deadline

Spec == Init /\ [][Next]_vars

\* The event loop runs what has been posted to it, and the deadline of a
\* request elapses.  Nothing is assumed of QRZ or of the operator.
FairSpec ==
    /\ Spec
    /\ WF_vars(Process) /\ WF_vars(Finished) /\ WF_vars(Resume) /\ WF_vars(Deadline)

(***************************************************************************)
(* Properties                                                              *)
(***************************************************************************)
\* No contact is posted more often than its sending was asked for, whatever
\* is lost, fails or is killed: an answer that is missing is not a reason to
\* send again.  QrzLogbook::process and resume; QRZ_LOGBOOK.md:28.
PostedWhenAsked == \A i \in Contacts : posts[i] <= asked[i]

\* What is checked as sent was inserted by QRZ, with the content that the
\* log has; or the record says that it was edited since.
\* QrzLogbook::finish, Ft8Logbook::replace; QRZ_LOGBOOK.md:22.
CheckedWasInserted ==
    \A i \in DOMAIN log \ imported :
        Sent(log[i]) =>
            \E post \in accepted :
               /\ post.contact = i
               /\ log[i].status = "Y" => post.content = log[i].content

\* A contact that is checked stays so, and is not posted again.
\* QRZ_LOGBOOK.md:24; Ft8Logbook::replace, QrzLogbook::send.
CheckedIsLocked ==
    [][\A i \in DOMAIN log :
         Sent(log[i]) => Sent(log'[i]) /\ posts'[i] = posts[i]]_vars

\* An upload that is queued or being sent ends, over restarts too, unless
\* its outcome could not be saved, or the log not be read at the start.
InProgress(i) == i \in DOMAIN log /\ log[i].state \in {"QUEUED", "SENDING"}

UploadsEnd == \A i \in Contacts : InProgress(i) ~> ~InProgress(i) \/ i \in stranded

===============================================================================

------------------------ MODULE TcpConnectionProofs ------------------------
(***************************************************************************)
(* What holds of TcpConnection for every set of radios, whichever of them  *)
(* are local or encrypted, and every number of taps.                       *)
(***************************************************************************)
EXTENDS TcpConnection, SequenceTheorems, TLAPS

(***************************************************************************)
(* The socket stays a socket: of a radio, or of none when unconnected.     *)
(***************************************************************************)
SocketOK(s) ==
    s \in Sockets /\ (s.phase = "unconnected" <=> s.peer = NoRadio)

(* The socket the program starts with.                                     *)
LEMMA UnconnectedOK == SocketOK(Unconnected)
BY DEF SocketOK, Sockets, Unconnected, Phases, RadioOrNone

(* The socket an attempt begins with.                                      *)
LEMMA ConnectingToOK ==
    ASSUME NEW r \in Radios, NEW tls \in BOOLEAN
    PROVE  SocketOK(ConnectingTo(r, tls))
BY ConnectionAssumption
   DEF SocketOK, Sockets, ConnectingTo, Phases, RadioOrNone

(* A socket in use may move to any other phase in use.                     *)
LEMMA PhaseOK ==
    ASSUME NEW s, SocketOK(s), s.phase # "unconnected",
           NEW p \in Phases \ {"unconnected"}
    PROVE  SocketOK([s EXCEPT !.phase = p])
BY DEF SocketOK, Sockets

(* Whether a close is pending is no matter of phase or peer.               *)
LEMMA PendingOK ==
    ASSUME NEW s, SocketOK(s), NEW b \in BOOLEAN
    PROVE  /\ SocketOK([s EXCEPT !.pendingClose = b])
           /\ [s EXCEPT !.pendingClose = b].phase = s.phase
BY DEF SocketOK, Sockets

(* Closing a socket leaves a socket that nothing answers on.               *)
LEMMA AfterCloseOK ==
    ASSUME NEW s, SocketOK(s), NEW t \in AfterClose(s)
    PROVE  /\ SocketOK(t)
           /\ t.phase \in {"unconnected", "connecting", "closing"}
           /\ t.phase = "connecting" => s.phase = "connecting"
<1>1. CASE s.phase = "unconnected"
  BY <1>1 DEF AfterClose
<1>2. CASE s.phase = "connecting"
  BY <1>2, PendingOK DEF AfterClose
<1>3. CASE s.phase \notin {"unconnected", "connecting"}
  <2>1. t = Unconnected \/ t = [s EXCEPT !.phase = "closing"]
    BY <1>3 DEF AfterClose
  <2>2. SocketOK([s EXCEPT !.phase = "closing"])
    BY <1>3, PhaseOK DEF Phases
  <2>3. [s EXCEPT !.phase = "closing"].phase = "closing"
    BY DEF SocketOK, Sockets
  <2>4. CASE t = Unconnected
    <3>1. SocketOK(t)
      BY <2>4, UnconnectedOK
    <3>2. t.phase = "unconnected"
      BY <2>4 DEF Unconnected
    <3>3. QED
      BY <3>1, <3>2
  <2>5. CASE t = [s EXCEPT !.phase = "closing"]
    BY <2>5, <2>2, <2>3
  <2>6. QED
    BY <2>1, <2>4, <2>5
<1>4. QED
  BY <1>1, <1>2, <1>3

(* The same for a socket whose close may have been waiting.                *)
LEMMA ClosedIfPendingOK ==
    ASSUME NEW s, SocketOK(s), s.phase \in {"handshake", "ready"},
           NEW t \in ClosedIfPending(s)
    PROVE  /\ SocketOK(t)
           /\ t.phase \in {"unconnected", "closing", s.phase}
<1>1. CASE ~s.pendingClose
  BY <1>1 DEF ClosedIfPending
<1>2. CASE s.pendingClose
  <2> DEFINE u == [s EXCEPT !.pendingClose = FALSE]
  <2>1. SocketOK(u) /\ u.phase = s.phase
    BY PendingOK
  <2>2. t \in AfterClose(u)
    BY <1>2 DEF ClosedIfPending
  <2>3. QED
    BY <2>1, <2>2, AfterCloseOK
<1>3. QED
  BY <1>1, <1>2

(***************************************************************************)
(* The operators the handlers are made of.                                 *)
(***************************************************************************)
LEMMA GoesOK ==
    ASSUME toUi \in Seq(States), NEW a \in States, NEW b \in States,
           NEW c \in States, Goes(a, b, c)
    PROVE  toUi' \in Seq(States) /\ state' = c
<1>1. \A x, y \in States : Change(x, y) \in Seq(States)
  BY DEF Change
<1>2. Change(state, a) \in Seq(States)
  BY DEF Change
<1>3. toUi' = toUi \o Change(state, a) \o Change(a, b) \o Change(b, c)
  BY DEF Goes
<1>4. Change(a, b) \in Seq(States) /\ Change(b, c) \in Seq(States)
  BY <1>1
<1>5. toUi \o Change(state, a) \in Seq(States)
  BY <1>2, ConcatProperties
<1>6. toUi \o Change(state, a) \o Change(a, b) \in Seq(States)
  BY <1>4, <1>5, ConcatProperties
<1>7. toUi \o Change(state, a) \o Change(a, b) \o Change(b, c) \in Seq(States)
  BY <1>4, <1>6, ConcatProperties
<1>8. QED
  BY <1>3, <1>7 DEF Goes

(* What the I/O thread can be relied on, in the terms the properties use.  *)
Shape(st, ts, answered, so) ==
    /\ st \in States
    /\ ts \subseteq Timers
    /\ SocketOK(so)
    /\ st = "Connecting" => "connect" \in ts
    /\ st = "Authenticating" => "auth" \in ts /\ ~answered
    /\ st = "Connected" <=> "ping" \in ts
    /\ st = "Connected" => so.phase = "ready" /\ answered
    /\ answered => /\ st \in {"Connected", "Disconnected"}
                   /\ so.phase \notin {"connecting", "handshake"}
IoShape == Shape(state, timers, authAnswered, socket)

(* attemptConnection leads to Connecting with its timer, or Disconnected.  *)
LEMMA AttemptShape ==
    ASSUME toUi \in Seq(States), NEW s, SocketOK(s), NEW peer \in Radios,
           NEW tls \in BOOLEAN, NEW before \in States,
           NEW running \in SUBSET Timers, "connect" \in running,
           "ping" \notin running, Attempt(s, peer, tls, before, running)
    PROVE  toUi' \in Seq(States) /\ Shape(state', timers', FALSE, socket')
<1> "Connecting" \in States /\ "Disconnected" \in States
  BY DEF States
<1>1. CASE /\ socket' = ConnectingTo(peer, tls)
           /\ timers' = running
           /\ Goes(before, "Connecting", "Connecting")
  BY <1>1, GoesOK, ConnectingToOK DEF Shape
<1>2. CASE /\ socket' = s
           /\ timers' \in {{}, running \ {"connect"}}
           /\ Goes(before, "Connecting", "Disconnected")
  BY <1>2, GoesOK DEF Shape
<1>3. CASE /\ socket' = s
           /\ timers' = running
           /\ Goes(before, "Connecting", "Connecting")
  BY <1>3, GoesOK DEF Shape
<1>4. QED
  BY <1>1, <1>2, <1>3 DEF Attempt

(* Every way of ending a connection.                                       *)
LEMMA EndShape ==
    ASSUME toUi \in Seq(States), IoShape, timers' = {},
           Goes("Disconnected", "Disconnected", "Disconnected"),
           SocketOK(socket'), UNCHANGED authAnswered,
           socket'.phase \in {"connecting", "handshake"}
               => socket.phase \in {"connecting", "handshake"}
    PROVE  toUi' \in Seq(States) /\ IoShape'
<1> "Disconnected" \in States
  BY DEF States
<1>1. toUi' \in Seq(States) /\ state' = "Disconnected"
  BY GoesOK
<1>2. QED
  BY <1>1 DEF IoShape, Shape

(* disconnectFromHost leaves no timer and waits for nothing.               *)
LEMMA CloseShape ==
    ASSUME toUi \in Seq(States), IoShape, CloseConnection, UNCHANGED authAnswered
    PROVE  toUi' \in Seq(States) /\ IoShape'
<1>1. SocketOK(socket)
  BY DEF IoShape, Shape
<1>2. SocketOK(socket') /\ (socket'.phase \in {"connecting", "handshake"}
                                => socket.phase = "connecting")
  BY <1>1, AfterCloseOK DEF CloseConnection
<1>3. QED
  BY <1>2, EndShape DEF CloseConnection

(* A signal of the socket that may begin the authentication.               *)
LEMMA ReachedShape ==
    ASSUME toUi \in Seq(States), IoShape,
           socket.phase \in {"connecting", "handshake"},
           NEW b \in BOOLEAN, NEW s, SocketOK(s), Reached(b, s)
    PROVE  toUi' \in Seq(States) /\ IoShape'
<1> "Disconnected" \in States /\ "Authenticating" \in States /\ state \in States
  BY DEF States, IoShape, Shape
<1>1. ~authAnswered /\ ~authAnswered' /\ socket' = s /\ state # "Connected"
  BY DEF IoShape, Shape, Reached, io
<1>2. CASE s = Unconnected
  <2>1. timers' = {}
    BY <1>2 DEF Reached
  <2>2. \E now \in States : Goes(now, "Disconnected", "Disconnected")
    BY <1>2 DEF Reached
  <2>3. toUi' \in Seq(States) /\ state' = "Disconnected"
    BY <2>2, GoesOK
  <2>4. QED
    BY <1>1, <2>1, <2>3 DEF IoShape, Shape
<1>3. CASE s # Unconnected /\ b
  <2>1. timers' = Awaiting
    BY <1>3 DEF Reached
  <2>2. Goes("Authenticating", "Authenticating", "Authenticating")
    BY <1>3 DEF Reached
  <2>3. toUi' \in Seq(States) /\ state' = "Authenticating"
    BY <2>2, GoesOK
  <2>4. timers' \subseteq Timers /\ "auth" \in timers' /\ "ping" \notin timers'
    BY <1>1, <2>1 DEF Awaiting, IoShape, Shape, Timers
  <2>5. QED
    BY <1>1, <2>3, <2>4 DEF IoShape, Shape
<1>4. CASE s # Unconnected /\ ~b
  <2>1. timers' = timers
    BY <1>4 DEF Reached
  <2>2. Goes(state, state, state)
    BY <1>4 DEF Reached
  <2>3. toUi' \in Seq(States) /\ state' = state
    BY <2>2, GoesOK
  <2>4. QED
    BY <1>1, <2>1, <2>3 DEF IoShape, Shape
<1>5. QED
  BY <1>2, <1>3, <1>4

(***************************************************************************)
(* The invariant: the types of what the threads exchange, and the shape    *)
(* of the I/O thread.  The properties alone are not inductive: that no     *)
(* answer of an earlier attempt counts needs that an answered attempt has  *)
(* no socket left that could still connect.                                *)
(***************************************************************************)
UiTypes ==
    /\ uiState \in States
    /\ asked \in RadioOrNone /\ managed \in RadioOrNone /\ radio \in RadioOrNone
    /\ shown \in BOOLEAN /\ taps \in 0..MaxTaps /\ byName \in BOOLEAN
    /\ toIo \in Seq(Requests)
    /\ toUi \in Seq(States)
    /\ authAnswered \in BOOLEAN
    /\ lookups \subseteq ConnectRequests
IInv == UiTypes /\ IoShape

(* Taking a request leaves a queue of requests; it had the name taken.     *)
LEMMA TakesType ==
    ASSUME UiTypes, NEW name, Takes(name)
    PROVE  /\ toIo' \in Seq(Requests)
           /\ Head(toIo) \in Requests
           /\ Head(toIo).name = name
BY HeadTailProperties DEF Takes, UiTypes

(* What the UI thread queues are requests.                                 *)
LEMMA RequestType ==
    ASSUME UiTypes, taps < MaxTaps
    PROVE  /\ taps + 1 \in 0..MaxTaps
           /\ Request("disconnect", NoRadio) \in Requests
           /\ \A r \in Radios : Request("connect", r) \in Requests
BY ConnectionAssumption
   DEF UiTypes, Request, Requests, ConnectRequests, DisconnectRequests

(* The UI thread touches nothing of the I/O thread but its queue.          *)
LEMMA UiStep ==
    ASSUME IInv, UiThread
    PROVE  IInv'
<1> USE DEF IInv
<1>1. CASE ShowManager
  BY <1>1 DEF ShowManager, UiTypes, IoShape, Shape, io, RadioOrNone
<1>2. CASE Disconnect
  <2>1. toIo' \in Seq(Requests)
    BY <1>2, RequestType, AppendProperties DEF Disconnect, UiTypes
  <2>2. QED
    BY <1>2, <2>1, RequestType DEF Disconnect, UiTypes, IoShape, Shape, io
<1>3. ASSUME NEW r \in Radios, Connect(r)
      PROVE  IInv'
  <2> DEFINE first == IF state = "Connected"
                      THEN <<Request("disconnect", NoRadio)>> ELSE <<>>
             second == <<Request("connect", r)>>
  <2>1. first \in Seq(Requests) /\ second \in Seq(Requests)
    BY <1>3, RequestType DEF Connect
  <2>2. toIo' = toIo \o first \o second
    BY <1>3 DEF Connect
  <2>3. toIo \o first \in Seq(Requests)
    BY <2>1, ConcatProperties DEF UiTypes
  <2>4. toIo' \in Seq(Requests)
    BY <2>1, <2>2, <2>3, ConcatProperties
  <2>5. QED
    BY <1>3, <2>4, RequestType
       DEF Connect, UiTypes, IoShape, Shape, io, RadioOrNone, States
<1>4. CASE OnStateChanged
  <2>1. toUi' \in Seq(States) /\ uiState' \in States
    BY <1>4, HeadTailProperties DEF OnStateChanged, UiTypes
  <2>2. QED
    BY <1>4, <2>1 DEF OnStateChanged, UiTypes, IoShape, Shape, io
<1>5. QED
  BY <1>1, <1>2, <1>3, <1>4 DEF UiThread

(* connectToHost closes what there is, and starts the attempt afresh.      *)
LEMMA TakeConnectStep ==
    ASSUME IInv, TakeConnect
    PROVE  IInv'
<1> DEFINE r == Head(toIo).radio
<1>1. /\ toIo' \in Seq(Requests) /\ Head(toIo) \in ConnectRequests
      /\ r \in Radios
  BY TakesType
     DEF IInv, TakeConnect, Requests, ConnectRequests, DisconnectRequests
<1>2. toUi \in Seq(States) /\ SocketOK(socket)
  BY DEF IInv, UiTypes, IoShape, Shape
<1>3. /\ Armed(r) \in SUBSET Timers
      /\ "connect" \in Armed(r)
      /\ "ping" \notin Armed(r)
  BY DEF IInv, IoShape, Shape, Armed, Timers
<1>4. PICK s \in FirstClosed :
           IF r \in Local
           THEN /\ lookups' = lookups \union {Head(toIo)}
                /\ socket' = s
                /\ timers' = Armed(r)
                /\ Goes("Disconnected", "Connecting", "Connecting")
           ELSE /\ Attempt(s, r, r \in Encrypted, "Disconnected", Armed(r))
                /\ UNCHANGED lookups
  BY DEF TakeConnect
<1>5. SocketOK(s)
  BY <1>2, <1>4, AfterCloseOK DEF FirstClosed
<1>6. "Disconnected" \in States /\ "Connecting" \in States
  BY DEF States
<1>7. authAnswered' = FALSE /\ radio' = r /\ UNCHANGED ui
  BY DEF TakeConnect
<1>8. /\ toUi' \in Seq(States)
      /\ Shape(state', timers', FALSE, socket')
      /\ lookups' \subseteq ConnectRequests
  <2>1. CASE r \in Local
    <3>1. Goes("Disconnected", "Connecting", "Connecting")
      BY <1>4, <2>1
    <3>2. toUi' \in Seq(States) /\ state' = "Connecting"
      BY <1>2, <1>6, <3>1, GoesOK
    <3>3. socket' = s /\ timers' = Armed(r) /\ lookups' = lookups \union {Head(toIo)}
      BY <1>4, <2>1
    <3>4. QED
      BY <1>1, <1>3, <1>5, <1>6, <3>2, <3>3 DEF Shape, IInv, UiTypes
  <2>2. CASE r \notin Local
    <3>1. Attempt(s, r, r \in Encrypted, "Disconnected", Armed(r))
      BY <1>4, <2>2
    <3>2. (r \in Encrypted) \in BOOLEAN
      OBVIOUS
    <3>3. toUi' \in Seq(States) /\ Shape(state', timers', FALSE, socket')
      BY <1>1, <1>2, <1>3, <1>5, <1>6, <3>1, <3>2, AttemptShape
    <3>4. QED
      BY <1>4, <2>2, <3>3 DEF IInv, UiTypes
  <2>3. QED
    BY <2>1, <2>2
<1>9. QED
  BY <1>1, <1>7, <1>8 DEF IInv, UiTypes, IoShape, ui, RadioOrNone

(* A lookup counts only while Connecting, when nothing was answered yet.   *)
LEMMA LookupStep ==
    ASSUME IInv, NEW l \in lookups, LookupAnswered(l)
    PROVE  IInv'
<1>1. l.radio \in Radios /\ lookups' \subseteq ConnectRequests
  BY DEF IInv, UiTypes, LookupAnswered, ConnectRequests
<1>2. toUi \in Seq(States) /\ SocketOK(socket) /\ "Disconnected" \in States
      /\ "Connecting" \in States
  BY DEF IInv, UiTypes, IoShape, Shape, States
<1>3. CASE UNCHANGED <<state, toUi, timers, socket>>
  BY <1>1, <1>3 DEF IInv, UiTypes, IoShape, LookupAnswered, ui
<1>4. CASE /\ state = "Connecting"
           /\ timers' = timers \ {"connect"}
           /\ Goes("Disconnected", "Disconnected", "Disconnected")
           /\ UNCHANGED socket
  <2>1. toUi' \in Seq(States) /\ state' = "Disconnected"
    BY <1>2, <1>4, GoesOK
  <2>2. ~authAnswered /\ timers \subseteq Timers /\ "ping" \notin timers
    BY <1>4 DEF IInv, IoShape, Shape
  <2>3. socket' = socket /\ authAnswered' = authAnswered
    BY <1>4 DEF LookupAnswered
  <2>4. Shape(state', timers', authAnswered', socket')
    BY <1>2, <1>4, <2>1, <2>2, <2>3 DEF Shape
  <2>5. QED
    BY <1>1, <2>1, <2>4 DEF IInv, UiTypes, IoShape, LookupAnswered, ui
<1>5. CASE /\ state = "Connecting"
           /\ Attempt(socket, l.radio, radio \in Encrypted, "Connecting", timers)
  <2>1. "connect" \in timers /\ "ping" \notin timers /\ ~authAnswered
        /\ timers \in SUBSET Timers
    BY <1>5 DEF IInv, IoShape, Shape
  <2>2. (radio \in Encrypted) \in BOOLEAN
    OBVIOUS
  <2>3. toUi' \in Seq(States) /\ Shape(state', timers', FALSE, socket')
    BY <1>1, <1>2, <1>5, <2>1, <2>2, AttemptShape
  <2>4. authAnswered' = FALSE
    BY <2>1 DEF LookupAnswered, IInv, UiTypes
  <2>5. QED
    BY <1>1, <2>3, <2>4 DEF IInv, UiTypes, IoShape, LookupAnswered, ui
<1>6. QED
  BY <1>3, <1>4, <1>5 DEF LookupAnswered

(* One step per action of the I/O thread.                                  *)
LEMMA IoStep ==
    ASSUME IInv, IoThread
    PROVE  IInv'
<1> toUi \in Seq(States) /\ IoShape
  BY DEF IInv, UiTypes
<1>1. ASSUME UNCHANGED <<ui, io>>, toIo' \in Seq(Requests),
             toUi' \in Seq(States) /\ IoShape'
      PROVE  IInv'
  BY <1>1 DEF IInv, UiTypes, ui, io
<1>2. toIo \in Seq(Requests)
  BY DEF IInv, UiTypes
<1>3. CASE TakeConnect
  BY <1>3, TakeConnectStep
<1>4. CASE TakeDisconnect
  <2>1. toUi' \in Seq(States) /\ IoShape'
    BY <1>4, CloseShape DEF TakeDisconnect, io
  <2>2. toIo' \in Seq(Requests)
    BY <1>4, TakesType DEF TakeDisconnect, IInv
  <2>3. QED
    BY <1>4, <2>1, <2>2, <1>1 DEF TakeDisconnect
<1>5. ASSUME NEW l \in lookups, LookupAnswered(l)
      PROVE  IInv'
  BY <1>5, LookupStep
<1>6. CASE ConnectTimeout
  <2>1. CASE state = "Connecting"
    <3>1. CloseConnection /\ UNCHANGED <<ui, toIo, io>>
      BY <1>6, <2>1 DEF ConnectTimeout, Expires
    <3>2. toUi' \in Seq(States) /\ IoShape'
      BY <3>1, CloseShape DEF io
    <3>3. QED
      BY <1>1, <1>2, <3>1, <3>2
  <2>2. CASE state # "Connecting"
    <3>1. /\ timers' = timers \ {"connect"}
          /\ UNCHANGED <<state, toUi, socket, ui, toIo, io>>
      BY <1>6, <2>2 DEF ConnectTimeout, Expires
    <3>2. IoShape'
      BY <2>2, <3>1 DEF IoShape, Shape, io
    <3>3. QED
      BY <1>1, <1>2, <3>1, <3>2
  <2>3. QED
    BY <2>1, <2>2
<1>7. CASE AuthTimeout
  <2>1. CASE state = "Authenticating" /\ ~authAnswered
    <3>1. CloseConnection /\ UNCHANGED <<ui, toIo, io>>
      BY <1>7, <2>1 DEF AuthTimeout, Expires
    <3>2. toUi' \in Seq(States) /\ IoShape'
      BY <3>1, CloseShape DEF io
    <3>3. QED
      BY <1>1, <1>2, <3>1, <3>2
  <2>2. CASE ~(state = "Authenticating" /\ ~authAnswered)
    <3>1. /\ timers' = timers \ {"auth"}
          /\ UNCHANGED <<state, toUi, socket, ui, toIo, io>>
      BY <1>7, <2>2 DEF AuthTimeout, Expires
    <3>2. IoShape'
      BY <2>2, <3>1 DEF IoShape, Shape, io
    <3>3. QED
      BY <1>1, <1>2, <3>1, <3>2
  <2>3. QED
    BY <2>1, <2>2
<1>8. CASE SocketConnected
  <2> DEFINE p == IF socket.tls THEN "handshake" ELSE "ready"
             up == [socket EXCEPT !.phase = p]
  <2>1. SocketOK(up) /\ up.phase \in {"handshake", "ready"}
    <3>1. SocketOK(socket) /\ socket.phase = "connecting"
      BY <1>8 DEF SocketConnected, IoShape, Shape
    <3>2. p \in Phases \ {"unconnected"}
      BY DEF Phases
    <3>3. SocketOK(up)
      BY <3>1, <3>2, PhaseOK
    <3>4. up.phase = p
      BY <3>1 DEF SocketOK, Sockets
    <3>5. QED
      BY <3>3, <3>4
  <2>2. PICK s \in ClosedIfPending(up) \union (IF up.tls THEN {up} ELSE {}) :
            Reached(radio \notin Encrypted, s)
    BY <1>8 DEF SocketConnected
  <2>3. SocketOK(s)
    BY <2>1, <2>2, ClosedIfPendingOK
  <2>4. (radio \notin Encrypted) \in BOOLEAN
    OBVIOUS
  <2>5. socket.phase \in {"connecting", "handshake"}
    BY <1>8 DEF SocketConnected
  <2>6. toUi' \in Seq(States) /\ IoShape'
    BY <2>2, <2>3, <2>4, <2>5, ReachedShape
  <2>7. QED
    BY <1>1, <1>2, <2>2, <2>6 DEF Reached
<1>9. CASE SendAuthenticationFails
  <2>1. "Authenticating" \in States /\ "Disconnected" \in States
    BY DEF States
  <2>2. Goes("Authenticating", "Disconnected", "Disconnected")
    BY <1>9 DEF SendAuthenticationFails
  <2>3. toUi' \in Seq(States) /\ state' = "Disconnected"
    BY <2>1, <2>2, GoesOK
  <2>4. ~authAnswered'
    BY <1>9 DEF SendAuthenticationFails, IoShape, Shape, io
  <2>5. SocketOK(socket') /\ timers' = {"auth"}
    BY <1>9, UnconnectedOK DEF SendAuthenticationFails
  <2>6. Shape(state', timers', authAnswered', socket')
    BY <2>1, <2>3, <2>4, <2>5 DEF Shape, Timers
  <2>7. QED
    BY <1>1, <1>2, <1>9, <2>3, <2>6 DEF SendAuthenticationFails, IoShape
<1>10. CASE SocketEncrypted
  <2> DEFINE up == [socket EXCEPT !.phase = "ready"]
  <2>1. SocketOK(up) /\ up.phase = "ready"
    <3>1. SocketOK(socket) /\ socket.phase = "handshake"
      BY <1>10 DEF SocketEncrypted, IoShape, Shape
    <3>2. SocketOK(up)
      BY <3>1, PhaseOK DEF Phases
    <3>3. QED
      BY <3>1, <3>2 DEF SocketOK, Sockets
  <2>2. PICK s \in ClosedIfPending(up) : Reached(TRUE, s)
    BY <1>10 DEF SocketEncrypted
  <2>3. SocketOK(s)
    BY <2>1, <2>2, ClosedIfPendingOK
  <2>4. socket.phase \in {"connecting", "handshake"}
    BY <1>10 DEF SocketEncrypted
  <2>5. toUi' \in Seq(States) /\ IoShape'
    BY <2>2, <2>3, <2>4, ReachedShape
  <2>6. QED
    BY <1>1, <1>2, <2>2, <2>5 DEF Reached
<1>11. CASE PacketReceived
  <2>1. "Connected" \in States
    BY DEF States
  <2>2. Goes("Connected", "Connected", "Connected")
    BY <1>11 DEF PacketReceived
  <2>3. toUi' \in Seq(States) /\ state' = "Connected"
    BY <2>1, <2>2, GoesOK
  <2>4. timers' \subseteq Timers /\ "ping" \in timers'
    BY <1>11 DEF PacketReceived, IoShape, Shape, Timers
  <2>5. authAnswered' = TRUE /\ socket' = socket /\ socket.phase = "ready"
    BY <1>11 DEF PacketReceived
  <2>6. SocketOK(socket')
    BY <2>5 DEF IoShape, Shape
  <2>7. Shape(state', timers', authAnswered', socket')
    BY <2>1, <2>3, <2>4, <2>5, <2>6 DEF Shape
  <2>8. QED
    BY <1>11, <2>3, <2>7 DEF PacketReceived, IInv, UiTypes, IoShape, ui
<1>12. CASE SocketEnds
  <2>1. SocketOK(socket)
    BY DEF IoShape, Shape
  <2>2. \/ socket' = Unconnected
        \/ /\ socket.phase = "handshake"
           /\ socket' = [socket EXCEPT !.phase = "closing"]
    BY <1>12 DEF SocketEnds
  <2>3. SocketOK(socket') /\ socket'.phase \in {"unconnected", "closing"}
    <3>1. CASE socket' = Unconnected
      <4>1. Unconnected.phase = "unconnected"
        BY DEF Unconnected
      <4>2. QED
        BY <3>1, <4>1, UnconnectedOK
    <3>2. CASE socket.phase = "handshake"
               /\ socket' = [socket EXCEPT !.phase = "closing"]
      <4>1. SocketOK(socket')
        BY <2>1, <3>2, PhaseOK DEF Phases
      <4>2. socket'.phase = "closing"
        BY <2>1, <3>2 DEF SocketOK, Sockets
      <4>3. QED
        BY <4>1, <4>2
    <3>3. QED
      BY <2>2, <3>1, <3>2
  <2>4. toUi' \in Seq(States) /\ IoShape'
    BY <1>12, <2>3, EndShape DEF SocketEnds, EndState, io
  <2>5. QED
    BY <1>1, <1>2, <1>12, <2>4 DEF SocketEnds
<1>13. QED
  BY <1>3, <1>4, <1>5, <1>6, <1>7, <1>8, <1>9, <1>10, <1>11, <1>12 DEF IoThread

(* The invariant: it holds at the start and every step of both threads     *)
(* keeps it.                                                               *)
THEOREM Inductive == Spec => []IInv
<1>1. Init => IInv
  <2> SUFFICES ASSUME Init PROVE IInv
    OBVIOUS
  <2>1. SocketOK(socket)
    BY UnconnectedOK DEF Init
  <2>2. UiTypes
    <3>1. toIo \in Seq(Requests) /\ toUi \in Seq(States)
      BY DEF Init
    <3>2. taps \in 0..MaxTaps
      BY ConnectionAssumption DEF Init
    <3>3. lookups \subseteq ConnectRequests
      BY DEF Init
    <3>4. QED
      BY <3>1, <3>2, <3>3 DEF Init, UiTypes, States, RadioOrNone
  <2>3. IoShape
    BY <2>1 DEF Init, IoShape, Shape, States, Timers
  <2>4. QED
    BY <2>2, <2>3 DEF IInv
<1>2. IInv /\ [Next]_vars => IInv'
  <2> SUFFICES ASSUME IInv, [Next]_vars PROVE IInv'
    OBVIOUS
  <2>1. CASE UiThread
    BY <2>1, UiStep
  <2>2. CASE IoThread
    BY <2>2, IoStep
  <2>3. CASE UNCHANGED vars
    BY <2>3 DEF vars, IInv, UiTypes, IoShape, ui, io
  <2>4. QED
    BY <2>1, <2>2, <2>3 DEF Next
<1>3. QED
  BY <1>1, <1>2, PTL DEF Spec

(* Every variable has its type, and the socket a peer unless unconnected.  *)
THEOREM ConnectionTypes == Spec => []TypeOK
<1>1. IInv => TypeOK
  BY DEF IInv, UiTypes, IoShape, Shape, SocketOK, TypeOK
<1>2. QED
  BY <1>1, Inductive, PTL

(* No state that waits lacks the timer that ends it, for any number of     *)
(* attempts, radios and answers that come late.                            *)
THEOREM WaitingIsTimed == Spec => []TimersMatch
<1>1. IInv => TimersMatch
  BY DEF IInv, IoShape, Shape, TimersMatch
<1>2. QED
  BY <1>1, Inductive, PTL

(* Connected always rests on an open socket that answered this attempt.    *)
THEOREM ConnectedHasAnswered == Spec => []ConnectedIsLive
<1>1. IInv => ConnectedIsLive
  BY DEF IInv, IoShape, Shape, ConnectedIsLive
<1>2. QED
  BY <1>1, Inductive, PTL

(***************************************************************************)
(* What the UI thread is told: the last change on its way to it is to the  *)
(* state of now, and when there is none it shows that state, or it has     *)
(* just set its own and the request that will be answered is queued.       *)
(***************************************************************************)
ConnectQueued == \E i \in 1..Len(toIo) : toIo[i].name = "connect"
UiFollows ==
    IF toUi = <<>> THEN uiState = state \/ ConnectQueued
                   ELSE toUi[Len(toUi)] = state

(* Adding changes to a queue of them, the last of which is to x.           *)
LastIs(q, x) == q # <<>> => q[Len(q)] = x
LEMMA ChangeLast ==
    ASSUME NEW q \in Seq(States), NEW x \in States, NEW y \in States, LastIs(q, x)
    PROVE  /\ q \o Change(x, y) \in Seq(States)
           /\ LastIs(q \o Change(x, y), y)
           /\ q \o Change(x, y) = <<>> => q = <<>> /\ y = x
<1>1. CASE x = y
  <2>1. q \o Change(x, y) = q
    BY <1>1, ConcatEmptySeq DEF Change
  <2>2. QED
    BY <1>1, <2>1
<1>2. CASE x # y
  <2> DEFINE t == Append(q, y)
  <2>1. Change(x, y) = <<y>>
    BY <1>2 DEF Change
  <2>2. q \o Change(x, y) = t
    BY <2>1, AppendIsConcat
  <2>3. t \in Seq(States) /\ t # <<>> /\ Len(t) = Len(q) + 1 /\ t[Len(q) + 1] = y
    BY AppendProperties
  <2> HIDE DEF t
  <2>4. QED
    BY <2>2, <2>3 DEF LastIs
<1>3. QED
  BY <1>1, <1>2

(* The changes a handler announces.                                        *)
LEMMA GoesFollows ==
    ASSUME toUi \in Seq(States), state \in States, NEW a \in States, NEW b \in States,
           NEW c \in States, Goes(a, b, c), UiFollows
    PROVE  /\ toUi' # <<>> => toUi'[Len(toUi')] = state'
           /\ toUi' = <<>> => toUi = <<>> /\ state' = state /\ b = a
<1> DEFINE p == toUi \o Change(state, a)
           r == p \o Change(a, b)
           t == r \o Change(b, c)
<1>1. toUi' = t /\ state' = c
  BY DEF Goes
<1>2. LastIs(toUi, state)
  BY DEF UiFollows, LastIs
<1>3. p \in Seq(States) /\ LastIs(p, a) /\ (p = <<>> => toUi = <<>> /\ a = state)
  BY <1>2, ChangeLast
<1> HIDE DEF p
<1>4. r \in Seq(States) /\ LastIs(r, b) /\ (r = <<>> => p = <<>> /\ b = a)
  BY <1>3, ChangeLast
<1> HIDE DEF r
<1>5. LastIs(t, c) /\ (t = <<>> => r = <<>> /\ c = b)
  BY <1>4, ChangeLast
<1> HIDE DEF t
<1>6. QED
  BY <1>1, <1>3, <1>4, <1>5 DEF LastIs

(* What a handler of the I/O thread does that takes no request, or one     *)
(* that is not to connect.                                                 *)
LEMMA GoesKeepsUi ==
    ASSUME IInv, UiFollows, uiState' = uiState, ConnectQueued => ConnectQueued',
           \/ UNCHANGED <<state, toUi>>
           \/ \E a, b, c \in States : Goes(a, b, c)
    PROVE  UiFollows'
<1>1. toUi \in Seq(States) /\ state \in States
  BY DEF IInv, UiTypes, IoShape, Shape
<1>2. CASE UNCHANGED <<state, toUi>>
  BY <1>2 DEF UiFollows
<1>3. ASSUME NEW a \in States, NEW b \in States, NEW c \in States, Goes(a, b, c)
      PROVE  UiFollows'
  <2>1. /\ toUi' # <<>> => toUi'[Len(toUi')] = state'
        /\ toUi' = <<>> => toUi = <<>> /\ state' = state
    BY <1>1, <1>3, GoesFollows
  <2>2. QED
    BY <2>1 DEF UiFollows
<1>4. QED
  BY <1>2, <1>3

(* A request at the head of the queue that is not to connect leaves those  *)
(* behind it.                                                              *)
LEMMA TailOfRequests ==
    ASSUME UiTypes, NEW name, Takes(name)
    PROVE  /\ Len(toIo) \in Nat \ {0} /\ Len(toIo') = Len(toIo) - 1
           /\ \A i \in 1..Len(toIo') : toIo'[i] = toIo[i + 1]
           /\ toIo[1].name = name /\ Head(toIo) = toIo[1]
<1>1. toIo \in Seq(Requests) /\ toIo # <<>> /\ toIo' = Tail(toIo) /\ Head(toIo).name = name
  BY DEF UiTypes, Takes
<1>2. Len(toIo) \in Nat \ {0} /\ Head(toIo) = toIo[1]
  BY <1>1, EmptySeq
<1>3. QED
  BY <1>1, <1>2, HeadTailProperties

(* The calls of the UI thread join the queue one by one.                   *)
LEMMA ConnectAppends ==
    ASSUME UiTypes, NEW r \in Radios, Connect(r)
    PROVE  /\ Len(toIo) \in Nat /\ Len(toIo') \in Nat /\ Len(toIo) < Len(toIo')
           /\ \A i \in 1..Len(toIo) : toIo'[i] = toIo[i]
           /\ \A i \in Len(toIo) + 1..Len(toIo') - 1 : toIo'[i].name = "disconnect"
           /\ toIo'[Len(toIo')] = Request("connect", r)
<1> DEFINE d == Request("disconnect", NoRadio)
           c == Request("connect", r)
<1>1. toIo \in Seq(Requests) /\ d \in Requests /\ c \in Requests /\ Len(toIo) \in Nat
  BY RequestType DEF Connect, UiTypes
<1>2. d.name = "disconnect"
  BY DEF Request
<1>3. toIo' = toIo \o (IF state = "Connected" THEN <<d>> ELSE <<>>) \o <<c>>
  BY DEF Connect
<1> HIDE DEF d, c
<1>4. CASE state = "Connected"
  <2> DEFINE p == Append(toIo, d)
             t == Append(p, c)
  <2>1. p \in Seq(Requests) /\ toIo \o <<d>> = p /\ Len(p) = Len(toIo) + 1
        /\ (\A i \in 1..Len(toIo) : p[i] = toIo[i]) /\ p[Len(toIo) + 1] = d
    BY <1>1, AppendProperties, AppendIsConcat
  <2> HIDE DEF p
  <2>2. p \o <<c>> = t /\ Len(t) = Len(p) + 1
        /\ (\A i \in 1..Len(p) : t[i] = p[i]) /\ t[Len(p) + 1] = c
    BY <1>1, <2>1, AppendProperties, AppendIsConcat
  <2>3. toIo' = t
    BY <1>3, <1>4, <2>1, <2>2
  <2> HIDE DEF t
  <2>4. QED
    BY <1>1, <1>2, <2>1, <2>2, <2>3 DEF c
<1>5. CASE state # "Connected"
  <2> DEFINE t == Append(toIo, c)
  <2>1. toIo \o <<c>> = t /\ Len(t) = Len(toIo) + 1
        /\ (\A i \in 1..Len(toIo) : t[i] = toIo[i]) /\ t[Len(toIo) + 1] = c
    BY <1>1, AppendProperties, AppendIsConcat
  <2>2. toIo' = t
    BY <1>1, <1>3, <1>5, <2>1, ConcatEmptySeq
  <2> HIDE DEF t
  <2>3. QED
    BY <1>1, <2>1, <2>2 DEF c
<1>6. QED
  BY <1>4, <1>5

LEMMA DisconnectAppends ==
    ASSUME UiTypes, Disconnect
    PROVE  /\ Len(toIo) \in Nat /\ Len(toIo') = Len(toIo) + 1
           /\ \A i \in 1..Len(toIo) : toIo'[i] = toIo[i]
           /\ toIo'[Len(toIo')].name = "disconnect"
<1> DEFINE d == Request("disconnect", NoRadio)
<1>1. toIo \in Seq(Requests) /\ d \in Requests /\ Len(toIo) \in Nat /\ toIo' = Append(toIo, d)
  BY RequestType DEF Disconnect, UiTypes
<1>2. d.name = "disconnect"
  BY DEF Request
<1> HIDE DEF d
<1>3. QED
  BY <1>1, <1>2, AppendProperties

(* The state the UI shows follows that of the connection.                  *)
LEMMA UiFollowsStep ==
    ASSUME IInv, UiFollows, [Next]_vars
    PROVE  UiFollows'
<1>0. UiTypes /\ state \in States /\ toUi \in Seq(States)
      /\ "Connecting" \in States /\ "Disconnected" \in States /\ "Authenticating" \in States
      /\ "Connected" \in States
  BY DEF IInv, UiTypes, IoShape, Shape, States
<1>1. CASE ShowManager
  BY <1>1, GoesKeepsUi DEF ShowManager, ConnectQueued
<1>2. CASE Disconnect
  <2>1. ConnectQueued => ConnectQueued'
    BY <1>0, <1>2, DisconnectAppends DEF ConnectQueued
  <2>2. QED
    BY <1>2, <2>1, GoesKeepsUi DEF Disconnect
<1>3. ASSUME NEW r \in Radios, Connect(r) PROVE UiFollows'
  <2>1. ConnectQueued'
    <3>1. /\ Len(toIo) \in Nat /\ Len(toIo') \in Nat /\ Len(toIo) < Len(toIo')
          /\ toIo'[Len(toIo')] = Request("connect", r)
      BY <1>0, <1>3, ConnectAppends
    <3>2. Len(toIo') \in 1..Len(toIo')
      BY <3>1
    <3>3. toIo'[Len(toIo')].name = "connect"
      BY <3>1 DEF Request
    <3>4. QED
      BY <3>2, <3>3 DEF ConnectQueued
  <2>2. QED
    BY <1>3, <2>1 DEF Connect, UiFollows
<1>4. CASE OnStateChanged
  <2>1. /\ toUi' = Tail(toUi) /\ toUi # <<>> /\ uiState' = Head(toUi)
        /\ toIo' = toIo /\ state' = state
    BY <1>4 DEF OnStateChanged
  <2>2. /\ Len(toUi) \in Nat \ {0} /\ toUi' \in Seq(States) /\ Len(toUi') = Len(toUi) - 1
        /\ \A i \in 1..Len(toUi') : toUi'[i] = toUi[i + 1]
        /\ Head(toUi) = toUi[1]
    BY <1>0, <2>1, HeadTailProperties, EmptySeq
  <2>3. toUi[Len(toUi)] = state
    BY <2>1 DEF UiFollows
  <2>4. CASE toUi' = <<>>
    <3>1. Len(toUi) = 1
      BY <2>2, <2>4
    <3>2. QED
      BY <2>1, <2>2, <2>3, <2>4, <3>1 DEF UiFollows
  <2>5. CASE toUi' # <<>>
    <3>1. Len(toUi') \in 1..Len(toUi')
      BY <2>2, <2>5, EmptySeq
    <3>2. toUi'[Len(toUi')] = toUi[Len(toUi)]
      BY <2>2, <3>1
    <3>3. QED
      BY <2>1, <2>3, <2>5, <3>2 DEF UiFollows
  <2>6. QED
    BY <2>4, <2>5
<1>5. CASE TakeConnect
  <2> DEFINE r == Head(toIo).radio
  <2>1. \E s : \/ Goes("Disconnected", "Connecting", "Connecting")
               \/ Attempt(s, r, r \in Encrypted, "Disconnected", Armed(r))
    BY <1>5 DEF TakeConnect
  <2>2. \E c \in States : Goes("Disconnected", "Connecting", c)
    BY <1>0, <2>1 DEF Attempt
  <2>3. toUi' # <<>> /\ toUi'[Len(toUi')] = state'
    BY <1>0, <2>2, GoesFollows
  <2>4. QED
    BY <2>3 DEF UiFollows
<1>6. CASE TakeDisconnect
  <2>1. ConnectQueued => ConnectQueued'
    <3>1. /\ Len(toIo) \in Nat \ {0} /\ Len(toIo') = Len(toIo) - 1
          /\ \A i \in 1..Len(toIo') : toIo'[i] = toIo[i + 1]
          /\ toIo[1].name = "disconnect"
      BY <1>0, <1>6, TailOfRequests DEF TakeDisconnect
    <3>2. ASSUME NEW i \in 1..Len(toIo), toIo[i].name = "connect"
          PROVE  i - 1 \in 1..Len(toIo') /\ toIo'[i - 1] = toIo[i]
      <4>1. i # 1
        BY <3>1, <3>2
      <4>2. i - 1 \in 1..Len(toIo')
        BY <3>1, <4>1
      <4>3. QED
        BY <3>1, <4>2
    <3>3. QED
      BY <3>2 DEF ConnectQueued
  <2>2. QED
    BY <1>0, <1>6, <2>1, GoesKeepsUi DEF TakeDisconnect, CloseConnection, ui
<1>7. ASSUME NEW l \in lookups, LookupAnswered(l) PROVE UiFollows'
  BY <1>0, <1>7, GoesKeepsUi DEF LookupAnswered, Attempt, ConnectQueued, ui
<1>8. CASE ConnectTimeout \/ AuthTimeout
  BY <1>0, <1>8, GoesKeepsUi
     DEF ConnectTimeout, AuthTimeout, Expires, CloseConnection, ConnectQueued, ui
<1>9. ASSUME NEW b \in BOOLEAN, NEW s, Reached(b, s) PROVE UiFollows'
  <2>1. \E x, y, z \in States : Goes(x, y, z)
    BY <1>0, <1>9 DEF Reached
  <2>2. QED
    BY <1>9, <2>1, GoesKeepsUi DEF Reached, ConnectQueued, ui
<1>10. CASE SocketConnected \/ SocketEncrypted
  <2>1. (radio \notin Encrypted) \in BOOLEAN
    OBVIOUS
  <2>2. QED
    BY <1>9, <1>10, <2>1 DEF SocketConnected, SocketEncrypted
<1>11. CASE SendAuthenticationFails \/ PacketReceived \/ SocketEnds
  BY <1>0, <1>11, GoesKeepsUi
     DEF SendAuthenticationFails, PacketReceived, SocketEnds, EndState, ConnectQueued, ui
<1>12. CASE UNCHANGED vars
  BY <1>12, GoesKeepsUi DEF vars, ui, ConnectQueued
<1>13. QED
  BY <1>1, <1>2, <1>3, <1>4, <1>5, <1>6, <1>7, <1>8, <1>10, <1>11, <1>12
     DEF Next, UiThread, IoThread

(* When nothing is on its way the UI shows the state of the connection,    *)
(* though it sets its copy ahead of the answer and hears of changes late.  *)
THEOREM UiShowsTheState == Spec => []UiAgrees
<1>1. Init => UiFollows
  BY DEF Init, UiFollows
<1>2. IInv /\ UiFollows /\ [Next]_vars => UiFollows'
  BY UiFollowsStep
<1>3. IInv /\ UiFollows => UiAgrees
  <2>1. Len(<<>>) = 0 /\ 1..0 = {}
    OBVIOUS
  <2>2. QED
    BY <2>1 DEF UiFollows, UiAgrees, ConnectQueued
<1>4. QED
  BY <1>1, <1>2, <1>3, Inductive, PTL DEF Spec


(***************************************************************************)
(* Who is connected, as long as no radio asked for was given by name.  The *)
(* radio the UI asked for is that of the last request to connect, queued   *)
(* or taken; a socket that may still connect and was not told to close is  *)
(* that of the request taken last, and there is none while Disconnected.   *)
(* So no attempt meets a busy socket of another radio that might answer.   *)
(***************************************************************************)
Connects(i) == i \in 1..Len(toIo) /\ toIo[i].name = "connect"
NoneByName == \A i \in 1..Len(toIo) : Connects(i) => toIo[i].radio \notin Local
LastAsked(i) ==
    Connects(i) /\ toIo[i].radio = asked /\ \A j \in 1..Len(toIo) : Connects(j) => j <= i
Latest ==
    \/ radio = asked /\ \A i \in 1..Len(toIo) : ~Connects(i)
    \/ \E i \in 1..Len(toIo) : LastAsked(i)
Live(s) == s.phase \in {"connecting", "handshake", "ready"} /\ ~s.pendingClose
ReadyStays == socket.phase = "ready" => ~socket.pendingClose
LiveIsAsked == Live(socket) => socket.peer = radio /\ state # "Disconnected"
Addressed ==
    /\ ReadyStays
    /\ ~byName => lookups = {} /\ NoneByName /\ Latest /\ LiveIsAsked

(* Taking a request to connect makes its radio that of the last one taken. *)
LEMMA TakenIsLatest ==
    ASSUME UiTypes, Takes("connect"), NoneByName, Latest, asked' = asked,
           radio' = Head(toIo).radio
    PROVE  NoneByName' /\ Latest' /\ radio' \notin Local
<1>1. /\ Len(toIo) \in Nat \ {0} /\ Len(toIo') = Len(toIo) - 1
      /\ \A i \in 1..Len(toIo') : toIo'[i] = toIo[i + 1]
      /\ toIo[1].name = "connect" /\ Head(toIo) = toIo[1]
  BY TailOfRequests
<1>2. Connects(1) /\ radio' \notin Local
  BY <1>1 DEF Connects, NoneByName
<1>3. ASSUME NEW i \in 1..Len(toIo')
      PROVE  /\ i + 1 \in 1..Len(toIo) /\ toIo'[i] = toIo[i + 1]
             /\ Connects(i)' => Connects(i + 1)
  BY <1>1 DEF Connects
<1>4. NoneByName'
  BY <1>3 DEF NoneByName
<1>5. PICK i \in 1..Len(toIo) : LastAsked(i)
  BY <1>1, <1>2 DEF Latest
<1>6. Latest'
  <2>1. CASE i = 1
    <3>1. ASSUME NEW j \in 1..Len(toIo'), Connects(j)' PROVE FALSE
      <4>1. j + 1 \in 1..Len(toIo) /\ Connects(j + 1)
        BY <1>3, <3>1
      <4>2. j + 1 <= 1
        BY <1>5, <2>1, <4>1 DEF LastAsked
      <4>3. QED
        BY <1>1, <4>2
    <3>2. radio' = asked'
      BY <1>1, <1>5, <2>1 DEF LastAsked
    <3>3. QED
      BY <3>1, <3>2 DEF Latest
  <2>2. CASE i # 1
    <3>1. i - 1 \in 1..Len(toIo') /\ toIo'[i - 1] = toIo[i]
      <4>1. i - 1 \in 1..Len(toIo') /\ (i - 1) + 1 = i
        BY <1>1, <2>2
      <4>2. QED
        BY <1>3, <4>1
    <3>2. ASSUME NEW j \in 1..Len(toIo'), Connects(j)' PROVE j <= i - 1
      <4>1. j + 1 \in 1..Len(toIo) /\ Connects(j + 1)
        BY <1>3, <3>2
      <4>2. j + 1 <= i
        BY <1>5, <4>1 DEF LastAsked
      <4>3. QED
        BY <1>1, <4>2
    <3>3. Connects(i - 1)' /\ toIo'[i - 1].radio = asked'
      BY <1>5, <3>1 DEF LastAsked, Connects
    <3>4. LastAsked(i - 1)'
      BY <3>2, <3>3 DEF LastAsked
    <3>5. QED
      BY <3>1, <3>4 DEF Latest
  <2>3. QED
    BY <2>1, <2>2
<1>7. QED
  BY <1>2, <1>4, <1>6

(* Taking a request to disconnect moves the others up.                     *)
LEMMA DisconnectTaken ==
    ASSUME UiTypes, Takes("disconnect"), NoneByName, Latest, asked' = asked,
           radio' = radio
    PROVE  NoneByName' /\ Latest'
<1>1. /\ Len(toIo) \in Nat \ {0} /\ Len(toIo') = Len(toIo) - 1
      /\ \A i \in 1..Len(toIo') : toIo'[i] = toIo[i + 1]
      /\ toIo[1].name = "disconnect"
  BY TailOfRequests
<1>2. ASSUME NEW i \in 1..Len(toIo')
      PROVE  /\ i + 1 \in 1..Len(toIo) /\ toIo'[i] = toIo[i + 1]
             /\ Connects(i)' => Connects(i + 1)
  BY <1>1 DEF Connects
<1>3. NoneByName'
  BY <1>2 DEF NoneByName
<1>4. CASE radio = asked /\ \A i \in 1..Len(toIo) : ~Connects(i)
  <2>1. \A i \in 1..Len(toIo') : ~Connects(i)'
    BY <1>2, <1>4
  <2>2. QED
    BY <1>3, <1>4, <2>1 DEF Latest
<1>5. ASSUME NEW i \in 1..Len(toIo), LastAsked(i)
      PROVE  Latest'
  <2>1. i # 1
    BY <1>1, <1>5 DEF LastAsked, Connects
  <2>2. i - 1 \in 1..Len(toIo') /\ (i - 1) + 1 = i
    BY <1>1, <2>1
  <2>3. toIo'[i - 1] = toIo[i]
    BY <1>2, <2>2
  <2>4. ASSUME NEW j \in 1..Len(toIo'), Connects(j)' PROVE j <= i - 1
    <3>1. j + 1 \in 1..Len(toIo) /\ Connects(j + 1)
      BY <1>2, <2>4
    <3>2. j + 1 <= i
      BY <1>5, <3>1 DEF LastAsked
    <3>3. QED
      BY <1>1, <3>2
  <2>5. Connects(i - 1)' /\ toIo'[i - 1].radio = asked'
    BY <1>5, <2>2, <2>3 DEF LastAsked, Connects
  <2>6. LastAsked(i - 1)'
    BY <2>4, <2>5 DEF LastAsked
  <2>7. QED
    BY <2>2, <2>6 DEF Latest
<1>6. QED
  BY <1>3, <1>4, <1>5 DEF Latest

(* What the UI thread queues keeps the last request that of the radio      *)
(* asked for.                                                              *)
LEMMA QueuedIsLatest ==
    ASSUME UiTypes, NoneByName, NEW r \in Radios \ Local, Connect(r)
    PROVE  NoneByName' /\ Latest'
<1>1. /\ Len(toIo) \in Nat /\ Len(toIo') \in Nat /\ Len(toIo) < Len(toIo')
      /\ \A i \in 1..Len(toIo) : toIo'[i] = toIo[i]
      /\ \A i \in Len(toIo) + 1..Len(toIo') - 1 : toIo'[i].name = "disconnect"
      /\ toIo'[Len(toIo')] = Request("connect", r)
  BY ConnectAppends
<1>2. Request("connect", r).name = "connect" /\ Request("connect", r).radio = r
  BY DEF Request
<1>3. asked' = r
  BY DEF Connect
<1>4. NoneByName'
  <2>1. ASSUME NEW i \in 1..Len(toIo'), Connects(i)'
        PROVE  toIo'[i].radio \notin Local
    <3>1. CASE i = Len(toIo')
      BY <1>1, <1>2, <3>1
    <3>2. CASE i \in 1..Len(toIo)
      BY <1>1, <2>1, <3>2 DEF Connects, NoneByName
    <3>3. CASE i \in Len(toIo) + 1..Len(toIo') - 1
      BY <1>1, <2>1, <3>3 DEF Connects
    <3>4. QED
      BY <1>1, <3>1, <3>2, <3>3
  <2>2. QED
    BY <2>1 DEF NoneByName
<1>5. Len(toIo') \in 1..Len(toIo') /\ \A j \in 1..Len(toIo') : j <= Len(toIo')
  BY <1>1
<1>6. LastAsked(Len(toIo))'
  BY <1>1, <1>2, <1>3, <1>5 DEF LastAsked, Connects
<1>7. QED
  BY <1>4, <1>5, <1>6 DEF Latest

LEMMA DisconnectQueued ==
    ASSUME UiTypes, NoneByName, Latest, Disconnect, radio' = radio
    PROVE  NoneByName' /\ Latest'
<1>1. /\ Len(toIo) \in Nat /\ Len(toIo') = Len(toIo) + 1
      /\ \A i \in 1..Len(toIo) : toIo'[i] = toIo[i]
      /\ toIo'[Len(toIo')].name = "disconnect"
  BY DisconnectAppends
<1>2. asked' = asked
  BY DEF Disconnect
<1>3. ASSUME NEW i \in 1..Len(toIo'), Connects(i)'
      PROVE  i \in 1..Len(toIo) /\ Connects(i) /\ toIo'[i] = toIo[i]
  <2>1. i # Len(toIo')
    BY <1>1, <1>3 DEF Connects
  <2>2. i \in 1..Len(toIo)
    BY <1>1, <2>1
  <2>3. QED
    BY <1>1, <1>3, <2>2 DEF Connects
<1>4. NoneByName'
  BY <1>3 DEF NoneByName
<1>5. CASE radio = asked /\ \A i \in 1..Len(toIo) : ~Connects(i)
  <2>1. \A i \in 1..Len(toIo') : ~Connects(i)'
    BY <1>3, <1>5
  <2>2. QED
    BY <1>2, <1>4, <1>5, <2>1 DEF Latest
<1>6. ASSUME NEW i \in 1..Len(toIo), LastAsked(i)
      PROVE  Latest'
  <2>1. i \in 1..Len(toIo') /\ toIo'[i] = toIo[i]
    BY <1>1
  <2>2. \A j \in 1..Len(toIo') : Connects(j)' => j <= i
    BY <1>3, <1>6 DEF LastAsked
  <2>3. LastAsked(i)'
    BY <1>2, <1>6, <2>1, <2>2 DEF LastAsked, Connects
  <2>4. QED
    BY <2>1, <2>3 DEF Latest
<1>7. QED
  BY <1>4, <1>5, <1>6 DEF Latest

(* A socket that was told to close is live no more.                        *)
LEMMA ClosedIsNotLive ==
    ASSUME NEW s, SocketOK(s), NEW t \in AfterClose(s)
    PROVE  ~Live(t) /\ t.phase # "ready"
<1>1. CASE s.phase = "unconnected"
  BY <1>1 DEF AfterClose, Live
<1>2. CASE s.phase = "connecting"
  <2>1. t = [s EXCEPT !.pendingClose = TRUE]
    BY <1>2 DEF AfterClose
  <2>2. t.pendingClose = TRUE /\ t.phase = "connecting"
    BY <1>2, <2>1 DEF SocketOK, Sockets
  <2>3. QED
    BY <2>2 DEF Live
<1>3. CASE s.phase \notin {"unconnected", "connecting"}
  <2>1. t = Unconnected \/ t = [s EXCEPT !.phase = "closing"]
    BY <1>3 DEF AfterClose
  <2>2. t.phase \in {"unconnected", "closing"}
    BY <2>1 DEF SocketOK, Sockets, Unconnected
  <2>3. QED
    BY <2>2 DEF Live
<1>4. QED
  BY <1>1, <1>2, <1>3

(* A socket that comes up is live only if it was told of no close, and is  *)
(* still that of the same radio.                                           *)
LEMMA UpIsLive ==
    ASSUME NEW s, SocketOK(s), NEW p \in {"handshake", "ready"},
           NEW t, \/ t \in ClosedIfPending([s EXCEPT !.phase = p])
                  \/ p = "handshake" /\ t = [s EXCEPT !.phase = p],
           s.phase \in {"connecting", "handshake"}
    PROVE  /\ Live(t) => Live(s) /\ t.peer = s.peer /\ t.phase = p
           /\ t.phase = "ready" => ~t.pendingClose
<1> DEFINE up == [s EXCEPT !.phase = p]
<1>1. SocketOK(up) /\ up.phase = p /\ up.peer = s.peer /\ up.pendingClose = s.pendingClose
  <2>1. SocketOK(up)
    BY PhaseOK DEF Phases
  <2>2. QED
    BY <2>1 DEF SocketOK, Sockets
<1> HIDE DEF up
<1>2. CASE t = up /\ (p = "handshake" \/ ~s.pendingClose)
  BY <1>1, <1>2 DEF Live
<1>3. CASE s.pendingClose /\ t \in AfterClose([up EXCEPT !.pendingClose = FALSE])
  <2>1. SocketOK([up EXCEPT !.pendingClose = FALSE])
    BY <1>1, PendingOK
  <2>2. QED
    BY <1>3, <2>1, ClosedIsNotLive
<1>4. QED
  BY <1>1, <1>2, <1>3 DEF ClosedIfPending, up

(* An attempt uses a fresh socket of its own radio, or leaves the busy one *)
(* that is there.                                                          *)
LEMMA AttemptAddresses ==
    ASSUME toUi \in Seq(States), NEW s, NEW r \in Radios, NEW tls \in BOOLEAN,
           NEW before \in States, NEW running, ~Live(s),
           s.phase = "ready" => ~s.pendingClose,
           Attempt(s, r, tls, before, running)
    PROVE  /\ Live(socket') => socket'.peer = r /\ state' = "Connecting"
           /\ socket'.phase = "ready" => ~socket'.pendingClose
<1>1. CASE socket' = s
  BY <1>1
<1>2. CASE socket' = ConnectingTo(r, tls) /\ Goes(before, "Connecting", "Connecting")
  BY <1>2 DEF ConnectingTo, Goes
<1>3. QED
  BY <1>1, <1>2 DEF Attempt


(* Steps that leave alone who was asked for and taken.                     *)
LEMMA AddressedKeeps ==
    ASSUME Addressed, UNCHANGED <<byName, lookups, toIo, asked, radio>>,
           ReadyStays',
           Live(socket') => /\ Live(socket) /\ socket'.peer = socket.peer
                            /\ (state # "Disconnected" => state' # "Disconnected")
    PROVE  Addressed'
<1>1. (~byName)' => LiveIsAsked'
  BY DEF Addressed, LiveIsAsked
<1>2. (~byName)' => lookups' = {} /\ NoneByName' /\ Latest'
  BY DEF Addressed, NoneByName, Latest, LastAsked, Connects
<1>3. QED
  BY <1>1, <1>2 DEF Addressed

(* One step per action.                                                    *)
LEMMA AddressedStep ==
    ASSUME IInv, Addressed, [Next]_vars
    PROVE  Addressed'
<1>0. UiTypes /\ SocketOK(socket) /\ toUi \in Seq(States) /\ state \in States
      /\ "Connecting" \in States /\ "Disconnected" \in States
  BY DEF IInv, UiTypes, IoShape, Shape, States
<1>1. CASE ShowManager \/ OnStateChanged
  <2>1. UNCHANGED <<byName, lookups, toIo, asked, radio, socket, state>>
    BY <1>1 DEF ShowManager, OnStateChanged, io
  <2>2. ReadyStays'
    BY <2>1 DEF Addressed, ReadyStays
  <2>3. QED
    BY <2>1, <2>2, AddressedKeeps
<1>2. CASE Disconnect
  <2>1. UNCHANGED <<byName, lookups, asked, radio, socket, state>>
    BY <1>2 DEF Disconnect, io
  <2>2. ~byName => NoneByName' /\ Latest'
    BY <1>0, <1>2, <2>1, DisconnectQueued DEF Addressed
  <2>3. ReadyStays' /\ (~byName => LiveIsAsked')
    BY <2>1 DEF Addressed, ReadyStays, LiveIsAsked
  <2>4. QED
    BY <2>1, <2>2, <2>3 DEF Addressed
<1>3. ASSUME NEW r \in Radios, Connect(r) PROVE Addressed'
  <2>1. UNCHANGED <<lookups, radio, socket, state>> /\ byName' = (byName \/ r \in Local)
    BY <1>3 DEF Connect, io
  <2>2. ReadyStays' /\ (~byName => LiveIsAsked')
    BY <2>1 DEF Addressed, ReadyStays, LiveIsAsked
  <2>3. ASSUME ~byName' PROVE lookups' = {} /\ NoneByName' /\ Latest' /\ LiveIsAsked'
    <3>1. ~byName /\ r \in Radios \ Local
      BY <2>1, <2>3
    <3>2. NoneByName' /\ Latest'
      BY <1>0, <1>3, <3>1, QueuedIsLatest DEF Addressed
    <3>3. QED
      BY <2>1, <2>2, <3>1, <3>2 DEF Addressed
  <2>4. QED
    BY <2>2, <2>3 DEF Addressed
<1>4. ASSUME CloseConnection, UNCHANGED <<byName, lookups, radio, asked>>,
             ~byName => NoneByName' /\ Latest'
      PROVE  Addressed'
  <2>1. ~Live(socket') /\ socket'.phase # "ready"
    BY <1>0, <1>4, ClosedIsNotLive DEF CloseConnection
  <2>2. ReadyStays' /\ LiveIsAsked'
    BY <2>1 DEF ReadyStays, LiveIsAsked
  <2>3. QED
    BY <1>4, <2>2 DEF Addressed
<1>5. CASE TakeDisconnect
  <2>1. /\ Takes("disconnect") /\ CloseConnection
        /\ UNCHANGED <<byName, lookups, radio, asked>>
    BY <1>5 DEF TakeDisconnect, ui, io
  <2>2. ~byName => NoneByName' /\ Latest'
    BY <1>0, <2>1, DisconnectTaken DEF Addressed
  <2>3. QED
    BY <1>4, <2>1, <2>2
<1>6. CASE TakeConnect
  <2> DEFINE r == Head(toIo).radio
  <2>1. /\ Takes("connect") /\ radio' = r
        /\ UNCHANGED <<asked, byName>>
    BY <1>6 DEF TakeConnect, ui
  <2>2. PICK s \in FirstClosed :
             IF r \in Local
             THEN /\ lookups' = lookups \union {Head(toIo)}
                  /\ socket' = s
                  /\ timers' = Armed(r)
                  /\ Goes("Disconnected", "Connecting", "Connecting")
             ELSE /\ Attempt(s, r, r \in Encrypted, "Disconnected", Armed(r))
                  /\ UNCHANGED lookups
    BY <1>6 DEF TakeConnect
  <2>3. Head(toIo) \in Requests /\ Head(toIo).name = "connect"
    BY <1>0, <2>1, TakesType
  <2>4. r \in Radios /\ (r \in Encrypted) \in BOOLEAN
    BY <2>3 DEF Requests, ConnectRequests, DisconnectRequests
  <2>5. /\ s.phase = "ready" => ~s.pendingClose
        /\ ~byName => ~Live(s)
    <3>1. CASE state = "Disconnected"
      BY <2>2, <3>1 DEF FirstClosed, Addressed, ReadyStays, LiveIsAsked
    <3>2. CASE state # "Disconnected"
      BY <1>0, <2>2, <3>2, ClosedIsNotLive DEF FirstClosed
    <3>3. QED
      BY <3>1, <3>2
  <2>6. ReadyStays'
    <3>1. socket' = s \/ socket' = ConnectingTo(r, r \in Encrypted)
      BY <2>2 DEF Attempt
    <3>2. ConnectingTo(r, r \in Encrypted).phase = "connecting"
      BY DEF ConnectingTo
    <3>3. QED
      BY <2>5, <3>1, <3>2 DEF ReadyStays
  <2>7. ASSUME ~byName
        PROVE  lookups' = {} /\ NoneByName' /\ Latest' /\ LiveIsAsked'
    <3>1. NoneByName' /\ Latest' /\ r \notin Local
      BY <1>0, <2>1, <2>7, TakenIsLatest DEF Addressed
    <3>2. lookups' = {} /\ Attempt(s, r, r \in Encrypted, "Disconnected", Armed(r))
      BY <2>2, <2>7, <3>1 DEF Addressed
    <3>3. Live(socket') => socket'.peer = r /\ state' = "Connecting"
      BY <1>0, <2>4, <2>5, <2>7, <3>2, AttemptAddresses
    <3>4. LiveIsAsked'
      BY <2>1, <3>3 DEF LiveIsAsked
    <3>5. QED
      BY <3>1, <3>2, <3>4
  <2>8. QED
    BY <2>1, <2>6, <2>7 DEF Addressed
<1>7. ASSUME NEW l \in lookups, LookupAnswered(l) PROVE Addressed'
  <2>1. byName /\ byName' = byName
    BY <1>7 DEF Addressed, LookupAnswered, ui
  <2>2. socket' = socket \/ socket' = ConnectingTo(l.radio, radio \in Encrypted)
    BY <1>7 DEF LookupAnswered, Attempt
  <2>3. ConnectingTo(l.radio, radio \in Encrypted).phase = "connecting"
    BY DEF ConnectingTo
  <2>4. QED
    BY <2>1, <2>2, <2>3 DEF Addressed, ReadyStays
<1>8. CASE ConnectTimeout \/ AuthTimeout
  <2>1. UNCHANGED <<byName, lookups, toIo, asked, radio>>
    BY <1>8 DEF ConnectTimeout, AuthTimeout, Expires, ui, io
  <2>2. CloseConnection \/ UNCHANGED <<state, socket>>
    BY <1>8 DEF ConnectTimeout, AuthTimeout, Expires
  <2>3. CASE CloseConnection
    <3>1. ~byName => NoneByName' /\ Latest'
      BY <2>1 DEF Addressed, NoneByName, Latest, LastAsked, Connects
    <3>2. QED
      BY <1>4, <2>1, <2>3, <3>1
  <2>4. CASE UNCHANGED <<state, socket>>
    BY <2>1, <2>4, AddressedKeeps DEF Addressed, ReadyStays
  <2>5. QED
    BY <2>2, <2>3, <2>4
<1>9. ASSUME NEW b \in BOOLEAN, NEW t, Reached(b, t), NEW p \in {"handshake", "ready"},
             \/ t \in ClosedIfPending([socket EXCEPT !.phase = p])
             \/ p = "handshake" /\ t = [socket EXCEPT !.phase = p],
             socket.phase \in {"connecting", "handshake"}
      PROVE  Addressed'
  <2>1. UNCHANGED <<byName, lookups, toIo, asked, radio>> /\ socket' = t
    BY <1>9 DEF Reached, ui, io
  <2>2. /\ Live(t) => Live(socket) /\ t.peer = socket.peer /\ t.phase = p
        /\ t.phase = "ready" => ~t.pendingClose
    BY <1>0, <1>9, UpIsLive
  <2>3. t.phase = p => t # Unconnected
    BY DEF Unconnected
  <2>4. t # Unconnected => state' \in {"Authenticating", state}
    BY <1>9 DEF Reached, Goes
  <2>5. QED
    BY <2>1, <2>2, <2>3, <2>4, AddressedKeeps DEF ReadyStays
<1>10. CASE SocketConnected
  <2> DEFINE p == IF socket.tls THEN "handshake" ELSE "ready"
             up == [socket EXCEPT !.phase = p]
  <2>1. PICK t \in ClosedIfPending(up) \union (IF up.tls THEN {up} ELSE {}) :
            Reached(radio \notin Encrypted, t)
    BY <1>10 DEF SocketConnected
  <2>2. up.tls = socket.tls /\ socket.phase = "connecting"
    BY <1>0, <1>10 DEF SocketOK, Sockets, SocketConnected
  <2>3. t \in ClosedIfPending(up) \/ (p = "handshake" /\ t = up)
    BY <2>1, <2>2
  <2>4. p \in {"handshake", "ready"} /\ (radio \notin Encrypted) \in BOOLEAN
    OBVIOUS
  <2> HIDE DEF p
  <2>5. QED
    BY <1>9, <2>1, <2>2, <2>3, <2>4
<1>11. CASE SocketEncrypted
  <2>1. PICK t \in ClosedIfPending([socket EXCEPT !.phase = "ready"]) : Reached(TRUE, t)
    BY <1>11 DEF SocketEncrypted
  <2>2. socket.phase = "handshake"
    BY <1>11 DEF SocketEncrypted
  <2>3. QED
    BY <1>9, <2>1, <2>2
<1>12. CASE SendAuthenticationFails \/ SocketEnds
  <2>1. UNCHANGED <<byName, lookups, toIo, asked, radio>>
    BY <1>12 DEF SendAuthenticationFails, SocketEnds, ui, io
  <2>2. socket' = Unconnected \/ socket' = [socket EXCEPT !.phase = "closing"]
    BY <1>12 DEF SendAuthenticationFails, SocketEnds
  <2>3. socket'.phase \in {"unconnected", "closing"}
    BY <1>0, <2>2 DEF Unconnected, SocketOK, Sockets
  <2>4. ~Live(socket') /\ ReadyStays'
    BY <2>3 DEF Live, ReadyStays
  <2>5. QED
    BY <2>1, <2>4, AddressedKeeps
<1>13. CASE PacketReceived
  <2>1. UNCHANGED <<byName, lookups, toIo, asked, radio, socket>> /\ state' = "Connected"
    BY <1>13 DEF PacketReceived, Goes, ui
  <2>2. ReadyStays'
    BY <2>1 DEF Addressed, ReadyStays
  <2>3. QED
    BY <2>1, <2>2, AddressedKeeps
<1>14. CASE UNCHANGED vars
  <2>1. UNCHANGED <<byName, lookups, toIo, asked, radio, socket, state>>
    BY <1>14 DEF vars, ui, io
  <2>2. ReadyStays'
    BY <2>1 DEF Addressed, ReadyStays
  <2>3. QED
    BY <2>1, <2>2, AddressedKeeps
<1>15. QED
  BY <1>1, <1>2, <1>3, <1>5, <1>6, <1>7, <1>8, <1>10, <1>11, <1>12, <1>13, <1>14
     DEF Next, UiThread, IoThread

(* The radio connected is the one asked for last, however the requests,    *)
(* the answers of sockets told to close and the timers interleave, as long *)
(* as none was asked for by name.                                          *)
THEOREM ConnectedAsAddressed == Spec => []AddressedAsAsked
<1>1. Init => Addressed
  <2> SUFFICES ASSUME Init PROVE Addressed
    OBVIOUS
  <2>1. toIo = <<>> /\ Len(<<>>) = 0 /\ 1..0 = {}
    BY DEF Init
  <2>2. NoneByName /\ Latest
    BY <2>1 DEF Init, NoneByName, Latest
  <2>3. QED
    BY <2>2 DEF Init, Addressed, ReadyStays, LiveIsAsked, Live, Unconnected
<1>2. IInv /\ Addressed /\ [Next]_vars => Addressed'
  BY AddressedStep
<1>3. IInv /\ Addressed => AddressedAsAsked
  <2> SUFFICES ASSUME IInv, Addressed, state = "Connected", toIo = <<>>, ~byName
               PROVE  socket.peer = asked
    BY DEF AddressedAsAsked
  <2>1. socket.phase = "ready"
    BY DEF IInv, IoShape, Shape
  <2>2. socket.peer = radio
    BY <2>1 DEF Addressed, ReadyStays, LiveIsAsked, Live
  <2>3. Len(<<>>) = 0 /\ 1..0 = {}
    OBVIOUS
  <2>4. radio = asked
    BY <2>3 DEF Addressed, Latest
  <2>5. QED
    BY <2>2, <2>4
<1>4. QED
  BY <1>1, <1>2, <1>3, Inductive, PTL DEF Spec
=============================================================================

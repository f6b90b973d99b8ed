---------------------------- MODULE TcpConnection ----------------------------
(***************************************************************************)
(* The connection to the radio.  The UI thread (MainWindow, the radio      *)
(* manager) asks for connections and keeps a copy of their state that it   *)
(* sets ahead of the answer; the I/O thread (TcpClient) runs one socket,   *)
(* the connect, authentication and ping timers, and host lookups that it   *)
(* cannot call back.                                                       *)
(*                                                                         *)
(* The socket is external: PskTlsSocket over QSslSocket (Android) or over  *)
(* QTcpSocket and OpenSSL (iOS).  What the code meets of it: a socket told *)
(* to close while it connects still reports connected first, one with      *)
(* unsent data closes later, and a busy socket refuses to connect, with an *)
(* error or, for TLS on Android, silently.                                 *)
(***************************************************************************)
EXTENDS Naturals, Sequences

CONSTANTS
    Radios,     \* entries of the radio manager
    Local,      \* those whose host is a .local name
    Encrypted,  \* those that use TLS
    NoRadio,
    MaxTaps     \* bound: Connect and Disconnect taps that are carried out

ASSUME ConnectionAssumption ==
    /\ Local \subseteq Radios
    /\ Encrypted \subseteq Radios
    /\ NoRadio \notin Radios
    /\ MaxTaps \in Nat

VARIABLES
    uiState,        \* UI: MainWindow::m_connectionState
    asked,          \* UI: m_currentRadio
    byName,         \* history: a radio found by name was asked for
    shown,          \* UI: the radio manager is open
    managed,        \* UI: RadioManagerDialog::m_connectedHost
    taps,           \* bound
    toIo, toUi,     \* calls queued for each thread
    state,          \* shared: TcpClient::m_state
    radio,          \* I/O: the entry of the latest request
    authAnswered,   \* I/O: m_authResponseReceived
    timers,         \* I/O: the timers that run
    lookups,        \* I/O: host lookups under way, with the tap they serve
    socket          \* the socket

ui == <<uiState, asked, byName, shown, managed, taps>>
io == <<radio, authAnswered, lookups>>
vars == <<ui, toIo, toUi, state, io, timers, socket>>

States == {"Disconnected", "Connecting", "Authenticating", "Connected"}
Phases == {"unconnected", "connecting", "handshake", "ready", "closing"}
Timers == {"connect", "auth", "ping"}

(***************************************************************************)
(* The socket.                                                             *)
(***************************************************************************)
Unconnected ==
    [phase |-> "unconnected", peer |-> NoRadio, tls |-> FALSE, pendingClose |-> FALSE]
ConnectingTo(r, tls) ==
    [phase |-> "connecting", peer |-> r, tls |-> tls, pendingClose |-> FALSE]

(* QAbstractSocket::disconnectFromHost: closed at once, or once the data   *)
(* that is left was written; while connecting, when connected.             *)
AfterClose(s) ==
    CASE s.phase = "unconnected" -> {s}
      [] s.phase = "connecting"  -> {[s EXCEPT !.pendingClose = TRUE]}
      [] OTHER -> {Unconnected, [s EXCEPT !.phase = "closing"]}

(***************************************************************************)
(* UI thread.                                                              *)
(***************************************************************************)
Request(name, r) == [name |-> name, radio |-> r, tap |-> taps + 1]

(* showRadioManager; every tap below closes it again.                      *)
ShowManager ==
    /\ shown' = TRUE
    /\ managed' = IF state = "Connected" THEN asked ELSE NoRadio
    /\ UNCHANGED <<uiState, asked, byName, taps, toIo, toUi, state, io, timers,
                   socket>>

(* disconnectRequested: the manager offers it for the radio that was       *)
(* connected when it was shown.                                            *)
Disconnect ==
    /\ shown /\ managed # NoRadio
    /\ shown' = FALSE
    /\ taps < MaxTaps
    /\ taps' = taps + 1
    /\ toIo' = Append(toIo, Request("disconnect", NoRadio))
    /\ UNCHANGED <<uiState, asked, byName, managed, toUi, state, io, timers,
                   socket>>

(* connectToRadio, refused while the UI believes an attempt is under way.  *)
Connect(r) ==
    /\ shown /\ r # managed
    /\ shown' = FALSE
    /\ taps < MaxTaps
    /\ uiState \notin {"Connecting", "Authenticating"}
    /\ taps' = taps + 1
    /\ asked' = r
    /\ byName' = (byName \/ r \in Local)
    /\ uiState' = "Connecting"
    /\ toIo' = toIo
         \o (IF state = "Connected" THEN <<Request("disconnect", NoRadio)>> ELSE <<>>)
         \o <<Request("connect", r)>>
    /\ UNCHANGED <<managed, toUi, state, io, timers, socket>>

(* Mutation of OnStateChanged: the end of the old connection is not shown  *)
(* over the attempt just begun.                                            *)
OnStateChangedGuarded ==
    /\ toUi # <<>>
    /\ toUi' = Tail(toUi)
    /\ uiState' = IF uiState = "Connecting" /\ Head(toUi) = "Disconnected"
                  THEN uiState ELSE Head(toUi)
    /\ UNCHANGED <<asked, byName, shown, managed, taps, toIo, state, io, timers,
                   socket>>
OnStateChanged ==
    /\ toUi # <<>>
    /\ toUi' = Tail(toUi)
    /\ uiState' = Head(toUi)
    /\ UNCHANGED <<asked, byName, shown, managed, taps, toIo, state, io, timers,
                   socket>>

UiThread == ShowManager \/ Disconnect \/ OnStateChanged \/ \E r \in Radios : Connect(r)

(***************************************************************************)
(* I/O thread: states and attempts.                                        *)
(***************************************************************************)
Change(from, to) == IF from = to THEN <<>> ELSE <<to>>

(* A handler calls setState up to three times; each change is announced.   *)
Goes(a, b, c) ==
    /\ state' = c
    /\ toUi' = toUi \o Change(state, a) \o Change(a, b) \o Change(b, c)

(* disconnectFromHost *)
CloseConnection ==
    /\ socket' \in AfterClose(socket)
    /\ timers' = {}
    /\ Goes("Disconnected", "Disconnected", "Disconnected")

(* attemptConnection of socket s, after the state was set to before: the   *)
(* socket starts, or it is busy and says so (onSocketError), or it is busy *)
(* and does not, or there is no TLS library.                               *)
Attempt(s, peer, tls, before, running) ==
    \/ /\ s.phase = "unconnected"
       /\ socket' = ConnectingTo(peer, tls)
       /\ timers' = running
       /\ Goes(before, "Connecting", "Connecting")
    \/ /\ s.phase # "unconnected"
       /\ socket' = s
       /\ timers' = {}
       /\ Goes(before, "Connecting", "Disconnected")
    \/ /\ tls /\ s.phase \in {"connecting", "handshake", "ready"}
       /\ socket' = s
       /\ timers' = running
       /\ Goes(before, "Connecting", "Connecting")
    \/ /\ tls
       /\ socket' = s
       /\ timers' = running \ {"connect"}
       /\ Goes(before, "Connecting", "Disconnected")

(***************************************************************************)
(* I/O thread: calls, lookups and timers.                                  *)
(***************************************************************************)
Takes(name) == toIo # <<>> /\ Head(toIo).name = name /\ toIo' = Tail(toIo)

(* Mutation of FirstClosed: the connection there is is not closed first.   *)
FirstClosedNever == {socket}
FirstClosed == IF state = "Disconnected" THEN {socket} ELSE AfterClose(socket)

(* Mutation of Armed: the timer starts only once the host is known.        *)
ArmedUnlessLocal(r) ==
    IF r \in Local THEN {} ELSE {"connect"}
Armed(r) == (IF state = "Disconnected" THEN timers ELSE {}) \union {"connect"}

(* connectToHost *)
TakeConnect ==
    /\ Takes("connect")
    /\ LET r == Head(toIo).radio
       IN  /\ radio' = r
           /\ authAnswered' = FALSE
           /\ \E s \in FirstClosed :
                 IF r \in Local
                 THEN /\ lookups' = lookups \union {Head(toIo)}
                      /\ socket' = s
                      /\ timers' = Armed(r)
                      /\ Goes("Disconnected", "Connecting", "Connecting")
                 ELSE /\ Attempt(s, r, r \in Encrypted, "Disconnected", Armed(r))
                      /\ UNCHANGED lookups
    /\ UNCHANGED ui

TakeDisconnect ==
    /\ Takes("disconnect")
    /\ CloseConnection
    /\ UNCHANGED <<ui, io>>

(* The answer to a lookup.  Nothing tells it from that of a later attempt  *)
(* but the state.                                                          *)
LookupAnswered(l) ==
    /\ l \in lookups
    /\ lookups' = lookups \ {l}
    /\ \/ /\ state # "Connecting"
          /\ UNCHANGED <<state, toUi, timers, socket>>
       \/ /\ state = "Connecting"  \* not found
          /\ timers' = timers \ {"connect"}
          /\ Goes("Disconnected", "Disconnected", "Disconnected")
          /\ UNCHANGED socket
       \/ /\ state = "Connecting"
          /\ Attempt(socket, l.radio, radio \in Encrypted, "Connecting", timers)
    /\ UNCHANGED <<ui, toIo, radio, authAnswered>>

(* onConnectTimeout, onAuthTimeout *)
Expires(timer, awaited) ==
    /\ timer \in timers
    /\ IF awaited
       THEN CloseConnection
       ELSE /\ timers' = timers \ {timer}
            /\ UNCHANGED <<state, toUi, socket>>
    /\ UNCHANGED <<ui, toIo, io>>
ConnectTimeout == Expires("connect", state = "Connecting")
AuthTimeout == Expires("auth", state = "Authenticating" /\ ~authAnswered)

(***************************************************************************)
(* I/O thread: signals of the socket.                                      *)
(***************************************************************************)
Awaiting == (timers \ {"connect"}) \union {"auth"}

(* A slot ran, which may have begun the authentication; then the socket    *)
(* becomes s, and if that closes it, onSocketDisconnected ran as well.     *)
Reached(authenticating, s) ==
    LET now == IF authenticating THEN "Authenticating" ELSE state
        gone == s = Unconnected
    IN  /\ socket' = s
        /\ timers' = IF gone THEN {}
                     ELSE IF authenticating THEN Awaiting ELSE timers
        /\ Goes(now, IF gone THEN "Disconnected" ELSE now,
                     IF gone THEN "Disconnected" ELSE now)
        /\ UNCHANGED <<ui, toIo, io>>

ClosedIfPending(s) ==
    IF s.pendingClose THEN AfterClose([s EXCEPT !.pendingClose = FALSE]) ELSE {s}

(* onSocketConnected: without TLS the password is sent, whatever the state *)
(* was.  TLS on Android closes a socket only after the handshake.          *)
SocketConnected ==
    /\ socket.phase = "connecting"
    /\ LET up == [socket EXCEPT !.phase = IF socket.tls THEN "handshake" ELSE "ready"]
       IN  \E s \in ClosedIfPending(up) \union (IF up.tls THEN {up} ELSE {}) :
              Reached(radio \notin Encrypted, s)

(* Sending the password fails: the error is handled first, then the        *)
(* authentication timer is started all the same.                           *)
SendAuthenticationFails ==
    /\ socket.phase = "connecting"
    /\ radio \notin Encrypted
    /\ socket' = Unconnected
    /\ timers' = {"auth"}
    /\ Goes("Authenticating", "Disconnected", "Disconnected")
    /\ UNCHANGED <<ui, toIo, io>>

(* onSocketEncrypted *)
SocketEncrypted ==
    /\ socket.phase = "handshake"
    /\ \E s \in ClosedIfPending([socket EXCEPT !.phase = "ready"]) : Reached(TRUE, s)

(* The first packet shows that the radio accepted us.                      *)
PacketReceived ==
    /\ socket.phase = "ready"
    /\ state = "Authenticating" /\ ~authAnswered
    /\ authAnswered' = TRUE
    /\ timers' = (timers \ {"connect", "auth"}) \union {"ping"}
    /\ Goes("Connected", "Connected", "Connected")
    /\ UNCHANGED <<ui, toIo, radio, lookups, socket>>

(* Mutation of EndState: only an unfinished authentication counts.         *)
EndStateIfAuthenticating ==
    IF state = "Authenticating" THEN "Disconnected" ELSE state
EndState == "Disconnected"

(* onSocketError, onSocketDisconnected: refused, unreachable, closed by    *)
(* the radio, or closed at last; a handshake that failed closes later.     *)
SocketEnds ==
    /\ socket.phase # "unconnected"
    /\ socket' \in {Unconnected} \union
          (IF socket.phase = "handshake" THEN {[socket EXCEPT !.phase = "closing"]}
                                         ELSE {})
    /\ timers' = {}
    /\ Goes(EndState, EndState, EndState)
    /\ UNCHANGED <<ui, toIo, io>>

IoThread ==
    \/ TakeConnect \/ TakeDisconnect
    \/ \E l \in lookups : LookupAnswered(l)
    \/ ConnectTimeout \/ AuthTimeout
    \/ SocketConnected \/ SendAuthenticationFails \/ SocketEncrypted
    \/ PacketReceived \/ SocketEnds

-----------------------------------------------------------------------------
Init ==
    /\ uiState = "Disconnected" /\ asked = NoRadio /\ byName = FALSE
    /\ shown = FALSE /\ managed = NoRadio
    /\ taps = 0
    /\ toIo = <<>> /\ toUi = <<>>
    /\ state = "Disconnected" /\ radio = NoRadio /\ authAnswered = FALSE
    /\ timers = {} /\ lookups = {}
    /\ socket = Unconnected

Next == UiThread \/ IoThread

Spec == Init /\ [][Next]_vars

(* The event loops take what is queued and the timers expire.  Nothing     *)
(* obliges the network, the resolver or the radio to answer.               *)
FairSpec ==
    /\ Spec
    /\ WF_vars(OnStateChanged)
    /\ WF_vars(TakeConnect \/ TakeDisconnect)
    /\ WF_vars(ConnectTimeout) /\ WF_vars(AuthTimeout)

-----------------------------------------------------------------------------
RadioOrNone == Radios \union {NoRadio}
ConnectRequests == [name : {"connect"}, radio : Radios, tap : 1..MaxTaps]
DisconnectRequests ==
    [name : {"disconnect"}, radio : {NoRadio}, tap : 1..MaxTaps]
Requests == ConnectRequests \union DisconnectRequests
Sockets ==
    [phase : Phases, peer : RadioOrNone, tls : BOOLEAN, pendingClose : BOOLEAN]

TypeOK ==
    /\ uiState \in States /\ state \in States
    /\ asked \in RadioOrNone /\ managed \in RadioOrNone /\ radio \in RadioOrNone
    /\ shown \in BOOLEAN /\ taps \in 0..MaxTaps /\ byName \in BOOLEAN
    /\ toIo \in Seq(Requests)
    /\ toUi \in Seq(States)
    /\ authAnswered \in BOOLEAN
    /\ timers \subseteq Timers
    /\ lookups \subseteq ConnectRequests
    /\ socket \in Sockets
    /\ socket.phase = "unconnected" <=> socket.peer = NoRadio

(* Whatever the socket, the resolver and the timers of earlier attempts    *)
(* do, the state that waits for an answer has the timer that ends it, and  *)
(* the keep-alive runs exactly while connected.                            *)
TimersMatch ==
    /\ state = "Connecting" => "connect" \in timers
    /\ state = "Authenticating" => "auth" \in timers /\ ~authAnswered
    /\ state = "Connected" <=> "ping" \in timers

(* Connected means an open socket over which the radio of this attempt has *)
(* answered: no packet, timeout or error of an earlier one leads there.    *)
ConnectedIsLive ==
    state = "Connected" => socket.phase = "ready" /\ authAnswered

(* The state the UI sets ahead of the answer, and the changes it is told   *)
(* of late, do not leave it with another state than TcpClient's.           *)
UiAgrees == toIo = <<>> /\ toUi = <<>> => uiState = state

(* Once every request was taken, the radio connected is the one asked for, *)
(* as long as every radio asked for was given by its address.              *)
AddressedAsAsked ==
    state = "Connected" /\ toIo = <<>> /\ ~byName => socket.peer = asked

(* The same for every radio: not so once one is found by name, whose       *)
(* lookup may answer after another was asked for.                          *)
ConnectedAsAsked ==
    state = "Connected" /\ toIo = <<>> => socket.peer = asked

(* The UI does not show an attempt forever, though nothing answers.        *)
Settles ==
    uiState \in {"Connecting", "Authenticating"}
        ~> uiState \in {"Connected", "Disconnected"}
=============================================================================

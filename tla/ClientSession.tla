---------------------------- MODULE ClientSession ----------------------------
(***************************************************************************)
(* The client end of a Traintastic session (client/src/network/client.cpp) *)
(* together with the TCP connection and the server session it talks to.   *)
(*                                                                         *)
(* Client state (one Qt thread, so every handler is one atomic step):     *)
(*   state        m_state                                                  *)
(*   callbacks    m_requestCallback: request id -> pending callback        *)
(*   objects      m_objects: handle -> mirror (index into mirrors)         *)
(*   tableModels  m_tableModels: handle -> mirror                          *)
(*   mirrors      the Object / TableModel instances readObject and         *)
(*                readTableModel created; value is the one property (or    *)
(*                the row count) the model keeps of them                   *)
(*   readBuffer   m_readBuffer: the units of the frame read so far         *)
(* The socket, the byte stream from the server (wire, in read units) and  *)
(* the server's session (handle leases, object values) are the            *)
(* environment, modelled from the session description of the spec, as    *)
(* the server code is not part of the repository.                         *)
(***************************************************************************)
EXTENDS Integers, Sequences, FiniteSets, TLC

CONSTANTS
    ObjectIds,    \* object ids the server resolves with GetObject
    TableIds,     \* object ids the server resolves with GetTableModel
    UnknownIds,   \* ids the server does not know: an UnknownObject error
    Values,       \* property values and row counts
    None,         \* model value: absent object id or value
    HeaderUnits,  \* the 8 byte frame header, in units the socket may split
    MaxConnects,  \* bound on connectToHost calls that open a socket
    MaxRequests,  \* bound on getObject, getTableModel and setProperty calls
    MaxChanges,   \* bound on changes of server-side values
    PropertyType  \* object id -> type of the property its mirror shows

ASSUME HeaderUnits \in Nat \ {0}
ASSUME PropertyType \in [ObjectIds -> {"Boolean", "Integer", "Float", "String"}]
ASSUME MaxConnects \in Nat /\ MaxRequests \in Nat /\ MaxChanges \in Nat

VARIABLES
    state, callbacks, nextRequestId, objects, tableModels, mirrors,
    readBuffer, crashed, garbled, requests,
    socket, conn, toServer, wire,
    srvSession, leased, nextHandle, world, seen, changes

clientVars == <<state, callbacks, nextRequestId, objects, tableModels,
                mirrors, readBuffer, crashed, garbled, requests>>
netVars == <<socket, conn, toServer, wire>>
serverVars == <<srvSession, leased, nextHandle, world, seen, changes>>
vars == <<clientVars, netVars, serverVars>>

States == {"Disconnected", "Connecting", "Connected", "Disconnecting",
           "SocketError", "ErrorAuthenticationFailed", "ErrorNewSessionFailed"}

\* Client::isDisconnected
IsDisconnected == state \notin {"Connected", "Connecting", "Disconnecting"}

Kinds == {"object", "table"}
ServerIds == ObjectIds \cup TableIds
IdsOf == [object |-> ObjectIds, table |-> TableIds]
KindOf(o) == IF o \in ObjectIds THEN "object" ELSE "table"
GetCmd == [object |-> "GetObject", table |-> "GetTableModel"]
ReleaseCmd == [object |-> "ReleaseObject", table |-> "ReleaseTableModel"]
EventCmd == [object |-> "ObjectPropertyChanged",
             table |-> "TableModelRowCountChanged"]

InvalidHandle == 0
Handles == 1..MaxRequests
RequestIds == 0..65535

EmptyMap == [x \in {} |-> 0]
Erase(f, x) == [y \in DOMAIN f \ {x} |-> f[y]]

(* Client -> server frames: the requests and the events (release, a     *)
(* property write, a table region).                                       *)
Request(cmd, id, obj) ==
    [cmd |-> cmd, id |-> id, obj |-> obj, handle |-> InvalidHandle, value |-> None]
ClientEvent(cmd, h, v) == [cmd |-> cmd, id |-> 0, obj |-> None, handle |-> h, value |-> v]
ClientFrames ==
    [cmd: {"Login", "NewSession"}, id: RequestIds, obj: {None},
     handle: {InvalidHandle}, value: {None}]
    \cup [cmd: {GetCmd[k] : k \in Kinds}, id: RequestIds,
          obj: ServerIds \cup UnknownIds, handle: {InvalidHandle}, value: {None}]
    \cup [cmd: {ReleaseCmd[k] : k \in Kinds} \cup {"TableModelSetRegion"}, id: {0},
          obj: {None}, handle: Handles, value: {None}]
    \cup [cmd: {"ObjectSetProperty"}, id: {0}, obj: ServerIds, handle: Handles, value: Values]

(* Server -> client frames.  obj is a ghost field: the object the frame    *)
(* is about, which the wire format only names through the handle.         *)
Response(f, err, h, v) ==
    [type |-> "response", cmd |-> f.cmd, id |-> f.id, error |-> err,
     handle |-> h, value |-> v, obj |-> f.obj]
Event(o, h, v) ==
    [type |-> "event", cmd |-> EventCmd[KindOf(o)], id |-> 0, error |-> FALSE,
     handle |-> h, value |-> v, obj |-> o]
ServerFrames ==
    [type: {"response"}, cmd: {"Login", "NewSession", "GetObject", "GetTableModel"},
     id: RequestIds, error: BOOLEAN, handle: {InvalidHandle} \cup Handles,
     value: Values \cup {None}, obj: ServerIds \cup UnknownIds \cup {None}]
    \cup [type: {"event"}, cmd: {EventCmd[k] : k \in Kinds}, id: {0},
          error: {FALSE}, handle: Handles, value: Values, obj: ServerIds]

(* Payload size of a frame, in read units: the successful Login response  *)
(* carries nothing (header.dataSize = 0), every other frame a payload.    *)
DataUnits(f) == IF f.type = "response" /\ f.cmd = "Login" /\ ~f.error THEN 0 ELSE 1

(* The units of a frame as they travel on connection c. *)
Units(c, f) == [k \in 1..HeaderUnits + DataUnits(f) |-> [conn |-> c, frame |-> f, part |-> k]]
WireUnits == [conn: 1..MaxConnects, frame: ServerFrames, part: 1..HeaderUnits + 1]

(***************************************************************************)
(* Client::socketReadyRead, one unit at a time.  The header is complete   *)
(* after HeaderUnits units; its dataSize field is its last bytes, so the  *)
(* payload length is read from the unit that completes the header.  A     *)
(* frame is complete when the payload that header announces is read too  *)
(* (at once when dataSize is 0), and m_readBuffer is then emptied.        *)
(***************************************************************************)
FrameComplete(parts) ==
    /\ Len(parts) >= HeaderUnits
    /\ Len(parts) = HeaderUnits + DataUnits(parts[HeaderUnits].frame)

ReadUnit(buf, u) ==
    LET parts == Append(buf, u)
    IN IF FrameComplete(parts) THEN [buf |-> <<>>, done |-> <<parts>>]
                               ELSE [buf |-> parts, done |-> <<>>]

RECURSIVE ReadLoop(_, _)
ReadLoop(buf, chunk) ==
    IF chunk = <<>> THEN [buf |-> buf, done |-> <<>>]
    ELSE LET s == ReadUnit(buf, Head(chunk))
             r == ReadLoop(s.buf, Tail(chunk))
         IN [buf |-> r.buf, done |-> s.done \o r.done]

(* The units of one frame: all from one connection, in order. *)
Intact(parts) == \A i \in DOMAIN parts : parts[i].conn = parts[1].conn /\ parts[i].part = i

(***************************************************************************)
(* Client-side helpers.                                                    *)
(***************************************************************************)
\* QTcpSocket::write: buffered while connecting or connected, lost otherwise.
Write(f) == toServer' = IF socket \in {"connecting", "open"} THEN Append(toServer, f)
                                                           ELSE toServer

MapOf(k) == IF k = "object" THEN objects ELSE tableModels
SetMap(k, m) == IF k = "object" THEN objects' = m /\ UNCHANGED tableModels
                                ELSE tableModels' = m /\ UNCHANGED objects

\* Client::send(message, callback) of a Message::newRequest: the request id
\* is a 16-bit counter; the callback is stored under it (a present entry is
\* overwritten, as Q_ASSERT is compiled out of release builds).
SendRequest(cmd, obj, cbs) ==
    /\ callbacks' = (nextRequestId :> [cmd |-> cmd, obj |-> obj, conn |-> conn]) @@ cbs
    /\ nextRequestId' = (nextRequestId + 1) % 65536
    /\ Write(Request(cmd, nextRequestId, obj))

\* QAbstractSocket::disconnectFromHost on a connected socket.
CloseSocket == socket' = IF socket = "open" THEN "closing" ELSE socket

(***************************************************************************)
(* The response callbacks.  rest is m_requestCallback without the entry   *)
(* being run: processMessage erases it after the call returns.            *)
(***************************************************************************)
\* The Login callback of socketConnected.
LoginCallback(f, rest) ==
    \/ /\ ~f.error
       /\ SendRequest("NewSession", None, rest)
       /\ UNCHANGED <<state, socket, objects, tableModels, mirrors, crashed>>
    \/ /\ f.error
       /\ state' = "ErrorAuthenticationFailed"
       /\ CloseSocket
       /\ callbacks' = rest
       /\ UNCHANGED <<nextRequestId, toServer, objects, tableModels, mirrors, crashed>>

\* Mutant: the refused NewSession does not close the socket.
NewSessionCallbackKeepsSocket(f, rest) ==
    /\ callbacks' = rest
    /\ \/ ~f.error /\ state' = "Connected" /\ UNCHANGED socket
       \/ f.error /\ state' = "ErrorNewSessionFailed" /\ UNCHANGED socket
    /\ UNCHANGED <<nextRequestId, toServer, objects, tableModels, mirrors, crashed>>

\* The NewSession callback nested in it.
NewSessionCallback(f, rest) ==
    /\ callbacks' = rest
    /\ \/ ~f.error /\ state' = "Connected" /\ UNCHANGED socket
       \/ f.error /\ state' = "ErrorNewSessionFailed" /\ CloseSocket
    /\ UNCHANGED <<nextRequestId, toServer, objects, tableModels, mirrors, crashed>>

\* Client::readObject / Client::readTableModel: always a new instance for the
\* handle of the response (the lookup by handle is a placeholder that never
\* finds one); of its items the model keeps the value of one property, or
\* the row count.
NewMirror(k, f) ==
    [kind |-> k, obj |-> f.obj, handle |-> f.handle, value |-> f.value, conn |-> conn]

\* The callback of getObject (k = "object") or getTableModel (k = "table"):
\* on an error response the pointer stays null and m_objects[object->handle()]
\* dereferences it, which crashes the client; otherwise readObject /
\* readTableModel builds a new mirror (no lookup by handle) and the map
\* entry for its handle is set to it.
GetCallback(k, f, rest) ==
    /\ callbacks' = rest
    /\ \/ /\ f.error
          /\ crashed' = TRUE
          /\ UNCHANGED <<objects, tableModels, mirrors>>
       \/ /\ ~f.error
          /\ mirrors' = Append(mirrors, NewMirror(k, f))
          /\ SetMap(k, (f.handle :> Len(mirrors) + 1) @@ MapOf(k))
          /\ UNCHANGED crashed
    /\ UNCHANGED <<state, socket, nextRequestId, toServer>>

processVars == <<callbacks, nextRequestId, toServer, state, socket, objects,
                 tableModels, mirrors, crashed>>

\* Whether an ObjectPropertyChanged event changes the mirror: processMessage
\* only handles PropertyType::Boolean; the other types fall through.
Applied(f) == f.cmd = EventCmd.table \/ PropertyType[f.obj] = "Boolean"

\* Client::processMessage for an intact frame f.
ProcessMessage(f) ==
    \/ /\ f.type = "response"
       /\ f.id \in DOMAIN callbacks
       /\ LET cb == callbacks[f.id]
              rest == Erase(callbacks, f.id)
          IN CASE cb.cmd = "Login" -> LoginCallback(f, rest)
               [] cb.cmd = "NewSession" -> NewSessionCallback(f, rest)
               [] OTHER -> GetCallback(IF cb.cmd = GetCmd.object THEN "object" ELSE "table", f, rest)
    \/ /\ f.type = "response"
       /\ f.id \notin DOMAIN callbacks
       /\ UNCHANGED processVars
    \/ /\ f.type = "event"
       /\ LET map == MapOf(IF f.cmd = EventCmd.object THEN "object" ELSE "table")
          IN mirrors' = IF f.handle \in DOMAIN map /\ Applied(f)
                        THEN [mirrors EXCEPT ![map[f.handle]].value = f.value]
                        ELSE mirrors
       /\ UNCHANGED <<callbacks, nextRequestId, toServer, state, socket, objects,
                      tableModels, crashed>>

(***************************************************************************)
(* Client operations.                                                      *)
(***************************************************************************)
\* Client::socketReadyRead: the bytes available are read in a loop and every
\* completed frame is processed.  The units that arrive in one readyRead are
\* a prefix of the wire ending anywhere, restricted to prefixes completing
\* at most one frame (any other split reaches the same states in more steps).
ReadyRead ==
    /\ socket \in {"open", "closing"}
    /\ ~garbled
    /\ wire # <<>>
    /\ \E n \in 1..Len(wire) :
         LET r == ReadLoop(readBuffer, SubSeq(wire, 1, n))
         IN /\ Len(r.done) <= 1
            /\ wire' = SubSeq(wire, n + 1, Len(wire))
            /\ readBuffer' = r.buf
            /\ IF r.done = <<>> THEN UNCHANGED <<processVars, garbled>>
               ELSE IF Intact(r.done[1]) THEN ProcessMessage(r.done[1][1].frame) /\ UNCHANGED garbled
               \* a frame spliced from two connections is not interpreted
               ELSE garbled' = TRUE /\ UNCHANGED processVars
    /\ UNCHANGED <<requests, conn, serverVars>>

\* Client::connectToHost, called by the connect dialog while disconnected.
\* QAbstractSocket ignores it unless the socket is unconnected.
ConnectToHost ==
    /\ IsDisconnected
    /\ state' = "Connecting"
    /\ \/ socket = "closed" /\ conn < MaxConnects /\ socket' = "connecting" /\ conn' = conn + 1
       \/ socket # "closed" /\ UNCHANGED <<socket, conn>>
    /\ UNCHANGED <<callbacks, nextRequestId, objects, tableModels, mirrors, readBuffer,
                   crashed, garbled, requests, toServer, wire, serverVars>>

\* Client::disconnectFromHost
DisconnectFromHost ==
    /\ socket = "open"
    /\ socket' = "closing"
    /\ UNCHANGED <<clientVars, conn, toServer, wire, serverVars>>

\* Client::getObject (k = "object") and Client::getTableModel (k = "table").
GetObject(k, o) ==
    /\ state = "Connected"
    /\ requests < MaxRequests
    /\ SendRequest(GetCmd[k], o, callbacks)
    /\ requests' = requests + 1
    /\ UNCHANGED <<state, objects, tableModels, mirrors, readBuffer, crashed, garbled,
                   socket, conn, wire, serverVars>>

\* Client::cancelRequest of a request getObject / getTableModel returned.
CancelRequest(id) ==
    /\ callbacks[id].cmd \in {GetCmd[k] : k \in Kinds}
    /\ callbacks' = Erase(callbacks, id)
    /\ UNCHANGED <<state, nextRequestId, objects, tableModels, mirrors, readBuffer,
                   crashed, garbled, requests, netVars, serverVars>>

\* Mutant: the handle is invalidated before it is removed and sent.
ReleaseObjectInvalidateFirst(i) ==
    LET m == mirrors[i]
    IN /\ m.handle # InvalidHandle
       /\ SetMap(m.kind, Erase(MapOf(m.kind), InvalidHandle))
       /\ Write(ClientEvent(ReleaseCmd[m.kind], InvalidHandle, None))
       /\ mirrors' = [mirrors EXCEPT ![i].handle = InvalidHandle]
       /\ UNCHANGED <<state, callbacks, nextRequestId, readBuffer, crashed, garbled,
                      requests, socket, conn, wire, serverVars>>

\* Mutant: the map entry is left in place.
ReleaseObjectKeepsEntry(i) ==
    LET m == mirrors[i]
    IN /\ m.handle # InvalidHandle
       /\ Write(ClientEvent(ReleaseCmd[m.kind], m.handle, None))
       /\ mirrors' = [mirrors EXCEPT ![i].handle = InvalidHandle]
       /\ UNCHANGED <<state, callbacks, nextRequestId, objects, tableModels, readBuffer,
                      crashed, garbled, requests, socket, conn, wire, serverVars>>

\* Client::releaseObject / Client::releaseTableModel of mirror i: the map
\* entry for its handle is removed, whichever mirror it names.
ReleaseObject(i) ==
    LET m == mirrors[i]
    IN /\ m.handle # InvalidHandle
       /\ SetMap(m.kind, Erase(MapOf(m.kind), m.handle))
       /\ Write(ClientEvent(ReleaseCmd[m.kind], m.handle, None))
       /\ mirrors' = [mirrors EXCEPT ![i].handle = InvalidHandle]
       /\ UNCHANGED <<state, callbacks, nextRequestId, readBuffer, crashed, garbled,
                      requests, socket, conn, wire, serverVars>>

\* Client::setPropertyBool / setPropertyInt64 / setPropertyDouble /
\* setPropertyString on mirror i: an ObjectSetProperty event for the handle
\* the mirror holds.  The mirror itself changes only when the server's
\* ObjectPropertyChanged comes back.  The application edits only the
\* objects it holds (a released mirror is destroyed by its owner), hence
\* the guard on the handle.  The frame's obj field records the
\* object the mirror stands for; it is not serialised (the wire carries the
\* handle only) and the server never reads it.
SetProperty(i, v) ==
    /\ mirrors[i].kind = "object"
    /\ mirrors[i].handle # InvalidHandle
    /\ requests < MaxRequests
    /\ Write([ClientEvent("ObjectSetProperty", mirrors[i].handle, v)
                 EXCEPT !.obj = mirrors[i].obj])
    /\ requests' = requests + 1
    /\ UNCHANGED <<state, callbacks, nextRequestId, objects, tableModels, mirrors,
                   readBuffer, crashed, garbled, socket, conn, wire, serverVars>>

\* Client::setTableModelRegion on a held table mirror i; the cells it
\* selects are not modelled.
SetTableModelRegion(i) ==
    /\ mirrors[i].kind = "table"
    /\ mirrors[i].handle # InvalidHandle
    /\ requests < MaxRequests
    /\ Write(ClientEvent("TableModelSetRegion", mirrors[i].handle, None))
    /\ requests' = requests + 1
    /\ UNCHANGED <<state, callbacks, nextRequestId, objects, tableModels, mirrors,
                   readBuffer, crashed, garbled, socket, conn, wire, serverVars>>

(***************************************************************************)
(* The socket and the server session (environment).                       *)
(***************************************************************************)
\* The connection is established; Client::socketConnected sends Login.
SocketConnected ==
    /\ socket = "connecting"
    /\ socket' = "open"
    /\ srvSession' = "login"
    /\ SendRequest("Login", None, callbacks)
    /\ UNCHANGED <<state, objects, tableModels, mirrors, readBuffer, crashed, garbled,
                   requests, conn, wire, leased, nextHandle, world, seen, changes>>

\* The connection attempt fails: Client::socketError.
SocketConnectFailed ==
    /\ socket = "connecting"
    /\ socket' = "closed"
    /\ state' = "SocketError"
    /\ toServer' = <<>>
    /\ UNCHANGED <<callbacks, nextRequestId, objects, tableModels, mirrors, readBuffer,
                   crashed, garbled, requests, conn, wire, serverVars>>

\* The connection ends (closed by either side, or lost; a socket error on an
\* open socket is followed by the disconnected signal): Client::
\* socketDisconnected sets the state and nothing else.  Bytes in flight are
\* lost and the server session ends.
SocketDisconnected ==
    /\ socket \in {"open", "closing"}
    /\ socket' = "closed"
    /\ state' = "Disconnected"
    /\ toServer' = <<>>
    /\ wire' = <<>>
    /\ srvSession' = "none"
    /\ leased' = [o \in ServerIds |-> InvalidHandle]
    /\ nextHandle' = 1
    /\ UNCHANGED <<callbacks, nextRequestId, objects, tableModels, mirrors, readBuffer,
                   crashed, garbled, requests, conn, world, seen, changes>>

Reply(r) == wire' = wire \o Units(conn, r)

\* The server handles the next frame of the connection.  Login and
\* NewSession may be refused; an object id is leased once per session (a
\* second request returns the same handle); handles are fresh within a
\* session and restart with each session; a property write through a
\* leased handle changes the object and is echoed to the session only if
\* the value differs (law 4 of the spec).
ServerReceive ==
    /\ socket = "open"
    /\ toServer # <<>>
    /\ toServer' = Tail(toServer)
    /\ LET f == Head(toServer)
       IN \/ /\ f.cmd \in {"Login", "NewSession"}
             /\ \E ok \in BOOLEAN :
                  /\ Reply(Response(f, ~ok, InvalidHandle, None))
                  /\ srvSession' = IF ~ok THEN srvSession
                                   ELSE IF f.cmd = "Login" THEN "auth" ELSE "session"
             /\ UNCHANGED <<leased, nextHandle, world, seen>>
          \/ /\ f.cmd \in {GetCmd[k] : k \in Kinds}
             /\ f.obj \notin IdsOf[IF f.cmd = GetCmd.object THEN "object" ELSE "table"]
             /\ Reply(Response(f, TRUE, InvalidHandle, None))
             /\ UNCHANGED <<srvSession, leased, nextHandle, world, seen>>
          \/ /\ f.cmd \in {GetCmd[k] : k \in Kinds}
             /\ f.obj \in IdsOf[IF f.cmd = GetCmd.object THEN "object" ELSE "table"]
             /\ LET h == IF leased[f.obj] # InvalidHandle THEN leased[f.obj] ELSE nextHandle
                IN /\ Reply(Response(f, FALSE, h, world[f.obj]))
                   /\ leased' = [leased EXCEPT ![f.obj] = h]
                   /\ nextHandle' = IF h = nextHandle THEN nextHandle + 1 ELSE nextHandle
             /\ UNCHANGED <<srvSession, world, seen>>
          \/ /\ f.cmd \in {ReleaseCmd[k] : k \in Kinds}
             /\ leased' = [o \in ServerIds |-> IF leased[o] = f.handle THEN InvalidHandle
                                                                     ELSE leased[o]]
             /\ UNCHANGED <<wire, srvSession, nextHandle, world, seen>>
          \/ /\ f.cmd = "TableModelSetRegion"
             /\ UNCHANGED <<wire, srvSession, leased, nextHandle, world, seen>>
          \/ /\ f.cmd = "ObjectSetProperty"
             /\ LET target == {o \in ObjectIds : leased[o] = f.handle}
                IN IF \E o \in target : world[o] # f.value
                   THEN \E o \in target :
                          /\ world' = [world EXCEPT ![o] = f.value]
                          /\ seen' = [seen EXCEPT ![o] = @ \cup {f.value}]
                          /\ Reply(Event(o, f.handle, f.value))
                   \* an unknown handle is dropped, an unchanged value not echoed
                   ELSE UNCHANGED <<wire, world, seen>>
             /\ UNCHANGED <<srvSession, leased, nextHandle>>
    /\ UNCHANGED <<clientVars, socket, conn, changes>>

\* A server-side object changes value (another client, a kernel callback);
\* the session pushes the change for a leased handle.
ServerChange(o, v) ==
    /\ changes < MaxChanges
    /\ v # world[o]
    /\ world' = [world EXCEPT ![o] = v]
    /\ seen' = [seen EXCEPT ![o] = @ \cup {v}]
    /\ changes' = changes + 1
    /\ wire' = IF socket = "open" /\ srvSession = "session" /\ leased[o] # InvalidHandle
               THEN wire \o Units(conn, Event(o, leased[o], v))
               ELSE wire
    /\ UNCHANGED <<clientVars, socket, conn, toServer, srvSession, leased, nextHandle>>

(***************************************************************************)
(* Specification.  A crashed client takes no further steps.               *)
(***************************************************************************)
Init ==
    /\ state = "Disconnected"
    /\ callbacks = EmptyMap
    /\ nextRequestId = 0
    /\ objects = EmptyMap
    /\ tableModels = EmptyMap
    /\ mirrors = <<>>
    /\ readBuffer = <<>>
    /\ crashed = FALSE
    /\ garbled = FALSE
    /\ requests = 0
    /\ socket = "closed"
    /\ conn = 0
    /\ toServer = <<>>
    /\ wire = <<>>
    /\ srvSession = "none"
    /\ leased = [o \in ServerIds |-> InvalidHandle]
    /\ nextHandle = 1
    /\ world \in [ServerIds -> Values]
    /\ seen = [o \in ServerIds |-> {world[o]}]
    /\ changes = 0

Client ==
    \/ ReadyRead
    \/ ConnectToHost
    \/ DisconnectFromHost
    \/ \E k \in Kinds, o \in ServerIds \cup UnknownIds : GetObject(k, o)
    \/ \E id \in DOMAIN callbacks : CancelRequest(id)
    \/ \E i \in DOMAIN mirrors : ReleaseObject(i)
    \/ \E i \in DOMAIN mirrors, v \in Values : SetProperty(i, v)
    \/ \E i \in DOMAIN mirrors : SetTableModelRegion(i)

Environment ==
    \/ SocketConnected
    \/ SocketConnectFailed
    \/ SocketDisconnected
    \/ ServerReceive
    \/ \E o \in ServerIds, v \in Values : ServerChange(o, v)

Next == ~crashed /\ (Client \/ Environment)

Spec == Init /\ [][Next]_vars

(***************************************************************************)
(* Properties.                                                             *)
(***************************************************************************)
TypeOK ==
    /\ state \in States
    /\ DOMAIN callbacks \subseteq RequestIds
    /\ \A id \in DOMAIN callbacks :
         callbacks[id] \in [cmd: {"Login", "NewSession", "GetObject", "GetTableModel"},
                            obj: ServerIds \cup UnknownIds \cup {None}, conn: 1..MaxConnects]
    /\ nextRequestId \in RequestIds
    /\ \A k \in Kinds : DOMAIN MapOf(k) \subseteq Handles /\ \A h \in DOMAIN MapOf(k) : MapOf(k)[h] \in DOMAIN mirrors
    /\ mirrors \in Seq([kind: Kinds, obj: ServerIds, handle: {InvalidHandle} \cup Handles,
                        value: Values, conn: 1..MaxConnects])
    /\ readBuffer \in Seq(WireUnits)
    /\ socket \in {"closed", "connecting", "open", "closing"}
    /\ toServer \in Seq(ClientFrames)
    /\ wire \in Seq(WireUnits)
    /\ srvSession \in {"none", "login", "auth", "session"}
    /\ leased \in [ServerIds -> {InvalidHandle} \cup Handles]
    /\ world \in [ServerIds -> Values]

\* Nothing is in flight between the client and the server.
Quiescent == toServer = <<>> /\ wire = <<>> /\ readBuffer = <<>>

\* The mirror model (processMessage, readObject, releaseObject): once nothing
\* is in flight, every mirror the client obtained on the current connection
\* and has not released shows its server object's current value.
HeldMirrorsTrackServer ==
    Quiescent /\ socket = "open" =>
        \A i \in DOMAIN mirrors :
            mirrors[i].handle # InvalidHandle /\ mirrors[i].conn = conn
                => mirrors[i].value = world[mirrors[i].obj]

\* Event dispatch by handle (processMessage through m_objects/m_tableModels):
\* a mirror only ever shows values its own server object has had.
MirrorsShowOwnObject ==
    \A i \in DOMAIN mirrors : mirrors[i].value \in seen[mirrors[i].obj]

\* A property write reaches the object it was made on: Client::setProperty*
\* sends only the mirror's handle, and handles restart with each session, so
\* a mirror kept over a reconnect names whatever object the new session
\* leased under that number.  Every write waiting for the server names, by
\* its handle, no object other than its own.
WritesReachOwnObject ==
    \A n \in 1..Len(toServer) :
        toServer[n].cmd = "ObjectSetProperty" =>
            \A o \in ObjectIds : leased[o] = toServer[n].handle => o = toServer[n].obj

\* Handle revocation (releaseObject removes the handle from m_objects before
\* a late event for it arrives): a released mirror never changes again.
ReleasedMirrorsFrozen ==
    [][\A i \in DOMAIN mirrors :
         mirrors[i].handle = InvalidHandle => mirrors'[i].value = mirrors[i].value]_vars

\* An error response to getObject / getTableModel is handled without taking
\* the client down (errors within one message stay within that message).
NoNullDereference == ~crashed

\* Framing (socketReadyRead with m_readBuffer): every frame the client
\* completes consists of bytes of one frame the server sent.
FramesIntact == ~garbled

(***************************************************************************)
(* Refinement of the session life cycle.  The phase is read off the       *)
(* socket, m_state and the pending NewSession callback.                    *)
(***************************************************************************)
NewSessionPending ==
    \E id \in DOMAIN callbacks : callbacks[id].cmd = "NewSession" /\ callbacks[id].conn = conn

SessionOf ==
    CASE socket = "closed" -> "Closed"
      [] socket = "connecting" -> "Connecting"
      [] socket = "closing" -> "Closing"
      [] state = "Connected" -> "InSession"
      [] NewSessionPending -> "Authenticated"
      [] OTHER -> "AwaitingLogin"

Session == INSTANCE SessionSpec WITH session <- SessionOf

\* connectToHost, socketConnected, the Login and NewSession callbacks,
\* disconnectFromHost and socketDisconnected together follow the life cycle
\* of the spec: InSession only after Login and then NewSession succeeded on
\* the same connection, and a refused step closes the connection.
SessionRefinement == Session!Spec
====

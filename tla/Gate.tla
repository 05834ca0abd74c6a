-------------------------------- MODULE Gate --------------------------------
(***************************************************************************)
(* A gate service: gateserver.js over the frame buffer of js-net.c.  The   *)
(* socket events come through the service's mailbox; a client is admitted  *)
(* when its connection is accepted, read from once the gate's owner opens  *)
(* it, and gone when the close event arrives.  User code, the handler and  *)
(* the owner, may close any client at any time, and a message handler may  *)
(* throw, which ends the loop over the ring where it stands.               *)
(*                                                                         *)
(* The socket layer and the clients are external.  Warnings (a write queue *)
(* that grows) and the text of events are left out.                        *)
(***************************************************************************)
EXTENDS NetPack, FiniteSets

CONSTANTS
    Frames,     \* Frames[fd]: the payloads the client of fd sends
    MaxClient,  \* maxclient
    MaxSegment, \* bound: bytes in one delivery
    MaxMail,    \* bound: the socket layer waits when so many events do
    MaxClose,   \* bound: times user code closes a client
    MaxThrow    \* bound: times a message handler throws

ASSUME GateAssumption ==
    /\ Frames \in [Fd -> Seq(Packable)]
    /\ MaxClient \in Nat /\ MaxSegment \in Nat \ {0} /\ MaxMail \in Nat
    /\ MaxClose \in Nat /\ MaxThrow \in Nat

VARIABLES
    listening,    \* "no", "yes", "closing": the listening socket
    clientNumber,
    connection,   \* the clients in the map connection
    uncomplete,   \* uncomplete[fd]: what was left of the last frame
    ring,         \* the queue of packets
    popping,      \* the gate is in its loop over the ring
    mailbox,      \* socket events not yet handled
    sock,         \* state of each client's socket in the socket layer
    unsent,       \* unsent[fd]: bytes of the client not yet delivered
    received,     \* received[fd]: how many bytes were given to the frame buffer
    got,          \* got[fd]: messages the handler was given
    told,         \* told[fd]: the other callbacks of the handler
    dropped,      \* dropped[fd]: messages dropped because fd is not connected
    thrown,       \* how often a message handler threw
    closes        \* how often user code closed a client

gateVars == <<listening, clientNumber, connection, uncomplete, ring, popping>>
handlerVars == <<got, told, dropped, thrown>>
vars == <<gateVars, mailbox, sock, unsent, received, handlerVars, closes>>

\* Sockets: "none" before the client connects, "accepted" while it is not read
\* from, "started", "broken" after an error, "closing" once the gate closes
\* it, and "gone".

Bytes(s) == FlattenSeq([i \in DOMAIN s |-> Pack(s[i])])

Init ==
    /\ listening = "no" /\ clientNumber = 0 /\ connection = {}
    /\ uncomplete = [fd \in Fd |-> Nothing]
    /\ ring = AllocQueue(QueueSize) /\ popping = FALSE
    /\ mailbox = <<>>
    /\ sock = [fd \in Fd |-> "none"]
    /\ unsent = [fd \in Fd |-> Bytes(Frames[fd])]
    /\ received = [fd \in Fd |-> 0]
    /\ got = [fd \in Fd |-> <<>>] /\ told = [fd \in Fd |-> <<>>]
    /\ dropped = [fd \in Fd |-> 0]
    /\ thrown = 0 /\ closes = 0

(* What the gate asks of the socket layer.                                 *)
Closing(fd) ==
    IF sock[fd] \in {"accepted", "started", "broken"}
    THEN [sock EXCEPT ![fd] = "closing"] ELSE sock
Resuming(fd) ==
    IF sock[fd] = "accepted" THEN [sock EXCEPT ![fd] = "started"] ELSE sock
-----------------------------------------------------------------------------
(* Calls of user code.                                                     *)

CanClose == closes < MaxClose
\* closeclient
CloseClient(fd) ==
    /\ CanClose /\ closes' = closes + 1
    /\ fd \in connection
    /\ connection' = connection \ {fd}
    /\ sock' = Closing(fd)
ClosesNone == UNCHANGED <<closes, connection, sock>>

Idle == ~popping

\* openclient, from a message of the owner
OpenClient(fd) ==
    /\ Idle /\ fd \in connection
    /\ sock[fd] = "accepted" /\ sock' = Resuming(fd)
    /\ UNCHANGED <<gateVars, mailbox, unsent, received, handlerVars, closes>>

\* closeclient, from a message of the owner
Kick(fd) ==
    /\ Idle /\ CloseClient(fd)
    /\ UNCHANGED <<listening, clientNumber, uncomplete, ring, popping, mailbox, unsent,
                   received, handlerVars>>

\* open and close of the gate
OpenGate ==
    /\ Idle /\ listening = "no" /\ listening' = "yes"
    /\ UNCHANGED <<clientNumber, connection, uncomplete, ring, popping, mailbox, sock,
                   unsent, received, handlerVars, closes>>
CloseGate ==
    /\ Idle /\ listening = "yes" /\ CanClose
    /\ listening' = "closing" /\ closes' = closes + 1
    /\ UNCHANGED <<clientNumber, connection, uncomplete, ring, popping, mailbox, sock,
                   unsent, received, handlerVars>>

(* dispatchMsg: the handler may close any client, or throw.                *)
\* BUG: the client is not looked up.
Connected_Any(fd) == TRUE
Connected(fd) == fd \in connection
Returns == thrown' = thrown /\ (ClosesNone \/ \E fd \in Fd : CloseClient(fd))
Throws == thrown < MaxThrow /\ thrown' = thrown + 1 /\ ClosesNone
DispatchMsg(fd, data) ==
    IF Connected(fd)
    THEN got' = [got EXCEPT ![fd] = Append(@, data)] /\ UNCHANGED dropped
    ELSE dropped' = [dropped EXCEPT ![fd] = @ + 1] /\ UNCHANGED got
Dispatches(fd, data) ==
    /\ DispatchMsg(fd, data)
    /\ Returns \/ (Connected(fd) /\ Throws)
-----------------------------------------------------------------------------
(* Socket events.                                                          *)

Event == Head(mailbox)
Handles(type) == Idle /\ mailbox # <<>> /\ Event.type = type /\ mailbox' = Tail(mailbox)

\* DATA: js_netpack_dispatch, then the event "data" or "more", if any.
OnData ==
    /\ Handles("DATA")
    /\ LET fd == Event.fd
           r  == FilterData(uncomplete[fd], Event.data)
       IN  /\ uncomplete' = [uncomplete EXCEPT ![fd] = r.left]
           /\ received' = [received EXCEPT ![fd] = @ + Len(Event.data)]
           /\ \/ /\ r.alone
                 /\ Dispatches(fd, r.frames[1])
                 /\ UNCHANGED <<ring, popping>>
              \/ /\ ~r.alone
                 /\ ring' = PushAll(ring, fd, r.frames)
                 /\ popping' = (r.frames # <<>>)
                 /\ ClosesNone /\ UNCHANGED <<got, dropped, thrown>>
    /\ UNCHANGED <<listening, clientNumber, unsent, told>>

\* The event "more": until the ring is empty, or the handler throws.
PopPacket ==
    /\ popping /\ ~Empty(ring)
    /\ ring' = Pop(ring)
    /\ Dispatches(Top(ring).fd, Top(ring).data)
    /\ popping' = (thrown' = thrown)
    /\ UNCHANGED <<listening, clientNumber, uncomplete, mailbox, unsent, received, told>>
EndMore ==
    /\ popping /\ Empty(ring) /\ popping' = FALSE
    /\ UNCHANGED <<listening, clientNumber, connection, uncomplete, ring, mailbox, sock,
                   unsent, received, handlerVars, closes>>

Tells(fd, what) == told' = [told EXCEPT ![fd] = Append(@, what)]

\* ACCEPT, the event "open": past maxclient the connection is shut down.
OnOpen ==
    /\ Handles("ACCEPT")
    /\ LET fd == Event.fd
       IN  IF clientNumber >= MaxClient
           THEN /\ sock' = Closing(fd)
                /\ UNCHANGED <<clientNumber, connection, told>>
           ELSE /\ clientNumber' = clientNumber + 1
                /\ connection' = connection \cup {fd}
                /\ Tells(fd, "connect") /\ UNCHANGED sock
    /\ UNCHANGED <<listening, uncomplete, ring, popping, unsent, received, got, dropped,
                   thrown, closes>>

\* BUG: the start of a frame stays.
CloseUncomplete_Not(fd) == uncomplete
CloseUncomplete(fd) == [uncomplete EXCEPT ![fd] = Nothing]
OnClose ==
    /\ Handles("CLOSE")
    /\ uncomplete' = CloseUncomplete(Event.fd)
    /\ clientNumber' = clientNumber - 1
    /\ connection' = connection \ {Event.fd}
    /\ Tells(Event.fd, "disconnect")
    /\ UNCHANGED <<listening, ring, popping, sock, unsent, received, got, dropped,
                   thrown, closes>>
OnListenClose ==
    /\ Handles("LISTENCLOSE") /\ listening' = "no"
    /\ UNCHANGED <<clientNumber, connection, uncomplete, ring, popping, sock, unsent,
                   received, handlerVars, closes>>

OnError ==
    /\ Handles("ERROR")
    /\ uncomplete' = CloseUncomplete(Event.fd)
    /\ sock' = Closing(Event.fd)
    /\ Tells(Event.fd, "error")
    /\ UNCHANGED <<listening, clientNumber, connection, ring, popping, unsent, received,
                   got, dropped, thrown, closes>>
-----------------------------------------------------------------------------
(* The clients and the socket layer (external).                            *)

Quiescent == UNCHANGED <<gateVars, received, handlerVars, closes>>
Post(e) == Len(mailbox) < MaxMail /\ mailbox' = Append(mailbox, e)

Accept(fd) ==
    /\ listening = "yes" /\ sock[fd] = "none"
    /\ sock' = [sock EXCEPT ![fd] = "accepted"]
    /\ Post([type |-> "ACCEPT", fd |-> fd])
    /\ Quiescent /\ UNCHANGED unsent

Deliver(fd) ==
    /\ sock[fd] = "started"
    /\ \E n \in 1 .. MaxSegment :
          /\ n <= Len(unsent[fd])
          /\ unsent' = [unsent EXCEPT ![fd] = From(@, n + 1)]
          /\ Post([type |-> "DATA", fd |-> fd, data |-> SubSeq(unsent[fd], 1, n)])
    /\ Quiescent /\ UNCHANGED sock

\* The client closes, perhaps inside a frame; or the gate's close is done.
SocketClosed(fd) ==
    /\ sock[fd] \in {"started", "closing"}
    /\ sock' = [sock EXCEPT ![fd] = "gone"]
    /\ Post([type |-> "CLOSE", fd |-> fd])
    /\ Quiescent /\ UNCHANGED unsent

\* After an error there may be a socket left to shut down, or none.
SocketError(fd) ==
    /\ sock[fd] = "started"
    /\ \E s \in {"broken", "gone"} : sock' = [sock EXCEPT ![fd] = s]
    /\ Post([type |-> "ERROR", fd |-> fd])
    /\ Quiescent /\ UNCHANGED unsent

ListenClosed ==
    /\ listening = "closing" /\ ~\E i \in DOMAIN mailbox : mailbox[i].type = "LISTENCLOSE"
    /\ Post([type |-> "LISTENCLOSE"])
    /\ Quiescent /\ UNCHANGED <<sock, unsent>>
-----------------------------------------------------------------------------
Gateserver == \/ OnData \/ PopPacket \/ EndMore \/ OnOpen \/ OnClose
              \/ OnListenClose \/ OnError
Owner == OpenGate \/ CloseGate \/ \E fd \in Fd : OpenClient(fd) \/ Kick(fd)
Sockets == \/ ListenClosed
           \/ \E fd \in Fd : Accept(fd) \/ Deliver(fd) \/ SocketClosed(fd) \/ SocketError(fd)

Next == Gateserver \/ Owner \/ Sockets
Spec == Init /\ [][Next]_vars
=============================================================================

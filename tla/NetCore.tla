------------------------------- MODULE NetCore -------------------------------
(***************************************************************************)
(* internal/net-core.js: the table of socket handlers, the event dispatch, *)
(* the BufferedReader and the TLS upgrade, over the socket layer and a     *)
(* peer, which are external.  A token stands for what a reader takes at a  *)
(* time: the lines of a header, a part of a body, a handshake record.      *)
(* Ids of sockets are not used twice.                                      *)
(***************************************************************************)
EXTENDS Integers, Sequences, SequencesExt, FiniteSets

CONSTANTS
    MaxFd,     \* bound: sockets ever opened
    MaxMail    \* bound: the socket layer waits when so many events do

ASSUME NetAssumption == MaxFd \in Nat /\ MaxMail \in Nat
Fd == 1 .. MaxFd

VARIABLES
    sock,      \* the socket layer: "none", "opening", "open", "shut" by the peer, "gone"
    handler,   \* handlers: "none", "connecting" (helperConnect's), "reader"
    buf,       \* chunks of the reader, as tokens
    rclosed,   \* reader.closed
    tls,       \* "plain", "shaking" or "on"
    mail,      \* socket events not yet dispatched
    wire,      \* tokens of the peer on their way
    eof,       \* the peer has closed its side
    inbox      \* what the peer was sent

socketVars == <<sock, handler, buf, rclosed, tls>>
peerVars == <<mail, wire, eof, inbox>>
netVars == <<socketVars, peerVars>>

NetInit ==
    /\ sock = [fd \in Fd |-> "none"] /\ handler = [fd \in Fd |-> "none"]
    /\ buf = [fd \in Fd |-> <<>>] /\ rclosed = [fd \in Fd |-> FALSE]
    /\ tls = [fd \in Fd |-> "plain"]
    /\ mail = <<>> /\ wire = [fd \in Fd |-> <<>>] /\ eof = [fd \in Fd |-> FALSE]
    /\ inbox = [fd \in Fd |-> <<>>]
-----------------------------------------------------------------------------
(* Calls.  They are given the set of sockets concerned, or none.           *)

Unused == {fd \in Fd : sock[fd] = "none"}
NextFd == CHOOSE fd \in Unused : \A g \in Unused : fd <= g
Closed(fds) == [fd \in Fd |-> IF fd \in fds THEN "gone" ELSE sock[fd]]
Forgotten(fds) == [fd \in Fd |-> IF fd \in fds THEN "none" ELSE handler[fd]]

\* close: the handler is forgotten, so events still in the mailbox are not
\* seen, and what the peer still sends is lost.
Closes(fds) == sock' = Closed(fds) /\ handler' = Forgotten(fds)
\* helperConnect on a new socket, others being closed.
Connects(fd, fds) ==
    /\ sock' = [Closed(fds) EXCEPT ![fd] = "opening"]
    /\ handler' = [Forgotten(fds) EXCEPT ![fd] = "connecting"]
\* write: the result of a write on a dead socket is not looked at.
Writes(fd, data) == inbox' = IF sock[fd] = "open" THEN [inbox EXCEPT ![fd] = Append(@, data)] ELSE inbox

\* read(n) and readline: the reader has enough, or will never have.
Has(fd, n) == Len(buf[fd]) >= n
Never(fd, n) == rclosed[fd] /\ ~Has(fd, n)
\* _consume
Consumes(fd, n) == buf' = [buf EXCEPT ![fd] = SubSeq(@, n + 1, Len(@))]
-----------------------------------------------------------------------------
(* dispatchEvent.                                                          *)

Event == Head(mail)
\* CLOSE and ERROR: the handler is forgotten before it is called.
\* BUG: the reader does not learn that its socket is closed.
OnEnd_Deaf(fd) == handler' = [handler EXCEPT ![fd] = "none"] /\ UNCHANGED rclosed
ReaderEnds(fd) == rclosed' = [rclosed EXCEPT ![fd] = TRUE]
OnEnd(fd) ==
    /\ handler' = [handler EXCEPT ![fd] = "none"]
    /\ IF handler[fd] = "reader" THEN ReaderEnds(fd) ELSE UNCHANGED rclosed
\* DATA: during the handshake it is the session's.  What comes in one delivery
\* with the last record of the handshake is drained to the reader.
Feeds(fd, data) == buf' = [buf EXCEPT ![fd] = @ \o data]
OnData(fd, data) ==
    CASE handler[fd] # "reader" -> UNCHANGED <<buf, tls>>
      [] handler[fd] = "reader" /\ tls[fd] # "shaking" -> Feeds(fd, data) /\ UNCHANGED tls
      [] handler[fd] = "reader" /\ tls[fd] = "shaking" /\ Head(data).k = "bad" -> UNCHANGED <<buf, tls>>
      [] OTHER -> Feeds(fd, Tail(data)) /\ tls' = [tls EXCEPT ![fd] = "on"]
HandshakeFails(fd, data) == handler[fd] = "reader" /\ tls[fd] = "shaking" /\ Head(data).k = "bad"
\* reader(fd), once connected, and tlsUpgrade up to the first record.
Reads(fd) == handler' = [handler EXCEPT ![fd] = "reader"]
Upgrades(fd, secure) == tls' = [tls EXCEPT ![fd] = IF secure THEN "shaking" ELSE "plain"]
-----------------------------------------------------------------------------
(* The socket layer.                                                       *)

Post(type, fd, data) ==
    Len(mail) < MaxMail /\ mail' = Append(mail, [type |-> type, fd |-> fd, data |-> data])
Established(fd) ==
    /\ sock[fd] = "opening" /\ Post("CONNECT", fd, <<>>)
    /\ sock' = [sock EXCEPT ![fd] = "open"]
    /\ UNCHANGED <<handler, buf, rclosed, tls, wire, eof, inbox>>
Refused(fd) ==
    /\ sock[fd] = "opening" /\ Post("ERROR", fd, <<>>)
    /\ sock' = [sock EXCEPT ![fd] = "shut"]
    /\ UNCHANGED <<handler, buf, rclosed, tls, wire, eof, inbox>>
\* A delivery is cut anywhere.
Deliver(fd) ==
    /\ sock[fd] = "open" /\ wire[fd] # <<>>
    /\ \E k \in 1 .. Len(wire[fd]) :
          /\ Post("DATA", fd, SubSeq(wire[fd], 1, k))
          /\ wire' = [wire EXCEPT ![fd] = SubSeq(@, k + 1, Len(@))]
    /\ UNCHANGED <<socketVars, eof, inbox>>
PeerGone(fd) ==
    /\ sock[fd] = "open" /\ wire[fd] = <<>> /\ eof[fd]
    /\ Post("CLOSE", fd, <<>>)
    /\ sock' = [sock EXCEPT ![fd] = "shut"]
    /\ UNCHANGED <<handler, buf, rclosed, tls, wire, eof, inbox>>
Reset(fd) ==
    /\ sock[fd] = "open" /\ Post("ERROR", fd, <<>>)
    /\ sock' = [sock EXCEPT ![fd] = "shut"]
    /\ UNCHANGED <<handler, buf, rclosed, tls, wire, eof, inbox>>
SocketSteps(fd) == Established(fd) \/ Deliver(fd) \/ PeerGone(fd)
=============================================================================

------------------------------ MODULE WebSocket ------------------------------
(***************************************************************************)
(* packages/websocket: accept with its handler on a server's socket, or    *)
(* connect with read on a client's, one connection, over NetSocket; the    *)
(* reader and the TLS upgrade of adapters.js; and a peer that keeps to     *)
(* RFC 6455, frames messages as it likes, and may end anywhere.            *)
(*                                                                         *)
(* A token is what one read of the reader takes: a handshake, two bytes of *)
(* a frame's head, the extended length, the mask, the payload.  The user   *)
(* writes, pings and closes at any point, also inside its handler, and     *)
(* reads one message at a time.                                            *)
(***************************************************************************)
EXTENDS NetSocket

CONSTANTS
    Lengths,       \* lengths of whole messages
    PartLengths,   \* lengths of the parts of fragmented ones
    UserLengths,   \* lengths of the user's messages
    Allowance      \* bound: Allowance[secure], how many <<frames, troubles>> there may be

ASSUME WsAssumption ==
    /\ Lengths \cup PartLengths \cup UserLengths \subseteq Nat
    /\ Allowance \in [BOOLEAN -> SUBSET (Nat \X Nat)]

VARIABLES
    secure,        \* wss
    pc,            \* "idle", "connecting", "tls", "handshake", "loop", "frame" in readFrame, "open", "ended"
    rbuf, rclosed, \* the reader
    pooled,        \* wsPool has the connection; out of it again, ws.closed
    parts, count, firstOp, \* recvBuf, recvCount and firstOp
    told,          \* what the handler was called with, or what reads returned
    result,        \* how accept or connect ended
    said,          \* the frames this end wrote
    \* the peer: "silent", "upgraded" or "talks"; its complete messages, the one it is in,
    \* its pings, whether it sent a close, how many frames it may send
    peerAt, messages, current, pings, peerClosed, frames

readerVars == <<rbuf, rclosed>>
wsState == <<pooled, parts, count, firstOp, told, result, said>>
peerVars == <<peerAt, messages, current, pings, peerClosed, frames>>
wsVars == <<secure, pc, readerVars, wsState, peerVars>>

Nothing == [m |-> 0, i |-> 0, len |-> 0, key |-> 0]
NoMessage == [op |-> "none", parts |-> <<>>]
WsInit ==
    /\ secure \in BOOLEAN /\ pc = "idle" /\ rbuf = <<>> /\ rclosed = FALSE
    /\ pooled = FALSE /\ parts = <<>> /\ count = 0 /\ firstOp = "none"
    /\ told = <<>> /\ result = "none" /\ said = <<>>
    /\ peerAt = "silent" /\ messages = <<>> /\ current = NoMessage /\ pings = <<>> /\ peerClosed = FALSE
    /\ \E a \in Allowance[secure] : frames = a[1] /\ troubles = a[2]

MaxFrameSize == 262144
Server == side = "server"
-----------------------------------------------------------------------------
(* writeFrame and readFrame.  A key stands for a mask, 0 for none; masking *)
(* twice with one key gives the payload back.                              *)

Masked(p, key) == [p EXCEPT !.key = IF @ = key THEN 0 ELSE IF @ = 0 THEN key ELSE -1]
\* BUG: the limit is off by one.
LenExtra_Late(len) == IF len > 126 /\ len <= 65535 THEN 2 ELSE IF len > 65535 THEN 8 ELSE 0
LenExtra(len) == IF len >= 126 /\ len <= 65535 THEN 2 ELSE IF len > 65535 THEN 8 ELSE 0
FrameTokens(fin, op, p, key) ==
    <<[k |-> "head", fin |-> fin, op |-> op, masked |-> key # 0,
       l7 |-> IF p.len < 126 THEN p.len ELSE IF p.len <= 65535 THEN 126 ELSE 127]>>
    \o (IF LenExtra(p.len) = 0 THEN <<>>
        ELSE <<[k |-> "ext", size |-> LenExtra(p.len),
                value |-> IF LenExtra(p.len) = 2 THEN p.len % 65536 ELSE p.len]>>)
    \o (IF key = 0 THEN <<>> ELSE <<[k |-> "mask", key |-> key]>>)
    \o (IF p.len = 0 THEN <<>> ELSE <<[k |-> "data", p |-> Masked(p, key)]>>)
Key == IF Server THEN 0 ELSE 1
WriteFrame(op, p) == FrameTokens(TRUE, op, p, Key)

\* The reads of readFrame over the tokens t: what the frame is, once they are there.
FrameAt(t, server) ==
    LET head  == t[1]
        ext   == IF head.l7 < 126 THEN 0 ELSE 1
        size  == IF head.l7 = 126 THEN 2 ELSE 8
        len   == IF ext = 0 THEN head.l7 ELSE t[2].value
        masks == IF head.masked THEN 1 ELSE 0
        used  == 1 + ext + masks + (IF len > 0 THEN 1 ELSE 0)
        state == CASE t = <<>> -> "more"
                   [] t # <<>> /\ head.k # "head" -> "garbage"
                   [] t # <<>> /\ head.k = "head" /\ Len(t) < 1 + ext -> "more"
                   [] t # <<>> /\ head.k = "head" /\ Len(t) >= 1 + ext ->
                        IF ext = 1 /\ (t[2].k # "ext" \/ t[2].size # size) THEN "garbage"
                        ELSE IF server /\ len > MaxFrameSize THEN "large"
                        ELSE IF Len(t) < used THEN "more"
                        ELSE IF masks = 1 /\ t[1 + ext + 1].k # "mask" THEN "garbage"
                        ELSE IF len > 0 /\ (t[used].k # "data" \/ t[used].p.len # len) THEN "garbage"
                        ELSE "frame"
    IN  IF state # "frame" THEN [state |-> state, used |-> 0, fin |-> TRUE, op |-> "none", p |-> Nothing]
        ELSE [state |-> "frame", used |-> used, fin |-> head.fin, op |-> head.op,
              p |-> IF len = 0 THEN Nothing
                    ELSE IF masks = 1 THEN Masked(t[used].p, t[1 + ext + 1].key) ELSE t[used].p]
ReadFrame == FrameAt(rbuf, Server)
-----------------------------------------------------------------------------
(* Helpers.                                                                *)

Drop(n) == rbuf' = SubSeq(rbuf, n + 1, Len(rbuf))
Hears(events) == rclosed' = (rclosed \/ ("close" \in Range(events) \/ "error" \in Range(events)))
Tells(what) == told' = Append(told, what)
Callback(e) == [e |-> e, op |-> "none", parts |-> <<>>]
Says(op, p) == said' = Append(said, [op |-> op, p |-> p])

\* closeWebsocket, after the socket may have been written to.
CloseWebsocket ==
    IF pooled THEN pooled' = FALSE /\ Destroy /\ Hears(DestroyHeard(<<"close">>))
    ELSE UNCHANGED <<pooled, layer, entry, destroyed, timers, rclosed>>
noSocketChange == <<layer, entry, destroyed, timers>>
calm == <<side, known, timed, mail, wire, eof>>
rest == <<calm, troubles>>
-----------------------------------------------------------------------------
(* accept: readHandshake, the loop, and how it ends.                       *)

\* With TLS the upgrade comes first; then the connection is pooled.
Begins ==
    IF secure THEN pc' = "tls" /\ UNCHANGED <<pooled, told>>
    ELSE pc' = "handshake" /\ pooled' = TRUE /\ Tells(Callback("connect"))
Accept ==
    /\ Server /\ pc = "idle" /\ Begins
    /\ UNCHANGED <<socketVars, secure, readerVars, parts, count, firstOp, result, said, peerVars>>

\* The catch of accept: only an error of the socket is told.
SocketFails ==
    /\ pc' = "ended" /\ result' = "true" /\ CloseWebsocket
    /\ Tells(Callback(IF pooled THEN "error" ELSE "close"))
\* BUG: the catch leaves the connection open.
OtherFails_Open ==
    pc' = "ended" /\ result' = "false" /\ UNCHANGED <<told, pooled, layer, entry, destroyed, timers, rclosed>>
OtherFails == pc' = "ended" /\ result' = "false" /\ CloseWebsocket /\ UNCHANGED told

ReadHandshake ==
    /\ Server /\ pc = "handshake"
    /\ \/ rbuf = <<>> /\ rclosed /\ SocketFails /\ UNCHANGED <<sent, rbuf>>
       \/ /\ rbuf # <<>> /\ Drop(1)
          /\ Write(<<[k |-> IF rbuf[1].ok THEN "101" ELSE "400"]>>)
          /\ Tells(Callback(IF rbuf[1].ok THEN "handshake" ELSE "close"))
          /\ pc' = IF rbuf[1].ok THEN "loop" ELSE "ended"
          /\ result' = IF rbuf[1].ok THEN result ELSE "true"
          /\ rclosed' = (rclosed \/ WriteFails)
          /\ UNCHANGED <<layer, entry, destroyed, pooled>>
    /\ UNCHANGED <<rest, secure, parts, count, firstOp, said, peerVars>>

LoopHead ==
    /\ Server /\ pc = "loop"
    /\ IF pooled THEN pc' = "frame" /\ UNCHANGED <<told, result>>
       ELSE pc' = "ended" /\ result' = "true" /\ Tells(Callback("close"))
    /\ UNCHANGED <<socketVars, secure, readerVars, pooled, parts, count, firstOp, said, peerVars>>

\* Data frames: one by itself, or the parts of a message.
\* BUG: what was gathered is not forgotten with its message.
Forget_Not == UNCHANGED parts /\ count' = 0 /\ firstOp' = "none"
Forget == parts' = <<>> /\ count' = 0 /\ firstOp' = "none"
Control == {"close", "ping", "pong"}
Alone(f) == f.fin /\ parts = <<>>
First(f) == IF firstOp = "none" THEN f.op ELSE firstOp
TooMuch(f) == ~Alone(f) /\ count + f.p.len > MaxFrameSize
Wrong(f) == f.state \in {"large", "garbage"} \/ (f.state = "frame" /\ f.op \notin Control /\ TooMuch(f))
Message(op, ps) == [e |-> "message", op |-> op, parts |-> ps]
Gather(f) ==
    IF Alone(f) THEN Tells(Message(f.op, <<f.p>>)) /\ UNCHANGED <<parts, count, firstOp>>
    ELSE IF f.fin THEN Tells(Message(First(f), Append(parts, f.p))) /\ Forget
    ELSE /\ parts' = Append(parts, f.p) /\ count' = count + f.p.len /\ firstOp' = First(f)
         /\ UNCHANGED told

ResolveAccept ==
    /\ Server /\ pc = "frame"
    /\ LET f == ReadFrame
       IN  \/ f.state = "more" /\ rclosed /\ SocketFails /\ UNCHANGED <<sent, rbuf, parts, count, firstOp, said>>
           \/ /\ Wrong(f)
              /\ OtherFails /\ UNCHANGED <<sent, rbuf, parts, count, firstOp, said>>
           \/ /\ f.state = "frame" /\ Drop(f.used)
              /\ UNCHANGED <<layer, entry, destroyed, pooled>>
              /\ \/ /\ f.op = "close" /\ Write(WriteFrame("close", Nothing)) /\ Says("close", Nothing)
                    /\ rclosed' = (rclosed \/ WriteFails)
                    /\ Tells(Callback("close")) /\ pc' = "ended" /\ result' = "true"
                    /\ UNCHANGED <<parts, count, firstOp>>
                 \/ /\ f.op = "ping" /\ Write(WriteFrame("pong", f.p)) /\ Says("pong", f.p)
                    /\ rclosed' = (rclosed \/ WriteFails)
                    /\ Tells(Callback("ping")) /\ pc' = "loop"
                    /\ UNCHANGED <<parts, count, firstOp, result>>
                 \/ /\ f.op = "pong" /\ Tells(Callback("pong")) /\ pc' = "loop"
                    /\ UNCHANGED <<sent, timers, said, rclosed, parts, count, firstOp, result>>
                 \/ /\ f.op \notin Control /\ ~TooMuch(f) /\ Gather(f) /\ pc' = "loop"
                    /\ UNCHANGED <<sent, timers, said, rclosed, result>>
    /\ UNCHANGED <<rest, secure, peerVars>>
-----------------------------------------------------------------------------
(* connect: netConnect, the upgrade, writeHandshake.                       *)

WsConnect ==
    /\ ~Server /\ pc = "idle"
    /\ \/ Connect /\ pc' = "connecting" /\ UNCHANGED result
       \/ ConnectFails /\ pc' = "ended" /\ result' = "threw"
    /\ UNCHANGED <<secure, readerVars, pooled, parts, count, firstOp, told, said, peerVars>>
\* What follows a connected socket: the first to write is the client.
Greets == IF secure THEN pc' = "tls" /\ UNCHANGED pooled ELSE pc' = "handshake" /\ pooled' = TRUE
Greeting == IF secure THEN <<[k |-> "hello"]>> ELSE <<[k |-> "get"]>>

WriteHandshake ==
    /\ ~Server /\ pc = "handshake"
    /\ \/ /\ rbuf # <<>> /\ Drop(1)
          /\ IF rbuf[1].ok THEN pc' = "open" /\ result' = "id" /\ UNCHANGED <<pooled, noSocketChange, rclosed>>
             ELSE pc' = "ended" /\ result' = "threw" /\ CloseWebsocket
       \/ /\ rbuf = <<>> /\ rclosed /\ UNCHANGED rbuf
          /\ pc' = "ended" /\ result' = "threw" /\ CloseWebsocket
    /\ UNCHANGED <<rest, sent, secure, parts, count, firstOp, told, said, peerVars>>

\* read: of what it had gathered nothing is left when it throws.  The user
\* reads until then.
StartRead ==
    /\ ~Server /\ pc = "open" /\ pooled /\ pc' = "frame"
    /\ Callback("threw") \notin Range(told)
    /\ UNCHANGED <<socketVars, secure, readerVars, wsState, peerVars>>
WsRead ==
    /\ ~Server /\ pc = "frame"
    /\ LET f == ReadFrame
       IN  \/ /\ f.state = "more" /\ rclosed /\ pc' = "open" /\ Forget
              /\ Tells(Callback("threw"))
              /\ UNCHANGED <<noSocketChange, sent, rbuf, rclosed, pooled, said>>
           \/ /\ Wrong(f)
              /\ pc' = "open" /\ Forget /\ Tells(Callback("threw")) /\ Drop(f.used)
              /\ UNCHANGED <<noSocketChange, sent, rclosed, pooled, said>>
           \/ /\ f.state = "frame" /\ Drop(f.used)
              /\ \/ /\ f.op = "close" /\ Tells(Callback("close")) /\ pc' = "open" /\ Forget
                    /\ CloseWebsocket /\ UNCHANGED <<sent, said>>
                 \/ /\ f.op = "ping" /\ Write(WriteFrame("pong", f.p)) /\ Says("pong", f.p)
                    /\ rclosed' = (rclosed \/ WriteFails)
                    /\ UNCHANGED <<layer, entry, destroyed, told, pc, parts, count, firstOp, pooled>>
                 \/ /\ f.op = "pong"
                    /\ UNCHANGED <<noSocketChange, sent, said, rclosed, told, pc, parts, count, firstOp, pooled>>
                 \/ /\ f.op \notin Control /\ ~TooMuch(f) /\ Gather(f)
                    /\ pc' = IF f.fin THEN "open" ELSE pc
                    /\ UNCHANGED <<noSocketChange, sent, said, rclosed, pooled>>
    /\ UNCHANGED <<rest, secure, result, peerVars>>
-----------------------------------------------------------------------------
(* The user's write, ping and close, on a connection that is pooled.       *)

UserCall == pooled /\ Trouble
Payload(len) == [m |-> 100 + troubles, i |-> 1, len |-> len, key |-> 0]
WsWrite(len) ==
    /\ UserCall /\ pc # "handshake"
    /\ Write(WriteFrame("binary", Payload(len))) /\ Says("binary", Payload(len))
    /\ rclosed' = (rclosed \/ WriteFails)
    /\ UNCHANGED <<calm, layer, entry, destroyed, secure, pc, rbuf, pooled, parts, count, firstOp, told, result,
                   peerVars>>
WsPing ==
    /\ UserCall /\ pc # "handshake"
    /\ Write(WriteFrame("ping", Nothing)) /\ Says("ping", Nothing)
    /\ rclosed' = (rclosed \/ WriteFails)
    /\ UNCHANGED <<calm, layer, entry, destroyed, secure, pc, rbuf, pooled, parts, count, firstOp, told, result,
                   peerVars>>
WsClose ==
    /\ UserCall /\ (Server \/ pc # "handshake")
    /\ LET data == WriteFrame("close", Nothing)
       IN  sent' = IF destroyed \/ layer # "open" THEN sent ELSE sent \o data
    /\ Says("close", Nothing)
    /\ CloseWebsocket
    /\ UNCHANGED <<calm, secure, pc, rbuf, parts, count, firstOp, told, result, peerVars>>
-----------------------------------------------------------------------------
(* Events.  All continuations have run before one is taken.                *)

Ready ==
    \/ pc = "loop"
    \/ pc = "handshake" /\ (rbuf # <<>> \/ rclosed)
    \/ pc = "frame" /\ (ReadFrame.state # "more" \/ rclosed)
Job == ReadHandshake \/ LoopHead \/ ResolveAccept \/ WriteHandshake \/ WsRead

\* A reader hears the socket from accept on, or once it is connected: what was
\* dispatched before is lost to it, the end of the socket too.
Reads == pc \notin {"idle", "connecting"}
Shakes == pc = "tls" /\ Heard = <<"data">>
\* The last record of the handshake: what came with it is the reader's.
Upgraded ==
    /\ rbuf' = rbuf \o Tail(Event.data)
    /\ IF Head(Event.data).ok
       THEN /\ pc' = "handshake" /\ pooled' = TRUE /\ UNCHANGED result
            /\ IF Server THEN Tells(Callback("connect")) /\ UNCHANGED sent
               ELSE sent' = Append(sent, [k |-> "get"]) /\ UNCHANGED told
       ELSE pc' = "ended" /\ result' = "threw" /\ UNCHANGED <<pooled, told, sent>>
WsEvent ==
    /\ ~Ready /\ mail # <<>> /\ mail' = Tail(mail) /\ OnEvent
    /\ \/ /\ Heard = <<"connect">>
          /\ IF pc = "connecting" THEN Greets /\ sent' = IF layer = "open" THEN sent \o Greeting ELSE sent
             ELSE UNCHANGED <<pc, pooled, sent>>
          /\ UNCHANGED <<rbuf, rclosed, told, result>>
       \/ Shakes /\ Upgraded /\ UNCHANGED rclosed
       \/ /\ Heard # <<"connect">> /\ ~Shakes
          /\ IF Reads THEN Hears(HeardEnd) ELSE UNCHANGED rclosed
          /\ rbuf' = IF Heard = <<"data">> /\ Reads THEN rbuf \o Event.data ELSE rbuf
          /\ IF pc = "connecting" /\ Heard # <<>> THEN pc' = "ended" /\ result' = "threw"
             ELSE UNCHANGED <<pc, result>>
          /\ UNCHANGED <<pooled, told, sent>>
    /\ UNCHANGED <<side, layer, timed, wire, eof, troubles, secure, parts, count, firstOp, said, peerVars>>
WsTimer(t) ==
    /\ ~Ready /\ t \in timers /\ Trouble
    /\ IF destroyed THEN timers' = timers \ {t} /\ UNCHANGED <<layer, entry, destroyed>>
       ELSE destroyed' = TRUE /\ timers' = timers \ {t, "kept"} /\ CloseFd
    /\ IF pc = "connecting" THEN pc' = "ended" /\ result' = "threw" /\ UNCHANGED rclosed
       ELSE Hears(TimerHeard) /\ UNCHANGED <<pc, result>>
    /\ UNCHANGED <<side, known, timed, mail, wire, eof, sent, secure, rbuf, pooled, parts, count, firstOp,
                   told, said, peerVars>>
-----------------------------------------------------------------------------
(* The peer.                                                               *)

PeerKey == IF Server THEN 2 ELSE 0
Got(k) == \E i \in DOMAIN sent : sent[i].k = k
Sends(tokens) == wire' = IF layer = "open" THEN wire \o tokens ELSE wire
noPeer == <<side, layer, entry, known, destroyed, timed, timers, mail, eof, sent>>

PeerGreets ==
    /\ ~eof /\ peerAt = "silent"
    /\ \E ok \in BOOLEAN :
          /\ IF ok THEN UNCHANGED troubles ELSE Trouble
          /\ \/ /\ secure /\ ((Server /\ pc # "idle") \/ Got("hello"))
                /\ Sends(<<[k |-> "record", ok |-> ok]>>
                         \o IF Server /\ ok THEN <<[k |-> "get", ok |-> TRUE]>> ELSE <<>>)
                /\ peerAt' = IF Server THEN "talks" ELSE "upgraded"
             \/ /\ ~secure /\ (Server \/ Got("get"))
                /\ Sends(<<[k |-> IF Server THEN "get" ELSE "101", ok |-> ok]>>)
                /\ peerAt' = "talks"
    /\ UNCHANGED <<noPeer, secure, pc, readerVars, wsState, messages, current, pings, peerClosed, frames>>
PeerAnswers ==
    /\ peerAt = "upgraded" /\ Got("get") /\ ~eof
    /\ Sends(<<[k |-> "101", ok |-> TRUE]>>) /\ peerAt' = "talks"
    /\ UNCHANGED <<noPeer, troubles, secure, pc, readerVars, wsState, messages, current, pings,
                   peerClosed, frames>>

Framing ==
    /\ peerAt = "talks" /\ (Server => Got("101")) /\ ~eof /\ ~peerClosed
    /\ frames > 0 /\ frames' = frames - 1 /\ UNCHANGED peerAt
Body(len) == [m |-> Len(messages) + 1, i |-> Len(current.parts) + 1, len |-> len, key |-> 0]
Norm(p) == IF p.len = 0 THEN Nothing ELSE p
PeerWhole(len) ==
    /\ Framing /\ current = NoMessage
    /\ Sends(FrameTokens(TRUE, "text", Body(len), PeerKey))
    /\ messages' = Append(messages, [op |-> "text", parts |-> <<Norm(Body(len))>>])
    /\ UNCHANGED <<noPeer, troubles, secure, pc, readerVars, wsState, current, pings, peerClosed>>
PeerPart(len, fin) ==
    /\ Framing
    /\ Sends(FrameTokens(fin, IF current = NoMessage THEN "binary" ELSE "frame", Body(len), PeerKey))
    /\ fin => current # NoMessage
    /\ LET more == [op |-> "binary", parts |-> Append(current.parts, Norm(Body(len)))]
       IN  IF fin THEN messages' = Append(messages, more) /\ current' = NoMessage
           ELSE current' = more /\ UNCHANGED messages
    /\ UNCHANGED <<noPeer, troubles, secure, pc, readerVars, wsState, pings, peerClosed>>
PeerControl(op) ==
    /\ Framing
    /\ LET p == [m |-> 50 + frames, i |-> 1, len |-> 5, key |-> 0]
       IN  /\ Sends(FrameTokens(TRUE, op, p, PeerKey))
           /\ pings' = IF op = "ping" THEN Append(pings, p) ELSE pings
    /\ peerClosed' = (peerClosed \/ op = "close")
    /\ UNCHANGED <<noPeer, troubles, secure, pc, readerVars, wsState, messages, current>>
\* It stops, also in the middle of a frame, or never comes to its handshake.
PeerEnds ==
    /\ ~eof /\ layer = "open" /\ eof' = TRUE
    /\ \/ UNCHANGED <<wire, troubles>>
       \/ Trouble /\ \E k \in 0 .. Len(wire) - 1 : wire' = SubSeq(wire, 1, k)
    /\ UNCHANGED <<side, layer, entry, known, destroyed, timed, timers, mail, sent, wsVars>>

PeerFrames ==
    \/ \E len \in Lengths : PeerWhole(len)
    \/ \E len \in PartLengths : \E fin \in BOOLEAN : PeerPart(len, fin)
    \/ \E op \in Control : PeerControl(op)
-----------------------------------------------------------------------------
WsNext ==
    \/ Accept \/ WsConnect \/ Job \/ WsEvent
    \/ ~Ready /\ StartRead
    \/ \E len \in UserLengths : WsWrite(len)
    \/ WsPing \/ WsClose
    \/ \E t \in timers : WsTimer(t)
    \/ PeerGreets \/ PeerAnswers \/ PeerFrames \/ PeerEnds
    \/ (LayerSteps \/ Reset) /\ UNCHANGED wsVars
WsSpec == SocketInit /\ WsInit /\ [][WsNext]_<<socketVars, wsVars>>
=============================================================================

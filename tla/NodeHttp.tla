------------------------------- MODULE NodeHttp -------------------------------
(***************************************************************************)
(* require("http") and fetch, over NetSocket: a Server with the requests   *)
(* of one connection, or one request() or fetch() on its own connection.   *)
(* A request is a head, which tells the length of the body when its writer *)
(* does, and a body; a response is a head and parts.  Peers are external:  *)
(* a client that may send the next request before the answer to the last,  *)
(* and a server that may stop anywhere.  https is http here: the facade    *)
(* calls it after a look at the build.                                     *)
(***************************************************************************)
EXTENDS NetSocket

CONSTANTS
    MaxRequests,   \* bound: requests of a connection
    MaxParts       \* bound: parts of a response

ASSUME NodeHttpAssumption == MaxRequests \in Nat /\ MaxParts \in Nat
Request == 1 .. MaxRequests

VARIABLES
    buffer,    \* the server's buffer, or the client's raw
    asked,     \* how many requests the peer sent
    emitted,   \* the requests given to the handler
    answer,    \* answer[q]: where the ServerResponse stands, and its chunks
    packed,    \* one delivery held more than one request
    client,    \* "idle", "connecting", "waiting", "resolved", "rejected"
    via,       \* "request" or "fetch"
    reply,     \* what the server of this client sent
    body       \* what the client resolved with

nodeHttpVars == <<buffer, asked, emitted, answer, packed, client, via, reply, body>>

NodeHttpInit ==
    /\ buffer = <<>> /\ asked = 0 /\ emitted = <<>> /\ packed = FALSE
    /\ answer = [q \in Request |-> [pc |-> "none", chunks |-> 0]]
    /\ client = "idle" /\ via \in {"request", "fetch"} /\ reply = <<>> /\ body = <<>>

ReqHead(q, len) == [k |-> "request", q |-> q, len |-> len]
ReqBody(q) == [k |-> "body", q |-> q]
RespHead(q, n) == [k |-> "status", q |-> q, n |-> n]
RespPart(q, i) == [k |-> "part", q |-> q, i |-> i]
-----------------------------------------------------------------------------
(* parseRequest: null until the head is there, and the body it tells of.   *)

\* BUG: the body is not waited for.
Whole_HeadOnly(b) == b # <<>> /\ Head(b).k = "request"
Whole(b) == b # <<>> /\ Head(b).k = "request" /\ Len(b) > Head(b).len
ParseRequest(b) ==
    [q |-> Head(b).q, len |-> Head(b).len,
     body |-> SubSeq(b, 2, IF Len(b) > Head(b).len THEN 1 + Head(b).len ELSE Len(b))]
Consumed(b) == 1 + Head(b).len

\* A delivery: one request is parsed, whatever the delivery held.
ServerData(data) ==
    LET b == buffer \o data
    IN  IF ~Whole(b) THEN buffer' = b /\ UNCHANGED <<emitted, answer, packed>>
        ELSE /\ buffer' = SubSeq(b, Consumed(b) + 1, Len(b))
             /\ emitted' = Append(emitted, ParseRequest(b))
             /\ answer' = [answer EXCEPT ![Head(b).q].pc = "working"]
             /\ packed' = (packed \/ buffer' # <<>>)
-----------------------------------------------------------------------------
(* ServerResponse: write, end, and _finish when the writes are through.    *)

ResponseWrite(q) ==
    /\ answer[q].pc = "working" /\ answer[q].chunks < MaxParts
    /\ answer' = [answer EXCEPT ![q].chunks = @ + 1]
    /\ UNCHANGED <<socketVars, buffer, asked, emitted, packed, client, via, reply, body>>
ResponseEnd(q) ==
    /\ answer[q].pc = "working"
    /\ answer' = [answer EXCEPT ![q].pc = "ending"]
    /\ UNCHANGED <<socketVars, buffer, asked, emitted, packed, client, via, reply, body>>
Finish(q) ==
    LET n == answer[q].chunks
    IN  /\ answer[q].pc = "ending"
        /\ answer' = [answer EXCEPT ![q].pc = "sent"]
        /\ Write(<<RespHead(q, n)>> \o [i \in 1 .. n |-> RespPart(q, i)])
        /\ UNCHANGED <<side, layer, entry, known, destroyed, timed, mail, wire, eof, troubles,
                       buffer, asked, emitted, packed, client, via, reply, body>>
Finishing == \E q \in Request : answer[q].pc = "ending"

\* Server.close destroys its connections; a handler may do so too.
ServerClose ==
    /\ side = "server" /\ ~destroyed /\ Trouble /\ Destroy
    /\ UNCHANGED <<side, known, timed, mail, wire, eof, sent, nodeHttpVars>>
-----------------------------------------------------------------------------
(* request, and fetch, which tells the length of its body.                 *)

StartRequest ==
    /\ side = "client" /\ client = "idle"
    /\ \/ Connect /\ client' = "connecting"
       \/ ConnectFails /\ client' = "rejected"
    /\ UNCHANGED <<buffer, asked, emitted, answer, packed, via, reply, body>>
ContentLength == IF via = "fetch" THEN 1 ELSE 0
RequestText == <<ReqHead(1, ContentLength), ReqBody(1)>>
ParseResponse(raw) == IF raw = <<>> THEN "rejected" ELSE "resolved"

NodeEvent ==
    /\ ~Finishing /\ mail # <<>> /\ mail' = Tail(mail) /\ OnEvent
    /\ \/ /\ side = "server"
          /\ IF Heard = <<"data">> THEN ServerData(Event.data) ELSE UNCHANGED <<buffer, emitted, answer, packed>>
          /\ UNCHANGED <<sent, client, body>>
       \/ /\ side = "client" /\ UNCHANGED <<emitted, answer, packed>>
          /\ sent' = IF Heard = <<"connect">> /\ layer = "open" THEN sent \o RequestText ELSE sent
          /\ buffer' = IF Heard = <<"data">> THEN buffer \o Event.data ELSE buffer
          /\ client' = CASE Heard = <<"connect">> -> "waiting"
                         [] client = "waiting" /\ HeardEnd = <<"end", "close">> -> ParseResponse(buffer)
                         [] client = "waiting" /\ HeardEnd = <<"error">> -> "rejected"
                         [] OTHER -> client
          /\ body' = IF client' = "resolved" THEN Tail(buffer) ELSE body
    /\ UNCHANGED <<side, layer, timed, wire, eof, troubles, asked, via, reply>>
-----------------------------------------------------------------------------
(* The peers.                                                              *)

PeerAsks(len) ==
    /\ side = "server" /\ asked < MaxRequests /\ ~eof /\ layer = "open" /\ asked' = asked + 1
    /\ wire' = wire \o <<ReqHead(asked', len)>> \o (IF len = 1 THEN <<ReqBody(asked')>> ELSE <<>>)
    /\ UNCHANGED <<side, layer, entry, known, destroyed, timed, timers, mail, eof, sent, troubles,
                   buffer, emitted, answer, packed, client, via, reply, body>>
PeerReplies ==
    /\ side = "client" /\ sent # <<>> /\ ~eof /\ layer = "open" /\ Len(reply) <= MaxParts
    /\ LET token == IF reply = <<>> THEN RespHead(1, MaxParts) ELSE RespPart(1, Len(reply))
       IN  wire' = Append(wire, token) /\ reply' = Append(reply, token)
    /\ UNCHANGED <<side, layer, entry, known, destroyed, timed, timers, mail, eof, sent, troubles,
                   buffer, asked, emitted, answer, packed, client, via, body>>
PeerEndsHttp ==
    /\ ~eof /\ layer = "open" /\ eof' = TRUE
    /\ UNCHANGED <<side, layer, entry, known, destroyed, timed, timers, mail, wire, sent, troubles,
                   nodeHttpVars>>
-----------------------------------------------------------------------------
NodeHttpNext ==
    \/ \E q \in Request : ResponseWrite(q) \/ ResponseEnd(q) \/ Finish(q)
    \/ ServerClose \/ StartRequest \/ NodeEvent
    \/ \E len \in {0, 1} : PeerAsks(len)
    \/ PeerReplies \/ PeerEndsHttp
    \/ (LayerSteps \/ Reset) /\ UNCHANGED nodeHttpVars
NodeHttpSpec ==
    /\ SocketInit /\ NodeHttpInit /\ ~timed /\ troubles \in Nat
    /\ [][NodeHttpNext]_<<socketVars, nodeHttpVars>>
=============================================================================

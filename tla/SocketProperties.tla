--------------------------- MODULE SocketProperties ---------------------------
(* What is checked of a socket's users: a WebSocket connection's messages and *)
(* pongs arrive whole, its end is told once and by what ended it; an HTTP     *)
(* server's requests and answers are whole and in order; and both end.        *)
EXTENDS WebSocket, NodeHttp

Delivered == SelectSeq(told, LAMBDA c : c.e = "message")
Received == [i \in DOMAIN Delivered |-> [op |-> Delivered[i].op, parts |-> Delivered[i].parts]]

\* The handler, or the user who reads, gets the peer's messages, in order, each
\* with all its parts unmasked and the type its first part had, however frames
\* are cut, fragmented, interleaved with control frames or long; after a read
\* that threw nothing is promised.
MessagesWhole ==
    Callback("threw") \in Range(told) \/ IsPrefix(Received, messages)

\* What this end wrote, read back as its peer does, is the frames of its calls
\* in their order, masked exactly when it is the client, with lengths of every
\* form, the answer to a ping between two writes of the user too; and its pongs
\* answer the peer's pings in order, with their payload.
FrameKinds == {"head", "ext", "mask", "data"}
FramesSent ==
    LET t == SelectSeq(sent, LAMBDA x : x.k \in FrameKinds)
        at[i \in 0 .. Len(said)] ==
            IF i = 0 THEN 0
            ELSE IF at[i - 1] < 0 \/ at[i - 1] >= Len(t) THEN -1
            ELSE LET f == FrameAt(SubSeq(t, at[i - 1] + 1, Len(t)), FALSE)
                 IN  IF f.state = "frame" /\ f.op = said[i].op /\ f.fin /\ f.p = (IF said[i].p.len = 0 THEN Nothing ELSE said[i].p)
                        /\ t[at[i - 1] + 1].masked = ~Server
                     THEN at[i - 1] + f.used ELSE -1
        pongs == SelectSeq(said, LAMBDA f : f.op = "pong")
    IN  /\ \E i \in 0 .. Len(said) : at[i] = Len(t)
        /\ layer = "open" => at[Len(said)] = Len(t)
        /\ IsPrefix([i \in DOMAIN pongs |-> pongs[i].p], pings)

\* accept tells its handler one end, last of all, unless it answers false; and a
\* connection that has ended, or is no longer in the pool, is closed.  Three ways
\* do not close it: the peer's close frame or its handshake ended accept, the TLS
\* upgrade failed, and a connect that timed out before it was established.
Ends == {i \in DOMAIN told : told[i].e \in {"close", "error"}}
LeftOpen ==
    \/ Server /\ result = "true" /\ pooled
    \/ secure /\ result = "threw"
    \/ timed /\ destroyed /\ result = "threw"
EndsOnce ==
    /\ Server => /\ Ends \subseteq {Len(told)}
                 /\ pc = "ended" => (result = "true") = (Ends # {})
    /\ ~Server => Ends \subseteq {i \in DOMAIN told : \A j \in i + 1 .. Len(told) : told[j].e = "threw"}
    /\ pc \in {"loop", "frame", "open", "ended"} /\ ~pooled =>
          layer # "open" \/ LeftOpen
    /\ pc = "ended" => layer # "open" \/ LeftOpen
    /\ result = "true" /\ pooled => Callback("close") \in Range(told)

\* Each request is emitted once, in order and with the body its head tells of,
\* however deliveries cut it; a whole request waits in the buffer only when it
\* came in a delivery with another one.  Each answer goes out once, its parts
\* behind its head, whatever order handlers end in.  A request resolves with all
\* its server sent before it closed; and what fetch sends is one whole request to
\* this server.
NodeExchanges ==
    /\ \A i \in DOMAIN emitted :
          emitted[i].q = i /\ emitted[i].body = (IF emitted[i].len = 1 THEN <<ReqBody(i)>> ELSE <<>>)
    /\ Whole(buffer) /\ side = "server" => packed
    /\ \A i \in DOMAIN sent : sent[i].k = "status" =>
          /\ sent[i].q <= Len(emitted)
          /\ \A j \in 1 .. sent[i].n : sent[i + j] = RespPart(sent[i].q, j)
          /\ \A j \in DOMAIN sent \ {i} : sent[j].k = "status" => sent[j].q # sent[i].q
    /\ client = "resolved" => body = Tail(reply)
    /\ via = "fetch" /\ client # "idle" /\ sent # <<>> =>
          Whole(sent) /\ ParseRequest(sent).body = <<ReqBody(1)>> /\ Consumed(sent) = Len(sent)

\* accept and read end, and request settles, once the socket has ended, though
\* a timer fires or the user closes it in between; except in a TLS handshake, a
\* connect that is refused, which only its timeout ends, and an accept that comes
\* after the end was dispatched: it listens for what it will not hear, and waits
\* in its handshake for ever.
ConnectionEnds ==
    /\ layer \in {"shut", "gone"} /\ pc # "idle" /\ (mail # <<>> \/ rclosed)
          ~> pc \in {"connecting", "open", "ended", "tls"}
    /\ (client = "waiting" /\ layer = "shut") ~> client \in {"resolved", "rejected"}
=============================================================================

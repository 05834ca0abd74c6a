------------------------------ MODULE NetPack ------------------------------
(***************************************************************************)
(* The frame buffer of a gate service (js-net.c): a frame is a length in   *)
(* two bytes, the high one first, and that many bytes.  What a socket      *)
(* delivers is cut anywhere: the start of a frame whose end is still to    *)
(* come waits in the table of uncomplete frames, and when one delivery     *)
(* ends several frames they go through a ring of packets.                  *)
(*                                                                         *)
(* Abstractions: a byte is a number below Radix; the hash table is a       *)
(* function of the socket; buffers and their ownership are left out.       *)
(***************************************************************************)
EXTENDS Integers, Sequences, SequencesExt

CONSTANTS
    Fd,         \* the sockets of clients
    Radix,      \* 256
    QueueSize   \* QUEUESIZE: the ring's first capacity, and by how much it grows

ASSUME NetPackAssumption == Radix \in Nat \ {0, 1} /\ QueueSize \in Nat \ {0}

Byte == 0 .. Radix - 1
Payload == Seq(Byte)
\* js_netpack_pack refuses what a length in two bytes cannot tell.
Packable == {p \in Payload : Len(p) < Radix * Radix}

\* BUG: the low byte first.
ReadSize_Swapped(b) == b[2] * Radix + b[1]
ReadSize(b) == b[1] * Radix + b[2]
Pack(p) == <<Len(p) \div Radix, Len(p) % Radix>> \o p

From(b, i) == SubSeq(b, i, Len(b))
-----------------------------------------------------------------------------
(* The ring: slots head up to tail, modulo the capacity, hold packets.  It *)
(* is full, and grows, when the tail has caught up with the head.          *)

NoPacket == [fd |-> 0, data |-> <<>>]
AllocQueue(cap) == [cap |-> cap, head |-> 0, tail |-> 0, queue |-> [i \in 0 .. cap - 1 |-> NoPacket]]

\* BUG: the packets are copied from slot 0 instead of from the head.
ExpandQueue_FromZero(q) ==
    [cap |-> q.cap + QueueSize, head |-> 0, tail |-> q.cap,
     queue |-> [i \in 0 .. q.cap + QueueSize - 1 |->
                   IF i < q.cap THEN q.queue[i] ELSE NoPacket]]
ExpandQueue(q) ==
    [cap |-> q.cap + QueueSize, head |-> 0, tail |-> q.cap,
     queue |-> [i \in 0 .. q.cap + QueueSize - 1 |->
                   IF i < q.cap THEN q.queue[(q.head + i) % q.cap] ELSE NoPacket]]

After(q, i) == IF i + 1 >= q.cap THEN 0 ELSE i + 1
PushData(q, packet) ==
    LET pushed == [cap |-> q.cap, head |-> q.head, tail |-> After(q, q.tail),
                   queue |-> [q.queue EXCEPT ![q.tail] = packet]]
    IN  IF pushed.head = pushed.tail THEN ExpandQueue(pushed) ELSE pushed

Empty(q) == q.head = q.tail
Top(q) == q.queue[q.head]
Pop(q) == [cap |-> q.cap, head |-> After(q, q.head), tail |-> q.tail,
           queue |-> [q.queue EXCEPT ![q.head] = NoPacket]]
-----------------------------------------------------------------------------
(* Reassembly.                                                             *)

Nothing == [at |-> "nothing"]
HalfHeader(b) == [at |-> "header", header |-> b]
Body(size, read) == [at |-> "body", size |-> size, read |-> read]

\* push_more, over all that follows a frame: the whole frames and what is
\* left uncomplete.
\* BUG: a frame that ends with the delivery is taken to be uncomplete.
Complete_Strict(body, size) == Len(body) > size
Complete(body, size) == Len(body) >= size
Split[b \in Payload] ==
    IF b = <<>> THEN [frames |-> <<>>, left |-> Nothing]
    ELSE IF Len(b) = 1 THEN [frames |-> <<>>, left |-> HalfHeader(b[1])]
    ELSE LET size == ReadSize(b)
             body == From(b, 3)
         IN  IF ~Complete(body, size)
             THEN [frames |-> <<>>, left |-> Body(size, body)]
             ELSE LET more == Split[From(body, size + 1)]
                  IN  [frames |-> <<SubSeq(body, 1, size)>> \o more.frames,
                       left |-> more.left]

\* filter_data: the frames that the delivery b completes after what was left
\* uncomplete, u; with none of them nothing is to be done (NP_NONE), one alone
\* with nothing after it is handed over as it is (NP_DATA), and else all go
\* through the ring (NP_MORE).
\* BUG: the second byte of the length is taken for a byte of the frame too.
Resumed_HeaderKept(u, b) ==
    IF u.at = "header"
    THEN [u |-> Body(u.header * Radix + b[1], <<>>), b |-> b]
    ELSE [u |-> u, b |-> b]
Resumed(u, b) ==
    IF u.at = "header"
    THEN [u |-> Body(u.header * Radix + b[1], <<>>), b |-> Tail(b)]
    ELSE [u |-> u, b |-> b]
FilterData(u, b) ==
    IF u.at = "nothing"
    THEN LET s == Split[b]
         IN  [frames |-> s.frames, left |-> s.left,
              alone |-> Len(s.frames) = 1 /\ s.left = Nothing]
    ELSE LET r    == Resumed(u, b)
             need == r.u.size - Len(r.u.read)
         IN  IF Len(r.b) < need
             THEN [frames |-> <<>>, left |-> Body(r.u.size, r.u.read \o r.b), alone |-> FALSE]
             ELSE LET first == r.u.read \o SubSeq(r.b, 1, need)
                      s == Split[From(r.b, need + 1)]
                  IN  [frames |-> <<first>> \o s.frames, left |-> s.left,
                       alone |-> Len(r.b) = need]

PushAll(q, fd, frames) ==
    LET pushed[n \in 0 .. Len(frames)] ==
            IF n = 0 THEN q ELSE PushData(pushed[n - 1], [fd |-> fd, data |-> frames[n]])
    IN  pushed[Len(frames)]
=============================================================================

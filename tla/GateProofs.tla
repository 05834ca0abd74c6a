----------------------------- MODULE GateProofs -----------------------------
(***************************************************************************)
(* What a gate promises, for every radix, capacity of the ring, payloads   *)
(* and cut of the streams.  First the ring of packets: a first-in          *)
(* first-out queue wherever its head stands, also when it is full and      *)
(* grows.  Then reassembly: what js_netpack_dispatch makes of any delivery *)
(* after what earlier ones left.  Then the inductive invariant GateInv,    *)
(* step by step, and the properties of Gate that follow from it.           *)
(***************************************************************************)
EXTENDS GateProperties, SequenceTheorems, FiniteSetTheorems, WellFoundedInduction, TLAPS

\* A ring as np_alloc_queue, np_push_data and js_netpack_pop leave it.
Ring(q) ==
    /\ q.cap \in Nat \ {0}
    /\ q.head \in 0 .. q.cap - 1 /\ q.tail \in 0 .. q.cap - 1
    /\ q.queue = [i \in 0 .. q.cap - 1 |-> q.queue[i]]

\* What a ring holds, oldest first.
Held(q) == IF q.tail >= q.head THEN q.tail - q.head ELSE q.tail + q.cap - q.head
Slot(q, i) == IF q.head + i - 1 < q.cap THEN q.head + i - 1 ELSE q.head + i - 1 - q.cap
Content(q) == [i \in 1 .. Held(q) |-> q.queue[Slot(q, i)]]

\* The remainder of a number below twice the divisor.
LEMMA WrapOnce ==
    ASSUME NEW n \in Nat, NEW cap \in Nat \ {0}, n < 2 * cap
    PROVE  n % cap = IF n < cap THEN n ELSE n - cap
<1>1. CASE n < cap
  BY <1>1, Z3
<1>2. CASE ~(n < cap)
  BY <1>2, Z3
<1> QED BY <1>1, <1>2

\* A new ring is empty.
LEMMA NewRing ==
    ASSUME NEW cap \in Nat \ {0}
    PROVE  Ring(AllocQueue(cap)) /\ Held(AllocQueue(cap)) = 0
BY DEF Ring, Held, AllocQueue

\* netpack.pop hands over the oldest packet and leaves the others in order.
THEOREM PopTakesOldest ==
    ASSUME NEW q, Ring(q), ~Empty(q)
    PROVE  /\ Ring(Pop(q))
           /\ Held(Pop(q)) = Held(q) - 1
           /\ Top(q) = Content(q)[1]
           /\ \A i \in 1 .. Held(q) - 1 : Content(Pop(q))[i] = Content(q)[i + 1]
<1> DEFINE r == Pop(q)
<1>1. /\ q.cap \in Nat \ {0} /\ q.head \in 0 .. q.cap - 1 /\ q.tail \in 0 .. q.cap - 1
      /\ q.head # q.tail
  BY DEF Ring, Empty
<1>2. After(q, q.head) \in 0 .. q.cap - 1
  BY <1>1 DEF After
<1>3. /\ r.cap = q.cap /\ r.tail = q.tail /\ r.head = After(q, q.head)
      /\ r.queue = [q.queue EXCEPT ![q.head] = NoPacket]
  BY DEF Pop
<1>4. r.queue = [i \in 0 .. q.cap - 1 |-> r.queue[i]]
  BY <1>3 DEF Ring
<1> HIDE DEF r
<1>5. Ring(r)
  BY <1>1, <1>2, <1>3, <1>4 DEF Ring
<1>6. Held(r) = Held(q) - 1 /\ Held(q) \in Nat \ {0}
  BY <1>1, <1>3 DEF Held, After
<1>7. Top(q) = Content(q)[1]
  BY <1>1, <1>6 DEF Top, Content, Slot
<1>8. ASSUME NEW i \in 1 .. Held(q) - 1
      PROVE  Content(r)[i] = Content(q)[i + 1]
  <2>1. Slot(r, i) = Slot(q, i + 1)
    BY <1>1, <1>3, <1>6 DEF Slot, After, Held
  <2>2. Slot(q, i + 1) # q.head /\ Slot(q, i + 1) \in 0 .. q.cap - 1
    BY <1>1, <1>6 DEF Slot, Held
  <2>3. r.queue[Slot(r, i)] = q.queue[Slot(q, i + 1)]
    BY <1>3, <2>1, <2>2 DEF Ring
  <2> QED BY <1>6, <2>3 DEF Content
<1> QED BY <1>5, <1>6, <1>7, <1>8 DEF r

\* The packets of a ring that is full move to a larger one in their order:
\* np_expand_queue, called by np_push_data when the tail meets the head.
LEMMA ExpandKeepsOrder ==
    ASSUME NEW q, Ring(q), q.head = q.tail
    PROVE  LET e == ExpandQueue(q)
           IN  /\ Ring(e) /\ Held(e) = q.cap
               /\ \A i \in 1 .. q.cap : Content(e)[i] = q.queue[Slot(q, i)]
<1> DEFINE e == ExpandQueue(q)
<1>1. /\ q.cap \in Nat \ {0} /\ q.head \in 0 .. q.cap - 1 /\ QueueSize \in Nat \ {0}
  BY NetPackAssumption DEF Ring
<1>2. /\ e.cap = q.cap + QueueSize /\ e.head = 0 /\ e.tail = q.cap
  BY DEF ExpandQueue
<1>3. /\ e.queue = [i \in 0 .. e.cap - 1 |-> e.queue[i]]
      /\ \A i \in 0 .. q.cap - 1 : e.queue[i] = q.queue[(q.head + i) % q.cap]
  <2> DEFINE S == 0 .. q.cap + QueueSize - 1
             f == [i \in 0 .. q.cap + QueueSize - 1 |->
                      IF i < q.cap THEN q.queue[(q.head + i) % q.cap] ELSE NoPacket]
  <2>1. e.queue = f
    BY DEF ExpandQueue
  <2>2. \A i \in 0 .. q.cap - 1 : i \in 0 .. q.cap + QueueSize - 1 /\ i < q.cap
    BY <1>1
  <2>3. \A i \in 0 .. q.cap - 1 : f[i] = q.queue[(q.head + i) % q.cap]
    BY <2>2
  <2>4. f = [i \in S |-> f[i]]
    OBVIOUS
  <2> HIDE DEF e, f
  <2>5. S = 0 .. e.cap - 1
    BY <1>1, <1>2
  <2> HIDE DEF S
  <2>6. e.queue = [i \in S |-> e.queue[i]]
    BY <2>1, <2>4
  <2>7. e.queue = [i \in 0 .. e.cap - 1 |-> e.queue[i]]
    BY <2>5, <2>6
  <2> QED BY <2>1, <2>3, <2>7
<1> HIDE DEF e
<1>4. Ring(e) /\ Held(e) = q.cap
  BY <1>1, <1>2, <1>3 DEF Ring, Held
<1>5. ASSUME NEW i \in 1 .. q.cap
      PROVE  Content(e)[i] = q.queue[Slot(q, i)]
  <2>1. Content(e)[i] = e.queue[i - 1]
    BY <1>1, <1>2, <1>4 DEF Content, Slot
  <2>2. (q.head + (i - 1)) % q.cap = Slot(q, i)
    <3>1. q.head + (i - 1) \in Nat /\ q.head + (i - 1) < 2 * q.cap
      BY <1>1
    <3> QED BY <1>1, <3>1, WrapOnce, SMTT(40) DEF Slot
  <2> QED BY <1>1, <1>3, <2>1, <2>2, SMTT(40)
<1> QED BY <1>4, <1>5 DEF e

\* np_push_data puts a packet after all that the ring holds, and loses none.
THEOREM PushAppends ==
    ASSUME NEW q, NEW packet, Ring(q)
    PROVE  /\ Ring(PushData(q, packet))
           /\ Held(PushData(q, packet)) = Held(q) + 1
           /\ \A i \in 1 .. Held(q) : Content(PushData(q, packet))[i] = Content(q)[i]
           /\ Content(PushData(q, packet))[Held(q) + 1] = packet
<1> DEFINE p == [cap |-> q.cap, head |-> q.head, tail |-> After(q, q.tail),
                 queue |-> [q.queue EXCEPT ![q.tail] = packet]]
<1>1. /\ q.cap \in Nat \ {0} /\ q.head \in 0 .. q.cap - 1 /\ q.tail \in 0 .. q.cap - 1
  BY DEF Ring
<1>2. After(q, q.tail) \in 0 .. q.cap - 1
  BY <1>1 DEF After
<1>3. /\ p.cap = q.cap /\ p.head = q.head /\ p.tail = After(q, q.tail)
      /\ p.queue = [q.queue EXCEPT ![q.tail] = packet]
  OBVIOUS
<1>4. PushData(q, packet) = IF p.head = p.tail THEN ExpandQueue(p) ELSE p
  BY DEF PushData
<1>5. p.queue = [i \in 0 .. q.cap - 1 |-> p.queue[i]]
  BY <1>3 DEF Ring
<1> HIDE DEF p
<1>6. Ring(p)
  BY <1>1, <1>2, <1>3, <1>5 DEF Ring
<1>7. Held(q) \in 0 .. q.cap - 1
  BY <1>1 DEF Held
<1>8. \A i \in 1 .. Held(q) + 1 : Slot(p, i) = Slot(q, i) /\ Slot(q, i) \in 0 .. q.cap - 1
  BY <1>1, <1>3, <1>7 DEF Slot
<1>9. \A i \in 1 .. Held(q) : Slot(q, i) # q.tail
  BY <1>1 DEF Slot, Held
<1>10. Slot(q, Held(q) + 1) = q.tail
  BY <1>1 DEF Slot, Held
<1>11. \A i \in 1 .. Held(q) : p.queue[Slot(p, i)] = Content(q)[i]
  BY <1>3, <1>7, <1>8, <1>9 DEF Content, Ring
<1>12. p.queue[Slot(p, Held(q) + 1)] = packet
  BY <1>1, <1>3, <1>7, <1>8, <1>10 DEF Ring
<1>13. CASE p.head # p.tail
  <2>1. Held(p) = Held(q) + 1
    BY <1>1, <1>3, <1>13 DEF Held, After
  <2>2. \A i \in 1 .. Held(q) + 1 : Content(p)[i] = p.queue[Slot(p, i)]
    BY <1>7, <2>1 DEF Content
  <2>3. Held(q) + 1 \in 1 .. Held(q) + 1 /\ \A i \in 1 .. Held(q) : i \in 1 .. Held(q) + 1
    BY <1>7
  <2> QED BY <1>4, <1>6, <1>11, <1>12, <1>13, <2>1, <2>2, <2>3
<1>14. CASE p.head = p.tail
  <2> DEFINE e == ExpandQueue(p)
  <2>1. PushData(q, packet) = e
    BY <1>4, <1>14
  <2>2. /\ Ring(e) /\ Held(e) = p.cap
        /\ \A i \in 1 .. p.cap : Content(e)[i] = p.queue[Slot(p, i)]
    BY <1>6, <1>14, ExpandKeepsOrder
  <2> HIDE DEF e
  <2>3. Held(q) + 1 = q.cap
    BY <1>1, <1>3, <1>14 DEF Held, After
  <2>4. Held(e) = Held(q) + 1
    BY <1>3, <2>2, <2>3
  <2>5. Held(q) + 1 \in 1 .. p.cap /\ \A i \in 1 .. Held(q) : i \in 1 .. p.cap
    BY <1>3, <1>7, <2>3
  <2> QED BY <1>11, <1>12, <2>1, <2>2, <2>4, <2>5
<1> QED BY <1>13, <1>14
-----------------------------------------------------------------------------
(* The inductive invariant of the gate.                                    *)

\* Where the frame after the first k of s begins in the stream of its bytes.
Off(s, k) == Len(Bytes(SubSeq(s, 1, k)))

\* What is left uncomplete after n bytes that end inside frame k + 1, or with
\* frame k: nothing, half a header, or a part of the frame's bytes.
Leaves(s, k, n, u) ==
    \/ u = Nothing /\ n = Off(s, k)
    \/ /\ k < Len(s) /\ n = Off(s, k) + 1
       /\ u = HalfHeader(Len(s[k + 1]) \div Radix)
    \/ /\ k < Len(s) /\ n \in Off(s, k) + 2 .. Off(s, k + 1) - 1
       /\ u = Body(Len(s[k + 1]), SubSeq(s[k + 1], 1, n - Off(s, k) - 2))

EventOf == [type : {"ACCEPT", "CLOSE", "ERROR"}, fd : Fd]
           \cup [type : {"DATA"}, fd : Fd, data : Payload] \cup [type : {"LISTENCLOSE"}]
Is(e, type, fd) == e.type = type /\ e.fd = fd
Ends(e, fd) == Is(e, "CLOSE", fd) \/ Is(e, "ERROR", fd)
Unread == {"none", "accepted"}
Over == {"broken", "closing", "gone"}

Callback == {"connect", "disconnect", "error"}
GateTypes ==
    /\ mailbox \in Seq(EventOf)
    /\ sock \in [Fd -> Unread \cup {"started"} \cup Over]
    /\ connection \subseteq Fd
    /\ unsent \in [Fd -> Payload] /\ received \in [Fd -> Nat]
    /\ uncomplete = [fd \in Fd |-> uncomplete[fd]]
    /\ got \in [Fd -> Seq(Payload)] /\ told \in [Fd -> Seq(Callback)]
    /\ popping \in BOOLEAN /\ thrown \in Nat

\* The ring is well formed and holds packets of sockets that were read.
RingRead ==
    /\ Ring(ring)
    /\ \A i \in 1 .. Held(ring) :
          /\ Content(ring)[i].fd \in Fd /\ Content(ring)[i].data \in Payload
          /\ sock[Content(ring)[i].fd] \notin Unread

\* A socket is accepted once, told of it first, and read only when opened.
Lifecycle ==
    /\ \A i \in DOMAIN mailbox, fd \in Fd :
          /\ Is(mailbox[i], "ACCEPT", fd) =>
                /\ sock[fd] = "accepted" /\ told[fd] = <<>> /\ fd \notin connection
                /\ \A j \in DOMAIN mailbox : Is(mailbox[j], "ACCEPT", fd) => j = i
          /\ Is(mailbox[i], "DATA", fd) => sock[fd] \notin Unread
          /\ Ends(mailbox[i], fd) => sock[fd] \in Over
    /\ \A fd \in Fd :
          /\ sock[fd] = "none" => told[fd] = <<>>
          /\ fd \in connection => sock[fd] # "none" /\ Admitted(fd)

\* What a socket delivered, and the start of a frame kept for one that is
\* gone, precede an event that ends it.
EndsLast ==
    \A fd \in Fd :
        /\ \A i, j \in DOMAIN mailbox :
              Ends(mailbox[i], fd) /\ Is(mailbox[j], "DATA", fd) => j < i
        /\ sock[fd] = "gone" =>
              /\ \A j \in DOMAIN mailbox :
                    Is(mailbox[j], "DATA", fd) =>
                        \E i \in DOMAIN mailbox : j < i /\ Ends(mailbox[i], fd)
              /\ uncomplete[fd] # Nothing => \E i \in DOMAIN mailbox : Ends(mailbox[i], fd)

\* The bytes given to the frame buffer, those of the deliveries that wait and
\* those not yet delivered follow one another in the client's stream.
InStream(fd, p) ==
    /\ p \in [1 .. Len(mailbox) + 1 -> 0 .. Len(Bytes(Frames[fd]))]
    /\ p[1] = received[fd]
    /\ unsent[fd] = From(Bytes(Frames[fd]), p[Len(mailbox) + 1] + 1)
    /\ \A i \in 1 .. Len(mailbox) :
          IF Is(mailbox[i], "DATA", fd)
          THEN p[i] < p[i + 1] /\ mailbox[i].data = SubSeq(Bytes(Frames[fd]), p[i] + 1, p[i + 1])
          ELSE p[i + 1] = p[i]
StreamKept == \A fd \in Fd : \E p \in [1 .. Len(mailbox) + 1 -> Nat] : InStream(fd, p)

\* As long as more may come, what is uncomplete is the start of a frame.
Uncut(fd) == sock[fd] \notin Over \/ \E i \in DOMAIN mailbox : Is(mailbox[i], "DATA", fd)
Reassembly ==
    \A fd \in Fd :
        /\ Uncut(fd) => \E k \in 0 .. Len(Frames[fd]) :
                            Leaves(Frames[fd], k, received[fd], uncomplete[fd])
        /\ sock[fd] \in Unread => received[fd] = 0 /\ got[fd] = <<>>

\* The messages given and those in the ring are the frames completed.
Waiting(fd) == IF Held(ring) > 0 /\ Content(ring)[1].fd = fd THEN Held(ring) ELSE 0
Delivered ==
    thrown = 0 =>
        /\ Idle => Held(ring) = 0
        /\ \A i, j \in 1 .. Held(ring) : Content(ring)[i].fd = Content(ring)[j].fd
        /\ \A fd \in connection :
              LET n == Completed(Frames[fd], received[fd])
              IN  /\ n \in 0 .. Len(Frames[fd]) /\ Waiting(fd) <= n
                  /\ got[fd] = SubSeq(Frames[fd], 1, n - Waiting(fd))
                  /\ \A i \in 1 .. Waiting(fd) :
                        Content(ring)[i].data = Frames[fd][n - Waiting(fd) + i]

GateInv ==
    /\ GateTypes /\ RingRead /\ Lifecycle /\ EndsLast /\ StreamKept /\ Reassembly /\ Delivered
-----------------------------------------------------------------------------
(* The recursive definitions have the values their equations say.          *)

\* A set of naturals that is not empty has a least member.
LEMMA LeastExists ==
    ASSUME NEW S, S \subseteq Nat, S # {}
    PROVE  \E m \in S : \A k \in S : m <= k
<1> DEFINE R == {x \in Nat \X Nat : x[1] < x[2]}
<1>1. IsWellFoundedOn(R, Nat)
  BY NatLessThanWellFounded DEF OpToRel
<1>2. \A k, m \in Nat : k < m => <<k, m>> \in R
  OBVIOUS
<1> HIDE DEF R
<1>3. \E m \in S : \A k \in S : <<k, m>> \notin R
  BY <1>1, WFMin
<1>4. \A k, m \in S : ~(k < m) => m <= k
  OBVIOUS
<1> QED BY <1>2, <1>3, <1>4

\* The right side of Split's equation, for a function f of shorter strings.
Rest(b) == From(From(b, 3), ReadSize(b) + 1)
SplitOf(f, b) ==
    IF b = <<>> THEN [frames |-> <<>>, left |-> Nothing]
    ELSE IF Len(b) = 1 THEN [frames |-> <<>>, left |-> HalfHeader(b[1])]
    ELSE IF ~Complete(From(b, 3), ReadSize(b))
         THEN [frames |-> <<>>, left |-> Body(ReadSize(b), From(b, 3))]
         ELSE [frames |-> <<SubSeq(From(b, 3), 1, ReadSize(b))>> \o f[Rest(b)].frames,
               left |-> f[Rest(b)].left]
Solves(f, S) == f = [b \in S |-> SplitOf(f, b)]
UpTo(n) == {b \in Payload : Len(b) <= n}

\* A suffix of a sequence, element by element.
LEMMA FromIs ==
    ASSUME NEW S, NEW s \in Seq(S), NEW m \in 1 .. Len(s) + 1
    PROVE  /\ From(s, m) \in Seq(S) /\ Len(From(s, m)) = Len(s) - m + 1
           /\ \A i \in 1 .. Len(s) - m + 1 : From(s, m)[i] = s[m + i - 1]
<1>1. Len(s) \in Nat /\ m \in Int /\ \A i \in 1 .. Len(s) : s[i] \in S
  BY LenProperties
<1>2. \A i \in m .. Len(s) : s[i] \in S
  BY <1>1
<1>3. /\ SubSeq(s, m, Len(s)) \in Seq(S)
      /\ Len(SubSeq(s, m, Len(s))) = IF m <= Len(s) THEN Len(s) - m + 1 ELSE 0
      /\ \A i \in 1 .. Len(s) - m + 1 : SubSeq(s, m, Len(s))[i] = s[m + i - 1]
  BY <1>1, <1>2, SubSeqProperties
<1> QED BY <1>1, <1>3 DEF From

\* What follows a whole frame is a shorter string of bytes.
LEMMA RestShorter ==
    ASSUME NEW b \in Payload, b # <<>>, Len(b) # 1, Complete(From(b, 3), ReadSize(b))
    PROVE  /\ Rest(b) \in Payload /\ Len(Rest(b)) = Len(b) - 2 - ReadSize(b)
           /\ ReadSize(b) \in Nat
<1>1. b \in Seq(Byte) /\ Len(b) \in Nat /\ Len(b) >= 2 /\ Radix \in Nat
  <2>1. b \in Seq(Byte) /\ Len(b) \in Nat \ {0}
    BY EmptySeq DEF Payload
  <2>2. Len(b) >= 2
    <3>1. \A n \in Nat \ {0} : n # 1 => n >= 2
      OBVIOUS
    <3> QED BY ONLY <2>1, <3>1, Len(b) # 1
  <2>3. Radix \in Nat
    BY NetPackAssumption
  <2> QED BY <2>1, <2>2, <2>3
<1>2. b[1] \in Nat /\ b[2] \in Nat
  BY <1>1, NetPackAssumption DEF Payload, Byte
<1>3. ReadSize(b) \in Nat
  BY <1>1, <1>2 DEF ReadSize
<1> DEFINE c == From(b, 3)
<1>4. c \in Seq(Byte) /\ Len(c) = Len(b) - 2
  BY <1>1, FromIs
<1>5. Len(c) >= ReadSize(b)
  BY DEF Complete
<1>6. Rest(b) \in Seq(Byte) /\ Len(Rest(b)) = Len(c) - ReadSize(b)
  <2> HIDE DEF c
  <2>1. ReadSize(b) + 1 \in 1 .. Len(c) + 1
    BY <1>1, <1>3, <1>4, <1>5
  <2>2. From(c, ReadSize(b) + 1) \in Seq(Byte)
        /\ Len(From(c, ReadSize(b) + 1)) = Len(c) - ReadSize(b)
    BY <1>1, <1>3, <1>4, <2>1, FromIs
  <2> QED BY <2>2 DEF Rest, c
<1> QED BY <1>1, <1>3, <1>4, <1>6 DEF Payload

\* The equation reads the function at that shorter string only.
LEMMA SplitReads ==
    ASSUME NEW f, NEW g, NEW b \in Payload,
           \A c \in Payload : Len(c) < Len(b) => f[c] = g[c]
    PROVE  SplitOf(f, b) = SplitOf(g, b)
<1>1. CASE b = <<>> \/ Len(b) = 1 \/ ~Complete(From(b, 3), ReadSize(b))
  BY <1>1 DEF SplitOf
<1>2. CASE ~(b = <<>> \/ Len(b) = 1 \/ ~Complete(From(b, 3), ReadSize(b)))
  <2>1. Rest(b) \in Payload /\ Len(Rest(b)) < Len(b)
    <3>1. Len(b) \in Nat
      BY DEF Payload
    <3> QED BY <1>2, <3>1, RestShorter
  <2>2. f[Rest(b)] = g[Rest(b)]
    BY <2>1
  <2> QED BY <1>2, <2>2 DEF SplitOf
<1> QED BY <1>1, <1>2

\* A function that solves the equation exists on strings of any length.
LEMMA SplitUpTo ==
    ASSUME NEW n \in Nat
    PROVE  \E f : Solves(f, UpTo(n))
<1> DEFINE Lacks == {m \in Nat : ~\E f : Solves(f, UpTo(m))}
<1> SUFFICES ASSUME Lacks # {} PROVE FALSE
  OBVIOUS
<1>1. PICK m \in Lacks : \A k \in Lacks : m <= k
  <2>1. Lacks \subseteq Nat
    OBVIOUS
  <2> HIDE DEF Lacks
  <2> QED BY <2>1, LeastExists
<1>2. m \in Nat /\ ~\E f : Solves(f, UpTo(m))
  OBVIOUS
<1>3. \E f : \A c \in Payload : Len(c) < m => f[c] = SplitOf(f, c)
  <2>1. CASE m = 0
    <3>1. \A c \in Payload : Len(c) \in Nat
      BY DEF Payload
    <3> QED BY <2>1, <3>1
  <2>2. CASE m # 0
    <3>1. m - 1 \in Nat /\ m - 1 \notin Lacks
      BY <1>1, <1>2, <2>2
    <3>2. PICK f : Solves(f, UpTo(m - 1))
      BY <3>1
    <3>3. \A c \in Payload : Len(c) < m => c \in UpTo(m - 1)
      BY <1>2 DEF UpTo, Payload
    <3> QED BY <3>2, <3>3 DEF Solves
  <2> QED BY <2>1, <2>2
<1>4. PICK f : \A c \in Payload : Len(c) < m => f[c] = SplitOf(f, c)
  BY <1>3
<1> DEFINE g == [b \in UpTo(m) |-> SplitOf(f, b)]
<1>5. ASSUME NEW b \in UpTo(m) PROVE SplitOf(g, b) = SplitOf(f, b)
  <2>1. b \in Payload /\ Len(b) <= m /\ Len(b) \in Nat
    BY DEF UpTo, Payload
  <2>2. ASSUME NEW c \in Payload, Len(c) < Len(b) PROVE f[c] = g[c]
    <3>1. Len(c) < m /\ c \in UpTo(m)
      BY <1>2, <2>1, <2>2 DEF UpTo, Payload
    <3>2. g[c] = SplitOf(f, c)
      BY <3>1
    <3> QED BY <1>4, <2>2, <3>1, <3>2
  <2> HIDE DEF g
  <2> QED BY <2>1, <2>2, SplitReads
<1>6. Solves(g, UpTo(m))
  <2>1. g = [b \in UpTo(m) |-> SplitOf(g, b)]
    BY <1>5
  <2> QED BY <2>1 DEF Solves
<1> QED BY <1>2, <1>6

\* Two solutions agree where both are defined.
LEMMA SplitAgrees ==
    ASSUME NEW f, NEW g, NEW n \in Nat, NEW k \in Nat,
           Solves(f, UpTo(n)), Solves(g, UpTo(k)),
           NEW b \in UpTo(n), b \in UpTo(k)
    PROVE  f[b] = g[b]
<1> DEFINE Differ == {j \in Nat : \E c \in UpTo(n) \cap UpTo(k) : Len(c) = j /\ f[c] # g[c]}
<1>1. SUFFICES ASSUME Differ # {} PROVE FALSE
  BY DEF UpTo, Payload
<1>2. PICK m \in Differ : \A j \in Differ : m <= j
  <2>1. Differ \subseteq Nat
    OBVIOUS
  <2> HIDE DEF Differ
  <2> QED BY <1>1, <2>1, LeastExists
<1>3. PICK c \in UpTo(n) \cap UpTo(k) : Len(c) = m /\ f[c] # g[c]
  OBVIOUS
<1>4. c \in Payload /\ m \in Nat /\ m <= n /\ m <= k
  BY <1>3 DEF UpTo, Payload
<1>5. ASSUME NEW d \in Payload, Len(d) < Len(c) PROVE f[d] = g[d]
  <2>1. Len(d) \in Nat /\ Len(d) < m
    BY <1>3, <1>5 DEF Payload
  <2>2. d \in UpTo(n) \cap UpTo(k)
    BY <1>4, <2>1 DEF UpTo
  <2>3. Len(d) \notin Differ
    <3> HIDE DEF Differ
    <3> QED BY <1>2, <1>4, <2>1
  <2> QED BY <2>1, <2>2, <2>3
<1>6. SplitOf(f, c) = SplitOf(g, c)
  BY <1>4, <1>5, SplitReads
<1>7. f[c] = SplitOf(f, c) /\ g[c] = SplitOf(g, c)
  BY <1>3 DEF Solves
<1> QED BY <1>3, <1>6, <1>7

\* So Split is defined, and does what push_more does.
LEMMA SplitIs ==
    ASSUME NEW b \in Payload
    PROVE  Split[b] = SplitOf(Split, b)
<1> DEFINE at(n) == CHOOSE f : Solves(f, UpTo(n))
           F == [c \in Payload |-> at(Len(c))[c]]
<1>1. \A n \in Nat : Solves(at(n), UpTo(n))
  BY SplitUpTo
<1>2. ASSUME NEW c \in Payload PROVE F[c] = SplitOf(F, c)
  <2>1. Len(c) \in Nat /\ c \in UpTo(Len(c))
    BY DEF UpTo, Payload
  <2>2. F[c] = SplitOf(at(Len(c)), c)
    <3>1. F[c] = at(Len(c))[c]
      OBVIOUS
    <3>2. Solves(at(Len(c)), UpTo(Len(c)))
      BY <1>1, <2>1
    <3> HIDE DEF F, at
    <3> QED BY <2>1, <3>1, <3>2 DEF Solves
  <2>3. ASSUME NEW d \in Payload, Len(d) < Len(c) PROVE at(Len(c))[d] = F[d]
    <3>1. Len(d) \in Nat /\ d \in UpTo(Len(d)) /\ d \in UpTo(Len(c))
      BY <2>1, <2>3 DEF UpTo, Payload
    <3>2. F[d] = at(Len(d))[d]
      OBVIOUS
    <3>3. Solves(at(Len(c)), UpTo(Len(c))) /\ Solves(at(Len(d)), UpTo(Len(d)))
      BY <1>1, <2>1, <3>1
    <3> HIDE DEF F, at
    <3> QED BY <2>1, <3>1, <3>2, <3>3, SplitAgrees
  <2> HIDE DEF F, at
  <2>4. SplitOf(at(Len(c)), c) = SplitOf(F, c)
    BY <2>3, SplitReads
  <2> QED BY <2>2, <2>4
<1>3. Solves(F, Payload)
  <2>1. F = [c \in Payload |-> SplitOf(F, c)]
    BY <1>2
  <2> HIDE DEF F
  <2> QED BY <2>1 DEF Solves
<1>4. Split = CHOOSE f : Solves(f, Payload)
  BY DEF Split, Solves, SplitOf, Rest
<1>5. Solves(Split, Payload)
  <2> HIDE DEF F
  <2> QED BY <1>3, <1>4
<1> QED BY <1>5 DEF Solves

\* The recursion of PushAll has a solution up to any n.
Pushed(f, q, fd, s, i) ==
    IF i = 0 THEN q ELSE PushData(f[i - 1], [fd |-> fd, data |-> s[i]])
Pushes(f, q, fd, s, n) == f = [i \in 0 .. n |-> Pushed(f, q, fd, s, i)]
\* PushAll is defined too.
LEMMA PushesUpTo ==
    ASSUME NEW q, NEW fd, NEW s, NEW n \in Nat
    PROVE  \E f : Pushes(f, q, fd, s, n)
<1> DEFINE Lacks == {m \in Nat : ~\E f : Pushes(f, q, fd, s, m)}
<1> SUFFICES ASSUME Lacks # {} PROVE FALSE
  OBVIOUS
<1>1. PICK m \in Lacks : \A k \in Lacks : m <= k
  <2>1. Lacks \subseteq Nat
    OBVIOUS
  <2> HIDE DEF Lacks
  <2> QED BY <2>1, LeastExists
<1>2. m \in Nat /\ ~\E f : Pushes(f, q, fd, s, m)
  OBVIOUS
<1>3. \E f : \A i \in 0 .. m - 1 : f[i] = Pushed(f, q, fd, s, i)
  <2>1. CASE m = 0
    BY <2>1
  <2>2. CASE m # 0
    <3>1. m - 1 \in Nat /\ m - 1 \notin Lacks
      BY <1>1, <1>2, <2>2
    <3>2. PICK f : Pushes(f, q, fd, s, m - 1)
      BY <3>1
    <3> QED BY <3>2 DEF Pushes
  <2> QED BY <2>1, <2>2
<1>4. PICK f : \A i \in 0 .. m - 1 : f[i] = Pushed(f, q, fd, s, i)
  BY <1>3
<1> DEFINE g == [i \in 0 .. m |-> Pushed(f, q, fd, s, i)]
<1>5. ASSUME NEW i \in 0 .. m PROVE Pushed(g, q, fd, s, i) = Pushed(f, q, fd, s, i)
  <2>1. CASE i = 0
    BY <2>1 DEF Pushed
  <2>2. CASE i # 0
    <3>1. i - 1 \in 0 .. m /\ i - 1 \in 0 .. m - 1
      BY <1>2, <2>2
    <3>2. g[i - 1] = f[i - 1]
      BY <1>4, <3>1
    <3> QED BY <2>2, <3>2 DEF Pushed
  <2> QED BY <2>1, <2>2
<1>6. Pushes(g, q, fd, s, m)
  <2>1. g = [i \in 0 .. m |-> Pushed(g, q, fd, s, i)]
    BY <1>5
  <2> QED BY <2>1 DEF Pushes
<1> QED BY <1>2, <1>6

\* All the frames of a delivery go into the ring after what it holds.
LEMMA PushAllAppends ==
    ASSUME NEW T, NEW q, NEW fd, NEW s \in Seq(T), Ring(q)
    PROVE  LET r == PushAll(q, fd, s)
           IN  /\ Ring(r) /\ Held(r) = Held(q) + Len(s)
               /\ \A i \in 1 .. Held(q) : Content(r)[i] = Content(q)[i]
               /\ \A i \in 1 .. Len(s) : Content(r)[Held(q) + i] = [fd |-> fd, data |-> s[i]]
<1> DEFINE n == Len(s)
           f == CHOOSE f : Pushes(f, q, fd, s, n)
<1>1. PushAll(q, fd, s) = f[n]
  BY DEF PushAll, Pushes, Pushed
<1>2. n \in Nat /\ Held(q) \in Nat
  BY LenProperties DEF Held, Ring
<1> HIDE DEF n
<1>3. Pushes(f, q, fd, s, n)
  BY <1>2, PushesUpTo
<1> HIDE DEF f
<1>4. \A i \in 0 .. n : f[i] = Pushed(f, q, fd, s, i)
  BY <1>3 DEF Pushes
<1> DEFINE Good(m) ==
              /\ Ring(f[m]) /\ Held(f[m]) = Held(q) + m
              /\ \A i \in 1 .. Held(q) : Content(f[m])[i] = Content(q)[i]
              /\ \A i \in 1 .. m : Content(f[m])[Held(q) + i] = [fd |-> fd, data |-> s[i]]
           Bad == {m \in 0 .. n : ~Good(m)}
<1>5. SUFFICES ASSUME Bad # {} PROVE FALSE
  <2>1. Good(n)
    BY <1>2, <1>5
  <2> QED BY <1>1, <2>1 DEF n
<1>6. PICK m \in Bad : \A k \in Bad : m <= k
  <2>1. Bad \subseteq Nat
    OBVIOUS
  <2> HIDE DEF Bad
  <2> QED BY <1>5, <2>1, LeastExists
<1>7. m \in 0 .. n /\ m \in Nat /\ ~Good(m)
  BY <1>2, <1>6
<1>8. m # 0
  <2>1. SUFFICES ASSUME m = 0 PROVE FALSE
    OBVIOUS
  <2>2. f[0] = q
    BY <1>4, <1>7, <2>1 DEF Pushed
  <2>3. Good(0)
    BY <1>2, <2>2
  <2> QED BY <1>7, <2>1, <2>3
<1> DEFINE l == m - 1
<1>9. l \in 0 .. n /\ l \in Nat /\ l < m /\ m = l + 1 /\ l \notin Bad
  <2>1. l \in 0 .. n /\ l \in Nat /\ l < m /\ m = l + 1
    BY <1>2, <1>7, <1>8
  <2>2. l \notin Bad
    <3> HIDE DEF Bad
    <3> QED BY <1>6, <1>7, <2>1
  <2> QED BY <2>1, <2>2
<1>10. Good(l)
  BY <1>9
<1>11. f[m] = PushData(f[l], [fd |-> fd, data |-> s[m]])
  BY <1>4, <1>7, <1>8 DEF Pushed
<1> HIDE DEF l, Bad
<1> DEFINE x == [fd |-> fd, data |-> s[m]]
<1>12. /\ Ring(f[m]) /\ Held(f[m]) = Held(f[l]) + 1
       /\ \A i \in 1 .. Held(f[l]) : Content(f[m])[i] = Content(f[l])[i]
       /\ Content(f[m])[Held(f[l]) + 1] = x
  <2> HIDE DEF x
  <2> QED BY <1>10, <1>11, PushAppends DEF x
<1> HIDE DEF x
<1>13. Held(f[m]) = Held(q) + m /\ Held(f[l]) = Held(q) + l
  BY <1>2, <1>9, <1>10, <1>12
<1>14. \A i \in 1 .. Held(q) : Content(f[m])[i] = Content(q)[i]
  <2>1. \A i \in 1 .. Held(q) : i \in 1 .. Held(q) + l
    BY <1>2, <1>9
  <2> QED BY <1>10, <1>12, <1>13, <2>1
<1>15. ASSUME NEW i \in 1 .. m PROVE Content(f[m])[Held(q) + i] = [fd |-> fd, data |-> s[i]]
  <2>1. CASE i = m
    <3>1. Held(q) + i = Held(f[l]) + 1
      BY <1>2, <1>9, <1>13, <2>1
    <3> QED BY <1>12, <2>1, <3>1 DEF x
  <2>2. CASE i # m
    <3>1. i \in 1 .. l /\ Held(q) + i \in 1 .. Held(q) + l
      BY <1>2, <1>9, <2>2
    <3> QED BY <1>10, <1>12, <1>13, <3>1
  <2> QED BY <2>1, <2>2
<1>16. Good(m)
  BY <1>12, <1>13, <1>14, <1>15
<1> QED BY <1>7, <1>16
-----------------------------------------------------------------------------
(* The stream of a client's frames.                                        *)

\* The two bytes of a length are bytes, and tell it.
LEMMA LengthTold ==
    ASSUME NEW n \in Nat, n < Radix * Radix
    PROVE  /\ n \div Radix \in Byte /\ n % Radix \in Byte
           /\ (n \div Radix) * Radix + (n % Radix) = n
<1>1. Radix \in Nat \ {0, 1}
  BY NetPackAssumption
<1>2. n \div Radix \in 0 .. Radix - 1
  BY <1>1, Z3
<1>3. n % Radix \in 0 .. Radix - 1
  BY <1>1, Z3
<1>4. n % Radix = n - Radix * (n \div Radix)
  BY <1>1, Z3
<1> DEFINE q == n \div Radix
           r == n % Radix
<1>5. q \in Int /\ r \in Int /\ r = n - Radix * q
  BY <1>1, <1>2, <1>3, <1>4
<1>6. q * Radix + r = n
  <2> HIDE DEF q, r
  <2> QED BY <1>1, <1>5
<1>7. (n \div Radix) * Radix + (n % Radix) = n
  BY <1>6
<1> QED BY <1>2, <1>3, <1>7 DEF Byte

\* What js_netpack_pack makes of a payload.
LEMMA Packed ==
    ASSUME NEW p \in Packable
    PROVE  /\ Pack(p) \in Payload /\ Len(Pack(p)) = Len(p) + 2
           /\ p \in Payload /\ Len(p) \in Nat
           /\ Pack(p)[1] = Len(p) \div Radix /\ Pack(p)[2] = Len(p) % Radix
           /\ \A i \in 1 .. Len(p) : Pack(p)[i + 2] = p[i]
<1>1. p \in Payload /\ p \in Seq(Byte) /\ Len(p) \in Nat /\ Len(p) < Radix * Radix
  BY LenProperties DEF Packable, Payload
<1> DEFINE hi == Len(p) \div Radix
           lo == Len(p) % Radix
<1>2. hi \in Byte /\ lo \in Byte
  BY <1>1, LengthTold
<1> HIDE DEF hi, lo
<1> DEFINE h == <<hi, lo>>
<1>3. h \in Seq(Byte) /\ Len(h) = 2 /\ h[1] = hi /\ h[2] = lo
  BY <1>2
<1> HIDE DEF h
<1>4. /\ h \o p \in Seq(Byte) /\ Len(h \o p) = Len(h) + Len(p)
      /\ \A i \in 1 .. Len(h) + Len(p) :
            (h \o p)[i] = IF i <= Len(h) THEN h[i] ELSE p[i - Len(h)]
  BY <1>1, <1>3, ConcatProperties
<1>5. Pack(p) = h \o p
  BY DEF Pack, h, hi, lo
<1>6. (h \o p)[1] = hi /\ (h \o p)[2] = lo
  <2>1. 1 \in 1 .. Len(h) + Len(p) /\ 2 \in 1 .. Len(h) + Len(p) /\ 1 <= Len(h) /\ 2 <= Len(h)
    BY <1>1, <1>3
  <2> QED BY <1>3, <1>4, <2>1
<1>7. ASSUME NEW i \in 1 .. Len(p) PROVE (h \o p)[i + 2] = p[i]
  <2>1. i + 2 \in 1 .. Len(h) + Len(p) /\ ~(i + 2 <= Len(h)) /\ i + 2 - Len(h) = i
    BY <1>1, <1>3
  <2> QED BY <1>4, <2>1
<1> QED BY <1>1, <1>3, <1>4, <1>5, <1>6, <1>7 DEF Payload, hi, lo

\* FlattenSeq's recursion has a solution, and any two agree.
Flat(f, t, i) == IF i = 1 THEN t[i] ELSE f[i - 1] \o t[i]
Flattens(f, t, n) == f = [i \in 1 .. n |-> Flat(f, t, i)]
\* FlattenSeq is defined.
LEMMA FlattensUpTo ==
    ASSUME NEW t, NEW n \in Nat
    PROVE  \E f : Flattens(f, t, n)
<1> DEFINE Lacks == {m \in Nat : ~\E f : Flattens(f, t, m)}
<1> SUFFICES ASSUME Lacks # {} PROVE FALSE
  OBVIOUS
<1>1. PICK m \in Lacks : \A k \in Lacks : m <= k
  <2>1. Lacks \subseteq Nat
    OBVIOUS
  <2> HIDE DEF Lacks
  <2> QED BY <2>1, LeastExists
<1>2. m \in Nat /\ ~\E f : Flattens(f, t, m)
  OBVIOUS
<1>3. \E f : \A i \in 1 .. m - 1 : f[i] = Flat(f, t, i)
  <2>1. CASE m = 0
    BY <2>1
  <2>2. CASE m # 0
    <3>1. m - 1 \in Nat /\ m - 1 \notin Lacks
      BY <1>1, <1>2, <2>2
    <3>2. PICK f : Flattens(f, t, m - 1)
      BY <3>1
    <3> QED BY <3>2 DEF Flattens
  <2> QED BY <2>1, <2>2
<1>4. PICK f : \A i \in 1 .. m - 1 : f[i] = Flat(f, t, i)
  BY <1>3
<1> DEFINE g == [i \in 1 .. m |-> Flat(f, t, i)]
<1>5. ASSUME NEW i \in 1 .. m PROVE Flat(g, t, i) = Flat(f, t, i)
  <2>1. CASE i = 1
    BY <2>1 DEF Flat
  <2>2. CASE i # 1
    <3>1. i - 1 \in 1 .. m /\ i - 1 \in 1 .. m - 1
      BY <1>2, <2>2
    <3>2. g[i - 1] = f[i - 1]
      BY <1>4, <3>1
    <3> HIDE DEF g
    <3>3. Flat(g, t, i) = g[i - 1] \o t[i] /\ Flat(f, t, i) = f[i - 1] \o t[i]
      BY <2>2 DEF Flat
    <3> QED BY <3>2, <3>3
  <2> QED BY <2>1, <2>2
<1>6. Flattens(g, t, m)
  <2>1. g = [i \in 1 .. m |-> Flat(g, t, i)]
    BY <1>5
  <2> QED BY <2>1 DEF Flattens
<1> QED BY <1>2, <1>6

\* Its first values depend on the first sequences only.
LEMMA FlattensAgree ==
    ASSUME NEW f, NEW g, NEW t, NEW u, NEW n \in Nat, NEW k \in 1 .. n,
           Flattens(f, t, n), Flattens(g, u, k), \A i \in 1 .. k : t[i] = u[i]
    PROVE  f[k] = g[k]
<1> DEFINE Differ == {i \in 1 .. k : f[i] # g[i]}
<1>1. SUFFICES ASSUME Differ # {} PROVE FALSE
  OBVIOUS
<1>2. PICK m \in Differ : \A j \in Differ : m <= j
  <2>1. Differ \subseteq Nat
    OBVIOUS
  <2> HIDE DEF Differ
  <2> QED BY <1>1, <2>1, LeastExists
<1>3. m \in 1 .. k /\ m \in 1 .. n /\ f[m] # g[m]
  OBVIOUS
<1>4. f[m] = Flat(f, t, m) /\ g[m] = Flat(g, u, m) /\ t[m] = u[m]
  BY <1>3 DEF Flattens
<1>5. m # 1
  BY <1>3, <1>4 DEF Flat
<1>6. m - 1 \in 1 .. k /\ ~(m <= m - 1)
  BY <1>3, <1>5
<1>7. f[m - 1] = g[m - 1]
  BY <1>2, <1>6
<1> QED BY <1>3, <1>4, <1>5, <1>7 DEF Flat

\* The concatenation of a sequence of sequences.
LEMMA FlattenIs ==
    ASSUME NEW S, NEW t \in Seq(S), t # <<>>
    PROVE  \E f : Flattens(f, t, Len(t)) /\ FlattenSeq(t) = f[Len(t)]
<1> DEFINE n == Len(t)
           f == CHOOSE f : Flattens(f, t, n)
<1>1. n \in Nat /\ n # 0
  BY EmptySeq
<1>2. FlattenSeq(t) = f[n]
  BY <1>1 DEF FlattenSeq, Flattens, Flat
<1> HIDE DEF n
<1>3. Flattens(f, t, n)
  BY <1>1, FlattensUpTo
<1> QED BY <1>2, <1>3 DEF n

\* The bytes of the first k frames are those of the first k - 1, then frame k.
Begun(P, s) ==
    /\ P \in [0 .. Len(s) -> Payload] /\ P[0] = <<>>
    /\ \A k \in 1 .. Len(s) : P[k] = P[k - 1] \o Pack(s[k])
\* The bytes of the first frames, frame by frame.
LEMMA BytesBegun ==
    ASSUME NEW s \in Seq(Packable)
    PROVE  \E P : Begun(P, s) /\ \A k \in 0 .. Len(s) : Bytes(SubSeq(s, 1, k)) = P[k]
<1> DEFINE n == Len(s)
           t(k) == [i \in 1 .. k |-> Pack(s[i])]
<1>1. n \in Nat /\ DOMAIN s = 1 .. n /\ \A i \in 1 .. n : s[i] \in Packable
  BY LenProperties
<1>2. \A i \in 1 .. n : Pack(s[i]) \in Payload
  BY <1>1, Packed
<1>3. ASSUME NEW k \in 0 .. n
      PROVE  /\ t(k) \in Seq(Payload) /\ Len(t(k)) = k
             /\ Bytes(SubSeq(s, 1, k)) = FlattenSeq(t(k))
  <2>1. k \in Nat /\ \A i \in 1 .. k : i \in 1 .. n
    BY <1>1
  <2>2. t(k) \in Seq(Payload) /\ Len(t(k)) = k
    <3>1. \A i \in 1 .. k : Pack(s[i]) \in Payload
      BY <1>2, <2>1
    <3> QED BY <2>1, <3>1
  <2> DEFINE c == SubSeq(s, 1, k)
  <2>3. c \in Seq(Packable) /\ Len(c) = k /\ \A i \in 1 .. k : c[i] = s[i]
    BY <1>1, <2>1, SubSeqProperties
  <2> HIDE DEF c
  <2>4. DOMAIN c = 1 .. k
    BY <2>3, LenProperties
  <2>5. [i \in DOMAIN c |-> Pack(c[i])] = t(k)
    BY <2>3, <2>4
  <2> QED BY <2>2, <2>5 DEF Bytes, c
<1>4. t(n) \in Seq(Payload) /\ Len(t(n)) = n
  <2>1. n \in 0 .. n
    BY <1>1
  <2> HIDE DEF n, t
  <2> QED BY <1>3, <2>1
<1>5. PICK f : Flattens(f, t(n), n)
  BY <1>1, FlattensUpTo
<1> DEFINE P == [k \in 0 .. n |-> IF k = 0 THEN <<>> ELSE f[k]]
<1>6. P[0] = <<>>
  BY <1>1
<1>7. ASSUME NEW k \in 1 .. n PROVE P[k] = P[k - 1] \o Pack(s[k])
  <2>1. k \in 0 .. n /\ k # 0 /\ k - 1 \in 0 .. n
    BY <1>1
  <2>2. P[k] = f[k] /\ P[k - 1] = IF k - 1 = 0 THEN <<>> ELSE f[k - 1]
    BY <2>1
  <2>3. f[k] = Flat(f, t(n), k) /\ t(n)[k] = Pack(s[k])
    BY <1>5 DEF Flattens
  <2>4. CASE k = 1
    <3>1. <<>> \o Pack(s[k]) = Pack(s[k])
      BY <1>2, ConcatEmptySeq DEF Payload
    <3> HIDE DEF P, t
    <3> QED BY <2>2, <2>3, <2>4, <3>1 DEF Flat
  <2>5. CASE k # 1
    <3>1. k - 1 # 0
      BY <2>5
    <3> HIDE DEF P, t
    <3> QED BY <2>2, <2>3, <2>5, <3>1 DEF Flat
  <2> QED BY <2>4, <2>5
<1>8. ASSUME NEW k \in 0 .. n PROVE Bytes(SubSeq(s, 1, k)) = P[k]
  <2>1. Bytes(SubSeq(s, 1, k)) = FlattenSeq(t(k)) /\ t(k) \in Seq(Payload) /\ Len(t(k)) = k
    BY <1>3
  <2>2. CASE k = 0
    <3>1. t(k) = <<>>
      BY <2>2
    <3>2. FlattenSeq(<<>>) = <<>>
      BY DEF FlattenSeq
    <3> HIDE DEF t, P
    <3> QED BY <1>6, <2>1, <2>2, <3>1, <3>2
  <2>3. CASE k # 0
    <3>1. k \in Nat /\ k \in 1 .. n /\ k \in 1 .. k
      BY <1>1, <2>3
    <3>2. t(k) # <<>>
      BY <2>1, <2>3, EmptySeq
    <3>3. \A i \in 1 .. k : t(n)[i] = t(k)[i]
      BY <3>1
    <3>4. P[k] = f[k]
      BY <2>3
    <3> HIDE DEF t, P
    <3>5. PICK g : Flattens(g, t(k), k) /\ FlattenSeq(t(k)) = g[k]
      BY <2>1, <3>2, FlattenIs
    <3>6. f[k] = g[k]
      BY <1>1, <1>5, <3>1, <3>3, <3>5, FlattensAgree
    <3> QED BY <2>1, <3>4, <3>5, <3>6
  <2> QED BY <2>2, <2>3
<1> HIDE DEF P, t
<1>9. ASSUME NEW k \in 0 .. n PROVE P[k] \in Payload
  <2> DEFINE Bad == {j \in 0 .. n : P[j] \notin Payload}
  <2>1. SUFFICES ASSUME Bad # {} PROVE FALSE
    OBVIOUS
  <2>2. PICK m \in Bad : \A j \in Bad : m <= j
    <3>1. Bad \subseteq Nat
      OBVIOUS
    <3> HIDE DEF Bad
    <3> QED BY <2>1, <3>1, LeastExists
  <2>3. m \in 0 .. n /\ P[m] \notin Payload
    OBVIOUS
  <2>4. <<>> \in Payload
    BY EmptySeq DEF Payload
  <2>5. m # 0
    BY <1>6, <2>3, <2>4
  <2>6. m \in 1 .. n /\ m - 1 \in 0 .. n /\ ~(m <= m - 1)
    BY <1>1, <2>3, <2>5
  <2>7. P[m - 1] \in Payload
    BY <2>2, <2>6
  <2>8. P[m - 1] \o Pack(s[m]) \in Payload
    BY <1>2, <2>6, <2>7, ConcatProperties DEF Payload
  <2> QED BY <1>7, <2>3, <2>6, <2>8
<1>10. P \in [0 .. n -> Payload]
  <2>1. P = [k \in 0 .. n |-> P[k]]
    BY DEF P
  <2> QED BY <1>9, <2>1
<1>11. Begun(P, s)
  BY <1>6, <1>7, <1>10 DEF Begun
<1> QED BY <1>8, <1>11

\* What the first k frames put into the stream stays where it is.
LEMMA BegunStays ==
    ASSUME NEW s \in Seq(Packable), NEW P, Begun(P, s), NEW n \in 0 .. Len(s),
           NEW k \in 0 .. n
    PROVE  Len(P[k]) <= Len(P[n]) /\ \A i \in 1 .. Len(P[k]) : P[n][i] = P[k][i]
<1> DEFINE Good(m) == Len(P[k]) <= Len(P[m]) /\ \A i \in 1 .. Len(P[k]) : P[m][i] = P[k][i]
           Bad == {m \in k .. n : ~Good(m)}
<1>1. Len(s) \in Nat /\ n \in Nat /\ k \in Nat /\ k <= n /\ n <= Len(s)
  BY LenProperties
<1>2. \A m \in 0 .. Len(s) : P[m] \in Seq(Byte) /\ Len(P[m]) \in Nat
  <2> SUFFICES ASSUME NEW m \in 0 .. Len(s) PROVE P[m] \in Seq(Byte) /\ Len(P[m]) \in Nat
    OBVIOUS
  <2>1. P[m] \in Payload
    BY DEF Begun
  <2> QED BY <2>1, LenProperties DEF Payload
<1>3. SUFFICES ASSUME Bad # {} PROVE FALSE
  <2>1. Good(n)
    BY <1>1, <1>3
  <2> QED BY <2>1
<1>4. PICK m \in Bad : \A j \in Bad : m <= j
  <2>1. Bad \subseteq Nat
    BY <1>1
  <2> HIDE DEF Bad
  <2> QED BY <1>3, <2>1, LeastExists
<1>5. m \in k .. n /\ ~Good(m)
  OBVIOUS
<1>6. m # k
  <2>1. Good(k)
    BY <1>1, <1>2
  <2> QED BY <1>5, <2>1
<1>7. m - 1 \in k .. n /\ ~(m <= m - 1) /\ m \in 1 .. Len(s) /\ m - 1 \in 0 .. Len(s)
      /\ k \in 0 .. Len(s)
  BY <1>1, <1>5, <1>6
<1>8. Good(m - 1)
  <2>1. m - 1 \notin Bad
    <3> HIDE DEF Bad
    <3> QED BY <1>4, <1>7
  <2> QED BY <1>7, <2>1
<1> DEFINE x == P[m - 1]
           y == Pack(s[m])
<1>9. P[m] = x \o y
  BY <1>7 DEF Begun
<1>10. x \in Seq(Byte) /\ y \in Seq(Byte) /\ Len(x) \in Nat /\ Len(y) \in Nat
  <2>1. s[m] \in Packable
    BY <1>7, LenProperties
  <2>2. y \in Payload
    BY <2>1, Packed
  <2> QED BY <1>2, <1>7, <2>2, LenProperties DEF Payload
<1> HIDE DEF x, y
<1>11. /\ Len(x \o y) = Len(x) + Len(y)
       /\ \A i \in 1 .. Len(x) + Len(y) : (x \o y)[i] = IF i <= Len(x) THEN x[i] ELSE y[i - Len(x)]
  BY <1>10, ConcatProperties
<1>12. Len(P[k]) <= Len(x) /\ (\A i \in 1 .. Len(P[k]) : x[i] = P[k][i]) /\ Len(P[k]) \in Nat
  BY <1>2, <1>7, <1>8 DEF x
<1>13. \A i \in 1 .. Len(P[k]) : i \in 1 .. Len(x) + Len(y) /\ i <= Len(x)
  BY <1>10, <1>12
<1>14. Good(m)
  <2>1. Len(P[k]) <= Len(P[m])
    BY <1>9, <1>10, <1>11, <1>12
  <2>2. \A i \in 1 .. Len(P[k]) : P[m][i] = P[k][i]
    BY <1>9, <1>11, <1>12, <1>13
  <2> QED BY <2>1, <2>2
<1> QED BY <1>5, <1>14

\* Where each frame lies in the stream.
Laid(s) ==
    /\ Bytes(s) \in Payload
    /\ Off(s, 0) = 0 /\ Off(s, Len(s)) = Len(Bytes(s))
    /\ \A j, k \in 0 .. Len(s) : j <= k => Off(s, j) \in Nat /\ Off(s, j) <= Off(s, k)
    /\ \A k \in 1 .. Len(s) :
          /\ Off(s, k) = Off(s, k - 1) + 2 + Len(s[k])
          /\ Bytes(s)[Off(s, k - 1) + 1] = Len(s[k]) \div Radix
          /\ Bytes(s)[Off(s, k - 1) + 2] = Len(s[k]) % Radix
          /\ \A i \in 1 .. Len(s[k]) : Bytes(s)[Off(s, k - 1) + 2 + i] = s[k][i]
\* Where each frame lies in the stream of its client.
LEMMA StreamLaid ==
    ASSUME NEW s \in Seq(Packable)
    PROVE  Laid(s)
<1>1. PICK P : Begun(P, s) /\ \A k \in 0 .. Len(s) : Bytes(SubSeq(s, 1, k)) = P[k]
  BY BytesBegun
<1> DEFINE n == Len(s)
<1>2. n \in Nat /\ 0 \in 0 .. n /\ n \in 0 .. n /\ \A k \in 1 .. n : s[k] \in Packable
  BY LenProperties
<1>3. Bytes(s) = P[n]
  <2>1. SubSeq(s, 1, n) = s
    BY SubSeqFull
  <2> QED BY <1>1, <1>2, <2>1
<1>4. \A k \in 0 .. n : Off(s, k) = Len(P[k]) /\ P[k] \in Seq(Byte) /\ Len(P[k]) \in Nat
  <2> SUFFICES ASSUME NEW k \in 0 .. n
               PROVE  Off(s, k) = Len(P[k]) /\ P[k] \in Seq(Byte) /\ Len(P[k]) \in Nat
    OBVIOUS
  <2>1. P[k] \in Seq(Byte)
    BY <1>1 DEF Begun, Payload
  <2> QED BY <1>1, <2>1, LenProperties DEF Off
<1>5. Bytes(s) \in Payload
  BY <1>2, <1>3, <1>4 DEF Payload
<1>6. Off(s, 0) = 0 /\ Off(s, n) = Len(Bytes(s))
  <2>1. P[0] = <<>>
    BY <1>1 DEF Begun
  <2> QED BY <1>2, <1>3, <1>4, <2>1
<1>7. \A j, k \in 0 .. n : j <= k => Off(s, j) \in Nat /\ Off(s, j) <= Off(s, k)
  <2> SUFFICES ASSUME NEW j \in 0 .. n, NEW k \in 0 .. n, j <= k
               PROVE  Off(s, j) \in Nat /\ Off(s, j) <= Off(s, k)
    OBVIOUS
  <2>1. j \in 0 .. k
    BY <1>2
  <2>2. Len(P[j]) <= Len(P[k])
    BY <1>1, <2>1, BegunStays
  <2> QED BY <1>4, <2>2
<1>8. ASSUME NEW k \in 1 .. n
      PROVE  /\ Off(s, k) = Off(s, k - 1) + 2 + Len(s[k])
             /\ Bytes(s)[Off(s, k - 1) + 1] = Len(s[k]) \div Radix
             /\ Bytes(s)[Off(s, k - 1) + 2] = Len(s[k]) % Radix
             /\ \A i \in 1 .. Len(s[k]) : Bytes(s)[Off(s, k - 1) + 2 + i] = s[k][i]
  <2> DEFINE x == P[k - 1]
             y == Pack(s[k])
             o == Off(s, k - 1)
  <2>1. k \in 0 .. n /\ k - 1 \in 0 .. n /\ k \in Nat /\ k \in 1 .. Len(s)
    BY <1>2
  <2>2. P[k] = x \o y
    BY <1>1 DEF Begun
  <2>3. /\ y \in Seq(Byte) /\ Len(y) = Len(s[k]) + 2 /\ Len(s[k]) \in Nat
        /\ y[1] = Len(s[k]) \div Radix /\ y[2] = Len(s[k]) % Radix
        /\ \A i \in 1 .. Len(s[k]) : y[i + 2] = s[k][i]
    <3>1. s[k] \in Packable
      BY <1>2
    <3> HIDE DEF n
    <3> QED BY <3>1, Packed DEF Payload
  <2>4. x \in Seq(Byte) /\ Len(x) = o /\ o \in Nat
    BY <1>4, <2>1
  <2> HIDE DEF x, y, o
  <2> DEFINE z == x \o y
             l == Len(s[k])
  <2>5. /\ Len(z) = Len(x) + Len(y)
        /\ \A i \in 1 .. Len(x) + Len(y) : z[i] = IF i <= Len(x) THEN x[i] ELSE y[i - Len(x)]
    BY <2>3, <2>4, ConcatProperties
  <2> HIDE DEF z, l
  <2>11. Len(x) = o /\ Len(y) = l + 2 /\ Len(z) = o + (l + 2) /\ o \in Nat /\ l \in Nat
    <3>1. Len(x) = o /\ Len(y) = l + 2 /\ o \in Nat /\ l \in Nat
      BY <2>3, <2>4 DEF l
    <3> QED BY ONLY <2>5, <3>1
  <2>6. Off(s, k) = o + 2 + Len(s[k])
    <3>1. Off(s, k) = Len(z)
      BY <1>4, <2>1, <2>2 DEF z
    <3>2. o + (l + 2) = o + 2 + l
      BY ONLY <2>11
    <3> QED BY <2>11, <3>1, <3>2 DEF l
  <2>7. ASSUME NEW i \in 1 .. Len(s[k]) + 2 PROVE Bytes(s)[o + i] = y[i]
    <3>1. /\ o + i \in 1 .. o + (l + 2) /\ ~(o + i <= o) /\ o + i - o = i
      BY <2>11 DEF l
    <3>2. z[o + i] = y[i]
      <4>1. z[o + i] = IF o + i <= o THEN x[o + i] ELSE y[o + i - o]
        BY ONLY <2>5, <2>11, <3>1
      <4> QED BY ONLY <3>1, <4>1
    <3>3. P[n][o + i] = P[k][o + i]
      <4>1. \A j \in 1 .. Len(P[k]) : P[n][j] = P[k][j]
        BY <1>1, <1>2, <2>1, BegunStays
      <4>2. Len(P[k]) = o + (l + 2)
        BY <2>2, <2>11 DEF z
      <4> QED BY <3>1, <4>1, <4>2
    <3> QED BY <1>3, <2>2, <3>2, <3>3 DEF z
  <2>8. /\ 1 \in 1 .. Len(s[k]) + 2 /\ 2 \in 1 .. Len(s[k]) + 2
        /\ \A i \in 1 .. Len(s[k]) : i + 2 \in 1 .. Len(s[k]) + 2 /\ o + (i + 2) = o + 2 + i
    BY <2>3, <2>4
  <2>9. \A i \in 1 .. Len(s[k]) : Bytes(s)[o + 2 + i] = s[k][i]
    <3> SUFFICES ASSUME NEW i \in 1 .. Len(s[k]) PROVE Bytes(s)[o + 2 + i] = s[k][i]
      OBVIOUS
    <3>1. i + 2 \in 1 .. Len(s[k]) + 2 /\ o + (i + 2) = o + 2 + i
      BY <2>8
    <3>2. Bytes(s)[o + (i + 2)] = y[i + 2]
      BY <2>7, <3>1
    <3> QED BY <2>3, <3>1, <3>2
  <2>10. Bytes(s)[o + 1] = y[1] /\ Bytes(s)[o + 2] = y[2]
    BY <2>7, <2>8
  <2> QED BY <2>3, <2>6, <2>9, <2>10 DEF o
<1> HIDE DEF n
<1> QED BY <1>5, <1>6, <1>7, <1>8 DEF Laid, n

\* Completed counts the frames that end within the first n bytes.
LEMMA CompletedIs ==
    ASSUME NEW s \in Seq(Packable), NEW n \in Nat, NEW k \in 0 .. Len(s),
           Off(s, k) <= n, k < Len(s) => Off(s, k + 1) > n
    PROVE  Completed(s, n) = k
<1> DEFINE Fits(j) == Off(s, j) <= n /\ (j = Len(s) \/ Off(s, j + 1) > n)
<1>1. Laid(s) /\ Len(s) \in Nat
  BY StreamLaid, LenProperties
<1>2. Fits(k)
  BY <1>1
<1>3. ASSUME NEW j \in 0 .. Len(s), Fits(j) PROVE j = k
  <2>1. ~(j < k)
    <3>1. SUFFICES ASSUME j < k PROVE FALSE
      OBVIOUS
    <3>2. j + 1 \in 0 .. Len(s) /\ j + 1 <= k /\ j # Len(s) /\ j + 1 \in Nat /\ k \in Nat
      BY <1>1, <3>1
    <3>3. Off(s, j + 1) \in Nat /\ Off(s, j + 1) <= Off(s, k) /\ Off(s, k) \in Nat
      BY <1>1, <3>2 DEF Laid
    <3> QED BY <1>3, <3>2, <3>3
  <2>2. ~(k < j)
    <3>1. SUFFICES ASSUME k < j PROVE FALSE
      OBVIOUS
    <3>2. k + 1 \in 0 .. Len(s) /\ k + 1 <= j /\ k < Len(s) /\ k + 1 \in Nat /\ j \in Nat
      BY <1>1, <3>1
    <3>3. Off(s, k + 1) \in Nat /\ Off(s, k + 1) <= Off(s, j) /\ Off(s, j) \in Nat
      BY <1>1, <3>2 DEF Laid
    <3> QED BY <1>3, <3>2, <3>3
  <2> QED BY <1>1, <2>1, <2>2
<1>4. Completed(s, n) = CHOOSE j \in 0 .. Len(s) : Fits(j)
  BY DEF Completed, Off
<1> HIDE DEF Fits
<1> QED BY <1>2, <1>3, <1>4
-----------------------------------------------------------------------------
(* Reassembly.                                                             *)

\* The elements of s after the first lo, up to the hi-th.
Piece(s, lo, hi) == SubSeq(s, lo + 1, hi)
\* The bytes of s after the first lo, up to the hi-th.
LEMMA PieceIs ==
    ASSUME NEW S, NEW s \in Seq(S), NEW hi \in 0 .. Len(s), NEW lo \in 0 .. hi
    PROVE  /\ Piece(s, lo, hi) \in Seq(S) /\ Len(Piece(s, lo, hi)) = hi - lo
           /\ \A i \in 1 .. hi - lo : Piece(s, lo, hi)[i] = s[lo + i]
<1>1. Len(s) \in Nat /\ \A i \in 1 .. Len(s) : s[i] \in S
  BY LenProperties
<1>2. lo + 1 \in Int /\ hi \in Int /\ lo \in Int /\ \A i \in lo + 1 .. hi : i \in 1 .. Len(s)
  BY <1>1
<1>3. /\ SubSeq(s, lo + 1, hi) \in Seq(S)
      /\ Len(SubSeq(s, lo + 1, hi)) = IF lo + 1 <= hi THEN hi - (lo + 1) + 1 ELSE 0
      /\ \A i \in 1 .. hi - (lo + 1) + 1 : SubSeq(s, lo + 1, hi)[i] = s[lo + 1 + i - 1]
  BY <1>1, <1>2, SubSeqProperties
<1> DEFINE p == SubSeq(s, lo + 1, hi)
<1> HIDE DEF p
<1>4. Len(p) = hi - lo
  BY <1>1, <1>2, <1>3 DEF p
<1>5. ASSUME NEW i \in 1 .. hi - lo PROVE p[i] = s[lo + i]
  <2>1. i \in 1 .. hi - (lo + 1) + 1 /\ lo + 1 + i - 1 = lo + i
    BY <1>2
  <2>2. p[i] = s[lo + 1 + i - 1]
    BY <1>3, <2>1 DEF p
  <2> QED BY <2>1, <2>2
<1> QED BY <1>3, <1>4, <1>5 DEF Piece, p

\* A part of a part.
LEMMA PieceOfPiece ==
    ASSUME NEW S, NEW s \in Seq(S), NEW hi \in 0 .. Len(s), NEW lo \in 0 .. hi,
           NEW y \in 0 .. hi - lo, NEW x \in 0 .. y
    PROVE  Piece(Piece(s, lo, hi), x, y) = Piece(s, lo + x, lo + y)
<1> DEFINE p == Piece(s, lo, hi)
<1>1. p \in Seq(S) /\ Len(p) = hi - lo /\ \A i \in 1 .. hi - lo : p[i] = s[lo + i]
  BY PieceIs
<1> HIDE DEF p
<1>2. /\ Len(s) \in Nat /\ y \in 0 .. Len(p) /\ lo + y \in 0 .. Len(s) /\ lo + x \in 0 .. lo + y
      /\ lo + y - (lo + x) = y - x
  BY <1>1, LenProperties
<1>3. ASSUME NEW i \in 1 .. y - x PROVE p[x + i] = s[lo + x + i]
  <2>1. x + i \in 1 .. hi - lo /\ lo + (x + i) = lo + x + i
    BY <1>2
  <2> QED BY <1>1, <2>1
<1>4. Piece(p, x, y) = Piece(s, lo + x, lo + y)
  <2> DEFINE a == Piece(p, x, y)
             b == Piece(s, lo + x, lo + y)
  <2>1. a \in Seq(S) /\ Len(a) = y - x /\ \A i \in 1 .. y - x : a[i] = p[x + i]
    <3>1. p \in Seq(S) /\ y \in 0 .. Len(p) /\ x \in 0 .. y
      BY <1>1, <1>2
    <3> QED BY <3>1, PieceIs
  <2>2. /\ b \in Seq(S) /\ Len(b) = lo + y - (lo + x)
        /\ \A i \in 1 .. lo + y - (lo + x) : b[i] = s[lo + x + i]
    <3> DEFINE u == lo + x
               v == lo + y
    <3>1. v \in 0 .. Len(s) /\ u \in 0 .. v
      BY <1>2
    <3> HIDE DEF u, v
    <3>2. /\ Piece(s, u, v) \in Seq(S) /\ Len(Piece(s, u, v)) = v - u
          /\ \A i \in 1 .. v - u : Piece(s, u, v)[i] = s[u + i]
      BY <3>1, PieceIs
    <3> QED BY <3>2 DEF u, v
  <2> HIDE DEF a, b
  <2>3. Len(a) = Len(b) /\ \A i \in 1 .. Len(a) : a[i] = b[i]
    BY <1>2, <1>3, <2>1, <2>2
  <2>4. a = b
    BY <2>1, <2>2, <2>3, SeqEqual
  <2> QED BY <2>4 DEF a, b
<1> QED BY <1>4 DEF p

\* The rest of a sequence, and the whole of it, as parts.
LEMMA FromIsPiece ==
    ASSUME NEW s, NEW m \in Nat
    PROVE  From(s, m + 1) = Piece(s, m, Len(s))
BY DEF From, Piece

LEMMA WholePiece ==
    ASSUME NEW S, NEW s \in Seq(S)
    PROVE  Piece(s, 0, Len(s)) = s
<1>1. SubSeq(s, 1, Len(s)) = s
  BY SubSeqFull
<1> QED BY <1>1 DEF Piece

\* A piece with one more element before it.
LEMMA PieceFromOne ==
    ASSUME NEW S, NEW s \in Seq(S), NEW hi \in 1 .. Len(s), NEW lo \in 1 .. hi
    PROVE  <<s[lo]>> \o Piece(s, lo, hi) = Piece(s, lo - 1, hi)
<1> DEFINE a == <<s[lo]>>
           p == Piece(s, lo, hi)
           q == Piece(s, lo - 1, hi)
<1>1. Len(s) \in Nat /\ s[lo] \in S
  BY LenProperties
<1>2. /\ hi \in 0 .. Len(s) /\ lo \in 0 .. hi /\ lo - 1 \in 0 .. hi /\ hi - (lo - 1) = 1 + (hi - lo)
      /\ lo - 1 + 1 = lo /\ hi - lo \in Nat /\ 1 \in 1 .. 1 + (hi - lo)
  BY <1>1
<1>3. p \in Seq(S) /\ Len(p) = hi - lo /\ \A i \in 1 .. hi - lo : p[i] = s[lo + i]
  BY <1>2, PieceIs
<1>4. /\ q \in Seq(S) /\ Len(q) = hi - (lo - 1)
      /\ \A i \in 1 .. hi - (lo - 1) : q[i] = s[lo - 1 + i]
  <2> HIDE DEF q
  <2> QED BY <1>2, PieceIs DEF q
<1>5. a \in Seq(S) /\ Len(a) = 1 /\ a[1] = s[lo]
  BY <1>1
<1> HIDE DEF a, p, q
<1>6. /\ a \o p \in Seq(S) /\ Len(a \o p) = Len(a) + Len(p)
      /\ \A i \in 1 .. Len(a) + Len(p) : (a \o p)[i] = IF i <= Len(a) THEN a[i] ELSE p[i - Len(a)]
  BY <1>3, <1>5, ConcatProperties
<1> DEFINE z == a \o p
<1>7. /\ z \in Seq(S) /\ Len(z) = 1 + (hi - lo)
      /\ \A i \in 1 .. 1 + (hi - lo) : z[i] = IF i <= 1 THEN a[i] ELSE p[i - 1]
  BY <1>3, <1>5, <1>6
<1> HIDE DEF z
<1>8. ASSUME NEW i \in 1 .. 1 + (hi - lo) PROVE z[i] = q[i]
  <2>1. q[i] = s[lo - 1 + i]
    BY <1>2, <1>4
  <2>2. CASE i = 1
    <3>1. z[i] = a[1] /\ lo - 1 + i = lo
      BY <1>2, <1>7, <2>2
    <3> QED BY <1>5, <2>1, <3>1
  <2>3. CASE i # 1
    <3>1. ~(i <= 1) /\ i - 1 \in 1 .. hi - lo /\ lo + (i - 1) = lo - 1 + i
      BY <1>2, <2>3
    <3>2. z[i] = p[i - 1]
      BY <1>7, <3>1
    <3>3. p[i - 1] = s[lo + (i - 1)]
      BY <1>3, <3>1
    <3> QED BY <2>1, <3>1, <3>2, <3>3
  <2> QED BY <2>2, <2>3
<1>9. Len(z) = Len(q)
  BY <1>2, <1>4, <1>7
<1>10. \A i \in 1 .. Len(z) : z[i] = q[i]
  BY <1>7, <1>8
<1>11. z = q
  BY <1>4, <1>7, <1>9, <1>10, SeqEqual
<1> QED BY <1>11 DEF z, a, p, q

\* The bytes after a frame's length are the frame's.
LEMMA FrameInStream ==
    ASSUME NEW s \in Seq(Packable), NEW k \in 0 .. Len(s) - 1, NEW q \in 0 .. Len(s[k + 1])
    PROVE  /\ Off(s, k) \in Nat /\ Off(s, k + 1) = Off(s, k) + 2 + Len(s[k + 1])
           /\ Off(s, k + 1) <= Len(Bytes(s)) /\ Len(Bytes(s)) \in Nat
           /\ s[k + 1] \in Payload /\ Len(s[k + 1]) \in Nat
           /\ Piece(Bytes(s), Off(s, k) + 2, Off(s, k) + 2 + q) = SubSeq(s[k + 1], 1, q)
<1> DEFINE B == Bytes(s)
           o == Off(s, k)
           f == s[k + 1]
<1>1. Laid(s) /\ Len(s) \in Nat /\ B \in Seq(Byte) /\ Len(B) \in Nat
  <2>1. Laid(s)
    BY StreamLaid
  <2> QED BY <2>1, LenProperties DEF Laid, Payload
<1>2. k \in Nat /\ k \in 0 .. Len(s) /\ k + 1 \in 1 .. Len(s) /\ k + 1 \in 0 .. Len(s)
      /\ Len(s) \in 0 .. Len(s) /\ k + 1 <= Len(s) /\ k + 1 - 1 = k
  BY <1>1
<1>3. f \in Payload /\ f \in Seq(Byte) /\ Len(f) \in Nat
  <2>1. f \in Packable
    BY <1>2, LenProperties
  <2> QED BY <2>1, Packed DEF Payload
<1>4. o \in Nat /\ Off(s, k + 1) = o + 2 + Len(f) /\ Off(s, k + 1) <= Len(B)
      /\ \A i \in 1 .. Len(f) : B[o + 2 + i] = f[i]
  <2>1. o \in Nat
    BY <1>1, <1>2 DEF Laid
  <2>2. Off(s, k + 1) <= Off(s, Len(s)) /\ Off(s, Len(s)) = Len(B)
    BY <1>1, <1>2 DEF Laid
  <2>3. /\ Off(s, k + 1) = Off(s, k + 1 - 1) + 2 + Len(s[k + 1])
        /\ \A i \in 1 .. Len(s[k + 1]) : Bytes(s)[Off(s, k + 1 - 1) + 2 + i] = s[k + 1][i]
    BY <1>1, <1>2 DEF Laid
  <2> QED BY <1>2, <2>1, <2>2, <2>3
<1> HIDE DEF B, o, f
<1> DEFINE u == o + 2
           v == o + 2 + q
<1>5. v \in 0 .. Len(B) /\ u \in 0 .. v /\ v - u = q /\ q \in Nat /\ q <= Len(f)
  <2>1. q \in 0 .. Len(f)
    BY DEF f
  <2>2. Len(B) \in Nat /\ Len(f) \in Nat /\ o \in Nat /\ o + 2 + Len(f) <= Len(B)
    BY <1>1, <1>3, <1>4
  <2> QED BY ONLY <2>1, <2>2
<1>6. \A i \in 1 .. q : B[u + i] = f[i]
  BY <1>3, <1>4, <1>5
<1> HIDE DEF u, v
<1> DEFINE a == Piece(B, u, v)
           b == SubSeq(f, 1, q)
<1>7. a \in Seq(Byte) /\ Len(a) = v - u /\ \A i \in 1 .. v - u : a[i] = B[u + i]
  BY <1>1, <1>5, PieceIs
<1>8. b \in Seq(Byte) /\ Len(b) = q /\ \A i \in 1 .. q : b[i] = f[i]
  <2>1. \A i \in 1 .. q : f[i] \in Byte
    BY <1>3, <1>5, LenProperties
  <2>2. /\ SubSeq(f, 1, q) \in Seq(Byte) /\ Len(SubSeq(f, 1, q)) = IF 1 <= q THEN q - 1 + 1 ELSE 0
        /\ \A i \in 1 .. q - 1 + 1 : SubSeq(f, 1, q)[i] = f[1 + i - 1]
    BY <1>5, <2>1, SubSeqProperties
  <2> HIDE DEF b
  <2>3. b \in Seq(Byte) /\ Len(b) = q
    BY <1>5, <2>2 DEF b
  <2>4. ASSUME NEW i \in 1 .. q PROVE b[i] = f[i]
    <3>1. i \in 1 .. q - 1 + 1 /\ 1 + i - 1 = i
      BY <1>5
    <3> QED BY <2>2, <3>1 DEF b
  <2> QED BY <2>3, <2>4
<1> HIDE DEF a, b
<1>9. Len(a) = Len(b) /\ \A i \in 1 .. Len(a) : a[i] = b[i]
  BY <1>5, <1>6, <1>7, <1>8
<1>10. a = b
  BY <1>7, <1>8, <1>9, SeqEqual
<1> QED BY <1>1, <1>3, <1>4, <1>10 DEF a, b, B, o, f, u, v

\* push_more: a string of bytes that begins where a frame does is split into
\* the frames that end in it, and what is left is the start of the next.
SplitsWell(s, k, n, r) ==
    \E m \in k .. Len(s) : r.frames = Piece(s, k, m) /\ Leaves(s, m, n, r.left)
LEMMA SplitFrames ==
    ASSUME NEW s \in Seq(Packable), NEW k \in 0 .. Len(s),
           NEW n \in Off(s, k) .. Len(Bytes(s))
    PROVE  SplitsWell(s, k, n, Split[Piece(Bytes(s), Off(s, k), n)])
<1> DEFINE B == Bytes(s)
           Good(j, e) == SplitsWell(s, j, e, Split[Piece(B, Off(s, j), e)])
           Bad == {d \in Nat : \E j \in 0 .. Len(s) :
                      \E e \in Off(s, j) .. Len(B) : d = e - Off(s, j) /\ ~Good(j, e)}
<1>1. Laid(s) /\ Len(s) \in Nat /\ B \in Seq(Byte) /\ Len(B) \in Nat
  <2>1. Laid(s)
    BY StreamLaid
  <2> QED BY <2>1, LenProperties DEF Laid, Payload
<1>2. \A j \in 0 .. Len(s) : Off(s, j) \in Nat /\ Off(s, j) <= Len(B)
  <2>1. \A j \in 0 .. Len(s) : j <= Len(s) /\ Len(s) \in 0 .. Len(s)
    BY <1>1
  <2> QED BY <1>1, <2>1 DEF Laid
<1>3. SUFFICES ASSUME Bad # {} PROVE FALSE
  <2>1. n - Off(s, k) \in Nat
    BY <1>1, <1>2
  <2> HIDE DEF Good
  <2>2. Good(k, n)
    BY <1>3, <2>1
  <2> QED BY <2>2 DEF Good
<1>4. PICK d \in Bad : \A j \in Bad : d <= j
  <2>1. Bad \subseteq Nat
    OBVIOUS
  <2> HIDE DEF Bad
  <2> QED BY <1>3, <2>1, LeastExists
<1>5. PICK j \in 0 .. Len(s) : \E e \in Off(s, j) .. Len(B) : d = e - Off(s, j) /\ ~Good(j, e)
  BY <1>4
<1>6. PICK e \in Off(s, j) .. Len(B) : d = e - Off(s, j) /\ ~Good(j, e)
  BY <1>5
<1> DEFINE o == Off(s, j)
           b == Piece(B, o, e)
<1>7. ASSUME NEW x \in 0 .. Len(s), e \in Off(s, x) .. Len(B), e - Off(s, x) < d
      PROVE  Good(x, e)
  <2>1. e - Off(s, x) \in Nat /\ d \in Nat
    BY <1>1, <1>2, <1>6, <1>7, SMTT(40)
  <2>2. e - Off(s, x) \notin Bad
    <3> HIDE DEF Bad
    <3> QED BY <1>4, <1>7, <2>1
  <2> HIDE DEF Good
  <2> QED BY <1>7, <2>1, <2>2
<1> HIDE DEF Bad
<1>8. o \in Nat /\ e \in Nat /\ o <= e /\ e <= Len(B) /\ d = e - o /\ d \in Nat /\ j \in Nat
      /\ j <= Len(s)
  BY <1>1, <1>2, <1>6
<1>9. b \in Payload /\ b \in Seq(Byte) /\ Len(b) = d /\ \A i \in 1 .. d : b[i] = B[o + i]
  <2>1. e \in 0 .. Len(B) /\ o \in 0 .. e
    BY <1>1, <1>8
  <2> HIDE DEF o, B
  <2> QED BY <1>1, <1>8, <2>1, PieceIs DEF Payload
<1>10. Split[b] = SplitOf(Split, b)
  <2> HIDE DEF b
  <2> QED BY <1>9, SplitIs
<1>11. \A m \in j .. Len(s) : Leaves(s, m, e, Split[b].left) => Split[b].frames # Piece(s, j, m)
  BY <1>6 DEF SplitsWell
<1>12. j \in j .. Len(s) /\ Piece(s, j, j) = <<>>
  <2>1. Piece(s, j, j) \in Seq(Packable) /\ Len(Piece(s, j, j)) = 0
    <3>1. j \in 0 .. Len(s) /\ j \in 0 .. j /\ j - j = 0
      BY <1>8
    <3> QED BY <3>1, PieceIs
  <2> QED BY <1>8, <2>1, EmptySeq
<1> HIDE DEF B, o, b, Good
<1>13. d # 0
  <2>1. SUFFICES ASSUME d = 0 PROVE FALSE
    OBVIOUS
  <2>2. b = <<>>
    BY <1>9, <2>1, EmptySeq
  <2>3. Split[b] = [frames |-> <<>>, left |-> Nothing]
    BY <1>10, <2>2 DEF SplitOf
  <2>4. Leaves(s, j, e, Nothing)
    BY <1>8, <2>1 DEF Leaves, o
  <2> QED BY <1>11, <1>12, <2>3, <2>4
<1>14. j < Len(s)
  <2>1. SUFFICES ASSUME j = Len(s) PROVE FALSE
    BY <1>1, <1>8
  <2>2. o = Len(B)
    BY <1>1, <2>1 DEF Laid, B, o
  <2> QED BY <1>8, <1>13, <2>2
<1> DEFINE f == s[j + 1]
           l == Len(f)
<1>15. /\ j \in 0 .. Len(s) - 1 /\ j + 1 \in 1 .. Len(s) /\ j + 1 \in 0 .. Len(s)
       /\ j + 1 - 1 = j /\ b # <<>>
  BY <1>1, <1>8, <1>9, <1>13, <1>14
<1>16. /\ l \in Nat /\ l < Radix * Radix /\ Off(s, j + 1) = o + 2 + l /\ Off(s, j + 1) <= Len(B)
       /\ \A q \in 0 .. l : Piece(B, o + 2, o + 2 + q) = SubSeq(f, 1, q)
       /\ f \in Payload
  <2>1. f \in Packable /\ Len(f) \in Nat /\ 0 \in 0 .. Len(f)
    BY <1>15, LenProperties DEF Packable, Payload
  <2>2. \A q \in 0 .. l : Piece(B, o + 2, o + 2 + q) = SubSeq(f, 1, q)
    BY <1>15, FrameInStream DEF B, o
  <2>3. Off(s, j + 1) = o + 2 + l /\ Off(s, j + 1) <= Len(B) /\ f \in Payload
    BY <1>15, <2>1, FrameInStream DEF B, o
  <2> QED BY <2>1, <2>2, <2>3 DEF Packable
<1>17. B[o + 1] = l \div Radix /\ B[o + 2] = l % Radix
  <2>1. Bytes(s)[Off(s, j + 1 - 1) + 1] = Len(s[j + 1]) \div Radix
        /\ Bytes(s)[Off(s, j + 1 - 1) + 2] = Len(s[j + 1]) % Radix
    BY <1>1, <1>15 DEF Laid
  <2> QED BY <1>15, <2>1 DEF B, o
<1> HIDE DEF f, l
<1>18. CASE d = 1
  <2>1. b[1] = l \div Radix /\ Len(b) = 1
    BY <1>9, <1>17, <1>18
  <2>2. Split[b] = [frames |-> <<>>, left |-> HalfHeader(l \div Radix)]
    BY <1>10, <1>15, <2>1 DEF SplitOf
  <2>3. Leaves(s, j, e, HalfHeader(l \div Radix))
    BY <1>8, <1>14, <1>18 DEF Leaves, o, l, f
  <2> QED BY <1>11, <1>12, <2>2, <2>3
<1>19. CASE d # 1
  <2>1. d >= 2
    BY <1>8, <1>13, <1>19
  <2>2. b[1] = l \div Radix /\ b[2] = l % Radix /\ Len(b) # 1
    BY <1>8, <1>9, <1>17, <1>19, <2>1
  <2>3. ReadSize(b) = l
    BY <1>16, <2>2, LengthTold DEF ReadSize
  <2> DEFINE c == From(b, 3)
  <2>4. c = Piece(B, o + 2, e) /\ c \in Seq(Byte) /\ Len(c) = d - 2
    <3>1. e \in 0 .. Len(B) /\ o \in 0 .. e /\ d \in 0 .. e - o /\ 2 \in 0 .. d /\ o + d = e
          /\ o + 2 \in 0 .. e /\ e - (o + 2) = d - 2
      BY <1>1, <1>8, <2>1
    <3>2. c = Piece(b, 2, Len(b))
      BY FromIsPiece
    <3>3. Piece(Piece(B, o, e), 2, d) = Piece(B, o + 2, o + d)
      BY <1>1, <3>1, PieceOfPiece DEF B
    <3>4. c = Piece(B, o + 2, e)
      BY <1>9, <3>1, <3>2, <3>3 DEF b
    <3>5. Piece(B, o + 2, e) \in Seq(Byte) /\ Len(Piece(B, o + 2, e)) = e - (o + 2)
      <4> DEFINE u == o + 2
      <4>1. u \in 0 .. e /\ e \in 0 .. Len(B)
        BY <3>1
      <4> HIDE DEF u
      <4>2. Piece(B, u, e) \in Seq(Byte) /\ Len(Piece(B, u, e)) = e - u
        BY <1>1, <4>1, PieceIs
      <4> QED BY <4>2 DEF u
    <3> HIDE DEF c
    <3> QED BY <3>1, <3>4, <3>5
  <2> HIDE DEF c
  <2>5. CASE d - 2 < l
    <3>1. ~Complete(c, l)
      BY <1>8, <1>16, <2>4, <2>5 DEF Complete
    <3>2. Split[b] = [frames |-> <<>>, left |-> Body(l, c)]
      BY <1>10, <1>15, <2>2, <2>3, <3>1 DEF SplitOf, c
    <3>3. /\ e - o - 2 \in 0 .. l /\ o + 2 + (e - o - 2) = e
          /\ e \in o + 2 .. Off(s, j + 1) - 1
      BY <1>8, <1>16, <2>1, <2>5
    <3>4. Piece(B, o + 2, e) = SubSeq(f, 1, e - o - 2)
      BY <1>16, <3>3
    <3>5. Leaves(s, j, e, Body(l, c))
      BY <1>14, <2>4, <3>3, <3>4 DEF Leaves, o, l, f
    <3> QED BY <1>11, <1>12, <3>2, <3>5
  <2>6. CASE d - 2 >= l
    <3>1. Complete(c, l)
      BY <1>8, <1>16, <2>4, <2>6 DEF Complete
    <3>2. /\ Split[b].frames = <<SubSeq(c, 1, l)>> \o Split[Rest(b)].frames
          /\ Split[b].left = Split[Rest(b)].left
      BY <1>10, <1>15, <2>2, <2>3, <3>1, SMTT(40) DEF SplitOf, c
    <3>3. /\ e \in 0 .. Len(B) /\ o + 2 \in 0 .. e /\ d - 2 \in 0 .. e - (o + 2)
          /\ l \in 0 .. d - 2 /\ l \in 0 .. e - (o + 2) /\ 0 \in 0 .. l /\ o + 2 + (d - 2) = e
          /\ o + 2 + 0 = o + 2 /\ l \in 0 .. l /\ 0 + 1 = 1
      BY <1>1, <1>8, <1>16, <2>1, <2>6
    <3>4. SubSeq(c, 1, l) = f
      <4>1. Piece(c, 0, l) = Piece(B, o + 2 + 0, o + 2 + l)
        BY <1>1, <2>4, <3>3, PieceOfPiece DEF B
      <4>2. Piece(c, 0, l) = SubSeq(c, 1, l)
        BY <3>3 DEF Piece
      <4>3. Piece(B, o + 2, o + 2 + l) = SubSeq(f, 1, l)
        BY <1>16, <3>3
      <4>4. SubSeq(f, 1, l) = f
        BY <1>16, SubSeqFull DEF l, Payload
      <4> QED BY <3>3, <4>1, <4>2, <4>3, <4>4
    <3>5. Rest(b) = Piece(B, Off(s, j + 1), e)
      <4>1. Rest(b) = Piece(c, l, d - 2)
        BY <1>16, <2>3, <2>4, FromIsPiece DEF Rest, c
      <4>2. Piece(c, l, d - 2) = Piece(B, o + 2 + l, o + 2 + (d - 2))
        BY <1>1, <2>4, <3>3, PieceOfPiece DEF B
      <4> QED BY <1>16, <3>3, <4>1, <4>2
    <3>6. e \in Off(s, j + 1) .. Len(B) /\ e - Off(s, j + 1) < d
      BY <1>1, <1>8, <1>16, <2>6
    <3>7. Good(j + 1, e)
      BY <1>7, <1>15, <3>6
    <3>8. PICK m \in j + 1 .. Len(s) :
              Split[Rest(b)].frames = Piece(s, j + 1, m) /\ Leaves(s, m, e, Split[Rest(b)].left)
      BY <3>5, <3>7 DEF Good, SplitsWell, B
    <3>9. m \in j .. Len(s) /\ m \in 1 .. Len(s) /\ j + 1 \in 1 .. m
      BY <1>8
    <3>10. <<f>> \o Piece(s, j + 1, m) = Piece(s, j, m)
      BY <1>15, <3>9, PieceFromOne DEF f
    <3> QED BY <1>11, <3>2, <3>4, <3>8, <3>9, <3>10
  <2> QED BY <1>8, <1>16, <2>5, <2>6
<1> QED BY <1>18, <1>19

\* filter_data_, once a length is known: the rest of the frame, then the others.
Joins(u, b) ==
    LET need == u.size - Len(u.read)
    IN  IF Len(b) < need
        THEN [frames |-> <<>>, left |-> Body(u.size, u.read \o b), alone |-> FALSE]
        ELSE LET first == u.read \o SubSeq(b, 1, need)
                 s == Split[From(b, need + 1)]
             IN  [frames |-> <<first>> \o s.frames, left |-> s.left, alone |-> Len(b) = need]
LEMMA JoinFrames ==
    ASSUME NEW s \in Seq(Packable), NEW k \in 0 .. Len(s) - 1,
           NEW p \in 0 .. Len(s[k + 1]), NEW e \in Off(s, k) + 2 + p .. Len(Bytes(s)),
           e > Off(s, k) + 2 + p \/ p = 0
    PROVE  LET r == Joins(Body(Len(s[k + 1]), SubSeq(s[k + 1], 1, p)),
                          Piece(Bytes(s), Off(s, k) + 2 + p, e))
           IN  SplitsWell(s, k, e, r) /\ (r.alone => Len(r.frames) = 1)
<1> DEFINE B == Bytes(s)
           o == Off(s, k)
           f == s[k + 1]
           l == Len(f)
           g == o + 2
           h == o + 2 + p
           x == SubSeq(f, 1, p)
           b == Piece(B, h, e)
           r == Joins(Body(l, x), b)
<1>1. B \in Payload /\ B \in Seq(Byte) /\ Len(B) \in Nat /\ Len(s) \in Nat
  <2>1. Laid(s)
    BY StreamLaid
  <2> QED BY <2>1, LenProperties DEF Laid, Payload
<1>2. /\ k \in Nat /\ k < Len(s) /\ k + 1 \in 0 .. Len(s) /\ k + 1 \in 1 .. Len(s)
      /\ k \in k .. Len(s) /\ k \in 0 .. Len(s)
  BY <1>1
<1>3. /\ o \in Nat /\ Off(s, k + 1) = g + l /\ g + l <= Len(B) /\ f \in Payload /\ l \in Nat
      /\ \A q \in 0 .. l : Piece(B, g, g + q) = SubSeq(f, 1, q)
  <2>1. p \in 0 .. Len(s[k + 1])
    OBVIOUS
  <2> HIDE DEF B, o, f, l, g, h, x, b, r
  <2>2. \A q \in 0 .. l : Piece(B, g, g + q) = SubSeq(f, 1, q)
    BY FrameInStream DEF B, o, f, l, g
  <2>3. /\ o \in Nat /\ Off(s, k + 1) = g + l /\ g + l <= Len(B) /\ f \in Payload /\ l \in Nat
    BY <2>1, FrameInStream DEF B, o, f, l, g
  <2> QED BY <2>2, <2>3
<1>4. /\ p \in Nat /\ p <= l /\ e \in Nat /\ h <= e /\ e <= Len(B) /\ h = g + p
      /\ g \in Nat /\ h \in Nat /\ g = o + 2
  <2>1. p \in 0 .. l /\ e \in h .. Len(B) /\ h = o + 2 + p /\ g = o + 2
    OBVIOUS
  <2>2. o \in Nat /\ l \in Nat /\ Len(B) \in Nat
    BY <1>1, <1>3
  <2> HIDE DEF B, o, f, l, g, h
  <2> QED BY ONLY <2>1, <2>2
<1> HIDE DEF B, o, f, l, g, h
<1>5. x = Piece(B, g, h) /\ Len(x) = p
  <2>1. x = Piece(B, g, h)
    BY <1>3, <1>4
  <2>2. h \in 0 .. Len(B) /\ g \in 0 .. h /\ h - g = p
    BY <1>1, <1>3, <1>4
  <2> HIDE DEF x
  <2> QED BY <1>1, <2>1, <2>2, PieceIs
<1>6. b \in Seq(Byte) /\ Len(b) = e - h
  <2>1. e \in 0 .. Len(B) /\ h \in 0 .. e
    BY <1>1, <1>4
  <2> QED BY <1>1, <2>1, PieceIs
<1> HIDE DEF x
<1>7. \A q \in h .. Len(B) : x \o Piece(B, h, q) = Piece(B, g, q)
  <2> SUFFICES ASSUME NEW q \in h .. Len(B) PROVE x \o Piece(B, h, q) = Piece(B, g, q)
    OBVIOUS
  <2> DEFINE m == g + 1
  <2>1. m \in 1 .. Len(B) + 1 /\ h \in m - 1 .. Len(B) /\ q \in h .. Len(B)
    BY <1>1, <1>4, SMTT(40)
  <2> HIDE DEF m
  <2>2. SubSeq(B, m, h) \o SubSeq(B, h + 1, q) = SubSeq(B, m, q)
    BY <1>1, <2>1, ConcatAdjacentSubSeq
  <2> QED BY <1>5, <2>2 DEF Piece, m
<1> DEFINE u == Body(l, x)
<1>8. u.size = l /\ u.read = x /\ u.size - Len(u.read) = l - p
  BY <1>3, <1>4, <1>5 DEF Body
<1>9. Piece(s, k, k) = <<>>
  <2>1. Piece(s, k, k) \in Seq(Packable) /\ Len(Piece(s, k, k)) = 0
    <3>1. k \in 0 .. Len(s) /\ k \in 0 .. k /\ k - k = 0
      BY <1>2
    <3> QED BY <3>1, PieceIs
  <2> QED BY <2>1, EmptySeq
<1> HIDE DEF b
<1>10. CASE e - h < l - p
  <2>1. r = [frames |-> <<>>, left |-> Body(l, x \o b), alone |-> FALSE]
    BY <1>6, <1>8, <1>10 DEF Joins
  <2>2. /\ e \in h .. Len(B) /\ e - g \in 0 .. l /\ g + (e - g) = e /\ e - o - 2 = e - g
        /\ e \in o + 2 .. Off(s, k + 1) - 1
    BY <1>1, <1>3, <1>4, <1>10
  <2>3. x \o b = Piece(B, g, e)
    BY <1>7, <2>2 DEF b
  <2>4. Piece(B, g, e) = SubSeq(f, 1, e - g)
    BY <1>3, <2>2
  <2>5. Leaves(s, k, e, Body(l, x \o b))
    BY <1>2, <2>2, <2>3, <2>4 DEF Leaves, o, l, f
  <2> HIDE DEF r
  <2>6. SplitsWell(s, k, e, r)
    BY <1>2, <1>9, <2>1, <2>5 DEF SplitsWell
  <2>7. ~r.alone
    BY <2>1
  <2> QED BY <2>6, <2>7 DEF r, u, b, B, o, f, l, h, x
<1>11. CASE e - h >= l - p
  <2> DEFINE need == l - p
             c == From(b, need + 1)
             first == x \o SubSeq(b, 1, need)
  <2>1. need \in Nat /\ ~(Len(b) < need) /\ need \in 0 .. e - h /\ e - h \in 0 .. e - h
        /\ 0 \in 0 .. need /\ 0 + 1 = 1
    BY <1>3, <1>4, <1>6, <1>11
  <2>2. r = [frames |-> <<first>> \o Split[c].frames, left |-> Split[c].left,
             alone |-> Len(b) = need]
    BY <1>8, <2>1 DEF Joins
  <2>3. e \in 0 .. Len(B) /\ h \in 0 .. e /\ h + need = g + l /\ h + (e - h) = e /\ h + 0 = h
        /\ g + l \in h .. Len(B) /\ l \in 0 .. l
    BY <1>1, <1>3, <1>4, <1>11
  <2>4. first = f
    <3>1. SubSeq(b, 1, need) = Piece(b, 0, need)
      BY <2>1 DEF Piece
    <3>2. Piece(b, 0, need) = Piece(B, h + 0, h + need)
      <4> HIDE DEF need
      <4> QED BY <1>1, <2>1, <2>3, PieceOfPiece DEF b
    <3>3. first = Piece(B, g, g + l)
      BY <1>7, <2>3, <3>1, <3>2
    <3>4. Piece(B, g, g + l) = SubSeq(f, 1, l)
      BY <1>3, <2>3
    <3>5. SubSeq(f, 1, l) = f
      BY <1>3, SubSeqFull DEF l, Payload
    <3> QED BY <3>3, <3>4, <3>5
  <2>5. c = Piece(B, g + l, e) /\ c = Piece(b, need, e - h)
    <3> HIDE DEF need
    <3>1. c = Piece(b, need, e - h)
      BY <1>6, <2>1, FromIsPiece
    <3>2. Piece(b, need, e - h) = Piece(B, h + need, h + (e - h))
      BY <1>1, <2>1, <2>3, PieceOfPiece DEF b
    <3> QED BY <2>3, <3>1, <3>2
  <2>6. e \in Off(s, k + 1) .. Len(B)
    BY <1>1, <1>3, <1>4, <1>11
  <2> HIDE DEF c, first, need
  <2>7. SplitsWell(s, k + 1, e, Split[c])
    BY <1>2, <1>3, <2>5, <2>6, SplitFrames DEF B
  <2>8. PICK m \in k + 1 .. Len(s) :
            Split[c].frames = Piece(s, k + 1, m) /\ Leaves(s, m, e, Split[c].left)
    BY <2>7 DEF SplitsWell
  <2>9. m \in k .. Len(s) /\ m \in 1 .. Len(s) /\ k + 1 \in 1 .. m /\ k + 1 - 1 = k
    BY <1>2
  <2>10. <<f>> \o Piece(s, k + 1, m) = Piece(s, k, m)
    BY <2>9, PieceFromOne DEF f
  <2> HIDE DEF r
  <2>11. r.frames = Piece(s, k, m) /\ r.left = Split[c].left
    BY <2>2, <2>4, <2>8, <2>10
  <2>12. SplitsWell(s, k, e, r)
    BY <2>8, <2>9, <2>11 DEF SplitsWell
  <2>13. ASSUME r.alone PROVE Len(r.frames) = 1
    <3>1. need = e - h
      BY <1>6, <2>2, <2>13
    <3>2. c = <<>>
      <4>1. need \in 0 .. Len(b) /\ need \in 0 .. need /\ need - need = 0
        BY <1>6, <2>1, <3>1
      <4>2. Piece(b, need, need) \in Seq(Byte) /\ Len(Piece(b, need, need)) = 0
        BY <1>6, <4>1, PieceIs
      <4> QED BY <2>5, <3>1, <4>2, EmptySeq
    <3>3. <<>> \in Payload
      BY EmptySeq DEF Payload
    <3>4. Split[c].frames = <<>>
      <4>1. Split[<<>>] = SplitOf(Split, <<>>)
        BY <3>3, SplitIs
      <4> QED BY <3>2, <4>1 DEF SplitOf
    <3> QED BY <2>2, <2>4, <3>4
  <2> QED BY <2>12, <2>13 DEF r, u, b, B, o, f, l, h, x
<1> QED BY <1>3, <1>4, <1>10, <1>11

\* js_netpack_dispatch: a delivery ends the frames that end in it, whatever
\* was left of the deliveries before.
LEMMA FilterFrames ==
    ASSUME NEW s \in Seq(Packable), NEW k \in 0 .. Len(s), NEW n \in Nat, NEW u,
           Leaves(s, k, n, u), NEW e \in n + 1 .. Len(Bytes(s))
    PROVE  LET r == FilterData(u, Piece(Bytes(s), n, e))
           IN  SplitsWell(s, k, e, r) /\ (r.alone => Len(r.frames) = 1)
<1> DEFINE B == Bytes(s)
           b == Piece(B, n, e)
           r == FilterData(u, b)
           o == Off(s, k)
<1>1. Laid(s) /\ B \in Seq(Byte) /\ Len(B) \in Nat /\ Len(s) \in Nat /\ k \in Nat /\ k <= Len(s)
  <2>1. Laid(s)
    BY StreamLaid
  <2> QED BY <2>1, LenProperties DEF Laid, Payload
<1>2. e \in Nat /\ n < e /\ e <= Len(B) /\ e \in 0 .. Len(B) /\ n \in 0 .. e /\ e - n >= 1
      /\ o \in Nat
  <2>1. o \in Nat
    <3>1. k \in 0 .. Len(s) /\ k <= k
      BY <1>1
    <3> QED BY <1>1, <3>1 DEF Laid
  <2> HIDE DEF B, o
  <2> QED BY <1>1, <2>1 DEF B
<1> HIDE DEF B, o
<1>3. b \in Seq(Byte) /\ Len(b) = e - n /\ \A i \in 1 .. e - n : b[i] = B[n + i]
  BY <1>1, <1>2, PieceIs
<1> HIDE DEF b
<1>4. CASE u = Nothing /\ n = o
  <2> DEFINE t == Split[b]
  <2>1. u.at = "nothing"
    BY <1>4 DEF Nothing
  <2>2. r = [frames |-> t.frames, left |-> t.left, alone |-> Len(t.frames) = 1 /\ t.left = Nothing]
    BY <2>1 DEF FilterData
  <2>3. e \in Off(s, k) .. Len(Bytes(s))
    BY <1>2, <1>4 DEF o, B
  <2>4. SplitsWell(s, k, e, t)
    BY <1>4, <2>3, SplitFrames DEF b, B, o
  <2> HIDE DEF t, r
  <2>5. SplitsWell(s, k, e, r)
    BY <2>2, <2>4 DEF SplitsWell
  <2>6. r.alone => Len(r.frames) = 1
    BY <2>2
  <2> QED BY <2>5, <2>6 DEF r, b, B
<1>5. CASE /\ k < Len(s) /\ n = o + 1
           /\ u = HalfHeader(Len(s[k + 1]) \div Radix)
  <2> DEFINE l == Len(s[k + 1])
             hi == l \div Radix
             f == s[k + 1]
  <2>1. k \in 0 .. Len(s) - 1 /\ k + 1 \in 1 .. Len(s) /\ k + 1 - 1 = k
    BY <1>1, <1>5
  <2>2. f \in Packable /\ f \in Seq(Byte) /\ l \in Nat /\ l < Radix * Radix
    <3>1. f \in Packable
      BY <2>1, LenProperties
    <3> QED BY <3>1, LenProperties DEF Packable, Payload
  <2>3. Bytes(s)[Off(s, k + 1 - 1) + 2] = Len(s[k + 1]) % Radix
    BY <1>1, <2>1 DEF Laid
  <2>4. b[1] = l % Radix
    <3>1. 1 \in 1 .. e - n /\ n + 1 = o + 2
      BY <1>2, <1>5
    <3> QED BY <1>3, <2>1, <2>3, <3>1 DEF B, o
  <2>5. hi * Radix + b[1] = l
    <3>1. hi * Radix + (l % Radix) = l
      BY <2>2, LengthTold
    <3> HIDE DEF hi, l
    <3> QED BY <2>4, <3>1
  <2>6. Tail(b) = Piece(B, o + 2 + 0, e)
    <3>1. b # <<>> /\ Len(b) \in Nat /\ Len(b) - 1 \in Nat
      BY <1>2, <1>3
    <3>2. Tail(b) = SubSeq(b, 2, Len(b))
      BY <1>3, <3>1, TailIsSubSeq
    <3>3. SubSeq(b, 2, Len(b)) = Piece(b, 1, Len(b))
      BY DEF Piece
    <3>4. Piece(b, 1, e - n) = Piece(B, n + 1, n + (e - n))
      <4>1. e - n \in 0 .. e - n /\ 1 \in 0 .. e - n
        BY <1>2
      <4> QED BY <1>1, <1>2, <4>1, PieceOfPiece DEF b
    <3>5. n + 1 = o + 2 + 0 /\ n + (e - n) = e
      BY <1>2, <1>5
    <3> QED BY <1>3, <3>2, <3>3, <3>4, <3>5
  <2>7. SubSeq(f, 1, 0) = <<>>
    <3> HIDE DEF f
    <3> QED BY <2>2
  <2>8. r = Joins(Body(l, SubSeq(f, 1, 0)), Tail(b))
    <3>1. u.at # "nothing" /\ u.at = "header" /\ u.header = hi
      BY <1>5 DEF HalfHeader
    <3>2. Resumed(u, b) = [u |-> Body(l, <<>>), b |-> Tail(b)]
      BY <2>5, <3>1 DEF Resumed
    <3>3. r = Joins(Resumed(u, b).u, Resumed(u, b).b)
      BY <3>1 DEF FilterData, Joins
    <3> HIDE DEF l, f, r
    <3>4. Resumed(u, b).u = Body(l, <<>>) /\ Resumed(u, b).b = Tail(b)
      BY <3>2
    <3> QED BY ONLY <2>7, <3>3, <3>4
  <2>9. 0 \in 0 .. l /\ e \in Off(s, k) + 2 + 0 .. Len(Bytes(s))
    BY <1>2, <1>5, <2>2 DEF B, o
  <2> HIDE DEF r
  <2>10. SplitsWell(s, k, e, r) /\ (r.alone => Len(r.frames) = 1)
    <3> DEFINE p == 0
    <3>1. /\ p \in 0 .. Len(s[k + 1]) /\ e \in Off(s, k) + 2 + p .. Len(Bytes(s)) /\ p = 0
          /\ r = Joins(Body(Len(s[k + 1]), SubSeq(s[k + 1], 1, p)),
                       Piece(Bytes(s), Off(s, k) + 2 + p, e))
      BY <2>6, <2>8, <2>9 DEF B, o
    <3> HIDE DEF p
    <3> QED BY <2>1, <3>1, JoinFrames
  <2> QED BY <2>10 DEF r, b, B
<1>6. CASE /\ k < Len(s) /\ n \in o + 2 .. Off(s, k + 1) - 1
           /\ u = Body(Len(s[k + 1]), SubSeq(s[k + 1], 1, n - o - 2))
  <2> DEFINE p == n - o - 2
             f == s[k + 1]
  <2>1. k \in 0 .. Len(s) - 1 /\ k + 1 \in 1 .. Len(s) /\ k + 1 - 1 = k
    BY <1>1, <1>6
  <2>2. Len(f) \in Nat /\ Off(s, k + 1) = o + 2 + Len(f)
    <3>1. f \in Packable
      BY <2>1, LenProperties
    <3>2. Len(f) \in Nat /\ 0 \in 0 .. Len(f)
      BY <3>1, LenProperties DEF Packable, Payload
    <3> QED BY <2>1, <3>2, FrameInStream DEF o
  <2>3. p \in 0 .. Len(f) /\ o + 2 + p = n /\ e \in o + 2 + p .. Len(B) /\ e > o + 2 + p
    <3>1. n \in o + 2 .. o + 2 + Len(f) - 1
      <4>1. n \in o + 2 .. Off(s, k + 1) - 1
        BY <1>6
      <4> HIDE DEF f
      <4>2. o \in Nat
        BY <1>2
      <4> QED BY ONLY <2>2, <4>1, <4>2
    <3>2. /\ e \in Nat /\ n < e /\ e <= Len(B) /\ Len(B) \in Nat /\ o \in Nat /\ Len(f) \in Nat
          /\ n \in Nat
      BY <1>1, <1>2, <2>2
    <3> HIDE DEF f
    <3> QED BY ONLY <3>1, <3>2
  <2>4. r = Joins(Body(Len(f), SubSeq(f, 1, p)), Piece(B, o + 2 + p, e))
    <3>1. u.at # "nothing" /\ u.at # "header"
      BY <1>6 DEF Body
    <3>2. Resumed(u, b) = [u |-> u, b |-> b]
      BY <3>1 DEF Resumed
    <3>3. r = Joins(u, b)
      BY <3>1, <3>2 DEF FilterData, Joins
    <3> HIDE DEF r
    <3> QED BY <1>6, <2>3, <3>3 DEF b
  <2> HIDE DEF r, p
  <2>5. SplitsWell(s, k, e, r) /\ (r.alone => Len(r.frames) = 1)
    BY <2>1, <2>3, <2>4, JoinFrames DEF B, o
  <2> QED BY <2>5 DEF r, b, B
<1> QED BY <1>4, <1>5, <1>6 DEF Leaves, o
-----------------------------------------------------------------------------
(* What a step of the gate does to its state.                              *)

\* Where the k of Leaves is the number of frames completed.
LEMMA LeavesCompleted ==
    ASSUME NEW s \in Seq(Packable), NEW k \in 0 .. Len(s), NEW n \in Nat, NEW u,
           Leaves(s, k, n, u)
    PROVE  Completed(s, n) = k
<1>1. Laid(s) /\ Len(s) \in Nat
  BY StreamLaid, LenProperties
<1>2. Off(s, k) \in Nat
  <2>1. k \in 0 .. Len(s) /\ k <= k
    BY <1>1
  <2> QED BY <1>1, <2>1 DEF Laid
<1>3. ASSUME k < Len(s)
      PROVE  Off(s, k + 1) = Off(s, k) + 2 + Len(s[k + 1]) /\ Len(s[k + 1]) \in Nat
  <2>1. k \in 0 .. Len(s) - 1 /\ k + 1 \in 1 .. Len(s)
    BY <1>1, <1>3
  <2>2. s[k + 1] \in Packable
    BY <2>1, LenProperties
  <2>3. Len(s[k + 1]) \in Nat /\ 0 \in 0 .. Len(s[k + 1])
    BY <2>2, LenProperties DEF Packable, Payload
  <2> QED BY <2>1, <2>3, FrameInStream
<1>4. Off(s, k) <= n
  BY <1>2 DEF Leaves
<1>5. ASSUME k < Len(s) PROVE Off(s, k + 1) > n
  <2>1. \/ n = Off(s, k) \/ n = Off(s, k) + 1
        \/ n \in Off(s, k) + 2 .. Off(s, k + 1) - 1
    BY DEF Leaves
  <2>2. Off(s, k + 1) = Off(s, k) + 2 + Len(s[k + 1]) /\ Len(s[k + 1]) \in Nat
    BY <1>3, <1>5
  <2> DEFINE o == Off(s, k)
             v == Off(s, k + 1)
             l == Len(s[k + 1])
  <2>3. o \in Nat /\ l \in Nat /\ v = o + 2 + l /\ (n = o \/ n = o + 1 \/ n \in o + 2 .. v - 1)
    BY <1>2, <2>1, <2>2
  <2> HIDE DEF o, v, l
  <2>4. v > n
    BY ONLY <2>3
  <2> QED BY <2>4 DEF v
<1> QED BY <1>4, <1>5, CompletedIs

\* Taking the first event.
LEMMA EventTaken ==
    ASSUME mailbox \in Seq(EventOf), mailbox # <<>>
    PROVE  /\ Tail(mailbox) \in Seq(EventOf) /\ Len(mailbox) \in Nat
           /\ Len(Tail(mailbox)) = Len(mailbox) - 1
           /\ Event = mailbox[1] /\ Event \in EventOf /\ 1 \in DOMAIN mailbox
           /\ DOMAIN mailbox = 1 .. Len(mailbox)
           /\ \A i \in DOMAIN Tail(mailbox) :
                 i + 1 \in DOMAIN mailbox /\ i \in Nat /\ Tail(mailbox)[i] = mailbox[i + 1]
           /\ \A i \in DOMAIN mailbox :
                 i # 1 => i - 1 \in DOMAIN Tail(mailbox) /\ Tail(mailbox)[i - 1] = mailbox[i]
<1>1. Len(mailbox) \in Nat \ {0} /\ DOMAIN mailbox = 1 .. Len(mailbox)
  BY EmptySeq, LenProperties
<1>2. 1 \in DOMAIN mailbox
  BY <1>1
<1>3. Event = mailbox[1] /\ Event \in EventOf
  <2>1. Head(mailbox) = mailbox[1]
    OBVIOUS
  <2> QED BY <1>2, <2>1, LenProperties DEF Event
<1> DEFINE t == Tail(mailbox)
<1>4. /\ t \in Seq(EventOf) /\ Len(t) = Len(mailbox) - 1
      /\ \A i \in 1 .. Len(t) : t[i] = mailbox[i + 1]
  BY HeadTailProperties
<1>5. DOMAIN t = 1 .. Len(t)
  BY <1>4, LenProperties
<1> HIDE DEF t
<1>6. \A i \in DOMAIN t : i + 1 \in DOMAIN mailbox /\ i \in Nat /\ t[i] = mailbox[i + 1]
  <2>1. \A i \in 1 .. Len(t) : i + 1 \in 1 .. Len(mailbox) /\ i \in Nat
    BY <1>1, <1>4
  <2> QED BY <1>1, <1>4, <1>5, <2>1
<1>7. ASSUME NEW i \in DOMAIN mailbox, i # 1
      PROVE  i - 1 \in DOMAIN t /\ t[i - 1] = mailbox[i]
  <2>1. i - 1 \in 1 .. Len(t) /\ i - 1 + 1 = i
    BY <1>1, <1>4, <1>7
  <2> QED BY <1>4, <1>5, <2>1
<1> QED BY <1>1, <1>2, <1>3, <1>4, <1>6, <1>7 DEF t

\* Posting an event.
LEMMA EventPosted ==
    ASSUME mailbox \in Seq(EventOf), NEW e \in EventOf, mailbox' = Append(mailbox, e)
    PROVE  /\ mailbox' \in Seq(EventOf) /\ Len(mailbox) \in Nat
           /\ Len(mailbox') = Len(mailbox) + 1
           /\ mailbox'[Len(mailbox) + 1] = e
           /\ DOMAIN mailbox = 1 .. Len(mailbox) /\ DOMAIN mailbox' = 1 .. Len(mailbox) + 1
           /\ \A i \in DOMAIN mailbox : i \in DOMAIN mailbox' /\ i <= Len(mailbox)
           /\ \A i \in DOMAIN mailbox : mailbox'[i] = mailbox[i]
           /\ \A i \in DOMAIN mailbox' : i \in DOMAIN mailbox \/ i = Len(mailbox) + 1
<1>1. Len(mailbox) \in Nat /\ DOMAIN mailbox = 1 .. Len(mailbox)
  BY LenProperties
<1> DEFINE t == Append(mailbox, e)
<1>2. /\ t \in Seq(EventOf) /\ Len(t) = Len(mailbox) + 1 /\ t[Len(mailbox) + 1] = e
      /\ \A i \in 1 .. Len(mailbox) : t[i] = mailbox[i]
  BY AppendProperties
<1>3. DOMAIN t = 1 .. Len(t)
  BY <1>2, LenProperties
<1> HIDE DEF t
<1>4. mailbox' = t
  BY DEF t
<1> QED BY <1>1, <1>2, <1>3, <1>4

\* A delivery is taken: the frames that end in it, and what it leaves.
DataFd == Event.fd
DataIs == FilterData(uncomplete[Event.fd], Event.data)
Filtered(s, n, e, u, r) ==
    \E k \in 0 .. Len(s) : \E m \in k .. Len(s) :
        /\ Completed(s, n) = k /\ Completed(s, e) = m
        /\ r.frames = Piece(s, k, m) /\ Leaves(s, m, e, r.left)
        /\ r.alone => Len(r.frames) = 1
LEMMA DataTaken ==
    ASSUME GateInv, Handles("DATA")
    PROVE  /\ DataFd \in Fd /\ Event.data \in Payload /\ Len(Event.data) \in Nat
           /\ sock[DataFd] \notin Unread
           /\ Filtered(Frames[DataFd], received[DataFd], received[DataFd] + Len(Event.data),
                       uncomplete[DataFd], DataIs)
           /\ DataIs.frames \in Seq(Packable)
<1>1. mailbox \in Seq(EventOf) /\ mailbox # <<>> /\ Event.type = "DATA"
  BY DEF GateInv, GateTypes, Handles
<1>2. Event = mailbox[1] /\ Event \in EventOf /\ 1 \in DOMAIN mailbox /\ Len(mailbox) \in Nat
      /\ DOMAIN mailbox = 1 .. Len(mailbox)
  BY <1>1, EventTaken
<1>3. DataFd \in Fd /\ Event.data \in Payload /\ Len(Event.data) \in Nat
  <2>1. Event \in [type : {"DATA"}, fd : Fd, data : Payload]
    BY <1>1, <1>2 DEF EventOf
  <2> QED BY <2>1, LenProperties DEF DataFd, Payload
<1> DEFINE fd == DataFd
           s == Frames[fd]
           B == Bytes(s)
           n == received[fd]
           e == received[fd] + Len(Event.data)
<1>4. Is(mailbox[1], "DATA", fd)
  BY <1>1, <1>2 DEF Is, DataFd
<1>5. sock[fd] \notin Unread
  BY <1>2, <1>3, <1>4 DEF GateInv, Lifecycle
<1>6. s \in Seq(Packable) /\ n \in Nat
  BY <1>3, GateAssumption DEF GateInv, GateTypes
<1> HIDE DEF fd
<1>7. PICK p \in [1 .. Len(mailbox) + 1 -> Nat] : InStream(fd, p)
  BY <1>3 DEF GateInv, StreamKept, fd
<1>8. 1 \in 1 .. Len(mailbox) /\ 1 \in 1 .. Len(mailbox) + 1 /\ 2 \in 1 .. Len(mailbox) + 1 /\ 1 + 1 = 2
  BY <1>2
<1>9. /\ p[1] = n /\ p[1] < p[2] /\ p[2] \in 0 .. Len(B) /\ p[1] \in 0 .. Len(B)
      /\ Event.data = SubSeq(B, p[1] + 1, p[2])
  BY <1>2, <1>4, <1>7, <1>8 DEF InStream
<1>10. B \in Seq(Byte) /\ Len(B) \in Nat
  <2>1. Laid(s)
    BY <1>6, StreamLaid
  <2> QED BY <2>1, LenProperties DEF Laid, Payload
<1>11. Event.data = Piece(B, n, p[2]) /\ p[2] = e /\ e \in n + 1 .. Len(B)
  <2>1. Event.data = Piece(B, n, p[2])
    BY <1>9 DEF Piece
  <2> DEFINE x == p[2]
  <2>2. x \in 0 .. Len(B) /\ n \in 0 .. x /\ n < x
    BY <1>6, <1>9, <1>10
  <2> HIDE DEF x
  <2>3. Len(Piece(B, n, x)) = x - n
    BY <1>10, <2>2, PieceIs
  <2>4. Len(Event.data) = x - n
    BY <2>1, <2>3 DEF x
  <2> HIDE DEF B, s
  <2>5. x = e /\ e \in n + 1 .. Len(B)
    BY <1>3, <1>6, <1>10, <2>2, <2>4
  <2> QED BY <2>1, <2>5 DEF x
<1>12. PICK k \in 0 .. Len(s) : Leaves(s, k, n, uncomplete[fd])
  <2>1. Uncut(fd)
    BY <1>2, <1>4 DEF Uncut
  <2> QED BY <1>3, <2>1 DEF GateInv, Reassembly, fd
<1> DEFINE r == FilterData(uncomplete[fd], Piece(B, n, e))
<1>13. DataIs = r
  BY <1>11 DEF DataIs, DataFd, fd
<1> HIDE DEF e, n, s, r
<1>14. SplitsWell(s, k, e, r) /\ (r.alone => Len(r.frames) = 1)
  BY <1>6, <1>11, <1>12, FilterFrames DEF r
<1>15. PICK m \in k .. Len(s) : r.frames = Piece(s, k, m) /\ Leaves(s, m, e, r.left)
  BY <1>14 DEF SplitsWell
<1>16. Len(s) \in Nat /\ m \in 0 .. Len(s) /\ k \in 0 .. m /\ e \in Nat
  BY <1>6, <1>10, <1>11, <1>12, <1>15, LenProperties
<1>17. Completed(s, n) = k /\ Completed(s, e) = m
  BY <1>6, <1>12, <1>15, <1>16, LeavesCompleted
<1>18. Filtered(s, n, e, uncomplete[fd], r)
  BY <1>14, <1>15, <1>17 DEF Filtered
<1>19. r.frames \in Seq(Packable)
  <2>1. Piece(s, k, m) \in Seq(Packable)
    BY ONLY <1>6, <1>16, PieceIs, ZenonT(60)
  <2> QED BY <1>15, <2>1
<1> QED BY <1>3, <1>5, <1>13, <1>18, <1>19 DEF fd, s, n, e

SockStates == Unread \cup {"started"} \cup Over
\* What user code may do to a socket.
Bends(x) ==
    \/ sock'[x] = sock[x]
    \/ /\ x \in connection /\ sock[x] \in {"accepted", "started", "broken"}
       /\ sock'[x] = "closing"
    \/ x \in connection /\ sock[x] = "accepted" /\ sock'[x] = "started"
UserBends == sock' \in [Fd -> SockStates] /\ connection' \subseteq connection /\ \A x \in Fd : Bends(x)

\* What the gate asks of the socket layer when it closes a socket.
LEMMA ClosingIs ==
    ASSUME sock \in [Fd -> SockStates], NEW fd \in Fd, sock' = Closing(fd)
    PROVE  /\ sock' \in [Fd -> SockStates]
           /\ \A x \in Fd : \/ sock'[x] = sock[x]
                            \/ /\ x = fd /\ sock[x] \in {"accepted", "started", "broken"}
                               /\ sock'[x] = "closing"
<1>1. "closing" \in SockStates
  BY DEF SockStates, Over
<1>2. CASE sock[fd] \in {"accepted", "started", "broken"}
  <2>1. sock' = [sock EXCEPT ![fd] = "closing"]
    BY <1>2 DEF Closing
  <2> QED BY <1>1, <1>2, <2>1
<1>3. CASE sock[fd] \notin {"accepted", "started", "broken"}
  BY <1>3 DEF Closing
<1> QED BY <1>2, <1>3

\* User code closes a client, or none.
LEMMA UserCloses ==
    ASSUME sock \in [Fd -> SockStates], ClosesNone \/ \E fd \in Fd : CloseClient(fd)
    PROVE  UserBends
<1>1. CASE ClosesNone
  BY <1>1 DEF ClosesNone, UserBends, Bends
<1>2. ASSUME NEW fd \in Fd, CloseClient(fd) PROVE UserBends
  <2>1. fd \in connection /\ connection' = connection \ {fd} /\ sock' = Closing(fd)
    BY <1>2 DEF CloseClient
  <2>2. \A x \in Fd : Bends(x)
    BY <2>1, ClosingIs DEF Bends
  <2>3. sock' \in [Fd -> SockStates]
    BY <2>1, ClosingIs
  <2> QED BY <2>1, <2>2, <2>3 DEF UserBends
<1> QED BY <1>1, <1>2

\* A message is given to the handler, or dropped.
LEMMA Dispatched ==
    ASSUME GateTypes, NEW fd \in Fd, NEW data \in Payload, Dispatches(fd, data)
    PROVE  /\ UserBends /\ got' \in [Fd -> Seq(Payload)] /\ thrown' \in Nat
           /\ thrown' = 0 => thrown = 0
           /\ fd \in connection => got' = [got EXCEPT ![fd] = Append(@, data)]
           /\ fd \notin connection => got' = got
<1>1. ClosesNone \/ \E x \in Fd : CloseClient(x)
  BY DEF Dispatches, Returns, Throws
<1>2. UserBends
  BY <1>1, UserCloses DEF GateTypes, SockStates
<1>3. thrown' \in Nat /\ (thrown' = 0 => thrown = 0)
  BY DEF Dispatches, Returns, Throws, GateTypes
<1>4. /\ fd \in connection => got' = [got EXCEPT ![fd] = Append(@, data)]
      /\ fd \notin connection => got' = got
  BY DEF Dispatches, DispatchMsg, Connected
<1>5. got \in [Fd -> Seq(Payload)] /\ Append(got[fd], data) \in Seq(Payload)
  <2>1. got \in [Fd -> Seq(Payload)]
    BY DEF GateTypes
  <2> QED BY <2>1, AppendProperties
<1>6. got' \in [Fd -> Seq(Payload)]
  BY <1>4, <1>5
<1> QED BY <1>2, <1>3, <1>4, <1>6

\* Told of one more event.
LEMMA Told ==
    ASSUME told \in [Fd -> Seq(Callback)], NEW fd \in Fd, NEW what \in Callback, Tells(fd, what)
    PROVE  /\ told' \in [Fd -> Seq(Callback)] /\ told'[fd] = Append(told[fd], what)
           /\ \A x \in Fd : x # fd => told'[x] = told[x]
<1>1. Append(told[fd], what) \in Seq(Callback)
  BY AppendProperties
<1> QED BY <1>1 DEF Tells

\* The socket of an event, unless it is the listening one.
LEMMA EventOfClient ==
    ASSUME GateTypes, NEW type \in {"ACCEPT", "CLOSE", "ERROR", "DATA"}, Handles(type)
    PROVE  Event.fd \in Fd /\ Is(mailbox[1], type, Event.fd) /\ 1 \in DOMAIN mailbox
<1>1. mailbox \in Seq(EventOf) /\ mailbox # <<>> /\ Event.type = type
  BY DEF GateTypes, Handles
<1>2. Event = mailbox[1] /\ Event \in EventOf /\ 1 \in DOMAIN mailbox
  BY <1>1, EventTaken
<1>3. Event.fd \in Fd
  BY <1>1, <1>2 DEF EventOf
<1> QED BY <1>1, <1>2, <1>3 DEF Is

\* A packet is taken from the ring.
LEMMA PacketTaken ==
    ASSUME RingRead, ~Empty(ring)
    PROVE  /\ Top(ring) = Content(ring)[1] /\ Held(ring) \in Nat /\ 1 \in 1 .. Held(ring)
           /\ Top(ring).fd \in Fd /\ Top(ring).data \in Payload /\ sock[Top(ring).fd] \notin Unread
           /\ Ring(Pop(ring)) /\ Held(Pop(ring)) = Held(ring) - 1
           /\ \A i \in 1 .. Held(ring) - 1 :
                 i + 1 \in 1 .. Held(ring) /\ Content(Pop(ring))[i] = Content(ring)[i + 1]
<1>1. Ring(ring)
  BY DEF RingRead
<1>2. /\ Ring(Pop(ring)) /\ Held(Pop(ring)) = Held(ring) - 1 /\ Top(ring) = Content(ring)[1]
      /\ \A i \in 1 .. Held(ring) - 1 : Content(Pop(ring))[i] = Content(ring)[i + 1]
  BY <1>1, PopTakesOldest
<1>3. Held(ring) \in Nat /\ Held(ring) # 0
  BY <1>1 DEF Ring, Held, Empty
<1>4. 1 \in 1 .. Held(ring) /\ \A i \in 1 .. Held(ring) - 1 : i + 1 \in 1 .. Held(ring)
  BY <1>3
<1> QED BY <1>2, <1>3, <1>4 DEF RingRead

\* Every step keeps the types.
LEMMA TypesKept ==
    ASSUME GateInv, Next
    PROVE  GateTypes'
<1> USE DEF SockStates
<1>1. GateTypes /\ RingRead
  BY DEF GateInv
<1>2. /\ mailbox \in Seq(EventOf) /\ sock \in [Fd -> SockStates] /\ connection \subseteq Fd
      /\ told \in [Fd -> Seq(Callback)]
  BY <1>1 DEF GateTypes
<1>3. \A type : Handles(type) => mailbox' \in Seq(EventOf)
  BY <1>2, EventTaken DEF Handles
<1>4. \A e \in EventOf : Post(e) => mailbox' \in Seq(EventOf)
  BY <1>2, EventPosted DEF Post
<1>5. CASE OnData
  <2>1. Handles("DATA")
    BY <1>5 DEF OnData
  <2>2. DataFd \in Fd /\ Len(Event.data) \in Nat /\ DataIs.frames \in Seq(Packable)
    BY <2>1, DataTaken
  <2>3. /\ uncomplete' = [uncomplete EXCEPT ![DataFd] = DataIs.left]
        /\ received' = [received EXCEPT ![DataFd] = @ + Len(Event.data)]
        /\ unsent' = unsent /\ told' = told
    BY <1>5 DEF OnData, DataFd, DataIs
  <2>4. received' \in [Fd -> Nat] /\ uncomplete' = [x \in Fd |-> uncomplete'[x]]
    <3>1. received' \in [Fd -> Nat]
      BY <1>1, <2>2, <2>3 DEF GateTypes
    <3>2. uncomplete = [x \in Fd |-> uncomplete[x]]
      BY <1>1 DEF GateTypes
    <3>3. uncomplete' = [x \in Fd |-> uncomplete'[x]]
      BY ONLY <2>3, <3>2
    <3> QED BY <3>1, <3>3
  <2>5. CASE DataIs.alone /\ Dispatches(DataFd, DataIs.frames[1]) /\ UNCHANGED <<ring, popping>>
    <3>1. DataIs.frames[1] \in Payload
      <4>1. Len(DataIs.frames) = 1
        BY <2>1, <2>5, DataTaken DEF Filtered
      <4>2. DataIs.frames[1] \in Packable
        BY <2>2, <4>1, LenProperties
      <4> QED BY <4>2 DEF Packable
    <3>2. UserBends /\ got' \in [Fd -> Seq(Payload)] /\ thrown' \in Nat
      BY <1>1, <2>2, <2>5, <3>1, Dispatched
    <3>3. mailbox' \in Seq(EventOf) /\ popping' = popping
      BY <1>3, <2>1, <2>5
    <3>4. connection' \subseteq Fd /\ sock' \in [Fd -> SockStates]
      BY <1>2, <3>2 DEF UserBends
    <3> QED BY <1>1, <2>3, <2>4, <3>2, <3>3, <3>4 DEF GateTypes
  <2>6. CASE /\ ~DataIs.alone /\ popping' = (DataIs.frames # <<>>)
             /\ ClosesNone /\ UNCHANGED <<got, dropped, thrown>>
    <3>1. mailbox' \in Seq(EventOf) /\ popping' \in BOOLEAN
      BY <1>3, <2>1, <2>6
    <3> QED BY <1>1, <2>3, <2>4, <2>6, <3>1 DEF GateTypes, ClosesNone
  <2> QED BY <1>5, <2>5, <2>6 DEF OnData, DataFd, DataIs
<1>6. CASE PopPacket
  <2>1. Top(ring).fd \in Fd /\ Top(ring).data \in Payload
    BY <1>1, <1>6, PacketTaken DEF PopPacket
  <2>2. UserBends /\ got' \in [Fd -> Seq(Payload)] /\ thrown' \in Nat
    BY <1>1, <1>6, <2>1, Dispatched DEF PopPacket
  <2>3. popping' \in BOOLEAN /\ UNCHANGED <<uncomplete, mailbox, unsent, received, told>>
    BY <1>6 DEF PopPacket
  <2>4. connection' \subseteq Fd /\ sock' \in [Fd -> SockStates]
    BY <1>2, <2>2 DEF UserBends
  <2> QED BY <1>1, <2>2, <2>3, <2>4 DEF GateTypes
<1>7. CASE EndMore
  BY <1>1, <1>7 DEF EndMore, GateTypes, handlerVars
<1>8. CASE OnOpen
  <2>1. Handles("ACCEPT") /\ Event.fd \in Fd
    BY <1>1, <1>8, EventOfClient DEF OnOpen
  <2>2. /\ sock' \in [Fd -> SockStates] /\ connection' \subseteq Fd
        /\ told' \in [Fd -> Seq(Callback)]
    <3>1. CASE clientNumber >= MaxClient
      <4>1. sock' = Closing(Event.fd) /\ UNCHANGED <<connection, told>>
        BY <1>8, <3>1 DEF OnOpen
      <4> QED BY <1>2, <2>1, <4>1, ClosingIs
    <3>2. CASE ~(clientNumber >= MaxClient)
      <4>1. sock' = sock /\ connection' = connection \cup {Event.fd} /\ Tells(Event.fd, "connect")
        BY <1>8, <3>2 DEF OnOpen
      <4>2. told' \in [Fd -> Seq(Callback)]
        <5>1. "connect" \in Callback
          BY DEF Callback
        <5> QED BY <1>2, <2>1, <4>1, <5>1, Told
      <4> QED BY <1>2, <2>1, <4>1, <4>2
    <3> QED BY <3>1, <3>2
  <2>3. UNCHANGED <<uncomplete, popping, unsent, received, got, thrown>>
    BY <1>8 DEF OnOpen
  <2>4. mailbox' \in Seq(EventOf)
    BY <1>3, <2>1
  <2> QED BY <1>1, <2>2, <2>3, <2>4 DEF GateTypes
<1>9. CASE OnClose
  <2>1. Handles("CLOSE") /\ Event.fd \in Fd /\ Tells(Event.fd, "disconnect")
    BY <1>1, <1>9, EventOfClient DEF OnClose
  <2>2. told' \in [Fd -> Seq(Callback)] /\ mailbox' \in Seq(EventOf)
    <3>1. "disconnect" \in Callback
      BY DEF Callback
    <3> QED BY <1>2, <1>3, <2>1, <3>1, Told
  <2>3. /\ connection' = connection \ {Event.fd}
        /\ uncomplete' = [uncomplete EXCEPT ![Event.fd] = Nothing]
        /\ UNCHANGED <<popping, sock, unsent, received, got, thrown>>
    BY <1>9 DEF OnClose, CloseUncomplete
  <2>4. uncomplete' = [x \in Fd |-> uncomplete'[x]]
    BY <1>1, <2>3 DEF GateTypes
  <2> QED BY <1>1, <2>2, <2>3, <2>4 DEF GateTypes
<1>10. CASE OnListenClose
  <2>1. mailbox' \in Seq(EventOf)
    BY <1>3, <1>10 DEF OnListenClose
  <2>2. UNCHANGED <<connection, uncomplete, popping, sock, unsent, received, got, told, thrown>>
    BY <1>10 DEF OnListenClose, handlerVars
  <2> QED BY <1>1, <2>1, <2>2 DEF GateTypes
<1>11. CASE OnError
  <2>1. Handles("ERROR") /\ Event.fd \in Fd /\ Tells(Event.fd, "error")
    BY <1>1, <1>11, EventOfClient DEF OnError
  <2>2. told' \in [Fd -> Seq(Callback)] /\ mailbox' \in Seq(EventOf)
    <3>1. "error" \in Callback
      BY DEF Callback
    <3> QED BY <1>2, <1>3, <2>1, <3>1, Told
  <2>3. /\ sock' = Closing(Event.fd)
        /\ uncomplete' = [uncomplete EXCEPT ![Event.fd] = Nothing]
        /\ UNCHANGED <<popping, connection, unsent, received, got, thrown>>
    BY <1>11 DEF OnError, CloseUncomplete
  <2>4. uncomplete' = [x \in Fd |-> uncomplete'[x]]
    BY <1>1, <2>3 DEF GateTypes
  <2>5. sock' \in [Fd -> SockStates]
    BY <1>2, <2>1, <2>3, ClosingIs
  <2> QED BY <1>1, <2>2, <2>3, <2>4, <2>5 DEF GateTypes
<1>12. CASE OpenGate
  BY <1>1, <1>12 DEF OpenGate, GateTypes, handlerVars
<1>13. CASE CloseGate
  BY <1>1, <1>13 DEF CloseGate, GateTypes, handlerVars
<1>14. ASSUME NEW fd \in Fd, OpenClient(fd) PROVE GateTypes'
  <2>1. sock' = [sock EXCEPT ![fd] = "started"]
    BY <1>14 DEF OpenClient, Resuming
  <2>2. sock' \in [Fd -> SockStates]
    BY <1>2, <2>1
  <2> QED BY <1>1, <1>14, <2>2 DEF OpenClient, GateTypes, gateVars, handlerVars
<1>15. ASSUME NEW fd \in Fd, Kick(fd) PROVE GateTypes'
  <2>1. UserBends
    BY <1>2, <1>15, UserCloses DEF Kick
  <2>2. connection' \subseteq Fd /\ sock' \in [Fd -> SockStates]
    BY <1>2, <2>1 DEF UserBends
  <2> QED BY <1>1, <1>15, <2>2 DEF Kick, GateTypes, handlerVars
<1>16. CASE ListenClosed
  <2>1. mailbox' \in Seq(EventOf)
    <3>1. [type |-> "LISTENCLOSE"] \in EventOf
      BY DEF EventOf
    <3> QED BY <1>4, <1>16, <3>1 DEF ListenClosed
  <2> QED BY <1>1, <1>16, <2>1 DEF ListenClosed, Quiescent, GateTypes, gateVars, handlerVars
<1>17. \A fd \in Fd : \A type \in {"ACCEPT", "CLOSE", "ERROR"} : [type |-> type, fd |-> fd] \in EventOf
  BY DEF EventOf
<1>18. ASSUME NEW fd \in Fd, Accept(fd) PROVE GateTypes'
  <2>1. mailbox' \in Seq(EventOf)
    BY <1>4, <1>17, <1>18 DEF Accept
  <2>2. sock' \in [Fd -> SockStates]
    BY <1>2, <1>18 DEF Accept, Unread
  <2> QED BY <1>1, <1>18, <2>1, <2>2 DEF Accept, Quiescent, GateTypes, gateVars, handlerVars
<1>19. ASSUME NEW fd \in Fd, Deliver(fd) PROVE GateTypes'
  <2>1. PICK n \in 1 .. MaxSegment :
            /\ n <= Len(unsent[fd])
            /\ unsent' = [unsent EXCEPT ![fd] = From(@, n + 1)]
            /\ Post([type |-> "DATA", fd |-> fd, data |-> SubSeq(unsent[fd], 1, n)])
    BY <1>19 DEF Deliver
  <2>2. unsent \in [Fd -> Payload] /\ unsent[fd] \in Seq(Byte) /\ Len(unsent[fd]) \in Nat
    BY <1>1, LenProperties DEF GateTypes, Payload
  <2>3. n \in Nat /\ n + 1 \in 1 .. Len(unsent[fd]) + 1 /\ n \in 0 .. Len(unsent[fd]) /\ 0 \in 0 .. n
    BY <2>1, <2>2, GateAssumption
  <2>4. From(unsent[fd], n + 1) \in Payload
    BY <2>2, <2>3, FromIs DEF Payload
  <2>5. SubSeq(unsent[fd], 1, n) \in Payload
    <3>1. Piece(unsent[fd], 0, n) \in Seq(Byte)
      BY <2>2, <2>3, PieceIs
    <3>2. 0 + 1 = 1
      OBVIOUS
    <3> QED BY <3>1, <3>2 DEF Piece, Payload
  <2>6. mailbox' \in Seq(EventOf)
    <3>1. [type |-> "DATA", fd |-> fd, data |-> SubSeq(unsent[fd], 1, n)] \in EventOf
      BY <2>5 DEF EventOf
    <3> QED BY <1>4, <2>1, <3>1
  <2>7. unsent' \in [Fd -> Payload]
    BY <2>1, <2>2, <2>4
  <2> QED BY <1>1, <1>19, <2>6, <2>7 DEF Deliver, Quiescent, GateTypes, gateVars, handlerVars
<1>20. ASSUME NEW fd \in Fd, SocketClosed(fd) PROVE GateTypes'
  <2>1. mailbox' \in Seq(EventOf)
    BY <1>4, <1>17, <1>20 DEF SocketClosed
  <2>2. sock' \in [Fd -> SockStates]
    BY <1>2, <1>20 DEF SocketClosed, Over
  <2> QED BY <1>1, <1>20, <2>1, <2>2 DEF SocketClosed, Quiescent, GateTypes, gateVars, handlerVars
<1>21. ASSUME NEW fd \in Fd, SocketError(fd) PROVE GateTypes'
  <2>1. mailbox' \in Seq(EventOf)
    BY <1>4, <1>17, <1>21 DEF SocketError
  <2>2. sock' \in [Fd -> SockStates]
    BY <1>2, <1>21 DEF SocketError, Over
  <2> QED BY <1>1, <1>21, <2>1, <2>2 DEF SocketError, Quiescent, GateTypes, gateVars, handlerVars
<1> QED
  BY <1>5, <1>6, <1>7, <1>8, <1>9, <1>10, <1>11, <1>12, <1>13, <1>14, <1>15, <1>16, <1>18, <1>19,
     <1>20, <1>21 DEF Next, Gateserver, Owner, Sockets

\* Sockets only go on: one that was read, or is over, stays so.
GoesOn(x) ==
    /\ sock[x] \notin Unread => sock'[x] \notin Unread
    /\ sock[x] \in Over => sock'[x] \in Over
    /\ sock'[x] = "none" => sock[x] = "none"
LEMMA BendsGoesOn ==
    ASSUME NEW x \in Fd, Bends(x)
    PROVE  GoesOn(x) /\ (sock'[x] = "gone" => sock[x] = "gone")
BY DEF Bends, GoesOn, Unread, Over
LEMMA ClosingGoesOn ==
    ASSUME sock \in [Fd -> SockStates], NEW fd \in Fd, sock' = Closing(fd), NEW x \in Fd
    PROVE  GoesOn(x) /\ (sock'[x] = "gone" => sock[x] = "gone")
<1>1. \/ sock'[x] = sock[x]
      \/ sock[x] \in {"accepted", "started", "broken"} /\ sock'[x] = "closing"
  BY ClosingIs
<1> QED BY <1>1 DEF GoesOn, Unread, Over

\* The steps of the gate and of its owner that close clients at most.
LEMMA DataBends ==
    ASSUME GateInv, OnData
    PROVE  UserBends
<1>1. sock \in [Fd -> SockStates]
  BY DEF GateInv, GateTypes, SockStates
<1>2. ClosesNone \/ \E x \in Fd : CloseClient(x)
  BY DEF OnData, Dispatches, Returns, Throws
<1> QED BY <1>1, <1>2, UserCloses
LEMMA OwnerBends ==
    ASSUME GateInv, PopPacket \/ (\E fd \in Fd : OpenClient(fd) \/ Kick(fd))
    PROVE  UserBends
<1>1. sock \in [Fd -> SockStates] /\ connection \subseteq Fd
  BY DEF GateInv, GateTypes, SockStates
<1>2. CASE PopPacket \/ \E fd \in Fd : Kick(fd)
  <2>1. ClosesNone \/ \E x \in Fd : CloseClient(x)
    BY <1>2 DEF PopPacket, Dispatches, Returns, Throws, Kick
  <2> QED BY <1>1, <2>1, UserCloses
<1>3. ASSUME NEW fd \in Fd, OpenClient(fd) PROVE UserBends
  <2>1. /\ fd \in connection /\ sock[fd] = "accepted" /\ sock' = [sock EXCEPT ![fd] = "started"]
        /\ connection' = connection
    BY <1>3 DEF OpenClient, Resuming, gateVars
  <2>2. \A x \in Fd : Bends(x)
    BY <1>1, <2>1 DEF Bends
  <2>3. sock' \in [Fd -> SockStates]
    BY <1>1, <2>1 DEF SockStates
  <2> QED BY <2>1, <2>2, <2>3 DEF UserBends
<1> QED BY <1>2, <1>3

\* No step of the gate or of the socket layer takes a socket back.
LEMMA SocketsGoOn ==
    ASSUME GateInv, Next, NEW x \in Fd
    PROVE  GoesOn(x)
<1>1. GateTypes /\ sock \in [Fd -> SockStates]
  BY DEF GateInv, GateTypes, SockStates
<1>2. CASE OnData \/ PopPacket \/ \E fd \in Fd : OpenClient(fd) \/ Kick(fd)
  <2>1. UserBends
    BY <1>2, DataBends, OwnerBends
  <2> QED BY <2>1, BendsGoesOn DEF UserBends
<1>3. CASE sock' = sock
  BY <1>3 DEF GoesOn
<1>4. CASE OnOpen
  <2>1. Event.fd \in Fd
    BY <1>1, <1>4, EventOfClient DEF OnOpen
  <2>2. sock' = sock \/ sock' = Closing(Event.fd)
    BY <1>4 DEF OnOpen
  <2> QED BY <1>1, <1>3, <2>1, <2>2, ClosingGoesOn
<1>5. CASE OnError
  <2>1. Event.fd \in Fd /\ sock' = Closing(Event.fd)
    BY <1>1, <1>5, EventOfClient DEF OnError
  <2> QED BY <1>1, <2>1, ClosingGoesOn
<1>6. ASSUME NEW fd \in Fd, Accept(fd) \/ SocketClosed(fd) \/ SocketError(fd) PROVE GoesOn(x)
  <2>1. CASE Accept(fd)
    BY <1>1, <2>1 DEF Accept, GoesOn, Unread, Over
  <2>2. CASE SocketClosed(fd)
    BY <1>1, <2>2 DEF SocketClosed, GoesOn, Unread, Over
  <2>3. CASE SocketError(fd)
    BY <1>1, <2>3 DEF SocketError, GoesOn, Unread, Over
  <2> QED BY <1>6, <2>1, <2>2, <2>3
<1>7. EndMore \/ OnClose \/ OnListenClose \/ OpenGate \/ CloseGate \/ ListenClosed
      \/ (\E fd \in Fd : Deliver(fd)) => sock' = sock
  BY DEF EndMore, OnClose, OnListenClose, OpenGate, CloseGate, ListenClosed, Deliver
<1> QED BY <1>2, <1>3, <1>4, <1>5, <1>6, <1>7 DEF Next, Gateserver, Owner, Sockets

\* What a push or a pop leaves in the ring is of sockets that were read.
LEMMA RingKept ==
    ASSUME GateInv, Next
    PROVE  RingRead'
<1>1. RingRead /\ \A x \in Fd : sock[x] \notin Unread => sock'[x] \notin Unread
  BY SocketsGoOn DEF GateInv, GoesOn
<1>2. CASE ring' = ring
  BY <1>1, <1>2 DEF RingRead
<1>3. CASE PopPacket
  <2>1. ring' = Pop(ring) /\ ~Empty(ring)
    BY <1>3 DEF PopPacket
  <2>2. /\ Ring(Pop(ring)) /\ Held(Pop(ring)) = Held(ring) - 1
        /\ \A i \in 1 .. Held(ring) - 1 :
              i + 1 \in 1 .. Held(ring) /\ Content(Pop(ring))[i] = Content(ring)[i + 1]
    BY <1>1, <2>1, PacketTaken
  <2>3. \A i \in 1 .. Held(ring') :
            /\ Content(ring')[i].fd \in Fd /\ Content(ring')[i].data \in Payload
            /\ sock'[Content(ring')[i].fd] \notin Unread
    BY <1>1, <2>1, <2>2 DEF RingRead
  <2> QED BY <2>1, <2>2, <2>3 DEF RingRead
<1>4. CASE OnData
  <2>1. Handles("DATA")
    BY <1>4 DEF OnData
  <2>2. /\ DataFd \in Fd /\ sock[DataFd] \notin Unread /\ DataIs.frames \in Seq(Packable)
    BY <2>1, DataTaken
  <2>3. ring' = ring \/ ring' = PushAll(ring, DataFd, DataIs.frames)
    BY <1>4 DEF OnData, DataFd, DataIs
  <2>4. CASE ring' = PushAll(ring, DataFd, DataIs.frames)
    <3> DEFINE s == DataIs.frames
    <3>1. s \in Seq(Packable) /\ Ring(ring)
      BY <1>1, <2>2 DEF RingRead
    <3> HIDE DEF s
    <3>2. /\ Ring(ring') /\ Held(ring') = Held(ring) + Len(s)
          /\ \A i \in 1 .. Held(ring) : Content(ring')[i] = Content(ring)[i]
          /\ \A i \in 1 .. Len(s) : Content(ring')[Held(ring) + i] = [fd |-> DataFd, data |-> s[i]]
      BY <2>4, <3>1, PushAllAppends DEF s
    <3>3. Held(ring) \in Nat /\ Len(s) \in Nat /\ \A i \in 1 .. Len(s) : s[i] \in Payload
      BY <3>1, LenProperties DEF Held, Ring, Packable
    <3>4. ASSUME NEW i \in 1 .. Held(ring')
          PROVE  /\ Content(ring')[i].fd \in Fd /\ Content(ring')[i].data \in Payload
                 /\ sock'[Content(ring')[i].fd] \notin Unread
      <4>1. CASE i \in 1 .. Held(ring)
        BY <1>1, <3>2, <4>1 DEF RingRead
      <4>2. CASE i \notin 1 .. Held(ring)
        <5>1. i - Held(ring) \in 1 .. Len(s) /\ Held(ring) + (i - Held(ring)) = i
          BY <3>2, <3>3, <4>2
        <5>2. Content(ring')[i] = [fd |-> DataFd, data |-> s[i - Held(ring)]]
          BY <3>2, <5>1
        <5> QED BY <1>1, <2>2, <3>3, <5>1, <5>2
      <4> QED BY <4>1, <4>2
    <3> QED BY <3>2, <3>4 DEF RingRead
  <2> QED BY <1>2, <2>3, <2>4
<1>5. EndMore \/ OnOpen \/ OnClose \/ OnListenClose \/ OnError => ring' = ring
  BY DEF EndMore, OnOpen, OnClose, OnListenClose, OnError
<1>6. Owner => ring' = ring
  BY DEF Owner, OpenGate, CloseGate, OpenClient, Kick, gateVars
<1>7. Sockets => ring' = ring
  BY DEF Sockets, ListenClosed, Accept, Deliver, SocketClosed, SocketError, Quiescent, gateVars
<1> QED BY <1>2, <1>3, <1>4, <1>5, <1>6, <1>7 DEF Next, Gateserver
-----------------------------------------------------------------------------
(* The mailbox: a step takes its first event, or posts one, or leaves it.   *)

Shifts(d) ==
    /\ \A i \in DOMAIN mailbox' :
          i \in Nat \ {0} /\ i + d \in DOMAIN mailbox /\ mailbox'[i] = mailbox[i + d]
    /\ \A i \in DOMAIN mailbox :
          i \in Nat /\ (i > d => i - d \in DOMAIN mailbox' /\ mailbox'[i - d] = mailbox[i])
LEMMA MailStays ==
    ASSUME GateTypes, mailbox' = mailbox
    PROVE  Shifts(0)
<1>1. DOMAIN mailbox = 1 .. Len(mailbox) /\ Len(mailbox) \in Nat
  BY LenProperties DEF GateTypes
<1>2. \A i \in DOMAIN mailbox : i \in Nat \ {0} /\ i + 0 = i /\ i - 0 = i
  BY <1>1
<1> QED BY <1>2 DEF Shifts
LEMMA MailTaken ==
    ASSUME GateTypes, NEW type, Handles(type)
    PROVE  Shifts(1)
<1>1. mailbox \in Seq(EventOf) /\ mailbox # <<>> /\ mailbox' = Tail(mailbox)
  BY DEF GateTypes, Handles
<1>2. /\ DOMAIN mailbox = 1 .. Len(mailbox) /\ Len(mailbox) \in Nat
      /\ \A i \in DOMAIN mailbox' :
            i + 1 \in DOMAIN mailbox /\ i \in Nat /\ mailbox'[i] = mailbox[i + 1]
      /\ \A i \in DOMAIN mailbox :
            i # 1 => i - 1 \in DOMAIN mailbox' /\ mailbox'[i - 1] = mailbox[i]
  BY <1>1, EventTaken
<1>3. \A i \in DOMAIN mailbox' : i \in Nat \ {0}
  <2>1. mailbox' \in Seq(EventOf)
    BY <1>1, EventTaken
  <2>2. DOMAIN mailbox' = 1 .. Len(mailbox') /\ Len(mailbox') \in Nat
    BY <2>1, LenProperties
  <2> QED BY <2>2
<1>4. \A i \in DOMAIN mailbox : i \in Nat /\ (i > 1 => i # 1)
  BY <1>2
<1> QED BY <1>2, <1>3, <1>4 DEF Shifts

\* What the first event tells of the others: no second ACCEPT, and no DATA
\* once the socket ends.
LEMMA FirstEvent ==
    ASSUME GateInv, NEW type \in {"ACCEPT", "CLOSE", "ERROR", "DATA"}, Handles(type)
    PROVE  /\ Event.fd \in Fd /\ Is(mailbox[1], type, Event.fd) /\ 1 \in DOMAIN mailbox
           /\ type = "ACCEPT" => /\ sock[Event.fd] = "accepted" /\ told[Event.fd] = <<>>
                                 /\ Event.fd \notin connection
           /\ type = "DATA" => sock[Event.fd] \notin Unread
           /\ type \in {"CLOSE", "ERROR"} => sock[Event.fd] \in Over
           /\ \A i \in DOMAIN mailbox', fd \in Fd :
                 /\ Is(mailbox'[i], "ACCEPT", fd) => fd # Event.fd
                 /\ Is(mailbox'[i], "DATA", fd) /\ type \in {"CLOSE", "ERROR"} => fd # Event.fd
<1>1. GateTypes /\ Lifecycle /\ EndsLast
  BY DEF GateInv
<1>2. Event.fd \in Fd /\ Is(mailbox[1], type, Event.fd) /\ 1 \in DOMAIN mailbox
  BY <1>1, EventOfClient
<1>3. /\ type = "ACCEPT" => /\ sock[Event.fd] = "accepted" /\ told[Event.fd] = <<>>
                            /\ Event.fd \notin connection
                            /\ \A j \in DOMAIN mailbox : Is(mailbox[j], "ACCEPT", Event.fd) => j = 1
      /\ type = "DATA" => sock[Event.fd] \notin Unread
      /\ type \in {"CLOSE", "ERROR"} => Ends(mailbox[1], Event.fd) /\ sock[Event.fd] \in Over
  BY <1>1, <1>2 DEF Lifecycle, Ends
<1>4. Shifts(1)
  BY <1>1, MailTaken
<1>5. ASSUME NEW i \in DOMAIN mailbox', NEW fd \in Fd
      PROVE  /\ Is(mailbox'[i], "ACCEPT", fd) => fd # Event.fd
             /\ Is(mailbox'[i], "DATA", fd) /\ type \in {"CLOSE", "ERROR"} => fd # Event.fd
  <2>1. i \in Nat \ {0} /\ i + 1 \in DOMAIN mailbox /\ mailbox'[i] = mailbox[i + 1]
    BY <1>4 DEF Shifts
  <2>2. i + 1 # 1 /\ ~(i + 1 < 1)
    BY <2>1
  <2>3. ASSUME Is(mailbox'[i], "ACCEPT", fd), fd = Event.fd PROVE FALSE
    <3>1. Is(mailbox[i + 1], "ACCEPT", Event.fd)
      BY <2>1, <2>3
    <3>2. sock[Event.fd] = "accepted"
      BY <1>1, <1>2, <2>1, <3>1 DEF Lifecycle
    <3>3. type = "ACCEPT"
      <4>1. sock[Event.fd] \in Unread /\ sock[Event.fd] \notin Over
        BY <3>2 DEF Unread, Over
      <4> QED BY <1>3, <3>1, <3>2, <4>1
    <3> QED BY <1>3, <2>1, <2>2, <3>1, <3>3
  <2>4. ASSUME Is(mailbox'[i], "DATA", fd), type \in {"CLOSE", "ERROR"}, fd = Event.fd PROVE FALSE
    <3>1. Is(mailbox[i + 1], "DATA", Event.fd)
      BY <2>1, <2>4
    <3> QED BY <1>1, <1>2, <1>3, <2>1, <2>2, <2>4, <3>1 DEF EndsLast
  <2> QED BY <2>3, <2>4
<1> QED BY <1>2, <1>3, <1>5
-----------------------------------------------------------------------------
(* The life of a socket, and the events of its end.                         *)

\* A step that posts no event keeps Lifecycle when it leaves the sockets that
\* wait for their ACCEPT alone.
LEMMA LifecycleShifts ==
    ASSUME Lifecycle, NEW d \in {0, 1}, Shifts(d), \A x \in Fd : GoesOn(x),
           \A i \in DOMAIN mailbox', x \in Fd :
               Is(mailbox'[i], "ACCEPT", x) =>
                   /\ sock'[x] = sock[x] /\ told'[x] = told[x]
                   /\ x \notin connection => x \notin connection',
           \A x \in Fd : sock[x] = "none" => told'[x] = told[x],
           \A x \in Fd : x \in connection' => sock'[x] # "none" /\ Admitted(x)'
    PROVE  Lifecycle'
<1>1. \A i \in DOMAIN mailbox' :
          i \in Nat \ {0} /\ i + d \in DOMAIN mailbox /\ mailbox'[i] = mailbox[i + d]
  BY DEF Shifts
<1>2. ASSUME NEW i \in DOMAIN mailbox', NEW x \in Fd
      PROVE  /\ Is(mailbox'[i], "ACCEPT", x) =>
                   /\ sock'[x] = "accepted" /\ told'[x] = <<>> /\ x \notin connection'
                   /\ \A j \in DOMAIN mailbox' : Is(mailbox'[j], "ACCEPT", x) => j = i
             /\ Is(mailbox'[i], "DATA", x) => sock'[x] \notin Unread
             /\ Ends(mailbox'[i], x) => sock'[x] \in Over
  <2>1. i \in Nat /\ i + d \in DOMAIN mailbox /\ mailbox'[i] = mailbox[i + d]
    BY <1>1
  <2>2. ASSUME Is(mailbox'[i], "ACCEPT", x)
        PROVE  /\ sock'[x] = "accepted" /\ told'[x] = <<>> /\ x \notin connection'
               /\ \A j \in DOMAIN mailbox' : Is(mailbox'[j], "ACCEPT", x) => j = i
    <3>1. /\ sock[x] = "accepted" /\ told[x] = <<>> /\ x \notin connection
          /\ \A j \in DOMAIN mailbox : Is(mailbox[j], "ACCEPT", x) => j = i + d
      BY <2>1, <2>2 DEF Lifecycle
    <3>2. ASSUME NEW j \in DOMAIN mailbox', Is(mailbox'[j], "ACCEPT", x) PROVE j = i
      <4>1. j \in Nat /\ j + d = i + d
        BY <1>1, <3>1, <3>2
      <4> QED BY <2>1, <4>1
    <3> QED BY <2>2, <3>1, <3>2
  <2>3. Is(mailbox'[i], "DATA", x) => sock'[x] \notin Unread
    BY <2>1 DEF Lifecycle, GoesOn
  <2>4. Ends(mailbox'[i], x) => sock'[x] \in Over
    BY <2>1 DEF Lifecycle, GoesOn
  <2> QED BY <2>2, <2>3, <2>4
<1>3. ASSUME NEW x \in Fd
      PROVE  /\ sock'[x] = "none" => told'[x] = <<>>
             /\ x \in connection' => sock'[x] # "none" /\ Admitted(x)'
  BY DEF Lifecycle, GoesOn
<1> QED BY <1>2, <1>3 DEF Lifecycle

\* A step of the socket layer: one event more, and no callback.
LEMMA LifecyclePosts ==
    ASSUME GateTypes, Lifecycle, \A x \in Fd : GoesOn(x), NEW e \in EventOf, Post(e),
           UNCHANGED <<told, connection>>,
           \A x \in Fd : sock[x] = "accepted" \/ x \in connection =>
                             sock'[x] = sock[x] \/ (sock'[x] \in Over /\ sock[x] # "accepted"),
           \A x \in Fd : /\ Is(e, "ACCEPT", x) => sock[x] = "none" /\ sock'[x] = "accepted"
                         /\ Is(e, "DATA", x) => sock[x] \notin Unread
                         /\ Ends(e, x) => sock'[x] \in Over
    PROVE  Lifecycle'
<1>1. /\ mailbox' = Append(mailbox, e) /\ mailbox \in Seq(EventOf)
  BY DEF Post, GateTypes
<1>2. /\ mailbox'[Len(mailbox) + 1] = e
      /\ \A i \in DOMAIN mailbox : mailbox'[i] = mailbox[i]
      /\ \A i \in DOMAIN mailbox' : i \in DOMAIN mailbox \/ i = Len(mailbox) + 1
  BY <1>1, EventPosted
<1>3. ASSUME NEW i \in DOMAIN mailbox', NEW x \in Fd
      PROVE  /\ Is(mailbox'[i], "ACCEPT", x) =>
                   /\ sock'[x] = "accepted" /\ told'[x] = <<>> /\ x \notin connection'
                   /\ \A j \in DOMAIN mailbox' : Is(mailbox'[j], "ACCEPT", x) => j = i
             /\ Is(mailbox'[i], "DATA", x) => sock'[x] \notin Unread
             /\ Ends(mailbox'[i], x) => sock'[x] \in Over
  <2>1. CASE i \in DOMAIN mailbox
    <3>1. mailbox'[i] = mailbox[i]
      BY <1>2, <2>1
    <3>2. ASSUME Is(mailbox'[i], "ACCEPT", x)
          PROVE  /\ sock'[x] = "accepted" /\ told'[x] = <<>> /\ x \notin connection'
                 /\ \A j \in DOMAIN mailbox' : Is(mailbox'[j], "ACCEPT", x) => j = i
      <4>1. /\ sock[x] = "accepted" /\ told[x] = <<>> /\ x \notin connection
            /\ \A j \in DOMAIN mailbox : Is(mailbox[j], "ACCEPT", x) => j = i
        BY <2>1, <3>1, <3>2 DEF Lifecycle
      <4>2. sock[x] # "none"
        BY <4>1
      <4>3. ~Is(e, "ACCEPT", x)
        BY <4>2
      <4>4. \A j \in DOMAIN mailbox' : Is(mailbox'[j], "ACCEPT", x) => j \in DOMAIN mailbox
        BY <1>2, <4>3
      <4> QED BY <1>2, <4>1, <4>4
    <3>3. Is(mailbox'[i], "DATA", x) => sock'[x] \notin Unread
      BY <2>1, <3>1 DEF Lifecycle, GoesOn
    <3>4. Ends(mailbox'[i], x) => sock'[x] \in Over
      BY <2>1, <3>1 DEF Lifecycle, GoesOn
    <3> QED BY <3>2, <3>3, <3>4
  <2>2. CASE i \notin DOMAIN mailbox
    <3>1. i = Len(mailbox) + 1 /\ mailbox'[i] = e
      BY <1>2, <2>2
    <3>2. ASSUME Is(e, "ACCEPT", x)
          PROVE  /\ sock'[x] = "accepted" /\ told'[x] = <<>> /\ x \notin connection'
                 /\ \A j \in DOMAIN mailbox' : Is(mailbox'[j], "ACCEPT", x) => j = i
      <4>1. sock[x] = "none" /\ sock'[x] = "accepted"
        BY <3>2
      <4>2. told[x] = <<>> /\ x \notin connection
        BY <4>1 DEF Lifecycle
      <4>3. \A j \in DOMAIN mailbox : ~Is(mailbox[j], "ACCEPT", x)
        BY <4>1 DEF Lifecycle
      <4> QED BY <1>2, <3>1, <4>1, <4>2, <4>3
    <3>3. Is(e, "DATA", x) => sock'[x] \notin Unread
      BY DEF GoesOn
    <3> QED BY <3>1, <3>2, <3>3
  <2> QED BY <2>1, <2>2
<1>4. ASSUME NEW x \in Fd
      PROVE  /\ sock'[x] = "none" => told'[x] = <<>>
             /\ x \in connection' => sock'[x] # "none" /\ Admitted(x)'
  BY DEF Lifecycle, GoesOn, Admitted
<1> QED BY <1>3, <1>4 DEF Lifecycle

\* Taking an event, or none, keeps the order of those that wait.
LEMMA EndsLastShifts ==
    ASSUME EndsLast, NEW d \in {0, 1}, Shifts(d),
           \A x \in Fd : sock'[x] = "gone" =>
               /\ sock[x] = "gone"
               /\ uncomplete'[x] # Nothing =>
                      \E i \in DOMAIN mailbox : i > d /\ Ends(mailbox[i], x)
    PROVE  EndsLast'
<1>1. /\ \A i \in DOMAIN mailbox' :
            i \in Nat \ {0} /\ i + d \in DOMAIN mailbox /\ mailbox'[i] = mailbox[i + d]
      /\ \A i \in DOMAIN mailbox :
            i \in Nat /\ (i > d => i - d \in DOMAIN mailbox' /\ mailbox'[i - d] = mailbox[i])
  BY DEF Shifts
<1>2. ASSUME NEW x \in Fd, NEW i \in DOMAIN mailbox', NEW j \in DOMAIN mailbox',
             Ends(mailbox'[i], x), Is(mailbox'[j], "DATA", x)
      PROVE  j < i
  <2>1. i \in Nat /\ j \in Nat /\ j + d < i + d
    BY <1>1, <1>2 DEF EndsLast
  <2> QED BY <2>1
<1>3. ASSUME NEW x \in Fd, sock'[x] = "gone", NEW j \in DOMAIN mailbox', Is(mailbox'[j], "DATA", x)
      PROVE  \E i \in DOMAIN mailbox' : j < i /\ Ends(mailbox'[i], x)
  <2>1. sock[x] = "gone" /\ j + d \in DOMAIN mailbox /\ Is(mailbox[j + d], "DATA", x)
    BY <1>1, <1>3
  <2>2. PICK i \in DOMAIN mailbox : j + d < i /\ Ends(mailbox[i], x)
    BY <2>1 DEF EndsLast
  <2>3. j \in Nat /\ i \in Nat
    BY <1>1
  <2>4. i > d /\ j < i - d
    BY <2>2, <2>3
  <2> QED BY <1>1, <2>2, <2>4
<1>4. ASSUME NEW x \in Fd, sock'[x] = "gone", uncomplete'[x] # Nothing
      PROVE  \E i \in DOMAIN mailbox' : Ends(mailbox'[i], x)
  BY <1>1, <1>4
<1> QED BY <1>2, <1>3, <1>4 DEF EndsLast

\* So does posting one: only a socket that is started delivers.
LEMMA EndsLastPosts ==
    ASSUME GateTypes, Lifecycle, EndsLast, NEW e \in EventOf, Post(e), uncomplete' = uncomplete,
           \A x \in Fd : /\ Is(e, "DATA", x) => sock[x] = "started" /\ sock' = sock
                         /\ sock'[x] = "gone" => sock[x] = "gone" \/ Ends(e, x)
    PROVE  EndsLast'
<1>1. /\ mailbox' = Append(mailbox, e) /\ mailbox \in Seq(EventOf)
  BY DEF Post, GateTypes
<1>2. /\ mailbox'[Len(mailbox) + 1] = e /\ Len(mailbox) \in Nat
      /\ \A i \in DOMAIN mailbox : mailbox'[i] = mailbox[i]
      /\ \A i \in DOMAIN mailbox' : i \in DOMAIN mailbox \/ i = Len(mailbox) + 1
      /\ DOMAIN mailbox = 1 .. Len(mailbox) /\ DOMAIN mailbox' = 1 .. Len(mailbox) + 1
  BY <1>1, EventPosted
<1>3. \A i \in DOMAIN mailbox : i < Len(mailbox) + 1 /\ i \in DOMAIN mailbox'
  BY <1>2
<1>4. Len(mailbox) + 1 \in DOMAIN mailbox'
  BY <1>2
<1>5. ASSUME NEW x \in Fd, Is(e, "DATA", x)
      PROVE  /\ ~Ends(e, x) /\ \A i \in DOMAIN mailbox : ~Ends(mailbox[i], x)
             /\ sock'[x] # "gone"
  <2>1. sock[x] = "started" /\ sock' = sock
    BY <1>5
  <2> QED BY <1>5, <2>1 DEF Lifecycle, Over, Ends, Is
<1>6. ASSUME NEW x \in Fd, NEW i \in DOMAIN mailbox', NEW j \in DOMAIN mailbox',
             Ends(mailbox'[i], x), Is(mailbox'[j], "DATA", x)
      PROVE  j < i
  <2>1. j # Len(mailbox) + 1
    BY <1>2, <1>5, <1>6
  <2>2. j \in DOMAIN mailbox /\ Is(mailbox[j], "DATA", x)
    BY <1>2, <1>6, <2>1
  <2>3. CASE i \in DOMAIN mailbox
    BY <1>2, <1>6, <2>2, <2>3 DEF EndsLast
  <2> QED BY <1>2, <1>3, <2>2, <2>3
<1>7. ASSUME NEW x \in Fd, sock'[x] = "gone"
      PROVE  /\ \A j \in DOMAIN mailbox' : Is(mailbox'[j], "DATA", x) =>
                    \E i \in DOMAIN mailbox' : j < i /\ Ends(mailbox'[i], x)
             /\ uncomplete'[x] # Nothing => \E i \in DOMAIN mailbox' : Ends(mailbox'[i], x)
  <2>1. ~Is(e, "DATA", x)
    BY <1>5, <1>7
  <2>2. \A j \in DOMAIN mailbox' :
            Is(mailbox'[j], "DATA", x) => j \in DOMAIN mailbox /\ Is(mailbox[j], "DATA", x)
    BY <1>2, <2>1
  <2>3. CASE Ends(e, x)
    BY <1>2, <1>3, <1>4, <2>2, <2>3
  <2>4. CASE sock[x] = "gone"
    <3>1. /\ \A j \in DOMAIN mailbox : Is(mailbox[j], "DATA", x) =>
                  \E i \in DOMAIN mailbox : j < i /\ Ends(mailbox[i], x)
          /\ uncomplete[x] # Nothing => \E i \in DOMAIN mailbox : Ends(mailbox[i], x)
      BY <2>4 DEF EndsLast
    <3> QED BY <1>2, <1>3, <2>2, <3>1
  <2> QED BY <1>7, <2>3, <2>4
<1> QED BY <1>6, <1>7 DEF EndsLast

\* What is given to the frame buffer is the first delivery that waits.
LEMMA StreamShifts ==
    ASSUME GateTypes, StreamKept, unsent' = unsent,
           \/ mailbox' = mailbox /\ received' = received
           \/ /\ mailbox # <<>> /\ mailbox' = Tail(mailbox)
              /\ \A x \in Fd : IF Is(mailbox[1], "DATA", x)
                               THEN received'[x] = received[x] + Len(mailbox[1].data)
                               ELSE received'[x] = received[x]
    PROVE  StreamKept'
<1>1. CASE mailbox' = mailbox /\ received' = received
  BY <1>1 DEF StreamKept, InStream
<1>2. CASE /\ mailbox # <<>> /\ mailbox' = Tail(mailbox)
           /\ \A x \in Fd : IF Is(mailbox[1], "DATA", x)
                            THEN received'[x] = received[x] + Len(mailbox[1].data)
                            ELSE received'[x] = received[x]
  <2>1. /\ Len(mailbox) \in Nat /\ Len(mailbox') = Len(mailbox) - 1
        /\ DOMAIN mailbox = 1 .. Len(mailbox) /\ 1 \in DOMAIN mailbox
        /\ \A i \in DOMAIN mailbox' :
              i + 1 \in DOMAIN mailbox /\ i \in Nat /\ mailbox'[i] = mailbox[i + 1]
        /\ mailbox' \in Seq(EventOf)
    BY <1>2, EventTaken DEF GateTypes
  <2>2. DOMAIN mailbox' = 1 .. Len(mailbox')
    BY <2>1, LenProperties
  <2> SUFFICES ASSUME NEW fd \in Fd
               PROVE  \E p \in [1 .. Len(mailbox') + 1 -> Nat] : InStream(fd, p)'
    BY DEF StreamKept
  <2>3. PICK p \in [1 .. Len(mailbox) + 1 -> Nat] : InStream(fd, p)
    BY DEF StreamKept
  <2> DEFINE B == Bytes(Frames[fd])
  <2>4. /\ p \in [1 .. Len(mailbox) + 1 -> 0 .. Len(B)] /\ p[1] = received[fd]
        /\ unsent[fd] = From(B, p[Len(mailbox) + 1] + 1)
        /\ \A i \in 1 .. Len(mailbox) :
              IF Is(mailbox[i], "DATA", fd)
              THEN p[i] < p[i + 1] /\ mailbox[i].data = SubSeq(B, p[i] + 1, p[i + 1])
              ELSE p[i + 1] = p[i]
    BY <2>3 DEF InStream
  <2>5. Len(B) \in Nat /\ B \in Seq(Byte)
    <3>1. Laid(Frames[fd])
      BY GateAssumption, StreamLaid
    <3> QED BY <3>1, LenProperties DEF Laid, Payload
  <2> HIDE DEF B
  <2>6. /\ \A i \in 1 .. Len(mailbox') + 1 : i + 1 \in 1 .. Len(mailbox) + 1
        /\ \A i \in 1 .. Len(mailbox') : i + 1 \in 1 .. Len(mailbox) /\ i + 1 \in 1 .. Len(mailbox') + 1
                                         /\ i \in 1 .. Len(mailbox') + 1
        /\ 1 \in 1 .. Len(mailbox') + 1 /\ Len(mailbox') + 1 \in 1 .. Len(mailbox') + 1
        /\ Len(mailbox') + 1 + 1 = Len(mailbox) + 1 /\ 1 \in 1 .. Len(mailbox)
        /\ 2 \in 1 .. Len(mailbox) + 1 /\ 1 \in 1 .. Len(mailbox) + 1
    BY <2>1
  <2>7. PICK q \in [1 .. Len(mailbox') + 1 -> 0 .. Len(B)] :
            \A i \in 1 .. Len(mailbox') + 1 : q[i] = p[i + 1]
    <3> DEFINE r == [i \in 1 .. Len(mailbox') + 1 |-> p[i + 1]]
    <3>1. r \in [1 .. Len(mailbox') + 1 -> 0 .. Len(B)]
      BY <2>4, <2>6
    <3>2. \A i \in 1 .. Len(mailbox') + 1 : r[i] = p[i + 1]
      OBVIOUS
    <3> QED BY <3>1, <3>2
  <2>8. /\ q[1] = p[2] /\ q[Len(mailbox') + 1] = p[Len(mailbox) + 1]
        /\ \A i \in 1 .. Len(mailbox') : q[i] = p[i + 1] /\ q[i + 1] = p[i + 1 + 1]
    BY <2>6, <2>7
  <2>9. q[1] = received'[fd]
    <3>1. CASE Is(mailbox[1], "DATA", fd)
      <4> DEFINE lo == p[1]
                 hi == p[2]
      <4>1. 1 + 1 = 2 /\ lo < hi /\ mailbox[1].data = SubSeq(B, lo + 1, hi)
        <5>1. p[1] < p[1 + 1] /\ mailbox[1].data = SubSeq(B, p[1] + 1, p[1 + 1])
          BY <2>4, <2>6, <3>1
        <5>2. 1 + 1 = 2
          OBVIOUS
        <5> QED BY <5>1, <5>2
      <4>2. lo \in 0 .. Len(B) /\ hi \in 0 .. Len(B)
        BY <2>4, <2>6
      <4>3. received'[fd] = lo + Len(mailbox[1].data)
        BY <1>2, <2>4, <3>1
      <4> HIDE DEF lo, hi
      <4>4. lo \in 0 .. hi
        BY <2>5, <4>1, <4>2
      <4>5. Len(mailbox[1].data) = hi - lo
        BY <2>5, <4>1, <4>2, <4>4, PieceIs DEF Piece
      <4>6. lo + (hi - lo) = hi
        BY <2>5, <4>2
      <4> QED BY <2>8, <4>3, <4>5, <4>6 DEF hi
    <3>2. CASE ~Is(mailbox[1], "DATA", fd)
      <4>1. 1 + 1 = 2 /\ p[1 + 1] = p[1]
        BY <2>4, <2>6, <3>2
      <4> QED BY <1>2, <2>4, <2>8, <3>2, <4>1
    <3> QED BY <3>1, <3>2
  <2>10. ASSUME NEW i \in 1 .. Len(mailbox')
         PROVE  IF Is(mailbox'[i], "DATA", fd)
                THEN q[i] < q[i + 1] /\ mailbox'[i].data = SubSeq(B, q[i] + 1, q[i + 1])
                ELSE q[i + 1] = q[i]
    <3>1. mailbox'[i] = mailbox[i + 1] /\ i + 1 \in 1 .. Len(mailbox)
      BY <2>1, <2>2
    <3> QED BY <2>4, <2>8, <3>1
  <2>11. unsent'[fd] = From(B, q[Len(mailbox') + 1] + 1)
    BY <2>4, <2>8
  <2>12. InStream(fd, q)'
    BY <2>7, <2>9, <2>10, <2>11 DEF InStream, B
  <2>13. q \in [1 .. Len(mailbox') + 1 -> Nat]
    BY <2>5, <2>7
  <2> QED BY <2>12, <2>13
<1> QED BY <1>1, <1>2

\* The next bytes of a client's stream are posted.
LEMMA SegmentTaken ==
    ASSUME NEW s \in Seq(Byte), NEW at \in 0 .. Len(s), NEW n \in Nat, n <= Len(From(s, at + 1))
    PROVE  /\ at + n \in 0 .. Len(s)
           /\ SubSeq(From(s, at + 1), 1, n) = SubSeq(s, at + 1, at + n)
           /\ From(From(s, at + 1), n + 1) = From(s, at + n + 1)
<1> DEFINE b == Piece(s, at, Len(s))
<1>1. Len(s) \in Nat /\ at \in Nat /\ Len(s) \in 0 .. Len(s) /\ at \in 0 .. Len(s)
  BY LenProperties
<1>2. From(s, at + 1) = b
  BY <1>1, FromIsPiece
<1>3. b \in Seq(Byte) /\ Len(b) = Len(s) - at
  BY <1>1, PieceIs
<1> DEFINE l == Len(s)
<1> HIDE DEF b, l
<1>4. l \in Nat /\ Len(b) = l - at /\ l \in 0 .. l /\ at \in 0 .. l
  BY <1>1, <1>3 DEF l
<1>5. n <= l - at
  BY <1>2, <1>4
<1>6. /\ at + n \in 0 .. l /\ n \in 0 .. l - at /\ 0 \in 0 .. n /\ l - at \in 0 .. l - at
      /\ at + 0 = at /\ at + (l - at) = l /\ 0 + 1 = 1
  BY ONLY <1>1, <1>4, <1>5
<1>7. Piece(Piece(s, at, l), 0, n) = Piece(s, at + 0, at + n)
  BY <1>4, <1>6, PieceOfPiece DEF l
<1>8. Piece(Piece(s, at, l), n, l - at) = Piece(s, at + n, at + (l - at))
  BY <1>4, <1>6, PieceOfPiece DEF l
<1>9. Piece(s, at, l) = b
  BY DEF b, l
<1>10. Piece(b, 0, n) = Piece(s, at, at + n) /\ Piece(b, n, Len(b)) = Piece(s, at + n, l)
  BY <1>4, <1>6, <1>7, <1>8, <1>9
<1>11. SubSeq(b, 1, n) = SubSeq(s, at + 1, at + n)
  BY <1>6, <1>10 DEF Piece
<1>12. From(b, n + 1) = From(s, at + n + 1)
  <2>1. at + n \in Nat
    BY <1>1
  <2>2. From(b, n + 1) = Piece(b, n, Len(b)) /\ From(s, (at + n) + 1) = Piece(s, at + n, Len(s))
    BY <2>1, FromIsPiece
  <2> QED BY <1>10, <2>2 DEF l
<1> QED BY <1>2, <1>6, <1>11, <1>12 DEF l

\* An event of the socket layer is the next bytes of its client, or none.
Sends(e, x) ==
    IF Is(e, "DATA", x)
    THEN \E n \in Nat \ {0} :
            /\ n <= Len(unsent[x])
            /\ e.data = SubSeq(unsent[x], 1, n) /\ unsent'[x] = From(unsent[x], n + 1)
    ELSE unsent'[x] = unsent[x]
LEMMA StreamPosts ==
    ASSUME GateTypes, StreamKept, received' = received, NEW e \in EventOf, Post(e),
           \A x \in Fd : Sends(e, x)
    PROVE  StreamKept'
<1>1. /\ mailbox' = Append(mailbox, e) /\ mailbox \in Seq(EventOf)
  BY DEF Post, GateTypes
<1> DEFINE l == Len(mailbox)
<1>2. /\ mailbox'[l + 1] = e /\ l \in Nat /\ Len(mailbox') = l + 1
      /\ \A i \in 1 .. l : mailbox'[i] = mailbox[i]
  BY <1>1, EventPosted
<1> SUFFICES ASSUME NEW fd \in Fd
             PROVE  \E p \in [1 .. Len(mailbox') + 1 -> Nat] : InStream(fd, p)'
  BY DEF StreamKept
<1>3. PICK p \in [1 .. l + 1 -> Nat] : InStream(fd, p)
  BY DEF StreamKept
<1> DEFINE B == Bytes(Frames[fd])
           at == p[l + 1]
<1>4. /\ p \in [1 .. l + 1 -> 0 .. Len(B)] /\ p[1] = received[fd]
      /\ unsent[fd] = From(B, at + 1)
      /\ \A i \in 1 .. l :
            IF Is(mailbox[i], "DATA", fd)
            THEN p[i] < p[i + 1] /\ mailbox[i].data = SubSeq(B, p[i] + 1, p[i + 1])
            ELSE p[i + 1] = p[i]
  BY <1>3 DEF InStream
<1>5. Len(B) \in Nat /\ B \in Seq(Byte)
  <2>1. Laid(Frames[fd])
    BY GateAssumption, StreamLaid
  <2> QED BY <2>1, LenProperties DEF Laid, Payload
<1> HIDE DEF B, l
<1>6. /\ l + 1 \in 1 .. l + 1 /\ 1 \in 1 .. l + 1 /\ l + 2 \in 1 .. l + 2 /\ l + 1 \in 1 .. l + 2
      /\ 1 \in 1 .. l + 2 /\ l + 1 # l + 2 /\ l + 1 + 1 = l + 2
      /\ \A i \in 1 .. l + 1 : i \in 1 .. l + 2 /\ i # l + 2 /\ (i \in 1 .. l \/ i = l + 1)
      /\ \A i \in 1 .. l : i \in 1 .. l + 1 /\ i + 1 \in 1 .. l + 1
      /\ \A i \in 1 .. l + 2 : i \in 1 .. l + 1 \/ i = l + 2
  BY <1>2
<1>7. at \in 0 .. Len(B)
  BY <1>4, <1>6
<1>8. PICK to \in at .. Len(B) :
        /\ unsent'[fd] = From(B, to + 1)
        /\ IF Is(e, "DATA", fd) THEN at < to /\ e.data = SubSeq(B, at + 1, to) ELSE to = at
  <2> HIDE DEF at
  <2>1. CASE Is(e, "DATA", fd)
    <3>1. PICK n \in Nat \ {0} :
              /\ n <= Len(unsent[fd])
              /\ e.data = SubSeq(unsent[fd], 1, n) /\ unsent'[fd] = From(unsent[fd], n + 1)
      BY <2>1 DEF Sends
    <3>2. /\ at + n \in 0 .. Len(B)
          /\ SubSeq(From(B, at + 1), 1, n) = SubSeq(B, at + 1, at + n)
          /\ From(From(B, at + 1), n + 1) = From(B, at + n + 1)
      BY <1>4, <1>5, <1>7, <3>1, SegmentTaken DEF at
    <3>3. at + n \in at .. Len(B) /\ at < at + n
      BY <1>5, <1>7, <3>2
    <3>4. unsent'[fd] = From(B, (at + n) + 1) /\ e.data = SubSeq(B, at + 1, at + n)
      BY <1>4, <3>1, <3>2 DEF at
    <3> QED BY <2>1, <3>3, <3>4
  <2>2. CASE ~Is(e, "DATA", fd)
    <3>1. unsent'[fd] = From(B, at + 1)
      BY <1>4, <2>2 DEF Sends, at
    <3>2. at \in at .. Len(B)
      BY <1>5, <1>7
    <3> QED BY <2>2, <3>1, <3>2
  <2> QED BY <2>1, <2>2
<1>9. PICK q \in [1 .. l + 2 -> 0 .. Len(B)] :
        q[l + 2] = to /\ \A i \in 1 .. l + 1 : q[i] = p[i]
  <2> DEFINE r == [i \in 1 .. l + 2 |-> IF i = l + 2 THEN to ELSE p[i]]
  <2>1. to \in 0 .. Len(B)
    <3> HIDE DEF at
    <3> QED BY <1>5, <1>7, <1>8
  <2>2. \A i \in 1 .. l + 2 : r[i] \in 0 .. Len(B)
    BY <1>4, <1>6, <2>1
  <2>3. r \in [1 .. l + 2 -> 0 .. Len(B)]
    BY <2>2
  <2>4. r[l + 2] = to /\ \A i \in 1 .. l + 1 : r[i] = p[i]
    BY <1>6
  <2> QED BY <2>3, <2>4
<1>10. ASSUME NEW i \in 1 .. l + 1
       PROVE  IF Is(mailbox'[i], "DATA", fd)
              THEN q[i] < q[i + 1] /\ mailbox'[i].data = SubSeq(B, q[i] + 1, q[i + 1])
              ELSE q[i + 1] = q[i]
  <2>1. CASE i \in 1 .. l
    <3>1. q[i] = p[i] /\ q[i + 1] = p[i + 1] /\ mailbox'[i] = mailbox[i]
      BY <1>2, <1>6, <1>9, <2>1
    <3> QED BY <1>4, <2>1, <3>1
  <2>2. CASE i = l + 1
    <3>1. q[i] = at /\ q[i + 1] = to /\ mailbox'[i] = e
      BY <1>2, <1>6, <1>9, <2>2
    <3> QED BY <1>8, <3>1
  <2> QED BY <1>6, <2>1, <2>2
<1>11. q[1] = received'[fd] /\ unsent'[fd] = From(B, q[l + 1 + 1] + 1)
  BY <1>4, <1>6, <1>8, <1>9
<1>12. Len(mailbox') + 1 = l + 2
  BY <1>2, <1>6
<1>13. InStream(fd, q)'
  BY <1>2, <1>6, <1>9, <1>10, <1>11, <1>12 DEF InStream, B
<1>14. q \in [1 .. Len(mailbox') + 1 -> Nat]
  BY <1>5, <1>9, <1>12
<1> QED BY <1>13, <1>14
-----------------------------------------------------------------------------
(* Every step keeps them.                                                   *)

\* The steps that take no event, and those that tell the handler nothing.
LEMMA QuietSteps ==
    ASSUME GateInv
    PROVE  /\ PopPacket \/ (\E fd \in Fd : OpenClient(fd) \/ Kick(fd)) =>
                 Shifts(0) /\ UserBends /\ UNCHANGED <<mailbox, unsent, received, uncomplete, told>>
           /\ EndMore \/ OpenGate \/ CloseGate =>
                 /\ Shifts(0)
                 /\ UNCHANGED <<mailbox, unsent, received, uncomplete, told, connection, sock>>
           /\ OnListenClose =>
                 /\ Handles("LISTENCLOSE") /\ Shifts(1)
                 /\ UNCHANGED <<unsent, received, uncomplete, told, connection, sock>>
<1>1. GateTypes
  BY DEF GateInv
<1>2. ASSUME PopPacket \/ (\E fd \in Fd : OpenClient(fd) \/ Kick(fd))
      PROVE  Shifts(0) /\ UserBends /\ UNCHANGED <<mailbox, unsent, received, uncomplete, told>>
  <2>1. UNCHANGED <<mailbox, unsent, received, uncomplete, told>>
    BY <1>2 DEF PopPacket, OpenClient, Kick, gateVars, handlerVars
  <2> QED BY <1>1, <1>2, <2>1, OwnerBends, MailStays
<1>3. ASSUME EndMore \/ OpenGate \/ CloseGate
      PROVE  /\ Shifts(0)
             /\ UNCHANGED <<mailbox, unsent, received, uncomplete, told, connection, sock>>
  <2>1. UNCHANGED <<mailbox, unsent, received, uncomplete, told, connection, sock>>
    BY <1>3 DEF EndMore, OpenGate, CloseGate, handlerVars
  <2> QED BY <1>1, <2>1, MailStays
<1>4. ASSUME OnListenClose
      PROVE  /\ Handles("LISTENCLOSE") /\ Shifts(1)
             /\ UNCHANGED <<unsent, received, uncomplete, told, connection, sock>>
  <2>1. Handles("LISTENCLOSE") /\ UNCHANGED <<unsent, received, uncomplete, told, connection, sock>>
    BY <1>4 DEF OnListenClose, handlerVars
  <2> QED BY <1>1, <2>1, MailTaken
<1> QED BY <1>2, <1>3, <1>4

\* A client is admitted once, when its ACCEPT comes, until its end.
LEMMA LifecycleKept ==
    ASSUME GateInv, Next
    PROVE  Lifecycle'
<1>1. GateTypes /\ Lifecycle /\ \A x \in Fd : GoesOn(x)
  BY SocketsGoOn DEF GateInv
<1>2. \A x \in Fd : told'[x] = told[x] /\ Admitted(x) => Admitted(x)'
  BY DEF Admitted
<1>3. ASSUME NEW d \in {0, 1}, Shifts(d), told' = told, connection' \subseteq connection,
             \A x \in Fd : sock'[x] = sock[x] \/ x \in connection
      PROVE  Lifecycle'
  <2>1. ASSUME NEW i \in DOMAIN mailbox', NEW x \in Fd, Is(mailbox'[i], "ACCEPT", x)
        PROVE  sock'[x] = sock[x] /\ (x \notin connection => x \notin connection')
    <3>1. i + d \in DOMAIN mailbox /\ Is(mailbox[i + d], "ACCEPT", x)
      BY <1>3, <2>1 DEF Shifts
    <3>2. x \notin connection
      BY <1>1, <3>1 DEF Lifecycle
    <3> QED BY <1>3, <3>2
  <2>2. \A x \in Fd : x \in connection' => sock'[x] # "none" /\ Admitted(x)'
    BY <1>1, <1>2, <1>3 DEF Lifecycle, GoesOn
  <2> QED BY <1>1, <1>3, <2>1, <2>2, LifecycleShifts
<1>4. CASE OnData
  <2>1. Shifts(1) /\ told' = told
    BY <1>1, <1>4, MailTaken DEF OnData
  <2>2. UserBends
    BY <1>4, DataBends
  <2> QED BY <1>3, <2>1, <2>2 DEF UserBends, Bends
<1>5. CASE PopPacket \/ (\E fd \in Fd : OpenClient(fd) \/ Kick(fd))
  BY <1>3, <1>5, QuietSteps DEF UserBends, Bends
<1>6. CASE EndMore \/ OpenGate \/ CloseGate \/ OnListenClose
  BY <1>3, <1>6, QuietSteps
<1>7. CASE OnOpen
  <2>1. Handles("ACCEPT") /\ Shifts(1)
    BY <1>1, <1>7, MailTaken DEF OnOpen
  <2>fd. PICK fd \in Fd : fd = Event.fd
    BY <2>1, FirstEvent
  <2>2. /\ fd \in Fd /\ sock[fd] = "accepted" /\ told[fd] = <<>> /\ fd \notin connection
        /\ \A i \in DOMAIN mailbox', x \in Fd : Is(mailbox'[i], "ACCEPT", x) => x # fd
    BY <2>1, <2>fd, FirstEvent
  <2>3. CASE clientNumber >= MaxClient
    <3>1. sock' = Closing(fd) /\ UNCHANGED <<connection, told>>
      BY <1>7, <2>3, <2>fd DEF OnOpen
    <3>2. \A x \in Fd : x # fd => sock'[x] = sock[x]
      BY <1>1, <2>2, <3>1, ClosingIs DEF GateTypes, SockStates
    <3>3. \A x \in Fd : x \in connection' => sock'[x] # "none" /\ Admitted(x)'
      BY <1>1, <1>2, <3>1 DEF Lifecycle, GoesOn
    <3> QED BY <1>1, <2>1, <2>2, <3>1, <3>2, <3>3, LifecycleShifts
  <2>4. CASE ~(clientNumber >= MaxClient)
    <3>1. sock' = sock /\ connection' = connection \cup {fd} /\ Tells(fd, "connect")
      BY <1>7, <2>4, <2>fd DEF OnOpen
    <3>2. told'[fd] = Append(told[fd], "connect") /\ \A x \in Fd : x # fd => told'[x] = told[x]
      <4>1. "connect" \in Callback
        BY DEF Callback
      <4> QED BY <1>1, <2>2, <3>1, <4>1, Told DEF GateTypes
    <3>3. told'[fd] = <<"connect">>
      BY <2>2, <3>2
    <3>4. Admitted(fd)'
      BY <3>3 DEF Admitted, Range
    <3>5. \A x \in Fd : x \in connection' => sock'[x] # "none" /\ Admitted(x)'
      BY <1>1, <1>2, <2>2, <3>1, <3>2, <3>4 DEF Lifecycle
    <3>6. \A x \in Fd : sock[x] = "none" => told'[x] = told[x]
      BY <2>2, <3>2
    <3> QED BY <1>1, <2>1, <2>2, <3>1, <3>2, <3>5, <3>6, LifecycleShifts
  <2> QED BY <2>3, <2>4
<1>8. ASSUME NEW type \in {"CLOSE", "ERROR"}, NEW what \in Callback, Handles(type),
             Tells(Event.fd, what), \A x \in Fd : x # Event.fd => sock'[x] = sock[x],
             connection' \subseteq connection,
             Event.fd \in connection' => what = "error"
      PROVE  Lifecycle'
  <2>fd. PICK fd \in Fd : fd = Event.fd
    BY <1>8, FirstEvent
  <2>1. Shifts(1)
    BY <1>1, <1>8, MailTaken
  <2>2. /\ fd \in Fd /\ sock[fd] \in Over /\ 1 \in DOMAIN mailbox
    BY <1>8, <2>fd, FirstEvent
  <2>3. told'[fd] = Append(told[fd], what) /\ \A x \in Fd : x # fd => told'[x] = told[x]
    BY <1>1, <1>8, <2>2, <2>fd, Told DEF GateTypes
  <2>4. sock[fd] # "none" /\ sock[fd] # "accepted"
    BY <2>2 DEF Over
  <2>5. ASSUME NEW i \in DOMAIN mailbox', NEW x \in Fd, Is(mailbox'[i], "ACCEPT", x)
        PROVE  /\ sock'[x] = sock[x] /\ told'[x] = told[x]
               /\ x \notin connection => x \notin connection'
    <3>1. i + 1 \in DOMAIN mailbox /\ Is(mailbox[i + 1], "ACCEPT", x)
      BY <2>1, <2>5 DEF Shifts
    <3>2. x # fd
      BY <1>1, <2>4, <3>1 DEF Lifecycle
    <3> QED BY <1>8, <2>3, <2>fd, <3>2
  <2>6. fd \in connection' => Admitted(fd)'
    <3>1. SUFFICES ASSUME fd \in connection' PROVE Admitted(fd)'
      OBVIOUS
    <3>2. Admitted(fd) /\ what = "error"
      BY <1>1, <1>8, <2>2, <2>fd, <3>1 DEF Lifecycle
    <3> DEFINE s == told[fd]
               t == Append(s, "error")
    <3>3. s \in Seq(Callback) /\ "error" \in Callback
      BY <1>1, <2>2 DEF GateTypes, Callback
    <3> HIDE DEF s
    <3>4. /\ Len(s) \in Nat /\ Len(t) = Len(s) + 1 /\ t[Len(s) + 1] = "error"
          /\ DOMAIN s = 1 .. Len(s) /\ DOMAIN t = 1 .. Len(s) + 1
          /\ \A i \in 1 .. Len(s) : t[i] = s[i]
      BY <3>3, AppendProperties, LenProperties
    <3> HIDE DEF t
    <3>5. \A i \in DOMAIN t : i \in DOMAIN s \/ i = Len(s) + 1
      BY <3>4
    <3>6. s # <<>> /\ s[1] = "connect" /\ \A i \in DOMAIN s : s[i] # "disconnect"
      BY <3>2 DEF Admitted, Range, s
    <3>7. 1 \in 1 .. Len(s) /\ t # <<>>
      BY <3>3, <3>4, <3>6, EmptySeq
    <3>8. t[1] = "connect" /\ \A i \in DOMAIN t : t[i] # "disconnect"
      BY <3>4, <3>5, <3>6, <3>7
    <3>9. told'[fd] = t
      BY <2>3, <3>2 DEF t, s
    <3> QED BY <3>7, <3>8, <3>9 DEF Admitted, Range
  <2>7. \A x \in Fd : x \in connection' => sock'[x] # "none" /\ Admitted(x)'
    BY <1>1, <1>2, <1>8, <2>3, <2>6 DEF Lifecycle, GoesOn
  <2>8. \A x \in Fd : sock[x] = "none" => told'[x] = told[x]
    BY <2>3, <2>4
  <2> QED BY <1>1, <2>1, <2>5, <2>7, <2>8, LifecycleShifts
<1>9. CASE OnClose
  <2>1. /\ Handles("CLOSE") /\ Tells(Event.fd, "disconnect") /\ sock' = sock
        /\ connection' = connection \ {Event.fd}
    BY <1>9 DEF OnClose
  <2>2. "disconnect" \in Callback
    BY DEF Callback
  <2> QED BY <1>8, <2>1, <2>2
<1>10. CASE OnError
  <2>1. /\ Handles("ERROR") /\ Tells(Event.fd, "error") /\ sock' = Closing(Event.fd)
        /\ connection' = connection
    BY <1>10 DEF OnError
  <2>2. "error" \in Callback
    BY DEF Callback
  <2>3. Event.fd \in Fd
    BY <2>1, FirstEvent
  <2>4. \A x \in Fd : x # Event.fd => sock'[x] = sock[x]
    BY <1>1, <2>1, <2>3, ClosingIs DEF GateTypes, SockStates
  <2> QED BY <1>8, <2>1, <2>2, <2>4
<1>11. CASE ListenClosed
  <2>1. /\ Post([type |-> "LISTENCLOSE"]) /\ UNCHANGED <<told, connection, sock>>
    BY <1>11 DEF ListenClosed, Quiescent, gateVars, handlerVars
  <2>2. [type |-> "LISTENCLOSE"] \in EventOf
    BY DEF EventOf
  <2> QED BY <1>1, <2>1, <2>2, LifecyclePosts DEF Is, Ends
<1>12. ASSUME NEW fd \in Fd, Accept(fd) PROVE Lifecycle'
  <2> DEFINE e == [type |-> "ACCEPT", fd |-> fd]
  <2>1. /\ Post(e) /\ UNCHANGED <<told, connection>> /\ sock[fd] = "none"
        /\ sock' = [sock EXCEPT ![fd] = "accepted"]
    BY <1>12 DEF Accept, Quiescent, gateVars, handlerVars
  <2>2. e \in EventOf
    BY DEF EventOf
  <2>3. fd \notin connection /\ sock'[fd] = "accepted" /\ \A x \in Fd : x # fd => sock'[x] = sock[x]
    BY <1>1, <2>1 DEF Lifecycle, GateTypes
  <2>4. \A x \in Fd : /\ Is(e, "ACCEPT", x) => x = fd
                      /\ ~Is(e, "DATA", x) /\ ~Ends(e, x)
    BY DEF Is, Ends
  <2>5. \A x \in Fd : sock[x] = "accepted" \/ x \in connection => sock'[x] = sock[x]
    BY <2>1, <2>3
  <2>6. \A x \in Fd : Is(e, "ACCEPT", x) => sock[x] = "none" /\ sock'[x] = "accepted"
    BY <2>1, <2>3, <2>4
  <2> HIDE DEF e
  <2> QED BY <1>1, <2>1, <2>2, <2>4, <2>5, <2>6, LifecyclePosts
<1>13. ASSUME NEW fd \in Fd, Deliver(fd) PROVE Lifecycle'
  <2>1. PICK e \in EventOf : Post(e) /\ e.type = "DATA" /\ e.fd = fd
    <3>1. PICK n \in 1 .. MaxSegment :
              Post([type |-> "DATA", fd |-> fd, data |-> SubSeq(unsent[fd], 1, n)])
      BY <1>13 DEF Deliver
    <3>2. mailbox' \in Seq(EventOf)
      BY TypesKept DEF GateTypes
    <3> DEFINE f == [type |-> "DATA", fd |-> fd, data |-> SubSeq(unsent[fd], 1, n)]
    <3>3. f \in EventOf
      <4> HIDE DEF f
      <4>1. mailbox' = Append(mailbox, f) /\ Len(mailbox) \in Nat
        BY <1>1, <3>1, LenProperties DEF Post, GateTypes, f
      <4>2. mailbox'[Len(mailbox) + 1] = f /\ Len(mailbox') = Len(mailbox) + 1
        BY <4>1
      <4>3. Len(mailbox) + 1 \in 1 .. Len(mailbox')
        BY <4>1, <4>2
      <4> QED BY <3>2, <4>2, <4>3, LenProperties
    <3> QED BY <3>1, <3>3
  <2>2. sock[fd] = "started" /\ UNCHANGED <<told, connection, sock>>
    BY <1>13 DEF Deliver, Quiescent, gateVars, handlerVars
  <2> QED BY <1>1, <2>1, <2>2, LifecyclePosts DEF Is, Ends, Unread
<1>14. ASSUME NEW fd \in Fd, NEW type \in {"CLOSE", "ERROR"}, Post([type |-> type, fd |-> fd]),
              NEW s \in Over, sock[fd] \in {"started", "closing"}, sock' = [sock EXCEPT ![fd] = s],
              UNCHANGED <<told, connection>>
       PROVE  Lifecycle'
  <2> DEFINE e == [type |-> type, fd |-> fd]
  <2>1. e \in EventOf
    BY DEF EventOf
  <2>2. sock'[fd] = s /\ \A x \in Fd : x # fd => sock'[x] = sock[x]
    BY <1>1, <1>14 DEF GateTypes
  <2>3. \A x \in Fd : /\ Ends(e, x) => x = fd
                      /\ ~Is(e, "DATA", x) /\ ~Is(e, "ACCEPT", x)
    BY DEF Is, Ends
  <2> HIDE DEF e
  <2> QED BY <1>1, <1>14, <2>1, <2>2, <2>3, LifecyclePosts DEF e
<1>15. ASSUME NEW fd \in Fd, SocketClosed(fd) \/ SocketError(fd) PROVE Lifecycle'
  <2>1. UNCHANGED <<told, connection>> /\ sock[fd] \in {"started", "closing"}
    BY <1>15 DEF SocketClosed, SocketError, Quiescent, gateVars, handlerVars
  <2>2. CASE SocketClosed(fd)
    BY <1>14, <2>1, <2>2 DEF SocketClosed, Over
  <2>3. CASE SocketError(fd)
    BY <1>14, <2>1, <2>3 DEF SocketError, Over
  <2> QED BY <1>15, <2>2, <2>3
<1> QED
  BY <1>4, <1>5, <1>6, <1>7, <1>9, <1>10, <1>11, <1>12, <1>13, <1>15
     DEF Next, Gateserver, Owner, Sockets

\* The socket layer posts what it sends, and an end when a socket is gone.
LEMMA PostSteps ==
    ASSUME GateTypes, Sockets
    PROVE  \E e \in EventOf :
              /\ Post(e) /\ received' = received /\ uncomplete' = uncomplete
              /\ \A x \in Fd : /\ Sends(e, x)
                               /\ Is(e, "DATA", x) => sock[x] = "started" /\ sock' = sock
                               /\ sock'[x] = "gone" => sock[x] = "gone" \/ Ends(e, x)
<1>1. /\ sock \in [Fd -> SockStates] /\ unsent \in [Fd -> Payload]
  BY DEF GateTypes, SockStates
<1>2. received' = received /\ uncomplete' = uncomplete
  BY DEF Sockets, ListenClosed, Accept, Deliver, SocketClosed, SocketError, Quiescent, gateVars
<1>3. CASE ListenClosed
  <2> DEFINE e == [type |-> "LISTENCLOSE"]
  <2>1. e \in EventOf /\ \A x \in Fd : ~Is(e, "DATA", x)
    BY DEF EventOf, Is
  <2>2. Post(e) /\ UNCHANGED <<sock, unsent>>
    BY <1>3 DEF ListenClosed
  <2> HIDE DEF e
  <2> QED BY <1>2, <2>1, <2>2 DEF Sends
<1>4. ASSUME NEW fd \in Fd, NEW type \in {"ACCEPT", "CLOSE", "ERROR"},
             Post([type |-> type, fd |-> fd]), unsent' = unsent,
             NEW s, sock' = [sock EXCEPT ![fd] = s], s = "gone" => type \in {"CLOSE", "ERROR"}
      PROVE  \E e \in EventOf :
                /\ Post(e)
                /\ \A x \in Fd : /\ Sends(e, x) /\ ~Is(e, "DATA", x)
                                 /\ sock'[x] = "gone" => sock[x] = "gone" \/ Ends(e, x)
  <2> DEFINE e == [type |-> type, fd |-> fd]
  <2>1. e \in EventOf /\ \A x \in Fd : ~Is(e, "DATA", x)
    BY DEF EventOf, Is
  <2>2. \A x \in Fd : sock'[x] = "gone" => sock[x] = "gone" \/ Ends(e, x)
    BY <1>1, <1>4 DEF Ends, Is
  <2> HIDE DEF e
  <2> QED BY <1>4, <2>1, <2>2 DEF Sends, e
<1>5. ASSUME NEW fd \in Fd, Accept(fd) \/ SocketClosed(fd) \/ SocketError(fd)
      PROVE  \E e \in EventOf :
                /\ Post(e)
                /\ \A x \in Fd : /\ Sends(e, x) /\ ~Is(e, "DATA", x)
                                 /\ sock'[x] = "gone" => sock[x] = "gone" \/ Ends(e, x)
  <2>1. CASE Accept(fd)
    BY <1>4, <2>1 DEF Accept
  <2>2. CASE SocketClosed(fd)
    BY <1>4, <2>2 DEF SocketClosed
  <2>3. CASE SocketError(fd)
    BY <1>4, <2>3 DEF SocketError
  <2> QED BY <1>5, <2>1, <2>2, <2>3
<1>6. ASSUME NEW fd \in Fd, Deliver(fd)
      PROVE  \E e \in EventOf :
                /\ Post(e) /\ sock' = sock
                /\ \A x \in Fd : Sends(e, x) /\ (Is(e, "DATA", x) => sock[x] = "started")
  <2>1. PICK n \in 1 .. MaxSegment :
            /\ n <= Len(unsent[fd])
            /\ unsent' = [unsent EXCEPT ![fd] = From(@, n + 1)]
            /\ Post([type |-> "DATA", fd |-> fd, data |-> SubSeq(unsent[fd], 1, n)])
    BY <1>6 DEF Deliver
  <2> DEFINE e == [type |-> "DATA", fd |-> fd, data |-> SubSeq(unsent[fd], 1, n)]
  <2>2. n \in Nat \ {0} /\ n \in 0 .. Len(unsent[fd]) /\ 0 \in 0 .. n /\ 0 + 1 = 1
        /\ unsent[fd] \in Seq(Byte)
    <3>1. unsent[fd] \in Seq(Byte) /\ Len(unsent[fd]) \in Nat
      BY <1>1, LenProperties DEF Payload
    <3> QED BY <2>1, <3>1, GateAssumption
  <2>3. SubSeq(unsent[fd], 1, n) \in Payload
    <3>1. Piece(unsent[fd], 0, n) \in Seq(Byte)
      BY <2>2, PieceIs
    <3> QED BY <2>2, <3>1 DEF Piece, Payload
  <2>4. e \in EventOf /\ sock[fd] = "started" /\ sock' = sock
    BY <1>6, <2>3 DEF EventOf, Deliver
  <2>5. ASSUME NEW x \in Fd PROVE Sends(e, x) /\ (Is(e, "DATA", x) => sock[x] = "started")
    <3>1. CASE x = fd
      <4>1. unsent'[x] = From(unsent[x], n + 1) /\ e.data = SubSeq(unsent[x], 1, n)
            /\ Is(e, "DATA", x)
        BY <1>1, <2>1, <3>1 DEF Is
      <4> QED BY <2>1, <2>2, <2>4, <3>1, <4>1 DEF Sends
    <3>2. CASE x # fd
      <4>1. unsent'[x] = unsent[x] /\ ~Is(e, "DATA", x)
        BY <1>1, <2>1, <3>2 DEF Is
      <4> QED BY <4>1 DEF Sends
    <3> QED BY <3>1, <3>2
  <2> QED BY <2>1, <2>4, <2>5
<1> QED BY <1>2, <1>3, <1>5, <1>6 DEF Sockets

\* Nothing of a socket is posted after its end.
LEMMA EndsLastKept ==
    ASSUME GateInv, Next
    PROVE  EndsLast'
<1>1. GateTypes /\ Lifecycle /\ EndsLast /\ sock \in [Fd -> SockStates]
  BY DEF GateInv, GateTypes, SockStates
<1>2. ASSUME uncomplete' = uncomplete, \A x \in Fd : sock'[x] = "gone" => sock[x] = "gone",
             \/ Shifts(0)
             \/ Shifts(1) /\ \A x \in Fd : ~Ends(mailbox[1], x)
      PROVE  EndsLast'
  <2>1. \A x \in Fd : sock'[x] = "gone" /\ uncomplete'[x] # Nothing =>
            \E i \in DOMAIN mailbox : Ends(mailbox[i], x)
    BY <1>1, <1>2 DEF EndsLast
  <2>2. DOMAIN mailbox = 1 .. Len(mailbox) /\ Len(mailbox) \in Nat
    BY <1>1, LenProperties DEF GateTypes
  <2>3. \A i \in DOMAIN mailbox : i > 0 /\ (i # 1 => i > 1)
    BY <2>2
  <2> QED BY <1>1, <1>2, <2>1, <2>3, EndsLastShifts
<1>3. ASSUME NEW fd \in Fd, NEW type \in {"CLOSE", "ERROR", "DATA"}, Handles(type), fd = Event.fd,
             \A x \in Fd : sock'[x] = "gone" => sock[x] = "gone",
             \A x \in Fd : x # fd => uncomplete'[x] = uncomplete[x],
             type # "DATA" => uncomplete'[fd] = Nothing
      PROVE  EndsLast'
  <2>1. Shifts(1) /\ Is(mailbox[1], type, fd) /\ 1 \in DOMAIN mailbox
    BY <1>1, <1>3, MailTaken, FirstEvent
  <2>2. DOMAIN mailbox = 1 .. Len(mailbox) /\ Len(mailbox) \in Nat
    BY <1>1, LenProperties DEF GateTypes
  <2>3. \A i \in DOMAIN mailbox : (i # 1 \/ 1 < i) => i > 1
    BY <2>2
  <2>4. ASSUME NEW x \in Fd, sock'[x] = "gone", uncomplete'[x] # Nothing
        PROVE  \E i \in DOMAIN mailbox : i > 1 /\ Ends(mailbox[i], x)
    <3>1. sock[x] = "gone"
      BY <1>3, <2>4
    <3>2. CASE x = fd
      <4>1. Is(mailbox[1], "DATA", x)
        BY <1>3, <2>1, <2>4, <3>2
      <4> QED BY <1>1, <2>1, <2>3, <3>1, <4>1 DEF EndsLast
    <3>3. CASE x # fd
      <4>1. PICK i \in DOMAIN mailbox : Ends(mailbox[i], x)
        BY <1>1, <1>3, <2>4, <3>1, <3>3 DEF EndsLast
      <4>2. ~Ends(mailbox[1], x)
        BY <2>1, <3>3 DEF Ends, Is
      <4> QED BY <2>3, <4>1, <4>2
    <3> QED BY <3>2, <3>3
  <2> QED BY <1>1, <1>3, <2>1, <2>4, EndsLastShifts
<1>4. ASSUME UserBends, NEW x \in Fd, sock'[x] = "gone" PROVE sock[x] = "gone"
  BY <1>4, BendsGoesOn DEF UserBends
<1>5. CASE OnData
  <2>1. Handles("DATA") /\ UserBends
    BY <1>5, DataBends DEF OnData
  <2>2. PICK fd \in Fd : fd = Event.fd
    BY <2>1, FirstEvent
  <2>3. uncomplete' = [uncomplete EXCEPT ![fd] = DataIs.left]
    BY <1>5, <2>2 DEF OnData, DataIs
  <2>4. \A x \in Fd : x # fd => uncomplete'[x] = uncomplete[x]
    BY <1>1, <2>3 DEF GateTypes
  <2> QED BY <1>3, <1>4, <2>1, <2>2, <2>4
<1>6. CASE PopPacket \/ (\E fd \in Fd : OpenClient(fd) \/ Kick(fd))
  BY <1>2, <1>4, <1>6, QuietSteps
<1>7. CASE EndMore \/ OpenGate \/ CloseGate
  BY <1>2, <1>7, QuietSteps
<1>8. CASE OnListenClose
  <2>1. Handles("LISTENCLOSE") /\ Shifts(1) /\ UNCHANGED <<uncomplete, sock>>
    BY <1>8, QuietSteps
  <2>2. mailbox[1].type = "LISTENCLOSE"
    BY <1>1, <2>1, EventTaken DEF Handles, GateTypes
  <2> QED BY <1>2, <2>1, <2>2 DEF Ends, Is
<1>9. CASE OnOpen
  <2>1. Handles("ACCEPT") /\ Shifts(1) /\ uncomplete' = uncomplete
    BY <1>1, <1>9, MailTaken DEF OnOpen
  <2>2. Event.fd \in Fd /\ Is(mailbox[1], "ACCEPT", Event.fd)
    BY <2>1, FirstEvent
  <2>3. sock' = sock \/ sock' = Closing(Event.fd)
    BY <1>9 DEF OnOpen
  <2>4. \A x \in Fd : sock'[x] = "gone" => sock[x] = "gone"
    BY <1>1, <2>2, <2>3, ClosingGoesOn
  <2> QED BY <1>2, <2>1, <2>2, <2>4 DEF Ends, Is
<1>10. CASE OnClose \/ OnError
  <2>1. PICK type \in {"CLOSE", "ERROR"} : Handles(type)
    BY <1>10 DEF OnClose, OnError
  <2>2. PICK fd \in Fd : fd = Event.fd
    BY <2>1, FirstEvent
  <2>3. uncomplete' = [uncomplete EXCEPT ![fd] = Nothing] /\ (sock' = sock \/ sock' = Closing(fd))
    BY <1>10, <2>2 DEF OnClose, OnError, CloseUncomplete
  <2>4. uncomplete'[fd] = Nothing /\ \A x \in Fd : x # fd => uncomplete'[x] = uncomplete[x]
    BY <1>1, <2>3 DEF GateTypes
  <2>5. \A x \in Fd : sock'[x] = "gone" => sock[x] = "gone"
    BY <1>1, <2>3, ClosingGoesOn
  <2> QED BY <1>3, <2>1, <2>2, <2>4, <2>5
<1>11. CASE Sockets
  BY <1>1, <1>11, PostSteps, EndsLastPosts
<1> QED
  BY <1>5, <1>6, <1>7, <1>8, <1>9, <1>10, <1>11 DEF Next, Gateserver, Owner

\* No byte of a stream is lost, repeated or moved on its way.
LEMMA StreamsKept ==
    ASSUME GateInv, Next
    PROVE  StreamKept'
<1>1. GateTypes /\ StreamKept
  BY DEF GateInv
<1>2. CASE OnData
  <2>1. Handles("DATA") /\ unsent' = unsent
        /\ received' = [received EXCEPT ![Event.fd] = @ + Len(Event.data)]
    BY <1>2 DEF OnData
  <2>2. PICK fd \in Fd : fd = Event.fd /\ Is(mailbox[1], "DATA", fd)
    BY <2>1, FirstEvent
  <2>3. Event = mailbox[1] /\ mailbox # <<>> /\ mailbox' = Tail(mailbox)
    BY <1>1, <2>1, EventTaken DEF Handles, GateTypes
  <2>4. \A x \in Fd : IF Is(mailbox[1], "DATA", x)
                      THEN received'[x] = received[x] + Len(mailbox[1].data)
                      ELSE received'[x] = received[x]
    BY <1>1, <2>1, <2>2, <2>3 DEF GateTypes, Is
  <2> QED BY <1>1, <2>1, <2>3, <2>4, StreamShifts
<1>3. ASSUME NEW type \in {"ACCEPT", "CLOSE", "ERROR", "LISTENCLOSE"}, Handles(type),
             UNCHANGED <<unsent, received>>
      PROVE  StreamKept'
  <2>1. Event = mailbox[1] /\ mailbox # <<>> /\ mailbox' = Tail(mailbox)
    BY <1>1, <1>3, EventTaken DEF Handles, GateTypes
  <2>2. \A x \in Fd : ~Is(mailbox[1], "DATA", x)
    BY <1>3, <2>1 DEF Handles, Is
  <2> QED BY <1>1, <1>3, <2>1, <2>2, StreamShifts
<1>4. CASE OnOpen \/ OnClose \/ OnError \/ OnListenClose
  BY <1>3, <1>4 DEF OnOpen, OnClose, OnError, OnListenClose
<1>5. CASE PopPacket \/ (\E fd \in Fd : OpenClient(fd) \/ Kick(fd))
           \/ EndMore \/ OpenGate \/ CloseGate
  <2>1. UNCHANGED <<mailbox, unsent, received>>
    BY <1>5, QuietSteps
  <2> QED BY <1>1, <2>1, StreamShifts
<1>6. CASE Sockets
  BY <1>1, <1>6, PostSteps, StreamPosts
<1> QED BY <1>2, <1>4, <1>5, <1>6 DEF Next, Gateserver, Owner

\* Nothing is given to the frame buffer, or to the handler, for a socket that
\* is not read; only deliveries change what is uncomplete, and the end.
LEMMA OnlyReadGiven ==
    ASSUME GateInv, Next, ~OnData, NEW x \in Fd
    PROVE  /\ received'[x] = received[x]
           /\ sock[x] \in Unread => got'[x] = got[x]
           /\ \/ uncomplete'[x] = uncomplete[x]
              \/ (OnClose \/ OnError) /\ x = Event.fd
<1>1. GateTypes /\ RingRead
  BY DEF GateInv
<1>2. CASE PopPacket
  <2>1. Top(ring).fd \in Fd /\ Top(ring).data \in Payload /\ sock[Top(ring).fd] \notin Unread
    BY <1>1, <1>2, PacketTaken DEF PopPacket
  <2>2. got' = [got EXCEPT ![Top(ring).fd] = Append(@, Top(ring).data)] \/ got' = got
    BY <1>1, <1>2, <2>1, Dispatched DEF PopPacket
  <2>3. UNCHANGED <<received, uncomplete>>
    BY <1>2 DEF PopPacket
  <2> QED BY <1>1, <2>1, <2>2, <2>3 DEF GateTypes
<1>3. CASE OnClose \/ OnError
  <2>1. UNCHANGED <<received, got>> /\ uncomplete' = [uncomplete EXCEPT ![Event.fd] = Nothing]
    BY <1>3 DEF OnClose, OnError, CloseUncomplete
  <2> QED BY <1>1, <1>3, <2>1 DEF GateTypes
<1>4. EndMore \/ OnOpen \/ OnListenClose \/ Owner \/ Sockets => UNCHANGED <<received, got, uncomplete>>
  BY DEF EndMore, OnOpen, OnListenClose, Owner, OpenGate, CloseGate, OpenClient, Kick, Sockets,
         ListenClosed, Accept, Deliver, SocketClosed, SocketError, Quiescent, gateVars, handlerVars
<1> QED BY <1>2, <1>3, <1>4 DEF Next, Gateserver

\* A delivery that comes to a socket that is over was waiting before.
LEMMA UncutBefore ==
    ASSUME GateInv, Next, NEW x \in Fd, Uncut(x)'
    PROVE  /\ Uncut(x)
           /\ OnClose \/ OnError => x # Event.fd
<1>1. GateTypes /\ Lifecycle /\ GoesOn(x)
  BY SocketsGoOn DEF GateInv
<1>2. CASE sock'[x] \notin Over
  <2>1. sock[x] \notin Over
    BY <1>1, <1>2 DEF GoesOn
  <2>2. ASSUME OnClose \/ OnError PROVE x # Event.fd
    <3>1. PICK type \in {"CLOSE", "ERROR"} : Handles(type)
      BY <2>2 DEF OnClose, OnError
    <3> QED BY <2>1, <3>1, FirstEvent
  <2> QED BY <2>1, <2>2 DEF Uncut
<1>3. ASSUME NEW i \in DOMAIN mailbox', Is(mailbox'[i], "DATA", x)
      PROVE  Uncut(x) /\ (OnClose \/ OnError => x # Event.fd)
  <2>1. ASSUME NEW d \in {0, 1}, Shifts(d) PROVE Uncut(x)
    <3>1. i + d \in DOMAIN mailbox /\ Is(mailbox[i + d], "DATA", x)
      BY <1>3, <2>1 DEF Shifts
    <3> QED BY <3>1 DEF Uncut
  <2>2. CASE OnData \/ OnOpen
    <3>1. Shifts(1) /\ ~OnClose /\ ~OnError
      BY <1>1, <2>2, MailTaken DEF OnData, OnOpen, OnClose, OnError, Handles
    <3> QED BY <2>1, <3>1
  <2>3. CASE OnClose \/ OnError
    <3>1. PICK type \in {"CLOSE", "ERROR"} : Handles(type)
      BY <2>3 DEF OnClose, OnError
    <3> QED BY <1>1, <1>3, <2>1, <3>1, MailTaken, FirstEvent
  <2>4. CASE /\ ~OnClose /\ ~OnError
             /\ \/ PopPacket \/ EndMore \/ OnListenClose \/ Owner
    BY <2>1, <2>4, QuietSteps DEF Owner
  <2>5. CASE Sockets /\ ~OnClose /\ ~OnError
    <3>1. PICK e \in EventOf : Post(e) /\ (Is(e, "DATA", x) => sock[x] = "started")
      BY <1>1, <2>5, PostSteps
    <3>2. (i \in DOMAIN mailbox /\ mailbox'[i] = mailbox[i]) \/ mailbox'[i] = e
      BY <1>1, <3>1, EventPosted DEF Post, GateTypes
    <3>3. sock[x] = "started" => sock[x] \notin Over
      BY DEF Over
    <3> QED BY <1>3, <2>5, <3>1, <3>2, <3>3 DEF Uncut
  <2> QED BY <2>2, <2>3, <2>4, <2>5 DEF Next, Gateserver
<1> QED BY <1>2, <1>3 DEF Uncut

\* What an event DATA makes of its socket's bytes.
LEMMA DataSteps ==
    ASSUME GateInv, OnData
    PROVE  \E fd \in Fd : \E k \in 0 .. Len(Frames[fd]) : \E m \in k .. Len(Frames[fd]) :
              /\ fd = Event.fd /\ sock[fd] \notin Unread
              /\ Completed(Frames[fd], received[fd]) = k
              /\ Completed(Frames[fd], received'[fd]) = m
              /\ DataIs.frames = Piece(Frames[fd], k, m)
              /\ Leaves(Frames[fd], m, received'[fd], uncomplete'[fd])
              /\ DataIs.alone => Len(DataIs.frames) = 1
              /\ \A x \in Fd : x # fd =>
                    received'[x] = received[x] /\ uncomplete'[x] = uncomplete[x]
<1>1. GateTypes /\ Handles("DATA")
  BY DEF GateInv, OnData
<1>2. PICK fd \in Fd : fd = Event.fd
  BY <1>1, FirstEvent
<1>3. /\ sock[fd] \notin Unread /\ Len(Event.data) \in Nat
      /\ Filtered(Frames[fd], received[fd], received[fd] + Len(Event.data), uncomplete[fd], DataIs)
  BY <1>1, <1>2, DataTaken DEF DataFd
<1>4. /\ uncomplete' = [uncomplete EXCEPT ![fd] = DataIs.left]
      /\ received' = [received EXCEPT ![fd] = @ + Len(Event.data)]
  BY <1>2 DEF OnData, DataIs
<1>5. /\ uncomplete'[fd] = DataIs.left /\ received'[fd] = received[fd] + Len(Event.data)
      /\ \A x \in Fd : x # fd => received'[x] = received[x] /\ uncomplete'[x] = uncomplete[x]
  BY <1>1, <1>4 DEF GateTypes
<1> DEFINE r == DataIs
<1> HIDE DEF r
<1>6. Filtered(Frames[fd], received[fd], received'[fd], uncomplete[fd], r)
      /\ uncomplete'[fd] = r.left
  BY <1>3, <1>5 DEF r
<1>7. PICK k \in 0 .. Len(Frames[fd]) : \E m \in k .. Len(Frames[fd]) :
        /\ Completed(Frames[fd], received[fd]) = k
        /\ Completed(Frames[fd], received'[fd]) = m
        /\ r.frames = Piece(Frames[fd], k, m)
        /\ Leaves(Frames[fd], m, received'[fd], r.left)
        /\ r.alone => Len(r.frames) = 1
  BY <1>6 DEF Filtered
<1> QED BY ONLY <1>2, <1>3, <1>5, <1>6, <1>7 DEF r

\* What is uncomplete is always the start of the next frame.
LEMMA ReassemblyKept ==
    ASSUME GateInv, Next
    PROVE  Reassembly'
<1>1. GateTypes /\ Reassembly
  BY DEF GateInv
<1> SUFFICES ASSUME NEW x \in Fd
             PROVE  /\ Uncut(x)' => \E k \in 0 .. Len(Frames[x]) :
                                        Leaves(Frames[x], k, received'[x], uncomplete'[x])
                    /\ sock'[x] \in Unread => received'[x] = 0 /\ got'[x] = <<>>
  BY DEF Reassembly
<1>2. sock'[x] \in Unread => sock[x] \in Unread /\ received[x] = 0 /\ got[x] = <<>>
  BY <1>1, SocketsGoOn DEF Reassembly, GoesOn
<1>3. Uncut(x)' => \E k \in 0 .. Len(Frames[x]) : Leaves(Frames[x], k, received[x], uncomplete[x])
  BY <1>1, UncutBefore DEF Reassembly
<1>4. CASE OnData
  <2>1. PICK fd \in Fd :
          /\ fd = Event.fd /\ sock[fd] \notin Unread
          /\ \E k \in 0 .. Len(Frames[fd]) : \E m \in k .. Len(Frames[fd]) :
                Leaves(Frames[fd], m, received'[fd], uncomplete'[fd])
          /\ \A y \in Fd : y # fd => received'[y] = received[y] /\ uncomplete'[y] = uncomplete[y]
    BY <1>4, DataSteps
  <2>2. x # fd => got'[x] = got[x]
    BY <1>1, <1>4, <2>1 DEF OnData, Dispatches, DispatchMsg, GateTypes
  <2>3. \E m \in 0 .. Len(Frames[fd]) : Leaves(Frames[fd], m, received'[fd], uncomplete'[fd])
    <3>1. \A k \in 0 .. Len(Frames[fd]) : k .. Len(Frames[fd]) \subseteq 0 .. Len(Frames[fd])
      <4>1. Len(Frames[fd]) \in Nat
        BY GateAssumption, LenProperties
      <4> QED BY <4>1
    <3> QED BY <2>1, <3>1
  <2>4. CASE x = fd
    BY <1>2, <2>1, <2>3, <2>4
  <2>5. CASE x # fd
    BY <1>2, <1>3, <2>1, <2>2, <2>5
  <2> QED BY <2>4, <2>5
<1>5. CASE ~OnData
  BY <1>2, <1>3, <1>5, OnlyReadGiven, UncutBefore
<1> QED BY <1>4, <1>5

\* One frame more than the first k.
LEMMA OneMore ==
    ASSUME NEW S, NEW s \in Seq(S), NEW k \in Nat, k + 1 \in 1 .. Len(s)
    PROVE  Append(SubSeq(s, 1, k), s[k + 1]) = SubSeq(s, 1, k + 1)
<1> DEFINE a == Piece(s, 0, k)
           b == Piece(s, 0, k + 1)
           c == Append(a, s[k + 1])
<1>1. /\ k \in 0 .. Len(s) /\ k + 1 \in 0 .. Len(s) /\ 0 \in 0 .. k /\ 0 \in 0 .. k + 1
      /\ k - 0 = k /\ k + 1 - 0 = k + 1 /\ \A i \in Nat : 0 + i = i
      /\ k + 1 \in 1 .. k + 1 /\ 0 + 1 = 1
  <2>1. Len(s) \in Nat
    BY LenProperties
  <2> QED BY <2>1
<1>2. a \in Seq(S) /\ Len(a) = k /\ \A i \in 1 .. k : a[i] = s[i]
  <2>1. a \in Seq(S) /\ Len(a) = k - 0 /\ \A i \in 1 .. k - 0 : a[i] = s[0 + i]
    BY <1>1, PieceIs, ZenonT(80)
  <2> HIDE DEF a
  <2> QED BY <1>1, <2>1
<1>3. b \in Seq(S) /\ Len(b) = k + 1 /\ \A i \in 1 .. k + 1 : b[i] = s[i]
  <2> DEFINE h == k + 1
  <2> HIDE DEF h
  <2>1. h \in 0 .. Len(s) /\ 0 \in 0 .. h /\ h - 0 = h
    BY <1>1 DEF h
  <2> DEFINE e == Piece(s, 0, h)
  <2>2. e \in Seq(S) /\ Len(e) = h - 0 /\ \A i \in 1 .. h - 0 : e[i] = s[0 + i]
    BY <1>1, <2>1, PieceIs, ZenonT(80)
  <2>3. e = b
    BY DEF h
  <2> HIDE DEF b, e
  <2>4. b \in Seq(S) /\ Len(b) = h /\ \A i \in 1 .. h : b[i] = s[i]
    BY <1>1, <2>1, <2>2, <2>3
  <2> QED BY <2>4 DEF h
<1>4. s[k + 1] \in S
  BY LenProperties
<1> HIDE DEF a, b
<1>5. c \in Seq(S) /\ Len(c) = k + 1 /\ (\A i \in 1 .. k : c[i] = a[i]) /\ c[k + 1] = s[k + 1]
  BY <1>2, <1>4, AppendProperties
<1> HIDE DEF c
<1>6. \A i \in 1 .. k + 1 : i \in 1 .. k \/ i = k + 1
  OBVIOUS
<1>7. c = b
  <2>1. \A i \in 1 .. k + 1 : c[i] = b[i]
    BY <1>2, <1>3, <1>5, <1>6
  <2> QED BY <1>3, <1>5, <2>1, SeqEqual
<1> QED BY <1>1, <1>7 DEF a, b, c, Piece

\* A delivery: its frames are given, or put in the ring, which was empty.
LEMMA DeliveredData ==
    ASSUME GateInv, OnData
    PROVE  Delivered'
<1>1. GateTypes /\ RingRead /\ Delivered /\ Handles("DATA") /\ Idle
  BY DEF GateInv, OnData, Handles
<1>2. UserBends
  BY DataBends
<1>3. PICK fd \in Fd : \E k \in 0 .. Len(Frames[fd]) : \E m \in k .. Len(Frames[fd]) :
          /\ fd = Event.fd
          /\ Completed(Frames[fd], received[fd]) = k
          /\ Completed(Frames[fd], received'[fd]) = m
          /\ DataIs.frames = Piece(Frames[fd], k, m)
          /\ DataIs.alone => Len(DataIs.frames) = 1
          /\ \A x \in Fd : x # fd => received'[x] = received[x]
  BY DataSteps
<1> DEFINE s == Frames[fd]
           f == DataIs.frames
<1>4. s \in Seq(Packable)
  BY GateAssumption
<1>5. PICK k \in 0 .. Len(s) : \E m \in k .. Len(s) :
          /\ Completed(s, received[fd]) = k /\ Completed(s, received'[fd]) = m
          /\ f = Piece(s, k, m) /\ (DataIs.alone => Len(f) = 1)
  BY <1>3
<1>6. PICK m \in k .. Len(s) :
          /\ Completed(s, received[fd]) = k /\ Completed(s, received'[fd]) = m
          /\ f = Piece(s, k, m) /\ (DataIs.alone => Len(f) = 1)
  BY <1>5
<1>7. k \in Nat /\ m \in Nat /\ k <= m /\ m \in 0 .. Len(s) /\ k \in 0 .. m
  BY <1>4, LenProperties
<1>8. f \in Seq(Packable) /\ Len(f) = m - k /\ \A i \in 1 .. m - k : f[i] = s[k + i]
  <2> HIDE DEF s, f
  <2> DEFINE g == Piece(s, k, m)
  <2>1. g \in Seq(Packable) /\ Len(g) = m - k /\ \A i \in 1 .. m - k : g[i] = s[k + i]
    BY <1>4, <1>7, PieceIs
  <2>2. f = g
    BY <1>6
  <2> HIDE DEF g
  <2> QED BY <2>1, <2>2
<1>9. \A x \in Fd : x # fd =>
          Completed(Frames[x], received'[x]) = Completed(Frames[x], received[x])
  BY <1>3
<1> SUFFICES ASSUME thrown' = 0
             PROVE  /\ Idle' => Held(ring') = 0
                    /\ \A i, j \in 1 .. Held(ring') : Content(ring')[i].fd = Content(ring')[j].fd
                    /\ \A x \in connection' :
                          LET n == Completed(Frames[x], received'[x])
                          IN  /\ n \in 0 .. Len(Frames[x]) /\ Waiting(x)' <= n
                              /\ got'[x] = SubSeq(Frames[x], 1, n - Waiting(x)')
                              /\ \A i \in 1 .. Waiting(x)' :
                                    Content(ring')[i].data = Frames[x][n - Waiting(x)' + i]
  BY DEF Delivered
<1>10. thrown = 0
  <2>1. thrown' = thrown \/ thrown' = thrown + 1
    BY <1>1 DEF OnData, Dispatches, Returns, Throws
  <2> QED BY <1>1, <2>1 DEF GateTypes
<1>11. Held(ring) = 0 /\ \A x \in Fd : Waiting(x) = 0
  BY <1>1, <1>10 DEF Delivered, Waiting
<1>12. connection' \subseteq connection /\ connection \subseteq Fd
  BY <1>1, <1>2 DEF UserBends, GateTypes
<1>13. \A x \in connection :
          LET n == Completed(Frames[x], received[x])
          IN  /\ n \in 0 .. Len(Frames[x]) /\ 0 <= n
              /\ got[x] = SubSeq(Frames[x], 1, n - 0)
  BY <1>1, <1>10, <1>11, <1>12 DEF Delivered
<1>14. fd \in connection => got[fd] = SubSeq(s, 1, k)
  <2>1. k - 0 = k
    BY <1>7
  <2> QED BY <1>6, <1>13, <2>1
<1> HIDE DEF s, f
<1>15. CASE DataIs.alone /\ Dispatches(fd, f[1]) /\ UNCHANGED <<ring, popping>>
  <2>1. m - k = 1 /\ m = k + 1 /\ 1 \in 1 .. m - k /\ k + 1 \in 1 .. Len(s) /\ m - 0 = m
    <3>1. m - k = 1
      BY <1>6, <1>8, <1>15
    <3> QED BY <1>4, <1>7, <3>1, LenProperties
  <2>2. f[1] = s[k + 1] /\ f[1] \in Payload
    <3>1. f[1] = s[k + 1]
      BY <1>8, <2>1
    <3>2. s[k + 1] \in Packable
      BY <1>4, <2>1, LenProperties
    <3> QED BY <3>1, <3>2 DEF Packable
  <2>3. /\ fd \in connection => got' = [got EXCEPT ![fd] = Append(@, f[1])]
        /\ fd \notin connection => got' = got
    BY <1>1, <1>15, <2>2, Dispatched
  <2>4. /\ fd \in connection => got'[fd] = Append(got[fd], f[1])
        /\ \A x \in Fd : x # fd => got'[x] = got[x]
    BY <1>1, <2>3 DEF GateTypes
  <2>5. Held(ring') = 0 /\ \A x \in Fd : Waiting(x)' = 0
    BY <1>11, <1>15 DEF Waiting
  <2>6. fd \in connection => got'[fd] = SubSeq(s, 1, m - 0)
    <3>1. Append(SubSeq(s, 1, k), s[k + 1]) = SubSeq(s, 1, k + 1)
      BY <1>4, <1>7, <2>1, OneMore
    <3> QED BY <1>14, <2>1, <2>2, <2>4, <3>1
  <2>7. ASSUME NEW x \in connection'
        PROVE  LET n == Completed(Frames[x], received'[x])
               IN  n \in 0 .. Len(Frames[x]) /\ 0 <= n /\ got'[x] = SubSeq(Frames[x], 1, n - 0)
    <3>1. x \in connection /\ x \in Fd
      BY <1>12
    <3>2. CASE x = fd
      BY <1>6, <1>7, <2>6, <3>1, <3>2 DEF s
    <3>3. CASE x # fd
      BY <1>9, <1>13, <2>4, <3>1, <3>3
    <3> QED BY <3>2, <3>3
  <2>8. \A i \in 1 .. 0 : FALSE
    OBVIOUS
  <2>9. \A x \in connection' : Waiting(x)' = 0
    BY <1>12, <2>5
  <2> QED BY <2>5, <2>7, <2>8, <2>9
<1>16. CASE /\ ring' = PushAll(ring, fd, f) /\ popping' = (f # <<>>) /\ got' = got
  <2>1. /\ Held(ring') = Held(ring) + Len(f)
        /\ \A i \in 1 .. Len(f) : Content(ring')[Held(ring) + i] = [fd |-> fd, data |-> f[i]]
    <3>1. Ring(ring)
      BY <1>1 DEF RingRead
    <3> QED BY <1>8, <1>16, <3>1, PushAllAppends
  <2>2. /\ Held(ring') = m - k
        /\ \A i \in 1 .. m - k :
              Content(ring')[i].fd = fd /\ Content(ring')[i].data = s[k + i]
    <3>1. \A i \in 1 .. m - k : 0 + i = i
      BY <1>7
    <3>2. 0 + (m - k) = m - k
      BY <1>7
    <3>3. \A i \in 1 .. m - k : Content(ring')[i] = [fd |-> fd, data |-> s[k + i]]
      BY <1>8, <1>11, <2>1, <3>1
    <3>4. \A i \in 1 .. m - k :
              Content(ring')[i].fd = fd /\ Content(ring')[i].data = s[k + i]
      <4> SUFFICES ASSUME NEW i \in 1 .. m - k
                   PROVE  Content(ring')[i].fd = fd /\ Content(ring')[i].data = s[k + i]
        OBVIOUS
      <4> DEFINE c == Content(ring')[i]
                 v == s[k + i]
      <4>1. c = [fd |-> fd, data |-> v]
        BY <3>3
      <4> HIDE DEF c, v
      <4>2. c.fd = fd /\ c.data = v
        BY <4>1
      <4> QED BY <4>2 DEF c, v
    <3> QED BY <1>8, <1>11, <2>1, <3>2, <3>4
  <2>3. Idle' => Held(ring') = 0
    <3>1. Idle' => f = <<>>
      BY <1>16 DEF Idle
    <3>2. f = <<>> => Len(f) = 0
      OBVIOUS
    <3> QED BY <1>8, <2>2, <3>1, <3>2
  <2>4. \A i, j \in 1 .. Held(ring') : Content(ring')[i].fd = Content(ring')[j].fd
    BY <2>2
  <2>5. Waiting(fd)' = m - k /\ \A x \in Fd : x # fd => Waiting(x)' = 0
    <3>1. CASE m - k = 0
      <4>1. ~(0 > 0)
        OBVIOUS
      <4> QED BY <2>2, <3>1, <4>1 DEF Waiting
    <3>2. CASE m - k # 0
      <4>1. m - k > 0 /\ 1 \in 1 .. m - k
        BY <1>7, <3>2
      <4>2. Held(ring') > 0 /\ Content(ring')[1].fd = fd
        BY <2>2, <4>1
      <4> QED BY <2>2, <4>2 DEF Waiting
    <3> QED BY <3>1, <3>2
  <2>6. m - (m - k) = k /\ m - k <= m
    BY <1>7
  <2>7. ASSUME NEW x \in connection'
        PROVE  LET n == Completed(Frames[x], received'[x])
               IN  /\ n \in 0 .. Len(Frames[x]) /\ Waiting(x)' <= n
                   /\ got'[x] = SubSeq(Frames[x], 1, n - Waiting(x)')
                   /\ \A i \in 1 .. Waiting(x)' :
                         Content(ring')[i].data = Frames[x][n - Waiting(x)' + i]
    <3>1. x \in connection /\ x \in Fd
      BY <1>12
    <3>2. CASE x = fd
      <4> DEFINE n == Completed(Frames[x], received'[x])
                 w == Waiting(x)'
      <4>1. n = m /\ Frames[x] = s /\ w = m - k /\ n - w = k
        BY <1>6, <2>5, <2>6, <3>2 DEF s
      <4> HIDE DEF n, w
      <4>2. n \in 0 .. Len(Frames[x]) /\ w <= n
        BY <1>7, <2>6, <4>1
      <4>3. got'[x] = SubSeq(Frames[x], 1, n - w)
        BY <1>14, <1>16, <3>1, <3>2, <4>1
      <4>4. \A i \in 1 .. w : Content(ring')[i].data = Frames[x][n - w + i]
        BY <2>2, <4>1
      <4> QED BY <4>2, <4>3, <4>4 DEF n, w
    <3>3. CASE x # fd
      <4>1. Waiting(x)' = 0 /\ \A i \in 1 .. 0 : FALSE
        BY <2>5, <3>1, <3>3
      <4> QED BY <1>9, <1>13, <1>16, <3>1, <3>3, <4>1
    <3> QED BY <3>2, <3>3
  <2> QED BY <2>3, <2>4, <2>7
<1>17. \/ DataIs.alone /\ Dispatches(fd, f[1]) /\ UNCHANGED <<ring, popping>>
       \/ ring' = PushAll(ring, fd, f) /\ popping' = (f # <<>>) /\ got' = got
  BY <1>3 DEF OnData, DataIs, f
<1> QED BY <1>15, <1>16, <1>17

\* A packet of the ring: the oldest frame not yet given.
LEMMA DeliveredPop ==
    ASSUME GateInv, PopPacket
    PROVE  Delivered'
<1>1. /\ GateTypes /\ RingRead /\ Delivered /\ ~Empty(ring) /\ ring' = Pop(ring)
      /\ received' = received /\ popping' = (thrown' = thrown)
  BY DEF GateInv, PopPacket
<1> DEFINE fd == Top(ring).fd
           data == Top(ring).data
           h == Held(ring)
<1>2. /\ Top(ring) = Content(ring)[1] /\ h \in Nat /\ 1 \in 1 .. h
      /\ fd \in Fd /\ data \in Payload
      /\ Held(ring') = h - 1
      /\ \A i \in 1 .. h - 1 : i + 1 \in 1 .. h /\ Content(ring')[i] = Content(ring)[i + 1]
  BY <1>1, PacketTaken
<1>3. Dispatches(fd, data)
  BY DEF PopPacket
<1>4. /\ UserBends /\ thrown' \in Nat /\ (thrown' = 0 => thrown = 0)
      /\ fd \in connection => got' = [got EXCEPT ![fd] = Append(@, data)]
      /\ fd \notin connection => got' = got
  BY <1>1, <1>2, <1>3, Dispatched
<1>5. PICK c \in Fd : c = fd
  BY <1>2
<1>6. /\ c \in connection => got'[c] = Append(got[c], data)
      /\ \A x \in Fd : x # c => got'[x] = got[x]
  BY <1>1, <1>4, <1>5 DEF GateTypes
<1>7. connection' \subseteq connection /\ connection \subseteq Fd
  BY <1>1, <1>4 DEF UserBends, GateTypes
<1>8. Content(ring)[1].fd = c /\ Content(ring)[1].data = data
  BY <1>2, <1>5
<1> SUFFICES ASSUME thrown' = 0
             PROVE  /\ Idle' => Held(ring') = 0
                    /\ \A i, j \in 1 .. Held(ring') : Content(ring')[i].fd = Content(ring')[j].fd
                    /\ \A x \in connection' :
                          LET n == Completed(Frames[x], received'[x])
                          IN  /\ n \in 0 .. Len(Frames[x]) /\ Waiting(x)' <= n
                              /\ got'[x] = SubSeq(Frames[x], 1, n - Waiting(x)')
                              /\ \A i \in 1 .. Waiting(x)' :
                                    Content(ring')[i].data = Frames[x][n - Waiting(x)' + i]
  BY DEF Delivered
<1> HIDE DEF fd, data, h
<1>9. thrown = 0 /\ popping' = TRUE
  BY <1>1, <1>4
<1>10. ~Idle'
  BY <1>9 DEF Idle
<1>11. \A i \in 1 .. h : Content(ring)[i].fd = c
  BY <1>1, <1>2, <1>8, <1>9 DEF Delivered, h
<1>12. \A i \in 1 .. h - 1 : Content(ring')[i].fd = c
  BY <1>2, <1>11
<1>13. \A i, j \in 1 .. Held(ring') : Content(ring')[i].fd = Content(ring')[j].fd
  BY <1>2, <1>12
<1>14. Waiting(c) = h /\ \A x \in Fd : x # c => Waiting(x) = 0
  <2>1. h > 0
    BY <1>2
  <2> QED BY <1>8, <2>1 DEF Waiting, h
<1>15. Waiting(c)' = h - 1 /\ \A x \in Fd : x # c => Waiting(x)' = 0
  <2>1. CASE h - 1 = 0
    <3>1. ~(0 > 0)
      OBVIOUS
    <3> QED BY <1>2, <2>1, <3>1 DEF Waiting
  <2>2. CASE h - 1 # 0
    <3>1. h - 1 > 0 /\ 1 \in 1 .. h - 1
      BY <1>2, <2>2
    <3>2. Content(ring')[1].fd = c
      BY <1>12, <3>1
    <3> QED BY <1>2, <3>1, <3>2 DEF Waiting
  <2> QED BY <2>1, <2>2
<1>16. ASSUME NEW x \in connection'
       PROVE  LET n == Completed(Frames[x], received'[x])
              IN  /\ n \in 0 .. Len(Frames[x]) /\ Waiting(x)' <= n
                  /\ got'[x] = SubSeq(Frames[x], 1, n - Waiting(x)')
                  /\ \A i \in 1 .. Waiting(x)' :
                        Content(ring')[i].data = Frames[x][n - Waiting(x)' + i]
  <2> DEFINE s == Frames[x]
             n == Completed(s, received[x])
             w == Waiting(x)
  <2>1. x \in connection /\ x \in Fd /\ s \in Seq(Packable)
    BY <1>7, GateAssumption
  <2>2. /\ n \in 0 .. Len(s) /\ w <= n /\ got[x] = SubSeq(s, 1, n - w)
        /\ \A i \in 1 .. w : Content(ring)[i].data = s[n - w + i]
    BY <1>1, <1>9, <2>1 DEF Delivered
  <2>3. Completed(Frames[x], received'[x]) = n
    BY <1>1
  <2>4. Len(s) \in Nat
    BY <2>1, LenProperties
  <2> HIDE DEF s, n
  <2>5. CASE x # c
    <3>1. w = 0 /\ Waiting(x)' = 0 /\ got'[x] = got[x]
      BY <1>6, <1>14, <1>15, <2>1, <2>5
    <3>2. \A i \in 1 .. 0 : FALSE
      OBVIOUS
    <3> HIDE DEF w
    <3> QED BY <2>2, <2>3, <3>1, <3>2 DEF s
  <2>6. CASE x = c
    <3>1. w = h /\ Waiting(x)' = h - 1 /\ got'[x] = Append(got[x], data)
      BY <1>6, <1>14, <1>15, <2>1, <2>6
    <3> HIDE DEF w
    <3>2. /\ n - w \in Nat /\ n - w + 1 \in 1 .. Len(s) /\ n - (h - 1) = n - w + 1 /\ h - 1 <= n
      BY <1>2, <2>2, <2>4, <3>1
    <3>3. data = s[n - w + 1]
      BY <1>2, <1>8, <2>2, <3>1
    <3>4. Append(SubSeq(s, 1, n - w), s[n - w + 1]) = SubSeq(s, 1, n - w + 1)
      BY <2>1, <3>2, OneMore
    <3>5. got'[x] = SubSeq(s, 1, n - (h - 1))
      BY <2>2, <3>1, <3>2, <3>3, <3>4
    <3>6. ASSUME NEW i \in 1 .. h - 1
          PROVE  Content(ring')[i].data = s[n - (h - 1) + i]
      <4>1. i + 1 \in 1 .. w /\ n - w + (i + 1) = n - (h - 1) + i
        BY <1>2, <2>2, <2>4, <3>1
      <4> QED BY <1>2, <2>2, <4>1
    <3> QED BY <2>2, <2>3, <3>1, <3>2, <3>5, <3>6 DEF s
  <2> QED BY <2>5, <2>6
<1> QED BY <1>10, <1>13, <1>16

\* No frame of a client is completed before its first byte.
LEMMA NoneCompleted ==
    ASSUME NEW s \in Seq(Packable)
    PROVE  Completed(s, 0) = 0
<1>1. Laid(s) /\ Len(s) \in Nat
  BY StreamLaid, LenProperties
<1>2. Off(s, 0) = 0
  BY <1>1 DEF Laid
<1>3. Leaves(s, 0, 0, Nothing)
  BY <1>2 DEF Leaves
<1>4. 0 \in 0 .. Len(s) /\ 0 \in Nat
  BY <1>1
<1> QED BY <1>3, <1>4, LeavesCompleted

\* A client that is admitted was given nothing yet.
LEMMA DeliveredOpen ==
    ASSUME GateInv, OnOpen
    PROVE  Delivered'
<1>1. GateTypes /\ Delivered /\ Reassembly /\ Handles("ACCEPT") /\ Idle
      /\ UNCHANGED <<ring, popping, received, got, thrown>>
  BY DEF GateInv, OnOpen, Handles
<1>2. PICK fd \in Fd : fd = Event.fd /\ sock[fd] = "accepted"
  BY <1>1, FirstEvent
<1>3. connection' \subseteq connection \cup {fd}
  BY <1>2 DEF OnOpen
<1>4. received[fd] = 0 /\ got[fd] = <<>>
  BY <1>1, <1>2 DEF Reassembly, Unread
<1> SUFFICES ASSUME thrown = 0 PROVE Delivered'
  BY <1>1 DEF Delivered
<1>5. Held(ring) = 0 /\ Waiting(fd) = 0
  BY <1>1 DEF Delivered, Waiting
<1>6. Completed(Frames[fd], received[fd]) = 0 /\ 0 \in 0 .. Len(Frames[fd])
  <2>1. Frames[fd] \in Seq(Packable) /\ Len(Frames[fd]) \in Nat
    BY GateAssumption, LenProperties
  <2> QED BY <1>4, <2>1, NoneCompleted
<1>7. SubSeq(Frames[fd], 1, 0 - 0) = <<>>
  <2>1. Frames[fd] \in Seq(Packable) /\ 0 - 0 = 0
    BY GateAssumption
  <2>2. Len(SubSeq(Frames[fd], 1, 0)) = 0 /\ SubSeq(Frames[fd], 1, 0) \in Seq(Packable)
    <3>1. 0 \in 0 .. Len(Frames[fd]) /\ 0 \in 0 .. 0 /\ 0 - 0 = 0 /\ 0 + 1 = 1
      BY <1>6
    <3>2. Piece(Frames[fd], 0, 0) \in Seq(Packable) /\ Len(Piece(Frames[fd], 0, 0)) = 0 - 0
      BY <2>1, <3>1, PieceIs
    <3> QED BY <3>1, <3>2 DEF Piece
  <2> QED BY <2>1, <2>2, EmptySeq
<1>8. \A i \in 1 .. 0 : FALSE
  OBVIOUS
<1>9. ASSUME NEW x \in connection'
      PROVE  LET n == Completed(Frames[x], received[x])
             IN  /\ n \in 0 .. Len(Frames[x]) /\ Waiting(x) <= n
                 /\ got[x] = SubSeq(Frames[x], 1, n - Waiting(x))
                 /\ \A i \in 1 .. Waiting(x) :
                       Content(ring)[i].data = Frames[x][n - Waiting(x) + i]
  <2>1. CASE x \in connection
    BY <1>1, <2>1 DEF Delivered
  <2>2. CASE x = fd
    <3> DEFINE n == Completed(Frames[x], received[x])
               w == Waiting(x)
    <3>1. n = 0 /\ w = 0 /\ 0 \in 0 .. Len(Frames[x]) /\ got[x] = SubSeq(Frames[x], 1, 0 - 0)
      BY <1>4, <1>5, <1>6, <1>7, <2>2
    <3>2. 0 <= 0
      OBVIOUS
    <3> HIDE DEF n, w
    <3> QED BY <1>8, <3>1, <3>2 DEF n, w
  <2> QED BY <1>3, <2>1, <2>2
<1> QED BY <1>1, <1>9 DEF Delivered, Waiting, Idle

\* The other steps give nothing.
LEMMA DeliveredKept ==
    ASSUME GateInv, Next
    PROVE  Delivered'
<1>1. GateTypes /\ RingRead /\ Delivered
  BY DEF GateInv
<1>2. ASSUME UNCHANGED <<ring, received, got, thrown>>, connection' \subseteq connection,
             popping' = popping \/ (Empty(ring) /\ ~popping')
      PROVE  Delivered'
  <2>1. Empty(ring) => Held(ring) = 0
    BY <1>1 DEF RingRead, Ring, Empty, Held
  <2> QED BY <1>1, <1>2, <2>1 DEF Delivered, Waiting, Idle
<1>3. CASE OnClose \/ OnListenClose \/ OnError \/ EndMore \/ OpenGate \/ CloseGate \/ Sockets
  <2>1. /\ UNCHANGED <<ring, received, got, thrown>> /\ connection' \subseteq connection
        /\ popping' = popping \/ (Empty(ring) /\ ~popping')
    BY <1>3 DEF OnClose, OnListenClose, OnError, EndMore, OpenGate, CloseGate, Sockets,
                ListenClosed, Accept, Deliver, SocketClosed, SocketError, Quiescent, gateVars,
                handlerVars
  <2> QED BY <1>2, <2>1
<1>4. CASE \E fd \in Fd : OpenClient(fd) \/ Kick(fd)
  <2>1. UNCHANGED <<ring, received, got, thrown, popping>> /\ connection' \subseteq connection
    BY <1>4 DEF OpenClient, Kick, CloseClient, gateVars, handlerVars
  <2> QED BY <1>2, <2>1
<1> QED
  BY <1>3, <1>4, DeliveredData, DeliveredPop, DeliveredOpen DEF Next, Gateserver, Owner
-----------------------------------------------------------------------------
(* The theorems.                                                            *)

\* The invariant holds at the start, and every step keeps it.
LEMMA GateInit == Init => GateInv
<1> SUFFICES ASSUME Init PROVE GateInv
  OBVIOUS
<1>1. /\ connection = {} /\ popping = FALSE /\ mailbox = <<>> /\ thrown = 0
      /\ sock = [fd \in Fd |-> "none"] /\ ring = AllocQueue(QueueSize)
      /\ uncomplete = [fd \in Fd |-> Nothing] /\ unsent = [fd \in Fd |-> Bytes(Frames[fd])]
      /\ received = [fd \in Fd |-> 0]
      /\ got = [fd \in Fd |-> <<>>] /\ told = [fd \in Fd |-> <<>>]
  BY DEF Init
<1>2. Ring(ring) /\ Held(ring) = 0 /\ \A i \in 1 .. Held(ring) : FALSE
  <2>1. Ring(ring) /\ Held(ring) = 0
    BY <1>1, NewRing, NetPackAssumption
  <2>2. \A i \in 1 .. 0 : FALSE
    OBVIOUS
  <2> QED BY <2>1, <2>2
<1>3. Len(mailbox) = 0 /\ mailbox \in Seq(EventOf) /\ DOMAIN mailbox = {}
      /\ \A i \in 1 .. Len(mailbox) : FALSE
  <2>1. mailbox \in Seq(EventOf) /\ Len(mailbox) = 0
    BY <1>1, EmptySeq
  <2>2. 1 .. 0 = {}
    OBVIOUS
  <2> QED BY <2>1, <2>2, LenProperties
<1>4. \A fd \in Fd : Laid(Frames[fd]) /\ Len(Bytes(Frames[fd])) \in Nat
                     /\ Bytes(Frames[fd]) \in Seq(Byte)
  BY GateAssumption, StreamLaid, LenProperties DEF Laid, Payload
<1>5. GateTypes
  BY <1>1, <1>3, <1>4, EmptySeq DEF GateTypes, Unread, Payload
<1>6. RingRead
  BY <1>2 DEF RingRead
<1>7. Lifecycle
  BY <1>1, <1>3 DEF Lifecycle
<1>8. EndsLast
  BY <1>1, <1>3 DEF EndsLast
<1>9. StreamKept
  <2> SUFFICES ASSUME NEW fd \in Fd
               PROVE  \E p \in [1 .. Len(mailbox) + 1 -> Nat] : InStream(fd, p)
    BY DEF StreamKept
  <2> DEFINE B == Bytes(Frames[fd])
             p == [i \in 1 .. 1 |-> 0]
  <2>1. B \in Seq(Byte) /\ Len(B) \in Nat /\ 0 \in 0 .. Len(B) /\ 1 \in 1 .. 1
        /\ Len(mailbox) + 1 = 1 /\ 0 + 1 = 1
    BY <1>3, <1>4
  <2>2. From(B, 1) = B
    BY <2>1, SubSeqFull DEF From
  <2>3. p \in [1 .. 1 -> 0 .. Len(B)] /\ p[1] = 0 /\ p \in [1 .. 1 -> Nat]
    BY <2>1
  <2>4. received[fd] = 0 /\ unsent[fd] = B
    BY <1>1
  <2> HIDE DEF p
  <2>5. InStream(fd, p)
    BY <1>3, <2>1, <2>2, <2>3, <2>4 DEF InStream
  <2> QED BY <2>1, <2>3, <2>5
<1>10. Reassembly
  <2>1. \A fd \in Fd : 0 \in 0 .. Len(Frames[fd]) /\ Off(Frames[fd], 0) = 0
    BY <1>4, GateAssumption, LenProperties DEF Laid
  <2>2. \A fd \in Fd : Leaves(Frames[fd], 0, received[fd], uncomplete[fd])
    BY <1>1, <2>1 DEF Leaves
  <2> QED BY <1>1, <2>1, <2>2 DEF Reassembly
<1>11. Delivered
  BY <1>1, <1>2 DEF Delivered
<1> QED BY <1>5, <1>6, <1>7, <1>8, <1>9, <1>10, <1>11 DEF GateInv

LEMMA GateStep == GateInv /\ [Next]_vars => GateInv'
<1>1. ASSUME GateInv, UNCHANGED vars PROVE GateInv'
  <2>1. GateTypes'
    BY <1>1 DEF GateInv, GateTypes, vars, gateVars, handlerVars
  <2>2. RingRead' /\ Delivered'
    BY <1>1 DEF GateInv, RingRead, Delivered, Waiting, Idle, vars, gateVars, handlerVars
  <2>3. Lifecycle' /\ EndsLast'
    BY <1>1 DEF GateInv, Lifecycle, EndsLast, Admitted, vars, gateVars, handlerVars
  <2>4. StreamKept' /\ Reassembly'
    BY <1>1 DEF GateInv, StreamKept, InStream, Reassembly, Uncut, vars, gateVars, handlerVars
  <2> QED BY <2>1, <2>2, <2>3, <2>4 DEF GateInv
<1>2. ASSUME GateInv, Next PROVE GateInv'
  BY <1>2, TypesKept, RingKept, LifecycleKept, EndsLastKept, StreamsKept, ReassemblyKept,
     DeliveredKept DEF GateInv
<1> QED BY <1>1, <1>2
LEMMA GateInvariant == Spec => []GateInv
<1> QED BY GateInit, GateStep, PTL DEF Spec

\* gateserver.js: whatever the payloads, the cuts of the stream, the other
\* clients and the closes, the messages of a connected client are the frames
\* its bytes completed.
THEOREM FramesGiven == Spec => []FramesDelivered
<1>1. GateInv => FramesDelivered
  <2> SUFFICES ASSUME GateInv, Idle, thrown = 0, NEW fd \in connection
               PROVE  got[fd] = SubSeq(Frames[fd], 1, Completed(Frames[fd], received[fd]))
    BY DEF FramesDelivered
  <2> DEFINE n == Completed(Frames[fd], received[fd])
  <2>1. fd \in Fd /\ Held(ring) = 0 /\ n \in 0 .. Len(Frames[fd])
        /\ got[fd] = SubSeq(Frames[fd], 1, n - Waiting(fd))
    BY DEF GateInv, GateTypes, Delivered
  <2>2. Waiting(fd) = 0
    BY <2>1 DEF Waiting
  <2>3. Len(Frames[fd]) \in Nat
    BY <2>1, GateAssumption, LenProperties
  <2> HIDE DEF n
  <2>4. n - 0 = n
    BY <2>1, <2>3
  <2> QED BY <2>1, <2>2, <2>4 DEF n
<1> QED BY <1>1, GateInvariant, PTL

\* js_netpack_close and the order of a socket's events: no start of a frame is
\* left when a socket is gone and its events are handled.
THEOREM NoFrameLeaks == Spec => []NoLeakedFrame
<1>1. GateInv => NoLeakedFrame
  <2> SUFFICES ASSUME GateInv, NEW fd \in Fd, sock[fd] = "gone", uncomplete[fd] # Nothing
               PROVE  \E i \in DOMAIN mailbox :
                          mailbox[i].type # "LISTENCLOSE" /\ mailbox[i].fd = fd
    BY DEF NoLeakedFrame
  <2>1. PICK i \in DOMAIN mailbox : Ends(mailbox[i], fd)
    BY DEF GateInv, EndsLast
  <2> QED BY <2>1 DEF Ends, Is
<1> QED BY <1>1, GateInvariant, PTL

\* dispatchMsg looks the client up: a message is given only to a client that
\* was told connect, not disconnect, and whose socket is read.
THEOREM ConnectedOnly == Spec => MessagesWhileConnected
<1>1. ASSUME GateInv, [Next]_vars, NEW fd \in Fd, got'[fd] # got[fd]
      PROVE  Admitted(fd) /\ sock[fd] \notin {"none", "accepted"} /\ fd \in connection
  <2>1. GateTypes /\ RingRead /\ Lifecycle
    BY <1>1 DEF GateInv
  <2>2. OnData \/ PopPacket
    BY <1>1 DEF Next, Gateserver, EndMore, OnOpen, OnClose, OnListenClose, OnError, Owner, OpenGate,
                CloseGate, OpenClient, Kick, Sockets, ListenClosed, Accept, Deliver, SocketClosed,
                SocketError, Quiescent, vars, gateVars, handlerVars
  <2>3. PICK c \in Fd : /\ sock[c] \notin Unread
                        /\ \E data : Dispatches(c, data)
    <3>1. CASE OnData
      <4>1. Handles("DATA") /\ \E data : Dispatches(Event.fd, data)
        BY <1>1, <3>1 DEF OnData
      <4> QED BY <1>1, <4>1, FirstEvent
    <3>2. CASE PopPacket
      BY <2>1, <3>2, PacketTaken DEF PopPacket
    <3> QED BY <2>2, <3>1, <3>2
  <2>4. c \in connection /\ fd = c
    BY <1>1, <2>1, <2>3 DEF Dispatches, DispatchMsg, Connected, GateTypes
  <2> QED BY <2>1, <2>3, <2>4 DEF Lifecycle, Unread
<1>2. GateInv /\ [Next]_vars =>
          [\A fd \in Fd : got'[fd] # got[fd] =>
              Admitted(fd) /\ sock[fd] \notin {"none", "accepted"} /\ fd \in connection]_vars
  BY <1>1
<1> QED BY <1>2, GateInvariant, PTL DEF Spec, MessagesWhileConnected
-----------------------------------------------------------------------------
(* Counting: no frame is given or dropped twice, also when packets stay in  *)
(* the ring.                                                                *)

\* The messages of fd given, and those in the ring, that S has, and the frames
\* completed that it has.
Given(fd, S) == {i \in 1 .. Len(got[fd]) : got[fd][i] \in S}
Kept(fd, S) == {i \in 1 .. Held(ring) : Content(ring)[i].fd = fd /\ Content(ring)[i].data \in S}
Full(fd) == Completed(Frames[fd], received[fd])
Ended(fd, S) == {i \in 1 .. Full(fd) : Frames[fd][i] \in S}
Counted(fd, S, lost) ==
    Cardinality(Given(fd, S)) + Cardinality(Kept(fd, S)) + lost <= Cardinality(Ended(fd, S))
Once ==
    /\ dropped \in [Fd -> Nat]
    /\ \A fd \in Fd :
          /\ Full(fd) \in 0 .. Len(Frames[fd])
          /\ Counted(fd, Payload, dropped[fd])
          /\ \A f \in Payload : Counted(fd, {f}, 0)

\* Among n numbers, and m more.
Abut(n, A, m, C, B) ==
    /\ n \in Nat /\ m \in Nat /\ A \subseteq 1 .. n /\ C \subseteq 1 .. m /\ B \subseteq 1 .. n + m
    /\ \A i \in 1 .. n : i \in B <=> i \in A
    /\ \A i \in 1 .. m : n + i \in B <=> i \in C
LEMMA CountJoined ==
    ASSUME NEW n, NEW m, NEW A, NEW C, NEW B, Abut(n, A, m, C, B)
    PROVE  /\ Cardinality(B) = Cardinality(A) + Cardinality(C)
           /\ Cardinality(A) \in Nat /\ Cardinality(B) \in Nat /\ Cardinality(C) \in Nat
<1> USE DEF Abut
<1> DEFINE D == {i \in B : i > n}
           f == [i \in C |-> n + i]
<1>1. n + m \in Nat /\ n \in Int /\ m \in Int /\ n + m \in Int
  OBVIOUS
<1>2. IsFiniteSet(1 .. n) /\ IsFiniteSet(1 .. m) /\ IsFiniteSet(1 .. n + m)
  BY <1>1, FS_Interval
<1>3. IsFiniteSet(A) /\ IsFiniteSet(B) /\ IsFiniteSet(C)
  BY <1>2, FS_Subset
<1>4. Cardinality(A) \in Nat /\ Cardinality(B) \in Nat /\ Cardinality(C) \in Nat
  BY <1>3, FS_CardinalityType
<1>5. ASSUME NEW x \in D PROVE x - n \in C /\ f[x - n] = x
  <2>1. x \in B /\ x > n /\ x \in 1 .. n + m
    BY <1>5
  <2>2. x - n \in 1 .. m /\ n + (x - n) = x
    BY <2>1
  <2>3. x - n \in C
    BY <2>1, <2>2
  <2> QED BY <2>2, <2>3
<1>6. ASSUME NEW i \in C PROVE f[i] = n + i /\ f[i] \in D
  <2>1. i \in 1 .. m /\ n + i > n
    OBVIOUS
  <2> QED BY <2>1
<1>7. ExistsBijection(C, D)
  <2>1. f \in [C -> D]
    BY <1>6
  <2>2. \A i, j \in C : f[i] = f[j] => i = j
    <3>1. \A i \in C : i \in Int
      OBVIOUS
    <3> QED BY <1>6, <3>1
  <2>3. \A x \in D : \E i \in C : f[i] = x
    BY <1>5
  <2> HIDE DEF f, D
  <2>4. f \in Bijection(C, D)
    BY <2>1, <2>2, <2>3 DEF Bijection, Injection, Surjection, IsInjective
  <2> QED BY <2>4 DEF ExistsBijection
<1> HIDE DEF f
<1>8. IsFiniteSet(D) /\ Cardinality(D) = Cardinality(C)
  BY <1>3, <1>7, FS_Bijection
<1>9. B = A \cup D /\ A \cap D = {}
  <2>1. ASSUME NEW x \in B PROVE x \in A \cup D
    <3>1. x \in 1 .. n + m /\ (x \in 1 .. n \/ x > n)
      OBVIOUS
    <3> QED BY <3>1
  <2>2. ASSUME NEW x \in A PROVE x \in B /\ x \notin D
    <3>1. x \in 1 .. n /\ ~(x > n)
      OBVIOUS
    <3> QED BY <3>1
  <2>3. D \subseteq B
    OBVIOUS
  <2> HIDE DEF D
  <2> QED BY <2>1, <2>2, <2>3
<1> HIDE DEF D
<1>10. Cardinality(A \cup D) = Cardinality(A) + Cardinality(D) - Cardinality(A \cap D)
  BY <1>3, <1>8, FS_Union
<1>11. Cardinality(A \cap D) = 0
  BY <1>9, FS_EmptySet
<1>12. Cardinality(B) = Cardinality(A) + Cardinality(D) - 0
  BY <1>9, <1>10, <1>11, Zenon
<1> QED BY <1>4, <1>8, <1>12

\* One number, or none.
LEMMA CountOne ==
    ASSUME NEW C \in SUBSET (1 .. 1)
    PROVE  Cardinality(C) = IF 1 \in C THEN 1 ELSE 0
<1>1. C = {} \/ C = {1}
  <2>1. \A i \in 1 .. 1 : i = 1
    OBVIOUS
  <2> QED BY <2>1
<1>2. Cardinality({}) = 0 /\ Cardinality({1}) = 1
  BY FS_EmptySet, FS_Singleton
<1>3. 1 \notin {}
  OBVIOUS
<1> QED BY <1>1, <1>2, <1>3

LEMMA CountNat ==
    ASSUME NEW n \in Nat, NEW A \in SUBSET (1 .. n)
    PROVE  IsFiniteSet(A) /\ Cardinality(A) \in Nat /\ Cardinality(A) <= n
<1>1. IsFiniteSet(1 .. n) /\ Cardinality(1 .. n) = n
  <2>1. 1 \in Int /\ n \in Int /\ n - 1 + 1 = n /\ (1 > n => n = 0)
    OBVIOUS
  <2>2. /\ IsFiniteSet(1 .. n) /\ Cardinality(1 .. n) = IF 1 > n THEN 0 ELSE n - 1 + 1
    BY <2>1, FS_Interval
  <2> QED BY <2>1, <2>2
<1>2. IsFiniteSet(A) /\ Cardinality(A) <= Cardinality(1 .. n)
  BY <1>1, FS_Subset
<1>3. Cardinality(A) \in Nat
  BY <1>2, FS_CardinalityType
<1> QED BY <1>1, <1>2, <1>3
LEMMA CountAgain ==
    ASSUME NEW n \in Nat, NEW A \in SUBSET (1 .. n), NEW B \in SUBSET (1 .. n + 1),
           \A i \in 1 .. n : i \in B <=> i \in A
    PROVE  /\ Cardinality(B) = Cardinality(A) + (IF n + 1 \in B THEN 1 ELSE 0)
           /\ Cardinality(A) \in Nat
<1> DEFINE C == {i \in 1 .. 1 : n + i \in B}
<1>1. C \in SUBSET (1 .. 1) /\ \A i \in 1 .. 1 : n + i \in B <=> i \in C
  OBVIOUS
<1>2. 1 \in C <=> n + 1 \in B
  OBVIOUS
<1> HIDE DEF C
<1>3. Cardinality(B) = Cardinality(A) + Cardinality(C) /\ Cardinality(A) \in Nat
  <2>1. PICK m \in Nat : m = 1
    OBVIOUS
  <2>2. /\ C \in SUBSET (1 .. m) /\ B \in SUBSET (1 .. n + m)
        /\ \A i \in 1 .. n : i \in B <=> i \in A
        /\ \A i \in 1 .. m : n + i \in B <=> i \in C
    BY <1>1, <2>1
  <2>3. Abut(n, A, m, C, B)
    BY <2>2 DEF Abut
  <2> QED BY <2>3, CountJoined
<1>4. Cardinality(C) = IF 1 \in C THEN 1 ELSE 0
  BY <1>1, CountOne
<1> QED BY <1>2, <1>3, <1>4
LEMMA CountFirst ==
    ASSUME NEW n \in Nat, NEW A \in SUBSET (1 .. n), NEW B \in SUBSET (1 .. n + 1),
           \A i \in 1 .. n : i + 1 \in B <=> i \in A
    PROVE  /\ Cardinality(B) = Cardinality(A) + (IF 1 \in B THEN 1 ELSE 0)
           /\ Cardinality(A) \in Nat
<1> DEFINE C == {i \in 1 .. 1 : i \in B}
<1>1. C \in SUBSET (1 .. 1) /\ \A i \in 1 .. 1 : i \in B <=> i \in C
  OBVIOUS
<1>2. 1 \in C <=> 1 \in B
  OBVIOUS
<1> HIDE DEF C
<1>3. B \in SUBSET (1 .. 1 + n) /\ \A i \in 1 .. n : 1 + i \in B <=> i \in A
  <2>1. 1 + n = n + 1 /\ \A i \in 1 .. n : 1 + i = i + 1
    OBVIOUS
  <2> QED BY <2>1
<1>4. Cardinality(B) = Cardinality(C) + Cardinality(A) /\ Cardinality(A) \in Nat
  <2>1. PICK m \in Nat : m = 1
    OBVIOUS
  <2>2. /\ C \in SUBSET (1 .. m) /\ B \in SUBSET (1 .. m + n)
        /\ \A i \in 1 .. m : i \in B <=> i \in C
        /\ \A i \in 1 .. n : m + i \in B <=> i \in A
    BY <1>1, <1>3, <2>1
  <2>3. Abut(m, C, n, A, B)
    BY <2>2 DEF Abut
  <2> QED BY <2>3, CountJoined
<1>5. Cardinality(C) = IF 1 \in C THEN 1 ELSE 0
  BY <1>1, CountOne
<1> QED BY <1>2, <1>4, <1>5

\* A step moves what was given and what waits, of the packets in S, by what it
\* completes of them, but for what is lost.
Accounts(x, S) ==
    \E c, lost \in Nat :
        /\ Cardinality(Given(x, S)') + Cardinality(Kept(x, S)') + lost
              = Cardinality(Given(x, S)) + Cardinality(Kept(x, S)) + c
        /\ Cardinality(Ended(x, S)') = Cardinality(Ended(x, S)) + c
        /\ S = Payload => dropped'[x] = dropped[x] + lost
One(b) == IF b THEN 1 ELSE 0
LEMMA CountsAre ==
    ASSUME GateTypes, RingRead, Once, NEW x \in Fd, NEW S
    PROVE  /\ Len(got[x]) \in Nat /\ Held(ring) \in Nat /\ Full(x) \in Nat
           /\ Cardinality(Given(x, S)) \in Nat /\ Cardinality(Kept(x, S)) \in Nat
           /\ Cardinality(Ended(x, S)) \in Nat
<1>1. Len(got[x]) \in Nat
  BY LenProperties DEF GateTypes
<1>2. Held(ring) \in Nat
  BY DEF RingRead, Ring, Held
<1>3. Full(x) \in Nat
  <2>1. Len(Frames[x]) \in Nat /\ Full(x) \in 0 .. Len(Frames[x])
    BY GateAssumption, LenProperties DEF Once
  <2> QED BY <2>1
<1>4. Cardinality(Given(x, S)) \in Nat
  <2>1. Given(x, S) \in SUBSET (1 .. Len(got[x]))
    BY DEF Given
  <2> QED BY <1>1, <2>1, CountNat
<1>5. Cardinality(Kept(x, S)) \in Nat
  <2>1. Kept(x, S) \in SUBSET (1 .. Held(ring))
    BY DEF Kept
  <2> QED BY <1>2, <2>1, CountNat
<1>6. Cardinality(Ended(x, S)) \in Nat
  <2>1. Ended(x, S) \in SUBSET (1 .. Full(x))
    BY DEF Ended
  <2> QED BY <1>3, <2>1, CountNat
<1> QED BY <1>1, <1>2, <1>3, <1>4, <1>5, <1>6

\* A message is given, or lost.
LEMMA DispatchCounts ==
    ASSUME GateTypes, RingRead, Once, NEW fd \in Fd, NEW data \in Payload, Dispatches(fd, data),
           NEW x \in Fd, NEW S
    PROVE  /\ dropped' \in [Fd -> Nat]
           /\ \E lost \in Nat :
                /\ Cardinality(Given(x, S)') + lost
                      = Cardinality(Given(x, S)) + One(x = fd /\ data \in S)
                /\ S = Payload => dropped'[x] = dropped[x] + lost
<1>1. got \in [Fd -> Seq(Payload)] /\ dropped \in [Fd -> Nat] /\ Len(got[x]) \in Nat
      /\ Cardinality(Given(x, S)) \in Nat
  BY CountsAre DEF GateTypes, Once
<1>2. CASE got' = [got EXCEPT ![fd] = Append(@, data)] /\ dropped' = dropped
  <2>1. Cardinality(Given(x, S)') = Cardinality(Given(x, S)) + One(x = fd /\ data \in S)
    <3>1. CASE x = fd
      <4>1. PICK s \in Seq(Payload) : s = got[x]
        BY <1>1
      <4>2. /\ Append(s, data) \in Seq(Payload) /\ Len(Append(s, data)) = Len(s) + 1
            /\ \A i \in 1 .. Len(s) : Append(s, data)[i] = s[i]
            /\ Append(s, data)[Len(s) + 1] = data
        BY AppendProperties
      <4>3. got'[x] = Append(s, data)
        BY <1>1, <1>2, <3>1, <4>1
      <4> DEFINE A == Given(x, S)
                 B == Given(x, S)'
                 n == Len(s)
      <4>4. n \in Nat /\ A \in SUBSET (1 .. n)
        BY <1>1, <4>1 DEF Given
      <4>5. B \in SUBSET (1 .. n + 1)
        BY <4>2, <4>3 DEF Given
      <4>6. \A i \in 1 .. n : i \in B <=> i \in A
        <5>1. \A i \in 1 .. n : i \in 1 .. n + 1
          BY <4>4
        <5> QED BY <4>1, <4>2, <4>3, <5>1 DEF Given
      <4>7. n + 1 \in B <=> data \in S
        <5>1. n + 1 \in 1 .. n + 1
          BY <4>4
        <5> QED BY <4>2, <4>3, <5>1 DEF Given
      <4> HIDE DEF A, B, n
      <4>8. Cardinality(B) = Cardinality(A) + (IF n + 1 \in B THEN 1 ELSE 0)
        BY ONLY <4>4, <4>5, <4>6, CountAgain
      <4>9. Cardinality(B) = Cardinality(A) + One(x = fd /\ data \in S)
        BY <3>1, <4>7, <4>8 DEF One
      <4> QED BY <4>9 DEF A, B
    <3>2. CASE x # fd
      <4>1. got'[x] = got[x]
        BY <1>1, <1>2, <3>2
      <4>2. Given(x, S)' = Given(x, S)
        BY <4>1 DEF Given
      <4> QED BY <1>1, <3>2, <4>2 DEF One
    <3> QED BY <3>1, <3>2
  <2>2. Cardinality(Given(x, S)') + 0 = Cardinality(Given(x, S)) + One(x = fd /\ data \in S)
    BY <1>1, <2>1 DEF One
  <2>3. dropped'[x] = dropped[x] + 0
    BY <1>1, <1>2
  <2> QED BY <1>1, <1>2, <2>2, <2>3
<1>3. CASE dropped' = [dropped EXCEPT ![fd] = @ + 1] /\ got' = got
  <2>1. dropped' \in [Fd -> Nat]
    BY <1>1, <1>3
  <2>2. Given(x, S)' = Given(x, S)
    BY <1>3 DEF Given
  <2>3. PICK lost \in Nat : lost = One(x = fd /\ data \in S)
    BY DEF One
  <2>4. S = Payload => dropped'[x] = dropped[x] + lost
    BY <1>1, <1>3, <2>3 DEF One
  <2> QED BY <2>1, <2>2, <2>3, <2>4
<1> QED BY <1>2, <1>3 DEF Dispatches, DispatchMsg

\* A packet of the ring is given, or lost.
LEMMA PopAccounts ==
    ASSUME GateInv, Once, PopPacket, NEW x \in Fd, NEW S
    PROVE  Accounts(x, S) /\ dropped' \in [Fd -> Nat]
<1>1. /\ GateTypes /\ RingRead /\ ~Empty(ring) /\ ring' = Pop(ring) /\ received' = received
      /\ Dispatches(Top(ring).fd, Top(ring).data)
  BY DEF GateInv, PopPacket
<1>2. /\ Top(ring) = Content(ring)[1] /\ Held(ring) \in Nat /\ 1 \in 1 .. Held(ring)
      /\ Top(ring).fd \in Fd /\ Top(ring).data \in Payload
      /\ Held(ring') = Held(ring) - 1
      /\ \A i \in 1 .. Held(ring) - 1 :
            i + 1 \in 1 .. Held(ring) /\ Content(ring')[i] = Content(ring)[i + 1]
  BY <1>1, PacketTaken
<1>3. PICK fd \in Fd, data \in Payload : fd = Top(ring).fd /\ data = Top(ring).data
  BY <1>2
<1>4. PICK b \in BOOLEAN : b = (x = fd /\ data \in S)
  OBVIOUS
<1>5. dropped' \in [Fd -> Nat] /\ \E lost \in Nat :
         /\ Cardinality(Given(x, S)') + lost = Cardinality(Given(x, S)) + One(b)
         /\ S = Payload => dropped'[x] = dropped[x] + lost
  BY <1>1, <1>3, <1>4, DispatchCounts
<1>6. Cardinality(Kept(x, S)) = Cardinality(Kept(x, S)') + One(b) /\ Cardinality(Kept(x, S)') \in Nat
  <2> DEFINE A == Kept(x, S)'
             B == Kept(x, S)
             n == Held(ring')
  <2>1. n \in Nat /\ n + 1 = Held(ring)
    BY <1>2
  <2>2. A \in SUBSET (1 .. n) /\ B \in SUBSET (1 .. n + 1)
    BY <2>1 DEF Kept
  <2>3. \A i \in 1 .. n : i + 1 \in B <=> i \in A
    BY <1>2, <2>1 DEF Kept
  <2>4. 1 \in B <=> b
    BY <1>2, <1>3, <1>4 DEF Kept
  <2> HIDE DEF A, B, n
  <2>5. Cardinality(B) = Cardinality(A) + (IF 1 \in B THEN 1 ELSE 0) /\ Cardinality(A) \in Nat
    BY ONLY <2>1, <2>2, <2>3, CountFirst
  <2>6. Cardinality(B) = Cardinality(A) + One(b) /\ Cardinality(A) \in Nat
    BY <2>4, <2>5 DEF One
  <2> QED BY <2>6 DEF A, B
<1>7. Ended(x, S)' = Ended(x, S)
  BY <1>1 DEF Ended, Full
<1>8. /\ Cardinality(Given(x, S)) \in Nat /\ Cardinality(Kept(x, S)) \in Nat
      /\ Cardinality(Ended(x, S)) \in Nat
  BY <1>1, CountsAre
<1>9. PICK lost \in Nat :
         /\ Cardinality(Given(x, S)') + lost = Cardinality(Given(x, S)) + One(b)
         /\ S = Payload => dropped'[x] = dropped[x] + lost
  BY <1>5
<1>10. Cardinality(Given(x, S)') \in Nat
  <2>1. Len(got'[x]) \in Nat
    BY <1>1, <1>3, Dispatched, LenProperties
  <2>2. Given(x, S)' \in SUBSET (1 .. Len(got'[x]))
    BY DEF Given
  <2> QED BY <2>1, <2>2, CountNat
<1>11. /\ Cardinality(Given(x, S)') + Cardinality(Kept(x, S)') + lost
             = Cardinality(Given(x, S)) + Cardinality(Kept(x, S)) + 0
       /\ Cardinality(Ended(x, S)') = Cardinality(Ended(x, S)) + 0
  BY <1>6, <1>7, <1>8, <1>9, <1>10 DEF One
<1> QED BY <1>5, <1>9, <1>11 DEF Accounts

\* A delivery completes frames, which are given, lost or put in the ring.
LEMMA DataAccounts ==
    ASSUME GateInv, Once, OnData, NEW x \in Fd, NEW S
    PROVE  /\ Accounts(x, S) /\ dropped' \in [Fd -> Nat]
           /\ Completed(Frames[x], received'[x]) \in 0 .. Len(Frames[x])
<1>1. GateTypes /\ RingRead
  BY DEF GateInv
<1>2. PICK fd \in Fd : \E k \in 0 .. Len(Frames[fd]) : \E m \in k .. Len(Frames[fd]) :
          /\ fd = Event.fd
          /\ Completed(Frames[fd], received[fd]) = k
          /\ Completed(Frames[fd], received'[fd]) = m
          /\ DataIs.frames = Piece(Frames[fd], k, m)
          /\ DataIs.alone => Len(DataIs.frames) = 1
          /\ \A y \in Fd : y # fd => received'[y] = received[y]
  BY DataSteps
<1> DEFINE s == Frames[fd]
           f == DataIs.frames
<1>3. s \in Seq(Packable) /\ Len(s) \in Nat
  BY GateAssumption, LenProperties
<1>4. PICK k \in 0 .. Len(s) : \E m \in k .. Len(s) :
          /\ Completed(s, received[fd]) = k /\ Completed(s, received'[fd]) = m
          /\ f = Piece(s, k, m) /\ (DataIs.alone => Len(f) = 1)
  BY <1>2
<1>5. PICK m \in k .. Len(s) :
          /\ Completed(s, received[fd]) = k /\ Completed(s, received'[fd]) = m
          /\ f = Piece(s, k, m) /\ (DataIs.alone => Len(f) = 1)
  BY <1>4
<1>6. PICK h \in Nat : h = m - k /\ k + h = m /\ k \in Nat /\ m \in Nat /\ m \in 0 .. Len(s)
  BY <1>3
<1>7. f \in Seq(Packable) /\ Len(f) = h /\ \A i \in 1 .. h : f[i] = s[k + i]
  <2> HIDE DEF s, f
  <2>1. k \in 0 .. m
    BY <1>6
  <2> DEFINE g == Piece(s, k, m)
  <2>2. g \in Seq(Packable) /\ Len(g) = m - k /\ \A i \in 1 .. m - k : g[i] = s[k + i]
    BY <1>3, <1>6, <2>1, PieceIs
  <2>3. f = g
    BY <1>5
  <2> HIDE DEF g
  <2> QED BY <1>6, <2>2, <2>3
<1>8. \/ DataIs.alone /\ Dispatches(fd, f[1]) /\ ring' = ring
      \/ ring' = PushAll(ring, fd, f) /\ got' = got /\ dropped' = dropped
  BY <1>2 DEF OnData, DataIs, f
<1>9. \A y \in Fd : y # fd => received'[y] = received[y]
  BY <1>2
<1>10. Full(fd) = k /\ Full(fd)' = m
  BY <1>5 DEF Full, s
<1>11. Completed(Frames[x], received'[x]) \in 0 .. Len(Frames[x])
  BY <1>5, <1>6, <1>9 DEF Once, Full, s
<1> DEFINE C == {i \in 1 .. h : x = fd /\ s[k + i] \in S}
<1>12. C \in SUBSET (1 .. h) /\ Cardinality(C) \in Nat
  <2>1. C \in SUBSET (1 .. h)
    OBVIOUS
  <2> HIDE DEF C
  <2> QED BY <1>6, <2>1, CountNat
<1>13. /\ Cardinality(Given(x, S)) \in Nat /\ Cardinality(Kept(x, S)) \in Nat
       /\ Cardinality(Ended(x, S)) \in Nat /\ Held(ring) \in Nat /\ Len(got[x]) \in Nat
  BY <1>1, CountsAre
<1>14. Cardinality(Ended(x, S)') = Cardinality(Ended(x, S)) + Cardinality(C)
  <2>1. CASE x = fd
    <3> DEFINE A == Ended(x, S)
               B == Ended(x, S)'
    <3>1. A \subseteq 1 .. k /\ B \subseteq 1 .. k + h
      BY <1>6, <1>10, <2>1 DEF Ended
    <3>2. \A i \in 1 .. k : i \in B <=> i \in A
      <4>1. \A i \in 1 .. k : i \in 1 .. m
        BY <1>6
      <4> QED BY <1>10, <2>1, <4>1 DEF Ended
    <3>3. \A i \in 1 .. h : k + i \in B <=> i \in C
      <4>1. \A i \in 1 .. h : k + i \in 1 .. m
        BY <1>6
      <4> QED BY <1>10, <2>1, <4>1 DEF Ended
    <3> HIDE DEF A, B, C
    <3>4. Abut(k, A, h, C, B)
      BY <1>6, <1>12, <3>1, <3>2, <3>3 DEF Abut
    <3>5. Cardinality(B) = Cardinality(A) + Cardinality(C)
      BY <3>4, CountJoined
    <3> QED BY <3>5 DEF A, B
  <2>2. CASE x # fd
    <3>1. C = {} /\ Cardinality({}) = 0
      BY <2>2, FS_EmptySet
    <3>2. Ended(x, S)' = Ended(x, S)
      BY <1>9, <2>2 DEF Ended, Full
    <3> HIDE DEF C
    <3> QED BY <1>13, <3>1, <3>2
  <2> QED BY <2>1, <2>2
<1>15. CASE DataIs.alone /\ Dispatches(fd, f[1]) /\ ring' = ring
  <2>1. h = 1 /\ 1 \in 1 .. h
    BY <1>5, <1>7, <1>15
  <2>2. PICK data \in Payload : data = f[1] /\ data = s[k + 1]
    <3>1. f[1] = s[k + 1]
      BY <1>7, <2>1
    <3>2. f[1] \in Packable
      BY <1>7, <2>1, LenProperties
    <3> QED BY <3>1, <3>2 DEF Packable
  <2>3. Cardinality(C) = One(x = fd /\ data \in S)
    <3>1. 1 \in C <=> x = fd /\ data \in S
      BY <2>1, <2>2
    <3> HIDE DEF C
    <3>2. C \in SUBSET (1 .. 1)
      BY <1>12, <2>1
    <3> QED BY <3>1, <3>2, CountOne DEF One
  <2>4. /\ dropped' \in [Fd -> Nat]
        /\ \E lost \in Nat :
              /\ Cardinality(Given(x, S)') + lost
                    = Cardinality(Given(x, S)) + One(x = fd /\ data \in S)
              /\ S = Payload => dropped'[x] = dropped[x] + lost
    <3>1. Dispatches(fd, data)
      BY <1>15, <2>2
    <3> QED BY <1>1, <3>1, DispatchCounts
  <2>5. PICK lost \in Nat :
              /\ Cardinality(Given(x, S)') + lost
                    = Cardinality(Given(x, S)) + One(x = fd /\ data \in S)
              /\ S = Payload => dropped'[x] = dropped[x] + lost
    BY <2>4
  <2>6. Kept(x, S)' = Kept(x, S)
    BY <1>15 DEF Kept
  <2>7. Cardinality(Given(x, S)') \in Nat
    <3>1. Len(got'[x]) \in Nat
      BY <1>1, <1>15, <2>2, Dispatched, LenProperties
    <3>2. Given(x, S)' \in SUBSET (1 .. Len(got'[x]))
      BY DEF Given
    <3> QED BY <3>1, <3>2, CountNat
  <2> HIDE DEF C
  <2>8. Cardinality(Given(x, S)') + Cardinality(Kept(x, S)') + lost
            = Cardinality(Given(x, S)) + Cardinality(Kept(x, S)) + Cardinality(C)
    <3>1. PICK g \in Nat, o \in Nat, e \in Nat, p \in Nat :
            /\ g = Cardinality(Given(x, S)') /\ o = Cardinality(Kept(x, S))
            /\ e = Cardinality(C) /\ p = Cardinality(Given(x, S))
      BY <1>12, <1>13, <2>7
    <3>2. g + lost = p + e
      BY <2>3, <2>5, <3>1
    <3>3. Cardinality(Kept(x, S)') = o
      BY <2>6, <3>1
    <3>4. g + o + lost = p + o + e
      BY ONLY <3>2, g \in Nat, o \in Nat, e \in Nat, p \in Nat, lost \in Nat
    <3> QED BY <3>1, <3>3, <3>4
  <2> QED BY <1>11, <1>12, <1>14, <2>4, <2>5, <2>8 DEF Accounts
<1>16. CASE ring' = PushAll(ring, fd, f) /\ got' = got /\ dropped' = dropped
  <2>1. /\ Held(ring') = Held(ring) + h
        /\ \A i \in 1 .. Held(ring) : Content(ring')[i] = Content(ring)[i]
        /\ \A i \in 1 .. h : Content(ring')[Held(ring) + i] = [fd |-> fd, data |-> f[i]]
    <3>1. Ring(ring)
      BY <1>1 DEF RingRead
    <3> QED BY <1>7, <1>16, <3>1, PushAllAppends
  <2>2. \A i \in 1 .. h : /\ Content(ring')[Held(ring) + i].fd = fd
                          /\ Content(ring')[Held(ring) + i].data = s[k + i]
    <3> SUFFICES ASSUME NEW i \in 1 .. h
                 PROVE  /\ Content(ring')[Held(ring) + i].fd = fd
                        /\ Content(ring')[Held(ring) + i].data = s[k + i]
      OBVIOUS
    <3> DEFINE c == Content(ring')[Held(ring) + i]
               v == s[k + i]
    <3>1. c = [fd |-> fd, data |-> v]
      BY <1>7, <2>1
    <3> HIDE DEF c, v
    <3>2. c.fd = fd /\ c.data = v
      BY <3>1
    <3> QED BY <3>2 DEF c, v
  <2>3. Cardinality(Kept(x, S)') = Cardinality(Kept(x, S)) + Cardinality(C)
    <3> DEFINE A == Kept(x, S)
               B == Kept(x, S)'
               n == Held(ring)
    <3>1. n \in Nat /\ A \subseteq 1 .. n /\ B \subseteq 1 .. n + h
      BY <1>13, <2>1 DEF Kept
    <3>2. \A i \in 1 .. n : i \in B <=> i \in A
      <4>1. \A i \in 1 .. n : i \in 1 .. n + h
        BY <3>1
      <4> QED BY <2>1, <4>1 DEF Kept
    <3>3. \A i \in 1 .. h : n + i \in B <=> i \in C
      <4>1. \A i \in 1 .. h : n + i \in 1 .. n + h
        BY <3>1
      <4> QED BY <2>1, <2>2, <4>1 DEF Kept
    <3> HIDE DEF A, B, C, n
    <3>4. Abut(n, A, h, C, B)
      BY <1>6, <1>12, <3>1, <3>2, <3>3 DEF Abut
    <3>5. Cardinality(B) = Cardinality(A) + Cardinality(C)
      BY <3>4, CountJoined
    <3> QED BY <3>5 DEF A, B
  <2>4. Given(x, S)' = Given(x, S)
    BY <1>16 DEF Given
  <2> HIDE DEF C
  <2>5. Cardinality(Given(x, S)') + Cardinality(Kept(x, S)') + 0
            = Cardinality(Given(x, S)) + Cardinality(Kept(x, S)) + Cardinality(C)
    BY <1>12, <1>13, <2>3, <2>4
  <2>6. dropped' \in [Fd -> Nat] /\ dropped'[x] = dropped[x] + 0
    BY <1>16 DEF Once
  <2> QED BY <1>11, <1>12, <1>14, <2>5, <2>6 DEF Accounts
<1> QED BY <1>8, <1>15, <1>16

\* The other steps give, lose and complete nothing.
LEMMA OnceKept ==
    ASSUME GateInv, Once, [Next]_vars, GateInv'
    PROVE  Once'
<1>1. CASE OnData \/ PopPacket
  <2>1. ASSUME NEW x \in Fd, NEW S
        PROVE  /\ Accounts(x, S) /\ dropped' \in [Fd -> Nat]
               /\ Completed(Frames[x], received'[x]) \in 0 .. Len(Frames[x])
    <3>1. CASE OnData
      BY <3>1, DataAccounts
    <3>2. CASE PopPacket
      <4>1. received' = received
        BY <3>2 DEF PopPacket
      <4> QED BY <3>2, <4>1, PopAccounts DEF Once, Full
    <3> QED BY <1>1, <3>1, <3>2
  <2>2. dropped' \in [Fd -> Nat]
    <3>1. Fd # {}
      BY <1>1, DataSteps, PacketTaken DEF GateInv, PopPacket
    <3> QED BY <2>1, <3>1
  <2>3. ASSUME NEW x \in Fd, NEW S, NEW a \in Nat, NEW b \in Nat, Counted(x, S, a),
               \A lost \in Nat :
                   (S = Payload => dropped'[x] = dropped[x] + lost) => b <= a + lost
        PROVE  Counted(x, S, b)'
    <3>1. PICK c \in Nat, lost \in Nat :
        /\ Cardinality(Given(x, S)') + Cardinality(Kept(x, S)') + lost
              = Cardinality(Given(x, S)) + Cardinality(Kept(x, S)) + c
        /\ Cardinality(Ended(x, S)') = Cardinality(Ended(x, S)) + c
        /\ S = Payload => dropped'[x] = dropped[x] + lost
      BY <2>1 DEF Accounts
    <3>2. /\ Cardinality(Given(x, S)) \in Nat /\ Cardinality(Kept(x, S)) \in Nat
          /\ Cardinality(Ended(x, S)) \in Nat
      BY CountsAre DEF GateInv
    <3>3. Cardinality(Given(x, S)') \in Nat /\ Cardinality(Kept(x, S)') \in Nat
      <4>1. Len(got'[x]) \in Nat /\ Held(ring') \in Nat
        <5>1. GateTypes' /\ RingRead'
          BY DEF GateInv
        <5>2. got'[x] \in Seq(Payload)
          BY <5>1 DEF GateTypes
        <5>3. Held(ring') \in Nat
          BY <5>1 DEF RingRead, Ring, Held
        <5> QED BY <5>2, <5>3, LenProperties
      <4>2. Given(x, S)' \in SUBSET (1 .. Len(got'[x])) /\ Kept(x, S)' \in SUBSET (1 .. Held(ring'))
        BY DEF Given, Kept
      <4> QED BY <4>1, <4>2, CountNat
    <3>4. b <= a + lost
      BY <2>3, <3>1
    <3>5. Cardinality(Given(x, S)) + Cardinality(Kept(x, S)) + a <= Cardinality(Ended(x, S))
      BY <2>3 DEF Counted
    <3>6. Cardinality(Given(x, S)') + Cardinality(Kept(x, S)') + b <= Cardinality(Ended(x, S)')
      BY <3>1, <3>2, <3>3, <3>4, <3>5
    <3> QED BY <3>6 DEF Counted
  <2>4. ASSUME NEW x \in Fd PROVE Counted(x, Payload, dropped[x])'
    <3>1. PICK a \in Nat, b \in Nat : a = dropped[x] /\ b = dropped'[x]
      BY <2>2 DEF Once
    <3>2. Counted(x, Payload, a)
      BY <3>1 DEF Once
    <3>3. \A lost \in Nat : (Payload = Payload => dropped'[x] = dropped[x] + lost) => b <= a + lost
      BY <3>1
    <3>4. Counted(x, Payload, b)'
      BY <2>3, <3>2, <3>3
    <3> QED BY <3>1, <3>4 DEF Counted
  <2>5. ASSUME NEW x \in Fd, NEW f \in Payload PROVE Counted(x, {f}, 0)'
    <3>1. PICK z \in Nat : z = 0
      OBVIOUS
    <3>2. Counted(x, {f}, z) /\ \A lost \in Nat : z <= z + lost
      BY <3>1 DEF Once
    <3>3. Counted(x, {f}, z)'
      BY <2>3, <3>2
    <3> QED BY <3>1, <3>3
  <2> QED BY <2>1, <2>2, <2>4, <2>5 DEF Once, Full
<1>2. CASE UNCHANGED <<got, dropped, ring, received>>
  BY <1>2 DEF Once, Counted, Given, Kept, Ended, Full
<1>3. EndMore \/ OnOpen \/ OnClose \/ OnListenClose \/ OnError \/ Owner \/ Sockets \/ UNCHANGED vars
          => UNCHANGED <<got, dropped, ring, received>>
  BY DEF EndMore, OnOpen, OnClose, OnListenClose, OnError, Owner, OpenGate, CloseGate, OpenClient,
         Kick, Sockets, ListenClosed, Accept, Deliver, SocketClosed, SocketError, Quiescent, vars,
         gateVars, handlerVars
<1> QED BY <1>1, <1>2, <1>3 DEF Next, Gateserver
LEMMA OnceInit ==
    ASSUME Init
    PROVE  Once
<1>1. /\ dropped = [fd \in Fd |-> 0] /\ got = [fd \in Fd |-> <<>>] /\ Held(ring) = 0
      /\ received = [fd \in Fd |-> 0]
  BY NewRing, NetPackAssumption DEF Init
<1>2. Cardinality({}) = 0 /\ 0 + 0 + 0 <= 0 /\ 1 .. 0 = {}
  BY FS_EmptySet
<1>3. ASSUME NEW x \in Fd PROVE Full(x) = 0 /\ Full(x) \in 0 .. Len(Frames[x])
  <2>1. Frames[x] \in Seq(Packable) /\ Len(Frames[x]) \in Nat
    BY GateAssumption, LenProperties
  <2> QED BY <1>1, <2>1, NoneCompleted DEF Full
<1>4. ASSUME NEW x \in Fd, NEW S PROVE Counted(x, S, 0)
  <2>1. Given(x, S) = {} /\ Kept(x, S) = {} /\ Ended(x, S) = {}
    BY <1>1, <1>2, <1>3, EmptySeq DEF Given, Kept, Ended
  <2> QED BY <1>2, <2>1 DEF Counted
<1> QED BY <1>1, <1>3, <1>4 DEF Once
LEMMA OnceInvariant == Spec => [](GateInv /\ Once)
<1>1. Init => GateInv /\ Once
  BY GateInit, OnceInit
<1>2. GateInv /\ Once /\ [Next]_vars => GateInv' /\ Once'
  BY GateStep, OnceKept
<1> QED BY <1>1, <1>2, PTL DEF Spec

\* dispatchMsg and the ring: whatever handlers throw, clients are closed and
\* packets stay in the ring meanwhile, a message given to the handler is one of
\* its client's frames, and no frame is given or dropped twice.
THEOREM NoneInvented == Spec => []NothingInvented
<1>1. ASSUME GateInv, Once, NEW fd \in Fd
      PROVE  /\ \A f \in Range(got[fd]) : f \in Range(Frames[fd])
             /\ Len(got[fd]) + dropped[fd] <= Completed(Frames[fd], received[fd])
             /\ \A f \in Range(got[fd]) :
                   Cardinality({i \in DOMAIN got[fd] : got[fd][i] = f})
                     <= Cardinality({i \in DOMAIN Frames[fd] : Frames[fd][i] = f})
  <2>1. /\ got[fd] \in Seq(Payload) /\ Len(got[fd]) \in Nat /\ DOMAIN got[fd] = 1 .. Len(got[fd])
        /\ \A i \in 1 .. Len(got[fd]) : got[fd][i] \in Payload
    BY <1>1, LenProperties DEF GateInv, GateTypes
  <2>2. /\ Frames[fd] \in Seq(Packable) /\ Len(Frames[fd]) \in Nat
        /\ DOMAIN Frames[fd] = 1 .. Len(Frames[fd])
        /\ \A i \in 1 .. Len(Frames[fd]) : Frames[fd][i] \in Payload
    BY GateAssumption, LenProperties DEF Packable
  <2>3. /\ Full(fd) \in 0 .. Len(Frames[fd]) /\ Full(fd) \in Nat
        /\ \A i \in 1 .. Full(fd) : i \in 1 .. Len(Frames[fd])
    BY <1>1, <2>2 DEF Once
  <2>4. \A S : /\ Cardinality(Given(fd, S)) \in Nat /\ Cardinality(Kept(fd, S)) \in Nat
               /\ Cardinality(Ended(fd, S)) \in Nat
    BY <1>1, CountsAre DEF GateInv
  <2>5. Len(got[fd]) + dropped[fd] <= Full(fd)
    <3>1. Given(fd, Payload) = 1 .. Len(got[fd]) /\ Ended(fd, Payload) = 1 .. Full(fd)
      BY <2>1, <2>2, <2>3 DEF Given, Ended
    <3>2. \A n \in Nat : Cardinality(1 .. n) = n
      <4> SUFFICES ASSUME NEW n \in Nat PROVE Cardinality(1 .. n) = n
        OBVIOUS
      <4>1. 1 \in Int /\ n \in Int /\ n - 1 + 1 = n /\ (1 > n => n = 0)
        OBVIOUS
      <4>2. Cardinality(1 .. n) = IF 1 > n THEN 0 ELSE n - 1 + 1
        BY <4>1, FS_Interval
      <4> QED BY <4>1, <4>2
    <3>3. Counted(fd, Payload, dropped[fd]) /\ dropped[fd] \in Nat
      BY <1>1 DEF Once
    <3>4. /\ Cardinality(Given(fd, Payload)) = Len(got[fd])
          /\ Cardinality(Ended(fd, Payload)) = Full(fd)
      BY <2>1, <2>3, <3>1, <3>2
    <3>5. Len(got[fd]) + Cardinality(Kept(fd, Payload)) + dropped[fd] <= Full(fd)
      BY <3>3, <3>4 DEF Counted
    <3> QED BY <2>1, <2>3, <2>4, <3>3, <3>5
  <2>6. ASSUME NEW f \in Range(got[fd])
        PROVE  /\ f \in Range(Frames[fd])
               /\ Cardinality({i \in DOMAIN got[fd] : got[fd][i] = f})
                    <= Cardinality({i \in DOMAIN Frames[fd] : Frames[fd][i] = f})
    <3> DEFINE A == Given(fd, {f})
               B == Ended(fd, {f})
               E == {i \in 1 .. Len(Frames[fd]) : Frames[fd][i] = f}
    <3>1. PICK i \in 1 .. Len(got[fd]) : got[fd][i] = f
      BY <2>1, <2>6 DEF Range
    <3>2. f \in Payload /\ i \in A
      BY <2>1, <3>1 DEF Given
    <3>3. A = {j \in DOMAIN got[fd] : got[fd][j] = f}
      BY <2>1 DEF Given
    <3>4. E = {j \in DOMAIN Frames[fd] : Frames[fd][j] = f}
      BY <2>2
    <3>5. A \in SUBSET (1 .. Len(got[fd])) /\ B \in SUBSET E /\ E \in SUBSET (1 .. Len(Frames[fd]))
      BY <2>3 DEF Given, Ended
    <3>6. Counted(fd, {f}, 0)
      BY <1>1, <3>2 DEF Once
    <3>7. Cardinality(A) + Cardinality(Kept(fd, {f})) + 0 <= Cardinality(B)
      BY <3>6 DEF Counted
    <3>8. Cardinality(A) \in Nat /\ Cardinality(Kept(fd, {f})) \in Nat /\ Cardinality(B) \in Nat
      BY <2>4
    <3> HIDE DEF A, B, E
    <3>9. IsFiniteSet(A) /\ IsFiniteSet(E) /\ Cardinality(E) \in Nat
      BY <2>1, <2>2, <3>5, CountNat
    <3>10. Cardinality(B) <= Cardinality(E)
      BY <3>5, <3>9, FS_Subset
    <3>11. Cardinality(A) # 0
      BY <3>2, <3>9, FS_EmptySet
    <3>12. Cardinality(A) <= Cardinality(E) /\ Cardinality(B) # 0
      BY <3>7, <3>8, <3>9, <3>10, <3>11
    <3>13. B # {}
      BY <3>12, FS_EmptySet
    <3>14. PICK j \in E : j \in B
      BY <3>5, <3>13
    <3>15. f \in Range(Frames[fd])
      BY <3>4, <3>14 DEF Range
    <3> QED BY <3>3, <3>4, <3>12, <3>15
  <2> QED BY <2>5, <2>6 DEF Full
<1>2. GateInv /\ Once => NothingInvented
  BY <1>1 DEF NothingInvented
<1> QED BY <1>2, OnceInvariant, PTL
=============================================================================

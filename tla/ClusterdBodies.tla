---------------------------- MODULE ClusterdBodies ----------------------------
(***************************************************************************)
(* What becomes of a request between the caller's daemon and the service:  *)
(* its body arrives whole, once and in the order of its connection, for    *)
(* every number of daemons, calls, sockets, faults and crashes.  On the    *)
(* way the frames of a request stand in the queue of a node, then in an    *)
(* inbox, where a reassembly takes them up.                                *)
(***************************************************************************)
EXTENDS ClusterdProofs, FiniteSetTheorems

(* Queues wait for their link.                                             *)

OwnLink ==
    \A d, e \in Daemon : \A n, m \in Node :
        node[d][n].sock # NoSock /\ node[d][n].sock = node[e][m].sock => d = e /\ n = m
Waits(d, n) ==
    node[d][n].queue # <<>> => node[d][n].sock # NoSock /\ ~ReadyConn(d, node[d][n].sock)
QueuesWait == \A d \in Daemon, n \in Node : Waits(d, n)
QueueInv == OwnLink /\ QueuesWait

(* Whole bodies.  A chunk follows its header or the chunk before it.       *)

Chunked == {"PART", "PART_END"}
FrameOK(f) ==
    /\ f.type = "SMALL" => \E x \in Call : f.body = Body(x)
    /\ f.type \in Chunked =>
          /\ f.session # 0
          /\ \E x \in Call : \E j \in 1 .. Len(Body(x)) :
                f.body = <<<<x, j>>>> /\ (f.type = "PART_END" <=> j = Len(Body(x)))
Follows(p, f) ==
    f.type \in Chunked =>
        \/ p.type = "LARGE" /\ p.session \in {0, f.session} /\ f.body[1][2] = 1
        \/ /\ p.type = "PART" /\ p.session = f.session
           /\ p.body[1][1] = f.body[1][1] /\ f.body[1][2] = p.body[1][2] + 1
Whole(q) == \A i \in DOMAIN q : FrameOK(q[i]) /\ (i > 1 => Follows(q[i - 1], q[i]))
Starts(q) == q # <<>> => Head(q).type \notin Chunked

\* A reassembly that would take the frame f up has what went before it.
Expects(r, f) ==
    f.type \in Chunked /\ Accepts(r, f.session) =>
        r.got = SubSeq(Body(f.body[1][1]), 1, f.body[1][2] - 1)
Unheard(c) == c \in DOMAIN sock => sock[c].state = "connecting"
Inward(d, k) == conn[d][k].sock # NoSock /\ ~conn[d][k].outbound

HeadExpected(r, q) == q # <<>> => Expects(r, Head(q))
QueueWhole(d, n) == Whole(node[d][n].queue) /\ Starts(node[d][n].queue)
BoxWhole(d, c) == Whole(inbox[d][c]) /\ (Unheard(c) => Starts(inbox[d][c]))
SlotExpects(d, k) == Inward(d, k) => HeadExpected(conn[d][k].rq, inbox[d][conn[d][k].sock])
ServedWhole(d) ==
    \A i \in DOMAIN served[d] : served[d][i].body = Body(CallOf(served[d][i].body))
BodyInv ==
    \A d \in Daemon :
        /\ \A n \in Node : QueueWhole(d, n)
        /\ \A c \in SockId : BoxWhole(d, c)
        /\ \A k \in Slot : SlotExpects(d, k)
        /\ ServedWhole(d)

(* The places where a request may stand: 0 for handed to a service of the  *)
(* daemon, 1 for in its inbox, 2 for in its queue for a node.              *)

Place == ({0} \X Daemon \X {0}) \cup ({1} \X Daemon \X SockId) \cup ({2} \X Daemon \X Node)
Line(p) == IF p[1] = 0 THEN served[p[2]]
           ELSE IF p[1] = 1 THEN inbox[p[2]][p[3]] ELSE node[p[2]][p[3]].queue
Carries(p, f, x) == (p[1] = 0 \/ f.type \in {"SMALL", "PART_END"}) /\ CallOf(f.body) = x
Stands(p, i, x) == i \in DOMAIN Line(p) /\ Carries(p, Line(p)[i], x)
SockAt(p, i) == IF p[1] = 0 THEN served[p[2]][i].sock
                ELSE IF p[1] = 1 THEN p[3] ELSE node[p[2]][p[3]].sock
Ahead(p, i, q, j) ==
    \/ p = q /\ i < j
    \/ p[1] < q[1] /\ (q[1] = 1 => p[2] = q[2])
Before(p, i, q, j) == SockAt(p, i) = SockAt(q, j) /\ Ahead(p, i, q, j)
Sooner(x, y) == \E i, j \in DOMAIN issued : i < j /\ issued[i] = x /\ issued[j] = y

IssuedOnce == \A i, j \in DOMAIN issued : issued[i] = issued[j] => i = j
OnceInv ==
    \A p, q \in Place : \A x, y \in Call : \A i \in DOMAIN Line(p), j \in DOMAIN Line(q) :
        Stands(p, i, x) =>
            /\ IsIssued(x)
            /\ Stands(q, j, x) => p = q /\ i = j
            /\ Stands(q, j, y) /\ Before(p, i, q, j) => Sooner(x, y)
RequestInv == IssuedOnce /\ OnceInv
-----------------------------------------------------------------------------
(* The frames of requests in a line after a step that brings none: they    *)
(* stand where they stood, behind what they stood behind.                  *)

Rest(q, r) ==
    \A i \in DOMAIN r : r[i].type \in RequestTypes =>
        i \in DOMAIN q /\ r[i] = q[i] /\ (i > 1 => r[i - 1] = q[i - 1])
RestBoxes(old, new) == \A e \in Daemon, s \in SockId : Rest(old[e][s], new[e][s])

LEMMA RestTrans ==
  ASSUME NEW p, NEW q, NEW r, Rest(p, q), Rest(q, r)  PROVE Rest(p, r)
  BY DEF Rest

LEMMA RestSelf == \A q : Rest(q, q) /\ Rest(q, <<>>)
  BY DEF Rest

LEMMA OtherKinds ==
  /\ \A f \in ResponseFrame : f.type \notin RequestTypes /\ f.type \in ResponseTypes
  /\ \A f \in ControlEvent : f.type \notin RequestTypes
  /\ Close \in ControlEvent /\ Close.type = "CLOSE"
  /\ [type |-> "CONNECT"] \in ControlEvent /\ [type |-> "ACCEPT"] \in ControlEvent
  BY DEF ResponseFrame, ControlEvent, RequestTypes, ResponseTypes, Close

LEMMA RestJoined ==
  ASSUME NEW q \in Seq(SocketEvents), NEW fs \in Seq(ResponseFrame)
  PROVE  Rest(q, q \o fs)
<1>1. /\ Len(q) \in Nat /\ Len(fs) \in Nat /\ DOMAIN q = 1 .. Len(q)
      /\ DOMAIN (q \o fs) = 1 .. Len(q) + Len(fs)
      /\ \A i \in 1 .. Len(q) + Len(fs) :
            (q \o fs)[i] = IF i <= Len(q) THEN q[i] ELSE fs[i - Len(q)]
  OBVIOUS
<1>2. ASSUME NEW i \in 1 .. Len(q) + Len(fs), i > Len(q)
      PROVE  (q \o fs)[i].type \notin RequestTypes
  <2>1. i - Len(q) \in 1 .. Len(fs) /\ (q \o fs)[i] = fs[i - Len(q)]
    BY <1>1, <1>2
  <2>2. fs[i - Len(q)] \in ResponseFrame
    BY <2>1, ElementOfSeq
  <2>. QED  BY <2>1, <2>2, OtherKinds
<1> DEFINE r == q \o fs
<1>3. DOMAIN r = 1 .. Len(q) + Len(fs) /\ \A i \in 1 .. Len(q) : r[i] = q[i]
  BY <1>1
<1>4. \A i \in DOMAIN r : i > Len(q) => r[i].type \notin RequestTypes
  BY <1>1, <1>2
<1> HIDE DEF r
<1>5. Rest(q, r)
  BY <1>1, <1>3, <1>4 DEF Rest
<1>. QED  BY <1>5 DEF r

LEMMA RestAppended ==
  ASSUME NEW q \in Seq(SocketEvents), NEW f \in ControlEvent
  PROVE  Rest(q, Append(q, f))
<1> DEFINE r == Append(q, f)
<1>1. /\ DOMAIN q = 1 .. Len(q) /\ Len(q) \in Nat /\ DOMAIN r = 1 .. Len(q) + 1
      /\ \A i \in 1 .. Len(q) : r[i] = q[i]
      /\ r[Len(q) + 1] = f
  BY AppendProperties
<1> HIDE DEF r
<1>2. \A i \in DOMAIN r : i \notin DOMAIN q => r[i].type \notin RequestTypes
  BY <1>1, OtherKinds
<1>3. Rest(q, r)
  BY <1>1, <1>2 DEF Rest
<1>. QED  BY <1>3 DEF r

LEMMA RestCut ==
  ASSUME NEW q \in Seq(SocketEvents), NEW n \in 0 .. Len(q)
  PROVE  Rest(q, Cut(q, n))
<1> DEFINE r == SubSeq(q, 1, n)
<1>1. /\ r \in Seq(SocketEvents) /\ DOMAIN q = 1 .. Len(q) /\ Len(q) \in Nat
      /\ DOMAIN r = 1 .. n /\ \A i \in 1 .. n : r[i] = q[i]
  BY SubSeqProperties
<1> HIDE DEF r
<1>2. Rest(q, r)
  BY <1>1 DEF Rest
<1>3. Rest(r, Append(r, Close))
  BY <1>1, RestAppended, OtherKinds
<1>. QED  BY <1>2, <1>3, RestTrans DEF Cut, r

LEMMA RestWritten ==
  ASSUME NEW box \in InboxType, NEW d, NEW c, NEW fs \in Seq(ResponseFrame)
  PROVE  RestBoxes(box, Written(box, d, c, fs))
<1> SUFFICES ASSUME NEW e \in Daemon, NEW s \in SockId
             PROVE  Rest(box[e][s], Written(box, d, c, fs)[e][s])
  BY DEF RestBoxes
<1>1. box[e][s] \in Seq(SocketEvents)
  BY DEF InboxType
<1>2. \/ Written(box, d, c, fs)[e][s] = box[e][s]
      \/ Written(box, d, c, fs)[e][s] = box[e][s] \o fs
  BY DEF Written, InboxType
<1>. QED  BY <1>1, <1>2, RestJoined, RestSelf
-----------------------------------------------------------------------------
(* How a step moves requests.  Most steps move none.                       *)

QueuesQuiet ==
    \A d \in Daemon, n \in Node : node'[d][n].queue # <<>> =>
        node'[d][n].queue = node[d][n].queue /\ node'[d][n].sock = node[d][n].sock
SameSlot(r, s) ==
    /\ s.sock = r.sock /\ s.outbound = r.outbound /\ (s.ready => r.ready)
    /\ ~s.outbound => s.rq = r.rq
OpenedSlot(s) == s.outbound /\ ~s.ready
SlotsQuiet ==
    \A d \in Daemon : \A k \in Slot : conn'[d][k].sock # NoSock =>
        SameSlot(conn[d][k], conn'[d][k]) \/ OpenedSlot(conn'[d][k])
SocksQuiet == \A c \in SockId : Unheard(c)' => Unheard(c)
IssuesQuiet == UNCHANGED issued \/ \E c \in Call : Issue(c)
Quiet ==
    /\ QueuesQuiet /\ SlotsQuiet /\ SocksQuiet /\ IssuesQuiet
    /\ RestBoxes(inbox, inbox') /\ UNCHANGED served

LEMMA QuietParts ==
  /\ UNCHANGED node => QueuesQuiet
  /\ UNCHANGED conn => SlotsQuiet
  /\ UNCHANGED sock => SocksQuiet
  /\ UNCHANGED inbox => RestBoxes(inbox, inbox')
  BY RestSelf DEF QueuesQuiet, SlotsQuiet, SameSlot, SocksQuiet, Unheard, RestBoxes

LEMMA OpenedQuiet ==
  ASSUME TypeOK, NEW d \in Daemon, NEW c, conn' = [conn EXCEPT ![d] = Allocated(@, OutboundConn(c))]
  PROVE  SlotsQuiet
<1>1. \A e \in Daemon : \A k \in Slot :
         conn'[e][k] = conn[e][k] \/ (e = d /\ TookSlot(d, k, OutboundConn(c)))
  BY AllocatedSlots
<1>2. OpenedSlot(OutboundConn(c))
  BY DEF OpenedSlot, OutboundConn, FreeConn
<1>3. \A r : SameSlot(r, r)
  BY DEF SameSlot
<1> HIDE DEF OutboundConn
<1>. QED  BY <1>1, <1>2, <1>3 DEF SlotsQuiet, TookSlot

LEMMA OpenedSocks ==
  ASSUME TypeOK, NEW d \in Daemon, NEW r \in NodeType, CanConnect(r), OpenSocket(d, r)
  PROVE  SocksQuiet
<1>1. sock' = Append(sock, [state |-> "connecting", cli |-> d, srv |-> r.peer])
  BY DEF OpenSocket
<1>2. r.peer \in Daemon
  BY DEF CanConnect, NodeType
<1>3. sock \in Seq([state: {"connecting", "open", "down"}, cli: Daemon, srv: Daemon])
      /\ DOMAIN sock = 1 .. Len(sock) /\ Len(sock) \in Nat
  BY LinkTypes
<1>4. \A c \in DOMAIN sock : c \in DOMAIN sock' /\ sock'[c] = sock[c]
  BY <1>1, <1>2, <1>3, AppendProperties
<1>. QED  BY <1>4 DEF SocksQuiet, Unheard

LEMMA CmdNodeQuiet ==
  ASSUME TypeOK, QueueInv, NEW m \in NodeCmd, CmdNode(m)  PROVE Quiet
<1> DEFINE d == m.at
           n == m.name
           r == [node[d][n] EXCEPT !.used = TRUE, !.peer = m.peer]
<1>1. d \in Daemon /\ n \in Node /\ m.peer \in Daemon \cup {NoPort}
  BY CommandAssumption
<1>2. node[d][n] \in NodeType /\ node \in [Daemon -> [Node -> NodeType]]
  BY <1>1 DEF TypeOK, DaemonTypeOK
<1>3. r \in NodeType /\ r.sock = node[d][n].sock /\ r.queue = node[d][n].queue
  BY <1>1, <1>2 DEF NodeType
<1>4. UNCHANGED <<inbox, served, issued>>
  BY DEF CmdNode, historyVars
<1>5. CASE ~Linked(r) /\ CanConnect(r)
  <2>1. node' = [node EXCEPT ![d][n] = Connecting(r)] /\ OpenSocket(d, r)
    BY <1>5 DEF CmdNode
  <2>2. r.sock = NoSock
    BY <1>5 DEF Linked
  <2> HIDE DEF d, n, r
  <2>3. Connecting(r).queue = <<>>
    BY <1>1, <1>3, <2>2 DEF Connecting, NodeType, QueueInv, QueuesWait, Waits
  <2>4. QueuesQuiet
    BY <1>1, <1>2, <2>1, <2>3 DEF QueuesQuiet
  <2>5. SlotsQuiet
    BY <1>1, <2>1, OpenedQuiet DEF OpenSocket
  <2>6. SocksQuiet
    BY <1>1, <1>3, <1>5, <2>1, OpenedSocks
  <2>. QED  BY <1>4, <2>4, <2>5, <2>6, QuietParts DEF Quiet, IssuesQuiet
<1>6. CASE ~(~Linked(r) /\ CanConnect(r))
  <2>1. node' = [node EXCEPT ![d][n] = r] /\ UNCHANGED <<conn, sock>>
    BY <1>6 DEF CmdNode
  <2> HIDE DEF d, n, r
  <2>2. QueuesQuiet
    BY <1>1, <1>2, <1>3, <2>1 DEF QueuesQuiet
  <2>. QED  BY <1>4, <2>1, <2>2, QuietParts DEF Quiet, IssuesQuiet
<1>. QED  BY <1>5, <1>6

LEMMA ReplyQuiet ==
  ASSUME TypeOK, NEW d \in Daemon, NEW w \in work[d], NEW ok \in BOOLEAN, LocalReply(d, w, ok)
  PROVE  Quiet
<1>1. PICK p \in precv[d] :
        inbox' = IF conn[d][p.slot].sock = NoSock THEN inbox
                 ELSE Written(inbox, d, conn[d][p.slot].sock,
                        ResponseFrames(p.remote, ok, IF ok THEN Reply(w.call) ELSE <<>>))
  BY DEF LocalReply
<1> DEFINE reply == IF ok THEN Reply(w.call) ELSE <<>>
           frames == ResponseFrames(p.remote, ok, reply)
           c == conn[d][p.slot].sock
<1>2. p.remote \in Nat /\ w.call \in Call
  BY DEF PendingRecv, TypeOK, DaemonTypeOK, ServiceTypeOK
<1>3. reply \in Seq(Chunk)
  BY <1>2, ReplyType
<1>4. frames \in Seq(ResponseFrame)
  BY <1>2, <1>3, ResponseFramesType
<1>5. inbox' = inbox \/ inbox' = Written(inbox, d, c, frames)
  BY <1>1
<1> HIDE DEF frames, c
<1>6. inbox \in InboxType
  BY LinkTypes
<1>7. RestBoxes(inbox, inbox')
  BY <1>4, <1>5, <1>6, RestWritten, QuietParts
<1>8. UNCHANGED <<node, conn, sock, served, issued>>
  BY DEF LocalReply, historyVars
<1>. QED  BY <1>7, <1>8, QuietParts DEF Quiet, IssuesQuiet

LEMMA BrokenQuiet ==
  ASSUME TypeOK, LinkInv, NEW c \in SockId, TcpRefused(c) \/ TcpReset(c)  PROVE Quiet
<1> DEFINE cli == sock[c].cli
           srv == sock[c].srv
<1>1. /\ c \in DOMAIN sock /\ cli \in Daemon /\ srv \in Daemon /\ inbox \in InboxType
      /\ sock' = [sock EXCEPT ![c].state = "down"]
  <2>1. c \in DOMAIN sock
    BY LinkTypes, BoundAssumption DEF TcpRefused, TcpReset, SockIs, SockId
  <2>. QED  BY <2>1, LinkTypes DEF TcpRefused, TcpReset
<1>2. inbox[cli][c] \in Seq(SocketEvents) /\ inbox[srv][c] \in Seq(SocketEvents)
  BY <1>1 DEF InboxType
<1>3. UNCHANGED <<node, conn, served, issued>>
  BY DEF TcpRefused, TcpReset, daemonVars, historyVars
<1>4. SocksQuiet
  <2>1. sock[c] \in [state: {"connecting", "open", "down"}, cli: Daemon, srv: Daemon]
    BY <1>1, LinkTypes, ElementOfSeq
  <2>2. /\ DOMAIN sock' = DOMAIN sock /\ sock'[c].state = "down"
        /\ \A s \in DOMAIN sock : s # c => sock'[s] = sock[s]
    BY <1>1, <2>1
  <2>. QED  BY <2>2 DEF SocksQuiet, Unheard
<1>5. ASSUME NEW x, NEW y, inbox' = Delivered(c, x, y), Rest(inbox[cli][c], x), Rest(inbox[srv][c], y)
      PROVE  RestBoxes(inbox, inbox')
  <2>1. \A e \in Daemon, s \in SockId :
           \/ inbox'[e][s] = inbox[e][s]
           \/ s = c /\ e = cli /\ inbox'[e][s] = x
           \/ s = c /\ e = srv /\ inbox'[e][s] = y
    BY <1>1, <1>5 DEF InboxType, Delivered
  <2>. QED  BY <1>5, <2>1, RestSelf DEF RestBoxes
<1>6. CASE TcpRefused(c)
  <2>1. inbox' = Delivered(c, Append(inbox[cli][c], Close), <<>>)
    BY <1>6 DEF TcpRefused, ToCli
  <2>2. Rest(inbox[cli][c], Append(inbox[cli][c], Close))
    BY <1>2, RestAppended, OtherKinds
  <2>3. RestBoxes(inbox, inbox')
    BY <1>5, <2>1, <2>2, RestSelf
  <2>. QED  BY <1>3, <1>4, <2>3, QuietParts DEF Quiet, IssuesQuiet
<1>7. CASE TcpReset(c)
  <2>1. PICK i \in HeadEvents(ToCli(c)) .. Len(ToCli(c)),
             j \in HeadEvents(ToSrv(c)) .. Len(ToSrv(c)) :
          inbox' = Delivered(c, Cut(ToCli(c), i), Cut(ToSrv(c), j))
    BY <1>7 DEF TcpReset
  <2>2. /\ inbox' = Delivered(c, Cut(inbox[cli][c], i), Cut(inbox[srv][c], j))
        /\ i \in 0 .. Len(inbox[cli][c]) /\ j \in 0 .. Len(inbox[srv][c])
    BY <1>2, <2>1 DEF HeadEvents, ToCli, ToSrv
  <2>3. Rest(inbox[cli][c], Cut(inbox[cli][c], i)) /\ Rest(inbox[srv][c], Cut(inbox[srv][c], j))
    BY <1>2, <2>2, RestCut
  <2>4. RestBoxes(inbox, inbox')
    BY <1>5, <2>2, <2>3
  <2>. QED  BY <1>3, <1>4, <2>4, QuietParts DEF Quiet, IssuesQuiet
<1>. QED  BY <1>6, <1>7

LEMMA CrashQuiet ==
  ASSUME TypeOK, NEW d \in Daemon, Crash(d)  PROVE Quiet
<1> DEFINE mine  == {c \in DOMAIN sock : sock[c].cli = d \/ sock[c].srv = d}
           ended == {c \in mine : \/ sock[c].state = "open"
                                  \/ sock[c].state = "connecting" /\ sock[c].cli = d}
<1>1. QueuesQuiet
  <2>1. \A e \in Daemon, n \in Node :
           node'[e][n] = IF e = d THEN UnusedNode ELSE node[e][n]
    BY LinkTypes DEF Crash
  <2>. QED  BY <2>1 DEF QueuesQuiet, UnusedNode
<1>2. SlotsQuiet
  <2>1. \A e \in Daemon : \A k \in Slot :
           conn'[e][k] = IF e = d THEN FreeConn ELSE conn[e][k]
    BY LinkTypes DEF Crash
  <2>2. FreeConn.sock = NoSock
    BY DEF FreeConn
  <2> HIDE DEF FreeConn
  <2>. QED  BY <2>1, <2>2 DEF SlotsQuiet, SameSlot
<1>3. SocksQuiet
  <2>1. sock' = [c \in DOMAIN sock |->
               IF c \in ended THEN [sock[c] EXCEPT !.state = "down"] ELSE sock[c]]
    BY DEF Crash
  <2>2. \A c \in DOMAIN sock : [sock[c] EXCEPT !.state = "down"].state = "down"
    <3>1. \A c \in DOMAIN sock :
            sock[c] \in [state: {"connecting", "open", "down"}, cli: Daemon, srv: Daemon]
      BY LinkTypes, ElementOfSeq
    <3>. QED  BY <3>1
  <2> HIDE DEF ended
  <2>3. DOMAIN sock' = DOMAIN sock
    BY <2>1
  <2>4. \A c \in DOMAIN sock : sock'[c].state = "down" \/ sock'[c] = sock[c]
    BY <2>1, <2>2
  <2>. QED  BY <2>3, <2>4 DEF SocksQuiet, Unheard
<1>4. RestBoxes(inbox, inbox')
  <2> SUFFICES ASSUME NEW e \in Daemon, NEW c \in SockId  PROVE Rest(inbox[e][c], inbox'[e][c])
    BY DEF RestBoxes
  <2>1. inbox'[e][c] = CASE e = d -> <<>>
                         [] e # d /\ c \in ended /\ sock[c].state = "open" /\ e = Peer(d, c) ->
                                Append(inbox[e][c], Close)
                         [] e # d /\ c \in ended /\ sock[c].state = "connecting" -> <<>>
                         [] OTHER -> inbox[e][c]
    BY DEF Crash
  <2> HIDE DEF ended
  <2>2. inbox'[e][c] \in {<<>>, Append(inbox[e][c], Close), inbox[e][c]}
    BY <2>1
  <2>3. inbox[e][c] \in Seq(SocketEvents)
    BY LinkTypes DEF InboxType
  <2>. QED  BY <2>2, <2>3, RestSelf, RestAppended, OtherKinds
<1>. QED  BY <1>1, <1>2, <1>3, <1>4 DEF Quiet, IssuesQuiet, Crash, historyVars
-----------------------------------------------------------------------------
(* A daemon takes the first event of socket c.                             *)

\* What becomes of the reassembly r of the connection with the frame f.
Took(r, f, s) ==
    \/ f.type \notin {"LARGE", "PART", "PART_END"} /\ s = r
    \/ f.type = "LARGE" /\ s.session = f.session /\ s.got = <<>>
    \/ f.type \in Chunked /\ ~Accepts(r, f.session) /\ s = r
    \/ /\ f.type = "PART" /\ Accepts(r, f.session)
       /\ s.session = r.session /\ s.got = r.got \o f.body
    \/ f.type = "PART_END" /\ s = NoBody
SlotsTake(d, c) ==
    \A e \in Daemon : \A k \in Slot : conn'[e][k].sock # NoSock =>
        \/ SameSlot(conn[e][k], conn'[e][k]) /\ ~(e = d /\ conn[e][k].sock = c /\ Inward(e, k))
        \/ /\ e = d /\ conn[e][k].sock = c /\ conn'[e][k].sock = c /\ Inward(e, k)
           /\ ~conn'[e][k].outbound /\ (conn'[e][k].ready => conn[e][k].ready)
           /\ Took(conn[e][k].rq, Frame(d, c), conn'[e][k].rq)
        \/ e = d /\ conn'[e][k] = InboundConn(c) /\ Frame(d, c).type = "ACCEPT"
Heard(d, c) == inbox[d][c] # <<>> /\ ~Unheard(c)
Hands(d, c) ==
    \E x \in ServedEntry : \E k \in Slot :
        /\ served' = [served EXCEPT ![d] = Append(@, x)] /\ x.sock = c
        /\ conn[d][k].sock = c /\ Inward(d, k)
        /\ \/ Frame(d, c).type = "SMALL" /\ x.body = Frame(d, c).body
           \/ /\ Frame(d, c).type = "PART_END"
              /\ Accepts(conn[d][k].rq, Frame(d, c).session)
              /\ x.body = conn[d][k].rq.got \o Frame(d, c).body
Takes(d, c) ==
    /\ Heard(d, c) /\ QueuesQuiet /\ SlotsTake(d, c) /\ UNCHANGED <<sock, issued>>
    /\ RestBoxes(Popped(d, c), inbox')
    /\ UNCHANGED served \/ Hands(d, c)

LEMMA TalkRests ==
  ASSUME TypeOK, NEW d \in Daemon, NEW c \in SockId, NEW types, Event(d, c, types),
         Pops(d, c) \/ Responds(d, c)
  PROVE  RestBoxes(Popped(d, c), inbox')
<1>1. Popped(d, c) \in InboxType
  BY LinkTypes, PoppedType
<1>2. CASE Pops(d, c)
  BY <1>2, RestSelf DEF Pops, RestBoxes
<1>3. CASE Responds(d, c)
  <2>1. PICK s \in Nat, ok \in BOOLEAN, body \in Seq(Chunk) :
                inbox' = Responded(d, c, s, ok, body)
    BY <1>3 DEF Responds
  <2>2. ResponseFrames(s, ok, body) \in Seq(ResponseFrame)
    BY ResponseFramesType
  <2>. QED  BY <1>1, <2>1, <2>2, RestWritten DEF Responded
<1>. QED  BY <1>2, <1>3

LEMMA EventHeard ==
  ASSUME TypeOK, NEW d \in Daemon, NEW c \in SockId, NEW types, Event(d, c, types)
  PROVE  /\ Heard(d, c) /\ c # NoSock /\ c \in DOMAIN sock
         /\ Frame(d, c).type \in types
<1>1. c \in DOMAIN sock /\ c # NoSock
  BY LinkTypes, BoundAssumption DEF Event, SockId, NoSock
<1>. QED  BY <1>1 DEF Event, Heard, Unheard, Frame

LEMMA AcceptTakes ==
  ASSUME TypeOK, LinkInv, NEW d \in Daemon, NEW c \in SockId, OnAccept(d, c)
  PROVE  Takes(d, c)
<1>1. Heard(d, c) /\ Frame(d, c).type = "ACCEPT" /\ RestBoxes(Popped(d, c), inbox')
  BY EventHeard, TalkRests DEF OnAccept, Pops
<1>2. ConnsOf(conn[d], c) = {}
  <2>1. inbox[d][c] # <<>> /\ inbox[d][c] \in Seq(SocketEvents) /\ inbox[d][c][1].type = "ACCEPT"
    BY <1>1, LinkTypes DEF Heard, Frame, InboxType
  <2>2. Has(inbox[d][c], "ACCEPT")
    <3>1. 1 \in DOMAIN inbox[d][c]
      BY <2>1, EmptySeq, LenProperties
    <3>. QED  BY <2>1, <3>1 DEF Has
  <2>. QED  BY <2>2 DEF LinkInv, Boxed
<1>3. \A e \in Daemon : \A k \in Slot :
         conn'[e][k] = conn[e][k] \/ (e = d /\ TookSlot(d, k, InboundConn(c)))
  BY AllocatedSlots DEF OnAccept
<1>4. \A k \in Slot : conn[d][k].sock # c
  BY <1>2 DEF ConnsOf
<1>5. SlotsTake(d, c)
  <2> SUFFICES ASSUME NEW e \in Daemon, NEW k \in Slot, conn'[e][k].sock # NoSock
               PROVE  \/ /\ SameSlot(conn[e][k], conn'[e][k])
                         /\ ~(e = d /\ conn[e][k].sock = c /\ Inward(e, k))
                      \/ e = d /\ conn'[e][k] = InboundConn(c)
    BY <1>1 DEF SlotsTake
  <2>. QED  BY <1>3, <1>4 DEF TookSlot, SameSlot
<1>. QED  BY <1>1, <1>5, QuietParts DEF Takes, OnAccept, historyVars

LEMMA CloseTakes ==
  ASSUME TypeOK, NEW d \in Daemon, NEW c \in SockId, OnClose(d, c)
  PROVE  Takes(d, c)
<1>1. Heard(d, c) /\ c # NoSock /\ RestBoxes(Popped(d, c), inbox')
  BY EventHeard, TalkRests DEF OnClose, Pops
<1>2. SlotsTake(d, c)
  <2>1. \A e \in Daemon : \A k \in Slot :
           conn'[e][k] = IF e = d /\ conn[d][k].sock = c THEN FreeConn ELSE conn[e][k]
    BY LinkTypes DEF OnClose, Freed, ConnsOf
  <2>2. FreeConn.sock = NoSock
    BY DEF FreeConn
  <2> HIDE DEF FreeConn
  <2>. QED  BY <2>1, <2>2 DEF SlotsTake, SameSlot
<1>3. QueuesQuiet
  <2>1. \A e \in Daemon, n \in Node :
           node'[e][n] = node[e][n] \/ node'[e][n] = Unlinked(node[e][n])
    BY LinkTypes DEF OnClose
  <2>2. \A e \in Daemon, n \in Node : Unlinked(node[e][n]).queue = <<>>
    BY LinkTypes DEF Unlinked, NodeType
  <2>. QED  BY <2>1, <2>2 DEF QueuesQuiet
<1>. QED  BY <1>1, <1>2, <1>3 DEF Takes, OnClose

LEMMA IgnoredTakes ==
  ASSUME TypeOK, NEW d \in Daemon, NEW c \in SockId, OnIgnored(d, c)
  PROVE  Takes(d, c)
<1>1. Heard(d, c) /\ RestBoxes(Popped(d, c), inbox')
  BY EventHeard, TalkRests DEF OnIgnored, Pops
<1>2. SlotsTake(d, c)
  <2>1. ASSUME NEW k \in Slot, conn[d][k].sock = c, Inward(d, k)
        PROVE  Frame(d, c).type \in ResponseTypes
    BY <2>1 DEF OnIgnored, ConnsOf, Inward
  <2>2. \A f : f \in ResponseTypes => f \notin {"LARGE", "PART", "PART_END"}
    BY DEF ResponseTypes
  <2>3. UNCHANGED conn
    BY DEF OnIgnored, daemonVars
  <2>. QED  BY ZenonT(40), <2>1, <2>2, <2>3 DEF SlotsTake, SameSlot, Took, Inward
<1>. QED  BY <1>1, <1>2, QuietParts DEF Takes, OnIgnored, daemonVars, historyVars

LEMMA ResponseTakes ==
  ASSUME TypeOK, LinkInv, NEW d \in Daemon, NEW c \in SockId, NEW k \in Slot, NEW p \in psend[d],
         OnResponse(d, c, k, p)
  PROVE  Takes(d, c)
<1>1. Heard(d, c) /\ c # NoSock /\ RestBoxes(Popped(d, c), inbox')
  BY EventHeard, TalkRests DEF OnResponse, Pops
<1>2. conn[d][k].sock = c /\ conn[d][k].outbound
  BY DEF OnResponse
<1>3. \A j \in Slot : conn[d][j].sock = c => j = k
  BY <1>1, <1>2, LinkParts DEF LinksOf, SlotOK
<1>4. SlotsTake(d, c)
  <2>1. UNCHANGED conn \/ \E r : SetRs(d, k, r)
    BY DEF OnResponse
  <2>2. ASSUME NEW r  PROVE SameSlot(conn[d][k], [conn[d][k] EXCEPT !.rs = r])
    <3>1. conn[d][k] \in ConnType
      BY LinkTypes
    <3>. QED  BY <3>1 DEF ConnType, SameSlot
  <2>3. \A e \in Daemon : \A j \in Slot : SameSlot(conn[e][j], conn'[e][j])
    <3>1. ASSUME NEW r, SetRs(d, k, r)
          PROVE  \A e \in Daemon : \A j \in Slot :
                    \/ conn'[e][j] = conn[e][j]
                    \/ e = d /\ j = k /\ conn'[e][j] = [conn[d][k] EXCEPT !.rs = r]
      BY <3>1, LinkTypes DEF SetRs
    <3>2. \A r : SameSlot(r, r)
      BY DEF SameSlot
    <3>. QED  BY <2>1, <2>2, <3>1, <3>2
  <2>. QED  BY <1>2, <1>3, <2>3 DEF SlotsTake, Inward
<1>. QED  BY <1>1, <1>4, QuietParts DEF Takes, OnResponse

Serves(d, c, body) ==
    \E x \in ServedEntry : /\ x.sock = c /\ x.body = body
                           /\ served' = [served EXCEPT ![d] = Append(@, x)]
LEMMA DispatchHands ==
  ASSUME TypeOK, NEW d \in Daemon, NEW c \in SockId, NEW k \in Slot, NEW push, NEW s \in Nat,
         NEW addr \in Wire, NEW body \in Bodies, Dispatch(d, c, k, push, s, addr, body)
  PROVE  UNCHANGED served \/ Serves(d, c, body)
<1> DEFINE h == IF addr.byName THEN Lookup(d, addr.to) ELSE addr.to
           x == [sock |-> c, service |-> h, body |-> body]
<1>1. \/ UNCHANGED served
      \/ /\ addr.to # Query /\ h # NoHandle
         /\ served' = [served EXCEPT ![d] = Append(@, x)]
  BY DEF Dispatch, AnswerQuery, Reject, Forward
<1>2. addr.to # Query /\ h # NoHandle => h \in Service
  <2>1. addr.byName \in BOOLEAN /\ (~addr.byName => addr.to \in Service \cup {Query})
    BY DEF Wire
  <2>. QED  BY <2>1, LookupType DEF TypeOK, DaemonTypeOK
<1>3. c \in Nat
  BY BoundAssumption DEF SockId
<1> HIDE DEF h
<1>4. h \in Service => x \in ServedEntry
  BY <1>3 DEF ServedEntry
<1>5. x.sock = c /\ x.body = body
  OBVIOUS
<1> HIDE DEF x
<1>. QED  BY <1>1, <1>2, <1>4, <1>5 DEF Serves

\* The body that the last chunk completes.
LEMMA LastChunk ==
  ASSUME TypeOK, NEW d \in Daemon, NEW c \in SockId, NEW k \in Slot, NEW types, Event(d, c, types),
         Frame(d, c).type \in Chunked, Accepts(conn[d][k].rq, Frame(d, c).session)
  PROVE  LET r == conn[d][k].rq
             f == Frame(d, c)
         IN  /\ r.session \in Nat /\ r.addr \in Wire /\ r.got \o f.body \in Bodies
             /\ WithChunk(r, f.body).got = r.got \o f.body
             /\ WithChunk(r, f.body).session = r.session
<1> DEFINE f == Frame(d, c)
           r == conn[d][k].rq
           whole == WithChunk(r, f.body).got
<1>1. f \in SocketEvents /\ r \in Reassembly(BodyChunk)
  BY PoppedType, SetBodyType DEF TypeOK, NetworkTypeOK, InboxType
<1> HIDE DEF f, r
<1>2. f.session \in Nat /\ f.body \in Seq(BodyChunk) /\ f.body # <<>>
  <2>1. f.type \in {"PART", "PART_END"}
    BY DEF f, Chunked
  <2>. QED  BY <1>1, <2>1, FrameParts DEF Bodies
<1>3. /\ r.session \in Nat /\ r.addr \in Wire /\ r.active
      /\ r.got \in Seq(BodyChunk) /\ whole = r.got \o f.body
  BY <1>1, <1>2, ChunkTypes DEF f, r
<1>4. r.got \o f.body \in Bodies
  <2>1. r.got \o f.body \in Seq(BodyChunk) /\ Len(r.got \o f.body) = Len(r.got) + Len(f.body)
    BY <1>2, <1>3, ConcatProperties
  <2>2. Len(f.body) > 0 /\ Len(r.got) >= 0
    BY <1>2, <1>3, EmptySeq, LenProperties
  <2>3. r.got \o f.body # <<>>
    BY <2>1, <2>2
  <2>. QED  BY <2>1, <2>3 DEF Bodies
<1>5. WithChunk(r, f.body).session = r.session
  <2>1. r \in [active: {TRUE}, session: Nat, total: Nat, got: Seq(BodyChunk),
               addr: Wire, push: BOOLEAN]
    <3>1. NoBody.active = FALSE
      BY DEF NoBody
    <3>. QED  BY <1>1, <1>3, <3>1 DEF Reassembly
  <2>. QED  BY <2>1 DEF WithChunk
<1>. QED  BY <1>3, <1>4, <1>5 DEF f, r

LEMMA SetRqTakes ==
  ASSUME TypeOK, LinkInv, NEW d \in Daemon, NEW c \in SockId, NEW k \in Slot, c # NoSock,
         conn[d][k].sock = c, ~conn[d][k].outbound, NEW r,
         SetRq(d, k, r) \/ (UNCHANGED conn /\ r = conn[d][k].rq),
         Took(conn[d][k].rq, Frame(d, c), r)
  PROVE  SlotsTake(d, c)
<1>1. \A j \in Slot : conn[d][j].sock = c => j = k
  BY LinkParts DEF LinksOf, SlotOK
<1>2. /\ conn[d][k] \in ConnType /\ conn \in [Daemon -> [Slot -> ConnType]]
      /\ [conn[d][k] EXCEPT !.rq = r].rq = r
      /\ [conn[d][k] EXCEPT !.rq = r].sock = c
      /\ [conn[d][k] EXCEPT !.rq = r].outbound = conn[d][k].outbound
      /\ [conn[d][k] EXCEPT !.rq = r].ready = conn[d][k].ready
  BY LinkTypes DEF ConnType
<1>3. /\ conn'[d][k].sock = c /\ ~conn'[d][k].outbound /\ conn'[d][k].ready = conn[d][k].ready
      /\ conn'[d][k].rq = r
      /\ \A e \in Daemon : \A j \in Slot : ~(e = d /\ j = k) => conn'[e][j] = conn[e][j]
  BY ZenonT(40), <1>2 DEF SetRq
<1>4. Inward(d, k)
  BY DEF Inward
<1>5. \A s : SameSlot(s, s)
  BY DEF SameSlot
<1>. QED  BY <1>1, <1>3, <1>4, <1>5 DEF SlotsTake

LEMMA RequestTakes ==
  ASSUME TypeOK, LinkInv, NEW d \in Daemon, NEW c \in SockId, NEW k \in Slot, OnRequest(d, c, k)
  PROVE  Takes(d, c)
<1> DEFINE f == Frame(d, c)
           r == conn[d][k].rq
<1>1. /\ Event(d, c, RequestTypes) /\ Heard(d, c) /\ c # NoSock /\ RestBoxes(Popped(d, c), inbox')
      /\ f \in SocketEvents /\ conn[d][k].sock = c /\ ~conn[d][k].outbound /\ Inward(d, k)
  BY EventHeard, RequestTalks, TalkRests, PoppedType
     DEF OnRequest, TypeOK, NetworkTypeOK, InboxType, Inward
<1>2. QueuesQuiet /\ UNCHANGED <<sock, issued>>
  BY QuietParts DEF OnRequest
<1>3. ASSUME NEW s, SetRq(d, k, s) \/ (UNCHANGED conn /\ s = r), Took(r, f, s)
      PROVE  SlotsTake(d, c)
  BY <1>1, <1>3, SetRqTakes
<1> HIDE DEF f, r
<1>4. CASE OnSmall(d, c, k)
  <2>1. f.type = "SMALL" /\ UNCHANGED conn
        /\ Dispatch(d, c, k, f.session = 0, f.session, f.addr, f.body)
    BY <1>4 DEF OnSmall, f
  <2>2. f.session \in Nat /\ f.addr \in Wire /\ f.body \in Bodies
    BY <1>1, <2>1, FrameParts
  <2>3. UNCHANGED served \/ Hands(d, c)
    BY <1>1, <2>1, <2>2, DispatchHands DEF Hands, Serves, f
  <2>4. SlotsTake(d, c)
    BY <1>3, <2>1 DEF Took
  <2>. QED  BY <1>1, <1>2, <2>3, <2>4 DEF Takes
<1>5. CASE OnLargeHeader(d, c, k)
  <2>1. /\ f.type = "LARGE" /\ UNCHANGED served
        /\ SetRq(d, k, OpenBody(f.session, f.total, f.addr, f.push))
    BY <1>5 DEF OnLargeHeader, f
  <2>2. Took(r, f, OpenBody(f.session, f.total, f.addr, f.push))
    BY <2>1 DEF Took, OpenBody
  <2>. QED  BY <1>1, <1>2, <1>3, <2>1, <2>2 DEF Takes
<1>6. CASE OnPart(d, c, k)
  <2>1. CASE ~Accepts(r, f.session) /\ UNCHANGED <<conn, served>>
    <3>1. Took(r, f, r)
      BY <1>6, <2>1 DEF Took, OnPart, f, Chunked
    <3>. QED  BY <1>1, <1>2, <1>3, <2>1, <3>1 DEF Takes
  <2>2. CASE /\ Accepts(r, f.session) /\ f.type = "PART"
             /\ SetRq(d, k, WithChunk(r, f.body)) /\ UNCHANGED served
    <3>1. Took(r, f, WithChunk(r, f.body))
      BY <1>1, <2>2, LastChunk DEF Took, Chunked, f, r
    <3>. QED  BY <1>1, <1>2, <1>3, <2>2, <3>1 DEF Takes
  <2>3. CASE /\ Accepts(r, f.session) /\ f.type = "PART_END"
             /\ SetRq(d, k, NoBody)
             /\ Dispatch(d, c, k, r.push, r.session, r.addr, WithChunk(r, f.body).got)
    <3>1. /\ r.session \in Nat /\ r.addr \in Wire /\ r.got \o f.body \in Bodies
          /\ WithChunk(r, f.body).got = r.got \o f.body
      BY <1>1, <2>3, LastChunk DEF Chunked, f, r
    <3>2. UNCHANGED served \/ Hands(d, c)
      <4>1. PICK push, s, addr, whole :
               push = r.push /\ s = r.session /\ addr = r.addr /\ whole = r.got \o f.body
        OBVIOUS
      <4>2. Dispatch(d, c, k, push, s, addr, whole)
        BY <2>3, <3>1, <4>1 DEF Dispatch, AnswerQuery, Reject, Forward
      <4>3. whole \in Bodies /\ s \in Nat /\ addr \in Wire
        BY <3>1, <4>1
      <4>4. UNCHANGED served \/ Serves(d, c, whole)
        BY <4>2, <4>3, DispatchHands
      <4>. QED  BY <1>1, <2>3, <4>1, <4>4 DEF Hands, Serves, f, r
    <3>3. SlotsTake(d, c)
      BY <1>3, <2>3 DEF Took
    <3>. QED  BY <1>1, <1>2, <3>2, <3>3 DEF Takes
  <2>. QED  BY <1>6, <2>1, <2>2, <2>3 DEF OnPart, f, r
<1>. QED  BY <1>4, <1>5, <1>6 DEF OnRequest
-----------------------------------------------------------------------------
(* The link comes up: its queue moves to the socket.                       *)

SlotsHear(d, c) ==
    \A e \in Daemon : \A k \in Slot :
        /\ conn'[e][k].sock = conn[e][k].sock /\ conn'[e][k].outbound = conn[e][k].outbound
        /\ conn'[e][k].rq = conn[e][k].rq
        /\ conn'[e][k].ready => conn[e][k].ready \/ (e = d /\ conn[e][k].sock = c)
Flushes(d, c, n) ==
    /\ node[d][n].sock = c /\ node' = [node EXCEPT ![d][n] = Emptied(@)]
    /\ inbox' = Written(Popped(d, c), d, c, node[d][n].queue)
FlushesNone(d, c) ==
    /\ inbox' = Popped(d, c) /\ UNCHANGED node
    /\ (\A k \in Slot : conn[d][k].sock # c) \/ (\A n \in Node : node[d][n].sock # c)
Connects(d, c) ==
    /\ Heard(d, c) /\ Frame(d, c).type = "CONNECT" /\ UNCHANGED <<sock, issued, served>>
    /\ SlotsHear(d, c)
    /\ FlushesNone(d, c) \/ \E n \in Node : Flushes(d, c, n)

LEMMA ConnectConnects ==
  ASSUME TypeOK, LinkInv, NEW d \in Daemon, NEW c \in SockId, OnConnect(d, c)
  PROVE  Connects(d, c)
<1>1. /\ Heard(d, c) /\ c # NoSock /\ Frame(d, c).type = "CONNECT"
      /\ UNCHANGED <<sock, issued, served>>
  BY EventHeard DEF OnConnect, historyVars
<1>2. SlotsHear(d, c)
  <2>1. conn \in [Daemon -> [Slot -> ConnType]]
    BY LinkTypes
  <2>2. \A r \in ConnType :
           LET s == [r EXCEPT !.ready = TRUE]
           IN  s.sock = r.sock /\ s.outbound = r.outbound /\ s.rq = r.rq
    BY DEF ConnType
  <2>3. conn' = [conn EXCEPT ![d] = [k \in Slot |->
                   IF k \in ConnsOf(conn[d], c) THEN [conn[d][k] EXCEPT !.ready = TRUE]
                                                ELSE conn[d][k]]]
    BY DEF OnConnect
  <2>4. \A e \in Daemon : \A k \in Slot :
           conn'[e][k] = IF e = d /\ conn[d][k].sock = c THEN [conn[d][k] EXCEPT !.ready = TRUE]
                                                         ELSE conn[e][k]
    BY <2>1, <2>3 DEF ConnsOf
  <2> SUFFICES ASSUME NEW e \in Daemon, NEW k \in Slot
               PROVE  /\ conn'[e][k].sock = conn[e][k].sock
                      /\ conn'[e][k].outbound = conn[e][k].outbound
                      /\ conn'[e][k].rq = conn[e][k].rq
                      /\ conn'[e][k].ready => conn[e][k].ready \/ (e = d /\ conn[e][k].sock = c)
    BY DEF SlotsHear
  <2>5. CASE e = d /\ conn[d][k].sock = c
    <3>1. conn[d][k] \in ConnType /\ conn'[d][k] = [conn[d][k] EXCEPT !.ready = TRUE]
      BY <2>1, <2>4, <2>5
    <3>. QED  BY <2>2, <2>5, <3>1
  <2>6. CASE ~(e = d /\ conn[d][k].sock = c)
    BY <2>4, <2>6
  <2>. QED  BY <2>5, <2>6
<1> DEFINE using == NodesUsing(d, c)
           n == CHOOSE m \in using : TRUE
<1>3. CASE ConnsOf(conn[d], c) = {} \/ using = {}
  <2>1. inbox' = Popped(d, c) /\ UNCHANGED node
    BY <1>3 DEF OnConnect
  <2>2. (\A k \in Slot : conn[d][k].sock # c) \/ (\A m \in Node : node[d][m].sock # c)
    <3>1. \A m \in Node : NodeLinkOK(d, m)
      BY LinkParts DEF LinksOf
    <3>. QED  BY <1>1, <1>3, <3>1 DEF ConnsOf, NodesUsing, NodeLinkOK
  <2>. QED  BY <1>1, <1>2, <2>1, <2>2 DEF Connects, FlushesNone
<1>4. CASE ~(ConnsOf(conn[d], c) = {} \/ using = {})
  <2>1. n \in Node /\ node[d][n].sock = c
    <3>1. n \in using
      BY <1>4
    <3> HIDE DEF n
    <3>. QED  BY <3>1 DEF NodesUsing
  <2>2. inbox' = Flushed(Popped(d, c), d, c, n) /\ node' = [node EXCEPT ![d][n] = Emptied(@)]
    BY <1>4 DEF OnConnect
  <2> HIDE DEF n
  <2>3. Flushes(d, c, n)
    BY <2>1, <2>2 DEF Flushes, Flushed
  <2>. QED  BY <1>1, <1>2, <2>1, <2>3 DEF Connects
<1>. QED  BY <1>3, <1>4

(* The socket layer completes a connection.                                *)

Greets(c) ==
    /\ c \in DOMAIN sock /\ sock[c].state = "connecting" /\ sock[c].cli # sock[c].srv
    /\ sock' = [sock EXCEPT ![c].state = "open"]
    /\ inbox' = Delivered(c, Append(ToCli(c), [type |-> "CONNECT"]),
                             <<[type |-> "ACCEPT"]>> \o ToSrv(c))
    /\ UNCHANGED <<node, conn, issued, served>>

LEMMA ConnectedGreets ==
  ASSUME TypeOK, LinkInv, NEW c \in SockId, TcpConnected(c)  PROVE Greets(c)
<1>1. c \in DOMAIN sock
  BY LinkTypes, BoundAssumption DEF TcpConnected, SockIs, SockId
<1>2. sock[c].cli # sock[c].srv
  BY <1>1, LinkParts DEF Elsewhere
<1>. QED  BY <1>1, <1>2 DEF TcpConnected, SockIs, Greets, daemonVars, historyVars

(* A caller's frames join its node's queue or what its socket carries.     *)

Gains(d, n, fs) ==
    /\ UNCHANGED inbox
    /\ node'[d][n].queue = node[d][n].queue \o fs
    /\ node[d][n].queue # <<>> => node'[d][n].sock = node[d][n].sock
    /\ Waits(d, n)'
    /\ \A e \in Daemon, m \in Node : ~(e = d /\ m = n) => node'[e][m] = node[e][m]
Writes(d, n, fs) ==
    /\ UNCHANGED <<node, conn>>
    /\ node[d][n].sock # NoSock /\ ReadyConn(d, node[d][n].sock)
    /\ inbox' = Written(inbox, d, node[d][n].sock, fs)
Sends(x) ==
    /\ Issue(x) /\ UNCHANGED served /\ SlotsQuiet /\ SocksQuiet
    /\ \/ Gains(At(x), Workload[x].node, NewFrames(x))
       \/ Writes(At(x), Workload[x].node, NewFrames(x))

LEMMA QueuedGains ==
  ASSUME TypeOK, NEW x \in Call, NEW r \in NodeType, node' = Queued(x, r), UNCHANGED inbox,
         r.queue = Entry(x).queue, Entry(x).queue # <<>> => r.sock = Entry(x).sock,
         Waits(At(x), Workload[x].node)'
  PROVE  Gains(At(x), Workload[x].node, NewFrames(x))
<1> DEFINE d == At(x)
           n == Workload[x].node
           fs == NewFrames(x)
           s == Enqueued(r, fs)
<1>1. d \in Daemon /\ n \in Node /\ node \in [Daemon -> [Node -> NodeType]]
  BY SessionType, LinkTypes
<1>2. s.queue = r.queue \o fs /\ s.sock = r.sock
  BY DEF Enqueued, NodeType
<1>3. node' = [node EXCEPT ![d][n] = s] /\ Entry(x) = node[d][n]
  BY DEF Queued, Entry
<1> HIDE DEF d, n, fs, s
<1>4. node'[d][n] = s /\ \A e \in Daemon, m \in Node : ~(e = d /\ m = n) => node'[e][m] = node[e][m]
  BY <1>1, <1>3
<1>5. Waits(d, n)'
  BY DEF d, n
<1>6. Gains(d, n, fs)
  BY <1>2, <1>3, <1>4, <1>5 DEF Gains
<1>. QED  BY <1>6 DEF d, n, fs

LEMMA RequestSends ==
  ASSUME TypeOK, LinkInv, QueueInv, NEW x \in Call, ReqConnects(x) \/ ReqQueues(x) \/ ReqWrites(x)
  PROVE  Sends(x)
<1> DEFINE d == At(x)
           n == Workload[x].node
<1>1. /\ d \in Daemon /\ n \in Node /\ Entry(x) = node[d][n] /\ Entry(x) \in NodeType
      /\ node \in [Daemon -> [Node -> NodeType]]
  BY SessionType, LinkTypes DEF Entry
<1>2. Issue(x) /\ UNCHANGED served
  BY DEF ReqConnects, ReqQueues, ReqWrites, SendRequest
<1>3. NodeLinkOK(d, n) /\ Waits(d, n)
  BY <1>1, LinkParts DEF LinksOf, QueueInv, QueuesWait
<1> HIDE DEF d, n
<1>4. CASE ReqConnects(x)
  <2> DEFINE r == Connecting(Entry(x))
  <2>0. PICK m : m = Len(sock) + 1
    OBVIOUS
  <2>1. /\ ~Linked(Entry(x)) /\ CanConnect(Entry(x)) /\ OpenSocket(d, Entry(x))
        /\ node' = Queued(x, r) /\ UNCHANGED inbox
    BY <1>4 DEF ReqConnects, d
  <2>2. Entry(x).queue = <<>>
    BY <1>1, <1>3, <2>1 DEF Waits, Linked
  <2>3. m # NoSock /\ m \notin DOMAIN sock /\ m \in Nat
    BY <2>0, LinkTypes DEF NoSock
  <2>4. r \in NodeType /\ r.queue = Entry(x).queue /\ r.sock = m
    BY <1>1, <2>0, <2>3 DEF Connecting, NodeType
  <2>5. conn' = [conn EXCEPT ![d] = Allocated(@, OutboundConn(m))]
    BY <2>0, <2>1 DEF OpenSocket
  <2> HIDE DEF r
  <2>6. node'[d][n].sock = m
    BY <1>1, <2>1, <2>4 DEF Queued, Enqueued, NodeType, d, n
  <2>7. ~ReadyConn(d, m)'
    <3>1. \A k \in Slot : conn'[d][k] = conn[d][k] \/ conn'[d][k] = OutboundConn(m)
      <4>1. \A e \in Daemon : \A k \in Slot :
               conn'[e][k] = conn[e][k] \/ (e = d /\ TookSlot(d, k, OutboundConn(m)))
        BY <1>1, <2>5, AllocatedSlots
      <4>. QED  BY <1>1, <4>1 DEF TookSlot
    <3>2. \A k \in Slot : conn[d][k].sock # m
      BY <1>1, <2>3, LinkParts DEF LinksOf, SlotOK
    <3>3. ~OutboundConn(m).ready
      BY DEF OutboundConn, FreeConn
    <3> HIDE DEF OutboundConn
    <3>. QED  BY <3>1, <3>2, <3>3 DEF ReadyConn, ConnsOf
  <2>8. Waits(d, n)'
    BY <2>3, <2>6, <2>7 DEF Waits
  <2>9. Gains(d, n, NewFrames(x))
    BY <2>1, <2>2, <2>4, <2>8, QueuedGains DEF d, n
  <2>10. SlotsQuiet /\ SocksQuiet
    BY <1>1, <2>1, <2>5, OpenedQuiet, OpenedSocks
  <2>. QED  BY <1>2, <2>9, <2>10 DEF Sends, d, n
<1>5. CASE ReqQueues(x)
  <2>1. /\ Linked(Entry(x)) /\ ~ReadyConn(d, Entry(x).sock)
        /\ node' = Queued(x, Entry(x)) /\ UNCHANGED <<conn, sock, inbox>>
    BY <1>5 DEF ReqQueues, d
  <2>2. node'[d][n].sock = Entry(x).sock
    BY <1>1, <2>1 DEF Queued, Enqueued, NodeType, d, n
  <2>3. Entry(x).sock # NoSock
    BY <1>1, <1>3, <2>1 DEF Linked, NodeLinkOK
  <2>4. Waits(d, n)'
    BY <2>1, <2>2, <2>3 DEF Waits, ReadyConn
  <2>5. Gains(d, n, NewFrames(x))
    BY <1>1, <2>1, <2>4, QueuedGains DEF d, n
  <2>. QED  BY <1>2, <2>1, <2>5, QuietParts DEF Sends, d, n
<1>6. CASE ReqWrites(x)
  <2>1. /\ Linked(Entry(x)) /\ ReadyConn(d, Entry(x).sock)
        /\ inbox' = Written(inbox, d, Entry(x).sock, NewFrames(x))
        /\ UNCHANGED <<node, conn, sock>>
    BY <1>6 DEF ReqWrites, d
  <2>2. Entry(x).sock # NoSock
    BY <1>1, <1>3, <2>1 DEF Linked, NodeLinkOK
  <2>3. Writes(d, n, NewFrames(x))
    BY <1>1, <2>1, <2>2 DEF Writes
  <2>. QED  BY <1>2, <2>1, <2>3, QuietParts DEF Sends, d, n
<1>. QED  BY <1>4, <1>5, <1>6
-----------------------------------------------------------------------------
(* Every step is one of these moves.                                       *)

RequestMove ==
    \/ Quiet
    \/ \E d \in Daemon, c \in SockId : Takes(d, c) \/ Connects(d, c)
    \/ \E c \in SockId : Greets(c)
    \/ \E x \in Call : Sends(x)

LEMMA StillQuiet ==
  ASSUME UNCHANGED <<node, conn, sock, inbox, served>>, IssuesQuiet  PROVE Quiet
  BY QuietParts DEF Quiet

LEMMA EventMovesRequests ==
  ASSUME TypeOK, LinkInv, NEW d \in Daemon, NEW c \in SockId, SocketEvent(d, c)
  PROVE  RequestMove
<1>1. Takes(d, c) \/ Connects(d, c)
  BY ConnectConnects, AcceptTakes, CloseTakes, IgnoredTakes, RequestTakes, ResponseTakes
     DEF SocketEvent
<1>. QED  BY <1>1 DEF RequestMove

LEMMA RequestsMove == TypeOK /\ LinkInv /\ QueueInv /\ [Next]_vars => RequestMove
<1> SUFFICES ASSUME TypeOK, LinkInv, QueueInv, [Next]_vars  PROVE RequestMove
  OBVIOUS
<1>1. CASE UNCHANGED vars
  BY <1>1, StillQuiet DEF vars, daemonVars, networkVars, historyVars, IssuesQuiet, RequestMove
<1>2. ASSUME NEW d \in Daemon, Command(d)  PROVE RequestMove
  <2>1. CASE CmdListen(d)
    BY <2>1, StillQuiet DEF CmdListen, daemonVars, historyVars, IssuesQuiet, RequestMove
  <2>2. ASSUME NEW r \in Registration, CmdRegister(r)  PROVE RequestMove
    BY <2>2, StillQuiet DEF CmdRegister, networkVars, historyVars, IssuesQuiet, RequestMove
  <2>3. ASSUME NEW m \in NodeCmd, CmdNode(m)  PROVE RequestMove
    BY <2>3, CmdNodeQuiet DEF RequestMove
  <2>4. ASSUME NEW x \in Call, ReqUnknownNode(x) \/ ReqConnectFails(x)  PROVE RequestMove
    BY <2>4, StillQuiet DEF ReqUnknownNode, ReqConnectFails, IssueFailed, daemonVars,
       networkVars, IssuesQuiet, RequestMove
  <2>5. ASSUME NEW x \in Call, ReqConnects(x) \/ ReqQueues(x) \/ ReqWrites(x)  PROVE RequestMove
    BY <2>5, RequestSends DEF RequestMove
  <2>. QED  BY <1>2, <2>1, <2>2, <2>3, <2>4, <2>5 DEF Command
<1>3. ASSUME NEW d \in Daemon, ServiceStep(d) \/ Crash(d)  PROVE RequestMove
  <2>1. ASSUME NEW h \in Service, ServiceExit(d, h)  PROVE RequestMove
    BY <2>1, StillQuiet DEF ServiceExit, daemonVars, networkVars, historyVars, IssuesQuiet,
       RequestMove
  <2>. QED  BY <1>3, <2>1, ReplyQuiet, CrashQuiet DEF ServiceStep, RequestMove
<1>4. ASSUME NEW c \in SockId, Tcp(c)  PROVE RequestMove
  BY <1>4, ConnectedGreets, BrokenQuiet DEF Tcp, RequestMove
<1>. QED  BY <1>1, <1>2, <1>3, <1>4, EventMovesRequests DEF Next
-----------------------------------------------------------------------------
(* A step keeps every queue waiting for its own link.                      *)

LEMMA OwnLinkStep == TypeOK /\ LinkInv /\ OwnLink /\ LinkMove => OwnLink'
<1> SUFFICES ASSUME TypeOK, LinkInv, OwnLink, LinkMove,
                    NEW d \in Daemon, NEW e \in Daemon, NEW n \in Node, NEW m \in Node,
                    node'[d][n].sock # NoSock, node'[d][n].sock = node'[e][m].sock
             PROVE  d = e /\ n = m
  BY DEF OwnLink
<1> DEFINE kept == \A f \in Daemon, l \in Node :
                      node'[f][l].sock # NoSock => node'[f][l].sock = node[f][l].sock
<1>1. CASE kept
  BY <1>1 DEF OwnLink
<1>2. CASE LinksStay
  BY <1>1, <1>2 DEF LinksStay, NodesStay, SameNode
<1>3. ASSUME NEW f \in Daemon, NEW l \in Node, NEW r \in NodeType, OpensFor(f, l, r)
      PROVE  d = e /\ n = m
  <2>1. \A g \in Daemon, k \in Node :
           node'[g][k] = IF g = f /\ k = l THEN r ELSE node[g][k]
    BY <1>3, LinkTypes DEF OpensFor
  <2>2. r.sock \notin DOMAIN sock /\ r.sock # NoSock
    BY <1>3, LinkTypes DEF OpensFor, NoSock
  <2>3. \A g \in Daemon, k \in Node : node[g][k].sock # NoSock => node[g][k].sock \in DOMAIN sock
    BY LinkParts DEF LinksOf, NodeLinkOK
  <2>. QED  BY <2>1, <2>2, <2>3 DEF OwnLink
<1>4. ASSUME NEW f \in Daemon, NEW c \in SockId, OnAccept(f, c) \/ OnClose(f, c)
      PROVE  d = e /\ n = m
  <2>1. CASE OnAccept(f, c)
    BY <1>1, <2>1 DEF OnAccept
  <2>2. CASE OnClose(f, c)
    <3>1. \A g \in Daemon, l \in Node :
             node'[g][l] = node[g][l] \/ node'[g][l] = Unlinked(node[g][l])
      BY <2>2, LinkTypes DEF OnClose
    <3>2. \A g \in Daemon, l \in Node : Unlinked(node[g][l]).sock = NoSock
      BY LinkTypes DEF Unlinked, NodeType
    <3>. QED  BY <1>1, <3>1, <3>2
  <2>. QED  BY <1>4, <2>1, <2>2
<1>5. ASSUME NEW c \in SockId, Tcp(c)  PROVE d = e /\ n = m
  BY <1>1, <1>5 DEF Tcp, TcpConnected, TcpRefused, TcpReset, daemonVars
<1>6. ASSUME NEW f \in Daemon, Crash(f)  PROVE d = e /\ n = m
  <2>1. \A g \in Daemon, l \in Node : node'[g][l] = IF g = f THEN UnusedNode ELSE node[g][l]
    BY <1>6, LinkTypes DEF Crash
  <2>2. UnusedNode.sock = NoSock
    BY DEF UnusedNode
  <2> HIDE DEF UnusedNode
  <2>. QED  BY <1>1, <2>1, <2>2
<1>. QED  BY <1>2, <1>3, <1>4, <1>5, <1>6 DEF LinkMove

LEMMA WaitsStep ==
  ASSUME TypeOK, LinkInv, QueueInv, RequestMove  PROVE QueuesWait'
<1>1. ASSUME QueuesQuiet, NEW d \in Daemon, NEW n \in Node,
             \A s : s # NoSock /\ node[d][n].sock = s /\ ReadyConn(d, s)' => ReadyConn(d, s)
      PROVE  Waits(d, n)'
  BY <1>1 DEF QueueInv, QueuesWait, Waits, QueuesQuiet, ReadyConn
<1>2. ASSUME SlotsQuiet
      PROVE  \A d \in Daemon : \A s : s # NoSock /\ ReadyConn(d, s)' => ReadyConn(d, s)
  BY <1>2 DEF SlotsQuiet, SameSlot, OpenedSlot, ReadyConn, ConnsOf
<1>3. CASE Quiet
  BY <1>1, <1>2, <1>3 DEF Quiet, QueuesWait
<1>4. ASSUME NEW d \in Daemon, NEW c \in SockId, Takes(d, c)  PROVE QueuesWait'
  <2>1. QueuesQuiet /\ SlotsTake(d, c)
    BY <1>4 DEF Takes
  <2>2. ASSUME NEW e \in Daemon, NEW n \in Node, NEW s, s # NoSock, node[e][n].sock = s,
               ReadyConn(e, s)'
        PROVE  ReadyConn(e, s)
    <3>1. PICK k \in Slot : conn'[e][k].sock = s /\ conn'[e][k].ready
      BY <2>2 DEF ReadyConn, ConnsOf
    <3>2. CASE conn[e][k].sock = s /\ conn[e][k].ready
      BY <3>2 DEF ReadyConn, ConnsOf
    <3>3. CASE e = d /\ conn'[e][k] = InboundConn(c) /\ Frame(d, c).type = "ACCEPT"
      <4>1. s = c
        BY <3>1, <3>3 DEF InboundConn, FreeConn
      <4>2. c \in DOMAIN sock /\ sock[c].cli = d
        BY <2>2, <3>3, <4>1, LinkParts DEF LinksOf, NodeLinkOK
      <4>3. Has(inbox[d][c], "ACCEPT")
        <5>1. inbox[d][c] # <<>> /\ inbox[d][c] \in Seq(SocketEvents)
          BY <1>4, LinkTypes DEF Takes, Heard, InboxType
        <5>2. 1 \in DOMAIN inbox[d][c] /\ Frame(d, c) = inbox[d][c][1]
          BY <5>1, EmptySeq, LenProperties DEF Frame
        <5>. QED  BY <3>3, <5>2 DEF Has
      <4>4. sock[c].srv = d /\ sock[c].cli # sock[c].srv
        BY <4>2, <4>3, LinkParts DEF LinksOf, Boxed, Elsewhere
      <4>. QED  BY <4>2, <4>4
    <3>. QED  BY <2>1, <2>2, <3>1, <3>2, <3>3 DEF SlotsTake, SameSlot
  <2>. QED  BY <1>1, <2>1, <2>2 DEF QueuesWait
<1>5. ASSUME NEW d \in Daemon, NEW c \in SockId, Connects(d, c)  PROVE QueuesWait'
  <2>1. ASSUME NEW e \in Daemon, NEW s, s # NoSock, ReadyConn(e, s)', ~ReadyConn(e, s)
        PROVE  e = d /\ s = c /\ \E k \in Slot : conn[d][k].sock = c
    BY <1>5, <2>1 DEF Connects, SlotsHear, ReadyConn, ConnsOf
  <2>2. CASE FlushesNone(d, c)
    <3>1. QueuesQuiet
      BY <2>2, QuietParts DEF FlushesNone
    <3>. QED  BY <1>1, <2>1, <2>2, <3>1 DEF FlushesNone, QueuesWait
  <2>3. ASSUME NEW m \in Node, Flushes(d, c, m)  PROVE QueuesWait'
    <3>1. Emptied(node[d][m]).queue = <<>>
      BY LinkTypes DEF Emptied, NodeType
    <3>2. \A e \in Daemon, n \in Node :
             \/ e = d /\ n = m /\ node'[e][n].queue = <<>>
             \/ ~(e = d /\ n = m) /\ node'[e][n] = node[e][n]
      BY <2>3, <3>1, LinkTypes DEF Flushes
    <3>3. QueuesQuiet
      BY <3>2 DEF QueuesQuiet
    <3>4. \A n \in Node : node[d][n].sock = c /\ c # NoSock => n = m
      BY <2>3 DEF Flushes, QueueInv, OwnLink
    <3>5. \A e \in Daemon, n \in Node : ~(e = d /\ n = m) => Waits(e, n)'
      BY <1>1, <2>1, <3>3, <3>4
    <3>. QED  BY <3>2, <3>5 DEF QueuesWait, Waits
  <2>. QED  BY <1>5, <2>2, <2>3 DEF Connects
<1>6. ASSUME NEW c \in SockId, Greets(c)  PROVE QueuesWait'
  BY <1>6 DEF Greets, QueueInv, QueuesWait, Waits, ReadyConn
<1>7. ASSUME NEW x \in Call, Sends(x)  PROVE QueuesWait'
  <2> DEFINE d == At(x)
             m == Workload[x].node
  <2>1. CASE Writes(d, m, NewFrames(x))
    BY <2>1 DEF Writes, QueueInv, QueuesWait, Waits, ReadyConn
  <2>2. CASE Gains(d, m, NewFrames(x))
    <3>1. Waits(d, m)'
      BY <2>2 DEF Gains
    <3>2. \A s : \A e \in Daemon : s # NoSock /\ ReadyConn(e, s)' => ReadyConn(e, s)
      BY <1>2, <1>7 DEF Sends
    <3> HIDE DEF d, m
    <3>3. ASSUME NEW e \in Daemon, NEW n \in Node, ~(e = d /\ n = m)  PROVE Waits(e, n)'
      <4>1. node'[e][n] = node[e][n] /\ Waits(e, n)
        BY <2>2, <3>3 DEF Gains, QueueInv, QueuesWait
      <4>2. PICK s : s = node[e][n].sock
        OBVIOUS
      <4>. QED  BY <3>2, <4>1, <4>2 DEF Waits, ReadyConn
    <3>. QED  BY <3>1, <3>3 DEF QueuesWait
  <2>. QED  BY <1>7, <2>1, <2>2 DEF Sends
<1>. QED  BY <1>3, <1>4, <1>5, <1>6, <1>7 DEF RequestMove

LEMMA QueueStep == TypeOK /\ LinkInv /\ QueueInv /\ [Next]_vars => QueueInv'
<1> SUFFICES ASSUME TypeOK, LinkInv, QueueInv, [Next]_vars  PROVE QueueInv'
  OBVIOUS
<1>1. LinkMove /\ RequestMove
  BY LinkMoves, RequestsMove DEF LinkInv
<1>2. OwnLink'
  BY <1>1, OwnLinkStep DEF QueueInv
<1>. QED  BY <1>1, <1>2, WaitsStep DEF QueueInv

LEMMA QueueInit == Init => QueueInv
  BY DEF Init, UnusedNode, QueueInv, OwnLink, QueuesWait, Waits

LEMMA QueueInvariant == Spec => []QueueInv
  BY QueueInit, QueueStep, TypeCorrect, LinkInvariant, PTL DEF Spec
-----------------------------------------------------------------------------
(* Lines of whole bodies stay so when they are moved.                      *)

\* The frames that ask something of what stands before them.
LEMMA OtherFrames ==
  \A f : f.type \notin RequestTypes => /\ FrameOK(f) /\ f.type \notin Chunked
                                       /\ \A p : Follows(p, f)
  BY DEF FrameOK, Follows, Chunked, RequestTypes

LEMMA FirstOf ==
  ASSUME NEW S, NEW q \in Seq(S), q # <<>>
  PROVE  /\ 1 \in DOMAIN q /\ Head(q) = q[1] /\ Head(q) \in S
         /\ DOMAIN q = 1 .. Len(q) /\ Len(q) \in Nat \ {0}
         /\ Tail(q) \in Seq(S) /\ DOMAIN Tail(q) = 1 .. Len(q) - 1
         /\ \A i \in 1 .. Len(q) - 1 : Tail(q)[i] = q[i + 1]
  BY EmptySeq, HeadTailProperties, ElementOfSeq

\* What r may be for whatever q is.
Keeps(q, r) ==
    /\ Whole(q) => Whole(r)
    /\ Starts(q) => Starts(r)
    /\ \A rq : HeadExpected(rq, q) => HeadExpected(rq, r)

LEMMA RestWhole ==
  ASSUME NEW q \in Seq(SocketEvents), NEW r \in Seq(SocketEvents), Rest(q, r)
  PROVE  Keeps(q, r)
<1>1. Whole(q) => Whole(r)
  BY OtherFrames DEF Whole, Rest
<1>2. ASSUME r # <<>>, Head(r).type \in Chunked  PROVE q # <<>> /\ Head(q) = Head(r)
  <2>1. 1 \in DOMAIN r /\ Head(r) = r[1]
    BY <1>2, FirstOf
  <2>2. 1 \in DOMAIN q /\ q[1] = r[1]
    BY <1>2, <2>1 DEF Rest, Chunked, RequestTypes
  <2>3. q # <<>>
    BY <2>2
  <2>. QED  BY <2>1, <2>2, <2>3, FirstOf
<1>3. Starts(q) => Starts(r)
  BY <1>2 DEF Starts
<1>4. \A rq : HeadExpected(rq, q) => HeadExpected(rq, r)
  BY <1>2 DEF HeadExpected, Expects
<1>. QED  BY <1>1, <1>3, <1>4 DEF Keeps

LEMMA TailWhole ==
  ASSUME NEW q \in Seq(SocketEvents), q # <<>>, Whole(q)
  PROVE  /\ Whole(Tail(q)) /\ Tail(q) \in Seq(SocketEvents) /\ FrameOK(Head(q))
         /\ Tail(q) # <<>> => Follows(Head(q), Head(Tail(q))) /\ FrameOK(Head(Tail(q)))
<1>1. /\ 1 \in DOMAIN q /\ Head(q) = q[1] /\ DOMAIN q = 1 .. Len(q) /\ Len(q) \in Nat \ {0}
      /\ Tail(q) \in Seq(SocketEvents) /\ DOMAIN Tail(q) = 1 .. Len(q) - 1
      /\ \A i \in 1 .. Len(q) - 1 : Tail(q)[i] = q[i + 1]
  BY FirstOf
<1> DEFINE r == Tail(q)
<1>2. \A i \in DOMAIN r : /\ i + 1 \in DOMAIN q /\ i + 1 > 1 /\ r[i] = q[i + 1] /\ (i + 1) - 1 = i
                          /\ i > 1 => i - 1 \in DOMAIN r /\ r[i - 1] = q[i]
  BY <1>1
<1>3. \A i \in DOMAIN q : FrameOK(q[i]) /\ (i > 1 => Follows(q[i - 1], q[i]))
  BY DEF Whole
<1> HIDE DEF r
<1>4. Whole(r)
  <2> SUFFICES ASSUME NEW i \in DOMAIN r
               PROVE  FrameOK(r[i]) /\ (i > 1 => Follows(r[i - 1], r[i]))
    BY DEF Whole
  <2>1. i + 1 \in DOMAIN q /\ i + 1 > 1 /\ r[i] = q[i + 1] /\ (i + 1) - 1 = i
    BY <1>2
  <2>2. FrameOK(q[i + 1]) /\ Follows(q[(i + 1) - 1], q[i + 1])
    BY <1>3, <2>1
  <2>. QED  BY <1>2, <2>1, <2>2
<1>5. ASSUME r # <<>>  PROVE Follows(Head(q), Head(r)) /\ FrameOK(Head(r))
  <2>1. 1 \in DOMAIN r /\ Head(r) = r[1]
    BY <1>1, <1>5, FirstOf DEF r
  <2>2. Head(r) = q[2] /\ 2 \in DOMAIN q /\ 2 > 1 /\ 2 - 1 = 1
    <3>1. 1 + 1 \in DOMAIN q /\ r[1] = q[1 + 1]
      BY <1>2, <2>1
    <3>. QED  BY <2>1, <3>1
  <2>. QED  BY <1>1, <1>3, <2>2
<1>. QED  BY <1>1, <1>3, <1>4, <1>5 DEF r

LEMMA JoinedWhole ==
  ASSUME NEW q \in Seq(SocketEvents), NEW fs \in Seq(SocketEvents), Whole(fs), Starts(fs)
  PROVE  Keeps(q, q \o fs)
<1> DEFINE r == q \o fs
<1>1. /\ Len(q) \in Nat /\ Len(fs) \in Nat /\ DOMAIN q = 1 .. Len(q) /\ DOMAIN fs = 1 .. Len(fs)
      /\ DOMAIN r = 1 .. Len(q) + Len(fs) /\ r \in Seq(SocketEvents)
      /\ \A i \in 1 .. Len(q) + Len(fs) : r[i] = IF i <= Len(q) THEN q[i] ELSE fs[i - Len(q)]
  OBVIOUS
<1> HIDE DEF r
<1>2. Whole(q) => \A i \in DOMAIN q : FrameOK(q[i]) /\ (i > 1 => Follows(q[i - 1], q[i]))
  BY DEF Whole
<1>3. \A i \in DOMAIN fs : FrameOK(fs[i]) /\ (i > 1 => Follows(fs[i - 1], fs[i]))
  BY DEF Whole
<1>4. ASSUME 1 \in DOMAIN fs  PROVE fs[1].type \notin Chunked
  <2>1. fs # <<>>
    BY <1>4
  <2>. QED  BY <2>1, FirstOf DEF Starts
<1>5. \A p, f : f.type \notin Chunked => Follows(p, f)
  BY DEF Follows
<1>6. Whole(q) => Whole(r)
  <2> SUFFICES ASSUME Whole(q), NEW i \in DOMAIN r
               PROVE  FrameOK(r[i]) /\ (i > 1 => Follows(r[i - 1], r[i]))
    BY DEF Whole
  <2>1. CASE i <= Len(q)
    <3>1. i \in DOMAIN q /\ r[i] = q[i] /\ (i > 1 => r[i - 1] = q[i - 1])
      BY <1>1, <2>1
    <3>. QED  BY <1>2, <3>1
  <2>2. CASE i > Len(q)
    <3> DEFINE j == i - Len(q)
    <3>1. j \in DOMAIN fs /\ r[i] = fs[j] /\ (j > 1 => r[i - 1] = fs[j - 1])
      BY <1>1, <2>2
    <3>2. j = 1 \/ j > 1
      BY <1>1, <3>1
    <3> HIDE DEF j
    <3>. QED  BY <1>3, <1>4, <1>5, <3>1, <3>2
  <2>. QED  BY <1>1, <2>1, <2>2
<1>7. ASSUME r # <<>>, Head(r).type \in Chunked  PROVE q # <<>> /\ Head(q) = Head(r)
  <2>1. 1 \in DOMAIN r /\ Head(r) = r[1]
    BY <1>1, <1>7, FirstOf
  <2>2. CASE q = <<>>
    <3>1. 1 \in DOMAIN fs /\ r[1] = fs[1]
      BY <1>1, <2>1, <2>2
    <3>. QED  BY <1>4, <1>7, <2>1, <3>1
  <2>3. CASE q # <<>>
    <3>1. 1 \in DOMAIN q /\ Head(q) = q[1]
      BY <2>3, FirstOf
    <3>2. r[1] = q[1]
      BY <1>1, <3>1
    <3>. QED  BY <2>1, <2>3, <3>1, <3>2
  <2>. QED  BY <2>2, <2>3
<1>8. Starts(q) => Starts(r)
  BY <1>7 DEF Starts
<1>9. \A rq : HeadExpected(rq, q) => HeadExpected(rq, r)
  BY <1>7 DEF HeadExpected, Expects
<1>. QED  BY <1>6, <1>8, <1>9 DEF r, Keeps

\* The chunks of a body.
LEMMA BodyChunks ==
  ASSUME NEW x \in Call
  PROVE  /\ Body(x) \in Bodies /\ Len(Body(x)) \in Nat \ {0}
         /\ DOMAIN Body(x) = 1 .. Len(Body(x))
         /\ \A i \in 1 .. Len(Body(x)) : Body(x)[i] = <<x, i>>
         /\ CallOf(Body(x)) = x
<1>1. PICK n \in Nat \ {0} : Body(x) = [i \in 1 .. n |-> <<x, i>>]
  BY BoundAssumption DEF Body
<1>2. Body(x) \in Seq(Call \X Nat) /\ Len(Body(x)) = n /\ DOMAIN Body(x) = 1 .. n
  BY <1>1
<1>3. Body(x) \in Bodies
  BY BodyType
<1>4. \A i \in 1 .. n : Body(x)[i] = <<x, i>>
  BY <1>1
<1>5. CallOf(Body(x)) = x
  BY <1>4 DEF CallOf
<1>. QED  BY <1>2, <1>3, <1>4, <1>5

\* The frames of a request: one that completes it, at the end.
LEMMA FramesWhole ==
  ASSUME TypeOK, NEW x \in Call
  PROVE  /\ NewFrames(x) \in Seq(SocketEvents) /\ Whole(NewFrames(x)) /\ Starts(NewFrames(x))
         /\ \A i \in DOMAIN NewFrames(x) :
               /\ NewFrames(x)[i].type \in RequestTypes
               /\ NewFrames(x)[i].type \in {"SMALL", "PART_END"} =>
                     CallOf(NewFrames(x)[i].body) = x /\ i = Len(NewFrames(x))
<1> DEFINE fs == NewFrames(x)
           s == NextSession(sendSession[At(x)])
           L == Len(Body(x))
           hdr == [type |-> "LARGE", addr |-> WireAddr(x),
                   session |-> IF Workload[x].push THEN 0 ELSE s,
                   push |-> Workload[x].push, total |-> L]
           ch == Chunks(s, Body(x))
<1>1. /\ Body(x) \in Bodies /\ L \in Nat \ {0} /\ DOMAIN Body(x) = 1 .. L
      /\ \A i \in 1 .. L : Body(x)[i] = <<x, i>>
      /\ CallOf(Body(x)) = x
  BY BodyChunks
<1>2. s \in Nat \ {0} /\ fs \in Seq(SocketEvents)
  <2>1. sendSession[At(x)] \in Nat
    BY SessionType DEF TypeOK, DaemonTypeOK
  <2>. QED  BY <2>1, SessionType DEF NextSession
<1>3. CASE ~Workload[x].large
  <2> DEFINE f == [type |-> "SMALL", addr |-> WireAddr(x),
                   session |-> IF Workload[x].push THEN 0 ELSE s, body |-> Body(x)]
  <2>1. fs = <<f>>
    BY <1>3 DEF NewFrames, RequestFrames, SmallFrame
  <2>2. f.type = "SMALL" /\ f.body = Body(x)
    OBVIOUS
  <2> HIDE DEF f, fs
  <2>3. DOMAIN fs = {1} /\ fs[1] = f /\ Len(fs) = 1 /\ Head(fs) = f
    BY <2>1
  <2>. QED  BY <1>1, <1>2, <2>2, <2>3 DEF Whole, Starts, FrameOK, Follows, Chunked, RequestTypes, fs
<1>4. CASE Workload[x].large
  <2>1. fs = <<hdr>> \o ch
    BY <1>4 DEF NewFrames, RequestFrames, LargeFrames
  <2>2. hdr.type = "LARGE" /\ hdr.session \in {0, s}
    OBVIOUS
  <2> HIDE DEF s
  <2>3. ch = [i \in 1 .. L |-> [type |-> IF i = L THEN "PART_END" ELSE "PART",
                                session |-> s, body |-> <<Body(x)[i]>>]]
    BY DEF Chunks
  <2> HIDE DEF ch, hdr, L
  <2>4. \A i \in 1 .. L : /\ ch[i].type = IF i = L THEN "PART_END" ELSE "PART"
                          /\ ch[i].session = s /\ ch[i].body = <<<<x, i>>>>
    BY <1>1, <2>3
  <2>5. ch \in Seq({ch[i] : i \in 1 .. L}) /\ Len(ch) = L
    <3>1. DOMAIN ch = 1 .. L /\ ch = [i \in 1 .. L |-> ch[i]]
      BY <2>3
    <3>. QED  BY <1>1, <3>1
  <2>6. <<hdr>> \in Seq({hdr}) /\ Len(<<hdr>>) = 1 /\ <<hdr>>[1] = hdr
    OBVIOUS
  <2> DEFINE S == {ch[i] : i \in 1 .. L} \cup {hdr}
  <2>7. <<hdr>> \in Seq(S) /\ ch \in Seq(S)
    BY <2>5, <2>6, SeqWiden
  <2> HIDE DEF S, fs
  <2>8. /\ Len(fs) = 1 + L /\ DOMAIN fs = 1 .. 1 + L
        /\ \A i \in 1 .. 1 + L : fs[i] = IF i <= 1 THEN <<hdr>>[i] ELSE ch[i - 1]
    BY <1>1, <2>1, <2>5, <2>6, <2>7
  <2>9. /\ fs[1] = hdr
        /\ \A i \in 2 .. 1 + L : i - 1 \in 1 .. L /\ fs[i] = ch[i - 1]
    BY <1>1, <2>6, <2>8
  <2>10. \A i \in DOMAIN fs :
           /\ fs[i].type \in RequestTypes
           /\ fs[i].type \in {"SMALL", "PART_END"} => CallOf(fs[i].body) = x /\ i = Len(fs)
    <3> SUFFICES ASSUME NEW i \in 1 .. 1 + L
                 PROVE  /\ fs[i].type \in RequestTypes
                        /\ fs[i].type \in {"SMALL", "PART_END"} =>
                              CallOf(fs[i].body) = x /\ i = Len(fs)
      BY <2>8
    <3>1. CASE i = 1
      BY <2>2, <2>9, <3>1 DEF RequestTypes
    <3>2. CASE i # 1
      <4>1. i - 1 \in 1 .. L /\ fs[i] = ch[i - 1]
        BY <1>1, <2>9, <3>2
      <4>2. /\ ch[i - 1].type = IF i - 1 = L THEN "PART_END" ELSE "PART"
            /\ ch[i - 1].body = <<<<x, i - 1>>>>
        BY <2>4, <4>1
      <4>3. CallOf(ch[i - 1].body) = x
        BY <4>2 DEF CallOf
      <4>. QED  BY <1>1, <2>8, <4>1, <4>2, <4>3 DEF RequestTypes
    <3>. QED  BY <3>1, <3>2
  <2>11. Whole(fs)
    <3> SUFFICES ASSUME NEW i \in 1 .. 1 + L
                 PROVE  FrameOK(fs[i]) /\ (i > 1 => Follows(fs[i - 1], fs[i]))
      BY <2>8 DEF Whole
    <3>1. CASE i = 1
      BY <2>2, <2>9, <3>1 DEF FrameOK, Chunked
    <3>2. CASE i # 1
      <4> DEFINE j == i - 1
      <4>1. j \in 1 .. L /\ fs[i] = ch[j]
        BY <1>1, <2>9, <3>2
      <4>2. /\ ch[j].type = IF j = L THEN "PART_END" ELSE "PART"
            /\ ch[j].session = s /\ ch[j].body = <<<<x, j>>>>
        BY <2>4, <4>1
      <4> HIDE DEF j
      <4>3. FrameOK(ch[j])
        BY <1>1, <1>2, <4>1, <4>2 DEF FrameOK, Chunked, L
      <4>4. j = 1 => Follows(hdr, ch[j])
        BY <2>2, <4>2 DEF Follows
      <4>5. ASSUME j # 1  PROVE Follows(ch[j - 1], ch[j])
        <5>1. j - 1 \in 1 .. L /\ j - 1 # L
          BY <1>1, <4>1, <4>5
        <5>2. /\ ch[j - 1].type = "PART" /\ ch[j - 1].session = s
              /\ ch[j - 1].body = <<<<x, j - 1>>>>
          BY <2>4, <5>1
        <5>. QED  BY <4>1, <4>2, <5>1, <5>2 DEF Follows
      <4>6. fs[i - 1] = IF j = 1 THEN hdr ELSE ch[j - 1]
        <5>1. CASE j = 1
          BY <2>9, <5>1 DEF j
        <5>2. CASE j # 1
          BY <1>1, <2>9, <3>2, <5>2 DEF j
        <5>. QED  BY <5>1, <5>2
      <4>. QED  BY <4>1, <4>3, <4>4, <4>5, <4>6
    <3>. QED  BY <3>1, <3>2
  <2>12. Starts(fs)
    <3>1. fs # <<>>
      BY <1>1, <2>8
    <3>2. Head(fs) = hdr
      BY <1>2, <2>9, <3>1, FirstOf DEF fs
    <3>. QED  BY <2>2, <3>2 DEF Starts, Chunked
  <2>. QED  BY <1>2, <2>10, <2>11, <2>12 DEF fs
<1>. QED  BY <1>3, <1>4
-----------------------------------------------------------------------------
(* What a reassembly has is what the frames before took it to.             *)

LEMMA Prefixes ==
  ASSUME NEW x \in Call, NEW j \in 1 .. Len(Body(x))
  PROVE  /\ SubSeq(Body(x), 1, j - 1) \o <<<<x, j>>>> = SubSeq(Body(x), 1, j)
         /\ SubSeq(Body(x), 1, Len(Body(x))) = Body(x)
<1> DEFINE q == Body(x)
           p == SubSeq(q, 1, j - 1)
           t == <<<<x, j>>>>
           u == SubSeq(q, 1, j)
<1>1. /\ q \in Seq(BodyChunk) /\ Len(q) \in Nat \ {0} /\ DOMAIN q = 1 .. Len(q)
      /\ \A i \in 1 .. Len(q) : q[i] = <<x, i>>
  BY BodyChunks DEF Bodies
<1>2. j \in Nat /\ 1 <= j /\ j <= Len(q)
  BY <1>1
<1> HIDE DEF q
<1>3. /\ p \in Seq(BodyChunk) /\ Len(p) = j - 1 /\ \A i \in 1 .. j - 1 : p[i] = q[i]
      /\ u \in Seq(BodyChunk) /\ Len(u) = j /\ \A i \in 1 .. j : u[i] = q[i]
  BY <1>1, <1>2, SubSeqProperties
<1>4. t \in Seq(BodyChunk) /\ Len(t) = 1 /\ t[1] = <<x, j>>
  BY <1>2 DEF BodyChunk
<1> HIDE DEF p, t, u
<1>5. p \o t \in Seq(BodyChunk) /\ Len(p \o t) = j
      /\ \A i \in 1 .. j : (p \o t)[i] = IF i <= j - 1 THEN p[i] ELSE t[i - (j - 1)]
  <2>1. /\ p \o t \in Seq(BodyChunk) /\ Len(p \o t) = Len(p) + Len(t)
        /\ \A i \in 1 .. Len(p) + Len(t) :
              (p \o t)[i] = IF i <= Len(p) THEN p[i] ELSE t[i - Len(p)]
    BY <1>3, <1>4, ConcatProperties
  <2>2. Len(p) + Len(t) = j
    BY <1>2, <1>3, <1>4
  <2>. QED  BY <1>3, <2>1, <2>2
<1>6. \A i \in 1 .. j : (p \o t)[i] = u[i]
  <2> SUFFICES ASSUME NEW i \in 1 .. j  PROVE (p \o t)[i] = u[i]
    OBVIOUS
  <2>0. i \in Int /\ (i <= j - 1 \/ i > j - 1)
    BY <1>2
  <2>1. CASE i <= j - 1
    <3>1. i \in 1 .. j - 1
      BY <1>2, <2>1
    <3>2. (p \o t)[i] = p[i]
      BY <1>5, <2>1
    <3>. QED  BY <1>3, <3>1, <3>2
  <2>2. CASE i > j - 1
    <3>1. i = j /\ i - (j - 1) = 1
      BY <1>2, <2>2
    <3>2. (p \o t)[i] = t[i - (j - 1)]
      BY <1>5, <2>2
    <3>3. (p \o t)[i] = <<x, j>>
      BY <1>4, <3>1, <3>2
    <3>. QED  BY <1>1, <1>2, <1>3, <3>1, <3>3
  <2>. QED  BY <2>0, <2>1, <2>2
<1>7. p \o t = u
  BY <1>3, <1>5, <1>6, SeqEqual
<1>8. SubSeq(q, 1, Len(q)) = q
  BY <1>1
<1>. QED  BY <1>7, <1>8 DEF p, t, u, q

LEMMA TakenUp ==
  ASSUME NEW r, NEW f, NEW s, NEW g, FrameOK(f), FrameOK(g), Follows(f, g),
         Expects(r, f), Took(r, f, s)
  PROVE  Expects(s, g)
<1> SUFFICES ASSUME g.type \in Chunked, Accepts(s, g.session)
             PROVE  s.got = SubSeq(Body(g.body[1][1]), 1, g.body[1][2] - 1)
  BY DEF Expects
<1>1. CASE f.type = "LARGE"
  <2>1. s.got = <<>> /\ g.body[1][2] = 1
    BY <1>1 DEF Took, Follows, Chunked
  <2>2. SubSeq(Body(g.body[1][1]), 1, 0) = <<>>
    <3>1. PICK x \in Call : \E j \in 1 .. Len(Body(x)) : g.body = <<<<x, j>>>>
      BY DEF FrameOK
    <3>2. g.body[1][1] = x
      BY <3>1
    <3>3. SubSeq(Body(x), 1, 0) = <<>>
      BY BodyChunks DEF Bodies
    <3>. QED  BY <3>2, <3>3
  <2>. QED  BY <2>1, <2>2
<1>2. CASE f.type = "PART"
  <2>0. PICK x \in Call : \E j \in 1 .. Len(Body(x)) : f.body = <<<<x, j>>>>
    BY <1>2 DEF FrameOK, Chunked
  <2>1. PICK j \in 1 .. Len(Body(x)) : f.body = <<<<x, j>>>>
    BY <2>0
  <2>2. f.body[1][1] = x /\ f.body[1][2] = j
    BY <2>1
  <2>3. f.session = g.session /\ g.body[1][1] = x /\ g.body[1][2] = j + 1
    BY <1>2, <2>2 DEF Follows
  <2>4. Accepts(r, f.session)
    BY <1>2, <2>3 DEF Took, Chunked
  <2>5. s.got = r.got \o f.body
    BY <1>2, <2>4 DEF Took, Chunked
  <2>6. r.got = SubSeq(Body(x), 1, j - 1)
    BY <1>2, <2>2, <2>4 DEF Expects, Chunked
  <2>7. s.got = SubSeq(Body(x), 1, j)
    BY <2>1, <2>5, <2>6, Prefixes
  <2>8. j + 1 - 1 = j
    BY BodyChunks
  <2>. QED  BY <2>3, <2>7, <2>8
<1>. QED  BY <1>1, <1>2 DEF Follows

\* What a daemon hands on is the whole body that its last frame completes.
LEMMA HandedWhole ==
  ASSUME TypeOK, LinkInv, BodyInv, NEW d \in Daemon, NEW c \in SockId, Heard(d, c), Hands(d, c)
  PROVE  \E x \in Call, y \in ServedEntry :
            /\ served' = [served EXCEPT ![d] = Append(@, y)]
            /\ y.sock = c /\ y.body = Body(x) /\ CallOf(Frame(d, c).body) = x
            /\ Frame(d, c).type \in {"SMALL", "PART_END"}
<1> DEFINE f == Frame(d, c)
<1>1. PICK y \in ServedEntry, k \in Slot :
        /\ served' = [served EXCEPT ![d] = Append(@, y)] /\ y.sock = c
        /\ conn[d][k].sock = c /\ Inward(d, k)
        /\ \/ f.type = "SMALL" /\ y.body = f.body
           \/ /\ f.type = "PART_END" /\ Accepts(conn[d][k].rq, f.session)
              /\ y.body = conn[d][k].rq.got \o f.body
  BY DEF Hands
<1>2. FrameOK(f) /\ inbox[d][c] # <<>> /\ f = Head(inbox[d][c])
  <2>1. inbox[d][c] # <<>> /\ inbox[d][c] \in Seq(SocketEvents) /\ Whole(inbox[d][c])
    BY LinkTypes DEF Heard, InboxType, BodyInv, BoxWhole
  <2>. QED  BY <2>1, TailWhole DEF Frame
<1>3. Expects(conn[d][k].rq, f)
  BY <1>1, <1>2 DEF BodyInv, SlotExpects, HeadExpected
<1> HIDE DEF f
<1>4. CASE f.type = "SMALL"
  <2>1. PICK x \in Call : f.body = Body(x)
    BY <1>2, <1>4 DEF FrameOK
  <2>2. CallOf(f.body) = x
    BY <2>1, BodyChunks
  <2>. QED  BY <1>1, <1>4, <2>1, <2>2 DEF f
<1>5. CASE f.type = "PART_END"
  <2>1. PICK x \in Call : f.body = <<<<x, Len(Body(x))>>>>
    BY <1>2, <1>5 DEF FrameOK, Chunked
  <2>2. f.body[1][1] = x /\ f.body[1][2] = Len(Body(x)) /\ CallOf(f.body) = x
    BY <2>1 DEF CallOf
  <2>3. conn[d][k].rq.got = SubSeq(Body(x), 1, Len(Body(x)) - 1)
    BY <1>1, <1>3, <1>5, <2>2 DEF Expects, Chunked
  <2>4. Len(Body(x)) \in 1 .. Len(Body(x))
    BY BodyChunks
  <2>5. y.body = Body(x)
    BY <1>1, <1>5, <2>1, <2>3, <2>4, Prefixes
  <2>. QED  BY <1>1, <1>5, <2>2, <2>5 DEF f
<1>. QED  BY <1>1, <1>4, <1>5
-----------------------------------------------------------------------------
(* A step keeps bodies whole.                                              *)

LEMMA WrittenAt ==
  ASSUME NEW box \in InboxType, NEW d, NEW c, NEW fs, NEW e \in Daemon, NEW s \in SockId
  PROVE  \/ Written(box, d, c, fs)[e][s] = box[e][s]
         \/ e = Peer(d, c) /\ s = c /\ Written(box, d, c, fs)[e][s] = box[e][s] \o fs
  BY DEF Written, InboxType

LEMMA KeepsSelf == \A q : Keeps(q, q)
  BY DEF Keeps

LEMMA WrittenKeeps ==
  ASSUME NEW box \in InboxType, NEW d, NEW c, NEW fs \in Seq(SocketEvents), Whole(fs), Starts(fs),
         NEW e \in Daemon, NEW s \in SockId
  PROVE  Keeps(box[e][s], Written(box, d, c, fs)[e][s])
<1>1. box[e][s] \in Seq(SocketEvents)
  BY DEF InboxType
<1>2. Keeps(box[e][s], box[e][s] \o fs)
  BY <1>1, JoinedWhole
<1>3. \/ Written(box, d, c, fs)[e][s] = box[e][s]
      \/ Written(box, d, c, fs)[e][s] = box[e][s] \o fs
  BY WrittenAt
<1>. QED  BY <1>2, <1>3, KeepsSelf

LEMMA RestKeeps ==
  ASSUME NEW old \in InboxType, NEW new \in InboxType, RestBoxes(old, new),
         NEW e \in Daemon, NEW s \in SockId
  PROVE  Keeps(old[e][s], new[e][s])
<1>1. old[e][s] \in Seq(SocketEvents) /\ new[e][s] \in Seq(SocketEvents) /\ Rest(old[e][s], new[e][s])
  BY DEF InboxType, RestBoxes
<1>. QED  BY <1>1, RestWhole

LEMMA PoppedAt ==
  ASSUME inbox \in InboxType, NEW d \in Daemon, NEW c \in SockId, NEW e \in Daemon, NEW s \in SockId
  PROVE  Popped(d, c)[e][s] = IF e = d /\ s = c THEN Tail(inbox[d][c]) ELSE inbox[e][s]
  BY DEF Popped, InboxType

\* The parts of BodyInv that a step leaves alone.
BoxesKeep(d, c) ==
    \A e \in Daemon, s \in SockId : ~(e = d /\ s = c) => Keeps(inbox[e][s], inbox'[e][s])

LEMMA QueuesKept ==
  ASSUME BodyInv, QueuesQuiet, NEW d \in Daemon, NEW n \in Node  PROVE QueueWhole(d, n)'
<1>1. QueueWhole(d, n)
  BY DEF BodyInv
<1>2. Whole(<<>>) /\ Starts(<<>>)
  BY DEF Whole, Starts
<1>3. node'[d][n].queue = <<>> \/ node'[d][n].queue = node[d][n].queue
  BY DEF QueuesQuiet
<1>. QED  BY <1>1, <1>2, <1>3 DEF QueueWhole

LEMMA BoxKept ==
  ASSUME BodyInv, NEW d \in Daemon, NEW c \in SockId, Keeps(inbox[d][c], inbox'[d][c]),
         Unheard(c)' => Unheard(c)
  PROVE  BoxWhole(d, c)'
<1>1. BoxWhole(d, c)
  BY DEF BodyInv
<1>2. Whole(inbox'[d][c]) /\ (Starts(inbox[d][c]) => Starts(inbox'[d][c]))
  BY <1>1 DEF BoxWhole, Keeps
<1>. QED  BY <1>1, <1>2 DEF BoxWhole

LEMMA SlotKept ==
  ASSUME BodyInv, NEW d \in Daemon, NEW k \in Slot,
         conn'[d][k].sock = conn[d][k].sock, conn'[d][k].outbound = conn[d][k].outbound,
         ~conn'[d][k].outbound => conn'[d][k].rq = conn[d][k].rq,
         conn[d][k].sock # NoSock =>
            Keeps(inbox[d][conn[d][k].sock], inbox'[d][conn[d][k].sock])
  PROVE  SlotExpects(d, k)'
<1>1. SlotExpects(d, k)
  BY DEF BodyInv
<1>. QED  BY <1>1 DEF SlotExpects, Inward, Keeps

LEMMA StartsExpected == \A q : Starts(q) => \A r : HeadExpected(r, q)
  BY DEF Starts, HeadExpected, Expects

LEMMA SlotSocks ==
  ASSUME TypeOK, LinkInv, NEW d \in Daemon, NEW k \in Slot, conn[d][k].sock # NoSock
  PROVE  conn[d][k].sock \in SockId
  BY LinkParts, LinkTypes DEF LinksOf, SlotOK

LEMMA QuietBodies ==
  ASSUME TypeOK, TypeOK', LinkInv, BodyInv, Quiet  PROVE BodyInv'
<1>1. \A e \in Daemon, s \in SockId : Keeps(inbox[e][s], inbox'[e][s])
  <2>1. inbox \in InboxType /\ inbox' \in InboxType
    BY DEF TypeOK, NetworkTypeOK, InboxType
  <2>. QED  BY <2>1, RestKeeps DEF Quiet
<1> SUFFICES ASSUME NEW d \in Daemon
             PROVE  /\ \A n \in Node : QueueWhole(d, n)'
                    /\ \A c \in SockId : BoxWhole(d, c)'
                    /\ \A k \in Slot : SlotExpects(d, k)'
                    /\ ServedWhole(d)'
  BY DEF BodyInv
<1>2. \A n \in Node : QueueWhole(d, n)'
  BY QueuesKept DEF Quiet
<1>3. ASSUME NEW c \in SockId  PROVE BoxWhole(d, c)'
  BY <1>1, BoxKept DEF Quiet, SocksQuiet
<1>4. ASSUME NEW k \in Slot  PROVE SlotExpects(d, k)'
  <2>1. CASE conn'[d][k].sock # NoSock /\ SameSlot(conn[d][k], conn'[d][k])
    <3>1. conn[d][k].sock # NoSock => conn[d][k].sock \in SockId
      BY SlotSocks
    <3>. QED  BY <1>1, <2>1, <3>1, SlotKept DEF SameSlot
  <2>2. CASE ~(conn'[d][k].sock # NoSock /\ SameSlot(conn[d][k], conn'[d][k]))
    BY <2>2 DEF Quiet, SlotsQuiet, OpenedSlot, SlotExpects, Inward
  <2>. QED  BY <2>1, <2>2
<1>5. ServedWhole(d)'
  BY DEF BodyInv, ServedWhole, Quiet
<1>. QED  BY <1>2, <1>3, <1>4, <1>5

LEMMA TakenBodies ==
  ASSUME TypeOK, TypeOK', LinkInv, BodyInv, NEW d \in Daemon, NEW c \in SockId, Takes(d, c)
  PROVE  BodyInv'
<1> DEFINE q == inbox[d][c]
           r == inbox'[d][c]
<1>1. inbox \in InboxType /\ inbox' \in InboxType
  BY DEF TypeOK, NetworkTypeOK, InboxType
<1>2. /\ q \in Seq(SocketEvents) /\ r \in Seq(SocketEvents) /\ q # <<>> /\ ~Unheard(c) /\ Whole(q)
      /\ Frame(d, c) = Head(q)
  BY <1>1 DEF Takes, Heard, InboxType, BodyInv, BoxWhole, Frame
<1>3. BoxesKeep(d, c) /\ Keeps(Tail(q), r)
  <2>1. Popped(d, c) \in InboxType
    BY <1>1, <1>2, HeadTailProperties DEF Popped, InboxType
  <2>2. \A e \in Daemon, s \in SockId : Keeps(Popped(d, c)[e][s], inbox'[e][s])
    BY <1>1, <2>1, RestKeeps DEF Takes
  <2>. QED  BY <1>1, <2>2, PoppedAt DEF BoxesKeep
<1>4. Whole(Tail(q)) /\ FrameOK(Head(q))
      /\ (Tail(q) # <<>> => Follows(Head(q), Head(Tail(q))) /\ FrameOK(Head(Tail(q))))
  BY <1>2, TailWhole
<1>5. \A s \in SockId : Unheard(s)' <=> Unheard(s)
  BY DEF Takes, Unheard
<1> SUFFICES ASSUME NEW e \in Daemon
             PROVE  /\ \A n \in Node : QueueWhole(e, n)'
                    /\ \A s \in SockId : BoxWhole(e, s)'
                    /\ \A k \in Slot : SlotExpects(e, k)'
                    /\ ServedWhole(e)'
  BY DEF BodyInv
<1>6. \A n \in Node : QueueWhole(e, n)'
  BY QueuesKept DEF Takes
<1>7. ASSUME NEW s \in SockId  PROVE BoxWhole(e, s)'
  <2>1. CASE e = d /\ s = c
    <3>1. Whole(r)
      BY <1>3, <1>4 DEF Keeps
    <3>. QED  BY <1>2, <1>5, <2>1, <3>1 DEF BoxWhole
  <2>2. CASE ~(e = d /\ s = c)
    BY <1>3, <1>5, <2>2, BoxKept DEF BoxesKeep
  <2>. QED  BY <2>1, <2>2
<1>8. ASSUME NEW k \in Slot  PROVE SlotExpects(e, k)'
  <2>1. CASE /\ SameSlot(conn[e][k], conn'[e][k]) /\ conn'[e][k].sock # NoSock
             /\ ~(e = d /\ conn[e][k].sock = c /\ Inward(e, k))
    <3>1. conn[e][k].sock \in SockId
      BY <2>1, SlotSocks DEF SameSlot
    <3>2. CASE Keeps(inbox[e][conn[e][k].sock], inbox'[e][conn[e][k].sock])
      BY <2>1, <3>2, SlotKept DEF SameSlot
    <3>3. CASE e = d /\ conn[e][k].sock = c
      BY <2>1, <3>3 DEF SameSlot, Inward, SlotExpects
    <3>. QED  BY <1>3, <3>1, <3>2, <3>3 DEF BoxesKeep
  <2>2. CASE /\ e = d /\ conn[e][k].sock = c /\ conn'[e][k].sock = c /\ Inward(e, k)
             /\ Took(conn[e][k].rq, Frame(d, c), conn'[e][k].rq)
    <3>1. Expects(conn[d][k].rq, Head(q))
      BY <1>2, <2>2 DEF BodyInv, SlotExpects, HeadExpected
    <3>2. HeadExpected(conn'[d][k].rq, Tail(q))
      BY <1>2, <1>4, <2>2, <3>1, TakenUp DEF HeadExpected
    <3>3. HeadExpected(conn'[d][k].rq, r)
      BY <1>3, <3>2 DEF Keeps
    <3>. QED  BY <2>2, <3>3 DEF SlotExpects
  <2>3. CASE e = d /\ conn'[e][k] = InboundConn(c) /\ Frame(d, c).type = "ACCEPT"
    <3>1. Starts(Tail(q))
      BY <1>2, <1>4, <2>3 DEF Starts, Follows
    <3>2. Starts(r)
      BY <1>3, <3>1 DEF Keeps
    <3>3. conn'[e][k].sock = c
      BY <2>3 DEF InboundConn, FreeConn
    <3>. QED  BY <2>3, <3>2, <3>3, StartsExpected DEF SlotExpects
  <2>4. CASE conn'[e][k].sock = NoSock
    BY <2>4 DEF SlotExpects, Inward
  <2>. QED  BY <2>1, <2>2, <2>3, <2>4 DEF Takes, SlotsTake
<1>9. ServedWhole(e)'
  <2>1. CASE UNCHANGED served
    BY <2>1 DEF BodyInv, ServedWhole
  <2>2. CASE Hands(d, c)
    <3>1. PICK x \in Call, y \in ServedEntry :
            /\ served' = [served EXCEPT ![d] = Append(@, y)] /\ y.body = Body(x)
      BY <2>2, HandedWhole DEF Takes
    <3>2. y.body = Body(CallOf(y.body))
      BY <3>1, BodyChunks
    <3>3. served \in [Daemon -> Seq(ServedEntry)]
      BY DEF TypeOK, ServiceTypeOK, ServedEntry
    <3>4. served'[e] = served[e] \/ served'[e] = Append(served[e], y)
      BY <3>1, <3>3
    <3>5. \A i \in DOMAIN Append(served[e], y) :
             \/ i \in DOMAIN served[e] /\ Append(served[e], y)[i] = served[e][i]
             \/ Append(served[e], y)[i] = y
      <4>1. served[e] \in Seq(ServedEntry)
        BY <3>3
      <4>. QED  BY <4>1, AppendProperties
    <3>6. ServedWhole(e)
      BY DEF BodyInv
    <3>. QED  BY <3>2, <3>4, <3>5, <3>6 DEF ServedWhole
  <2>. QED  BY <2>1, <2>2 DEF Takes
<1>. QED  BY <1>6, <1>7, <1>8, <1>9

\* The other end of a node's link is another daemon.
LEMMA LinkPeer ==
  ASSUME TypeOK, LinkInv, NEW d \in Daemon, NEW n \in Node, node[d][n].sock # NoSock
  PROVE  LET c == node[d][n].sock
         IN  /\ c \in DOMAIN sock /\ c \in SockId /\ sock[c].cli = d
             /\ Peer(d, c) = sock[c].srv /\ Peer(d, c) \in Daemon \ {d}
<1> DEFINE c == node[d][n].sock
<1>1. c \in DOMAIN sock /\ sock[c].cli = d
  BY LinkParts DEF LinksOf, NodeLinkOK
<1>2. c \in SockId /\ sock[c].srv \in Daemon /\ sock[c].srv # d
  BY <1>1, LinkParts, LinkTypes DEF Elsewhere
<1>. QED  BY <1>1, <1>2 DEF Peer

LEMMA ConnectedBodies ==
  ASSUME TypeOK, TypeOK', LinkInv, BodyInv, NEW d \in Daemon, NEW c \in SockId, Connects(d, c)
  PROVE  BodyInv'
<1> DEFINE q == inbox[d][c]
           r == inbox'[d][c]
<1>1. inbox \in InboxType /\ inbox' \in InboxType
  BY DEF TypeOK, NetworkTypeOK, InboxType
<1>2. /\ q \in Seq(SocketEvents) /\ q # <<>> /\ ~Unheard(c) /\ Whole(q)
      /\ Head(q).type = "CONNECT"
  BY <1>1 DEF Connects, Heard, InboxType, BodyInv, BoxWhole, Frame
<1>3. /\ Whole(Tail(q)) /\ Tail(q) \in Seq(SocketEvents)
      /\ Starts(Tail(q))
  BY <1>2, TailWhole DEF Starts, Follows
<1>4. /\ \A e \in Daemon, s \in SockId : Keeps(Popped(d, c)[e][s], inbox'[e][s])
      /\ \A e \in Daemon, n \in Node : QueueWhole(e, n)'
  <2>1. CASE FlushesNone(d, c)
    BY <2>1, KeepsSelf DEF FlushesNone, BodyInv, QueueWhole
  <2>2. ASSUME NEW m \in Node, Flushes(d, c, m)
        PROVE  /\ \A e \in Daemon, s \in SockId : Keeps(Popped(d, c)[e][s], inbox'[e][s])
               /\ \A e \in Daemon, n \in Node : QueueWhole(e, n)'
    <3>1. QueueWhole(d, m)
      BY DEF BodyInv
    <3>2. Popped(d, c) \in InboxType
      BY <1>1, <1>2, HeadTailProperties DEF Popped, InboxType
    <3>3. node[d][m].queue \in Seq(SocketEvents)
      <4>1. node[d][m].queue \in Seq(RequestFrame)
        BY LinkTypes DEF NodeType
      <4>. QED  BY <4>1, SeqWiden DEF SocketEvents
    <3>4. \A e \in Daemon, s \in SockId : Keeps(Popped(d, c)[e][s], inbox'[e][s])
      BY <2>2, <3>1, <3>2, <3>3, WrittenKeeps DEF Flushes, QueueWhole
    <3>5. \A e \in Daemon, n \in Node :
             node'[e][n].queue = <<>> \/ node'[e][n] = node[e][n]
      <4>1. Emptied(node[d][m]).queue = <<>>
        BY LinkTypes DEF Emptied, NodeType
      <4>. QED  BY <2>2, <4>1, LinkTypes DEF Flushes
    <3>6. Whole(<<>>) /\ Starts(<<>>)
      BY DEF Whole, Starts
    <3>. QED  BY <3>4, <3>5, <3>6 DEF BodyInv, QueueWhole
  <2>. QED  BY <2>1, <2>2 DEF Connects
<1>5. BoxesKeep(d, c) /\ Whole(r) /\ Starts(r)
  BY <1>1, <1>3, <1>4, PoppedAt, SMTT(40) DEF BoxesKeep, Keeps
<1>6. \A s \in SockId : Unheard(s)' <=> Unheard(s)
  BY DEF Connects, Unheard
<1> SUFFICES ASSUME NEW e \in Daemon
             PROVE  /\ \A s \in SockId : BoxWhole(e, s)'
                    /\ \A k \in Slot : SlotExpects(e, k)'
                    /\ ServedWhole(e)'
  BY <1>4 DEF BodyInv
<1>7. ASSUME NEW s \in SockId  PROVE BoxWhole(e, s)'
  <2>1. CASE e = d /\ s = c
    BY <1>5, <2>1 DEF BoxWhole
  <2>2. CASE ~(e = d /\ s = c)
    BY <1>5, <1>6, <2>2, BoxKept DEF BoxesKeep
  <2>. QED  BY <2>1, <2>2
<1>8. ASSUME NEW k \in Slot  PROVE SlotExpects(e, k)'
  <2>1. /\ conn'[e][k].sock = conn[e][k].sock /\ conn'[e][k].outbound = conn[e][k].outbound
        /\ conn'[e][k].rq = conn[e][k].rq
    BY DEF Connects, SlotsHear
  <2>2. CASE e = d /\ conn[e][k].sock = c
    BY <1>5, <2>1, <2>2, StartsExpected DEF SlotExpects
  <2>3. CASE ~(e = d /\ conn[e][k].sock = c)
    BY <1>5, <2>1, <2>3, SlotSocks, SlotKept DEF BoxesKeep
  <2>. QED  BY <2>2, <2>3
<1>9. ServedWhole(e)'
  BY DEF Connects, BodyInv, ServedWhole
<1>. QED  BY <1>7, <1>8, <1>9

LEMMA GreetedBodies ==
  ASSUME TypeOK, TypeOK', LinkInv, BodyInv, NEW c \in SockId, Greets(c)
  PROVE  BodyInv'
<1> DEFINE cli == sock[c].cli
           srv == sock[c].srv
           hello == <<[type |-> "ACCEPT"]>>
<1>1. inbox \in InboxType /\ cli \in Daemon /\ srv \in Daemon /\ cli # srv
  BY LinkTypes DEF Greets
<1>2. inbox[cli][c] \in Seq(SocketEvents) /\ inbox[srv][c] \in Seq(SocketEvents)
  BY <1>1 DEF InboxType
<1>3. /\ inbox'[cli][c] = Append(inbox[cli][c], [type |-> "CONNECT"])
      /\ inbox'[srv][c] = hello \o inbox[srv][c]
      /\ \A e \in Daemon, s \in SockId :
            ~(s = c /\ e \in {cli, srv}) => inbox'[e][s] = inbox[e][s]
  BY <1>1 DEF Greets, Delivered, ToCli, ToSrv, InboxType
<1>4. Unheard(c) /\ Whole(inbox[srv][c]) /\ Starts(inbox[srv][c])
  BY <1>1 DEF Greets, Unheard, BodyInv, BoxWhole
<1>5. BoxesKeep(srv, c)
  <2>1. Append(inbox[cli][c], [type |-> "CONNECT"]) \in Seq(SocketEvents)
    BY <1>2, OtherKinds DEF SocketEvents
  <2>2. Keeps(inbox[cli][c], inbox'[cli][c])
    BY <1>2, <1>3, <2>1, OtherKinds, RestAppended, RestWhole
  <2>. QED  BY <1>3, <2>2, KeepsSelf DEF BoxesKeep
<1>6. Whole(inbox'[srv][c]) /\ Starts(inbox'[srv][c])
  <2>1. hello \in Seq(SocketEvents)
    BY OtherKinds DEF SocketEvents
  <2>2. Whole(hello) /\ Starts(hello)
    BY DEF Whole, Starts, FrameOK, Chunked
  <2>. QED  BY <1>2, <1>3, <1>4, <2>1, <2>2, JoinedWhole DEF Keeps
<1>7. \A s \in SockId : Unheard(s)' => Unheard(s)
  <2>1. sock[c] \in [state: {"connecting", "open", "down"}, cli: Daemon, srv: Daemon]
    BY LinkTypes, ElementOfSeq DEF Greets
  <2>2. DOMAIN sock' = DOMAIN sock /\ \A s \in DOMAIN sock : s # c => sock'[s] = sock[s]
    BY DEF Greets
  <2>. QED  BY <1>4, <2>2 DEF Unheard
<1> SUFFICES ASSUME NEW e \in Daemon
             PROVE  /\ \A n \in Node : QueueWhole(e, n)'
                    /\ \A s \in SockId : BoxWhole(e, s)'
                    /\ \A k \in Slot : SlotExpects(e, k)'
                    /\ ServedWhole(e)'
  BY DEF BodyInv
<1>8. \A n \in Node : QueueWhole(e, n)'
  BY DEF Greets, BodyInv, QueueWhole
<1>9. ASSUME NEW s \in SockId  PROVE BoxWhole(e, s)'
  <2>1. CASE e = srv /\ s = c
    BY <1>6, <2>1 DEF BoxWhole
  <2>2. CASE ~(e = srv /\ s = c)
    BY <1>5, <1>7, <2>2, BoxKept DEF BoxesKeep
  <2>. QED  BY <2>1, <2>2
<1>10. ASSUME NEW k \in Slot  PROVE SlotExpects(e, k)'
  <2>1. UNCHANGED conn
    BY DEF Greets
  <2>2. CASE e = srv /\ conn[e][k].sock = c
    BY <1>6, <2>1, <2>2, StartsExpected DEF SlotExpects
  <2>3. CASE ~(e = srv /\ conn[e][k].sock = c)
    BY <1>5, <2>1, <2>3, SlotSocks, SlotKept DEF BoxesKeep
  <2>. QED  BY <2>2, <2>3
<1>11. ServedWhole(e)'
  BY DEF Greets, BodyInv, ServedWhole
<1>. QED  BY <1>8, <1>9, <1>10, <1>11

LEMMA SentBodies ==
  ASSUME TypeOK, TypeOK', LinkInv, BodyInv, NEW x \in Call, Sends(x)
  PROVE  BodyInv'
<1>1. PICK d, n, fs : d = At(x) /\ n = Workload[x].node /\ fs = NewFrames(x)
  OBVIOUS
<1>2. d \in Daemon /\ n \in Node /\ inbox \in InboxType /\ node[d][n] \in NodeType
  BY <1>1, SessionType, LinkTypes
<1>3. fs \in Seq(SocketEvents) /\ Whole(fs) /\ Starts(fs)
  BY <1>1, FramesWhole
<1>4. Gains(d, n, fs) \/ Writes(d, n, fs)
  BY <1>1 DEF Sends, Gains, Writes
<1>5. \A e \in Daemon, s \in SockId : Keeps(inbox[e][s], inbox'[e][s])
  <2>1. CASE Gains(d, n, fs)
    BY <2>1, KeepsSelf DEF Gains
  <2>2. CASE Writes(d, n, fs)
    BY <1>2, <1>3, <2>2, WrittenKeeps DEF Writes
  <2>. QED  BY <1>4, <2>1, <2>2
<1> SUFFICES ASSUME NEW e \in Daemon
             PROVE  /\ \A m \in Node : QueueWhole(e, m)'
                    /\ \A s \in SockId : BoxWhole(e, s)'
                    /\ \A k \in Slot : SlotExpects(e, k)'
                    /\ ServedWhole(e)'
  BY DEF BodyInv
<1>6. ASSUME NEW m \in Node  PROVE QueueWhole(e, m)'
  <2>1. CASE node'[e][m] = node[e][m]
    BY <2>1 DEF BodyInv, QueueWhole
  <2>2. CASE e = d /\ m = n /\ Gains(d, n, fs)
    <3>1. node[d][n].queue \in Seq(SocketEvents)
      <4>1. node[d][n].queue \in Seq(RequestFrame)
        BY <1>2 DEF NodeType
      <4>. QED  BY <4>1, SeqWiden DEF SocketEvents
    <3>2. QueueWhole(d, n)
      BY <1>2 DEF BodyInv
    <3>3. Whole(node[d][n].queue \o fs) /\ Starts(node[d][n].queue \o fs)
      BY <1>3, <3>1, <3>2, JoinedWhole DEF QueueWhole, Keeps
    <3>. QED  BY <2>2, <3>3 DEF Gains, QueueWhole
  <2>. QED  BY <1>4, <2>1, <2>2 DEF Gains, Writes
<1>7. ASSUME NEW s \in SockId  PROVE BoxWhole(e, s)'
  BY <1>5, BoxKept DEF Sends, SocksQuiet
<1>8. ASSUME NEW k \in Slot  PROVE SlotExpects(e, k)'
  <2>1. CASE conn'[e][k].sock # NoSock /\ SameSlot(conn[e][k], conn'[e][k])
    <3>1. conn[e][k].sock # NoSock => conn[e][k].sock \in SockId
      BY SlotSocks
    <3>. QED  BY <1>5, <2>1, <3>1, SlotKept DEF SameSlot
  <2>2. CASE ~(conn'[e][k].sock # NoSock /\ SameSlot(conn[e][k], conn'[e][k]))
    BY <2>2 DEF Sends, SlotsQuiet, OpenedSlot, SlotExpects, Inward
  <2>. QED  BY <2>1, <2>2
<1>9. ServedWhole(e)'
  BY DEF Sends, BodyInv, ServedWhole
<1>. QED  BY <1>6, <1>7, <1>8, <1>9

LEMMA BodyStep == TypeOK /\ TypeOK' /\ LinkInv /\ BodyInv /\ RequestMove => BodyInv'
  BY QuietBodies, TakenBodies, ConnectedBodies, GreetedBodies, SentBodies DEF RequestMove

LEMMA BodyInit == Init => BodyInv
<1>1. Whole(<<>>) /\ Starts(<<>>)
  BY DEF Whole, Starts
<1>2. FreeConn.sock = NoSock /\ UnusedNode.queue = <<>>
  BY DEF FreeConn, UnusedNode
<1>. QED  BY <1>1, <1>2 DEF Init, BodyInv, QueueWhole, BoxWhole, SlotExpects, Inward, ServedWhole

LEMMA BodyInvariant == Spec => []BodyInv
<1>1. TypeOK /\ LinkInv /\ QueueInv /\ BodyInv /\ [Next]_vars => BodyInv'
  BY NextType, RequestsMove, BodyStep
<1>. QED  BY <1>1, BodyInit, QueueInvariant, TypeCorrect, LinkInvariant, PTL DEF Spec
-----------------------------------------------------------------------------
(* Requests are traced back through a step: every request that stands      *)
(* somewhere after it stood somewhere before, at the place and index that  *)
(* "from" gives, unless the step issued it.                                *)

PlaceOf(from, p, i) == from[<<p, i>>][1]
IndexOf(from, p, i) == from[<<p, i>>][2]
Stood(from, p, i, x) ==
    /\ PlaceOf(from, p, i) \in Place
    /\ Stands(PlaceOf(from, p, i), IndexOf(from, p, i), x)
    /\ SockAt(p, i)' = SockAt(PlaceOf(from, p, i), IndexOf(from, p, i))
Fresh(p, i, x) ==
    /\ Issue(x)
    /\ \A q \in Place : \A j : \A y \in Call : Stands(q, j, y)' =>
          ~Before(p, i, q, j)' /\ (y = x => q = p /\ j = i)
Traced(from) ==
    \A p \in Place : \A i : \A x \in Call :
        Stands(p, i, x)' => Stood(from, p, i, x) \/ Fresh(p, i, x)
Ordered(from) ==
    \A p, q \in Place : \A i, j : \A x, y \in Call :
        /\ Stands(p, i, x)' /\ Stands(q, j, y)'
        /\ Stood(from, p, i, x) /\ Stood(from, q, j, y)
        => /\ PlaceOf(from, p, i) = PlaceOf(from, q, j) /\ IndexOf(from, p, i) = IndexOf(from, q, j)
                 => p = q /\ i = j
           /\ Before(p, i, q, j)' =>
                 Ahead(PlaceOf(from, p, i), IndexOf(from, p, i), PlaceOf(from, q, j), IndexOf(from, q, j))

LEMMA IssuesMove ==
  ASSUME TypeOK, IssuedOnce, IssuesQuiet
  PROVE  /\ IssuedOnce'
         /\ \A x : IsIssued(x) => IsIssued(x)'
         /\ \A x, y : Sooner(x, y) => Sooner(x, y)'
         /\ \A x \in Call : Issue(x) => /\ ~IsIssued(x) /\ IsIssued(x)'
                                        /\ \A y : IsIssued(y) => Sooner(y, x)'
<1>1. ASSUME NEW c \in Call, Issue(c)
      PROVE  /\ ~IsIssued(c) /\ Len(issued) \in Nat /\ DOMAIN issued = 1 .. Len(issued)
             /\ DOMAIN issued' = 1 .. Len(issued) + 1 /\ issued'[Len(issued) + 1] = c
             /\ \A i \in DOMAIN issued : issued'[i] = issued[i]
  <2>1. issued \in Seq(Call)
    BY DEF TypeOK, ServiceTypeOK
  <2>. QED  BY <1>1, <2>1, AppendProperties DEF Issue
<1>2. CASE UNCHANGED issued
  <2>1. \A c \in Call : ~Issue(c)
    BY <1>1, <1>2
  <2>. QED  BY <1>2, <2>1 DEF IssuedOnce, IsIssued, Sooner
<1>3. ASSUME NEW c \in Call, Issue(c)
      PROVE  /\ IssuedOnce'
             /\ \A x : IsIssued(x) => IsIssued(x)'
             /\ \A x, y : Sooner(x, y) => Sooner(x, y)'
  <2>1. IssuedOnce'
    BY <1>1, <1>3 DEF IssuedOnce, IsIssued
  <2>2. \A x : IsIssued(x) => IsIssued(x)'
    BY <1>1, <1>3 DEF IsIssued
  <2>3. \A x, y : Sooner(x, y) => Sooner(x, y)'
    BY <1>1, <1>3 DEF Sooner
  <2>. QED  BY <2>1, <2>2, <2>3
<1>4. ASSUME NEW x \in Call, Issue(x)
      PROVE  ~IsIssued(x) /\ IsIssued(x)' /\ \A y : IsIssued(y) => Sooner(y, x)'
  <2>1. \A y : IsIssued(y) => Sooner(y, x)'
    <3> SUFFICES ASSUME NEW y, IsIssued(y)  PROVE Sooner(y, x)'
      OBVIOUS
    <3>1. PICK i \in DOMAIN issued : issued[i] = y
      BY DEF IsIssued
    <3>2. i \in DOMAIN issued' /\ Len(issued) + 1 \in DOMAIN issued' /\ i < Len(issued) + 1
      BY <1>1, <1>4
    <3>. QED  BY <1>1, <1>4, <3>1, <3>2 DEF Sooner
  <2>2. IsIssued(x)'
    BY <1>1, <1>4 DEF IsIssued
  <2>. QED  BY <1>1, <1>4, <2>1, <2>2
<1>. QED  BY <1>2, <1>3, <1>4 DEF IssuesQuiet

LEMMA TokensKept ==
  ASSUME TypeOK, RequestInv, IssuesQuiet, NEW from, Traced(from), Ordered(from)
  PROVE  RequestInv'
<1>1. /\ IssuedOnce'
      /\ \A x : IsIssued(x) => IsIssued(x)'
      /\ \A x, y : Sooner(x, y) => Sooner(x, y)'
      /\ \A x \in Call : Issue(x) => /\ ~IsIssued(x) /\ IsIssued(x)'
                                     /\ \A y : IsIssued(y) => Sooner(y, x)'
  BY IssuesMove DEF RequestInv
<1>2. ASSUME NEW p \in Place, NEW q \in Place, NEW x \in Call, NEW y \in Call, NEW i, NEW j,
             Stands(p, i, x)
      PROVE  /\ IsIssued(x)
             /\ Stands(q, j, x) => p = q /\ i = j
             /\ Stands(q, j, y) /\ Before(p, i, q, j) => Sooner(x, y)
  BY <1>2 DEF RequestInv, OnceInv, Stands
<1> SUFFICES ASSUME NEW p \in Place, NEW q \in Place, NEW x \in Call, NEW y \in Call,
                    NEW i, NEW j, Stands(p, i, x)'
             PROVE  /\ IsIssued(x)'
                    /\ Stands(q, j, x)' => p = q /\ i = j
                    /\ Stands(q, j, y)' /\ Before(p, i, q, j)' => Sooner(x, y)'
  BY <1>1 DEF RequestInv, OnceInv
<1> DEFINE P == PlaceOf(from, p, i)
           I == IndexOf(from, p, i)
           Q == PlaceOf(from, q, j)
           J == IndexOf(from, q, j)
<1>3. Stood(from, p, i, x) => P \in Place /\ Stands(P, I, x) /\ SockAt(p, i)' = SockAt(P, I)
  BY DEF Stood
<1>4. ASSUME NEW z \in Call, Stood(from, q, j, z)
      PROVE  Q \in Place /\ Stands(Q, J, z) /\ SockAt(q, j)' = SockAt(Q, J)
  BY <1>4 DEF Stood
<1>5. Stood(from, p, i, x) \/ Fresh(p, i, x)
  BY DEF Traced
<1>6. \A z \in Call : Stands(q, j, z)' => Stood(from, q, j, z) \/ Fresh(q, j, z)
  BY DEF Traced
<1>7. \A z \in Call : Stands(q, j, z)' /\ Stood(from, p, i, x) /\ Stood(from, q, j, z) =>
         /\ P = Q /\ I = J => p = q /\ i = j
         /\ Before(p, i, q, j)' => Ahead(P, I, Q, J)
  BY DEF Ordered
<1>8. /\ \A z \in Call : Stands(q, j, z)' /\ Fresh(p, i, x) =>
            ~Before(p, i, q, j)' /\ (z = x => q = p /\ j = i)
      /\ Fresh(q, j, x) => q = p /\ j = i
      /\ \A z \in Call : Fresh(q, j, z) => Issue(z)
      /\ Fresh(p, i, x) => Issue(x)
  BY DEF Fresh
<1>9. Before(p, i, q, j)' => SockAt(p, i)' = SockAt(q, j)'
  BY DEF Before
<1>10. SockAt(P, I) = SockAt(Q, J) /\ Ahead(P, I, Q, J) => Before(P, I, Q, J)
  BY DEF Before
<1> HIDE DEF P, I, Q, J
<1>11. IsIssued(x)'
  BY <1>1, <1>2, <1>3, <1>5, <1>8
<1>12. ASSUME Stands(q, j, x)'  PROVE p = q /\ i = j
  <2>1. CASE Stood(from, p, i, x) /\ Stood(from, q, j, x)
    <3>1. P = Q /\ I = J
      BY <1>2, <1>3, <1>4, <2>1
    <3>. QED  BY <1>7, <1>12, <2>1, <3>1
  <2>. QED  BY <1>5, <1>6, <1>8, <1>12, <2>1
<1>13. ASSUME Stands(q, j, y)', Before(p, i, q, j)'  PROVE Sooner(x, y)'
  <2>1. Stood(from, p, i, x)
    BY <1>5, <1>8, <1>13
  <2>2. CASE Stood(from, q, j, y)
    <3>1. Before(P, I, Q, J)
      BY <1>3, <1>4, <1>7, <1>9, <1>10, <1>13, <2>1, <2>2
    <3>. QED  BY <1>1, <1>2, <1>3, <1>4, <2>1, <2>2, <3>1
  <2>3. CASE Fresh(q, j, y)
    <3>1. IsIssued(x)
      BY <1>2, <1>3, <2>1
    <3>. QED  BY <1>1, <1>8, <2>3, <3>1
  <2>. QED  BY <1>6, <1>13, <2>2, <2>3
<1>. QED  BY <1>11, <1>12, <1>13

\* A place is a service, an inbox or a queue of a daemon.
LEMMA PlaceKinds ==
  /\ \A p \in Place :
        \/ p[1] = 0 /\ p[2] \in Daemon /\ p[3] = 0 /\ p = <<0, p[2], 0>>
        \/ p[1] = 1 /\ p[2] \in Daemon /\ p[3] \in SockId /\ p = <<1, p[2], p[3]>>
        \/ p[1] = 2 /\ p[2] \in Daemon /\ p[3] \in Node /\ p = <<2, p[2], p[3]>>
  /\ \A d \in Daemon : /\ <<0, d, 0>> \in Place
                       /\ \A c \in SockId : <<1, d, c>> \in Place
                       /\ \A n \in Node : <<2, d, n>> \in Place
  BY DEF Place

Indexed(p) == \A i \in DOMAIN Line(p) : i \in Nat \ {0} /\ i <= Len(Line(p)) /\ Len(Line(p)) \in Nat

LEMMA StandsIndex == TypeOK => \A p \in Place : Indexed(p)
<1> SUFFICES ASSUME TypeOK, NEW p \in Place, NEW i, i \in DOMAIN Line(p)
             PROVE  i \in Nat \ {0} /\ i <= Len(Line(p)) /\ Len(Line(p)) \in Nat
  BY DEF Indexed
<1>1. PICK T : Line(p) \in Seq(T)
  <2>1. CASE p[1] = 0
    <3>1. served \in [Daemon -> Seq(ServedEntry)]
      BY DEF TypeOK, ServiceTypeOK, ServedEntry
    <3>2. Line(p) = served[p[2]] /\ p[2] \in Daemon
      BY <2>1, PlaceKinds DEF Line
    <3>. QED  BY <3>1, <3>2
  <2>2. CASE p[1] = 1
    <3>1. Line(p) = inbox[p[2]][p[3]] /\ p[2] \in Daemon /\ p[3] \in SockId
      BY <2>2, PlaceKinds DEF Line
    <3>. QED  BY <3>1, LinkTypes DEF InboxType
  <2>3. CASE p[1] = 2
    <3>1. Line(p) = node[p[2]][p[3]].queue /\ p[2] \in Daemon /\ p[3] \in Node
      BY <2>3, PlaceKinds DEF Line
    <3>2. node[p[2]][p[3]] \in NodeType
      BY <3>1, LinkTypes
    <3>. QED  BY <3>1, <3>2 DEF NodeType
  <2>. QED  BY <2>1, <2>2, <2>3, PlaceKinds
<1>2. DOMAIN Line(p) = 1 .. Len(Line(p)) /\ Len(Line(p)) \in Nat
  BY <1>1
<1>. QED  BY <1>2

LEMMA StandsIndexNext == TypeOK' => (\A p \in Place : Indexed(p))'
  BY StandsIndex, PTL

\* Where requests stand after the step, by kind of place.
LEMMA NowStands ==
  ASSUME TypeOK', NEW p \in Place, NEW i, NEW x \in Call, Stands(p, i, x)'
  PROVE  /\ i \in Nat \ {0}
         /\ p[1] = 0 => /\ i \in DOMAIN served'[p[2]] /\ CallOf(served'[p[2]][i].body) = x
                        /\ SockAt(p, i)' = served'[p[2]][i].sock
                        /\ i <= Len(served'[p[2]])
         /\ p[1] = 1 => /\ i \in DOMAIN inbox'[p[2]][p[3]]
                        /\ inbox'[p[2]][p[3]][i].type \in {"SMALL", "PART_END"}
                        /\ CallOf(inbox'[p[2]][p[3]][i].body) = x
                        /\ SockAt(p, i)' = p[3] /\ i <= Len(inbox'[p[2]][p[3]])
         /\ p[1] = 2 => /\ i \in DOMAIN node'[p[2]][p[3]].queue
                        /\ node'[p[2]][p[3]].queue[i].type \in {"SMALL", "PART_END"}
                        /\ CallOf(node'[p[2]][p[3]].queue[i].body) = x
                        /\ SockAt(p, i)' = node'[p[2]][p[3]].sock
                        /\ i <= Len(node'[p[2]][p[3]].queue)
<1>1. i \in Nat \ {0} /\ i <= Len(Line(p))'
  BY StandsIndexNext DEF Indexed, Stands
<1>. QED  BY <1>1 DEF Stands, Line, Carries, SockAt

LEMMA StoodAt ==
  ASSUME NEW from, NEW p, NEW i, NEW q \in Place, NEW j, NEW x,
         PlaceOf(from, p, i) = q, IndexOf(from, p, i) = j, j \in DOMAIN Line(q),
         Carries(q, Line(q)[j], x), SockAt(p, i)' = SockAt(q, j)
  PROVE  Stood(from, p, i, x)
  BY DEF Stood, Stands

\* Nothing moved: every request stands where it stood.
Still == [t \in Place \X Nat |-> t]

LEMMA StillAt ==
  ASSUME NEW p \in Place, NEW i \in Nat
  PROVE  PlaceOf(Still, p, i) = p /\ IndexOf(Still, p, i) = i
<1>1. <<p, i>> \in Place \X Nat
  OBVIOUS
<1>2. Still[<<p, i>>] = <<p, i>>
  BY <1>1 DEF Still
<1>. QED  BY <1>2 DEF PlaceOf, IndexOf

LEMMA ServedStays ==
  ASSUME NEW p \in Place, p[1] = 0, NEW i, NEW x, i \in DOMAIN served[p[2]],
         served'[p[2]][i] = served[p[2]][i], CallOf(served'[p[2]][i].body) = x
  PROVE  i \in DOMAIN Line(p) /\ Carries(p, Line(p)[i], x) /\ SockAt(p, i)' = SockAt(p, i)
  BY DEF Line, Carries, SockAt

LEMMA BoxStays ==
  ASSUME NEW p \in Place, p[1] = 1, NEW i, NEW j, NEW x, j \in DOMAIN inbox[p[2]][p[3]],
         inbox'[p[2]][p[3]][i] = inbox[p[2]][p[3]][j],
         inbox'[p[2]][p[3]][i].type \in {"SMALL", "PART_END"},
         CallOf(inbox'[p[2]][p[3]][i].body) = x
  PROVE  j \in DOMAIN Line(p) /\ Carries(p, Line(p)[j], x) /\ SockAt(p, i)' = SockAt(p, j)
  BY DEF Line, Carries, SockAt

LEMMA QueueStays ==
  ASSUME NEW p \in Place, p[1] = 2, NEW i, NEW x, i \in DOMAIN node[p[2]][p[3]].queue,
         node'[p[2]][p[3]].queue[i] = node[p[2]][p[3]].queue[i],
         node'[p[2]][p[3]].sock = node[p[2]][p[3]].sock,
         node'[p[2]][p[3]].queue[i].type \in {"SMALL", "PART_END"},
         CallOf(node'[p[2]][p[3]].queue[i].body) = x
  PROVE  i \in DOMAIN Line(p) /\ Carries(p, Line(p)[i], x) /\ SockAt(p, i)' = SockAt(p, i)
  BY DEF Line, Carries, SockAt

LEMMA QueueQuiet ==
  ASSUME TypeOK', QueuesQuiet, NEW p \in Place, p[1] = 2, NEW i, NEW x \in Call, Stands(p, i, x)'
  PROVE  i \in DOMAIN Line(p) /\ Carries(p, Line(p)[i], x) /\ SockAt(p, i)' = SockAt(p, i)
<1>1. p[2] \in Daemon /\ p[3] \in Node
  BY PlaceKinds
<1>2. i \in DOMAIN node'[p[2]][p[3]].queue
  BY NowStands
<1>3. node'[p[2]][p[3]].queue # <<>>
  BY <1>2
<1>4. /\ node'[p[2]][p[3]].queue = node[p[2]][p[3]].queue
      /\ node'[p[2]][p[3]].sock = node[p[2]][p[3]].sock
  BY <1>1, <1>3 DEF QueuesQuiet
<1>5. /\ i \in DOMAIN node'[p[2]][p[3]].queue
      /\ node'[p[2]][p[3]].queue[i].type \in {"SMALL", "PART_END"}
      /\ CallOf(node'[p[2]][p[3]].queue[i].body) = x
  BY NowStands
<1>6. /\ i \in DOMAIN node[p[2]][p[3]].queue
      /\ node'[p[2]][p[3]].queue[i] = node[p[2]][p[3]].queue[i]
  BY ONLY <1>2, <1>4
<1>. QED  BY <1>4, <1>5, <1>6 DEF Line, Carries, SockAt

LEMMA QuietRequests ==
  ASSUME TypeOK, TypeOK', RequestInv, Quiet  PROVE RequestInv'
<1>1. PICK from : from = Still
  OBVIOUS
<1>2. \A p \in Place, i \in Nat : PlaceOf(from, p, i) = p /\ IndexOf(from, p, i) = i
  BY <1>1, StillAt
<1>3. \A p \in Place : \A i : \A x \in Call : Stands(p, i, x)' => i \in Nat
  BY NowStands
<1>4. Traced(from)
  <2> SUFFICES ASSUME NEW p \in Place, NEW i, NEW x \in Call, Stands(p, i, x)'
               PROVE  Stood(from, p, i, x)
    BY DEF Traced
  <2>1. i \in DOMAIN Line(p) /\ Carries(p, Line(p)[i], x) /\ SockAt(p, i)' = SockAt(p, i)
    <3>1. CASE p[1] = 0
      BY <3>1, NowStands, ServedStays DEF Quiet
    <3>2. CASE p[1] = 1
      <4>1. Rest(inbox[p[2]][p[3]], inbox'[p[2]][p[3]])
        BY <3>2, PlaceKinds DEF Quiet, RestBoxes
      <4>2. i \in DOMAIN inbox[p[2]][p[3]] /\ inbox'[p[2]][p[3]][i] = inbox[p[2]][p[3]][i]
        BY <3>2, <4>1, NowStands DEF Rest, RequestTypes
      <4>. QED  BY <3>2, <4>2, NowStands, BoxStays
    <3>3. CASE p[1] = 2
      BY <3>3, QueueQuiet DEF Quiet
    <3>. QED  BY <3>1, <3>2, <3>3, PlaceKinds
  <2>. QED  BY <1>2, <1>3, <2>1, StoodAt
<1>5. Ordered(from)
  BY <1>2, <1>3 DEF Ordered, Before
<1>. QED  BY <1>4, <1>5, TokensKept DEF Quiet

\* The first frame left the line h; what the line t has behind its first l
\* came from the head of the line w.
Shifted(h, t, l, w) ==
    [m \in Place \X Nat |-> IF m[1] = h THEN <<h, m[2] + 1>>
                            ELSE IF m[1] = t /\ m[2] > l THEN <<w, m[2] - l>> ELSE m]

LEMMA ShiftedAt ==
  ASSUME NEW h, NEW t, NEW l, NEW w, NEW p \in Place, NEW i \in Nat,
         NEW from, from = Shifted(h, t, l, w)
  PROVE  /\ p = h => PlaceOf(from, p, i) = h /\ IndexOf(from, p, i) = i + 1
         /\ p # h /\ p = t /\ i > l => PlaceOf(from, p, i) = w /\ IndexOf(from, p, i) = i - l
         /\ p # h /\ ~(p = t /\ i > l) => PlaceOf(from, p, i) = p /\ IndexOf(from, p, i) = i
<1>1. <<p, i>> \in Place \X Nat /\ <<p, i>>[1] = p /\ <<p, i>>[2] = i
  OBVIOUS
<1>2. from[<<p, i>>] = IF p = h THEN <<h, i + 1>>
                       ELSE IF p = t /\ i > l THEN <<w, i - l>> ELSE <<p, i>>
  BY <1>1 DEF Shifted
<1>. QED  BY <1>2 DEF PlaceOf, IndexOf

\* The daemon d takes the first frame of socket c: what stands after it stood
\* one place back; the frame itself may have been handed to a service.
Shifts(d, c) ==
    /\ Heard(d, c) /\ QueuesQuiet /\ UNCHANGED issued
    /\ RestBoxes(Popped(d, c), inbox')
    /\ UNCHANGED served \/ Hands(d, c)

\* An inbox that lost its first event.
LEMMA PoppedStays ==
  ASSUME TypeOK, NEW d \in Daemon, NEW c \in SockId, Heard(d, c), RestBoxes(Popped(d, c), inbox'),
         NEW e \in Daemon, NEW s \in SockId, NEW i \in Nat \ {0}, i \in DOMAIN inbox'[e][s],
         inbox'[e][s][i].type \in {"SMALL", "PART_END"}
  PROVE  LET j == IF e = d /\ s = c THEN i + 1 ELSE i
         IN  j \in DOMAIN inbox[e][s] /\ inbox'[e][s][i] = inbox[e][s][j]
<1>1. inbox \in InboxType /\ inbox[d][c] \in Seq(SocketEvents) /\ inbox[d][c] # <<>>
  BY LinkTypes DEF InboxType, Heard
<1>2. Rest(Popped(d, c)[e][s], inbox'[e][s])
  BY DEF RestBoxes
<1>3. i \in DOMAIN Popped(d, c)[e][s] /\ inbox'[e][s][i] = Popped(d, c)[e][s][i]
  BY <1>2 DEF Rest, RequestTypes
<1>4. CASE e = d /\ s = c
  <2>1. i \in DOMAIN Tail(inbox[d][c]) /\ inbox'[e][s][i] = Tail(inbox[d][c])[i]
    BY <1>1, <1>3, <1>4, PoppedAt
  <2>2. /\ DOMAIN inbox[d][c] = 1 .. Len(inbox[d][c]) /\ Len(inbox[d][c]) \in Nat
        /\ DOMAIN Tail(inbox[d][c]) = 1 .. Len(inbox[d][c]) - 1
        /\ \A j \in 1 .. Len(inbox[d][c]) - 1 : Tail(inbox[d][c])[j] = inbox[d][c][j + 1]
    BY <1>1
  <2>. QED  BY <1>4, <2>1, <2>2
<1>5. CASE ~(e = d /\ s = c)
  BY <1>1, <1>3, <1>5, PoppedAt
<1>. QED  BY <1>4, <1>5

\* What a service was handed just now.
LEMMA ServedNow ==
  ASSUME TypeOK, TypeOK', LinkInv, BodyInv, NEW d \in Daemon, NEW c \in SockId, Heard(d, c),
         UNCHANGED served \/ Hands(d, c),
         NEW e \in Daemon, NEW i \in Nat \ {0}, i \in DOMAIN served'[e]
  PROVE  \/ i \in DOMAIN served[e] /\ served'[e][i] = served[e][i] /\ i <= Len(served[e])
         \/ /\ e = d /\ i = Len(served[d]) + 1 /\ served'[e][i].sock = c
            /\ CallOf(served'[e][i].body) = CallOf(Frame(d, c).body)
            /\ Frame(d, c).type \in {"SMALL", "PART_END"}
<1>1. served \in [Daemon -> Seq(ServedEntry)]
  BY DEF TypeOK, ServiceTypeOK, ServedEntry
<1>2. /\ served[e] \in Seq(ServedEntry) /\ DOMAIN served[e] = 1 .. Len(served[e])
      /\ Len(served[e]) \in Nat
  BY <1>1
<1>3. CASE UNCHANGED served
  BY <1>2, <1>3
<1>4. CASE Hands(d, c)
  <2>1. PICK x \in Call, y \in ServedEntry :
           /\ served' = [served EXCEPT ![d] = Append(@, y)]
           /\ y.sock = c /\ y.body = Body(x) /\ CallOf(Frame(d, c).body) = x
           /\ Frame(d, c).type \in {"SMALL", "PART_END"}
    BY <1>4, HandedWhole
  <2>2. CallOf(y.body) = x
    BY <2>1, BodyChunks
  <2>3. served'[e] = IF e = d THEN Append(served[e], y) ELSE served[e]
    BY <1>1, <2>1
  <2>4. /\ DOMAIN Append(served[e], y) = 1 .. Len(served[e]) + 1
        /\ \A j \in 1 .. Len(served[e]) : Append(served[e], y)[j] = served[e][j]
        /\ Append(served[e], y)[Len(served[e]) + 1] = y
    BY <1>2, AppendProperties
  <2>. QED  BY <1>2, <2>1, <2>2, <2>3, <2>4
<1>. QED  BY <1>3, <1>4

LEMMA ShiftedRequests ==
  ASSUME TypeOK, TypeOK', LinkInv, BodyInv, RequestInv, NEW d \in Daemon, NEW c \in SockId,
         Shifts(d, c)
  PROVE  RequestInv'
<1>1. PICK h, t, l : h = <<1, d, c>> /\ t = <<0, d, 0>> /\ l = Len(served[d])
  OBVIOUS
<1>2. PICK from : from = Shifted(h, t, l, h)
  OBVIOUS
<1>3. h \in Place /\ t \in Place /\ h # t /\ h[1] = 1 /\ h[2] = d /\ h[3] = c /\ t[1] = 0 /\ t[2] = d
  BY <1>1, PlaceKinds
<1>4. \A p \in Place : \A i : \A x \in Call : Stands(p, i, x)' =>
        /\ i \in Nat \ {0}
        /\ p = h => PlaceOf(from, p, i) = h /\ IndexOf(from, p, i) = i + 1
        /\ p = t /\ i > l => PlaceOf(from, p, i) = h /\ IndexOf(from, p, i) = i - l
        /\ p # h /\ ~(p = t /\ i > l) => PlaceOf(from, p, i) = p /\ IndexOf(from, p, i) = i
  BY <1>2, <1>3, NowStands, ShiftedAt
<1>5. l \in Nat /\ inbox[d][c] # <<>> /\ inbox[d][c] \in Seq(SocketEvents)
  <2>1. served \in [Daemon -> Seq(ServedEntry)]
    BY DEF TypeOK, ServiceTypeOK, ServedEntry
  <2>2. served[d] \in Seq(ServedEntry)
    BY <2>1
  <2>. QED  BY <1>1, <2>2, LinkTypes DEF InboxType, Shifts, Heard
<1>6. \A p \in Place : p[1] = 1 /\ p[2] = d /\ p[3] = c <=> p = h
  BY <1>1, PlaceKinds
<1>7. \A p \in Place : p[1] = 0 /\ p[2] = d <=> p = t
  BY <1>1, PlaceKinds
<1>8. ASSUME NEW p \in Place, NEW i, NEW x \in Call, Stands(p, i, x)', p[1] = 0
      PROVE  \/ i \in DOMAIN served[p[2]] /\ served'[p[2]][i] = served[p[2]][i] /\ i <= Len(served[p[2]])
             \/ /\ p[2] = d /\ i = l + 1 /\ served'[p[2]][i].sock = c
                /\ CallOf(Frame(d, c).body) = x
                /\ Frame(d, c).type \in {"SMALL", "PART_END"}
  <2>1. p[2] \in Daemon /\ i \in Nat \ {0} /\ i \in DOMAIN served'[p[2]]
        /\ CallOf(served'[p[2]][i].body) = x
    BY <1>8, NowStands, PlaceKinds
  <2>2. Heard(d, c) /\ (UNCHANGED served \/ Hands(d, c))
    BY DEF Shifts
  <2>. QED  BY <1>1, <2>1, <2>2, ServedNow
<1>9. Traced(from)
  <2> SUFFICES ASSUME NEW p \in Place, NEW i, NEW x \in Call, Stands(p, i, x)'
               PROVE  Stood(from, p, i, x)
    BY DEF Traced
  <2>1. CASE p[1] = 0
    <3>1. CASE i \in DOMAIN served[p[2]] /\ served'[p[2]][i] = served[p[2]][i] /\ i <= Len(served[p[2]])
      <4>1. PlaceOf(from, p, i) = p /\ IndexOf(from, p, i) = i
        <5>1. p # h /\ ~(p = t /\ i > l)
          BY <1>1, <1>3, <1>4, <1>5, <2>1, <3>1
        <5>. QED  BY <1>4, <5>1
      <4>2. i \in DOMAIN Line(p) /\ Carries(p, Line(p)[i], x) /\ SockAt(p, i)' = SockAt(p, i)
        BY <2>1, <3>1, NowStands, ServedStays
      <4>. QED  BY <4>1, <4>2, StoodAt
    <3>2. CASE /\ p[2] = d /\ i = l + 1 /\ served'[p[2]][i].sock = c
               /\ CallOf(Frame(d, c).body) = x
               /\ Frame(d, c).type \in {"SMALL", "PART_END"}
      <4>1. p = t /\ PlaceOf(from, p, i) = h /\ IndexOf(from, p, i) = 1
        <5>1. p = t /\ i > l /\ i - l = 1
          BY <1>5, <1>7, <2>1, <3>2
        <5>. QED  BY <1>4, <5>1
      <4>2. Line(h) = inbox[d][c] /\ 1 \in DOMAIN Line(h) /\ Line(h)[1] = Frame(d, c)
        BY <1>3, <1>5 DEF Line, Frame
      <4>3. Carries(h, Line(h)[1], x)
        BY <3>2, <4>2 DEF Carries
      <4>4. SockAt(p, i)' = SockAt(h, 1)
        BY <1>3, <2>1, <3>2, NowStands DEF SockAt
      <4>. QED  BY <1>3, <4>1, <4>2, <4>3, <4>4, StoodAt
    <3>. QED  BY <1>8, <2>1, <3>1, <3>2
  <2>2. CASE p[1] = 1
    <3>1. /\ p[2] \in Daemon /\ p[3] \in SockId /\ i \in Nat \ {0} /\ i \in DOMAIN inbox'[p[2]][p[3]]
          /\ inbox'[p[2]][p[3]][i].type \in {"SMALL", "PART_END"}
          /\ CallOf(inbox'[p[2]][p[3]][i].body) = x
      BY <2>2, NowStands, PlaceKinds
    <3>2. PICK j : j = IF p = h THEN i + 1 ELSE i
      OBVIOUS
    <3>3. j \in DOMAIN inbox[p[2]][p[3]] /\ inbox'[p[2]][p[3]][i] = inbox[p[2]][p[3]][j]
      BY <1>6, <2>2, <3>1, <3>2, PoppedStays DEF Shifts
    <3>4. PlaceOf(from, p, i) = p /\ IndexOf(from, p, i) = j
      BY <1>3, <1>4, <2>2, <3>2
    <3>5. j \in DOMAIN Line(p) /\ Carries(p, Line(p)[j], x) /\ SockAt(p, i)' = SockAt(p, j)
      BY <2>2, <3>1, <3>3, BoxStays
    <3>. QED  BY <3>4, <3>5, StoodAt
  <2>3. CASE p[1] = 2
    <3>1. i \in DOMAIN Line(p) /\ Carries(p, Line(p)[i], x) /\ SockAt(p, i)' = SockAt(p, i)
      BY <2>3, QueueQuiet DEF Shifts
    <3>2. PlaceOf(from, p, i) = p /\ IndexOf(from, p, i) = i
      BY <1>3, <1>4, <2>3
    <3>. QED  BY <3>1, <3>2, StoodAt
  <2>. QED  BY <2>1, <2>2, <2>3, PlaceKinds
<1>10. Ordered(from)
  <2> SUFFICES ASSUME NEW p \in Place, NEW q \in Place, NEW i, NEW j, NEW x \in Call, NEW y \in Call,
                      Stands(p, i, x)', Stands(q, j, y)'
               PROVE  /\ PlaceOf(from, p, i) = PlaceOf(from, q, j) /\ IndexOf(from, p, i) = IndexOf(from, q, j)
                               => p = q /\ i = j
                      /\ Before(p, i, q, j)' =>
                            Ahead(PlaceOf(from, p, i), IndexOf(from, p, i), PlaceOf(from, q, j), IndexOf(from, q, j))
    BY DEF Ordered
  <2>1. i \in Nat \ {0} /\ j \in Nat \ {0}
    BY <1>4
  <2>2. (p = t => i <= l + 1) /\ (q = t => j <= l + 1)
    <3>1. ASSUME NEW o \in Place, NEW k, NEW z \in Call, Stands(o, k, z)', o = t  PROVE k <= l + 1
      <4>1. k \in Nat
        BY <1>4, <3>1
      <4>. QED  BY <1>1, <1>3, <1>5, <1>8, <3>1, <4>1
    <3>. QED  BY <3>1
  <2>3. /\ p = h => PlaceOf(from, p, i) = h /\ IndexOf(from, p, i) = i + 1
        /\ p = t /\ i > l => PlaceOf(from, p, i) = h /\ IndexOf(from, p, i) = i - l
        /\ p # h /\ ~(p = t /\ i > l) => PlaceOf(from, p, i) = p /\ IndexOf(from, p, i) = i
    BY <1>4
  <2>4. /\ q = h => PlaceOf(from, q, j) = h /\ IndexOf(from, q, j) = j + 1
        /\ q = t /\ j > l => PlaceOf(from, q, j) = h /\ IndexOf(from, q, j) = j - l
        /\ q # h /\ ~(q = t /\ j > l) => PlaceOf(from, q, j) = q /\ IndexOf(from, q, j) = j
    BY <1>4
  <2>5. PICK P, I, Q, J : /\ P = PlaceOf(from, p, i) /\ I = IndexOf(from, p, i)
                          /\ Q = PlaceOf(from, q, j) /\ J = IndexOf(from, q, j)
    OBVIOUS
  <2>6. P = Q /\ I = J => p = q /\ i = j
    BY <1>3, <1>5, <2>1, <2>2, <2>3, <2>4, <2>5
  <2>7. ASSUME Before(p, i, q, j)'  PROVE Ahead(P, I, Q, J)
    <3>1. Ahead(p, i, q, j) /\ SockAt(p, i)' = SockAt(q, j)'
      BY <2>7 DEF Before, Ahead
    <3>2. CASE p = t /\ i > l
      <4>1. P = h /\ I = 1
        BY <1>5, <2>1, <2>2, <2>3, <2>5, <3>2
      <4>2. SockAt(p, i)' = c
        <5>1. ~(i <= Len(served[p[2]]))
          BY <1>1, <1>3, <1>5, <2>1, <3>2
        <5>2. p[1] = 0
          BY <1>3, <3>2
        <5>3. served'[p[2]][i].sock = c
          BY <1>8, <5>1, <5>2
        <5>. QED  BY <5>2, <5>3, NowStands
      <4>3. ~(p = q /\ i < j)
        BY <1>5, <2>1, <2>2, <3>2
      <4>4. p[1] < q[1] /\ (q[1] = 1 => p[2] = q[2])
        BY <3>1, <4>3 DEF Ahead
      <4>5. CASE q[1] = 1
        <5>1. q[2] = d /\ q[3] = c
          BY <1>3, <3>1, <3>2, <4>2, <4>4, <4>5, NowStands
        <5>2. q = h
          BY <1>6, <4>5, <5>1
        <5>3. Q = h /\ J = j + 1
          BY <2>4, <2>5, <5>2
        <5>. QED  BY <2>1, <4>1, <5>3 DEF Ahead
      <4>6. CASE q[1] = 2
        <5>1. Q = q
          BY <1>3, <2>4, <2>5, <4>6
        <5>. QED  BY <1>3, <4>1, <4>6, <5>1 DEF Ahead
      <4>. QED  BY <1>3, <3>2, <4>4, <4>5, <4>6, PlaceKinds
    <3>3. CASE ~(p = t /\ i > l)
      <4>1. P = p /\ (p = h => I = i + 1) /\ (p # h => I = i)
        BY <2>3, <2>5, <3>3
      <4>2. CASE q = t /\ j > l
        <5>1. Q = h /\ q[1] = 0 /\ q[2] = d
          BY <1>3, <2>4, <2>5, <4>2
        <5>2. p = q
          BY <3>1, <5>1, PlaceKinds DEF Ahead
        <5>. QED  BY <1>3, <4>1, <5>1, <5>2 DEF Ahead
      <4>3. CASE ~(q = t /\ j > l)
        <5>1. Q = q /\ (q = h => J = j + 1) /\ (q # h => J = j)
          BY <2>4, <2>5, <4>3
        <5>. QED  BY <2>1, <3>1, <4>1, <5>1 DEF Ahead
      <4>. QED  BY <4>2, <4>3
    <3>. QED  BY <3>2, <3>3
  <2>. QED  BY <2>5, <2>6, <2>7
<1>. QED  BY <1>9, <1>10, TokensKept DEF Shifts, IssuesQuiet

\* The link came up: what its queue held follows what the socket carried.
BoxFlushed(d, c, n, e, l, a, s, i) ==
    \/ a = d /\ s = c /\ i + 1 \in DOMAIN inbox[a][s] /\ inbox'[a][s][i] = inbox[a][s][i + 1]
    \/ /\ a = e /\ s = c /\ i > l /\ i - l \in DOMAIN node[d][n].queue
       /\ inbox'[a][s][i] = node[d][n].queue[i - l]
    \/ /\ ~(a = d /\ s = c) /\ ~(a = e /\ s = c /\ i > l)
       /\ i \in DOMAIN inbox[a][s] /\ inbox'[a][s][i] = inbox[a][s][i]

LEMMA FlushedBoxes ==
  ASSUME TypeOK, LinkInv, NEW d \in Daemon, NEW c \in SockId, NEW n \in Node, Heard(d, c), Flushes(d, c, n),
         NEW e, e = Peer(d, c), NEW l, l = Len(inbox[e][c]),
         NEW a \in Daemon, NEW s \in SockId, NEW i \in Nat \ {0}, i \in DOMAIN inbox'[a][s]
  PROVE  BoxFlushed(d, c, n, e, l, a, s, i)
<1>1. /\ inbox \in InboxType /\ inbox[d][c] \in Seq(SocketEvents) /\ inbox[d][c] # <<>>
      /\ inbox[a][s] \in Seq(SocketEvents)
  BY LinkTypes DEF InboxType, Heard
<1>2. node[d][n].sock = c /\ c # NoSock
  BY DEF Flushes, SockId, NoSock
<1>3. e \in Daemon /\ e # d
  BY <1>2, LinkPeer
<1>4. inbox[e][c] \in Seq(SocketEvents) /\ l \in Nat
  BY <1>1, <1>3 DEF InboxType
<1>5. PICK qu : qu = node[d][n].queue
  OBVIOUS
<1>6. qu \in Seq(RequestFrame)
  BY <1>5, LinkTypes DEF NodeType
<1>7. Popped(d, c) \in InboxType
  BY <1>1, HeadTailProperties DEF Popped, InboxType
<1>8. \/ inbox'[a][s] = Popped(d, c)[a][s]
      \/ a = e /\ s = c /\ inbox'[a][s] = Popped(d, c)[a][s] \o qu
  <2>1. PICK pb : pb = Popped(d, c)
    OBVIOUS
  <2>2. inbox' = Written(pb, d, c, qu) /\ pb \in InboxType
    BY <1>5, <1>7, <2>1 DEF Flushes
  <2>3. \/ Written(pb, d, c, qu)[a][s] = pb[a][s]
        \/ a = Peer(d, c) /\ s = c /\ Written(pb, d, c, qu)[a][s] = pb[a][s] \o qu
    BY <2>2, WrittenAt, SMTT(40)
  <2>. QED  BY <2>1, <2>2, <2>3
<1>9. Popped(d, c)[a][s] = IF a = d /\ s = c THEN Tail(inbox[d][c]) ELSE inbox[a][s]
  BY <1>1, PoppedAt
<1>10. CASE a = d /\ s = c
  <2>1. inbox'[a][s] = Tail(inbox[d][c])
    BY <1>3, <1>8, <1>9, <1>10
  <2>2. /\ DOMAIN inbox[d][c] = 1 .. Len(inbox[d][c]) /\ Len(inbox[d][c]) \in Nat
        /\ DOMAIN Tail(inbox[d][c]) = 1 .. Len(inbox[d][c]) - 1
        /\ \A j \in 1 .. Len(inbox[d][c]) - 1 : Tail(inbox[d][c])[j] = inbox[d][c][j + 1]
    BY <1>1
  <2>. QED  BY <1>10, <2>1, <2>2 DEF BoxFlushed
<1>11. CASE a = e /\ s = c /\ inbox'[a][s] = inbox[a][s] \o qu
  <2>1. /\ DOMAIN (inbox[a][s] \o qu) = 1 .. l + Len(qu) /\ Len(qu) \in Nat
        /\ DOMAIN qu = 1 .. Len(qu) /\ DOMAIN inbox[a][s] = 1 .. l
        /\ \A j \in 1 .. l + Len(qu) :
              (inbox[a][s] \o qu)[j] = IF j <= l THEN inbox[a][s][j] ELSE qu[j - l]
    BY <1>1, <1>4, <1>6, <1>11
  <2>2. PICK r : r = inbox'[a][s]
    OBVIOUS
  <2>3. /\ DOMAIN r = 1 .. l + Len(qu) /\ i \in DOMAIN r
        /\ r[i] = IF i <= l THEN inbox[a][s][i] ELSE qu[i - l]
    BY <1>11, <2>1, <2>2
  <2>4. CASE i <= l
    BY <1>3, <1>4, <1>11, <2>1, <2>2, <2>3, <2>4 DEF BoxFlushed
  <2>5. CASE i > l
    <3>1. i - l \in DOMAIN qu /\ r[i] = qu[i - l]
      BY <1>4, <2>1, <2>3, <2>5
    <3>. QED  BY <1>5, <1>11, <2>2, <2>5, <3>1 DEF BoxFlushed
  <2>. QED  BY <1>4, <2>4, <2>5
<1>12. CASE ~(a = d /\ s = c) /\ inbox'[a][s] = inbox[a][s]
  <2>1. DOMAIN inbox[a][s] = 1 .. Len(inbox[a][s]) /\ Len(inbox[a][s]) \in Nat
    BY <1>1
  <2>. QED  BY <1>4, <1>12, <2>1 DEF BoxFlushed
<1>. QED  BY <1>3, <1>8, <1>9, <1>10, <1>11, <1>12

LEMMA FlushedRequests ==
  ASSUME TypeOK, TypeOK', LinkInv, OwnLink, RequestInv, NEW d \in Daemon, NEW c \in SockId,
         NEW n \in Node, Heard(d, c), UNCHANGED <<issued, served>>, Flushes(d, c, n)
  PROVE  RequestInv'
<1>1. PICK e, l : e = Peer(d, c) /\ l = Len(inbox[e][c])
  OBVIOUS
<1>2. PICK h, t, w : h = <<1, d, c>> /\ t = <<1, e, c>> /\ w = <<2, d, n>>
  OBVIOUS
<1>3. PICK from : from = Shifted(h, t, l, w)
  OBVIOUS
<1>4. node[d][n].sock = c /\ c # NoSock
  BY DEF Flushes, SockId, NoSock
<1>5. e \in Daemon /\ e # d /\ l \in Nat
  <2>1. e \in Daemon /\ e # d
    BY <1>1, <1>4, LinkPeer
  <2>. QED  BY <1>1, <2>1, LinkTypes DEF InboxType
<1>6. /\ h \in Place /\ t \in Place /\ w \in Place /\ h # t
      /\ h[1] = 1 /\ t[1] = 1 /\ w[1] = 2 /\ w[2] = d /\ w[3] = n
  BY <1>2, <1>5, PlaceKinds
<1>7. \A p \in Place : /\ p[1] = 1 /\ p[2] = d /\ p[3] = c <=> p = h
                       /\ p[1] = 1 /\ p[2] = e /\ p[3] = c <=> p = t
                       /\ p[1] = 2 /\ p[2] = d /\ p[3] = n <=> p = w
  BY <1>2, <1>5, PlaceKinds
<1>8. \A p \in Place : \A i : \A x \in Call : Stands(p, i, x)' =>
        /\ i \in Nat \ {0}
        /\ p = h => PlaceOf(from, p, i) = h /\ IndexOf(from, p, i) = i + 1
        /\ p = t /\ i > l => PlaceOf(from, p, i) = w /\ IndexOf(from, p, i) = i - l
        /\ p # h /\ ~(p = t /\ i > l) => PlaceOf(from, p, i) = p /\ IndexOf(from, p, i) = i
  BY <1>3, <1>6, NowStands, ShiftedAt
<1>9. ASSUME NEW p \in Place, NEW i, NEW x \in Call, Stands(p, i, x)', p[1] = 2
      PROVE  /\ p # w /\ i \in DOMAIN node[p[2]][p[3]].queue
             /\ node'[p[2]][p[3]] = node[p[2]][p[3]] /\ node'[p[2]][p[3]].sock # c
  <2>1. p[2] \in Daemon /\ p[3] \in Node /\ i \in DOMAIN node'[p[2]][p[3]].queue
    BY <1>9, NowStands, PlaceKinds
  <2>2. node'[d][n].queue = <<>>
    <3>1. Emptied(node[d][n]).queue = <<>>
      BY LinkTypes DEF Emptied, NodeType
    <3>. QED  BY <3>1, LinkTypes DEF Flushes
  <2>3. ~(p[2] = d /\ p[3] = n)
    BY <2>1, <2>2
  <2>4. node'[p[2]][p[3]] = node[p[2]][p[3]]
    BY <2>1, <2>3, LinkTypes DEF Flushes
  <2>5. node[p[2]][p[3]].sock # c
    BY <1>4, <2>1, <2>3 DEF OwnLink
  <2>. QED  BY <1>7, <2>1, <2>3, <2>4, <2>5
<1>10. Traced(from)
  <2> SUFFICES ASSUME NEW p \in Place, NEW i, NEW x \in Call, Stands(p, i, x)'
               PROVE  Stood(from, p, i, x)
    BY DEF Traced
  <2>1. CASE p[1] = 0
    <3>1. PlaceOf(from, p, i) = p /\ IndexOf(from, p, i) = i
      BY <1>6, <1>8, <2>1
    <3>2. i \in DOMAIN Line(p) /\ Carries(p, Line(p)[i], x) /\ SockAt(p, i)' = SockAt(p, i)
      BY <2>1, NowStands, ServedStays
    <3>. QED  BY <3>1, <3>2, StoodAt
  <2>2. CASE p[1] = 1
    <3>1. /\ p[2] \in Daemon /\ p[3] \in SockId /\ i \in Nat \ {0} /\ i \in DOMAIN inbox'[p[2]][p[3]]
          /\ inbox'[p[2]][p[3]][i].type \in {"SMALL", "PART_END"}
          /\ CallOf(inbox'[p[2]][p[3]][i].body) = x /\ SockAt(p, i)' = p[3]
      BY <2>2, NowStands, PlaceKinds
    <3>2. \/ p = h /\ i + 1 \in DOMAIN inbox[p[2]][p[3]]
             /\ inbox'[p[2]][p[3]][i] = inbox[p[2]][p[3]][i + 1]
          \/ /\ p = t /\ i > l /\ i - l \in DOMAIN node[d][n].queue
             /\ inbox'[p[2]][p[3]][i] = node[d][n].queue[i - l]
          \/ /\ p # h /\ ~(p = t /\ i > l)
             /\ i \in DOMAIN inbox[p[2]][p[3]] /\ inbox'[p[2]][p[3]][i] = inbox[p[2]][p[3]][i]
      <4>1. PICK a, s : a = p[2] /\ s = p[3]
        OBVIOUS
      <4>2. BoxFlushed(d, c, n, e, l, a, s, i)
        BY <1>1, <3>1, <4>1, FlushedBoxes
      <4>. QED  BY <1>7, <2>2, <4>1, <4>2 DEF BoxFlushed
    <3>3. CASE p = t /\ i > l /\ i - l \in DOMAIN node[d][n].queue
               /\ inbox'[p[2]][p[3]][i] = node[d][n].queue[i - l]
      <4>1. PlaceOf(from, p, i) = w /\ IndexOf(from, p, i) = i - l
        BY <1>8, <3>3
      <4>2. Line(w) = node[d][n].queue
        BY <1>6 DEF Line
      <4>3. Carries(w, Line(w)[i - l], x)
        BY <3>1, <3>3, <4>2 DEF Carries
      <4>4. SockAt(p, i)' = SockAt(w, i - l)
        <5>1. SockAt(w, i - l) = c
          BY <1>4, <1>6 DEF SockAt
        <5>. QED  BY <1>7, <3>1, <3>3, <5>1
      <4>. QED  BY <1>6, <3>3, <4>1, <4>2, <4>3, <4>4, StoodAt
    <3>4. CASE ~(p = t /\ i > l)
      <4>1. PICK j : j = IF p = h THEN i + 1 ELSE i
        OBVIOUS
      <4>2. j \in DOMAIN inbox[p[2]][p[3]] /\ inbox'[p[2]][p[3]][i] = inbox[p[2]][p[3]][j]
        BY <3>2, <3>4, <4>1
      <4>3. PlaceOf(from, p, i) = p /\ IndexOf(from, p, i) = j
        BY <1>8, <3>4, <4>1
      <4>4. j \in DOMAIN Line(p) /\ Carries(p, Line(p)[j], x) /\ SockAt(p, i)' = SockAt(p, j)
        BY <2>2, <3>1, <4>2, BoxStays
      <4>. QED  BY <4>3, <4>4, StoodAt
    <3>. QED  BY <1>6, <3>2, <3>3, <3>4
  <2>3. CASE p[1] = 2
    <3>1. PlaceOf(from, p, i) = p /\ IndexOf(from, p, i) = i
      BY <1>6, <1>8, <2>3
    <3>2. i \in DOMAIN Line(p) /\ Carries(p, Line(p)[i], x) /\ SockAt(p, i)' = SockAt(p, i)
      BY SMTT(20), <1>9, <2>3, NowStands, QueueStays
    <3>. QED  BY <3>1, <3>2, StoodAt
  <2>. QED  BY <2>1, <2>2, <2>3, PlaceKinds
<1>11. Ordered(from)
  <2> SUFFICES ASSUME NEW p \in Place, NEW q \in Place, NEW i, NEW j, NEW x \in Call, NEW y \in Call,
                      Stands(p, i, x)', Stands(q, j, y)'
               PROVE  /\ PlaceOf(from, p, i) = PlaceOf(from, q, j) /\ IndexOf(from, p, i) = IndexOf(from, q, j)
                               => p = q /\ i = j
                      /\ Before(p, i, q, j)' =>
                            Ahead(PlaceOf(from, p, i), IndexOf(from, p, i), PlaceOf(from, q, j), IndexOf(from, q, j))
    BY DEF Ordered
  <2>1. i \in Nat \ {0} /\ j \in Nat \ {0}
    BY <1>8
  <2>2. p # w /\ q # w
    BY <1>6, <1>9
  <2>3. /\ p = h => PlaceOf(from, p, i) = h /\ IndexOf(from, p, i) = i + 1
        /\ p = t /\ i > l => PlaceOf(from, p, i) = w /\ IndexOf(from, p, i) = i - l
        /\ p # h /\ ~(p = t /\ i > l) => PlaceOf(from, p, i) = p /\ IndexOf(from, p, i) = i
    BY <1>8
  <2>4. /\ q = h => PlaceOf(from, q, j) = h /\ IndexOf(from, q, j) = j + 1
        /\ q = t /\ j > l => PlaceOf(from, q, j) = w /\ IndexOf(from, q, j) = j - l
        /\ q # h /\ ~(q = t /\ j > l) => PlaceOf(from, q, j) = q /\ IndexOf(from, q, j) = j
    BY <1>8
  <2>5. PICK P, I, Q, J : /\ P = PlaceOf(from, p, i) /\ I = IndexOf(from, p, i)
                          /\ Q = PlaceOf(from, q, j) /\ J = IndexOf(from, q, j)
    OBVIOUS
  <2>6. P = Q /\ I = J => p = q /\ i = j
    BY <1>5, <1>6, <2>1, <2>2, <2>3, <2>4, <2>5
  <2>7. ASSUME Before(p, i, q, j)'  PROVE Ahead(P, I, Q, J)
    <3>1. Ahead(p, i, q, j) /\ SockAt(p, i)' = SockAt(q, j)'
      BY <2>7 DEF Before, Ahead
    <3>2. CASE p = t /\ i > l
      <4>1. P = w /\ I = i - l
        BY <2>3, <2>5, <3>2
      <4>2. p = q /\ i < j
        <5>1. ASSUME q[1] = 2  PROVE FALSE
          <6>1. SockAt(q, j)' # c
            BY <1>9, <5>1, NowStands
          <6>2. SockAt(p, i)' = c
            BY <1>6, <1>7, <3>2, NowStands
          <6>. QED  BY <3>1, <6>1, <6>2
        <5>. QED  BY <1>6, <3>1, <3>2, <5>1, PlaceKinds DEF Ahead
      <4>3. Q = w /\ J = j - l
        BY <1>5, <2>1, <2>4, <2>5, <3>2, <4>2
      <4>. QED  BY <1>5, <2>1, <4>1, <4>2, <4>3 DEF Ahead
    <3>3. CASE ~(p = t /\ i > l)
      <4>1. P = p /\ (p = h => I = i + 1) /\ (p # h => I = i)
        BY <2>3, <2>5, <3>3
      <4>2. CASE q = t /\ j > l
        <5>1. Q = w
          BY <2>4, <2>5, <4>2
        <5>2. p[1] = 0 \/ p[1] = 1
          BY <1>6, <3>1, <4>2, PlaceKinds DEF Ahead
        <5>. QED  BY <1>6, <4>1, <5>1, <5>2 DEF Ahead
      <4>3. CASE ~(q = t /\ j > l)
        <5>1. Q = q /\ (q = h => J = j + 1) /\ (q # h => J = j)
          BY <2>4, <2>5, <4>3
        <5>. QED  BY <2>1, <3>1, <4>1, <5>1 DEF Ahead
      <4>. QED  BY <4>2, <4>3
    <3>. QED  BY <3>2, <3>3
  <2>. QED  BY <2>5, <2>6, <2>7
<1>. QED  BY <1>10, <1>11, TokensKept DEF IssuesQuiet

\* The listener learns of the connection before what was sent over it.
Backed(h) == [m \in Place \X Nat |-> IF m[1] = h THEN <<h, m[2] - 1>> ELSE m]

LEMMA BackedAt ==
  ASSUME NEW h, NEW p \in Place, NEW i \in Nat, NEW from, from = Backed(h)
  PROVE  /\ p = h => PlaceOf(from, p, i) = h /\ IndexOf(from, p, i) = i - 1
         /\ p # h => PlaceOf(from, p, i) = p /\ IndexOf(from, p, i) = i
<1>1. <<p, i>> \in Place \X Nat /\ <<p, i>>[1] = p /\ <<p, i>>[2] = i
  OBVIOUS
<1>2. from[<<p, i>>] = IF p = h THEN <<h, i - 1>> ELSE <<p, i>>
  BY <1>1 DEF Backed
<1>. QED  BY <1>2 DEF PlaceOf, IndexOf

LEMMA GreetedBoxes ==
  ASSUME TypeOK, NEW c \in SockId, Greets(c), NEW a \in Daemon, NEW s \in SockId, NEW i \in Nat \ {0},
         i \in DOMAIN inbox'[a][s], inbox'[a][s][i].type \in {"SMALL", "PART_END"}
  PROVE  LET j == IF a = sock[c].srv /\ s = c THEN i - 1 ELSE i
         IN  j \in DOMAIN inbox[a][s] /\ inbox'[a][s][i] = inbox[a][s][j]
<1> DEFINE cli == sock[c].cli
           srv == sock[c].srv
           hello == <<[type |-> "ACCEPT"]>>
           up == [type |-> "CONNECT"]
<1>1. inbox \in InboxType /\ cli \in Daemon /\ srv \in Daemon /\ cli # srv
  BY LinkTypes DEF Greets
<1>2. inbox[a][s] \in Seq(SocketEvents)
  BY <1>1 DEF InboxType
<1>3. /\ DOMAIN inbox[a][s] = 1 .. Len(inbox[a][s]) /\ Len(inbox[a][s]) \in Nat
  BY <1>2
<1>4. CASE a = srv /\ s = c
  <2>1. inbox'[a][s] = hello \o inbox[a][s]
    BY <1>1, <1>4 DEF Greets, Delivered, ToCli, ToSrv, InboxType
  <2>2. /\ DOMAIN (hello \o inbox[a][s]) = 1 .. Len(inbox[a][s]) + 1
        /\ (hello \o inbox[a][s])[1] = [type |-> "ACCEPT"]
        /\ \A k \in 1 .. Len(inbox[a][s]) + 1 : k > 1 => (hello \o inbox[a][s])[k] = inbox[a][s][k - 1]
    <3>1. hello \in Seq(SocketEvents) /\ Len(hello) = 1 /\ hello[1] = [type |-> "ACCEPT"]
      BY OtherKinds DEF SocketEvents
    <3> HIDE DEF hello
    <3>2. PICK q : q = inbox[a][s] /\ q \in Seq(SocketEvents) /\ Len(q) \in Nat
      BY <1>2, <1>3
    <3>3. /\ DOMAIN (hello \o q) = 1 .. Len(hello) + Len(q)
          /\ \A k \in 1 .. Len(hello) + Len(q) :
                (hello \o q)[k] = IF k <= Len(hello) THEN hello[k] ELSE q[k - Len(hello)]
      <4>1. PICK g : g = hello /\ g \in Seq(SocketEvents) /\ Len(g) \in Nat
        BY <3>1
      <4>2. /\ DOMAIN (g \o q) = 1 .. Len(g) + Len(q)
            /\ \A k \in 1 .. Len(g) + Len(q) :
                  (g \o q)[k] = IF k <= Len(g) THEN g[k] ELSE q[k - Len(g)]
        BY <3>2, <4>1
      <4>. QED  BY <4>1, <4>2
    <3>4. \A k \in 1 .. Len(q) + 1 : k > 1 => (hello \o q)[k] = q[k - 1]
      BY <3>1, <3>2, <3>3
    <3>5. (hello \o q)[1] = [type |-> "ACCEPT"] /\ DOMAIN (hello \o q) = 1 .. Len(q) + 1
      BY <3>1, <3>2, <3>3
    <3>. QED  BY <3>2, <3>4, <3>5
  <2>3. i # 1
    BY <2>1, <2>2
  <2>. QED  BY <1>3, <1>4, <2>1, <2>2, <2>3, SMTT(40)
<1>5. CASE ~(a = srv /\ s = c)
  <2>1. CASE a = cli /\ s = c
    <3>1. inbox'[a][s] = Append(inbox[a][s], up)
      BY <1>1, <2>1 DEF Greets, Delivered, ToCli, ToSrv, InboxType
    <3>2. /\ DOMAIN Append(inbox[a][s], up) = 1 .. Len(inbox[a][s]) + 1
          /\ \A k \in 1 .. Len(inbox[a][s]) : Append(inbox[a][s], up)[k] = inbox[a][s][k]
          /\ Append(inbox[a][s], up)[Len(inbox[a][s]) + 1] = up
      BY <1>2, AppendProperties
    <3>3. i # Len(inbox[a][s]) + 1
      BY <3>1, <3>2
    <3>. QED  BY <1>3, <1>5, <3>1, <3>2, <3>3
  <2>2. CASE ~(a = cli /\ s = c)
    <3>1. inbox'[a][s] = inbox[a][s]
      BY <1>1, <1>5, <2>2 DEF Greets, Delivered, InboxType
    <3>. QED  BY <1>5, <3>1
  <2>. QED  BY <2>1, <2>2
<1>. QED  BY <1>4, <1>5

LEMMA GreetedRequests ==
  ASSUME TypeOK, TypeOK', RequestInv, NEW c \in SockId, Greets(c)  PROVE RequestInv'
<1>1. PICK e, h : e = sock[c].srv /\ h = <<1, e, c>>
  OBVIOUS
<1>2. PICK from : from = Backed(h)
  OBVIOUS
<1>3. e \in Daemon
  BY <1>1, LinkTypes DEF Greets
<1>4. \A p \in Place : p[1] = 1 /\ p[2] = e /\ p[3] = c <=> p = h
  BY <1>1, PlaceKinds
<1>5. \A p \in Place : \A i : \A x \in Call : Stands(p, i, x)' =>
        /\ i \in Nat \ {0}
        /\ p = h => PlaceOf(from, p, i) = p /\ IndexOf(from, p, i) = i - 1
        /\ p # h => PlaceOf(from, p, i) = p /\ IndexOf(from, p, i) = i
  BY <1>2, NowStands, BackedAt
<1>6. Traced(from)
  <2> SUFFICES ASSUME NEW p \in Place, NEW i, NEW x \in Call, Stands(p, i, x)'
               PROVE  Stood(from, p, i, x)
    BY DEF Traced
  <2>1. PICK j : j = IF p = h THEN i - 1 ELSE i
    OBVIOUS
  <2>2. j \in DOMAIN Line(p) /\ Carries(p, Line(p)[j], x) /\ SockAt(p, i)' = SockAt(p, j)
    <3>1. CASE p[1] = 0
      BY <1>4, <2>1, <3>1, NowStands, ServedStays DEF Greets
    <3>2. CASE p[1] = 1
      <4>1. /\ p[2] \in Daemon /\ p[3] \in SockId /\ i \in Nat \ {0} /\ i \in DOMAIN inbox'[p[2]][p[3]]
            /\ inbox'[p[2]][p[3]][i].type \in {"SMALL", "PART_END"}
            /\ CallOf(inbox'[p[2]][p[3]][i].body) = x
        BY <3>2, NowStands, PlaceKinds
      <4>2. j \in DOMAIN inbox[p[2]][p[3]] /\ inbox'[p[2]][p[3]][i] = inbox[p[2]][p[3]][j]
        BY <1>1, <1>4, <2>1, <3>2, <4>1, GreetedBoxes
      <4>. QED  BY <3>2, <4>1, <4>2, BoxStays
    <3>3. CASE p[1] = 2
      <4>1. j = i
        BY <1>4, <2>1, <3>3
      <4>2. QueuesQuiet
        BY QuietParts DEF Greets
      <4>. QED  BY <3>3, <4>1, <4>2, QueueQuiet
    <3>. QED  BY <3>1, <3>2, <3>3, PlaceKinds
  <2>3. PlaceOf(from, p, i) = p /\ IndexOf(from, p, i) = j
    BY <1>5, <2>1
  <2>. QED  BY <2>2, <2>3, StoodAt
<1>7. Ordered(from)
  <2> SUFFICES ASSUME NEW p \in Place, NEW q \in Place, NEW i, NEW j, NEW x \in Call, NEW y \in Call,
                      Stands(p, i, x)', Stands(q, j, y)'
               PROVE  /\ PlaceOf(from, p, i) = PlaceOf(from, q, j) /\ IndexOf(from, p, i) = IndexOf(from, q, j)
                               => p = q /\ i = j
                      /\ Before(p, i, q, j)' =>
                            Ahead(PlaceOf(from, p, i), IndexOf(from, p, i), PlaceOf(from, q, j), IndexOf(from, q, j))
    BY DEF Ordered
  <2>1. /\ i \in Nat \ {0} /\ j \in Nat \ {0}
        /\ PlaceOf(from, p, i) = p /\ (p = h => IndexOf(from, p, i) = i - 1) /\ (p # h => IndexOf(from, p, i) = i)
        /\ PlaceOf(from, q, j) = q /\ (q = h => IndexOf(from, q, j) = j - 1) /\ (q # h => IndexOf(from, q, j) = j)
    BY <1>5
  <2>2. PICK I, J : I = IndexOf(from, p, i) /\ J = IndexOf(from, q, j)
    OBVIOUS
  <2>3. Before(p, i, q, j)' => Ahead(p, i, q, j)
    BY DEF Before
  <2>4. Ahead(p, i, q, j) => Ahead(p, I, q, J)
    BY <2>1, <2>2 DEF Ahead
  <2>5. p = q /\ I = J => i = j
    BY <2>1, <2>2
  <2>. QED  BY <2>1, <2>2, <2>3, <2>4, <2>5
<1>. QED  BY <1>6, <1>7, TokensKept DEF Greets, IssuesQuiet

\* A request is issued: it stands at the end of one line, and nowhere else.
NewAt(g, m, x) ==
    \A p \in Place : \A i : \A z \in Call :
        Stands(p, i, z)' => \/ i \in DOMAIN Line(p) /\ Carries(p, Line(p)[i], z) /\ SockAt(p, i)' = SockAt(p, i)
                            \/ p = g /\ i = m /\ z = x
LastAt(g, m) == \A q \in Place : \A j : \A y \in Call : Stands(q, j, y)' => ~Before(g, m, q, j)'

LEMMA IssuedRequest ==
  ASSUME TypeOK, TypeOK', RequestInv, NEW x \in Call, Issue(x), NEW g, NEW m, NewAt(g, m, x), LastAt(g, m)
  PROVE  RequestInv'
<1>1. PICK from : from = Still
  OBVIOUS
<1>2. \A p \in Place, i \in Nat : PlaceOf(from, p, i) = p /\ IndexOf(from, p, i) = i
  BY <1>1, StillAt
<1>3. \A p \in Place : \A i : \A z \in Call : Stands(p, i, z)' => i \in Nat
  BY NowStands
<1>4. ASSUME NEW p \in Place, NEW i, NEW z \in Call, Stands(p, i, z)'
      PROVE  Stood(from, p, i, z) \/ (p = g /\ i = m /\ z = x)
  BY <1>2, <1>3, <1>4, StoodAt DEF NewAt
<1>5. ASSUME NEW q \in Place, NEW j, Stood(from, q, j, x)  PROVE FALSE
  <2>1. PlaceOf(from, q, j) \in Place /\ Stands(PlaceOf(from, q, j), IndexOf(from, q, j), x)
    BY <1>5 DEF Stood
  <2>2. IsIssued(x)
    BY <2>1 DEF RequestInv, OnceInv, Stands
  <2>. QED  BY <2>2 DEF Issue
<1>6. Traced(from)
  <2> SUFFICES ASSUME NEW p \in Place, NEW i, NEW z \in Call, Stands(p, i, z)', ~Stood(from, p, i, z)
               PROVE  Fresh(p, i, z)
    BY DEF Traced
  <2>1. p = g /\ i = m /\ z = x
    BY <1>4
  <2>2. ASSUME NEW q \in Place, NEW j, NEW y \in Call, Stands(q, j, y)'
        PROVE  ~Before(p, i, q, j)' /\ (y = z => q = p /\ j = i)
    <3>1. ~Before(p, i, q, j)'
      BY <2>1, <2>2 DEF LastAt
    <3>2. y = z => q = p /\ j = i
      BY <1>4, <1>5, <2>1, <2>2
    <3>. QED  BY <3>1, <3>2
  <2>. QED  BY <2>1, <2>2 DEF Fresh
<1>7. Ordered(from)
  BY <1>2, <1>3 DEF Ordered, Before
<1>8. IssuesQuiet
  BY DEF IssuesQuiet
<1>. QED  BY <1>6, <1>7, <1>8, TokensKept

\* What a line has after new frames joined it at the end.
EndsAs(q, r, i, x) ==
    /\ Len(r) \in Nat /\ i \in Nat /\ i <= Len(r)
    /\ \/ i \in DOMAIN q /\ r[i] = q[i]
       \/ CallOf(r[i].body) = x /\ i = Len(r)

LEMMA JoinedAt ==
  ASSUME TypeOK, NEW x \in Call, NEW q \in Seq(SocketEvents), NEW r, r = q \o NewFrames(x),
         NEW i \in DOMAIN r, r[i].type \in {"SMALL", "PART_END"}
  PROVE  EndsAs(q, r, i, x)
<1>1. PICK fs : fs = NewFrames(x)
  OBVIOUS
<1>2. fs \in Seq(SocketEvents) /\ Len(fs) \in Nat /\ DOMAIN fs = 1 .. Len(fs)
  BY <1>1, FramesWhole
<1>3. /\ Len(q) \in Nat /\ DOMAIN q = 1 .. Len(q) /\ DOMAIN r = 1 .. Len(q) + Len(fs)
      /\ Len(r) = Len(q) + Len(fs)
      /\ \A k \in 1 .. Len(q) + Len(fs) : r[k] = IF k <= Len(q) THEN q[k] ELSE fs[k - Len(q)]
  BY <1>1, <1>2
<1>4. CASE i > Len(q)
  <2>1. i - Len(q) \in DOMAIN fs /\ r[i] = fs[i - Len(q)]
    BY <1>2, <1>3, <1>4
  <2>2. CallOf(fs[i - Len(q)].body) = x /\ i - Len(q) = Len(fs)
    BY <1>1, <2>1, FramesWhole
  <2>3. i \in Nat /\ i = Len(r) /\ i <= Len(r)
    BY <1>2, <1>3, <1>4, <2>1, <2>2
  <2>. QED  BY <1>2, <1>3, <2>1, <2>2, <2>3 DEF EndsAs
<1>5. CASE i <= Len(q)
  BY <1>2, <1>3, <1>5 DEF EndsAs
<1>. QED  BY <1>2, <1>3, <1>4, <1>5

LEMMA GainedRequests ==
  ASSUME TypeOK, TypeOK', RequestInv, NEW x \in Call, Issue(x), UNCHANGED served,
         Gains(At(x), Workload[x].node, NewFrames(x))
  PROVE  RequestInv'
<1>1. PICK d, n, g : d = At(x) /\ n = Workload[x].node /\ g = <<2, d, n>>
  OBVIOUS
<1>2. d \in Daemon /\ n \in Node /\ node[d][n] \in NodeType /\ Gains(d, n, NewFrames(x))
  BY <1>1, SessionType, LinkTypes
<1>3. PICK q, r, m : q = node[d][n].queue /\ r = node'[d][n].queue /\ m = Len(r)
  OBVIOUS
<1>4. q \in Seq(SocketEvents) /\ r = q \o NewFrames(x)
  <2>1. q \in Seq(RequestFrame)
    BY <1>2, <1>3 DEF NodeType
  <2>2. q \in Seq(SocketEvents)
    BY <2>1, SeqWiden DEF SocketEvents
  <2>. QED  BY <1>2, <1>3, <2>2 DEF Gains
<1>5. \A p \in Place : p[1] = 2 /\ p[2] = d /\ p[3] = n <=> p = g
  BY <1>1, PlaceKinds
<1>6. NewAt(g, m, x)
  <2> SUFFICES ASSUME NEW p \in Place, NEW i, NEW z \in Call, Stands(p, i, z)'
               PROVE  \/ i \in DOMAIN Line(p) /\ Carries(p, Line(p)[i], z) /\ SockAt(p, i)' = SockAt(p, i)
                      \/ p = g /\ i = m /\ z = x
    BY DEF NewAt
  <2>1. CASE p[1] = 0
    BY <2>1, NowStands, ServedStays
  <2>2. CASE p[1] = 1
    <3>1. /\ i \in DOMAIN inbox'[p[2]][p[3]] /\ CallOf(inbox'[p[2]][p[3]][i].body) = z
          /\ inbox'[p[2]][p[3]][i].type \in {"SMALL", "PART_END"}
      BY <2>2, NowStands
    <3>2. i \in DOMAIN inbox[p[2]][p[3]] /\ inbox'[p[2]][p[3]][i] = inbox[p[2]][p[3]][i]
      BY <1>2, <3>1 DEF Gains
    <3>. QED  BY <2>2, <3>1, <3>2, BoxStays
  <2>3. CASE p = g
    <3>1. /\ p[1] = 2 /\ i \in DOMAIN r /\ r[i].type \in {"SMALL", "PART_END"} /\ CallOf(r[i].body) = z
          /\ p[2] = d /\ p[3] = n
      BY <1>3, <1>5, <2>3, NowStands
    <3>2. CASE i \in DOMAIN q /\ r[i] = q[i]
      <4>1. node'[d][n].sock = node[d][n].sock
        <5>1. q # <<>>
          BY <3>2
        <5>. QED  BY <1>2, <1>3, <5>1 DEF Gains
      <4>. QED  BY <1>3, <3>1, <3>2, <4>1, QueueStays
    <3>3. CASE CallOf(r[i].body) = x /\ i = Len(r)
      BY <1>3, <2>3, <3>1, <3>3
    <3>4. \/ i \in DOMAIN q /\ r[i] = q[i]
          \/ CallOf(r[i].body) = x /\ i = Len(r)
      <4>1. i \in DOMAIN r /\ r[i].type \in {"SMALL", "PART_END"}
        BY <3>1
      <4>2. EndsAs(q, r, i, x)
        BY <1>4, <4>1, JoinedAt
      <4>. QED  BY <4>2 DEF EndsAs
    <3>. QED  BY <3>2, <3>3, <3>4
  <2>4. CASE p[1] = 2 /\ p # g
    <3>1. p[2] \in Daemon /\ p[3] \in Node /\ ~(p[2] = d /\ p[3] = n)
      BY <1>5, <2>4, PlaceKinds
    <3>2. node'[p[2]][p[3]] = node[p[2]][p[3]]
      BY <1>2, <3>1 DEF Gains
    <3>. QED  BY <2>4, <3>2, NowStands, QueueStays
  <2>. QED  BY <2>1, <2>2, <2>3, <2>4, PlaceKinds
<1>7. LastAt(g, m)
  <2> SUFFICES ASSUME NEW p \in Place, NEW j, NEW y \in Call, Stands(p, j, y)', Ahead(g, m, p, j)
               PROVE  FALSE
    BY DEF LastAt, Before
  <2>1. g[1] = 2
    BY <1>1
  <2>2. p = g /\ m < j
    BY <2>1, PlaceKinds DEF Ahead
  <2>3. j \in DOMAIN r /\ r[j].type \in {"SMALL", "PART_END"}
    BY <1>3, <1>5, <2>2, NowStands
  <2>4. Len(r) \in Nat /\ j \in Nat /\ j <= Len(r)
    BY <1>4, <2>3, JoinedAt DEF EndsAs
  <2>. QED  BY <1>3, <2>2, <2>4
<1>. QED  BY <1>6, <1>7, IssuedRequest

LEMMA WrittenRequests ==
  ASSUME TypeOK, TypeOK', LinkInv, QueueInv, RequestInv, NEW x \in Call, Issue(x), UNCHANGED served,
         Writes(At(x), Workload[x].node, NewFrames(x))
  PROVE  RequestInv'
<1>1. PICK d, n, c : d = At(x) /\ n = Workload[x].node /\ c = node[d][n].sock
  OBVIOUS
<1>2. /\ d \in Daemon /\ n \in Node /\ c # NoSock /\ ReadyConn(d, c)
      /\ UNCHANGED <<node, conn>> /\ inbox' = Written(inbox, d, c, NewFrames(x))
  BY <1>1, SessionType DEF Writes
<1>3. PICK e, g : e = Peer(d, c) /\ g = <<1, e, c>>
  OBVIOUS
<1>4. e \in Daemon /\ c \in SockId /\ inbox \in InboxType
  BY <1>1, <1>2, <1>3, LinkPeer, LinkTypes
<1>5. PICK q, r, m : q = inbox[e][c] /\ r = inbox'[e][c] /\ m = Len(q \o NewFrames(x))
  OBVIOUS
<1>6. q \in Seq(SocketEvents)
  BY <1>4, <1>5 DEF InboxType
<1>7. \A a \in Daemon, s \in SockId : ~(a = e /\ s = c) => inbox'[a][s] = inbox[a][s]
  BY <1>2, <1>3, <1>4, WrittenAt
<1>8. r = q \/ r = q \o NewFrames(x)
  <2>1. \/ Written(inbox, d, c, NewFrames(x))[e][c] = inbox[e][c]
        \/ Written(inbox, d, c, NewFrames(x))[e][c] = inbox[e][c] \o NewFrames(x)
    BY <1>4, WrittenAt
  <2>. QED  BY <1>2, <1>5, <2>1
<1>9. \A p \in Place : p[1] = 1 /\ p[2] = e /\ p[3] = c <=> p = g
  BY <1>3, PlaceKinds
<1>10. ASSUME NEW i \in DOMAIN r, r[i].type \in {"SMALL", "PART_END"}
       PROVE  /\ \/ i \in DOMAIN q /\ r[i] = q[i]
                 \/ CallOf(r[i].body) = x /\ i = m
              /\ m \in Nat /\ i \in Nat /\ i <= m
  <2>1. CASE r = q
    <3>1. Len(q) \in Nat /\ DOMAIN q = 1 .. Len(q)
      BY <1>6
    <3>2. NewFrames(x) \in Seq(SocketEvents)
      BY FramesWhole
    <3>3. Len(NewFrames(x)) \in Nat /\ m = Len(q) + Len(NewFrames(x))
      BY <1>5, <1>6, <3>2
    <3>. QED  BY <1>10, <2>1, <3>1, <3>3
  <2>2. CASE r = q \o NewFrames(x)
    <3>1. EndsAs(q, r, i, x)
      BY <1>6, <1>10, <2>2, JoinedAt
    <3>. QED  BY <1>5, <2>2, <3>1 DEF EndsAs
  <2>. QED  BY <1>8, <2>1, <2>2
<1>11. NewAt(g, m, x)
  <2> SUFFICES ASSUME NEW p \in Place, NEW i, NEW z \in Call, Stands(p, i, z)'
               PROVE  \/ i \in DOMAIN Line(p) /\ Carries(p, Line(p)[i], z) /\ SockAt(p, i)' = SockAt(p, i)
                      \/ p = g /\ i = m /\ z = x
    BY DEF NewAt
  <2>1. CASE p[1] = 0
    BY <2>1, NowStands, ServedStays
  <2>2. CASE p[1] = 2
    BY <1>2, <2>2, QueueQuiet, QuietParts
  <2>3. CASE p = g
    <3>1. /\ p[1] = 1 /\ i \in DOMAIN r /\ r[i].type \in {"SMALL", "PART_END"} /\ CallOf(r[i].body) = z
          /\ p[2] = e /\ p[3] = c
      BY <1>5, <1>9, <2>3, NowStands
    <3>2. CASE i \in DOMAIN q /\ r[i] = q[i]
      BY <1>5, <3>1, <3>2, BoxStays
    <3>3. CASE CallOf(r[i].body) = x /\ i = m
      BY <2>3, <3>1, <3>3
    <3>. QED  BY <1>10, <3>1, <3>2, <3>3
  <2>4. CASE p[1] = 1 /\ p # g
    <3>1. p[2] \in Daemon /\ p[3] \in SockId /\ ~(p[2] = e /\ p[3] = c)
      BY <1>9, <2>4, PlaceKinds
    <3>2. inbox'[p[2]][p[3]] = inbox[p[2]][p[3]]
      BY <1>7, <3>1
    <3>. QED  BY <2>4, <3>2, NowStands, BoxStays
  <2>. QED  BY <2>1, <2>2, <2>3, <2>4, PlaceKinds
<1>12. LastAt(g, m)
  <2> SUFFICES ASSUME NEW p \in Place, NEW j, NEW y \in Call, Stands(p, j, y)',
                      Ahead(g, m, p, j), SockAt(g, m)' = SockAt(p, j)'
               PROVE  FALSE
    BY DEF LastAt, Before, Ahead
  <2>1. g[1] = 1 /\ g[2] = e /\ g[3] = c /\ SockAt(g, m)' = c
    BY <1>3 DEF SockAt
  <2>2. CASE p = g /\ m < j
    <3>1. j \in DOMAIN r /\ r[j].type \in {"SMALL", "PART_END"}
      BY <1>5, <2>1, <2>2, NowStands
    <3>. QED  BY <1>10, <2>2, <3>1
  <2>3. CASE p[1] = 2
    <3>1. /\ p[2] \in Daemon /\ p[3] \in Node /\ j \in DOMAIN node'[p[2]][p[3]].queue
          /\ node'[p[2]][p[3]].sock = c
      <4>1. j \in DOMAIN node'[p[2]][p[3]].queue /\ SockAt(p, j)' = node'[p[2]][p[3]].sock
        BY <2>3, NowStands
      <4>2. p[2] \in Daemon /\ p[3] \in Node
        BY <2>3, PlaceKinds
      <4>3. node'[p[2]][p[3]].sock = c
        BY <2>1, <4>1
      <4>. QED  BY <4>1, <4>2, <4>3
    <3>2. j \in DOMAIN node[p[2]][p[3]].queue /\ node[p[2]][p[3]].sock = c
      BY <1>2, <3>1
    <3>3. p[2] = d /\ p[3] = n
      BY <1>1, <1>2, <3>1, <3>2 DEF QueueInv, OwnLink
    <3>4. node[d][n].queue # <<>>
      BY <3>2, <3>3
    <3>. QED  BY <1>1, <1>2, <3>4 DEF QueueInv, QueuesWait, Waits
  <2>. QED  BY <2>1, <2>2, <2>3, PlaceKinds DEF Ahead
<1>. QED  BY <1>11, <1>12, IssuedRequest

LEMMA RequestStep ==
  TypeOK /\ TypeOK' /\ LinkInv /\ QueueInv /\ BodyInv /\ RequestInv /\ RequestMove => RequestInv'
<1> SUFFICES ASSUME TypeOK, TypeOK', LinkInv, QueueInv, BodyInv, RequestInv, RequestMove
             PROVE  RequestInv'
  OBVIOUS
<1>1. ASSUME NEW d \in Daemon, NEW c \in SockId, Takes(d, c)  PROVE RequestInv'
  <2>1. Shifts(d, c)
    BY <1>1 DEF Takes, Shifts
  <2>. QED  BY <2>1, ShiftedRequests
<1>2. ASSUME NEW d \in Daemon, NEW c \in SockId, Connects(d, c)  PROVE RequestInv'
  <2>1. CASE FlushesNone(d, c)
    <3>1. Shifts(d, c)
      BY <1>2, <2>1, QuietParts, RestSelf DEF Connects, FlushesNone, Shifts, RestBoxes
    <3>. QED  BY <3>1, ShiftedRequests
  <2>2. ASSUME NEW n \in Node, Flushes(d, c, n)  PROVE RequestInv'
    BY <1>2, <2>2, FlushedRequests DEF Connects, QueueInv
  <2>. QED  BY <1>2, <2>1, <2>2 DEF Connects
<1>3. ASSUME NEW x \in Call, Sends(x)  PROVE RequestInv'
  BY <1>3, GainedRequests, WrittenRequests DEF Sends
<1>. QED  BY <1>1, <1>2, <1>3, QuietRequests, GreetedRequests DEF RequestMove

LEMMA RequestInit == Init => RequestInv
<1> SUFFICES ASSUME Init  PROVE RequestInv
  OBVIOUS
<1>1. \A p \in Place : Line(p) = <<>>
  <2>1. UnusedNode.queue = <<>>
    BY DEF UnusedNode
  <2>. QED  BY <2>1, PlaceKinds DEF Init, Line
<1>2. issued = <<>>
  BY DEF Init
<1>. QED  BY <1>1, <1>2 DEF RequestInv, IssuedOnce, OnceInv

LEMMA RequestInvariant == Spec => []RequestInv
<1>1. TypeOK /\ LinkInv /\ QueueInv /\ BodyInv /\ RequestInv /\ [Next]_vars => RequestInv'
  BY NextType, RequestsMove, RequestStep
<1>. QED  BY <1>1, RequestInit, QueueInvariant, BodyInvariant, TypeCorrect, LinkInvariant, PTL DEF Spec
-----------------------------------------------------------------------------
(* What follows for what services are handed.                              *)

LEMMA ServedPlace ==
  ASSUME TypeOK, NEW d \in Daemon, NEW i \in DOMAIN served[d]
  PROVE  /\ CallOf(served[d][i].body) \in Call /\ <<0, d, 0>> \in Place
         /\ Stands(<<0, d, 0>>, i, CallOf(served[d][i].body))
         /\ SockAt(<<0, d, 0>>, i) = served[d][i].sock
<1>1. served \in [Daemon -> Seq(ServedEntry)]
  BY DEF TypeOK, ServiceTypeOK, ServedEntry
<1>2. served[d] \in Seq(ServedEntry)
  BY <1>1
<1>3. served[d][i] \in ServedEntry
  BY <1>2, ElementOfSeq
<1>4. served[d][i].body \in Seq(Call \X Nat) /\ served[d][i].body # <<>>
  BY <1>3 DEF ServedEntry, Bodies, BodyChunk
<1>5. CallOf(served[d][i].body) \in Call
  <2>1. 1 \in DOMAIN served[d][i].body
    BY <1>4
  <2>2. served[d][i].body[1] \in Call \X Nat
    BY <1>4, <2>1, ElementOfSeq
  <2>. QED  BY <2>2 DEF CallOf
<1>. QED  BY <1>5, PlaceKinds DEF Stands, Line, Carries, SockAt

\* A request or push is handed to a service at most once, whatever number of
\* daemons, links, retries, resets and crashes: its frames stand in one place,
\* and the frame that completes it leaves the inbox as the service gets it.
THEOREM ServedOnce == Spec => []ServedAtMostOnce
<1>1. TypeOK /\ RequestInv => ServedAtMostOnce
  <2> SUFFICES ASSUME TypeOK, RequestInv, NEW c \in Call  PROVE Cardinality(ServedAnywhere(c)) <= 1
    BY DEF ServedAtMostOnce
  <2>1. \A u \in ServedAnywhere(c) : \E d \in Daemon : \E i \in ServedTo(d, c) : u = <<d, i>>
    BY DEF ServedAnywhere
  <2>2. ASSUME NEW d \in Daemon, NEW e \in Daemon, NEW i \in ServedTo(d, c), NEW j \in ServedTo(e, c)
        PROVE  d = e /\ i = j
    <3>1. /\ i \in DOMAIN served[d] /\ CallOf(served[d][i].body) = c
          /\ j \in DOMAIN served[e] /\ CallOf(served[e][j].body) = c
      BY DEF ServedTo
    <3>2. PICK p, q : p = <<0, d, 0>> /\ q = <<0, e, 0>>
      OBVIOUS
    <3>3. p \in Place /\ q \in Place /\ Stands(p, i, c) /\ Stands(q, j, c)
      BY <3>1, <3>2, ServedPlace
    <3>4. p = q /\ i = j
      BY <3>3 DEF RequestInv, OnceInv, Stands
    <3>. QED  BY <3>2, <3>4
  <2>3. \A u, v \in ServedAnywhere(c) : u = v
    BY <2>1, <2>2
  <2>4. CASE ServedAnywhere(c) = {}
    BY <2>4, FS_EmptySet
  <2>5. CASE ServedAnywhere(c) # {}
    <3>1. PICK u : ServedAnywhere(c) = {u}
      BY <2>3, <2>5
    <3>. QED  BY <3>1, FS_Singleton
  <2>. QED  BY <2>4, <2>5
<1>. QED  BY <1>1, TypeCorrect, RequestInvariant, PTL

\* The queue of a connecting node is never overtaken: two calls that reach
\* services over one connection do so in the order they were issued, and what
\* is queued waits for a link that is there and not yet ready.
THEOREM OrderKept == Spec => []ConnectionOrder
<1>1. TypeOK /\ RequestInv /\ QueueInv => ConnectionOrder
  <2> SUFFICES ASSUME TypeOK, RequestInv, QueueInv, NEW d \in Daemon
               PROVE  /\ \A i, j \in DOMAIN served[d] :
                            i < j /\ served[d][i].sock = served[d][j].sock
                              => IssueIndex(CallOf(served[d][i].body)) < IssueIndex(CallOf(served[d][j].body))
                      /\ \A n \in Node : Waits(d, n)
    BY DEF ConnectionOrder, Waits
  <2>1. ASSUME NEW i \in DOMAIN served[d], NEW j \in DOMAIN served[d], i < j,
               served[d][i].sock = served[d][j].sock
        PROVE  IssueIndex(CallOf(served[d][i].body)) < IssueIndex(CallOf(served[d][j].body))
    <3>1. PICK p, x, y : /\ p = <<0, d, 0>> /\ x = CallOf(served[d][i].body)
                         /\ y = CallOf(served[d][j].body)
      OBVIOUS
    <3>2. /\ p \in Place /\ x \in Call /\ y \in Call /\ Stands(p, i, x) /\ Stands(p, j, y)
          /\ SockAt(p, i) = SockAt(p, j)
      BY <2>1, <3>1, ServedPlace
    <3>3. Before(p, i, p, j)
      BY <2>1, <3>2 DEF Before, Ahead
    <3>4. Sooner(x, y)
      BY <3>2, <3>3 DEF RequestInv, OnceInv, Stands
    <3>5. PICK a \in DOMAIN issued, b \in DOMAIN issued : a < b /\ issued[a] = x /\ issued[b] = y
      BY <3>4 DEF Sooner
    <3>6. \A k \in DOMAIN issued : (issued[k] = x <=> k = a) /\ (issued[k] = y <=> k = b)
      BY <3>5 DEF RequestInv, IssuedOnce
    <3>7. IssueIndex(x) = a /\ IssueIndex(y) = b
      BY <3>6 DEF IssueIndex
    <3>. QED  BY <3>1, <3>5, <3>7
  <2>. QED  BY <2>1 DEF QueueInv, QueuesWait
<1>. QED  BY <1>1, TypeCorrect, RequestInvariant, QueueInvariant, PTL

\* A service is handed the body of one call, every chunk in place and none
\* missing: reassemblies that were cut short, refused or taken over by another
\* request never show in what it gets.
THEOREM ServicesGetWholeBodies == Spec => []RequestsWhole
<1>1. BodyInv => RequestsWhole
  BY DEF BodyInv, ServedWhole, RequestsWhole
<1>. QED  BY <1>1, BodyInvariant, PTL
=============================================================================

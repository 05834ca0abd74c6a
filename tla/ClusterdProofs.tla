--------------------------- MODULE ClusterdProofs ---------------------------
(***************************************************************************)
(* Theorems about the cluster daemons, for every number of daemons, nodes, *)
(* services and calls and every size of the tables.                        *)
(***************************************************************************)
EXTENDS ClusterdProperties, TLAPS, SequenceTheorems, WellFoundedInduction

(* Bodies and frames have their types.                                     *)

LEMMA SeqWiden == ASSUME NEW S, NEW T, S \subseteq T, NEW s \in Seq(S)
                  PROVE  s \in Seq(T)
  BY SeqMonotonic

LEMMA BodyType == ASSUME NEW c \in Call
                  PROVE  Body(c) \in Bodies
<1> DEFINE n == IF Workload[c].large THEN Parts ELSE 1
<1>1. n \in Nat \ {0}
  BY BoundAssumption
<1>2. Body(c) = [i \in 1 .. n |-> <<c, i>>]
  BY DEF Body
<1>3. Body(c) \in Seq(BodyChunk)
  BY <1>1, <1>2, IsASeq DEF BodyChunk
<1>4. Len(Body(c)) = n
  BY <1>1, <1>2, <1>3
<1>. QED  BY <1>1, <1>3, <1>4 DEF Bodies

LEMMA ReplyType == ASSUME NEW c \in Call
                   PROVE  Reply(c) \in Seq(Chunk)
<1> DEFINE n == IF Workload[c].largeReply THEN Parts ELSE 1
<1>1. n \in Nat
  BY BoundAssumption
<1>2. Reply(c) = [i \in 1 .. n |-> <<c, i>>]
  BY DEF Reply
<1>. QED  BY <1>1, <1>2, IsASeq DEF Chunk

LEMMA WireType == ASSUME NEW c \in Call
                  PROVE  WireAddr(c) \in Wire
<1> DEFINE a == Workload[c].addr
<1>1. a \in Name \cup Service \cup {Query}
  BY WorkloadAssumption
<1>2. CASE a \in Name \cup LetterService
  <2>1. WireAddr(c) = [byName |-> TRUE, to |-> a]
    BY <1>2 DEF WireAddr
  <2>2. a \in Name \cup Service
    BY <1>2, HandleAssumption
  <2>. QED  BY <2>1, <2>2 DEF Wire
<1>3. CASE a \notin Name \cup LetterService
  <2>0. (a \in Name \cup LetterService) = FALSE
    BY <1>3
  <2>1. WireAddr(c) = [byName |-> FALSE, to |-> a]
    <3>1. WireAddr(c) = [byName |-> a \in Name \cup LetterService, to |-> a]
      BY DEF WireAddr
    <3>. QED  BY <2>0, <3>1
  <2>2. a \in Service \cup {Query}
    BY <1>1, <1>3
  <2>. QED  BY <2>1, <2>2 DEF Wire
<1>. QED  BY <1>2, <1>3

LEMMA ChunksType == ASSUME NEW body \in Bodies, NEW s \in Nat
                    PROVE  Chunks(s, body) \in Seq(RequestFrame)
<1>1. Len(body) \in Nat /\ \A i \in 1 .. Len(body) : body[i] \in BodyChunk
  BY DEF Bodies
<1>2. \A i \in 1 .. Len(body) : <<body[i]>> \in Bodies
  BY <1>1 DEF Bodies
<1>3. \A i \in 1 .. Len(body) :
        [type |-> IF i = Len(body) THEN "PART_END" ELSE "PART",
         session |-> s, body |-> <<body[i]>>] \in RequestFrame
  BY <1>2 DEF RequestFrame
<1>. QED  BY <1>1, <1>3, IsASeq DEF Chunks

LEMMA RequestFramesType == ASSUME NEW c \in Call, NEW s \in Nat
                           PROVE  RequestFrames(c, s) \in Seq(RequestFrame)
<1>1. /\ Workload[c].push \in BOOLEAN
      /\ Len(Body(c)) \in Nat
  BY WorkloadAssumption, BodyType DEF Bodies
<1>2. SmallFrame(c, s) \in Seq(RequestFrame)
  BY <1>1, BodyType, WireType DEF SmallFrame, RequestFrame
<1>3. LargeFrames(c, s) \in Seq(RequestFrame)
  <2>1. <<[type |-> "LARGE", addr |-> WireAddr(c),
           session |-> IF Workload[c].push THEN 0 ELSE s,
           push |-> Workload[c].push, total |-> Len(Body(c))]>> \in Seq(RequestFrame)
    BY <1>1, WireType DEF RequestFrame
  <2>2. Chunks(s, Body(c)) \in Seq(RequestFrame)
    BY BodyType, ChunksType
  <2>. QED  BY <2>1, <2>2, ConcatProperties DEF LargeFrames
<1>. QED  BY <1>2, <1>3 DEF RequestFrames

LEMMA ResponseFramesType ==
  ASSUME NEW s \in Nat, NEW ok \in BOOLEAN, NEW body \in Seq(Chunk)
  PROVE  /\ ResponseFrames(s, ok, body) \in Seq(ResponseFrame)
         /\ ResponseFrames(s, ok, body) \in Seq(SocketEvents)
<1>1. Len(body) \in Nat /\ \A i \in 1 .. Len(body) : <<body[i]>> \in Seq(Chunk)
  OBVIOUS
<1>2. <<[type |-> IF ok THEN "OK" ELSE "ERR", session |-> s, body |-> body]>>
        \in Seq(ResponseFrame)
  BY DEF ResponseFrame
<1>3. <<[type |-> "MULTI_BEGIN", session |-> s, total |-> Len(body)]>>
        \in Seq(ResponseFrame)
  BY <1>1 DEF ResponseFrame
<1> DEFINE chunks == [i \in 1 .. Len(body) |->
               [type |-> IF i = Len(body) THEN "MULTI_END" ELSE "MULTI_PART",
                session |-> s, body |-> <<body[i]>>]]
<1>4. chunks \in Seq(ResponseFrame)
  <2>1. \A i \in 1 .. Len(body) : chunks[i] \in ResponseFrame
    BY <1>1 DEF ResponseFrame
  <2>. QED  BY <1>1, <2>1, IsASeq
<1>5. ResponseFrames(s, ok, body) \in Seq(ResponseFrame)
  <2> HIDE DEF chunks
  <2>1. <<[type |-> "MULTI_BEGIN", session |-> s, total |-> Len(body)]>> \o chunks
          \in Seq(ResponseFrame)
    BY <1>3, <1>4, ConcatProperties
  <2>. QED  BY <1>2, <2>1 DEF ResponseFrames, chunks
<1>. QED  BY <1>5, SeqWiden DEF SocketEvents

(* The helpers on tables and queues keep types.                            *)

InboxType == [Daemon -> [SockId -> Seq(SocketEvents)]]

LEMMA WrittenType ==
  ASSUME NEW box \in InboxType, NEW d, NEW c, NEW frames \in Seq(SocketEvents)
  PROVE  Written(box, d, c, frames) \in InboxType
<1> DEFINE e == Peer(d, c)
<1>1. CASE sock[c].state = "down"
  BY <1>1 DEF Written
<1>2. CASE sock[c].state # "down" /\ e \in Daemon /\ c \in SockId
  <2>1. box[e][c] \o frames \in Seq(SocketEvents)
    BY <1>2, ConcatProperties DEF InboxType
  <2>2. Written(box, d, c, frames) = [box EXCEPT ![e][c] = box[e][c] \o frames]
    BY <1>2 DEF Written, InboxType
  <2>. QED  BY <1>2, <2>1, <2>2 DEF InboxType
<1>3. CASE sock[c].state # "down" /\ ~(e \in Daemon /\ c \in SockId)
  BY <1>3 DEF Written, InboxType
<1>. QED  BY <1>1, <1>2, <1>3

LEMMA PoppedType ==
  ASSUME inbox \in InboxType, NEW d \in Daemon, NEW c \in SockId, NEW types,
         Event(d, c, types)
  PROVE  /\ Popped(d, c) \in InboxType
         /\ Frame(d, c) \in SocketEvents
<1>1. inbox[d][c] \in Seq(SocketEvents) /\ inbox[d][c] # <<>>
  BY DEF InboxType, Event
<1>2. Tail(inbox[d][c]) \in Seq(SocketEvents) /\ Head(inbox[d][c]) \in SocketEvents
  BY <1>1, HeadTailProperties
<1>. QED  BY <1>2 DEF Popped, Frame, InboxType

LEMMA FrameParts ==
  ASSUME NEW f \in SocketEvents
  PROVE  /\ f.type = "SMALL" => f.session \in Nat /\ f.addr \in Wire /\ f.body \in Bodies
         /\ f.type = "LARGE" => /\ f.session \in Nat /\ f.addr \in Wire
                                /\ f.push \in BOOLEAN /\ f.total \in Nat
         /\ f.type \in {"PART", "PART_END"} => f.session \in Nat /\ f.body \in Bodies
         /\ f.type \in {"OK", "ERR", "MULTI_PART", "MULTI_END"} =>
               f.session \in Nat /\ f.body \in Seq(Chunk)
         /\ f.type = "MULTI_BEGIN" => f.session \in Nat /\ f.total \in Nat
<1>1. CASE f \in RequestFrame
  BY <1>1 DEF RequestFrame
<1>2. CASE f \in ResponseFrame
  BY <1>2 DEF ResponseFrame
<1>3. CASE f \in ControlEvent
  BY <1>3 DEF ControlEvent
<1>. QED  BY <1>1, <1>2, <1>3 DEF SocketEvents

LEMMA AllocatedType ==
  ASSUME NEW table \in [Slot -> ConnType], NEW rec \in ConnType
  PROVE  Allocated(table, rec) \in [Slot -> ConnType]
  BY DEF Allocated

LEMMA FreedType ==
  ASSUME NEW table \in [Slot -> ConnType], NEW c
  PROVE  /\ Freed(table, c) \in [Slot -> ConnType]
         /\ FreeConn \in ConnType
  BY DEF Freed, FreeConn, ConnType, NoSock, Reassembly

LEMMA LeastExists ==
  ASSUME NEW S, S \subseteq Nat, S # {}
  PROVE  \E m \in S : \A k \in S : m <= k
<1> DEFINE R == {ss \in Nat \X Nat : ss[1] < ss[2]}
<1>1. IsWellFoundedOn(R, Nat)
  BY NatLessThanWellFounded DEF OpToRel
<1>2. \A k, m \in Nat : k < m => <<k, m>> \in R
  OBVIOUS
<1> HIDE DEF R
<1>3. \E m \in S : \A k \in S : <<k, m>> \notin R
  BY <1>1, WFMin
<1>4. \A k, m \in S : ~ (k < m) => m <= k
  OBVIOUS
<1>. QED  BY <1>2, <1>3, <1>4

LEMMA LookupType ==
  ASSUME names \in [Daemon -> Seq([name: Name, handle: Service])],
         NEW d \in Daemon, NEW name
  PROVE  Lookup(d, name) \in Service \cup {NoHandle}
<1> DEFINE at == {i \in DOMAIN names[d] : names[d][i].name = name}
<1>1. CASE at = {}
  BY <1>1 DEF Lookup
<1>2. CASE at # {}
  <2>1. at \subseteq Nat
    OBVIOUS
  <2> DEFINE first == CHOOSE i \in at : \A j \in at : i <= j
  <2>2. first \in at
    BY <1>2, <2>1, LeastExists
  <2>3. Lookup(d, name) = names[d][first].handle
    BY <1>2 DEF Lookup
  <2>4. first \in DOMAIN names[d]
    BY <2>2
  <2> HIDE DEF first, at
  <2>5. names[d] \in Seq([name: Name, handle: Service])
    OBVIOUS
  <2>6. names[d][first] \in [name: Name, handle: Service]
    BY <2>4, <2>5, LenProperties, ElementOfSeq
  <2>7. names[d][first].handle \in Service
    BY <2>6
  <2>. QED  BY <2>3, <2>7
<1>. QED  BY <1>1, <1>2

LEMMA AnsweredType ==
  ASSUME answers \in [Call -> Seq(Answer)], NEW calls, NEW a \in Answer
  PROVE  Answered(calls, a) \in [Call -> Seq(Answer)]
  BY DEF Answered

LEMMA AnswerTypes ==
  /\ ErrorAnswer \in Answer
  /\ \A body \in Seq(Chunk) : ResponseAnswer(body) \in Answer
  BY DEF ErrorAnswer, ResponseAnswer, Answer
-----------------------------------------------------------------------------
(* Type correctness, one lemma per group of actions.                       *)

USE DEF TypeOK, DaemonTypeOK, NetworkTypeOK, ServiceTypeOK, InboxType,
        daemonVars, networkVars, historyVars

LEMMA NodeUpdateType ==
  ASSUME TypeOK, NEW d \in Daemon, NEW n, NEW r \in NodeType
  PROVE  [node EXCEPT ![d][n] = r] \in [Daemon -> [Node -> NodeType]]
  OBVIOUS

LEMMA ConnUpdateType ==
  ASSUME TypeOK, NEW d, NEW table \in [Slot -> ConnType]
  PROVE  [conn EXCEPT ![d] = table] \in [Daemon -> [Slot -> ConnType]]
  OBVIOUS

LEMMA OpenSocketType ==
  ASSUME TypeOK, NEW d \in Daemon, NEW r \in NodeType, CanConnect(r), OpenSocket(d, r)
  PROVE  /\ sock' \in Seq([state: {"connecting", "open", "down"}, cli: Daemon, srv: Daemon])
         /\ conn' \in [Daemon -> [Slot -> ConnType]]
         /\ Connecting(r) \in NodeType
<1>1. r.peer \in Daemon
  BY DEF CanConnect, NodeType
<1>2. Len(sock) + 1 \in Nat
  OBVIOUS
<1>3. OutboundConn(Len(sock) + 1) \in ConnType
  BY <1>2, FreedType DEF OutboundConn, ConnType
<1>4. Allocated(conn[d], OutboundConn(Len(sock) + 1)) \in [Slot -> ConnType]
  BY <1>3, AllocatedType
<1>5. sock' \in Seq([state: {"connecting", "open", "down"}, cli: Daemon, srv: Daemon])
  BY <1>1 DEF OpenSocket
<1>6. conn' \in [Daemon -> [Slot -> ConnType]]
  BY <1>4 DEF OpenSocket
<1>7. Connecting(r) \in NodeType
  BY <1>2 DEF Connecting, NodeType
<1>. QED  BY <1>5, <1>6, <1>7

LEMMA CmdListenType ==
  ASSUME TypeOK, NEW d \in Daemon, CmdListen(d)  PROVE TypeOK'
  BY DEF CmdListen

LEMMA CmdRegisterType ==
  ASSUME TypeOK, NEW r \in Registration, CmdRegister(r)  PROVE TypeOK'
<1>1. r.at \in Daemon /\ [name |-> r.name, handle |-> r.handle] \in [name: Name, handle: Service]
  BY CommandAssumption
<1>2. names' \in [Daemon -> Seq([name: Name, handle: Service])]
  <2>1. Append(names[r.at], [name |-> r.name, handle |-> r.handle])
          \in Seq([name: Name, handle: Service])
    BY <1>1, AppendProperties
  <2>. QED  BY <1>1, <2>1 DEF CmdRegister
<1>. QED  BY <1>2 DEF CmdRegister

LEMMA CmdNodeType ==
  ASSUME TypeOK, NEW m \in NodeCmd, CmdNode(m)  PROVE TypeOK'
<1> DEFINE d == m.at
           r == [node[d][m.name] EXCEPT !.used = TRUE, !.peer = m.peer]
<1>1. d \in Daemon /\ m.name \in Node /\ m.peer \in Daemon \cup {NoPort}
  BY CommandAssumption
<1>2. r \in NodeType
  <2>1. node[d][m.name] \in NodeType
    BY <1>1
  <2>. QED  BY <1>1, <2>1 DEF NodeType
<1>3. CASE ~Linked(r) /\ CanConnect(r)
  <2>1. node' = [node EXCEPT ![d][m.name] = Connecting(r)] /\ OpenSocket(d, r)
    BY <1>3 DEF CmdNode
  <2> HIDE DEF r, d
  <2>2. node' \in [Daemon -> [Node -> NodeType]]
    BY <1>1, <1>2, <1>3, <2>1, OpenSocketType, NodeUpdateType
  <2>. QED  BY <1>1, <1>2, <1>3, <2>1, <2>2, OpenSocketType DEF CmdNode
<1>4. CASE ~(~Linked(r) /\ CanConnect(r))
  <2>1. node' = [node EXCEPT ![d][m.name] = r] /\ UNCHANGED <<conn, sock>>
    BY <1>4 DEF CmdNode
  <2>. QED  BY <1>1, <1>2, <2>1, NodeUpdateType DEF CmdNode
<1>. QED  BY <1>3, <1>4

LEMMA IssueType ==
  ASSUME TypeOK, NEW c \in Call, Issue(c)  PROVE issued' \in Seq(Call)
  BY DEF Issue

LEMMA IssueFailedType ==
  ASSUME TypeOK, NEW c \in Call, IssueFailed(c)  PROVE TypeOK'
<1>1. answers' \in [Call -> Seq(Answer)]
  BY AnsweredType, AnswerTypes DEF IssueFailed
<1>2. issued' \in Seq(Call)
  BY IssueType DEF IssueFailed
<1>. QED  BY <1>1, <1>2 DEF IssueFailed

LEMMA SessionType ==
  ASSUME TypeOK, NEW c \in Call
  PROVE  /\ At(c) \in Daemon /\ Workload[c].node \in Node
         /\ NextSession(sendSession[At(c)]) \in Nat
         /\ NewFrames(c) \in Seq(RequestFrame)
         /\ NewFrames(c) \in Seq(SocketEvents)
         /\ Entry(c) \in NodeType
<1>1. At(c) \in Daemon /\ Workload[c].node \in Node
  BY WorkloadAssumption DEF At
<1>2. sendSession[At(c)] \in Nat
  BY <1>1
<1>3. NextSession(sendSession[At(c)]) \in Nat
  BY <1>2, BoundAssumption DEF NextSession
<1>4. NewFrames(c) \in Seq(RequestFrame)
  BY <1>3, RequestFramesType DEF NewFrames
<1>5. NewFrames(c) \in Seq(SocketEvents)
  BY <1>4, SeqWiden DEF SocketEvents
<1>6. Entry(c) \in NodeType
  BY <1>1 DEF Entry
<1>. QED  BY <1>1, <1>3, <1>4, <1>5, <1>6

LEMMA SendRequestType ==
  ASSUME TypeOK, NEW c \in Call, SendRequest(c)
  PROVE  /\ psend' \in [Daemon -> SUBSET PendingSend]
         /\ sendSession' \in [Daemon -> Nat]
         /\ issued' \in Seq(Call)
         /\ answers' \in [Call -> Seq(Answer)]
<1> DEFINE d == At(c)
           s == NextSession(sendSession[d])
           p == [session |-> s, call |-> c, node |-> Workload[c].node]
<1>1. d \in Daemon /\ s \in Nat /\ p \in PendingSend
  BY SessionType DEF PendingSend
<1>2. sendSession' \in [Daemon -> Nat]
  BY <1>1 DEF SendRequest
<1>3. issued' \in Seq(Call)
  BY IssueType DEF SendRequest
<1>4. Answered({c}, ErrorAnswer) \in [Call -> Seq(Answer)]
  BY AnsweredType, AnswerTypes
<1>5. psend' \in [Daemon -> SUBSET PendingSend] /\ answers' \in [Call -> Seq(Answer)]
  <2>0. Track(c, s)
    BY DEF SendRequest
  <2>1. [psend EXCEPT ![d] = @ \cup {p}] \in [Daemon -> SUBSET PendingSend]
    BY <1>1
  <2> HIDE DEF s
  <2>2. \/ UNCHANGED psend
        \/ psend' = [psend EXCEPT ![d] = @ \cup {p}]
    BY <2>0 DEF Track
  <2>3. answers' = Answered({c}, ErrorAnswer) \/ UNCHANGED answers
    BY <2>0 DEF Track
  <2>. QED  BY <1>4, <2>1, <2>2, <2>3
<1>. QED  BY <1>2, <1>3, <1>5

LEMMA QueuedType ==
  ASSUME TypeOK, NEW c \in Call, NEW r \in NodeType
  PROVE  Queued(c, r) \in [Daemon -> [Node -> NodeType]]
<1>1. Enqueued(r, NewFrames(c)) \in NodeType
  <2>1. r.queue \o NewFrames(c) \in Seq(RequestFrame)
    BY SessionType, ConcatProperties DEF NodeType
  <2>. QED  BY <2>1 DEF Enqueued, NodeType
<1>. QED  BY <1>1, SessionType, NodeUpdateType DEF Queued

LEMMA ReqType ==
  ASSUME TypeOK, NEW c \in Call, ReqConnects(c) \/ ReqQueues(c) \/ ReqWrites(c)
  PROVE  TypeOK'
<1>1. CASE ReqConnects(c)
  <2>1. Connecting(Entry(c)) \in NodeType
    BY <1>1, SessionType, OpenSocketType DEF ReqConnects
  <2>2. node' \in [Daemon -> [Node -> NodeType]]
    BY <1>1, <2>1, QueuedType DEF ReqConnects
  <2>. QED
    BY <1>1, <2>2, SessionType, OpenSocketType, SendRequestType
       DEF ReqConnects, SendRequest
<1>2. CASE ReqQueues(c)
  <2>1. node' \in [Daemon -> [Node -> NodeType]]
    BY <1>2, SessionType, QueuedType DEF ReqQueues
  <2>. QED  BY <1>2, <2>1, SendRequestType DEF ReqQueues, SendRequest
<1>3. CASE ReqWrites(c)
  <2>1. inbox' \in InboxType
    BY <1>3, SessionType, WrittenType DEF ReqWrites
  <2>. QED  BY <1>3, <2>1, SendRequestType DEF ReqWrites, SendRequest
<1>. QED  BY <1>1, <1>2, <1>3

LEMMA EntryUpdates ==
  /\ \A r \in NodeType : Emptied(r) \in NodeType /\ Unlinked(r) \in NodeType
  /\ \A r \in ConnType : [r EXCEPT !.ready = TRUE] \in ConnType
<1>0. <<>> \in Seq(RequestFrame)
  OBVIOUS
<1>1. ASSUME NEW r \in NodeType  PROVE Emptied(r) \in NodeType
  BY <1>0 DEF Emptied, NodeType
<1>2. ASSUME NEW r \in NodeType  PROVE Unlinked(r) \in NodeType
  BY <1>0 DEF Unlinked, NodeType, NoSock
<1>3. ASSUME NEW r \in ConnType  PROVE [r EXCEPT !.ready = TRUE] \in ConnType
  BY DEF ConnType
<1>. QED  BY <1>1, <1>2, <1>3

LEMMA OnConnectType ==
  ASSUME TypeOK, NEW d \in Daemon, NEW c \in SockId, OnConnect(d, c)  PROVE TypeOK'
<1> DEFINE slots == ConnsOf(conn[d], c)
           using == NodesUsing(d, c)
           table == [k \in Slot |->
               IF k \in slots THEN [conn[d][k] EXCEPT !.ready = TRUE] ELSE conn[d][k]]
<1>1. Popped(d, c) \in InboxType
  BY PoppedType DEF OnConnect
<1>2. conn' \in [Daemon -> [Slot -> ConnType]]
  <2>1. table \in [Slot -> ConnType]
    BY EntryUpdates
  <2>2. conn' = [conn EXCEPT ![d] = table]
    BY DEF OnConnect
  <2> HIDE DEF table
  <2>. QED  BY <2>1, <2>2, ConnUpdateType
<1>3. CASE slots = {} \/ using = {}
  <2>1. inbox' = Popped(d, c) /\ UNCHANGED node
    BY <1>3 DEF OnConnect
  <2>. QED  BY <1>1, <1>2, <2>1 DEF OnConnect
<1>4. CASE ~(slots = {} \/ using = {})
  <2> DEFINE n == CHOOSE n \in using : TRUE
  <2>1. inbox' = Flushed(Popped(d, c), d, c, n) /\ node' = [node EXCEPT ![d][n] = Emptied(@)]
    BY <1>4 DEF OnConnect
  <2>2. n \in Node
    BY <1>4 DEF NodesUsing
  <2> HIDE DEF n
  <2>3. node[d][n].queue \in Seq(SocketEvents)
    <3>1. node[d][n].queue \in Seq(RequestFrame)
      BY <2>2 DEF NodeType
    <3>. QED  BY <3>1, SeqWiden DEF SocketEvents
  <2>4. inbox' \in InboxType
    BY <1>1, <2>1, <2>3, WrittenType DEF Flushed
  <2>5. Emptied(node[d][n]) \in NodeType
    BY <2>2, EntryUpdates
  <2>6. node' \in [Daemon -> [Node -> NodeType]]
    BY <2>1, <2>2, <2>5
  <2>. QED  BY <1>2, <2>4, <2>6 DEF OnConnect
<1>. QED  BY <1>3, <1>4

LEMMA OnAcceptType ==
  ASSUME TypeOK, NEW d \in Daemon, NEW c \in SockId, OnAccept(d, c)  PROVE TypeOK'
<1>1. InboundConn(c) \in ConnType
  <2>1. c \in Nat
    BY BoundAssumption DEF SockId
  <2>. QED  BY <2>1, FreedType DEF InboundConn, ConnType
<1>2. Allocated(conn[d], InboundConn(c)) \in [Slot -> ConnType]
  BY <1>1, AllocatedType
<1>3. conn' \in [Daemon -> [Slot -> ConnType]]
  BY <1>2 DEF OnAccept
<1>4. inbox' \in InboxType
  BY PoppedType DEF OnAccept
<1>. QED  BY <1>3, <1>4 DEF OnAccept

LEMMA OnCloseType ==
  ASSUME TypeOK, NEW d \in Daemon, NEW c \in SockId, OnClose(d, c)  PROVE TypeOK'
<1> DEFINE using == NodesUsing(d, c)
           failed == Stranded(d, using)
<1>1. conn' \in [Daemon -> [Slot -> ConnType]]
  BY FreedType DEF OnClose
<1>2. node' \in [Daemon -> [Node -> NodeType]]
  <2>1. \A n \in Node : Unlinked(node[d][n]) \in NodeType
    BY EntryUpdates
  <2>. QED  BY <2>1 DEF OnClose
<1>3. psend' \in [Daemon -> SUBSET PendingSend]
  BY DEF OnClose
<1>4. answers' \in [Call -> Seq(Answer)]
  BY AnsweredType, AnswerTypes DEF OnClose
<1>5. inbox' \in InboxType
  BY PoppedType DEF OnClose
<1>. QED  BY <1>1, <1>2, <1>3, <1>4, <1>5 DEF OnClose

ServedEntry == [sock: Nat, service: Service, body: Bodies]
WorkEntry == [local: Nat, service: Service, call: Call]

\* What a dispatched request changes, with the right types.
DispatchTypeOK ==
  /\ inbox' \in InboxType
  /\ precv' \in [Daemon -> SUBSET PendingRecv]
  /\ newSession' \in [Daemon -> Nat]
  /\ work' \in [Daemon -> SUBSET WorkEntry]
  /\ served' \in [Daemon -> Seq(ServedEntry)]

LEMMA BodyCall ==
  ASSUME NEW body \in Bodies  PROVE body[1][1] \in Call
<1>1. body \in Seq(BodyChunk) /\ Len(body) >= 1
  BY EmptySeq, LenProperties DEF Bodies
<1>2. body[1] \in BodyChunk
  BY <1>1, LenProperties, ElementOfSeq
<1>. QED  BY <1>2 DEF BodyChunk

LEMMA RespondedType ==
  ASSUME TypeOK, NEW d \in Daemon, NEW c \in SockId, NEW types, Event(d, c, types),
         NEW s \in Nat, NEW ok \in BOOLEAN, NEW body \in Seq(Chunk)
  PROVE  Responded(d, c, s, ok, body) \in InboxType
  BY PoppedType, ResponseFramesType, WrittenType DEF Responded

LEMMA ForwardType ==
  ASSUME TypeOK, NEW d \in Daemon, NEW c \in SockId, NEW k \in Slot,
         NEW types, Event(d, c, types), NEW push \in BOOLEAN, NEW s \in Nat,
         NEW h \in Service, NEW body \in Bodies, Forward(d, c, k, push, s, h, body)
  PROVE  /\ inbox' \in InboxType
         /\ precv' \in [Daemon -> SUBSET PendingRecv]
         /\ work' \in [Daemon -> SUBSET WorkEntry]
         /\ served' \in [Daemon -> Seq(ServedEntry)]
<1> DEFINE local == newSession[d] + 1
           entry == [local |-> local, slot |-> k, remote |-> s]
           held  == [local |-> local, service |-> h, call |-> body[1][1]]
           told  == [sock |-> c, service |-> h, body |-> body]
<1>1. c \in Nat /\ local \in Nat
  BY BoundAssumption DEF SockId
<1>2. entry \in PendingRecv /\ held \in WorkEntry /\ told \in ServedEntry
  BY <1>1, BodyCall DEF PendingRecv, WorkEntry, ServedEntry
<1>3. /\ precv' = Expecting(d, push, entry)
      /\ work' = work \/ work' = [work EXCEPT ![d] = @ \cup {held}]
      /\ served' = served \/ served' = [served EXCEPT ![d] = Append(@, told)]
      /\ inbox' = Popped(d, c)
  BY DEF Forward
<1> HIDE DEF entry, held, told
<1>4. precv' \in [Daemon -> SUBSET PendingRecv]
  BY <1>2, <1>3 DEF Expecting
<1>5. work' \in [Daemon -> SUBSET WorkEntry]
  <2>1. work \in [Daemon -> SUBSET WorkEntry]
    BY DEF WorkEntry
  <2>2. work[d] \cup {held} \in SUBSET WorkEntry
    BY <1>2, <2>1
  <2>. QED  BY <1>3, <2>1, <2>2
<1>6. served' \in [Daemon -> Seq(ServedEntry)]
  <2>1. served \in [Daemon -> Seq(ServedEntry)]
    BY DEF ServedEntry
  <2>2. Append(served[d], told) \in Seq(ServedEntry)
    BY <1>2, <2>1, AppendProperties
  <2>. QED  BY <1>3, <2>1, <2>2
<1>. QED  BY <1>3, <1>4, <1>5, <1>6, PoppedType

LEMMA DispatchType ==
  ASSUME TypeOK, NEW d \in Daemon, NEW c \in SockId, NEW k \in Slot,
         NEW types, Event(d, c, types), NEW push \in BOOLEAN, NEW s \in Nat,
         NEW addr \in Wire, NEW body \in Bodies, Dispatch(d, c, k, push, s, addr, body)
  PROVE  DispatchTypeOK
<1> DEFINE h == IF addr.byName THEN Lookup(d, addr.to) ELSE addr.to
<1>1. UNCHANGED <<precv, newSession, work, served>> =>
        /\ precv' \in [Daemon -> SUBSET PendingRecv]
        /\ newSession' \in [Daemon -> Nat]
        /\ work' \in [Daemon -> SUBSET WorkEntry]
        /\ served' \in [Daemon -> Seq(ServedEntry)]
  BY DEF WorkEntry, ServedEntry
<1>2. ASSUME Reject(d, c, push, s)
      PROVE  /\ inbox' \in InboxType
             /\ UNCHANGED <<precv, work, served>>
  <2>1. FALSE \in BOOLEAN /\ <<>> \in Seq(Chunk)
    OBVIOUS
  <2>2. Responded(d, c, s, FALSE, <<>>) \in InboxType
    BY <2>1, RespondedType
  <2>. QED  BY <1>2, <2>2, PoppedType DEF Reject
<1>3. CASE addr.to = Query /\ AnswerQuery(d, c, s, body)
  <2> DEFINE g == Lookup(d, Workload[body[1][1]].asks)
             found == g # NoHandle
             reply == IF found THEN <<<<g, 0>>>> ELSE <<>>
  <2>1. g \in Service \cup {NoHandle}
    BY LookupType
  <2>2. inbox' = Responded(d, c, s, found, reply) /\ UNCHANGED <<precv, newSession, work, served>>
    BY <1>3 DEF AnswerQuery
  <2> HIDE DEF g
  <2>3. found \in BOOLEAN /\ reply \in Seq(Chunk)
    <3>1. found => <<g, 0>> \in Chunk
      BY <2>1 DEF Chunk
    <3>. QED  BY <3>1
  <2> HIDE DEF found, reply
  <2>4. inbox' \in InboxType
    BY <2>2, <2>3, RespondedType
  <2>. QED  BY <1>1, <2>2, <2>4 DEF DispatchTypeOK
<1>4. CASE addr.to # Query /\ h = NoHandle /\ Reject(d, c, push, s) /\ UNCHANGED newSession
  BY <1>1, <1>2, <1>4 DEF DispatchTypeOK
<1>5. CASE /\ addr.to # Query /\ h # NoHandle
           /\ newSession' = [newSession EXCEPT ![d] = @ + 1]
           /\ IF Cardinality(precv[d]) >= MaxPending
              THEN Reject(d, c, push, s)
              ELSE Forward(d, c, k, push, s, h, body)
  <2>1. newSession' \in [Daemon -> Nat]
    BY <1>5
  <2>2. h \in Service
    <3>1. addr.byName \in BOOLEAN /\ (~addr.byName => addr.to \in Service \cup {Query})
      BY DEF Wire
    <3>. QED  BY <1>5, <3>1, LookupType
  <2> HIDE DEF h
  <2>3. CASE Reject(d, c, push, s)
    <3>1. inbox' \in InboxType /\ UNCHANGED <<precv, work, served>>
      BY <1>2, <2>3
    <3>2. work \in [Daemon -> SUBSET WorkEntry] /\ served \in [Daemon -> Seq(ServedEntry)]
      BY DEF WorkEntry, ServedEntry
    <3>. QED  BY <2>1, <3>1, <3>2 DEF DispatchTypeOK
  <2>4. CASE Forward(d, c, k, push, s, h, body)
    <3> HIDE DEF TypeOK, InboxType
    <3>1. /\ inbox' \in InboxType
          /\ precv' \in [Daemon -> SUBSET PendingRecv]
          /\ work' \in [Daemon -> SUBSET WorkEntry]
          /\ served' \in [Daemon -> Seq(ServedEntry)]
      BY <2>2, <2>4, ForwardType
    <3>. QED  BY <2>1, <3>1 DEF DispatchTypeOK
  <2>. QED  BY <1>5, <2>3, <2>4
<1>. QED  BY <1>3, <1>4, <1>5 DEF Dispatch

LEMMA ChunkTypes ==
  ASSUME NEW chunk, NEW r \in Reassembly(chunk), NEW s \in Nat, NEW body \in Seq(chunk)
  PROVE  /\ r.active \in BOOLEAN
         /\ r.active => /\ r.session \in Nat /\ r.push \in BOOLEAN
                        /\ r.addr \in Wire /\ r.got \in Seq(chunk)
         /\ r.active => WithChunk(r, body) \in Reassembly(chunk)
         /\ r.active => WithChunk(r, body).got = r.got \o body
         /\ Accepts(r, s) => r.active
         /\ NoBody \in Reassembly(chunk)
<1>1. NoBody \in Reassembly(chunk) /\ NoBody.active = FALSE
  BY DEF Reassembly, NoBody
<1>2. CASE r = NoBody
  BY <1>1, <1>2 DEF Accepts
<1>3. CASE r \in [active: {TRUE}, session: Nat, total: Nat, got: Seq(chunk),
                  addr: Wire, push: BOOLEAN]
  <2>1. r.got \o body \in Seq(chunk)
    BY <1>3, ConcatProperties
  <2>2. WithChunk(r, body) \in [active: {TRUE}, session: Nat, total: Nat,
                                got: Seq(chunk), addr: Wire, push: BOOLEAN]
    BY <1>3, <2>1 DEF WithChunk
  <2>3. WithChunk(r, body).got = r.got \o body
    BY <1>3 DEF WithChunk
  <2>. QED  BY <1>1, <1>3, <2>2, <2>3 DEF Reassembly, Accepts
<1>. QED  BY <1>2, <1>3 DEF Reassembly

LEMMA OpenBodyType ==
  ASSUME NEW chunk, NEW s \in Nat, NEW total \in Nat, NEW addr \in Wire, NEW push \in BOOLEAN
  PROVE  OpenBody(s, total, addr, push) \in Reassembly(chunk)
<1>1. <<>> \in Seq(chunk)
  OBVIOUS
<1>. QED  BY <1>1 DEF OpenBody, Reassembly

LEMMA SetBodyType ==
  ASSUME TypeOK, NEW d \in Daemon, NEW k \in Slot
  PROVE  /\ \A r \in Reassembly(BodyChunk) :
              SetRq(d, k, r) => conn' \in [Daemon -> [Slot -> ConnType]]
         /\ \A r \in Reassembly(Chunk) :
              SetRs(d, k, r) => conn' \in [Daemon -> [Slot -> ConnType]]
         /\ conn[d][k].rq \in Reassembly(BodyChunk)
         /\ conn[d][k].rs \in Reassembly(Chunk)
<1>0. conn[d][k] \in ConnType
  OBVIOUS
<1>1. ASSUME NEW r \in Reassembly(BodyChunk), SetRq(d, k, r)
      PROVE  conn' \in [Daemon -> [Slot -> ConnType]]
  <2>1. [conn[d][k] EXCEPT !.rq = r] \in ConnType
    BY <1>0 DEF ConnType
  <2>2. conn' = [conn EXCEPT ![d] = [conn[d] EXCEPT ![k] = [conn[d][k] EXCEPT !.rq = r]]]
    BY <1>1 DEF SetRq
  <2>. QED  BY <2>1, <2>2
<1>2. ASSUME NEW r \in Reassembly(Chunk), SetRs(d, k, r)
      PROVE  conn' \in [Daemon -> [Slot -> ConnType]]
  <2>1. [conn[d][k] EXCEPT !.rs = r] \in ConnType
    BY <1>0 DEF ConnType
  <2>2. conn' = [conn EXCEPT ![d] = [conn[d] EXCEPT ![k] = [conn[d][k] EXCEPT !.rs = r]]]
    BY <1>2 DEF SetRs
  <2>. QED  BY <2>1, <2>2
<1>3. conn[d][k].rq \in Reassembly(BodyChunk) /\ conn[d][k].rs \in Reassembly(Chunk)
  BY <1>0 DEF ConnType
<1>. QED  BY <1>1, <1>2, <1>3

LEMMA OnRequestType ==
  ASSUME TypeOK, NEW d \in Daemon, NEW c \in SockId, NEW k \in Slot, OnRequest(d, c, k)
  PROVE  TypeOK'
<1> DEFINE f == Frame(d, c)
           r == conn[d][k].rq
<1>1. Event(d, c, RequestTypes) /\ f \in SocketEvents /\ Popped(d, c) \in InboxType
  BY PoppedType DEF OnRequest
<1>2. r \in Reassembly(BodyChunk)
  BY SetBodyType
<1>3. SUFFICES DispatchTypeOK /\ conn' \in [Daemon -> [Slot -> ConnType]]
  BY DEF OnRequest, DispatchTypeOK, WorkEntry, ServedEntry
<1>4. UNCHANGED <<precv, newSession, work, served>> /\ inbox' = Popped(d, c) => DispatchTypeOK
  BY <1>1 DEF DispatchTypeOK, WorkEntry, ServedEntry
<1>5. CASE OnSmall(d, c, k)
  <2>1. f.session \in Nat /\ f.addr \in Wire /\ f.body \in Bodies
    BY <1>1, <1>5, FrameParts DEF OnSmall
  <2>2. (f.session = 0) \in BOOLEAN
    OBVIOUS
  <2>3. Dispatch(d, c, k, f.session = 0, f.session, f.addr, f.body) /\ UNCHANGED conn
    BY <1>5 DEF OnSmall
  <2> HIDE DEF f
  <2>. QED  BY <1>1, <2>1, <2>2, <2>3, DispatchType
<1>6. CASE OnLargeHeader(d, c, k)
  <2>1. /\ f.session \in Nat /\ f.addr \in Wire
        /\ f.push \in BOOLEAN /\ f.total \in Nat
    BY <1>1, <1>6, FrameParts DEF OnLargeHeader
  <2>2. OpenBody(f.session, f.total, f.addr, f.push) \in Reassembly(BodyChunk)
    BY <2>1, OpenBodyType
  <2>. QED  BY <1>4, <1>6, <2>2, SetBodyType DEF OnLargeHeader
<1>7. CASE OnPart(d, c, k)
  <2>1. f.session \in Nat /\ f.body \in Bodies
    BY <1>1, <1>7, FrameParts DEF OnPart
  <2>2. f.body \in Seq(BodyChunk) /\ f.body # <<>>
    BY <2>1 DEF Bodies
  <2> DEFINE whole == WithChunk(r, f.body).got
  <2>3. CASE ~Accepts(r, f.session) /\ inbox' = Popped(d, c)
             /\ UNCHANGED <<conn, precv, newSession, work, served>>
    BY <1>4, <2>3
  <2>4. CASE /\ Accepts(r, f.session) /\ f.type = "PART"
             /\ SetRq(d, k, WithChunk(r, f.body))
             /\ inbox' = Popped(d, c)
             /\ UNCHANGED <<precv, newSession, work, served>>
    <3>1. WithChunk(r, f.body) \in Reassembly(BodyChunk)
      BY <1>2, <2>1, <2>2, <2>4, ChunkTypes
    <3>. QED  BY <1>4, <2>4, <3>1, SetBodyType
  <2>5. CASE /\ Accepts(r, f.session) /\ f.type = "PART_END"
             /\ SetRq(d, k, NoBody)
             /\ Dispatch(d, c, k, r.push, r.session, r.addr, whole)
    <3>1. /\ r.session \in Nat /\ r.push \in BOOLEAN /\ r.addr \in Wire
          /\ r.got \in Seq(BodyChunk) /\ whole = r.got \o f.body
          /\ NoBody \in Reassembly(BodyChunk)
      BY <1>2, <2>1, <2>2, <2>5, ChunkTypes
    <3>2. whole \in Bodies
      <4>1. r.got \o f.body \in Seq(BodyChunk) /\ Len(r.got \o f.body) = Len(r.got) + Len(f.body)
        BY <2>2, <3>1, ConcatProperties
      <4>2. Len(f.body) > 0 /\ Len(r.got) >= 0
        BY <2>2, <3>1, EmptySeq, LenProperties
      <4>3. r.got \o f.body # <<>>
        BY <4>1, <4>2
      <4>. QED  BY <3>1, <4>1, <4>3 DEF Bodies
    <3> HIDE DEF whole, r
    <3>3. DispatchTypeOK
      BY <1>1, <2>5, <3>1, <3>2, DispatchType
    <3>. QED  BY <2>5, <3>1, <3>3, SetBodyType
  <2>. QED  BY <1>7, <2>3, <2>4, <2>5 DEF OnPart
<1>. QED  BY <1>5, <1>6, <1>7 DEF OnRequest

LEMMA CompleteType ==
  ASSUME TypeOK, NEW d \in Daemon, NEW p \in psend[d], NEW a \in Answer, Complete(d, p, a)
  PROVE  /\ psend' \in [Daemon -> SUBSET PendingSend]
         /\ answers' \in [Call -> Seq(Answer)]
<1>1. psend' \in [Daemon -> SUBSET PendingSend]
  BY DEF Complete, Released
<1>2. answers' \in [Call -> Seq(Answer)]
  BY AnsweredType DEF Complete
<1>. QED  BY <1>1, <1>2

LEMMA OnResponseType ==
  ASSUME TypeOK, NEW d \in Daemon, NEW c \in SockId, NEW k \in Slot, NEW p \in psend[d],
         OnResponse(d, c, k, p)
  PROVE  TypeOK'
<1> DEFINE f == Frame(d, c)
           r == conn[d][k].rs
           ConnOK == conn' \in [Daemon -> [Slot -> ConnType]]
           CallersOK == /\ psend' \in [Daemon -> SUBSET PendingSend]
                        /\ answers' \in [Call -> Seq(Answer)]
<1>1. Event(d, c, ResponseTypes) /\ f \in SocketEvents /\ Popped(d, c) \in InboxType
  BY PoppedType DEF OnResponse
<1>2. r \in Reassembly(Chunk) /\ p.call \in Call
  <2>1. p \in PendingSend
    OBVIOUS
  <2>2. p.call \in Call
    BY <2>1 DEF PendingSend
  <2>. QED  BY <2>2, SetBodyType
<1>3. SUFFICES ConnOK /\ CallersOK
  BY <1>1 DEF OnResponse
<1>4. (UNCHANGED conn => ConnOK) /\ (UNCHANGED <<psend, answers>> => CallersOK)
  OBVIOUS
<1>5. \A a \in Answer : Complete(d, p, a) => CallersOK
  BY CompleteType
<1>6. CASE f.type = "ERR" /\ Complete(d, p, ErrorAnswer) /\ UNCHANGED conn
  BY <1>4, <1>5, <1>6, AnswerTypes
<1>7. CASE f.type = "OK" /\ Complete(d, p, ResponseAnswer(f.body)) /\ UNCHANGED conn
  <2>1. f.body \in Seq(Chunk)
    BY <1>1, <1>7, FrameParts
  <2>. QED  BY <1>4, <1>5, <1>7, <2>1, AnswerTypes
<1>8. CASE /\ f.type = "MULTI_BEGIN"
           /\ SetRs(d, k, OpenBody(f.session, f.total, WireAddr(p.call), FALSE))
           /\ UNCHANGED <<psend, answers>>
  <2>1. f.session \in Nat /\ f.total \in Nat
    BY <1>1, <1>8, FrameParts
  <2>2. WireAddr(p.call) \in Wire /\ FALSE \in BOOLEAN
    BY <1>2, WireType
  <2>3. OpenBody(f.session, f.total, WireAddr(p.call), FALSE) \in Reassembly(Chunk)
    BY <2>1, <2>2, OpenBodyType
  <2>. QED  BY <1>4, <1>8, <2>3, SetBodyType
<1>9. CASE f.type \in {"MULTI_PART", "MULTI_END"}
  <2>1. f.session \in Nat /\ f.body \in Seq(Chunk)
    BY <1>1, <1>9, FrameParts
  <2>2. CASE UNCHANGED <<conn, psend, answers>>
    BY <1>4, <2>2
  <2>3. CASE /\ Accepts(r, f.session) /\ SetRs(d, k, WithChunk(r, f.body))
             /\ UNCHANGED <<psend, answers>>
    <3>1. WithChunk(r, f.body) \in Reassembly(Chunk)
      BY <1>2, <2>1, <2>3, ChunkTypes
    <3>. QED  BY <1>4, <2>3, <3>1, SetBodyType
  <2>4. CASE /\ Accepts(r, f.session) /\ SetRs(d, k, NoBody)
             /\ Complete(d, p, ResponseAnswer(WithChunk(r, f.body).got))
    <3>1. /\ r.got \in Seq(Chunk) /\ WithChunk(r, f.body).got = r.got \o f.body
          /\ NoBody \in Reassembly(Chunk)
      BY <1>2, <2>1, <2>4, ChunkTypes
    <3>2. WithChunk(r, f.body).got \in Seq(Chunk)
      BY <2>1, <3>1, ConcatProperties
    <3>3. ConnOK
      BY <2>4, <3>1, SetBodyType
    <3>4. CallersOK
      BY <1>5, <2>4, <3>2, AnswerTypes
    <3>. QED  BY <3>3, <3>4
  <2>. QED  BY <1>9, <2>2, <2>3, <2>4 DEF OnResponse
<1>. QED  BY <1>6, <1>7, <1>8, <1>9 DEF OnResponse

LEMMA OnIgnoredType ==
  ASSUME TypeOK, NEW d \in Daemon, NEW c \in SockId, OnIgnored(d, c)  PROVE TypeOK'
<1>1. inbox' \in InboxType
  BY PoppedType DEF OnIgnored
<1>. QED  BY <1>1 DEF OnIgnored

LEMMA LocalReplyType ==
  ASSUME TypeOK, NEW d \in Daemon, NEW w \in work[d], NEW ok \in BOOLEAN,
         LocalReply(d, w, ok)
  PROVE  TypeOK'
<1>1. PICK p \in precv[d] :
        LET c == conn[d][p.slot].sock
        IN  /\ p.local = w.local
            /\ inbox' = IF c = NoSock THEN inbox
                        ELSE Written(inbox, d, c, ResponseFrames(p.remote, ok,
                                IF ok THEN Reply(w.call) ELSE <<>>))
            /\ precv' = [precv EXCEPT ![d] = @ \ {p}]
            /\ work' = [work EXCEPT ![d] = @ \ {w}]
            /\ UNCHANGED <<node, conn, psend, names, sendSession, newSession, sock,
                           listening, faults, crashes, historyVars, alive>>
  BY DEF LocalReply
<1> DEFINE reply == IF ok THEN Reply(w.call) ELSE <<>>
           frames == ResponseFrames(p.remote, ok, reply)
           c == conn[d][p.slot].sock
<1>2. p.remote \in Nat /\ w.call \in Call
  BY DEF PendingRecv
<1>3. reply \in Seq(Chunk)
  BY <1>2, ReplyType
<1>4. frames \in Seq(SocketEvents)
  BY <1>2, <1>3, ResponseFramesType
<1>5. inbox' = inbox \/ inbox' = Written(inbox, d, c, frames)
  BY <1>1
<1> HIDE DEF frames, c
<1>6. Written(inbox, d, c, frames) \in InboxType
  BY <1>4, WrittenType
<1>7. inbox' \in InboxType
  BY <1>5, <1>6
<1>. QED  BY <1>1, <1>7

LEMMA ServiceExitType ==
  ASSUME TypeOK, NEW d \in Daemon, NEW h \in Service, ServiceExit(d, h)  PROVE TypeOK'
<1>1. alive' \in [Daemon -> SUBSET Service]
  BY DEF ServiceExit
<1>2. work' \in [Daemon -> SUBSET [local: Nat, service: Service, call: Call]]
  BY DEF ServiceExit
<1>. QED  BY <1>1, <1>2 DEF ServiceExit

SockType == [state: {"connecting", "open", "down"}, cli: Daemon, srv: Daemon]

LEMMA SockUpdateType ==
  ASSUME TypeOK, NEW c \in SockId, c <= Len(sock)
  PROVE  /\ sock[c].cli \in Daemon /\ sock[c].srv \in Daemon
         /\ \A st \in {"open", "down"} : [sock EXCEPT ![c].state = st] \in Seq(SockType)
<1>1. sock \in Seq(SockType) /\ c \in 1 .. Len(sock)
  BY BoundAssumption DEF SockType, SockId
<1>2. sock[c] \in SockType
  BY <1>1, ElementOfSeq
<1>3. \A st \in {"open", "down"} : [sock[c] EXCEPT !.state = st] \in SockType
  BY <1>2 DEF SockType
<1>4. ASSUME NEW st \in {"open", "down"}
      PROVE  [sock EXCEPT ![c].state = st] \in Seq(SockType)
  <2> DEFINE u == [sock[c] EXCEPT !.state = st]
  <2>1. u \in SockType
    BY <1>3
  <2>2. [sock EXCEPT ![c].state = st] = [sock EXCEPT ![c] = u]
    OBVIOUS
  <2> HIDE DEF u
  <2>. QED  BY <1>1, <2>1, <2>2, ExceptSeq
<1>. QED  BY <1>2, <1>4 DEF SockType

LEMMA TcpType ==
  ASSUME TypeOK, NEW c \in SockId, Tcp(c)  PROVE TypeOK'
<1>1. c <= Len(sock)
  BY DEF Tcp, TcpConnected, TcpRefused, TcpReset, SockIs
<1>2. sock[c].cli \in Daemon /\ sock[c].srv \in Daemon
  BY <1>1, SockUpdateType
<1>3. Close \in SocketEvents /\ [type |-> "CONNECT"] \in SocketEvents
      /\ [type |-> "ACCEPT"] \in SocketEvents
  BY DEF Close, SocketEvents, ControlEvent
<1>4. ToCli(c) \in Seq(SocketEvents) /\ ToSrv(c) \in Seq(SocketEvents)
  BY <1>2 DEF ToCli, ToSrv
<1>5. /\ sock' \in Seq([state: {"connecting", "open", "down"}, cli: Daemon, srv: Daemon])
      /\ faults' \in Nat
  <2>1. \E st \in {"open", "down"} : sock' = [sock EXCEPT ![c].state = st]
    BY DEF Tcp, TcpConnected, TcpRefused, TcpReset
  <2>2. faults' \in {faults, faults + 1}
    BY DEF Tcp, TcpConnected, TcpRefused, TcpReset
  <2>3. sock' \in Seq(SockType)
    <3>1. PICK st \in {"open", "down"} : sock' = [sock EXCEPT ![c].state = st]
      BY <2>1
    <3>2. [sock EXCEPT ![c].state = st] \in Seq(SockType)
      BY <1>1, SockUpdateType
    <3>. QED  BY <3>1, <3>2
  <2>. QED  BY <2>2, <2>3 DEF SockType
<1>6. \A x, y \in Seq(SocketEvents) : Delivered(c, x, y) \in InboxType
  BY <1>2 DEF Delivered
<1>7. ASSUME NEW q \in Seq(SocketEvents), NEW m \in HeadEvents(q) .. Len(q)
      PROVE  Cut(q, m) \in Seq(SocketEvents)
  <2>1. m \in 0 .. Len(q)
    BY LenProperties DEF HeadEvents
  <2>2. SubSeq(q, 1, m) \in Seq(SocketEvents)
    BY <2>1, LenProperties, SubSeqProperties
  <2>. QED  BY <1>3, <2>2, AppendProperties DEF Cut
<1>8. inbox' \in InboxType
  <2>1. CASE TcpConnected(c)
    <3>1. Append(ToCli(c), [type |-> "CONNECT"]) \in Seq(SocketEvents)
      BY <1>3, <1>4, AppendProperties
    <3>2. <<[type |-> "ACCEPT"]>> \o ToSrv(c) \in Seq(SocketEvents)
      BY <1>3, <1>4, ConcatProperties
    <3>. QED  BY <1>6, <2>1, <3>1, <3>2 DEF TcpConnected
  <2>2. CASE TcpRefused(c)
    <3>1. Append(ToCli(c), Close) \in Seq(SocketEvents) /\ <<>> \in Seq(SocketEvents)
      BY <1>3, <1>4, AppendProperties
    <3>. QED  BY <1>6, <2>2, <3>1 DEF TcpRefused
  <2>3. CASE TcpReset(c)
    <3>1. PICK i \in HeadEvents(ToCli(c)) .. Len(ToCli(c)),
               j \in HeadEvents(ToSrv(c)) .. Len(ToSrv(c)) :
            inbox' = Delivered(c, Cut(ToCli(c), i), Cut(ToSrv(c), j))
      BY <2>3 DEF TcpReset
    <3>. QED  BY <1>4, <1>6, <1>7, <3>1
  <2>. QED  BY <2>1, <2>2, <2>3 DEF Tcp
<1>9. UNCHANGED <<daemonVars, listening, crashes, historyVars, alive, work>>
  BY DEF Tcp, TcpConnected, TcpRefused, TcpReset
<1>. QED  BY <1>5, <1>8, <1>9

LEMMA CrashType ==
  ASSUME TypeOK, NEW d \in Daemon, Crash(d)  PROVE TypeOK'
<1> DEFINE mine  == {c \in DOMAIN sock : sock[c].cli = d \/ sock[c].srv = d}
           ended == {c \in mine : \/ sock[c].state = "open"
                                  \/ sock[c].state = "connecting" /\ sock[c].cli = d}
<1>1. node' \in [Daemon -> [Node -> NodeType]]
  <2>1. UnusedNode \in NodeType
    <3>1. <<>> \in Seq(RequestFrame)
      OBVIOUS
    <3>. QED  BY <3>1 DEF UnusedNode, NodeType, NoSock
  <2>. QED  BY <2>1 DEF Crash
<1>2. conn' \in [Daemon -> [Slot -> ConnType]]
  BY FreedType DEF Crash
<1>3. psend' \in [Daemon -> SUBSET PendingSend] /\ precv' \in [Daemon -> SUBSET PendingRecv]
  BY DEF Crash
<1>4. /\ names' \in [Daemon -> Seq([name: Name, handle: Service])]
      /\ sendSession' \in [Daemon -> Nat] /\ newSession' \in [Daemon -> Nat]
      /\ crashes' \in Nat /\ listening' \in SUBSET Daemon
  <2>1. <<>> \in Seq([name: Name, handle: Service]) /\ 0 \in Nat
    OBVIOUS
  <2>2. names' = [names EXCEPT ![d] = <<>>]
    BY DEF Crash
  <2>3. /\ sendSession' = [sendSession EXCEPT ![d] = 0]
        /\ newSession' = [newSession EXCEPT ![d] = 0]
    BY DEF Crash
  <2>4. crashes' = crashes + 1 /\ listening' = listening \ {d}
    BY DEF Crash
  <2>5. names' \in [Daemon -> Seq([name: Name, handle: Service])]
    BY <2>1, <2>2
  <2>6. sendSession' \in [Daemon -> Nat] /\ newSession' \in [Daemon -> Nat]
    BY <2>3
  <2>7. crashes' \in Nat /\ listening' \in SUBSET Daemon
    BY <2>4
  <2>. QED  BY <2>5, <2>6, <2>7
<1>5. /\ alive' \in [Daemon -> SUBSET Service]
      /\ work' \in [Daemon -> SUBSET [local: Nat, service: Service, call: Call]]
  BY DEF Crash
<1>6. sock' \in Seq(SockType)
  <2>1. sock \in Seq(SockType) /\ \A c \in 1 .. Len(sock) : sock[c] \in SockType
    BY ElementOfSeq DEF SockType
  <2>2. \A c \in 1 .. Len(sock) : [sock[c] EXCEPT !.state = "down"] \in SockType
    BY <2>1 DEF SockType
  <2>3. sock' = [c \in 1 .. Len(sock) |->
                   IF c \in ended THEN [sock[c] EXCEPT !.state = "down"] ELSE sock[c]]
    BY <2>1, LenProperties DEF Crash
  <2> HIDE DEF ended
  <2>4. \A c \in 1 .. Len(sock) :
          (IF c \in ended THEN [sock[c] EXCEPT !.state = "down"] ELSE sock[c]) \in SockType
    BY <2>1, <2>2
  <2>5. Len(sock) \in Nat
    BY <2>1, LenProperties
  <2> DEFINE e(c) == IF c \in ended THEN [sock[c] EXCEPT !.state = "down"] ELSE sock[c]
  <2>6. sock' = [c \in 1 .. Len(sock) |-> e(c)] /\ \A c \in 1 .. Len(sock) : e(c) \in SockType
    BY <2>3, <2>4
  <2> HIDE DEF e
  <2>. QED  BY <2>5, <2>6, IsASeq
<1>7. inbox' \in InboxType
  <2>1. Close \in SocketEvents
    BY DEF Close, SocketEvents, ControlEvent
  <2>2. \A e \in Daemon, c \in SockId :
          Append(inbox[e][c], Close) \in Seq(SocketEvents) /\ inbox[e][c] \in Seq(SocketEvents)
    BY <2>1, AppendProperties
  <2>3. inbox' = [e \in Daemon |-> [c \in SockId |->
               CASE e = d -> <<>>
                 [] e # d /\ c \in ended /\ sock[c].state = "open" /\ e = Peer(d, c) ->
                        Append(inbox[e][c], Close)
                 [] e # d /\ c \in ended /\ sock[c].state = "connecting" -> <<>>
                 [] OTHER -> inbox[e][c]]]
    BY DEF Crash
  <2> HIDE DEF ended
  <2>. QED  BY <2>2, <2>3
<1>. QED  BY <1>1, <1>2, <1>3, <1>4, <1>5, <1>6, <1>7 DEF Crash, SockType

LEMMA InitType == Init => TypeOK
<1> SUFFICES ASSUME Init PROVE TypeOK
  OBVIOUS
<1>1. UnusedNode \in NodeType
  <2>1. <<>> \in Seq(RequestFrame)
    OBVIOUS
  <2>. QED  BY <2>1 DEF UnusedNode, NodeType, NoSock
<1>2. FreeConn \in ConnType
  BY DEF FreeConn, ConnType, NoSock, Reassembly
<1>3. \A S : <<>> \in Seq(S)
  OBVIOUS
<1>4. node \in [Daemon -> [Node -> NodeType]] /\ conn \in [Daemon -> [Slot -> ConnType]]
  BY <1>1, <1>2 DEF Init
<1>5. psend \in [Daemon -> SUBSET PendingSend] /\ precv \in [Daemon -> SUBSET PendingRecv]
  BY DEF Init
<1>6. names \in [Daemon -> Seq([name: Name, handle: Service])]
  BY <1>3 DEF Init
<1>7. sendSession \in [Daemon -> Nat] /\ newSession \in [Daemon -> Nat]
  BY DEF Init
<1>8. NetworkTypeOK
  <2>1. sock \in Seq([state: {"connecting", "open", "down"}, cli: Daemon, srv: Daemon])
    BY <1>3 DEF Init
  <2>2. inbox \in [Daemon -> [SockId -> Seq(SocketEvents)]]
    BY <1>3 DEF Init
  <2>. QED  BY <2>1, <2>2 DEF Init
<1>9. ServiceTypeOK
  <2>1. issued \in Seq(Call) /\ answers \in [Call -> Seq(Answer)]
    BY <1>3 DEF Init
  <2>2. served \in [Daemon -> Seq([sock: Nat, service: Service, body: Bodies])]
    BY <1>3 DEF Init
  <2>. QED  BY <2>1, <2>2 DEF Init
<1>. QED  BY <1>4, <1>5, <1>6, <1>7, <1>8, <1>9

LEMMA NextType == TypeOK /\ [Next]_vars => TypeOK'
<1> SUFFICES ASSUME TypeOK, [Next]_vars  PROVE TypeOK'
  OBVIOUS
<1>1. ASSUME NEW d \in Daemon, Command(d)  PROVE TypeOK'
  <2>1. CASE CmdListen(d)
    BY <2>1, CmdListenType
  <2>2. ASSUME NEW r \in Registration, CmdRegister(r)  PROVE TypeOK'
    BY <2>2, CmdRegisterType
  <2>3. ASSUME NEW m \in NodeCmd, CmdNode(m)  PROVE TypeOK'
    BY <2>3, CmdNodeType
  <2>4. ASSUME NEW c \in Call, ReqUnknownNode(c) \/ ReqConnectFails(c)  PROVE TypeOK'
    BY <2>4, IssueFailedType DEF ReqUnknownNode, ReqConnectFails
  <2>5. ASSUME NEW c \in Call, ReqConnects(c) \/ ReqQueues(c) \/ ReqWrites(c)  PROVE TypeOK'
    BY <2>5, ReqType
  <2>. QED  BY <1>1, <2>1, <2>2, <2>3, <2>4, <2>5 DEF Command
<1>2. ASSUME NEW d \in Daemon, ServiceStep(d)  PROVE TypeOK'
  BY <1>2, LocalReplyType, ServiceExitType DEF ServiceStep
<1>3. ASSUME NEW d \in Daemon, NEW c \in SockId, SocketEvent(d, c)  PROVE TypeOK'
  <2>1. CASE OnConnect(d, c)
    BY <2>1, OnConnectType
  <2>2. CASE OnAccept(d, c)
    BY <2>2, OnAcceptType
  <2>3. CASE OnClose(d, c)
    BY <2>3, OnCloseType
  <2>4. CASE OnIgnored(d, c)
    BY <2>4, OnIgnoredType
  <2>5. ASSUME NEW k \in Slot, OnRequest(d, c, k)  PROVE TypeOK'
    BY <2>5, OnRequestType
  <2>6. ASSUME NEW k \in Slot, NEW p \in psend[d], OnResponse(d, c, k, p)  PROVE TypeOK'
    BY <2>6, OnResponseType
  <2>. QED  BY <1>3, <2>1, <2>2, <2>3, <2>4, <2>5, <2>6 DEF SocketEvent
<1>4. ASSUME NEW d \in Daemon, Crash(d)  PROVE TypeOK'
  BY <1>4, CrashType
<1>5. ASSUME NEW c \in SockId, Tcp(c)  PROVE TypeOK'
  BY <1>5, TcpType
<1>6. CASE UNCHANGED vars
  BY <1>6 DEF vars
<1>. QED  BY <1>1, <1>2, <1>3, <1>4, <1>5, <1>6 DEF Next

\* Every table, counter, queue and frame of the daemons keeps its type, for
\* any number of daemons, calls, crashes and lost connections.
THEOREM TypeCorrect == Spec => []TypeOK
  BY InitType, NextType, PTL DEF Spec
-----------------------------------------------------------------------------
(* A caller is answered at most once, and a held request is tracked, for   *)
(* every number of daemons and calls.  A step moves the callers' side of a *)
(* daemon (psend, answers, issued) in one of five ways, and its services'  *)
(* side (precv, work, newSession) in one of four: the lemmas CallerMoves   *)
(* and ServiceMoves read them off the actions, the rest reasons about them.*)

HIDE DEF TypeOK, DaemonTypeOK, NetworkTypeOK, ServiceTypeOK, InboxType,
         daemonVars, networkVars, historyVars

(* How a step moves the callers' side.                                     *)

CallersStay == UNCHANGED <<psend, answers, issued>>
CallerRefused(c) ==
    /\ Issue(c) /\ UNCHANGED psend
    /\ \E a \in Answer : answers' = Answered({c}, a)
CallerWaits(c) ==
    /\ Issue(c) /\ UNCHANGED answers
    /\ \/ UNCHANGED psend
       \/ \E p \in PendingSend :
             p.call = c /\ psend' = [psend EXCEPT ![At(c)] = @ \cup {p}]
CallersTold(d, told) ==
    /\ psend' = [psend EXCEPT ![d] = @ \ told]
    /\ \E a \in Answer : answers' = Answered({p.call : p \in told}, a)
    /\ UNCHANGED issued
CallersForgotten(d) ==
    psend' = [psend EXCEPT ![d] = {}] /\ UNCHANGED <<answers, issued>>

CallerMove ==
    \/ CallersStay
    \/ \E c \in Call : CallerRefused(c) \/ CallerWaits(c)
    \/ \E d \in Daemon : \E told \in SUBSET psend[d] : CallersTold(d, told)
    \/ \E d \in Daemon : CallersForgotten(d)

LEMMA SendMoves ==
  ASSUME TypeOK, NEW c \in Call, SendRequest(c)
  PROVE  CallerRefused(c) \/ CallerWaits(c)
<1> DEFINE s == NextSession(sendSession[At(c)])
           p == [session |-> s, call |-> c, node |-> Workload[c].node]
<1>1. Issue(c) /\ Track(c, s)
  BY DEF SendRequest
<1>2. p \in PendingSend /\ p.call = c
  BY SessionType DEF PendingSend
<1>3. ErrorAnswer \in Answer
  BY AnswerTypes
<1> HIDE DEF s
<1>4. \/ UNCHANGED <<psend, answers>>
      \/ UNCHANGED psend /\ answers' = Answered({c}, ErrorAnswer)
      \/ UNCHANGED answers /\ psend' = [psend EXCEPT ![At(c)] = @ \cup {p}]
  BY <1>1 DEF Track
<1> HIDE DEF p
<1>. QED  BY <1>1, <1>2, <1>3, <1>4 DEF CallerRefused, CallerWaits

LEMMA ResponseMoves ==
  ASSUME TypeOK, NEW d \in Daemon, NEW c \in SockId, NEW k \in Slot,
         NEW p \in psend[d], OnResponse(d, c, k, p)
  PROVE  CallerMove
<1> DEFINE f == Frame(d, c)
           whole == WithChunk(conn[d][k].rs, f.body).got
<1>1. f \in SocketEvents /\ conn[d][k].rs \in Reassembly(Chunk)
  BY PoppedType, SetBodyType
     DEF OnResponse, TypeOK, NetworkTypeOK, InboxType
<1>2. UNCHANGED issued
  BY DEF OnResponse
<1>3. ASSUME NEW a \in Answer, Complete(d, p, a)  PROVE CallerMove
  <2>1. CallersTold(d, {p})
    <3>1. {q.call : q \in {p}} = {p.call}
      OBVIOUS
    <3>. QED  BY <1>2, <1>3, <3>1 DEF CallersTold, Complete, Released
  <2>2. {p} \in SUBSET psend[d]
    OBVIOUS
  <2>. QED  BY <2>1, <2>2 DEF CallerMove
<1>4. CASE UNCHANGED <<psend, answers>>
  BY <1>2, <1>4 DEF CallerMove, CallersStay
<1>5. CASE f.type = "ERR" /\ Complete(d, p, ErrorAnswer)
  BY <1>3, <1>5, AnswerTypes
<1>6. CASE f.type = "OK" /\ Complete(d, p, ResponseAnswer(f.body))
  <2>1. f.body \in Seq(Chunk)
    BY <1>1, <1>6, FrameParts
  <2>. QED  BY <1>3, <1>6, <2>1, AnswerTypes
<1>7. CASE /\ f.type = "MULTI_END" /\ Accepts(conn[d][k].rs, f.session)
           /\ Complete(d, p, ResponseAnswer(whole))
  <2>1. f.session \in Nat /\ f.body \in Seq(Chunk)
    BY <1>1, <1>7, FrameParts
  <2>2. whole = conn[d][k].rs.got \o f.body /\ conn[d][k].rs.got \in Seq(Chunk)
    BY <1>1, <1>7, <2>1, ChunkTypes
  <2>3. whole \in Seq(Chunk)
    BY <2>1, <2>2, ConcatProperties
  <2>. QED  BY <1>3, <1>7, <2>3, AnswerTypes
<1>. QED  BY <1>4, <1>5, <1>6, <1>7 DEF OnResponse

LEMMA CallerMoves == TypeOK /\ [Next]_vars => CallerMove
<1> SUFFICES ASSUME TypeOK, [Next]_vars  PROVE CallerMove
  OBVIOUS
<1> USE DEF historyVars
<1>1. ASSUME NEW d \in Daemon, Command(d)  PROVE CallerMove
  <2>1. CASE CmdListen(d)
    BY <2>1 DEF CmdListen, CallerMove, CallersStay, daemonVars
  <2>2. ASSUME NEW r \in Registration, CmdRegister(r)  PROVE CallerMove
    BY <2>2 DEF CmdRegister, CallerMove, CallersStay
  <2>3. ASSUME NEW m \in NodeCmd, CmdNode(m)  PROVE CallerMove
    BY <2>3 DEF CmdNode, CallerMove, CallersStay
  <2>4. ASSUME NEW c \in Call, ReqUnknownNode(c) \/ ReqConnectFails(c)  PROVE CallerMove
    BY <2>4, AnswerTypes
       DEF ReqUnknownNode, ReqConnectFails, IssueFailed, daemonVars, CallerMove, CallerRefused
  <2>5. ASSUME NEW c \in Call, ReqConnects(c) \/ ReqQueues(c) \/ ReqWrites(c)  PROVE CallerMove
    BY <2>5, SendMoves DEF ReqConnects, ReqQueues, ReqWrites, CallerMove
  <2>. QED  BY <1>1, <2>1, <2>2, <2>3, <2>4, <2>5 DEF Command
<1>2. ASSUME NEW d \in Daemon, ServiceStep(d)  PROVE CallerMove
  BY <1>2 DEF ServiceStep, LocalReply, ServiceExit, daemonVars, CallerMove, CallersStay
<1>3. ASSUME NEW d \in Daemon, NEW c \in SockId, SocketEvent(d, c)  PROVE CallerMove
  <2>1. CASE OnConnect(d, c)
    BY <2>1 DEF OnConnect, CallerMove, CallersStay
  <2>2. CASE OnAccept(d, c)
    BY <2>2 DEF OnAccept, CallerMove, CallersStay
  <2>3. CASE OnClose(d, c)
    <3> DEFINE told == Stranded(d, NodesUsing(d, c))
    <3>1. CallersTold(d, told)
      BY <2>3, AnswerTypes DEF OnClose, CallersTold
    <3>2. told \in SUBSET psend[d]
      BY DEF Stranded
    <3> HIDE DEF told
    <3>. QED  BY <3>1, <3>2 DEF CallerMove
  <2>4. CASE OnIgnored(d, c)
    BY <2>4 DEF OnIgnored, daemonVars, CallerMove, CallersStay
  <2>5. ASSUME NEW k \in Slot, OnRequest(d, c, k)  PROVE CallerMove
    BY <2>5 DEF OnRequest, CallerMove, CallersStay
  <2>6. ASSUME NEW k \in Slot, NEW p \in psend[d], OnResponse(d, c, k, p)  PROVE CallerMove
    BY <2>6, ResponseMoves
  <2>. QED  BY <1>3, <2>1, <2>2, <2>3, <2>4, <2>5, <2>6 DEF SocketEvent
<1>4. ASSUME NEW d \in Daemon, Crash(d)  PROVE CallerMove
  BY <1>4 DEF Crash, CallerMove, CallersForgotten
<1>5. ASSUME NEW c \in SockId, Tcp(c)  PROVE CallerMove
  BY <1>5 DEF Tcp, TcpConnected, TcpRefused, TcpReset, daemonVars, CallerMove, CallersStay
<1>6. CASE UNCHANGED vars
  BY <1>6 DEF vars, daemonVars, CallerMove, CallersStay
<1>. QED  BY <1>1, <1>2, <1>3, <1>4, <1>5, <1>6 DEF Next
-----------------------------------------------------------------------------
(* AnsweredAtMostOnce is inductive once it also says that a call that was  *)
(* not issued was not answered and that a daemon waits only for calls of   *)
(* its own services.                                                       *)

AnswersInv ==
    /\ AnsweredAtMostOnce
    /\ \A c \in Call : ~IsIssued(c) => answers[c] = <<>>
    /\ \A d \in Daemon : \A p \in psend[d] : At(p.call) = d

LEMMA IssuedGrows ==
  ASSUME TypeOK, NEW c \in Call, Issue(c)
  PROVE  /\ ~IsIssued(c)
         /\ \A x : IsIssued(x)' <=> IsIssued(x) \/ x = c
<1>1. issued \in Seq(Call) /\ issued' = Append(issued, c) /\ ~IsIssued(c)
  BY DEF TypeOK, ServiceTypeOK, Issue
<1>2. /\ DOMAIN issued' = 1 .. Len(issued) + 1 /\ DOMAIN issued = 1 .. Len(issued)
      /\ Len(issued) \in Nat
      /\ \A i \in 1 .. Len(issued) : issued'[i] = issued[i]
      /\ issued'[Len(issued) + 1] = c
  BY <1>1, AppendProperties, LenProperties
<1>3. ASSUME NEW x  PROVE IsIssued(x)' <=> IsIssued(x) \/ x = c
  <2>1. ASSUME IsIssued(x)'  PROVE IsIssued(x) \/ x = c
    BY <1>2, <2>1 DEF IsIssued
  <2>2. ASSUME IsIssued(x)  PROVE IsIssued(x)'
    BY <1>2, <2>2 DEF IsIssued
  <2>3. ASSUME x = c  PROVE IsIssued(x)'
    <3>1. Len(issued) + 1 \in DOMAIN issued'
      BY <1>2
    <3>. QED  BY <1>2, <2>3, <3>1 DEF IsIssued
  <2>. QED  BY <2>1, <2>2, <2>3
<1>. QED  BY <1>1, <1>3

LEMMA AnsweredEach ==
  ASSUME TypeOK, NEW calls, NEW a \in Answer, answers' = Answered(calls, a)
  PROVE  \A c \in Call :
           /\ c \notin calls => answers'[c] = answers[c]
           /\ c \in calls /\ answers[c] = <<>> => Len(answers'[c]) = 1
<1>1. answers \in [Call -> Seq(Answer)]
  BY DEF TypeOK, ServiceTypeOK
<1>2. SUFFICES ASSUME NEW c \in Call
               PROVE  /\ c \notin calls => answers'[c] = answers[c]
                      /\ c \in calls /\ answers[c] = <<>> => Len(answers'[c]) = 1
  OBVIOUS
<1>3. answers'[c] = IF c \in calls THEN Append(answers[c], a) ELSE answers[c]
  BY DEF Answered
<1>4. Len(Append(answers[c], a)) = Len(answers[c]) + 1
  BY <1>1, AppendProperties
<1>5. answers[c] = <<>> => Len(answers[c]) = 0
  BY <1>1, EmptySeq
<1>. QED  BY <1>3, <1>4, <1>5

LEMMA AnswersStep == TypeOK /\ AnswersInv /\ CallerMove => AnswersInv'
<1> SUFFICES ASSUME TypeOK, AnswersInv, CallerMove  PROVE AnswersInv'
  OBVIOUS
<1> DEFINE Once(c) == Len(answers[c]) <= 1
           Pending(d, p) == /\ IsIssued(p.call) /\ answers[p.call] = <<>>
                            /\ At(p.call) = d
                            /\ \A q \in psend[d] : q.call = p.call => q = p
<1>1. /\ \A c \in Call : Once(c) /\ (~IsIssued(c) => answers[c] = <<>>)
      /\ \A d \in Daemon : \A p \in psend[d] : Pending(d, p)
  BY DEF AnswersInv, AnsweredAtMostOnce
<1>2. SUFFICES /\ \A c \in Call : Once(c)' /\ (~IsIssued(c)' => answers'[c] = <<>>)
               /\ \A d \in Daemon : \A p \in psend'[d] : Pending(d, p)'
  BY DEF AnswersInv, AnsweredAtMostOnce
<1>3. /\ psend \in [Daemon -> SUBSET PendingSend]
      /\ \A d \in Daemon : \A p \in psend[d] : p.call \in Call
      /\ \A c \in Call : At(c) \in Daemon
  <2>1. psend \in [Daemon -> SUBSET PendingSend]
    BY DEF TypeOK, DaemonTypeOK
  <2>2. \A p \in PendingSend : p.call \in Call
    BY DEF PendingSend
  <2>. QED  BY <2>1, <2>2, WorkloadAssumption DEF At
<1>4. CASE CallersStay
  BY <1>1, <1>4 DEF CallersStay, IsIssued
<1>5. ASSUME NEW c \in Call, CallerRefused(c)
      PROVE  /\ \A x \in Call : Once(x)' /\ (~IsIssued(x)' => answers'[x] = <<>>)
             /\ \A d \in Daemon : \A p \in psend'[d] : Pending(d, p)'
  <2>1. PICK a \in Answer : answers' = Answered({c}, a)
    BY <1>5 DEF CallerRefused
  <2>2. ~IsIssued(c) /\ \A x : IsIssued(x)' <=> IsIssued(x) \/ x = c
    BY <1>5, IssuedGrows DEF CallerRefused
  <2>3. /\ \A x \in Call : x # c => answers'[x] = answers[x]
        /\ Len(answers'[c]) = 1
    <3>1. answers[c] = <<>>
      BY <1>1, <2>2
    <3>2. \A x \in Call : /\ x \notin {c} => answers'[x] = answers[x]
                          /\ x \in {c} /\ answers[x] = <<>> => Len(answers'[x]) = 1
      BY <2>1, AnsweredEach
    <3>. QED  BY <3>1, <3>2
  <2>4. psend' = psend
    BY <1>5 DEF CallerRefused
  <2>5. \A d \in Daemon : \A p \in psend[d] : p.call # c
    BY <1>1, <2>2
  <2>6. ASSUME NEW x \in Call  PROVE Once(x)' /\ (~IsIssued(x)' => answers'[x] = <<>>)
    <3>1. CASE x = c
      <4>1. IsIssued(x)'
        BY <2>2, <3>1
      <4>2. Len(answers'[x]) = 1
        BY <2>3, <3>1
      <4>3. Once(x)'
        BY <4>2
      <4>. QED  BY <4>1, <4>3
    <3>2. CASE x # c
      BY <1>1, <2>2, <2>3, <3>2
    <3>. QED  BY <3>1, <3>2
  <2>7. ASSUME NEW d \in Daemon, NEW p \in psend'[d]  PROVE Pending(d, p)'
    <3>1. p \in psend[d] /\ p.call # c /\ p.call \in Call
      BY <1>3, <2>4, <2>5
    <3>. QED  BY <1>1, <2>2, <2>3, <2>4, <3>1
  <2>. QED  BY <2>6, <2>7
<1>6. ASSUME NEW c \in Call, CallerWaits(c)
      PROVE  /\ \A x \in Call : Once(x)' /\ (~IsIssued(x)' => answers'[x] = <<>>)
             /\ \A d \in Daemon : \A p \in psend'[d] : Pending(d, p)'
  <2>1. ~IsIssued(c) /\ \A x : IsIssued(x)' <=> IsIssued(x) \/ x = c
    BY <1>6, IssuedGrows DEF CallerWaits
  <2>2. answers' = answers
    BY <1>6 DEF CallerWaits
  <2>3. \A x \in Call : Once(x)' /\ (~IsIssued(x)' => answers'[x] = <<>>)
    <3>1. \A x \in Call : Once(x)'
      BY <1>1, <2>2
    <3>2. \A x \in Call : ~IsIssued(x)' => answers'[x] = <<>>
      BY <1>1, <2>1, <2>2
    <3>. QED  BY <3>1, <3>2
  <2>4. CASE psend' = psend
    BY <1>1, <2>1, <2>2, <2>3, <2>4
  <2>5. ASSUME NEW p \in PendingSend, p.call = c,
               psend' = [psend EXCEPT ![At(c)] = @ \cup {p}]
        PROVE  \A d \in Daemon : \A q \in psend'[d] : Pending(d, q)'
    <3>1. \A d \in Daemon : psend'[d] = IF d = At(c) THEN psend[d] \cup {p} ELSE psend[d]
      BY <1>3, <2>5
    <3>2. \A d \in Daemon : \A q \in psend[d] : q.call # c
      BY <1>1, <2>1
    <3>3. answers[c] = <<>> /\ IsIssued(c)'
      BY <1>1, <2>1
    <3>. QED  BY <1>1, <2>1, <2>2, <2>5, <3>1, <3>2, <3>3
  <2>. QED  BY <1>6, <2>3, <2>4, <2>5 DEF CallerWaits
<1>7. ASSUME NEW d \in Daemon, NEW told \in SUBSET psend[d], CallersTold(d, told)
      PROVE  /\ \A x \in Call : Once(x)' /\ (~IsIssued(x)' => answers'[x] = <<>>)
             /\ \A e \in Daemon : \A p \in psend'[e] : Pending(e, p)'
  <2> DEFINE calls == {p.call : p \in told}
  <2>1. PICK a \in Answer : answers' = Answered(calls, a)
    BY <1>7 DEF CallersTold
  <2>2. \A x \in calls : answers[x] = <<>> /\ IsIssued(x)
    BY <1>1
  <2>3. \A x : IsIssued(x)' <=> IsIssued(x)
    BY <1>7 DEF CallersTold, IsIssued
  <2>4. \A e \in Daemon : psend'[e] = IF e = d THEN psend[e] \ told ELSE psend[e]
    BY <1>3, <1>7 DEF CallersTold
  <2>5. ASSUME NEW e \in Daemon, NEW p \in psend'[e]  PROVE p \in psend[e] /\ p.call \notin calls
    <3>1. p \in psend[e]
      BY <2>4
    <3>2. ASSUME NEW q \in told, q.call = p.call  PROVE FALSE
      <4>1. e = d
        BY <1>1, <3>1, <3>2
      <4>2. q = p
        BY <1>1, <3>1, <3>2, <4>1
      <4>. QED  BY <2>4, <3>2, <4>1, <4>2
    <3>. QED  BY <3>1, <3>2
  <2>6. \A x \in Call : /\ x \notin calls => answers'[x] = answers[x]
                        /\ x \in calls => Len(answers'[x]) = 1
    BY <2>1, <2>2, AnsweredEach
  <2> HIDE DEF calls
  <2>7. \A x \in Call : Once(x)' /\ (~IsIssued(x)' => answers'[x] = <<>>)
    <3> SUFFICES ASSUME NEW x \in Call
                 PROVE  Once(x)' /\ (~IsIssued(x)' => answers'[x] = <<>>)
      OBVIOUS
    <3>1. CASE x \in calls
      <4>1. IsIssued(x)'
        BY <2>2, <2>3, <3>1
      <4>2. Len(answers'[x]) = 1
        BY <2>6, <3>1
      <4>3. Once(x)'
        BY <4>2
      <4>. QED  BY <4>1, <4>3
    <3>2. CASE x \notin calls
      BY <1>1, <2>3, <2>6, <3>2
    <3>. QED  BY <3>1, <3>2
  <2>8. ASSUME NEW e \in Daemon, NEW p \in psend'[e]  PROVE Pending(e, p)'
    <3>1. p \in psend[e] /\ p.call \notin calls /\ p.call \in Call
      BY <1>3, <2>5
    <3>2. \A q \in psend'[e] : q \in psend[e]
      BY <2>5
    <3>. QED  BY <1>1, <2>3, <2>6, <3>1, <3>2
  <2>. QED  BY <2>7, <2>8
<1>8. ASSUME NEW d \in Daemon, CallersForgotten(d)
      PROVE  /\ \A x \in Call : Once(x)' /\ (~IsIssued(x)' => answers'[x] = <<>>)
             /\ \A e \in Daemon : \A p \in psend'[e] : Pending(e, p)'
  <2>1. answers' = answers /\ \A x : IsIssued(x)' <=> IsIssued(x)
    BY <1>8 DEF CallersForgotten, IsIssued
  <2>2. \A e \in Daemon : psend'[e] = IF e = d THEN {} ELSE psend[e]
    BY <1>3, <1>8 DEF CallersForgotten
  <2>. QED  BY <1>1, <2>1, <2>2
<1>. QED  BY <1>4, <1>5, <1>6, <1>7, <1>8 DEF CallerMove

LEMMA AnswersInit == Init => AnswersInv
<1> SUFFICES ASSUME Init  PROVE AnswersInv
  OBVIOUS
<1>1. \A c \in Call : answers[c] = <<>> /\ Len(answers[c]) = 0
  BY DEF Init
<1>2. \A d \in Daemon : psend[d] = {}
  BY DEF Init
<1>. QED  BY <1>1, <1>2 DEF AnswersInv, AnsweredAtMostOnce

\* The caller of a request hears of it at most once, and not at all while the
\* request is pending: however daemons crash and connections come and go, no
\* two of handle_response, node_fail_pending and the error replies of
\* handle_command answer the same call.
THEOREM AnsweredOnce == Spec => []AnsweredAtMostOnce
<1>1. TypeOK /\ AnswersInv /\ [Next]_vars => AnswersInv'
  BY CallerMoves, AnswersStep
<1>2. AnswersInv => AnsweredAtMostOnce
  BY DEF AnswersInv
<1>. QED  BY TypeCorrect, AnswersInit, <1>1, <1>2, PTL DEF Spec
-----------------------------------------------------------------------------
(* How a step moves the services' side.                                    *)

ServicesStay == UNCHANGED <<precv, work, newSession>>
SessionTaken(d) ==
    newSession' = [newSession EXCEPT ![d] = @ + 1] /\ UNCHANGED <<precv, work>>
\* A request takes an entry of precv[] under a new local session, and the
\* service holds it if it is alive.  A push takes neither.
Tracked(d, p, held) ==
    /\ newSession' = [newSession EXCEPT ![d] = @ + 1]
    /\ p.local = newSession[d] + 1
    /\ \A w \in held : w.local = p.local
    /\ \A v, w \in held : v = w
    /\ precv' = [precv EXCEPT ![d] = @ \cup {p}]
    /\ work' = [work EXCEPT ![d] = @ \cup held]
RepliedTo(d, p, w) ==
    /\ p.local = w.local
    /\ precv' = [precv EXCEPT ![d] = @ \ {p}]
    /\ work' = [work EXCEPT ![d] = @ \ {w}]
    /\ UNCHANGED newSession
WorkLost(d) ==
    /\ \E lost \in SUBSET work[d] : work' = [work EXCEPT ![d] = @ \ lost]
    /\ UNCHANGED <<precv, newSession>>
ServicesRestart(d) ==
    /\ precv' = [precv EXCEPT ![d] = {}] /\ work' = [work EXCEPT ![d] = {}]
    /\ newSession' = [newSession EXCEPT ![d] = 0]

ServiceMove ==
    \/ ServicesStay
    \/ \E d \in Daemon :
          \/ SessionTaken(d) \/ WorkLost(d) \/ ServicesRestart(d)
          \/ \E p \in PendingRecv : \E held \in SUBSET WorkEntry : Tracked(d, p, held)
          \/ \E p \in precv[d], w \in work[d] : RepliedTo(d, p, w)

LEMMA ForwardMoves ==
  ASSUME TypeOK, NEW d \in Daemon, NEW c \in SockId, NEW k \in Slot, NEW push, NEW s \in Nat,
         NEW h \in Service, NEW body \in Bodies, Forward(d, c, k, push, s, h, body),
         newSession' = [newSession EXCEPT ![d] = @ + 1]
  PROVE  ServiceMove
<1> DEFINE local == newSession[d] + 1
           p == [local |-> local, slot |-> k, remote |-> s]
           w == [local |-> local, service |-> h, call |-> body[1][1]]
<1>1. local \in Nat
  BY DEF TypeOK, DaemonTypeOK
<1>2. p \in PendingRecv /\ w \in WorkEntry
  BY <1>1, BodyCall DEF PendingRecv, WorkEntry
<1>3. /\ precv' = Expecting(d, push, p)
      /\ work' = IF push \/ h \notin alive[d] THEN work ELSE [work EXCEPT ![d] = @ \cup {w}]
  BY DEF Forward
<1>4. p.local = newSession[d] + 1 /\ w.local = p.local
  OBVIOUS
<1> HIDE DEF p, w
<1>5. CASE push
  BY <1>3, <1>5 DEF Expecting, ServiceMove, SessionTaken
<1>6. CASE ~push
  <2>1. precv' = [precv EXCEPT ![d] = @ \cup {p}]
    BY <1>3, <1>6 DEF Expecting
  <2>2. work' = work \/ work' = [work EXCEPT ![d] = @ \cup {w}]
    BY <1>3, <1>6
  <2>3. work = [work EXCEPT ![d] = @ \cup {}]
    BY DEF TypeOK, ServiceTypeOK
  <2>4. \E held \in {{}, {w}} : work' = [work EXCEPT ![d] = @ \cup held]
    BY <2>2, <2>3
  <2>5. \E held \in SUBSET WorkEntry : Tracked(d, p, held)
    BY <1>2, <1>4, <2>1, <2>4 DEF Tracked
  <2>. QED  BY <1>2, <2>5 DEF ServiceMove
<1>. QED  BY <1>5, <1>6

LEMMA DispatchMoves ==
  ASSUME TypeOK, NEW d \in Daemon, NEW c \in SockId, NEW k \in Slot, NEW push, NEW s \in Nat,
         NEW addr \in Wire, NEW body \in Bodies, Dispatch(d, c, k, push, s, addr, body)
  PROVE  ServiceMove
<1> DEFINE h == IF addr.byName THEN Lookup(d, addr.to) ELSE addr.to
<1>1. CASE AnswerQuery(d, c, s, body)
  BY <1>1 DEF AnswerQuery, ServiceMove, ServicesStay
<1>2. CASE Reject(d, c, push, s) /\ UNCHANGED newSession
  BY <1>2 DEF Reject, ServiceMove, ServicesStay
<1>3. CASE Reject(d, c, push, s) /\ newSession' = [newSession EXCEPT ![d] = @ + 1]
  BY <1>3 DEF Reject, ServiceMove, SessionTaken
<1>4. CASE /\ addr.to # Query /\ h # NoHandle
           /\ newSession' = [newSession EXCEPT ![d] = @ + 1]
           /\ Forward(d, c, k, push, s, h, body)
  <2>1. h \in Service
    <3>1. addr.byName \in BOOLEAN /\ (~addr.byName => addr.to \in Service \cup {Query})
      BY DEF Wire
    <3>2. names \in [Daemon -> Seq([name: Name, handle: Service])]
      BY DEF TypeOK, DaemonTypeOK
    <3>. QED  BY <1>4, <3>1, <3>2, LookupType
  <2> HIDE DEF h
  <2>. QED  BY <1>4, <2>1, ForwardMoves
<1>. QED  BY <1>1, <1>2, <1>3, <1>4 DEF Dispatch

LEMMA RequestMoves ==
  ASSUME TypeOK, NEW d \in Daemon, NEW c \in SockId, NEW k \in Slot, OnRequest(d, c, k)
  PROVE  ServiceMove
<1> DEFINE f == Frame(d, c)
           r == conn[d][k].rq
           whole == WithChunk(r, f.body).got
<1>1. f \in SocketEvents /\ r \in Reassembly(BodyChunk)
  BY PoppedType, SetBodyType DEF OnRequest, TypeOK, NetworkTypeOK, InboxType
<1>2. CASE UNCHANGED <<precv, newSession, work, served>>
  BY <1>2 DEF ServiceMove, ServicesStay
<1>3. CASE f.type = "SMALL" /\ Dispatch(d, c, k, f.session = 0, f.session, f.addr, f.body)
  <2>1. f.session \in Nat /\ f.addr \in Wire /\ f.body \in Bodies
    BY <1>1, <1>3, FrameParts
  <2> HIDE DEF f
  <2>. QED  BY <1>3, <2>1, DispatchMoves
<1>4. CASE /\ f.type = "PART_END" /\ Accepts(r, f.session)
           /\ Dispatch(d, c, k, r.push, r.session, r.addr, whole)
  <2>1. f.session \in Nat /\ f.body \in Bodies /\ f.body \in Seq(BodyChunk) /\ f.body # <<>>
    BY <1>1, <1>4, FrameParts DEF Bodies
  <2>2. /\ r.session \in Nat /\ r.addr \in Wire
        /\ r.got \in Seq(BodyChunk) /\ whole = r.got \o f.body
    BY <1>1, <1>4, <2>1, ChunkTypes
  <2>3. whole \in Bodies
    <3>1. r.got \o f.body \in Seq(BodyChunk) /\ Len(r.got \o f.body) = Len(r.got) + Len(f.body)
      BY <2>1, <2>2, ConcatProperties
    <3>2. Len(f.body) > 0 /\ Len(r.got) >= 0
      BY <2>1, <2>2, EmptySeq, LenProperties
    <3>3. r.got \o f.body # <<>>
      BY <3>1, <3>2
    <3>. QED  BY <2>2, <3>1, <3>3 DEF Bodies
  <2> HIDE DEF whole, r
  <2>. QED  BY <1>4, <2>2, <2>3, DispatchMoves
<1>. QED  BY <1>2, <1>3, <1>4 DEF OnRequest, OnSmall, OnLargeHeader, OnPart

LEMMA ServiceMoves == TypeOK /\ [Next]_vars => ServiceMove
<1> SUFFICES ASSUME TypeOK, [Next]_vars  PROVE ServiceMove
  OBVIOUS
<1> USE DEF daemonVars
<1>1. ASSUME NEW d \in Daemon, Command(d)  PROVE ServiceMove
  <2>1. CASE CmdListen(d)
    BY <2>1 DEF CmdListen, ServiceMove, ServicesStay
  <2>2. ASSUME NEW r \in Registration, CmdRegister(r)  PROVE ServiceMove
    BY <2>2 DEF CmdRegister, ServiceMove, ServicesStay
  <2>3. ASSUME NEW m \in NodeCmd, CmdNode(m)  PROVE ServiceMove
    BY <2>3 DEF CmdNode, ServiceMove, ServicesStay
  <2>4. ASSUME NEW c \in Call, ReqUnknownNode(c) \/ ReqConnectFails(c)  PROVE ServiceMove
    BY <2>4 DEF ReqUnknownNode, ReqConnectFails, IssueFailed, ServiceMove, ServicesStay
  <2>5. ASSUME NEW c \in Call, ReqConnects(c) \/ ReqQueues(c) \/ ReqWrites(c)  PROVE ServiceMove
    BY <2>5 DEF ReqConnects, ReqQueues, ReqWrites, SendRequest, ServiceMove, ServicesStay
  <2>. QED  BY <1>1, <2>1, <2>2, <2>3, <2>4, <2>5 DEF Command
<1>2. ASSUME NEW d \in Daemon, ServiceStep(d)  PROVE ServiceMove
  <2>1. ASSUME NEW w \in work[d], NEW ok \in BOOLEAN, LocalReply(d, w, ok)  PROVE ServiceMove
    BY <2>1 DEF LocalReply, RepliedTo, ServiceMove
  <2>2. ASSUME NEW h \in Service, ServiceExit(d, h)  PROVE ServiceMove
    BY <2>2 DEF ServiceExit, WorkLost, ServiceMove
  <2>. QED  BY <1>2, <2>1, <2>2 DEF ServiceStep
<1>3. ASSUME NEW d \in Daemon, NEW c \in SockId, SocketEvent(d, c)  PROVE ServiceMove
  <2>1. CASE OnConnect(d, c)
    BY <2>1 DEF OnConnect, ServiceMove, ServicesStay
  <2>2. CASE OnAccept(d, c)
    BY <2>2 DEF OnAccept, ServiceMove, ServicesStay
  <2>3. CASE OnClose(d, c)
    BY <2>3 DEF OnClose, ServiceMove, ServicesStay
  <2>4. CASE OnIgnored(d, c)
    BY <2>4 DEF OnIgnored, ServiceMove, ServicesStay
  <2>5. ASSUME NEW k \in Slot, OnRequest(d, c, k)  PROVE ServiceMove
    BY <2>5, RequestMoves
  <2>6. ASSUME NEW k \in Slot, NEW p \in psend[d], OnResponse(d, c, k, p)  PROVE ServiceMove
    BY <2>6 DEF OnResponse, ServiceMove, ServicesStay
  <2>. QED  BY <1>3, <2>1, <2>2, <2>3, <2>4, <2>5, <2>6 DEF SocketEvent
<1>4. ASSUME NEW d \in Daemon, Crash(d)  PROVE ServiceMove
  BY <1>4 DEF Crash, ServiceMove, ServicesRestart
<1>5. ASSUME NEW c \in SockId, Tcp(c)  PROVE ServiceMove
  BY <1>5 DEF Tcp, TcpConnected, TcpRefused, TcpReset, ServiceMove, ServicesStay
<1>6. CASE UNCHANGED vars
  BY <1>6 DEF vars, ServiceMove, ServicesStay
<1>. QED  BY <1>1, <1>2, <1>3, <1>4, <1>5, <1>6 DEF Next

\* HeldRequestsTracked is inductive once no two held requests share a local
\* session: the entry one of them gives back would be the other's.
HeldInv ==
    /\ HeldRequestsTracked
    /\ \A d \in Daemon : \A v, w \in work[d] : v.local = w.local => v = w

LEMMA HeldStep == TypeOK /\ HeldInv /\ ServiceMove => HeldInv'
<1> SUFFICES ASSUME TypeOK, HeldInv, ServiceMove  PROVE HeldInv'
  OBVIOUS
<1> DEFINE Inv(d) == /\ \A w \in work[d] : \E p \in precv[d] : p.local = w.local
                     /\ \A p, q \in precv[d] : p.local = q.local => p = q
                     /\ \A p \in precv[d] : p.local <= newSession[d]
                     /\ \A v, w \in work[d] : v.local = w.local => v = w
<1>1. \A d \in Daemon : Inv(d)
  BY DEF HeldInv, HeldRequestsTracked
<1>2. SUFFICES ASSUME NEW d \in Daemon  PROVE Inv(d)'
  BY DEF HeldInv, HeldRequestsTracked
<1>3. /\ precv \in [Daemon -> SUBSET PendingRecv]
      /\ work \in [Daemon -> SUBSET WorkEntry]
      /\ newSession \in [Daemon -> Nat]
      /\ \A p \in PendingRecv : p.local \in Nat
      /\ \A w \in WorkEntry : w.local \in Nat
  <2>1. /\ precv \in [Daemon -> SUBSET PendingRecv]
        /\ work \in [Daemon -> SUBSET WorkEntry]
        /\ newSession \in [Daemon -> Nat]
    BY DEF TypeOK, DaemonTypeOK, ServiceTypeOK, WorkEntry
  <2>2. \A p \in PendingRecv : p.local \in Nat
    BY DEF PendingRecv
  <2>3. \A w \in WorkEntry : w.local \in Nat
    BY DEF WorkEntry
  <2>. QED  BY <2>1, <2>2, <2>3
<1>4. CASE ServicesStay
  BY <1>1, <1>4 DEF ServicesStay
<1>5. ASSUME NEW e \in Daemon, SessionTaken(e)  PROVE Inv(d)'
  <2>1. precv' = precv /\ work' = work
        /\ newSession'[d] = IF d = e THEN newSession[d] + 1 ELSE newSession[d]
    BY <1>3, <1>5 DEF SessionTaken
  <2>2. \A p \in precv[d] : p.local \in Nat /\ p.local <= newSession[d] /\ newSession[d] \in Nat
    BY <1>1, <1>3
  <2>3. \A p \in precv[d] : p.local <= newSession'[d]
    BY <2>1, <2>2
  <2>. QED  BY <1>1, <2>1, <2>3
<1>6. ASSUME NEW e \in Daemon, WorkLost(e)  PROVE Inv(d)'
  <2>1. precv' = precv /\ newSession' = newSession /\ work'[d] \subseteq work[d]
    BY <1>3, <1>6 DEF WorkLost
  <2>. QED  BY <1>1, <2>1
<1>7. ASSUME NEW e \in Daemon, ServicesRestart(e)  PROVE Inv(d)'
  <2>1. CASE d = e
    <3>1. precv'[d] = {} /\ work'[d] = {}
      BY <1>3, <1>7, <2>1 DEF ServicesRestart
    <3>. QED  BY <3>1
  <2>2. CASE d # e
    <3>1. precv'[d] = precv[d] /\ work'[d] = work[d] /\ newSession'[d] = newSession[d]
      BY <1>3, <1>7, <2>2 DEF ServicesRestart
    <3>. QED  BY <1>1, <3>1
  <2>. QED  BY <2>1, <2>2
<1>8. ASSUME NEW e \in Daemon, NEW p \in PendingRecv, NEW held \in SUBSET WorkEntry,
             Tracked(e, p, held)
      PROVE  Inv(d)'
  <2>1. CASE d = e
    <3>1. /\ precv'[d] = precv[d] \cup {p} /\ work'[d] = work[d] \cup held
          /\ newSession'[d] = newSession[d] + 1 /\ p.local = newSession[d] + 1
          /\ \A w \in held : w.local = p.local
          /\ \A v, w \in held : v = w
      BY <1>3, <1>8, <2>1 DEF Tracked
    <3>2. \A q \in precv[d] : q.local \in Nat /\ q.local <= newSession[d] /\ newSession[d] \in Nat
      BY <1>1, <1>3
    <3>3. \A q \in precv[d] : q.local # p.local
      BY <3>1, <3>2
    <3>4. \A w \in work[d] : w.local # p.local
      BY <1>1, <3>3
    <3>5. \A w \in work'[d] : \E q \in precv'[d] : q.local = w.local
      BY <1>1, <3>1
    <3>6. \A q, r \in precv'[d] : q.local = r.local => q = r
      BY <1>1, <3>1, <3>3
    <3>7. \A q \in precv'[d] : q.local <= newSession'[d]
      BY <1>3, <3>1, <3>2
    <3>8. \A v, w \in work'[d] : v.local = w.local => v = w
      BY <1>1, <3>1, <3>4
    <3>. QED  BY <3>5, <3>6, <3>7, <3>8
  <2>2. CASE d # e
    <3>1. precv'[d] = precv[d] /\ work'[d] = work[d] /\ newSession'[d] = newSession[d]
      BY <1>3, <1>8, <2>2 DEF Tracked
    <3>. QED  BY <1>1, <3>1
  <2>. QED  BY <2>1, <2>2
<1>9. ASSUME NEW e \in Daemon, NEW p \in precv[e], NEW w \in work[e], RepliedTo(e, p, w)
      PROVE  Inv(d)'
  <2>1. CASE d = e
    <3>1. /\ precv'[d] = precv[d] \ {p} /\ work'[d] = work[d] \ {w}
          /\ newSession'[d] = newSession[d] /\ p.local = w.local
          /\ p \in precv[d] /\ w \in work[d]
      BY <1>3, <1>9, <2>1 DEF RepliedTo
    <3>2. ASSUME NEW v \in work'[d]  PROVE \E q \in precv'[d] : q.local = v.local
      <4>1. v \in work[d] /\ v.local # w.local
        BY <1>1, <3>1
      <4>. QED  BY <1>1, <3>1, <4>1
    <3>. QED  BY <1>1, <3>1, <3>2
  <2>2. CASE d # e
    <3>1. precv'[d] = precv[d] /\ work'[d] = work[d] /\ newSession'[d] = newSession[d]
      BY <1>3, <1>9, <2>2 DEF RepliedTo
    <3>. QED  BY <1>1, <3>1
  <2>. QED  BY <2>1, <2>2
<1>. QED  BY <1>4, <1>5, <1>6, <1>7, <1>8, <1>9 DEF ServiceMove

\* The reply of a local service always finds the precv[] entry of the request
\* it answers: no local session is given to two requests, and no entry is
\* given back before its service is done with it.
THEOREM HeldTracked == Spec => []HeldRequestsTracked
<1>1. Init => HeldInv
  <2> SUFFICES ASSUME Init  PROVE HeldInv
    OBVIOUS
  <2>1. \A d \in Daemon : precv[d] = {} /\ work[d] = {}
    BY DEF Init
  <2>. QED  BY <2>1 DEF HeldInv, HeldRequestsTracked
<1>2. TypeOK /\ HeldInv /\ [Next]_vars => HeldInv'
  BY ServiceMoves, HeldStep
<1>3. HeldInv => HeldRequestsTracked
  BY DEF HeldInv
<1>. QED  BY TypeCorrect, <1>1, <1>2, <1>3, PTL DEF Spec
-----------------------------------------------------------------------------
(***************************************************************************)
(* No request is left without a link to answer or fail it, and no socket   *)
(* or slot of conns[] leaks, for every number of daemons, sockets, faults  *)
(* and crashes.  Of an inbox only two things matter here: whether a CLOSE  *)
(* is in it, and whether an ACCEPT is at its head.                         *)
(***************************************************************************)

HIDE DEF TypeOK, DaemonTypeOK, NetworkTypeOK, ServiceTypeOK, InboxType,
         daemonVars, networkVars, historyVars

Has(q, type) == \E i \in DOMAIN q : q[i].type = type
AcceptFirst(q) == \A i \in DOMAIN q : q[i].type = "ACCEPT" => i = 1

(* A daemon never connects to itself.  A CLOSE tells of a socket that is   *)
(* down.  An ACCEPT is the first thing the listening end hears of a socket *)
(* that was connected; until it is handled the socket has no slot there,   *)
(* and if it is down a CLOSE follows.                                      *)
Up(c) == c \in DOMAIN sock /\ sock[c].state # "down"
UpOrClosing(d, c) == sock[c].state # "down" \/ Has(inbox[d][c], "CLOSE")
Elsewhere ==
    /\ \A d \in Daemon, n \in Node : node[d][n].peer # d
    /\ \A c \in DOMAIN sock : sock[c].cli # sock[c].srv
Boxed(d, c) ==
    /\ AcceptFirst(inbox[d][c])
    /\ Has(inbox[d][c], "CLOSE") => c \in DOMAIN sock /\ sock[c].state = "down"
    /\ Has(inbox[d][c], "ACCEPT") =>
          /\ c \in DOMAIN sock /\ sock[c].srv = d /\ sock[c].state # "connecting"
          /\ ConnsOf(conn[d], c) = {} /\ UpOrClosing(d, c)
Inbound ==
    \A d \in Daemon : \A k \in Slot : conn[d][k].sock # NoSock /\ ~conn[d][k].outbound =>
        sock[conn[d][k].sock].srv = d /\ sock[conn[d][k].sock].state # "connecting"

LinkInv ==
    /\ Len(sock) <= MaxSock
    /\ NoOrphanedCall /\ NoLeakedConnection
    /\ Elsewhere /\ (\A d \in Daemon, c \in SockId : Boxed(d, c)) /\ Inbound
-----------------------------------------------------------------------------
(* What the two matters of an inbox become when it is moved.               *)

Frames == RequestFrame \cup ResponseFrame
SameBox(q, r) ==
    /\ Has(r, "CLOSE") <=> Has(q, "CLOSE")
    /\ Has(r, "ACCEPT") <=> Has(q, "ACCEPT")
    /\ AcceptFirst(q) => AcceptFirst(r)

LEMMA FrameKinds == \A f \in Frames : f.type # "CLOSE" /\ f.type # "ACCEPT"
  BY DEF Frames, RequestFrame, ResponseFrame

LEMMA JoinedBox ==
  ASSUME NEW q \in Seq(SocketEvents), NEW fs \in Seq(Frames)
  PROVE  SameBox(q, q \o fs)
<1>1. /\ Len(q) \in Nat /\ Len(fs) \in Nat /\ DOMAIN q = 1 .. Len(q)
      /\ DOMAIN (q \o fs) = 1 .. Len(q) + Len(fs)
      /\ \A i \in 1 .. Len(q) : (q \o fs)[i] = q[i]
  <2>1. \A i \in 1 .. Len(q) + Len(fs) : 
          (q \o fs)[i] = IF i <= Len(q) THEN q[i] ELSE fs[i - Len(q)]
    OBVIOUS
  <2>. QED  BY <2>1
<1>2. ASSUME NEW i \in 1 .. Len(q) + Len(fs), i \notin 1 .. Len(q)
      PROVE  (q \o fs)[i] \in Frames
  <2>1. i - Len(q) \in 1 .. Len(fs) /\ (q \o fs)[i] = fs[i - Len(q)]
    BY <1>1, <1>2
  <2>. QED  BY <2>1, ElementOfSeq
<1>3. \A i \in DOMAIN q : i \in DOMAIN (q \o fs) /\ (q \o fs)[i] = q[i]
  BY <1>1
<1>4. \A i \in DOMAIN (q \o fs) : i \in DOMAIN q \/ (q \o fs)[i] \in Frames
  BY <1>1, <1>2
<1>. QED  BY <1>3, <1>4, FrameKinds DEF SameBox, Has, AcceptFirst

LEMMA ClosedBox ==
  ASSUME NEW q \in Seq(SocketEvents)
  PROVE  /\ Has(Append(q, Close), "CLOSE")
         /\ Has(Append(q, Close), "ACCEPT") <=> Has(q, "ACCEPT")
         /\ AcceptFirst(q) => AcceptFirst(Append(q, Close))
<1>1. /\ DOMAIN q = 1 .. Len(q) /\ Len(q) \in Nat
      /\ DOMAIN Append(q, Close) = 1 .. Len(q) + 1
      /\ \A i \in 1 .. Len(q) : Append(q, Close)[i] = q[i]
      /\ Append(q, Close)[Len(q) + 1] = Close
  BY AppendProperties
<1>2. Close.type = "CLOSE"
  BY DEF Close
<1>3. \A i \in DOMAIN q : i \in DOMAIN Append(q, Close) /\ Append(q, Close)[i] = q[i]
  BY <1>1
<1>4. \A i \in DOMAIN Append(q, Close) : i \in DOMAIN q \/ Append(q, Close)[i] = Close
  BY <1>1
<1>5. Len(q) + 1 \in DOMAIN Append(q, Close)
  BY <1>1
<1>. QED  BY <1>1, <1>2, <1>3, <1>4, <1>5 DEF Has, AcceptFirst

LEMMA TailBox ==
  ASSUME NEW q \in Seq(SocketEvents), q # <<>>
  PROVE  /\ \A type : Has(q, type) <=> Has(Tail(q), type) \/ Head(q).type = type
         /\ AcceptFirst(q) => AcceptFirst(Tail(q)) /\ ~Has(Tail(q), "ACCEPT")
<1>1. /\ Len(q) \in Nat \ {0} /\ DOMAIN q = 1 .. Len(q) /\ Head(q) = q[1]
      /\ DOMAIN Tail(q) = 1 .. Len(q) - 1
      /\ \A i \in 1 .. Len(q) - 1 : Tail(q)[i] = q[i + 1]
  BY EmptySeq, HeadTailProperties
<1>2. \A i \in DOMAIN Tail(q) : i + 1 \in DOMAIN q /\ i + 1 # 1 /\ Tail(q)[i] = q[i + 1]
  BY <1>1
<1>3. \A i \in DOMAIN q : i = 1 \/ (i - 1 \in DOMAIN Tail(q) /\ Tail(q)[i - 1] = q[i])
  BY <1>1
<1>4. 1 \in DOMAIN q
  BY <1>1
<1>5. ASSUME NEW type  PROVE Has(q, type) <=> Has(Tail(q), type) \/ Head(q).type = type
  BY <1>1, <1>2, <1>3, <1>4 DEF Has
<1>6. ASSUME AcceptFirst(q)  PROVE ~Has(Tail(q), "ACCEPT")
  BY <1>2, <1>6 DEF Has, AcceptFirst
<1>7. ~Has(Tail(q), "ACCEPT") => AcceptFirst(Tail(q))
  BY DEF Has, AcceptFirst
<1>. QED  BY <1>5, <1>6, <1>7

LEMMA SubBox ==
  ASSUME NEW q \in Seq(SocketEvents), NEW n \in 0 .. Len(q)
  PROVE  /\ SubSeq(q, 1, n) \in Seq(SocketEvents)
         /\ Has(SubSeq(q, 1, n), "ACCEPT") => Has(q, "ACCEPT")
         /\ AcceptFirst(q) => AcceptFirst(SubSeq(q, 1, n))
<1>1. /\ SubSeq(q, 1, n) \in Seq(SocketEvents) /\ DOMAIN q = 1 .. Len(q) /\ Len(q) \in Nat
      /\ DOMAIN SubSeq(q, 1, n) = 1 .. n
      /\ \A i \in 1 .. n : SubSeq(q, 1, n)[i] = q[i]
  BY SubSeqProperties
<1>2. \A i \in DOMAIN SubSeq(q, 1, n) : i \in DOMAIN q /\ SubSeq(q, 1, n)[i] = q[i]
  BY <1>1
<1>. QED  BY <1>1, <1>2 DEF Has, AcceptFirst

LEMMA AcceptedBox ==
  ASSUME NEW q \in Seq(SocketEvents), ~Has(q, "ACCEPT")
  PROVE  LET r == <<[type |-> "ACCEPT"]>> \o q
         IN  AcceptFirst(r) /\ (Has(r, "CLOSE") <=> Has(q, "CLOSE"))
<1> DEFINE r == <<[type |-> "ACCEPT"]>> \o q
<1>1. /\ DOMAIN q = 1 .. Len(q) /\ Len(q) \in Nat /\ DOMAIN r = 1 .. Len(q) + 1
      /\ r[1] = [type |-> "ACCEPT"] /\ \A i \in 1 .. Len(q) : r[i + 1] = q[i]
  OBVIOUS
<1> HIDE DEF r
<1>2. \A i \in DOMAIN q : i + 1 \in DOMAIN r /\ r[i + 1] = q[i]
  BY <1>1
<1>3. \A i \in DOMAIN r : i = 1 \/ (i - 1 \in DOMAIN q /\ r[i] = q[i - 1])
  BY <1>1
<1>4. \A i \in DOMAIN q : q[i].type # "ACCEPT"
  BY DEF Has
<1>5. AcceptFirst(r)
  BY <1>3, <1>4 DEF AcceptFirst
<1>6. Has(r, "CLOSE") <=> Has(q, "CLOSE")
  BY <1>1, <1>2, <1>3 DEF Has
<1>. QED  BY <1>5, <1>6 DEF r

LEMMA SameBoxTrans ==
  ASSUME NEW q, NEW r, NEW s, SameBox(q, r), SameBox(r, s)
  PROVE  SameBox(q, s) /\ SameBox(q, q)
  BY DEF SameBox

SameBoxes(old, new) == \A e \in Daemon, s \in SockId : SameBox(old[e][s], new[e][s])

LEMMA WrittenBoxes ==
  ASSUME NEW box \in InboxType, NEW d, NEW c, NEW frames \in Seq(Frames)
  PROVE  SameBoxes(box, Written(box, d, c, frames))
<1> SUFFICES ASSUME NEW e \in Daemon, NEW s \in SockId
             PROVE  SameBox(box[e][s], Written(box, d, c, frames)[e][s])
  BY DEF SameBoxes
<1>1. box[e][s] \in Seq(SocketEvents)
  BY DEF InboxType
<1>2. \/ Written(box, d, c, frames)[e][s] = box[e][s]
      \/ Written(box, d, c, frames)[e][s] = box[e][s] \o frames
  BY DEF Written, InboxType
<1>. QED  BY <1>1, <1>2, JoinedBox, SameBoxTrans DEF SameBox

LEMMA PoppedBoxes ==
  ASSUME TypeOK, NEW d \in Daemon, NEW c \in SockId, NEW types,
         Event(d, c, types), "CLOSE" \notin types, "ACCEPT" \notin types
  PROVE  Popped(d, c) \in InboxType /\ SameBoxes(inbox, Popped(d, c))
<1>1. inbox \in InboxType
  BY DEF TypeOK, NetworkTypeOK, InboxType
<1>2. inbox[d][c] \in Seq(SocketEvents) /\ inbox[d][c] # <<>>
      /\ Head(inbox[d][c]).type # "CLOSE" /\ Head(inbox[d][c]).type # "ACCEPT"
  BY <1>1 DEF InboxType, Event
<1>3. SameBox(inbox[d][c], Tail(inbox[d][c]))
  BY <1>2, TailBox DEF SameBox
<1>4. ASSUME NEW e \in Daemon, NEW s \in SockId
      PROVE  SameBox(inbox[e][s], Popped(d, c)[e][s])
  <2>1. \/ e = d /\ s = c /\ Popped(d, c)[e][s] = Tail(inbox[d][c])
        \/ Popped(d, c)[e][s] = inbox[e][s]
    BY <1>1 DEF Popped, InboxType
  <2>. QED  BY <1>3, <2>1 DEF SameBox
<1>. QED  BY <1>1, <1>4, PoppedType DEF SameBoxes

LEMMA RepliedBoxes ==
  ASSUME NEW box \in InboxType, SameBoxes(inbox, box), NEW d, NEW c, NEW frames \in Seq(Frames)
  PROVE  SameBoxes(inbox, Written(box, d, c, frames))
  BY WrittenBoxes, SameBoxTrans DEF SameBoxes
-----------------------------------------------------------------------------
(* A step opens a socket, handles its ACCEPT or its CLOSE, is a step of    *)
(* the socket layer or a crash, or leaves the links as they are.           *)

SameNode(r, s) ==
    /\ s.sock = r.sock /\ s.connecting = r.connecting
    /\ r.used => s.used
SameConn(r, s) == s.sock = r.sock /\ s.outbound = r.outbound
NodesStay ==
    \A d \in Daemon, n \in Node :
        /\ SameNode(node[d][n], node'[d][n])
        /\ node[d][n].peer # d => node'[d][n].peer # d
SlotsStay == \A d \in Daemon : \A k \in Slot : SameConn(conn[d][k], conn'[d][k])
OnlyLinkedAwait ==
    \A d \in Daemon : \A p \in psend'[d] :
        p \in psend[d] \/ (p.node \in Node /\ Linked(node[d][p.node]))
LinksStay ==
    /\ UNCHANGED sock /\ NodesStay /\ SlotsStay /\ OnlyLinkedAwait
    /\ SameBoxes(inbox, inbox')

LEMMA StaysSame ==
  /\ UNCHANGED node => NodesStay
  /\ UNCHANGED conn => SlotsStay
  /\ UNCHANGED psend => OnlyLinkedAwait
  /\ UNCHANGED inbox => SameBoxes(inbox, inbox')
  BY SameBoxTrans DEF NodesStay, SlotsStay, OnlyLinkedAwait, SameBoxes, SameNode, SameConn, SameBox

\* Node n of d opens a socket, to become r.
OpensFor(d, n, r) ==
    /\ ~Linked(node[d][n]) /\ Len(sock) < MaxSock /\ r.peer \in Daemon \ {d}
    /\ r.used /\ r.connecting /\ r.sock = Len(sock) + 1
    /\ OpenSocket(d, r) /\ node' = [node EXCEPT ![d][n] = r]
    /\ \A e \in Daemon : \A p \in psend'[e] : p \in psend[e] \/ (e = d /\ p.node = n)
    /\ UNCHANGED inbox

LinkMove ==
    \/ LinksStay
    \/ \E d \in Daemon, n \in Node, r \in NodeType : OpensFor(d, n, r)
    \/ \E d \in Daemon, c \in SockId : OnAccept(d, c) \/ OnClose(d, c)
    \/ \E c \in SockId : Tcp(c)
    \/ \E d \in Daemon : Crash(d)

LEMMA SendAwaits ==
  ASSUME TypeOK, NEW c \in Call, SendRequest(c)
  PROVE  \A d \in Daemon : \A p \in psend'[d] :
            p \in psend[d] \/ (d = At(c) /\ p.node = Workload[c].node)
<1> DEFINE s == NextSession(sendSession[At(c)])
           p == [session |-> s, call |-> c, node |-> Workload[c].node]
<1>1. Track(c, s)
  BY DEF SendRequest
<1>2. p.node = Workload[c].node
  OBVIOUS
<1>3. psend \in [Daemon -> SUBSET PendingSend]
  BY DEF TypeOK, DaemonTypeOK
<1> HIDE DEF s
<1>4. UNCHANGED psend \/ psend' = [psend EXCEPT ![At(c)] = @ \cup {p}]
  BY <1>1 DEF Track
<1> HIDE DEF p
<1>. QED  BY <1>2, <1>3, <1>4

LEMMA CmdNodeMoves ==
  ASSUME TypeOK, Elsewhere, NEW m \in NodeCmd, CmdNode(m)  PROVE LinkMove
<1> DEFINE d == m.at
           n == m.name
           r == [node[d][n] EXCEPT !.used = TRUE, !.peer = m.peer]
<1>1. d \in Daemon /\ n \in Node /\ m.peer \in Daemon \cup {NoPort} /\ m.peer # d
  BY CommandAssumption
<1>2. node[d][n] \in NodeType /\ node \in [Daemon -> [Node -> NodeType]]
  BY <1>1 DEF TypeOK, DaemonTypeOK
<1>3. /\ r \in NodeType /\ r.used /\ r.peer = m.peer
      /\ r.sock = node[d][n].sock /\ r.connecting = node[d][n].connecting
  BY <1>1, <1>2 DEF NodeType
<1>4. UNCHANGED <<psend, inbox>>
  BY DEF CmdNode
<1>5. CASE ~Linked(r) /\ CanConnect(r)
  <2>1. node' = [node EXCEPT ![d][n] = Connecting(r)] /\ OpenSocket(d, r)
    BY <1>5 DEF CmdNode
  <2> HIDE DEF d, n, r
  <2>2. /\ Connecting(r) \in NodeType /\ Connecting(r).used /\ Connecting(r).peer = r.peer
        /\ Connecting(r).connecting /\ Connecting(r).sock = Len(sock) + 1
    <3>1. Connecting(r) \in NodeType
      BY <1>1, <1>3, <1>5, <2>1, OpenSocketType
    <3>. QED  BY <1>3, <3>1 DEF Connecting, NodeType
  <2>3. OpenSocket(d, Connecting(r))
    BY <2>1, <2>2 DEF OpenSocket
  <2>4. ~Linked(node[d][n]) /\ Len(sock) < MaxSock /\ r.peer \in Daemon \ {d}
    BY <1>1, <1>3, <1>5 DEF Linked, CanConnect
  <2>5. OpensFor(d, n, Connecting(r))
    BY <1>4, <2>1, <2>2, <2>3, <2>4 DEF OpensFor
  <2>. QED  BY <1>1, <2>2, <2>5 DEF LinkMove
<1>6. CASE ~(~Linked(r) /\ CanConnect(r))
  <2>1. node' = [node EXCEPT ![d][n] = r] /\ UNCHANGED <<conn, sock>>
    BY <1>6 DEF CmdNode
  <2> HIDE DEF d, n, r
  <2>2. NodesStay
    BY <1>1, <1>2, <1>3, <2>1 DEF NodesStay, SameNode
  <2>. QED  BY <1>4, <2>1, <2>2, StaysSame DEF LinkMove, LinksStay
<1>. QED  BY <1>5, <1>6

LEMMA ReqMoves ==
  ASSUME TypeOK, Elsewhere, NEW c \in Call, ReqConnects(c) \/ ReqQueues(c) \/ ReqWrites(c)
  PROVE  LinkMove
<1> DEFINE d == At(c)
           n == Workload[c].node
           r == Entry(c)
<1>1. /\ d \in Daemon /\ n \in Node /\ r \in NodeType /\ r = node[d][n]
      /\ node \in [Daemon -> [Node -> NodeType]]
      /\ NewFrames(c) \in Seq(RequestFrame) /\ NewFrames(c) \in Seq(Frames)
  <2>1. NewFrames(c) \in Seq(Frames)
    BY SessionType, SeqWiden DEF Frames
  <2>. QED  BY <2>1, SessionType DEF Entry, TypeOK, DaemonTypeOK
<1>2. \A e \in Daemon : \A p \in psend'[e] : p \in psend[e] \/ (e = d /\ p.node = n)
  BY SendAwaits DEF ReqConnects, ReqQueues, ReqWrites
<1>3. ASSUME NEW q \in NodeType
      PROVE  LET s == Enqueued(q, NewFrames(c))
             IN  /\ s \in NodeType /\ s.used = q.used /\ s.peer = q.peer
                 /\ s.sock = q.sock /\ s.connecting = q.connecting
  <2>1. q.queue \o NewFrames(c) \in Seq(RequestFrame)
    BY <1>1, ConcatProperties DEF NodeType
  <2>. QED  BY <2>1 DEF Enqueued, NodeType
<1>4. CASE ReqConnects(c)
  <2>1. /\ r.used /\ ~Linked(r) /\ CanConnect(r) /\ OpenSocket(d, r) /\ UNCHANGED inbox
        /\ node' = [node EXCEPT ![d][n] = Enqueued(Connecting(r), NewFrames(c))]
    BY <1>4 DEF ReqConnects, Queued
  <2> DEFINE s == Enqueued(Connecting(r), NewFrames(c))
  <2> HIDE DEF d, n, r
  <2>2. /\ Connecting(r) \in NodeType /\ Connecting(r).used /\ Connecting(r).peer = r.peer
        /\ Connecting(r).connecting /\ Connecting(r).sock = Len(sock) + 1
    <3>1. Connecting(r) \in NodeType
      BY <1>1, <2>1, OpenSocketType
    <3>. QED  BY <1>1, <2>1, <3>1 DEF Connecting, NodeType
  <2>3. s \in NodeType /\ s.used /\ s.peer = r.peer /\ s.connecting /\ s.sock = Len(sock) + 1
    BY <1>3, <2>2
  <2>4. r.peer \in Daemon \ {d} /\ Len(sock) < MaxSock
    BY <1>1, <2>1 DEF CanConnect, Elsewhere, NodeType
  <2>5. OpenSocket(d, s)
    BY <2>1, <2>3 DEF OpenSocket
  <2>6. ~Linked(node[d][n]) /\ node' = [node EXCEPT ![d][n] = s]
    BY <1>1, <2>1
  <2> HIDE DEF s
  <2>7. OpensFor(d, n, s)
    BY <1>2, <2>1, <2>3, <2>4, <2>5, <2>6 DEF OpensFor
  <2>. QED  BY <1>1, <2>3, <2>7 DEF LinkMove
<1>5. CASE ReqQueues(c) \/ ReqWrites(c)
  <2>1. Linked(r) /\ UNCHANGED <<conn, sock>>
    BY <1>5 DEF ReqQueues, ReqWrites
  <2>2. node' = [node EXCEPT ![d][n] = Enqueued(r, NewFrames(c))] \/ UNCHANGED node
    BY <1>5 DEF ReqQueues, ReqWrites, Queued
  <2>3. UNCHANGED inbox \/ inbox' = Written(inbox, d, r.sock, NewFrames(c))
    BY <1>5 DEF ReqQueues, ReqWrites
  <2>4. SameBoxes(inbox, inbox')
    <3>1. inbox \in InboxType
      BY DEF TypeOK, NetworkTypeOK, InboxType
    <3>. QED  BY <1>1, <2>3, <3>1, WrittenBoxes, StaysSame
  <2> HIDE DEF d, n, r
  <2>5. NodesStay
    <3>1. CASE UNCHANGED node
      BY <3>1, StaysSame
    <3>2. CASE node' = [node EXCEPT ![d][n] = Enqueued(r, NewFrames(c))]
      <4>1. SameNode(r, Enqueued(r, NewFrames(c))) /\ Enqueued(r, NewFrames(c)).peer = r.peer
        BY <1>1, <1>3 DEF SameNode
      <4>. QED  BY <1>1, <3>2, <4>1 DEF NodesStay, SameNode
    <3>. QED  BY <2>2, <3>1, <3>2
  <2>6. OnlyLinkedAwait
    BY <1>1, <1>2, <2>1 DEF OnlyLinkedAwait
  <2>. QED  BY <2>1, <2>4, <2>5, <2>6, StaysSame DEF LinkMove, LinksStay
<1>. QED  BY <1>4, <1>5

\* What an answered frame does to the boxes.
Pops(d, c) == inbox' = Popped(d, c)
Responds(d, c) ==
    \E s \in Nat, ok \in BOOLEAN, body \in Seq(Chunk) : inbox' = Responded(d, c, s, ok, body)

LEMMA TalkBoxes ==
  ASSUME TypeOK, NEW d \in Daemon, NEW c \in SockId, NEW types, Event(d, c, types),
         "CLOSE" \notin types, "ACCEPT" \notin types, Pops(d, c) \/ Responds(d, c)
  PROVE  SameBoxes(inbox, inbox')
<1>1. Popped(d, c) \in InboxType /\ SameBoxes(inbox, Popped(d, c))
  BY PoppedBoxes
<1>2. CASE Pops(d, c)
  BY <1>1, <1>2 DEF Pops
<1>3. CASE Responds(d, c)
  <2>1. PICK s \in Nat, ok \in BOOLEAN, body \in Seq(Chunk) :
                inbox' = Responded(d, c, s, ok, body)
    BY <1>3 DEF Responds
  <2>2. ResponseFrames(s, ok, body) \in Seq(Frames)
    BY ResponseFramesType, SeqWiden DEF Frames
  <2>. QED  BY <1>1, <2>1, <2>2, RepliedBoxes DEF Responded
<1>. QED  BY <1>2, <1>3

LEMMA DispatchTalks ==
  ASSUME TypeOK, NEW d \in Daemon, NEW c \in SockId, NEW k \in Slot, NEW push, NEW s \in Nat,
         NEW addr \in Wire, NEW body \in Bodies, Dispatch(d, c, k, push, s, addr, body)
  PROVE  Pops(d, c) \/ Responds(d, c)
<1>1. CASE AnswerQuery(d, c, s, body)
  <2> DEFINE g == Lookup(d, Workload[body[1][1]].asks)
             found == g # NoHandle
             reply == IF found THEN <<<<g, 0>>>> ELSE <<>>
  <2>1. g \in Service \cup {NoHandle}
    BY LookupType DEF TypeOK, DaemonTypeOK
  <2>2. inbox' = Responded(d, c, s, found, reply)
    BY <1>1 DEF AnswerQuery
  <2> HIDE DEF g
  <2>3. found \in BOOLEAN /\ reply \in Seq(Chunk)
    <3>1. found => <<g, 0>> \in Chunk
      BY <2>1 DEF Chunk
    <3>. QED  BY <3>1
  <2> HIDE DEF found, reply
  <2>. QED  BY <2>2, <2>3 DEF Responds
<1>2. CASE Reject(d, c, push, s)
  <2>1. FALSE \in BOOLEAN /\ <<>> \in Seq(Chunk)
    OBVIOUS
  <2>2. inbox' = Popped(d, c) \/ inbox' = Responded(d, c, s, FALSE, <<>>)
    BY <1>2 DEF Reject
  <2>. QED  BY <2>1, <2>2 DEF Pops, Responds
<1>3. ASSUME NEW h, Forward(d, c, k, push, s, h, body)  PROVE Pops(d, c)
  BY <1>3 DEF Forward, Pops
<1>. QED  BY <1>1, <1>2, <1>3 DEF Dispatch

LEMMA RequestTalks ==
  ASSUME TypeOK, NEW d \in Daemon, NEW c \in SockId, NEW k \in Slot, OnRequest(d, c, k)
  PROVE  Pops(d, c) \/ Responds(d, c)
<1> DEFINE f == Frame(d, c)
           r == conn[d][k].rq
           whole == WithChunk(r, f.body).got
<1>1. f \in SocketEvents /\ r \in Reassembly(BodyChunk)
  BY PoppedType, SetBodyType DEF OnRequest, TypeOK, NetworkTypeOK, InboxType
<1>2. CASE inbox' = Popped(d, c)
  BY <1>2 DEF Pops
<1>3. CASE f.type = "SMALL" /\ Dispatch(d, c, k, f.session = 0, f.session, f.addr, f.body)
  <2>1. f.session \in Nat /\ f.addr \in Wire /\ f.body \in Bodies
    BY <1>1, <1>3, FrameParts
  <2> HIDE DEF f
  <2>. QED  BY <1>3, <2>1, DispatchTalks
<1>4. CASE /\ f.type = "PART_END" /\ Accepts(r, f.session)
           /\ Dispatch(d, c, k, r.push, r.session, r.addr, whole)
  <2>1. f.session \in Nat /\ f.body \in Bodies /\ f.body \in Seq(BodyChunk) /\ f.body # <<>>
    BY <1>1, <1>4, FrameParts DEF Bodies
  <2>2. /\ r.session \in Nat /\ r.addr \in Wire
        /\ r.got \in Seq(BodyChunk) /\ whole = r.got \o f.body
    BY <1>1, <1>4, <2>1, ChunkTypes
  <2>3. whole \in Bodies
    <3>1. r.got \o f.body \in Seq(BodyChunk) /\ Len(r.got \o f.body) = Len(r.got) + Len(f.body)
      BY <2>1, <2>2, ConcatProperties
    <3>2. Len(f.body) > 0 /\ Len(r.got) >= 0
      BY <2>1, <2>2, EmptySeq, LenProperties
    <3>3. r.got \o f.body # <<>>
      BY <3>1, <3>2
    <3>. QED  BY <2>2, <3>1, <3>3 DEF Bodies
  <2> HIDE DEF whole, r
  <2>. QED  BY <1>4, <2>2, <2>3, DispatchTalks
<1>. QED  BY <1>2, <1>3, <1>4 DEF OnRequest, OnSmall, OnLargeHeader, OnPart

LEMMA SlotUpdate ==
  ASSUME TypeOK, NEW d \in Daemon, NEW k \in Slot, NEW r,
         SetRq(d, k, r) \/ SetRs(d, k, r)
  PROVE  SlotsStay
<1>1. conn \in [Daemon -> [Slot -> ConnType]] /\ conn[d][k] \in ConnType
  BY DEF TypeOK, DaemonTypeOK
<1>2. /\ SameConn(conn[d][k], [conn[d][k] EXCEPT !.rq = r])
      /\ SameConn(conn[d][k], [conn[d][k] EXCEPT !.rs = r])
  BY <1>1 DEF SameConn, ConnType
<1>3. \E x : SameConn(conn[d][k], x) /\ conn' = [conn EXCEPT ![d] = [conn[d] EXCEPT ![k] = x]]
  BY <1>2 DEF SetRq, SetRs
<1>. QED  BY <1>1, <1>3 DEF SlotsStay, SameConn

LEMMA EventMoves ==
  ASSUME TypeOK, NEW d \in Daemon, NEW c \in SockId, SocketEvent(d, c)
  PROVE  LinkMove
<1>1. "CLOSE" \notin RequestTypes \cup ResponseTypes /\ "ACCEPT" \notin RequestTypes \cup ResponseTypes
  BY DEF RequestTypes, ResponseTypes
<1>2. CASE OnAccept(d, c) \/ OnClose(d, c)
  BY <1>2 DEF LinkMove
<1>3. CASE OnIgnored(d, c)
  <2>1. SameBoxes(inbox, inbox')
    BY <1>1, <1>3, PoppedBoxes DEF OnIgnored
  <2>. QED  BY <1>3, <2>1, StaysSame DEF OnIgnored, daemonVars, LinkMove, LinksStay
<1>4. ASSUME NEW k \in Slot, OnRequest(d, c, k)  PROVE LinkMove
  <2>1. SameBoxes(inbox, inbox')
    BY <1>1, <1>4, RequestTalks, TalkBoxes DEF OnRequest
  <2>2. SlotsStay
    BY <1>4, SlotUpdate, StaysSame DEF OnRequest, OnSmall, OnLargeHeader, OnPart
  <2>. QED  BY <1>4, <2>1, <2>2, StaysSame DEF OnRequest, LinkMove, LinksStay
<1>5. ASSUME NEW k \in Slot, NEW p \in psend[d], OnResponse(d, c, k, p)  PROVE LinkMove
  <2>1. SameBoxes(inbox, inbox')
    BY <1>1, <1>5, PoppedBoxes DEF OnResponse
  <2>2. SlotsStay
    BY <1>5, SlotUpdate, StaysSame DEF OnResponse
  <2>3. OnlyLinkedAwait
    <3>1. UNCHANGED psend \/ psend' = Released(d, p)
      BY <1>5 DEF OnResponse, Complete
    <3>2. psend \in [Daemon -> SUBSET PendingSend]
      BY DEF TypeOK, DaemonTypeOK
    <3>. QED  BY <3>1, <3>2, StaysSame DEF Released, OnlyLinkedAwait
  <2>. QED  BY <1>5, <2>1, <2>2, <2>3, StaysSame DEF OnResponse, LinkMove, LinksStay
<1>6. CASE OnConnect(d, c)
  <2> DEFINE using == NodesUsing(d, c)
             slots == ConnsOf(conn[d], c)
  <2>1. /\ conn \in [Daemon -> [Slot -> ConnType]] /\ node \in [Daemon -> [Node -> NodeType]]
        /\ \A k \in Slot : conn[d][k] \in ConnType
    BY DEF TypeOK, DaemonTypeOK
  <2>2. SlotsStay
    <3>1. \A k \in Slot : SameConn(conn[d][k], [conn[d][k] EXCEPT !.ready = TRUE])
      BY <2>1 DEF SameConn, ConnType
    <3>2. conn' = [conn EXCEPT ![d] = [k \in Slot |->
               IF k \in slots THEN [conn[d][k] EXCEPT !.ready = TRUE] ELSE conn[d][k]]]
      BY <1>6 DEF OnConnect
    <3> HIDE DEF slots
    <3>. QED  BY <2>1, <3>1, <3>2 DEF SlotsStay, SameConn
  <2>3. Popped(d, c) \in InboxType /\ SameBoxes(inbox, Popped(d, c))
    BY <1>6, PoppedBoxes DEF OnConnect
  <2>4. CASE slots = {} \/ using = {}
    <3>1. inbox' = Popped(d, c) /\ UNCHANGED node
      BY <1>6, <2>4 DEF OnConnect
    <3>. QED  BY <1>6, <2>2, <2>3, <3>1, StaysSame DEF OnConnect, LinkMove, LinksStay
  <2>5. CASE ~(slots = {} \/ using = {})
    <3> DEFINE n == CHOOSE n \in using : TRUE
    <3>1. inbox' = Flushed(Popped(d, c), d, c, n) /\ node' = [node EXCEPT ![d][n] = Emptied(@)]
      BY <1>6, <2>5 DEF OnConnect
    <3>2. n \in Node
      BY <2>5 DEF NodesUsing
    <3> HIDE DEF n, slots, using
    <3>3. node[d][n].queue \in Seq(Frames) /\ node[d][n] \in NodeType
      <4>1. node[d][n] \in NodeType /\ node[d][n].queue \in Seq(RequestFrame)
        BY <2>1, <3>2 DEF NodeType
      <4>. QED  BY <4>1, SeqWiden DEF Frames
    <3>4. SameBoxes(inbox, inbox')
      BY <2>3, <3>1, <3>3, RepliedBoxes DEF Flushed
    <3>5. NodesStay
      <4>1. SameNode(node[d][n], Emptied(node[d][n])) /\ Emptied(node[d][n]).peer = node[d][n].peer
        BY <3>3 DEF SameNode, Emptied, NodeType
      <4>. QED  BY <2>1, <3>1, <3>2, <4>1 DEF NodesStay, SameNode
    <3>. QED  BY <1>6, <2>2, <3>4, <3>5, StaysSame DEF OnConnect, LinkMove, LinksStay
  <2>. QED  BY <2>4, <2>5
<1>. QED  BY <1>2, <1>3, <1>4, <1>5, <1>6 DEF SocketEvent

LEMMA ReplyMoves ==
  ASSUME TypeOK, NEW d \in Daemon, NEW w \in work[d], NEW ok \in BOOLEAN, LocalReply(d, w, ok)
  PROVE  LinkMove
<1>1. PICK p \in precv[d] :
        inbox' = IF conn[d][p.slot].sock = NoSock THEN inbox
                 ELSE Written(inbox, d, conn[d][p.slot].sock,
                        ResponseFrames(p.remote, ok, IF ok THEN Reply(w.call) ELSE <<>>))
  BY DEF LocalReply
<1> DEFINE reply == IF ok THEN Reply(w.call) ELSE <<>>
           frames == ResponseFrames(p.remote, ok, reply)
           c == conn[d][p.slot].sock
<1>2. p.remote \in Nat /\ w.call \in Call
  BY DEF PendingRecv, TypeOK, DaemonTypeOK, ServiceTypeOK
<1>3. reply \in Seq(Chunk)
  BY <1>2, ReplyType
<1>4. frames \in Seq(Frames)
  BY ZenonT(40), <1>2, <1>3, ResponseFramesType, SeqWiden DEF Frames
<1>5. inbox' = inbox \/ inbox' = Written(inbox, d, c, frames)
  BY <1>1
<1> HIDE DEF frames, c
<1>6. inbox \in InboxType
  BY DEF TypeOK, NetworkTypeOK, InboxType
<1>7. SameBoxes(inbox, inbox')
  BY <1>4, <1>5, <1>6, WrittenBoxes, StaysSame
<1>. QED  BY <1>7, StaysSame DEF LocalReply, LinkMove, LinksStay

LEMMA LinkMoves == TypeOK /\ Elsewhere /\ [Next]_vars => LinkMove
<1> SUFFICES ASSUME TypeOK, Elsewhere, [Next]_vars  PROVE LinkMove
  OBVIOUS
<1> USE StaysSame DEF daemonVars, networkVars
<1>1. ASSUME NEW d \in Daemon, Command(d)  PROVE LinkMove
  <2>1. CASE CmdListen(d)
    BY <2>1 DEF CmdListen, LinkMove, LinksStay
  <2>2. ASSUME NEW r \in Registration, CmdRegister(r)  PROVE LinkMove
    BY <2>2 DEF CmdRegister, LinkMove, LinksStay
  <2>3. ASSUME NEW m \in NodeCmd, CmdNode(m)  PROVE LinkMove
    BY <2>3, CmdNodeMoves
  <2>4. ASSUME NEW c \in Call, ReqUnknownNode(c) \/ ReqConnectFails(c)  PROVE LinkMove
    BY <2>4 DEF ReqUnknownNode, ReqConnectFails, IssueFailed, LinkMove, LinksStay
  <2>5. ASSUME NEW c \in Call, ReqConnects(c) \/ ReqQueues(c) \/ ReqWrites(c)  PROVE LinkMove
    BY <2>5, ReqMoves
  <2>. QED  BY <1>1, <2>1, <2>2, <2>3, <2>4, <2>5 DEF Command
<1>2. ASSUME NEW d \in Daemon, ServiceStep(d)  PROVE LinkMove
  <2>1. ASSUME NEW h \in Service, ServiceExit(d, h)  PROVE LinkMove
    BY <2>1 DEF ServiceExit, LinkMove, LinksStay
  <2>. QED  BY <1>2, <2>1, ReplyMoves DEF ServiceStep
<1>3. CASE UNCHANGED vars
  BY <1>3 DEF vars, LinkMove, LinksStay
<1>. QED  BY <1>1, <1>2, <1>3, EventMoves DEF Next, LinkMove
-----------------------------------------------------------------------------
(* The invariant, one link, request, socket, slot and box at a time.       *)

AwaitOK(d) == \A p \in psend[d] : node[d][p.node].sock # NoSock
SockOK(d, c) == sock[c].cli = d /\ sock[c].state # "down" => NodesUsing(d, c) # {}
SlotOK(d, k) ==
    LET c == conn[d][k].sock
    IN  c # NoSock =>
          /\ c \in DOMAIN sock
          /\ conn[d][k].outbound <=> sock[c].cli = d
          /\ sock[c].state # "down" \/ CloseComing(d, c)
          /\ \A j \in Slot : conn[d][j].sock = c => j = k
          /\ ~conn[d][k].outbound => sock[c].srv = d /\ sock[c].state # "connecting"
LinksOf(d) ==
    /\ \A n \in Node : NodeLinkOK(d, n)
    /\ AwaitOK(d)
    /\ \A c \in DOMAIN sock : SockOK(d, c)
    /\ \A k \in Slot : SlotOK(d, k)
    /\ \A c \in SockId : Boxed(d, c)

LEMMA LinkParts ==
  LinkInv <=> Len(sock) <= MaxSock /\ Elsewhere /\ \A d \in Daemon : LinksOf(d)
<1>1. ASSUME NEW d \in Daemon, NEW k \in Slot
      PROVE  SlotOK(d, k) <=>
               LET c == conn[d][k].sock
               IN  c # NoSock =>
                     /\ c \in DOMAIN sock
                     /\ conn[d][k].outbound <=> sock[c].cli = d
                     /\ sock[c].state # "down" \/ CloseComing(d, c)
                     /\ ConnsOf(conn[d], c) = {k}
                     /\ ~conn[d][k].outbound =>
                           sock[c].srv = d /\ sock[c].state # "connecting"
  <2>1. ConnsOf(conn[d], conn[d][k].sock) = {k}
          <=> \A j \in Slot : conn[d][j].sock = conn[d][k].sock => j = k
    BY DEF ConnsOf
  <2>. QED  BY <2>1 DEF SlotOK
<1>2. NoOrphanedCall <=> \A d \in Daemon : (\A n \in Node : NodeLinkOK(d, n)) /\ AwaitOK(d)
  BY DEF NoOrphanedCall, AwaitOK
<1>3. NoLeakedConnection /\ Inbound <=>
        \A d \in Daemon : /\ \A c \in DOMAIN sock : SockOK(d, c)
                          /\ \A k \in Slot : SlotOK(d, k)
  <2> DEFINE Free(d) == \A c \in DOMAIN sock :
                          sock[c].cli = d /\ sock[c].state # "down" => NodesUsing(d, c) # {}
             Taken(d, k) == LET c == conn[d][k].sock
                            IN  c # NoSock =>
                                  /\ c \in DOMAIN sock
                                  /\ conn[d][k].outbound <=> sock[c].cli = d
                                  /\ sock[c].state # "down" \/ CloseComing(d, c)
                                  /\ ConnsOf(conn[d], c) = {k}
             Into(d, k) == conn[d][k].sock # NoSock /\ ~conn[d][k].outbound =>
                             /\ sock[conn[d][k].sock].srv = d
                             /\ sock[conn[d][k].sock].state # "connecting"
  <2>1. NoLeakedConnection <=> \A d \in Daemon : Free(d) /\ \A k \in Slot : Taken(d, k)
    BY DEF NoLeakedConnection
  <2>2. Inbound <=> \A d \in Daemon : \A k \in Slot : Into(d, k)
    BY DEF Inbound
  <2>3. \A d \in Daemon : Free(d) <=> \A c \in DOMAIN sock : SockOK(d, c)
    BY DEF SockOK
  <2>4. \A d \in Daemon : \A k \in Slot : SlotOK(d, k) <=> Taken(d, k) /\ Into(d, k)
    BY <1>1
  <2> HIDE DEF Free, Taken, Into
  <2>. QED  BY <2>1, <2>2, <2>3, <2>4
<1>. QED  BY <1>2, <1>3 DEF LinkInv, LinksOf

LEMMA LinkPartsNext ==
  (Len(sock) <= MaxSock /\ Elsewhere /\ \A d \in Daemon : LinksOf(d))' => LinkInv'
  BY LinkParts, PTL

\* What is typed here.
LEMMA LinkTypes ==
  ASSUME TypeOK
  PROVE  /\ node \in [Daemon -> [Node -> NodeType]] /\ conn \in [Daemon -> [Slot -> ConnType]]
         /\ psend \in [Daemon -> SUBSET PendingSend] /\ inbox \in InboxType
         /\ sock \in Seq([state: {"connecting", "open", "down"}, cli: Daemon, srv: Daemon])
         /\ DOMAIN sock = 1 .. Len(sock) /\ Len(sock) \in Nat
         /\ Len(sock) <= MaxSock => DOMAIN sock \subseteq SockId
         /\ \A c \in DOMAIN sock : /\ sock[c].cli \in Daemon /\ sock[c].srv \in Daemon
                                   /\ sock[c].state \in {"connecting", "open", "down"}
         /\ 0 \notin DOMAIN sock
<1>1. /\ node \in [Daemon -> [Node -> NodeType]] /\ conn \in [Daemon -> [Slot -> ConnType]]
      /\ psend \in [Daemon -> SUBSET PendingSend] /\ inbox \in InboxType
      /\ sock \in Seq([state: {"connecting", "open", "down"}, cli: Daemon, srv: Daemon])
  BY DEF TypeOK, DaemonTypeOK, NetworkTypeOK, InboxType
<1>2. DOMAIN sock = 1 .. Len(sock) /\ Len(sock) \in Nat
  BY <1>1
<1>3. Len(sock) <= MaxSock => DOMAIN sock \subseteq SockId
  BY <1>2, BoundAssumption DEF SockId
<1>4. \A c \in DOMAIN sock :
        sock[c] \in [state: {"connecting", "open", "down"}, cli: Daemon, srv: Daemon]
  BY <1>1, <1>2, ElementOfSeq
<1>. QED  BY <1>1, <1>2, <1>3, <1>4

LEMMA StayKeeps ==
  ASSUME TypeOK, LinkInv, LinksStay  PROVE LinkInv'
<1>1. /\ Len(sock) <= MaxSock /\ Elsewhere /\ \A d \in Daemon : LinksOf(d)
      /\ sock' = sock /\ DOMAIN sock \subseteq SockId /\ 0 \notin DOMAIN sock
  BY LinkParts, LinkTypes DEF LinksStay
<1>2. \A d \in Daemon, n \in Node :
        /\ SameNode(node[d][n], node'[d][n])
        /\ node[d][n].peer # d => node'[d][n].peer # d
  BY DEF LinksStay, NodesStay
<1>3. \A d \in Daemon : \A k \in Slot : SameConn(conn[d][k], conn'[d][k])
  BY DEF LinksStay, SlotsStay
<1>4. \A d \in Daemon, c \in SockId : SameBox(inbox[d][c], inbox'[d][c])
  BY DEF LinksStay, SameBoxes
<1>5. Len(sock') <= MaxSock /\ Elsewhere'
  BY <1>1, <1>2 DEF Elsewhere
<1>6. ASSUME NEW d \in Daemon  PROVE LinksOf(d)'
  <2>1. ASSUME NEW n \in Node  PROVE NodeLinkOK(d, n)'
    BY <1>1, <1>2, <1>4 DEF LinksOf, NodeLinkOK, SameNode, SameBox, CloseComing, Has, NoSock
  <2>2. AwaitOK(d)'
    <3>1. \A p \in psend[d] : p.node \in Node
      BY LinkTypes DEF PendingSend
    <3>2. \A p \in psend'[d] : p.node \in Node /\ node[d][p.node].sock # NoSock
      BY <1>1, <3>1 DEF LinksStay, OnlyLinkedAwait, AwaitOK, LinksOf, NodeLinkOK, Linked
    <3>. QED  BY <1>2, <3>2 DEF AwaitOK, SameNode
  <2>3. ASSUME NEW c \in DOMAIN sock'  PROVE SockOK(d, c)'
    BY <1>1, <1>2 DEF LinksOf, SockOK, NodesUsing, SameNode
  <2>4. ASSUME NEW k \in Slot  PROVE SlotOK(d, k)'
    BY <1>1, <1>3, <1>4 DEF LinksOf, SlotOK, SameConn, SameBox, CloseComing, Has, NoSock
  <2>5. ASSUME NEW c \in SockId  PROVE Boxed(d, c)'
    <3>1. ConnsOf(conn'[d], c) = ConnsOf(conn[d], c)
      BY <1>3 DEF ConnsOf, SameConn
    <3>. QED  BY <1>1, <1>4, <3>1 DEF LinksOf, Boxed, SameBox, UpOrClosing
  <2>. QED  BY <2>1, <2>2, <2>3, <2>4, <2>5 DEF LinksOf
<1>. QED  BY <1>5, <1>6, LinkPartsNext

LEMMA AllocatedSlot ==
  ASSUME NEW table \in [Slot -> ConnType], NEW rec
  PROVE  \/ Allocated(table, rec) = table
         \/ \E k \in Slot : /\ table[k].sock = NoSock
                            /\ Allocated(table, rec) = [table EXCEPT ![k] = rec]
<1> DEFINE free == ConnsOf(table, NoSock)
           k == CHOOSE k \in free : \A j \in free : k <= j
<1>1. CASE free = {}
  BY <1>1 DEF Allocated
<1>2. CASE free # {}
  <2>1. free \subseteq Nat
    BY BoundAssumption DEF ConnsOf, Slot
  <2>2. \E m \in free : \A j \in free : m <= j
    BY <1>2, <2>1, LeastExists
  <2>3. k \in free
    BY <2>2
  <2>4. Allocated(table, rec) = [table EXCEPT ![k] = rec]
    BY <1>2 DEF Allocated
  <2> HIDE DEF k
  <2>. QED  BY <2>3, <2>4 DEF ConnsOf
<1>. QED  BY <1>1, <1>2

\* At most one slot, a free one of d, takes the new connection.
TookSlot(d, k, rec) ==
    /\ conn[d][k].sock = NoSock /\ conn'[d][k] = rec
    /\ \A j \in Slot : j # k => conn'[d][j] = conn[d][j]
LEMMA AllocatedSlots ==
  ASSUME TypeOK, NEW d \in Daemon, NEW rec, conn' = [conn EXCEPT ![d] = Allocated(@, rec)]
  PROVE  \A e \in Daemon : \A k \in Slot :
            conn'[e][k] = conn[e][k] \/ (e = d /\ TookSlot(d, k, rec))
<1>1. conn[d] \in [Slot -> ConnType] /\ conn \in [Daemon -> [Slot -> ConnType]]
  BY LinkTypes
<1>2. \A e \in Daemon : e # d => conn'[e] = conn[e]
  BY <1>1
<1>3. conn'[d] = Allocated(conn[d], rec)
  BY <1>1
<1>4. CASE conn'[d] = conn[d]
  BY <1>2, <1>4
<1>5. ASSUME NEW k \in Slot, conn[d][k].sock = NoSock, conn'[d] = [conn[d] EXCEPT ![k] = rec]
      PROVE  TookSlot(d, k, rec) /\ \A j \in Slot : j # k => conn'[d][j] = conn[d][j]
  BY <1>1, <1>5 DEF TookSlot
<1>. QED  BY <1>1, <1>2, <1>3, <1>4, <1>5, AllocatedSlot

LEMMA OpenKeeps ==
  ASSUME TypeOK, LinkInv, NEW d \in Daemon, NEW n \in Node, NEW r \in NodeType,
         OpensFor(d, n, r)
  PROVE  LinkInv'
<1> DEFINE m == Len(sock) + 1
           new == [state |-> "connecting", cli |-> d, srv |-> r.peer]
<1>1. /\ Len(sock) <= MaxSock /\ Elsewhere /\ \A e \in Daemon : LinksOf(e)
      /\ DOMAIN sock \subseteq SockId /\ 0 \notin DOMAIN sock /\ DOMAIN sock = 1 .. Len(sock)
      /\ Len(sock) \in Nat
      /\ sock \in Seq([state: {"connecting", "open", "down"}, cli: Daemon, srv: Daemon])
  BY LinkParts, LinkTypes
<1>2. /\ m \in SockId /\ m # 0 /\ m \notin DOMAIN sock /\ m \in Nat
      /\ Len(sock') <= MaxSock /\ DOMAIN sock' = DOMAIN sock \cup {m}
      /\ \A c \in DOMAIN sock : sock'[c] = sock[c]
      /\ sock'[m] = new
  <2>1. sock' = Append(sock, new) /\ new \in [state: {"connecting", "open", "down"}, cli: Daemon, srv: Daemon]
    BY DEF OpensFor, OpenSocket
  <2>2. Len(sock) < MaxSock
    BY DEF OpensFor
  <2> HIDE DEF new
  <2>3. /\ Len(sock') = Len(sock) + 1 /\ DOMAIN sock' = 1 .. Len(sock) + 1
        /\ \A c \in 1 .. Len(sock) : sock'[c] = sock[c]
        /\ sock'[Len(sock) + 1] = new
    BY <1>1, <2>1, AppendProperties
  <2>. QED  BY <1>1, <2>2, <2>3, BoundAssumption DEF SockId
<1>3. new.state = "connecting" /\ new.cli = d /\ new.srv = r.peer /\ r.peer # d
  BY DEF OpensFor
<1>4. /\ ~Linked(node[d][n]) /\ r.used /\ r.connecting /\ r.sock = m
      /\ node' = [node EXCEPT ![d][n] = r] /\ inbox' = inbox
      /\ \A e \in Daemon : \A p \in psend'[e] : p \in psend[e] \/ (e = d /\ p.node = n)
  BY DEF OpensFor
<1>5. /\ node'[d][n] = r
      /\ \A e \in Daemon, q \in Node : (e = d /\ q = n) \/ node'[e][q] = node[e][q]
  BY <1>4, LinkTypes
<1>6. node[d][n].sock = NoSock
  BY <1>4 DEF Linked
<1>7. OutboundConn(m).sock = m /\ OutboundConn(m).outbound = TRUE
  BY DEF OutboundConn, FreeConn
<1>8. conn' = [conn EXCEPT ![d] = Allocated(@, OutboundConn(m))]
  BY DEF OpensFor, OpenSocket
<1> HIDE DEF m, new
<1>9. \A e \in Daemon : \A k \in Slot :
        \/ conn'[e][k] = conn[e][k]
        \/ /\ e = d /\ conn[d][k].sock = NoSock /\ conn'[d][k].sock = m /\ conn'[d][k].outbound
           /\ \A j \in Slot : j # k => conn'[d][j] = conn[d][j]
  <2>1. \A e \in Daemon : \A k \in Slot :
          conn'[e][k] = conn[e][k] \/ (e = d /\ TookSlot(d, k, OutboundConn(m)))
    BY <1>8, AllocatedSlots
  <2>. QED  BY <1>7, <2>1 DEF TookSlot
<1>10. Elsewhere'
  BY <1>1, <1>2, <1>3, <1>5 DEF Elsewhere
<1>11. ASSUME NEW e \in Daemon  PROVE LinksOf(e)'
  <2>1. ASSUME NEW q \in Node  PROVE NodeLinkOK(e, q)'
    <3>1. CASE e = d /\ q = n
      BY <1>2, <1>3, <1>4, <1>5, <3>1 DEF NodeLinkOK, NoSock
    <3>2. CASE ~(e = d /\ q = n)
      <4>1. node'[e][q] = node[e][q] /\ NodeLinkOK(e, q)
        BY <1>1, <1>5, <3>2 DEF LinksOf
      <4>. QED  BY <1>2, <1>4, <4>1 DEF NodeLinkOK, CloseComing
    <3>. QED  BY <3>1, <3>2
  <2>2. AwaitOK(e)'
    <3>1. ASSUME NEW p \in psend'[e]  PROVE node'[e][p.node].sock # NoSock
      <4>1. CASE e = d /\ p.node = n
        BY <1>2, <1>4, <1>5, <4>1 DEF NoSock
      <4>2. CASE p \in psend[e] /\ ~(e = d /\ p.node = n)
        <5>1. p.node \in Node
          BY <4>2, LinkTypes DEF PendingSend
        <5>. QED  BY <1>1, <1>5, <4>2, <5>1 DEF LinksOf, AwaitOK
      <4>. QED  BY <1>4, <4>1, <4>2
    <3>. QED  BY <3>1 DEF AwaitOK
  <2>3. ASSUME NEW c \in DOMAIN sock'  PROVE SockOK(e, c)'
    <3>1. CASE c = m
      <4>1. e = d => n \in NodesUsing(e, c)'
        BY <1>4, <1>5, <3>1 DEF NodesUsing
      <4>. QED  BY <1>2, <1>3, <3>1, <4>1 DEF SockOK
    <3>2. CASE c # m
      <4>1. c \in DOMAIN sock /\ c # 0 /\ SockOK(e, c) /\ sock'[c] = sock[c]
        BY <1>1, <1>2, <3>2 DEF LinksOf
      <4>2. NodesUsing(e, c) \subseteq NodesUsing(e, c)'
        BY <1>5, <1>6, <4>1 DEF NodesUsing, NoSock
      <4>. QED  BY <4>1, <4>2 DEF SockOK
    <3>. QED  BY <3>1, <3>2
  <2>4. ASSUME NEW k \in Slot  PROVE SlotOK(e, k)'
    <3>1. \A j \in Slot : conn[e][j].sock # m
      BY <1>1, <1>2 DEF LinksOf, SlotOK, NoSock
    <3>2. CASE conn'[e][k] = conn[e][k] 
      <4>1. ASSUME NEW j \in Slot, conn[e][k].sock # NoSock, conn'[e][j].sock = conn[e][k].sock
            PROVE  conn[e][j].sock = conn[e][k].sock
        BY <1>9, <3>1, <4>1
      <4>. QED  BY <1>1, <1>2, <1>4, <3>2, <4>1 DEF LinksOf, SlotOK, CloseComing
    <3>3. CASE /\ e = d /\ conn'[d][k].sock = m /\ conn'[d][k].outbound
               /\ \A j \in Slot : j # k => conn'[d][j] = conn[d][j]
      BY <1>2, <1>3, <3>1, <3>3 DEF SlotOK
    <3>. QED  BY <1>9, <3>2, <3>3
  <2>5. ASSUME NEW c \in SockId  PROVE Boxed(e, c)'
    <3>1. Boxed(e, c)
      BY <1>1 DEF LinksOf
    <3>2. CASE c \notin DOMAIN sock
      BY <1>4, <3>1, <3>2 DEF Boxed
    <3>3. CASE c \in DOMAIN sock
      <4>1. c # m /\ sock'[c] = sock[c]
        BY <1>2, <3>3
      <4>2. ConnsOf(conn[e], c) = {} => ConnsOf(conn'[e], c) = {}
        BY <1>9, <4>1 DEF ConnsOf
      <4>. QED  BY <1>2, <1>4, <3>1, <4>1, <4>2 DEF Boxed, UpOrClosing
    <3>. QED  BY <3>2, <3>3
  <2>. QED  BY <2>1, <2>2, <2>3, <2>4, <2>5 DEF LinksOf
<1>. QED  BY <1>2, <1>10, <1>11, LinkPartsNext

\* The first event of socket c is taken from the box of d.
LEMMA PoppedBox ==
  ASSUME TypeOK, LinkInv, NEW d \in Daemon, NEW c \in SockId, NEW types, Event(d, c, types),
         inbox' = Popped(d, c)
  PROVE  /\ c \in DOMAIN sock /\ Head(inbox[d][c]).type \in types
         /\ \A type : Has(inbox[d][c], type)
                        <=> Has(inbox'[d][c], type) \/ Head(inbox[d][c]).type = type
         /\ ~Has(inbox'[d][c], "ACCEPT") /\ AcceptFirst(inbox'[d][c])
         /\ \A e \in Daemon, s \in SockId : (e = d /\ s = c) \/ inbox'[e][s] = inbox[e][s]
<1>1. inbox[d][c] \in Seq(SocketEvents) /\ inbox[d][c] # <<>>
  BY LinkTypes DEF InboxType, Event
<1>2. inbox'[d][c] = Tail(inbox[d][c])
      /\ \A e \in Daemon, s \in SockId : (e = d /\ s = c) \/ inbox'[e][s] = inbox[e][s]
  BY LinkTypes DEF InboxType, Popped
<1>3. c \in DOMAIN sock
  BY LinkTypes, BoundAssumption DEF Event, SockId
<1>4. AcceptFirst(inbox[d][c])
  BY DEF LinkInv, Boxed
<1>. QED  BY <1>1, <1>2, <1>3, <1>4, TailBox DEF Event

LEMMA AcceptKeeps ==
  ASSUME TypeOK, LinkInv, NEW d \in Daemon, NEW c \in SockId, OnAccept(d, c)
  PROVE  LinkInv'
<1>1. /\ Len(sock) <= MaxSock /\ Elsewhere /\ \A e \in Daemon : LinksOf(e)
      /\ DOMAIN sock \subseteq SockId /\ 0 \notin DOMAIN sock
  BY LinkParts, LinkTypes
<1>2. UNCHANGED <<node, psend, sock>>
  BY DEF OnAccept
<1>3. /\ c \in DOMAIN sock /\ Head(inbox[d][c]).type = "ACCEPT"
      /\ ~Has(inbox'[d][c], "ACCEPT") /\ AcceptFirst(inbox'[d][c])
      /\ Has(inbox'[d][c], "CLOSE") <=> Has(inbox[d][c], "CLOSE")
      /\ Has(inbox[d][c], "ACCEPT")
      /\ \A e \in Daemon, s \in SockId : (e = d /\ s = c) \/ inbox'[e][s] = inbox[e][s]
  BY PoppedBox DEF OnAccept
<1>4. /\ sock[c].srv = d /\ sock[c].cli # d /\ sock[c].state # "connecting"
      /\ ConnsOf(conn[d], c) = {} /\ (sock[c].state # "down" \/ Has(inbox[d][c], "CLOSE"))
  BY <1>1, <1>3 DEF LinksOf, Boxed, UpOrClosing, Elsewhere
<1>5. \A e \in Daemon : \A k \in Slot :
        \/ conn'[e][k] = conn[e][k]
        \/ /\ e = d /\ conn[d][k].sock = NoSock
           /\ conn'[d][k].sock = c /\ conn'[d][k].outbound = FALSE
           /\ \A j \in Slot : j # k => conn'[d][j] = conn[d][j]
  <2>1. InboundConn(c).sock = c /\ InboundConn(c).outbound = FALSE
    BY DEF InboundConn, FreeConn
  <2>2. conn' = [conn EXCEPT ![d] = Allocated(@, InboundConn(c))]
    BY DEF OnAccept
  <2>3. \A e \in Daemon : \A k \in Slot :
          conn'[e][k] = conn[e][k] \/ (e = d /\ TookSlot(d, k, InboundConn(c)))
    BY <2>2, AllocatedSlots
  <2>. QED  BY <2>1, <2>3 DEF TookSlot
<1>6. \A j \in Slot : conn[d][j].sock # c
  BY <1>4 DEF ConnsOf
<1>7. ASSUME NEW e \in Daemon  PROVE LinksOf(e)'
  <2>1. ASSUME NEW s \in SockId  PROVE CloseComing(e, s)' <=> CloseComing(e, s)
    BY <1>3 DEF CloseComing, Has
  <2>2. ASSUME NEW n \in Node  PROVE NodeLinkOK(e, n)'
    BY <1>1, <1>2, <2>1 DEF LinksOf, NodeLinkOK
  <2>3. AwaitOK(e)' /\ \A s \in DOMAIN sock' : SockOK(e, s)'
    BY <1>1, <1>2 DEF LinksOf, AwaitOK, SockOK, NodesUsing
  <2>4. ASSUME NEW k \in Slot  PROVE SlotOK(e, k)'
    <3>1. CASE conn'[e][k] = conn[e][k]
      <4>1. ASSUME NEW j \in Slot, conn[e][k].sock # NoSock, conn'[e][j].sock = conn[e][k].sock
            PROVE  conn[e][j].sock = conn[e][k].sock
        BY <1>5, <1>6, <4>1
      <4>. QED  BY <1>1, <1>2, <2>1, <3>1, <4>1 DEF LinksOf, SlotOK
    <3>2. CASE /\ e = d /\ conn'[d][k].sock = c /\ conn'[d][k].outbound = FALSE
               /\ \A j \in Slot : j # k => conn'[d][j] = conn[d][j]
      <4>1. \A j \in Slot : conn'[e][j].sock = c => j = k
        BY <1>6, <3>2
      <4>2. sock[c].state # "down" \/ CloseComing(d, c)'
        BY <1>4, <2>1, <3>2 DEF CloseComing, Has
      <4>. QED  BY <1>2, <1>3, <1>4, <3>2, <4>1, <4>2 DEF SlotOK
    <3>. QED  BY <1>5, <3>1, <3>2
  <2>5. ASSUME NEW s \in SockId  PROVE Boxed(e, s)'
    <3>1. Boxed(e, s)
      BY <1>1 DEF LinksOf
    <3>2. CASE e = d /\ s = c
      BY <1>2, <1>3, <3>1, <3>2 DEF Boxed
    <3>3. CASE ~(e = d /\ s = c)
      <4>1. ConnsOf(conn[e], s) = {} => ConnsOf(conn'[e], s) = {}
        BY <1>5, <3>3 DEF ConnsOf
      <4>2. inbox'[e][s] = inbox[e][s]
        BY <1>3, <3>3
      <4>. QED  BY <1>2, <3>1, <4>1, <4>2 DEF Boxed, UpOrClosing
    <3>. QED  BY <3>2, <3>3
  <2>. QED  BY <2>2, <2>3, <2>4, <2>5 DEF LinksOf
<1>8. Len(sock') <= MaxSock /\ Elsewhere'
  BY <1>1, <1>2 DEF Elsewhere
<1>. QED  BY <1>7, <1>8, LinkPartsNext

LEMMA CloseKeeps ==
  ASSUME TypeOK, LinkInv, NEW d \in Daemon, NEW c \in SockId, OnClose(d, c)
  PROVE  LinkInv'
<1> DEFINE using == NodesUsing(d, c)
<1>1. /\ Len(sock) <= MaxSock /\ Elsewhere /\ \A e \in Daemon : LinksOf(e)
      /\ DOMAIN sock \subseteq SockId /\ 0 \notin DOMAIN sock
  BY LinkParts, LinkTypes
<1>2. UNCHANGED sock /\ c # NoSock
  BY BoundAssumption DEF OnClose, SockId, NoSock
<1>3. /\ c \in DOMAIN sock
      /\ Has(inbox'[d][c], "CLOSE") => Has(inbox[d][c], "CLOSE")
      /\ ~Has(inbox'[d][c], "ACCEPT") /\ AcceptFirst(inbox'[d][c])
      /\ Has(inbox[d][c], "CLOSE")
      /\ \A e \in Daemon, s \in SockId : (e = d /\ s = c) \/ inbox'[e][s] = inbox[e][s]
  BY PoppedBox DEF OnClose
<1>4. sock[c].state = "down"
  BY <1>1, <1>3 DEF LinksOf, Boxed
<1>5. /\ \A e \in Daemon : e # d => node'[e] = node[e] /\ psend'[e] = psend[e] /\ conn'[e] = conn[e]
      /\ \A n \in Node : node'[d][n] = IF n \in using THEN Unlinked(node[d][n]) ELSE node[d][n]
      /\ psend'[d] = psend[d] \ Stranded(d, using) /\ conn'[d] = Freed(conn[d], c)
  BY LinkTypes DEF OnClose
<1>6. \A k \in Slot : \/ conn[d][k].sock = c /\ conn'[d][k].sock = NoSock
                      \/ conn[d][k].sock # c /\ conn'[d][k] = conn[d][k]
  BY <1>5 DEF Freed, ConnsOf, FreeConn
<1>7. \A n \in Node :
        \/ /\ n \in using /\ node[d][n].sock = c
           /\ node'[d][n].sock = NoSock /\ node'[d][n].connecting = FALSE
           /\ node'[d][n].peer = node[d][n].peer
        \/ n \notin using /\ node[d][n].sock # c /\ node'[d][n] = node[d][n]
  <2>1. ASSUME NEW n \in Node
        PROVE  LET r == Unlinked(node[d][n])
               IN  r.sock = NoSock /\ r.connecting = FALSE /\ r.peer = node[d][n].peer
    <3>1. node[d][n] \in NodeType
      BY LinkTypes
    <3>. QED  BY <3>1 DEF Unlinked, NodeType
  <2>2. ASSUME NEW n \in Node  PROVE n \in using <=> node[d][n].sock = c
    BY <1>1, <1>2 DEF LinksOf, NodeLinkOK, NodesUsing
  <2> HIDE DEF using
  <2>. QED  BY <1>5, <2>1, <2>2
<1> HIDE DEF using
<1>8. ASSUME NEW e \in Daemon  PROVE LinksOf(e)'
  <2>1. ASSUME NEW n \in Node  PROVE NodeLinkOK(e, n)'
    <3>1. NodeLinkOK(e, n)
      BY <1>1 DEF LinksOf
    <3>2. CASE e = d /\ n \in using
      BY <1>7, <3>2 DEF NodeLinkOK
    <3>3. CASE ~(e = d /\ n \in using)
      <4>1. node'[e][n] = node[e][n] /\ (e = d => node[e][n].sock # c)
        BY <1>5, <1>7, <3>3
      <4>. QED  BY <1>1, <1>2, <1>3, <3>1, <4>1 DEF NodeLinkOK, CloseComing
    <3>. QED  BY <3>2, <3>3
  <2>2. AwaitOK(e)'
    <3>1. \A p \in psend[e] : p.node \in Node
      BY LinkTypes DEF PendingSend
    <3>2. CASE e = d
      <4>1. \A p \in psend'[d] : p \in psend[d] /\ p.node \notin using
        BY <1>5 DEF Stranded
      <4>. QED  BY <1>1, <1>7, <3>1, <3>2, <4>1 DEF LinksOf, AwaitOK
    <3>3. CASE e # d
      BY <1>1, <1>5, <3>3 DEF LinksOf, AwaitOK
    <3>. QED  BY <3>2, <3>3
  <2>3. ASSUME NEW s \in DOMAIN sock'  PROVE SockOK(e, s)'
    <3>1. SockOK(e, s) /\ s # 0
      BY <1>1, <1>2 DEF LinksOf
    <3>2. CASE s = c
      BY <1>2, <1>4, <3>2 DEF SockOK
    <3>3. CASE s # c
      <4>1. NodesUsing(e, s) \subseteq NodesUsing(e, s)'
        BY <1>5, <1>7, <3>3 DEF NodesUsing
      <4>. QED  BY <1>2, <3>1, <4>1 DEF SockOK
    <3>. QED  BY <3>2, <3>3
  <2>4. ASSUME NEW k \in Slot  PROVE SlotOK(e, k)'
    <3>1. SlotOK(e, k)
      BY <1>1 DEF LinksOf
    <3>2. CASE e # d
      <4>1. conn'[e] = conn[e] /\ \A s \in SockId : inbox'[e][s] = inbox[e][s]
        BY <1>3, <1>5, <3>2
      <4>2. conn[e][k].sock # NoSock => conn[e][k].sock \in SockId
        BY <1>1, <3>1 DEF SlotOK
      <4>. QED  BY <1>2, <3>1, <4>1, <4>2 DEF SlotOK, CloseComing
    <3>3. CASE e = d
      <4>1. \A j \in Slot : conn'[d][j].sock # NoSock => conn'[d][j].sock = conn[d][j].sock
        BY <1>6
      <4>. QED  BY <1>1, <1>2, <1>3, <1>6, <3>1, <3>3, <4>1 DEF SlotOK, CloseComing
    <3>. QED  BY <3>2, <3>3
  <2>5. ASSUME NEW s \in SockId  PROVE Boxed(e, s)'
    <3>1. Boxed(e, s) /\ s # NoSock
      BY <1>1, BoundAssumption DEF LinksOf, SockId, NoSock
    <3>2. CASE e = d /\ s = c
      BY <1>2, <1>3, <3>1, <3>2 DEF Boxed
    <3>3. CASE ~(e = d /\ s = c)
      <4>1. ConnsOf(conn[e], s) = {} => ConnsOf(conn'[e], s) = {}
        BY <1>5, <1>6, <3>1 DEF ConnsOf
      <4>2. inbox'[e][s] = inbox[e][s]
        BY <1>3, <3>3
      <4>. QED  BY <1>2, <3>1, <4>1, <4>2 DEF Boxed, UpOrClosing
    <3>. QED  BY <3>2, <3>3
  <2>. QED  BY <2>1, <2>2, <2>3, <2>4, <2>5 DEF LinksOf
<1>9. Len(sock') <= MaxSock /\ Elsewhere'
  BY <1>1, <1>2, <1>5, <1>7 DEF Elsewhere
<1>. QED  BY <1>8, <1>9, LinkPartsNext

(* What the socket layer and a crash do to the end e has of socket c.      *)

EndOK(e, c) ==
    /\ AcceptFirst(inbox'[e][c])
    /\ Has(inbox'[e][c], "CLOSE") => sock'[c].state = "down"
    /\ Has(inbox'[e][c], "ACCEPT") =>
          sock[c].srv = e /\ ConnsOf(conn[e], c) = {} /\ sock'[c].state # "connecting"
    /\ sock'[c].state = "down" =>
          \/ Has(inbox'[e][c], "CLOSE")
          \/ /\ sock[c].cli # e /\ ConnsOf(conn[e], c) = {}
             /\ ~Has(inbox'[e][c], "ACCEPT")
Untouched(e, c) ==
    /\ inbox'[e][c] = inbox[e][c]
    /\ c \in DOMAIN sock =>
          sock'[c].state = sock[c].state \/ e \notin {sock[c].cli, sock[c].srv}
SocksMove ==
    /\ DOMAIN sock' = DOMAIN sock
    /\ \A c \in DOMAIN sock :
          /\ sock'[c].cli = sock[c].cli /\ sock'[c].srv = sock[c].srv
          /\ \/ sock'[c].state = sock[c].state
             \/ sock[c].state # "down" /\ sock'[c].state \in {"open", "down"}

LEMMA EndsKeep ==
  ASSUME TypeOK, LinkInv, SocksMove, NEW e \in Daemon,
         node'[e] = node[e], conn'[e] = conn[e], psend'[e] = psend[e],
         \A c \in SockId : Untouched(e, c) \/ (c \in DOMAIN sock /\ EndOK(e, c))
  PROVE  LinksOf(e)'
<1>1. LinksOf(e) /\ DOMAIN sock \subseteq SockId
  BY LinkParts, LinkTypes
<1>2. ASSUME NEW n \in Node  PROVE NodeLinkOK(e, n)'
  <2> DEFINE c == node[e][n].sock
  <2>1. NodeLinkOK(e, n)
    BY <1>1 DEF LinksOf
  <2>2. c # NoSock => sock'[c].state # "down" \/ CloseComing(e, c)'
    <3>1. SUFFICES ASSUME c # NoSock, sock'[c].state = "down"  PROVE Has(inbox'[e][c], "CLOSE")
      BY DEF CloseComing, Has
    <3>2. c \in DOMAIN sock /\ sock[c].cli = e /\ c \in SockId
      BY <1>1, <2>1, <3>1 DEF NodeLinkOK
    <3>. QED  BY <2>1, <3>1, <3>2 DEF NodeLinkOK, CloseComing, Has, Untouched, EndOK
  <2>. QED  BY <2>1, <2>2 DEF NodeLinkOK, SocksMove
<1>3. AwaitOK(e)'
  BY <1>1 DEF LinksOf, AwaitOK
<1>4. ASSUME NEW c \in DOMAIN sock'  PROVE SockOK(e, c)'
  BY <1>1 DEF LinksOf, SockOK, SocksMove, NodesUsing
<1>5. ASSUME NEW k \in Slot  PROVE SlotOK(e, k)'
  <2> DEFINE c == conn[e][k].sock
  <2>1. SlotOK(e, k)
    BY <1>1 DEF LinksOf
  <2>2. SUFFICES ASSUME c # NoSock
                 PROVE  /\ sock'[c].state # "down" \/ Has(inbox'[e][c], "CLOSE")
                        /\ ~conn[e][k].outbound => sock'[c].state # "connecting"
    BY <2>1 DEF SlotOK, SocksMove, CloseComing, Has
  <2>3. /\ c \in DOMAIN sock /\ c \in SockId
        /\ conn[e][k].outbound => sock[c].cli = e
        /\ ~conn[e][k].outbound => sock[c].srv = e /\ sock[c].state # "connecting"
        /\ sock[c].state # "down" \/ Has(inbox[e][c], "CLOSE")
        /\ ConnsOf(conn[e], c) # {}
    BY <1>1, <2>1, <2>2 DEF SlotOK, CloseComing, Has, ConnsOf
  <2>4. conn[e][k].outbound \in BOOLEAN
    <3>1. conn[e][k] \in ConnType
      BY LinkTypes
    <3>. QED  BY <3>1 DEF ConnType
  <2>. QED  BY <2>3, <2>4 DEF SocksMove, Untouched, EndOK
<1>6. ASSUME NEW c \in SockId  PROVE Boxed(e, c)'
  <2>1. Boxed(e, c)
    BY <1>1 DEF LinksOf
  <2>2. CASE Untouched(e, c)
    BY <2>1, <2>2 DEF Boxed, Untouched, SocksMove, UpOrClosing
  <2>3. CASE c \in DOMAIN sock /\ EndOK(e, c)
    BY <2>3 DEF Boxed, EndOK, SocksMove, UpOrClosing
  <2>. QED  BY <2>2, <2>3
<1>. QED  BY <1>2, <1>3, <1>4, <1>5, <1>6 DEF LinksOf

LEMMA TcpKeeps ==
  ASSUME TypeOK, LinkInv, NEW c \in SockId, Tcp(c)  PROVE LinkInv'
<1>1. /\ Len(sock) <= MaxSock /\ Elsewhere /\ \A e \in Daemon : LinksOf(e)
      /\ DOMAIN sock \subseteq SockId /\ c \in DOMAIN sock
  BY LinkParts, LinkTypes, BoundAssumption DEF Tcp, TcpConnected, TcpRefused, TcpReset, SockIs, SockId
<1> DEFINE cli == sock[c].cli
           srv == sock[c].srv
<1>2. /\ cli \in Daemon /\ srv \in Daemon /\ cli # srv /\ sock[c].state # "down"
      /\ Boxed(cli, c) /\ Boxed(srv, c)
      /\ inbox[cli][c] \in Seq(SocketEvents) /\ inbox[srv][c] \in Seq(SocketEvents)
  BY SMTT(20), <1>1, LinkTypes
     DEF Tcp, TcpConnected, TcpRefused, TcpReset, SockIs, Elsewhere, LinksOf, InboxType
<1>3. UNCHANGED <<node, conn, psend>>
  BY DEF Tcp, TcpConnected, TcpRefused, TcpReset, daemonVars
<1>4. ASSUME NEW st \in {"open", "down"}, sock' = [sock EXCEPT ![c].state = st]
      PROVE  /\ SocksMove /\ Len(sock') = Len(sock) /\ sock'[c].state = st
             /\ \A s \in DOMAIN sock : s # c => sock'[s] = sock[s]
  <2>1. sock[c] \in [state: {"connecting", "open", "down"}, cli: Daemon, srv: Daemon]
    BY <1>1, LinkTypes, ElementOfSeq
  <2>2. /\ DOMAIN sock' = DOMAIN sock /\ sock'[c] = [sock[c] EXCEPT !.state = st]
        /\ \A s \in DOMAIN sock : s # c => sock'[s] = sock[s]
    BY <1>1, <1>4
  <2>3. sock'[c].state = st /\ sock'[c].cli = cli /\ sock'[c].srv = srv
    BY <2>1, <2>2
  <2>4. Len(sock') = Len(sock)
    BY <1>1, <1>4, LinkTypes
  <2>. QED  BY <1>2, <2>2, <2>3, <2>4 DEF SocksMove
<1>5. ASSUME NEW x, NEW y, inbox' = Delivered(c, x, y)
      PROVE  /\ inbox'[cli][c] = x /\ inbox'[srv][c] = y
             /\ \A e \in Daemon, s \in SockId :
                   (s = c /\ e \in {cli, srv}) \/ inbox'[e][s] = inbox[e][s]
  BY <1>2, <1>5, LinkTypes DEF InboxType, Delivered
<1>6. sock[c].state = "connecting" =>
        ConnsOf(conn[srv], c) = {} /\ ~Has(inbox[srv][c], "ACCEPT") /\ ~Has(inbox[cli][c], "ACCEPT")
  <2>1. SUFFICES ASSUME sock[c].state = "connecting"
                 PROVE  ConnsOf(conn[srv], c) = {}
    BY <1>2 DEF Boxed
  <2>2. ASSUME NEW k \in Slot, conn[srv][k].sock = c  PROVE FALSE
    <3>1. SlotOK(srv, k) /\ c # NoSock
      BY <1>1, <1>2, BoundAssumption DEF LinksOf, SockId, NoSock
    <3>2. conn[srv][k].outbound \in BOOLEAN
      <4>1. conn[srv][k] \in ConnType
        BY <1>2, LinkTypes
      <4>. QED  BY <4>1 DEF ConnType
    <3>. QED  BY <1>2, <2>1, <2>2, <3>1, <3>2 DEF SlotOK
  <2>. QED  BY <2>2 DEF ConnsOf
<1>7. ~Has(inbox[cli][c], "ACCEPT") /\ ~Has(inbox[cli][c], "CLOSE") /\ ~Has(inbox[srv][c], "CLOSE")
  BY <1>2 DEF Boxed
<1>8. /\ SocksMove /\ Len(sock') = Len(sock)
      /\ \A s \in DOMAIN sock : s # c => sock'[s] = sock[s]
      /\ EndOK(cli, c) /\ EndOK(srv, c)
      /\ \A e \in Daemon, s \in SockId :
            (s = c /\ e \in {cli, srv}) \/ inbox'[e][s] = inbox[e][s]
  <2>1. CASE TcpConnected(c)
    <3> DEFINE x == Append(inbox[cli][c], [type |-> "CONNECT"])
               y == <<[type |-> "ACCEPT"]>> \o inbox[srv][c]
    <3>1. /\ sock[c].state = "connecting" /\ sock' = [sock EXCEPT ![c].state = "open"]
          /\ inbox' = Delivered(c, x, y)
      BY <2>1 DEF TcpConnected, SockIs, ToCli, ToSrv
    <3>2. [type |-> "CONNECT"] \in SocketEvents
      BY DEF SocketEvents, ControlEvent
    <3>3. ~Has(x, "ACCEPT") /\ ~Has(x, "CLOSE") /\ AcceptFirst(x)
      <4>1. /\ DOMAIN x = 1 .. Len(inbox[cli][c]) + 1 /\ DOMAIN inbox[cli][c] = 1 .. Len(inbox[cli][c])
            /\ \A i \in 1 .. Len(inbox[cli][c]) : x[i] = inbox[cli][c][i]
            /\ x[Len(inbox[cli][c]) + 1] = [type |-> "CONNECT"] /\ Len(inbox[cli][c]) \in Nat
        BY SMTT(20), <1>2, <3>2, AppendProperties
      <4> HIDE DEF x, cli
      <4>2. \A i \in DOMAIN x : \/ i \in DOMAIN inbox[cli][c] /\ x[i] = inbox[cli][c][i]
                                \/ x[i] = [type |-> "CONNECT"]
        BY <4>1
      <4>. QED  BY <1>7, <4>2 DEF Has, AcceptFirst
    <3>4. AcceptFirst(y) /\ ~Has(y, "CLOSE")
      BY <1>2, <1>6, <1>7, <3>1, AcceptedBox
    <3> HIDE DEF x, y
    <3>5. inbox'[cli][c] = x /\ inbox'[srv][c] = y /\ sock'[c].state = "open"
      BY <1>4, <1>5, <3>1
    <3>6. EndOK(cli, c) /\ EndOK(srv, c)
      BY <1>6, <3>1, <3>3, <3>4, <3>5 DEF EndOK
    <3>. QED  BY <1>4, <1>5, <3>1, <3>6
  <2>2. CASE TcpRefused(c)
    <3> DEFINE x == Append(inbox[cli][c], Close)
    <3>1. /\ sock[c].state = "connecting" /\ sock' = [sock EXCEPT ![c].state = "down"]
          /\ inbox' = Delivered(c, x, <<>>)
      BY <2>2 DEF TcpRefused, SockIs, ToCli
    <3>2. Has(x, "CLOSE") /\ ~Has(x, "ACCEPT") /\ AcceptFirst(x)
      BY <1>2, <1>7, ClosedBox DEF Boxed
    <3>3. ~Has(<<>>, "CLOSE") /\ ~Has(<<>>, "ACCEPT") /\ AcceptFirst(<<>>)
      BY DEF Has, AcceptFirst
    <3> HIDE DEF x
    <3>4. inbox'[cli][c] = x /\ inbox'[srv][c] = <<>> /\ sock'[c].state = "down"
      BY <1>4, <1>5, <3>1
    <3>5. EndOK(cli, c) /\ EndOK(srv, c)
      BY <1>2, <1>6, <3>1, <3>2, <3>3, <3>4 DEF EndOK
    <3>. QED  BY <1>4, <1>5, <3>1, <3>5
  <2>3. CASE TcpReset(c)
    <3>1. PICK i \in HeadEvents(ToCli(c)) .. Len(ToCli(c)),
               j \in HeadEvents(ToSrv(c)) .. Len(ToSrv(c)) :
            inbox' = Delivered(c, Cut(ToCli(c), i), Cut(ToSrv(c), j))
      BY <2>3 DEF TcpReset
    <3>2. /\ sock[c].state = "open" /\ sock' = [sock EXCEPT ![c].state = "down"]
          /\ inbox' = Delivered(c, Cut(inbox[cli][c], i), Cut(inbox[srv][c], j))
      BY <2>3, <3>1 DEF TcpReset, SockIs, ToCli, ToSrv
    <3>3. i \in 0 .. Len(inbox[cli][c]) /\ j \in 0 .. Len(inbox[srv][c])
      BY <1>2 DEF HeadEvents, ToCli, ToSrv
    <3>4. ASSUME NEW q \in Seq(SocketEvents), NEW n \in 0 .. Len(q), AcceptFirst(q)
          PROVE  /\ Has(Cut(q, n), "CLOSE") /\ AcceptFirst(Cut(q, n))
                 /\ Has(Cut(q, n), "ACCEPT") => Has(q, "ACCEPT")
      BY <3>4, SubBox, ClosedBox DEF Cut
    <3>5. inbox'[cli][c] = Cut(inbox[cli][c], i) /\ inbox'[srv][c] = Cut(inbox[srv][c], j)
          /\ sock'[c].state = "down"
      BY <1>4, <1>5, <3>2
    <3>6. EndOK(cli, c)
      BY <1>2, <1>7, <3>3, <3>4, <3>5 DEF EndOK, Boxed
    <3>7. EndOK(srv, c)
      BY <1>2, <3>3, <3>4, <3>5 DEF EndOK, Boxed
    <3>. QED  BY <1>4, <1>5, <3>2, <3>6, <3>7
  <2>. QED  BY <2>1, <2>2, <2>3 DEF Tcp
<1>9. ASSUME NEW e \in Daemon  PROVE LinksOf(e)'
  <2>1. \A s \in SockId : Untouched(e, s) \/ (s \in DOMAIN sock /\ EndOK(e, s))
    BY <1>1, <1>8 DEF Untouched
  <2>. QED  BY <1>3, <1>8, <2>1, EndsKeep
<1>10. Len(sock') <= MaxSock /\ Elsewhere'
  BY <1>1, <1>3, <1>8 DEF Elsewhere, SocksMove
<1>. QED  BY <1>9, <1>10, LinkPartsNext

LEMMA CrashKeeps ==
  ASSUME TypeOK, LinkInv, NEW d \in Daemon, Crash(d)  PROVE LinkInv'
<1> DEFINE mine  == {c \in DOMAIN sock : sock[c].cli = d \/ sock[c].srv = d}
           ended == {c \in mine : \/ sock[c].state = "open"
                                  \/ sock[c].state = "connecting" /\ sock[c].cli = d}
<1>1. /\ Len(sock) <= MaxSock /\ Elsewhere /\ \A e \in Daemon : LinksOf(e)
      /\ DOMAIN sock \subseteq SockId /\ DOMAIN sock = 1 .. Len(sock) /\ Len(sock) \in Nat
  BY LinkParts, LinkTypes
<1>2. /\ \A e \in Daemon : e # d => node'[e] = node[e] /\ conn'[e] = conn[e] /\ psend'[e] = psend[e]
      /\ \A n \in Node : node'[d][n] = UnusedNode
      /\ \A k \in Slot : conn'[d][k] = FreeConn
      /\ psend'[d] = {}
  BY LinkTypes DEF Crash
<1>3. \A e \in Daemon, c \in SockId :
        inbox'[e][c] = CASE e = d -> <<>>
                         [] e # d /\ c \in ended /\ sock[c].state = "open" /\ e = Peer(d, c) ->
                                Append(inbox[e][c], Close)
                         [] e # d /\ c \in ended /\ sock[c].state = "connecting" -> <<>>
                         [] OTHER -> inbox[e][c]
  BY DEF Crash
<1>4. /\ \A c \in DOMAIN sock :
           sock'[c] = IF c \in ended THEN [sock[c] EXCEPT !.state = "down"] ELSE sock[c]
      /\ DOMAIN sock' = DOMAIN sock
  BY DEF Crash
<1>5. Len(sock') = Len(sock)
  <2>1. sock' \in Seq([state: {"connecting", "open", "down"}, cli: Daemon, srv: Daemon])
    <3>1. TypeOK'
      BY CrashType
    <3>. QED  BY <3>1 DEF TypeOK, NetworkTypeOK
  <2>2. DOMAIN sock' = 1 .. Len(sock') /\ Len(sock') \in Nat
    BY <2>1
  <2>. QED  BY <1>1, <1>4, <2>2
<1>6. \A c \in DOMAIN sock :
        /\ sock'[c].cli = sock[c].cli /\ sock'[c].srv = sock[c].srv
        /\ c \in ended => sock'[c].state = "down" /\ sock[c].state # "down"
        /\ c \notin ended => sock'[c].state = sock[c].state
  <2>1. ASSUME NEW c \in DOMAIN sock
        PROVE  LET s == [sock[c] EXCEPT !.state = "down"]
               IN  s.cli = sock[c].cli /\ s.srv = sock[c].srv /\ s.state = "down"
    <3>1. sock[c] \in [state: {"connecting", "open", "down"}, cli: Daemon, srv: Daemon]
      BY <1>1, LinkTypes, ElementOfSeq
    <3>. QED  BY <3>1
  <2>2. \A c \in ended : sock[c].state # "down"
    OBVIOUS
  <2> HIDE DEF ended
  <2>. QED  BY <1>4, <2>1, <2>2
<1>7. \A c \in ended :
        /\ c \in DOMAIN sock /\ d \in {sock[c].cli, sock[c].srv}
        /\ sock[c].state = "open" \/ (sock[c].state = "connecting" /\ sock[c].cli = d)
  OBVIOUS
<1>8. \A c \in DOMAIN sock : sock[c].cli = d => c \in ended \/ sock[c].state = "down"
  BY LinkTypes
<1> HIDE DEF ended, mine
<1>9. SocksMove
  BY <1>4, <1>6 DEF SocksMove
<1>10. LinksOf(d)'
  <2>1. \A n \in Node : NodeLinkOK(d, n)'
    BY <1>2 DEF NodeLinkOK, UnusedNode
  <2>2. AwaitOK(d)'
    BY <1>2 DEF AwaitOK
  <2>3. \A c \in DOMAIN sock' : SockOK(d, c)'
    BY <1>4, <1>6, <1>8 DEF SockOK
  <2>4. \A k \in Slot : SlotOK(d, k)'
    BY <1>2 DEF SlotOK, FreeConn
  <2>5. \A c \in SockId : Boxed(d, c)'
    BY <1>3 DEF Boxed, Has, AcceptFirst
  <2>. QED  BY <2>1, <2>2, <2>3, <2>4, <2>5 DEF LinksOf
<1>11. ASSUME NEW e \in Daemon, e # d  PROVE LinksOf(e)'
  <2>1. ASSUME NEW c \in SockId
        PROVE  Untouched(e, c) \/ (c \in DOMAIN sock /\ EndOK(e, c))
    <3>1. Boxed(e, c) /\ inbox[e][c] \in Seq(SocketEvents)
      BY <1>1, LinkTypes DEF LinksOf, InboxType
    <3>2. CASE c \notin ended
      BY <1>3, <1>6, <1>11, <3>2 DEF Untouched
    <3>3. CASE c \in ended /\ sock[c].state = "open" /\ e # Peer(d, c)
      <4>1. inbox'[e][c] = inbox[e][c]
        BY <1>3, <1>11, <3>3
      <4>2. e \notin {sock[c].cli, sock[c].srv}
        BY <1>7, <1>11, <3>3 DEF Peer
      <4>. QED  BY <4>1, <4>2 DEF Untouched
    <3>4. CASE c \in ended /\ sock[c].state = "open" /\ e = Peer(d, c)
      <4>1. inbox'[e][c] = Append(inbox[e][c], Close)
        BY <1>3, <1>11, <3>4
      <4>2. c \in DOMAIN sock /\ sock'[c].state = "down"
        BY <1>6, <1>7, <3>4
      <4>. QED  BY <3>1, <4>1, <4>2, ClosedBox DEF EndOK, Boxed
    <3>5. CASE c \in ended /\ sock[c].state = "connecting"
      <4>1. inbox'[e][c] = <<>>
        BY <1>3, <1>11, <3>5
      <4>2. c \in DOMAIN sock /\ sock'[c].state = "down" /\ sock[c].cli = d
        BY <1>6, <1>7, <3>5
      <4>3. ASSUME NEW k \in Slot, conn[e][k].sock = c  PROVE FALSE
        <5>1. SlotOK(e, k) /\ c # NoSock
          BY <1>1, BoundAssumption DEF LinksOf, SockId, NoSock
        <5>2. conn[e][k].outbound \in BOOLEAN
          <6>1. conn[e][k] \in ConnType
            BY LinkTypes
          <6>. QED  BY <6>1 DEF ConnType
        <5>. QED  BY <1>11, <3>5, <4>2, <4>3, <5>1, <5>2 DEF SlotOK
      <4>4. ConnsOf(conn[e], c) = {}
        BY <4>3 DEF ConnsOf
      <4>. QED  BY <1>11, <4>1, <4>2, <4>4 DEF EndOK, Has, AcceptFirst
    <3>. QED  BY <1>7, <3>2, <3>3, <3>4, <3>5
  <2>. QED  BY <1>2, <1>9, <1>11, <2>1, EndsKeep
<1>12. Len(sock') <= MaxSock /\ Elsewhere'
  <2>1. UnusedNode.peer # d
    BY HandleAssumption DEF UnusedNode
  <2>. QED  BY <1>1, <1>2, <1>4, <1>5, <1>6, <2>1 DEF Elsewhere
<1>. QED  BY <1>10, <1>11, <1>12, LinkPartsNext

LEMMA LinkInit == Init => LinkInv
<1> SUFFICES ASSUME Init  PROVE LinkInv
  OBVIOUS
<1>1. /\ \A d \in Daemon, n \in Node : node[d][n] = UnusedNode
      /\ \A d \in Daemon : \A k \in Slot : conn[d][k] = FreeConn
      /\ \A d \in Daemon : psend[d] = {}
      /\ \A d \in Daemon, c \in SockId : inbox[d][c] = <<>>
      /\ sock = <<>> /\ DOMAIN sock = {} /\ Len(sock) = 0
  BY DEF Init
<1>2. Len(sock) <= MaxSock
  BY <1>1, BoundAssumption
<1>3. Elsewhere
  BY <1>1, HandleAssumption DEF Elsewhere, UnusedNode
<1>4. ASSUME NEW d \in Daemon  PROVE LinksOf(d)
  BY <1>1 DEF LinksOf, NodeLinkOK, UnusedNode, AwaitOK, SlotOK, FreeConn, Boxed, Has, AcceptFirst
<1>. QED  BY <1>2, <1>3, <1>4, LinkParts

LEMMA LinkStep == TypeOK /\ LinkInv /\ [Next]_vars => LinkInv'
<1> SUFFICES ASSUME TypeOK, LinkInv, [Next]_vars  PROVE LinkInv'
  OBVIOUS
<1>1. LinkMove
  BY LinkMoves DEF LinkInv
<1>. QED  BY <1>1, StayKeeps, OpenKeeps, AcceptKeeps, CloseKeeps, TcpKeeps, CrashKeeps DEF LinkMove

LEMMA LinkInvariant == Spec => []LinkInv
<1>1. LinkInv /\ TypeOK /\ [Next]_vars => LinkInv'
  BY LinkStep
<1>. QED  BY <1>1, LinkInit, TypeCorrect, PTL DEF Spec

(* No call hangs for want of a link: a request that awaits its answer      *)
(* belongs to a node whose socket is alive, or whose end is still to be    *)
(* reported and will fail the request.                                     *)
THEOREM CallsHaveLinks == Spec => []NoOrphanedCall
<1>1. LinkInv => NoOrphanedCall
  BY DEF LinkInv
<1>. QED  BY <1>1, LinkInvariant, PTL

(* No outbound socket stays open without a node that uses it, no slot of   *)
(* conns[] outlives its socket and no two slots have the same one.         *)
THEOREM ConnectionsAreFreed == Spec => []NoLeakedConnection
<1>1. LinkInv => NoLeakedConnection
  BY DEF LinkInv
<1>. QED  BY <1>1, LinkInvariant, PTL
=============================================================================

------------------------------ MODULE Clusterd ------------------------------
(***************************************************************************)
(* The cluster daemon of SkyJS (service-src/skyclusterd.c): one instance   *)
(* per process, each a single-threaded service of the actor kernel that    *)
(* handles one message of its mailbox at a time.  A daemon sends the       *)
(* requests of its own process's services to remote daemons over sockets   *)
(* it opens (outbound connections carry requests out and responses back)   *)
(* and serves the requests that arrive on sockets it accepts.              *)
(*                                                                         *)
(* Every handler of clusterd_cb is one action.  The socket layer and the   *)
(* local services are external: they are the actions Tcp..., Local... and  *)
(* ServiceExit.  A socket event reaches its owner in the order the socket  *)
(* produced it; events of different sockets, commands and local replies    *)
(* may be interleaved in any way.                                          *)
(*                                                                         *)
(* Abstractions.  A DATA event is one whole frame (the byte stream is cut  *)
(* by conn_data).  A body is a sequence of 32 KiB chunks, and a chunk is   *)
(* <<call, index>>, so that a body says whose it is and whether it is      *)
(* whole.  A daemon never connects to itself.  A slot of nodes[] is never  *)
(* freed and is identified by its name; psend[] and precv[] are the sets   *)
(* of their used entries (no index into them is ever kept); an index into  *)
(* conns[] is kept, so conns[] stays an array.                             *)
(***************************************************************************)
EXTENDS Integers, Sequences, FiniteSets

CONSTANTS
    Daemon,        \* the processes, each with its cluster daemon
    Node,          \* names under which remote daemons are configured
    Name,          \* names under which services are registered
    Service,       \* handles of local services
    LetterService, \* the handles whose hexadecimal form starts with a letter
    Mortal,        \* the services that may exit
    Call,          \* the requests and pushes the JS side issues
    Query,         \* the address 0 of a name query
    NoPort,        \* a node declared with port 0
    Workload,      \* what each call is: see WorkloadAssumption
    NodeCmd,       \* the "node" commands that may be issued
    Registration,  \* the "register" commands that may be issued
    MaxConn, MaxNode, MaxName, MaxPending,  \* sizes of the daemon's tables
    MaxSession,    \* the last session number before send_session wraps to 1
    MaxSock,       \* bound: sockets ever opened; then socket_connect fails
    MaxFault,      \* bound: connections the network breaks or refuses
    MaxCrash,      \* bound: process crashes
    Parts          \* chunks of a large body

NoSock == 0
NoHandle == 0
SockId == 1 .. MaxSock
Slot == 1 .. MaxConn

(***************************************************************************)
(* A call is issued at daemon "at" for the node "node"; it is addressed to *)
(* a service by handle, to a name, or is a query of the name "asks"; its   *)
(* request body and its reply may be large.                                *)
(***************************************************************************)
ASSUME WorkloadAssumption ==
    Workload \in [Call -> [at: Daemon, node: Node,
                           addr: Name \cup Service \cup {Query}, asks: Name,
                           push: BOOLEAN, large: BOOLEAN,
                           largeReply: BOOLEAN]]
ASSUME CommandAssumption ==
    /\ NodeCmd \subseteq [at: Daemon, name: Node, peer: Daemon \cup {NoPort}]
    /\ \A m \in NodeCmd : m.peer # m.at
    /\ Registration \subseteq [at: Daemon, name: Name, handle: Service]
ASSUME BoundAssumption ==
    /\ {MaxConn, MaxNode, MaxName, MaxPending} \subseteq Nat
    /\ {MaxSock, MaxFault, MaxCrash} \subseteq Nat
    /\ MaxSession \in Nat \ {0}
    /\ Parts \in Nat \ {0}
ASSUME HandleAssumption ==
    /\ LetterService \subseteq Service
    /\ Mortal \subseteq Service
    /\ NoHandle \notin Service
    /\ NoPort \notin Daemon
    /\ Query \notin Name \cup Service
    /\ Service \cap Name = {}

VARIABLES
    node,        \* node[d][n]: the entry of nodes[] named n
    conn,        \* conn[d][k]: slot k of conns[]
    psend,       \* psend[d]: requests sent to remote nodes, unanswered
    precv,       \* precv[d]: requests forwarded to local services, unanswered
    names,       \* names[d]: the registered names, oldest first
    sendSession, \* sendSession[d]: last session used towards remote nodes
    newSession,  \* newSession[d]: last session used towards local services
    listening,   \* the daemons that listen
    sock,        \* sock[c]: socket c of the socket layer
    inbox,       \* inbox[d][c]: events of socket c not yet handled by d
    alive,       \* alive[d]: the live services of d's process
    work,        \* work[d]: requests the local services still hold
    issued,      \* the calls issued so far, oldest first
    answers,     \* answers[c]: the messages the caller of c was sent back
    served,      \* served[d]: what d handed to its local services, in order
    faults, crashes

daemonVars == <<node, conn, psend, precv, names, sendSession, newSession>>
historyVars == <<issued, answers, served>>
networkVars == <<sock, inbox, listening, faults, crashes>>
vars == <<daemonVars, networkVars, historyVars, alive, work>>
-----------------------------------------------------------------------------
(* Bodies and frames.                                                      *)

Body(c) == [i \in 1 .. (IF Workload[c].large THEN Parts ELSE 1) |-> <<c, i>>]
Reply(c) == [i \in 1 .. (IF Workload[c].largeReply THEN Parts ELSE 1) |-> <<c, i>>]

\* The address as it crosses to the remote daemon: cluster.js writes a handle
\* in hexadecimal, and handle_command takes whatever does not start with a
\* digit for a name.
WireAddr(c) ==
    LET a == Workload[c].addr
    IN  [byName |-> a \in Name \cup LetterService, to |-> a]

SmallFrame(c, s) ==
    <<[type |-> "SMALL", addr |-> WireAddr(c),
       session |-> IF Workload[c].push THEN 0 ELSE s, body |-> Body(c)]>>
\* BUG: every chunk closes the body.
Chunks_AllEnd(s, body) ==
    [i \in 1 .. Len(body) |-> [type |-> "PART_END", session |-> s, body |-> <<body[i]>>]]
Chunks(s, body) ==
    [i \in 1 .. Len(body) |->
        [type |-> IF i = Len(body) THEN "PART_END" ELSE "PART",
         session |-> s, body |-> <<body[i]>>]]
\* The header of a push has session 0, its chunks have the real one.
LargeFrames(c, s) ==
    <<[type |-> "LARGE", addr |-> WireAddr(c),
       session |-> IF Workload[c].push THEN 0 ELSE s,
       push |-> Workload[c].push, total |-> Len(Body(c))]>>
    \o Chunks(s, Body(c))

\* BUG: a small request falls through to the large path.
RequestFrames_FallThrough(c, s) ==
    IF Workload[c].large THEN LargeFrames(c, s) ELSE SmallFrame(c, s) \o LargeFrames(c, s)
RequestFrames(c, s) ==
    IF Workload[c].large THEN LargeFrames(c, s) ELSE SmallFrame(c, s)

ResponseFrames(s, ok, body) ==
    IF Len(body) <= 1
    THEN <<[type |-> IF ok THEN "OK" ELSE "ERR", session |-> s, body |-> body]>>
    ELSE <<[type |-> "MULTI_BEGIN", session |-> s, total |-> Len(body)]>>
         \o [i \in 1 .. Len(body) |->
               [type |-> IF i = Len(body) THEN "MULTI_END" ELSE "MULTI_PART",
                session |-> s, body |-> <<body[i]>>]]

(* In-progress reassembly of a large body (struct reasm, with the metadata *)
(* a request header leaves beside it).                                     *)
NoBody == [active |-> FALSE]
OpenBody(s, total, addr, push) ==
    [active |-> TRUE, session |-> s, total |-> total, got |-> <<>>,
     addr |-> addr, push |-> push]
Accepts(r, s) == r.active /\ r.session = s /\ Len(r.got) < r.total
WithChunk(r, body) == [r EXCEPT !.got = @ \o body]

(* The tables.                                                             *)
FreeConn == [sock |-> NoSock, outbound |-> FALSE, ready |-> FALSE,
             rq |-> NoBody, rs |-> NoBody]
OutboundConn(c) == [FreeConn EXCEPT !.sock = c, !.outbound = TRUE]
InboundConn(c) == [FreeConn EXCEPT !.sock = c, !.ready = TRUE]

ConnsOf(table, c) == {k \in Slot : table[k].sock = c}
\* conn_alloc: the lowest free slot takes the connection; a full table keeps
\* what it has.
Allocated(table, rec) ==
    LET free == ConnsOf(table, NoSock)
    IN  IF free = {} THEN table
        ELSE [table EXCEPT ![CHOOSE k \in free : \A j \in free : k <= j] = rec]

\* BUG: conn_close leaves the slot in use.
Freed_Not(table, c) == table
Freed(table, c) ==
    [k \in Slot |-> IF k \in ConnsOf(table, c) THEN FreeConn ELSE table[k]]

UnusedNode == [used |-> FALSE, peer |-> NoPort, sock |-> NoSock,
               connecting |-> FALSE, queue |-> <<>>]
NodesUsing(d, c) == {n \in Node : node[d][n].used /\ node[d][n].sock = c}

Lookup(d, name) ==
    LET at == {i \in DOMAIN names[d] : names[d][i].name = name}
    IN  IF at = {} THEN NoHandle
        ELSE names[d][CHOOSE i \in at : \A j \in at : i <= j].handle

NextSession(s) == IF s < MaxSession THEN s + 1 ELSE 1

\* skynet_socket_send by d on socket c: the frames follow what the peer has
\* yet to read; a socket that is down loses them.
Peer(d, c) == IF sock[c].cli = d THEN sock[c].srv ELSE sock[c].cli
Written(box, d, c, frames) ==
    IF sock[c].state = "down" THEN box
    ELSE [box EXCEPT ![Peer(d, c)][c] = @ \o frames]

Answered(calls, a) ==
    [c \in Call |-> IF c \in calls THEN Append(answers[c], a) ELSE answers[c]]
ErrorAnswer == [type |-> "ERROR", body |-> <<>>]
ResponseAnswer(body) == [type |-> "RESPONSE", body |-> body]
-----------------------------------------------------------------------------
Init ==
    /\ node = [d \in Daemon |-> [n \in Node |-> UnusedNode]]
    /\ conn = [d \in Daemon |-> [k \in Slot |-> FreeConn]]
    /\ psend = [d \in Daemon |-> {}]
    /\ precv = [d \in Daemon |-> {}]
    /\ names = [d \in Daemon |-> <<>>]
    /\ sendSession = [d \in Daemon |-> 0]
    /\ newSession = [d \in Daemon |-> 0]
    /\ listening = {}
    /\ sock = <<>>
    /\ inbox = [d \in Daemon |-> [c \in SockId |-> <<>>]]
    /\ alive = [d \in Daemon |-> Service]
    /\ work = [d \in Daemon |-> {}]
    /\ issued = <<>>
    /\ answers = [c \in Call |-> <<>>]
    /\ served = [d \in Daemon |-> <<>>]
    /\ faults = 0
    /\ crashes = 0
-----------------------------------------------------------------------------
(* Commands of the local JS services (handle_command).                     *)

CmdListen(d) ==
    /\ listening' = listening \cup {d}
    /\ UNCHANGED <<daemonVars, historyVars, sock, inbox, faults, crashes, alive, work>>

\* register: the first free entry of names[] takes the name; a full table
\* ignores the command, an entry of the same name is left where it is.
CmdRegister(r) ==
    /\ Len(names[r.at]) < MaxName
    /\ r.handle \in alive[r.at]
    /\ names' = [names EXCEPT ![r.at] =
                    Append(@, [name |-> r.name, handle |-> r.handle])]
    /\ UNCHANGED <<node, conn, psend, precv, sendSession, newSession,
                   networkVars, historyVars, alive, work>>

\* node_connect: a node with a socket or an attempt in flight is left alone;
\* otherwise ONE attempt, which fails at once without a port or a socket.
Linked(r) == r.sock # NoSock \/ r.connecting
CanConnect(r) == r.peer # NoPort /\ Len(sock) < MaxSock
\* BUG: the socket closed, and -1 went where a socket number is kept.
Unlinked_Minus(r) == [r EXCEPT !.sock = -1, !.connecting = FALSE, !.queue = <<>>]
Unlinked(r) == [r EXCEPT !.sock = NoSock, !.connecting = FALSE, !.queue = <<>>]
Connecting(r) == [r EXCEPT !.sock = Len(sock) + 1, !.connecting = TRUE]
OpenSocket(d, r) ==
    /\ sock' = Append(sock, [state |-> "connecting", cli |-> d, srv |-> r.peer])
    /\ conn' = [conn EXCEPT ![d] = Allocated(@, OutboundConn(Len(sock) + 1))]

CmdNode(m) ==
    LET d == m.at
        r == [node[d][m.name] EXCEPT !.used = TRUE, !.peer = m.peer]
    IN  /\ \/ node[d][m.name].used
           \/ Cardinality({n \in Node : node[d][n].used}) < MaxNode
        /\ IF ~Linked(r) /\ CanConnect(r)
           THEN /\ node' = [node EXCEPT ![d][m.name] = Connecting(r)]
                /\ OpenSocket(d, r)
           ELSE /\ node' = [node EXCEPT ![d][m.name] = r]
                /\ UNCHANGED <<conn, sock>>
        /\ UNCHANGED <<psend, precv, names, sendSession, newSession, inbox,
                       listening, faults, crashes, historyVars, alive, work>>

(* req and push.  The outcome depends on the node: unknown; not connected  *)
(* and no attempt can start; a fresh attempt; a connection that is not up  *)
(* yet (or has no slot in conns[]); one that is ready.                     *)

At(c) == Workload[c].at
Entry(c) == node[At(c)][Workload[c].node]
IsIssued(c) == \E i \in DOMAIN issued : issued[i] = c
ReadyConn(d, c) == \E k \in ConnsOf(conn[d], c) : conn[d][k].ready

\* The JS side issues c; the command is answered with PTYPE_ERROR.
Issue(c) == ~IsIssued(c) /\ issued' = Append(issued, c)
IssueFailed(c) ==
    /\ Issue(c)
    /\ answers' = Answered({c}, ErrorAnswer)
    /\ UNCHANGED <<daemonVars, networkVars, served, alive, work>>

ReqUnknownNode(c) == ~Entry(c).used /\ IssueFailed(c)
ReqConnectFails(c) ==
    Entry(c).used /\ ~Linked(Entry(c)) /\ ~CanConnect(Entry(c)) /\ IssueFailed(c)

\* What follows node_send_request: a req takes an entry of psend[]; when the
\* table is full the caller gets an error although its frames are on the way.
Track(c, s) ==
    LET d == At(c)
    IN  CASE Workload[c].push -> UNCHANGED <<psend, answers>>
          [] ~Workload[c].push /\ Cardinality(psend[d]) >= MaxPending ->
                /\ answers' = Answered({c}, ErrorAnswer)
                /\ UNCHANGED psend
          [] OTHER ->
                /\ psend' = [psend EXCEPT ![d] = @ \cup
                       {[session |-> s, call |-> c, node |-> Workload[c].node]}]
                /\ UNCHANGED answers

SendRequest(c) ==
    LET s == NextSession(sendSession[At(c)])
    IN  /\ Issue(c)
        /\ sendSession' = [sendSession EXCEPT ![At(c)] = s]
        /\ Track(c, s)
        /\ UNCHANGED <<precv, names, newSession, listening, faults, crashes,
                       served, alive, work>>
NewFrames(c) == RequestFrames(c, NextSession(sendSession[At(c)]))
\* BUG: the newest frames go to the head of the queue.
Enqueued_First(r, frames) == [r EXCEPT !.queue = frames \o @]
Enqueued(r, frames) == [r EXCEPT !.queue = @ \o frames]
Queued(c, r) == [node EXCEPT ![At(c)][Workload[c].node] = Enqueued(r, NewFrames(c))]

ReqConnects(c) ==
    /\ Entry(c).used /\ ~Linked(Entry(c)) /\ CanConnect(Entry(c))
    /\ SendRequest(c)
    /\ OpenSocket(At(c), Entry(c))
    /\ node' = Queued(c, Connecting(Entry(c)))
    /\ UNCHANGED inbox

ReqQueues(c) ==
    /\ Entry(c).used /\ Linked(Entry(c)) /\ ~ReadyConn(At(c), Entry(c).sock)
    /\ SendRequest(c)
    /\ node' = Queued(c, Entry(c))
    /\ UNCHANGED <<conn, sock, inbox>>

ReqWrites(c) ==
    /\ Entry(c).used /\ Linked(Entry(c)) /\ ReadyConn(At(c), Entry(c).sock)
    /\ SendRequest(c)
    /\ inbox' = Written(inbox, At(c), Entry(c).sock, NewFrames(c))
    /\ UNCHANGED <<node, conn, sock>>
-----------------------------------------------------------------------------
(* Socket events (clusterd_cb, PTYPE_SOCKET): the first unhandled event of *)
(* socket c at d.  What a connecting socket was given waits for the accept.*)

Event(d, c, types) ==
    /\ c <= Len(sock) /\ sock[c].state # "connecting"
    /\ inbox[d][c] # <<>> /\ Head(inbox[d][c]).type \in types
Popped(d, c) == [inbox EXCEPT ![d][c] = Tail(@)]

\* BUG: node_flush_queue drops the frames instead of sending them.
Flushed_Dropped(box, d, c, n) == box
Flushed(box, d, c, n) == Written(box, d, c, node[d][n].queue)
Emptied(r) == [r EXCEPT !.queue = <<>>]

\* The connection is up: mark its slot ready and flush what the node queued.
\* Without a slot node_flush_queue returns and the frames stay queued.
OnConnect(d, c) ==
    LET slots == ConnsOf(conn[d], c)
        using == NodesUsing(d, c)
    IN  /\ Event(d, c, {"CONNECT"})
        /\ conn' = [conn EXCEPT ![d] = [k \in Slot |->
               IF k \in slots THEN [conn[d][k] EXCEPT !.ready = TRUE] ELSE conn[d][k]]]
        /\ IF slots = {} \/ using = {}
           THEN inbox' = Popped(d, c) /\ UNCHANGED node
           ELSE LET n == CHOOSE n \in using : TRUE
                IN  /\ inbox' = Flushed(Popped(d, c), d, c, n)
                    /\ node' = [node EXCEPT ![d][n] = Emptied(@)]
        /\ UNCHANGED <<psend, precv, names, sendSession, newSession, sock,
                       listening, faults, crashes, historyVars, alive, work>>

\* A full connection table leaves the accepted socket unstarted and open.
OnAccept(d, c) ==
    /\ Event(d, c, {"ACCEPT"})
    /\ conn' = [conn EXCEPT ![d] = Allocated(@, InboundConn(c))]
    /\ inbox' = Popped(d, c)
    /\ UNCHANGED <<node, psend, precv, names, sendSession, newSession, sock,
                   listening, faults, crashes, historyVars, alive, work>>

\* BUG: nothing pending is failed.
Stranded_None(d, nodes) == {}
Stranded(d, nodes) == {p \in psend[d] : p.node \in nodes}

\* CLOSE and ERROR: free the slot; the node that used the socket loses its
\* queue and every request pending on it fails.  Nothing reconnects.
OnClose(d, c) ==
    LET using == NodesUsing(d, c)
        failed == Stranded(d, using)
    IN  /\ Event(d, c, {"CLOSE"})
        /\ conn' = [conn EXCEPT ![d] = Freed(@, c)]
        /\ node' = [node EXCEPT ![d] = [n \in Node |->
               IF n \in using THEN Unlinked(node[d][n]) ELSE node[d][n]]]
        /\ psend' = [psend EXCEPT ![d] = @ \ failed]
        /\ answers' = Answered({p.call : p \in failed}, ErrorAnswer)
        /\ inbox' = Popped(d, c)
        /\ UNCHANGED <<precv, names, sendSession, newSession, sock, listening,
                       faults, crashes, issued, served, alive, work>>
-----------------------------------------------------------------------------
(* Requests on an inbound connection (handle_request, dispatch_request).   *)

Frame(d, c) == Head(inbox[d][c])
RequestTypes == {"SMALL", "LARGE", "PART", "PART_END"}
ResponseTypes == {"OK", "ERR", "MULTI_BEGIN", "MULTI_PART", "MULTI_END"}

\* A reply to the request that just arrived on c.
Responded(d, c, s, ok, body) ==
    Written(Popped(d, c), d, c, ResponseFrames(s, ok, body))

AnswerQuery(d, c, s, body) ==
    LET h == Lookup(d, Workload[body[1][1]].asks)
    IN  /\ inbox' = Responded(d, c, s, h # NoHandle,
                              IF h # NoHandle THEN <<<<h, 0>>>> ELSE <<>>)
        /\ UNCHANGED <<precv, newSession, work, served>>

\* "Invalid name" and "clusterd busy": a push is dropped without a word.
Reject(d, c, push, s) ==
    /\ inbox' = IF push THEN Popped(d, c) ELSE Responded(d, c, s, FALSE, <<>>)
    /\ UNCHANGED <<precv, work, served>>

\* BUG: the entry of precv[] is given back for requests too.
Expecting_None(d, push, entry) == precv
Expecting(d, push, entry) ==
    IF push THEN precv ELSE [precv EXCEPT ![d] = @ \cup {entry}]

\* Hand the request to the service h.  A push gives its entry of precv[] back
\* at once; what is sent to a service that is gone is lost.
Forward(d, c, k, push, s, h, body) ==
    LET local == newSession[d] + 1
        live  == h \in alive[d]
    IN  /\ inbox' = Popped(d, c)
        /\ precv' = Expecting(d, push, [local |-> local, slot |-> k, remote |-> s])
        /\ work' = IF push \/ ~live THEN work
                   ELSE [work EXCEPT ![d] = @ \cup
                             {[local |-> local, service |-> h, call |-> body[1][1]]}]
        /\ served' = IF ~live THEN served
                     ELSE [served EXCEPT ![d] =
                             Append(@, [sock |-> c, service |-> h, body |-> body])]

Dispatch(d, c, k, push, s, addr, body) ==
    LET h == IF addr.byName THEN Lookup(d, addr.to) ELSE addr.to
    IN  \/ addr.to = Query /\ AnswerQuery(d, c, s, body)
        \/ /\ addr.to # Query /\ h = NoHandle
           /\ Reject(d, c, push, s) /\ UNCHANGED newSession
        \/ /\ addr.to # Query /\ h # NoHandle
           /\ newSession' = [newSession EXCEPT ![d] = @ + 1]
           /\ IF Cardinality(precv[d]) >= MaxPending
              THEN Reject(d, c, push, s)
              ELSE Forward(d, c, k, push, s, h, body)

SetRq(d, k, r) == conn' = [conn EXCEPT ![d][k].rq = r]

\* small frames: push is encoded as session 0
OnSmall(d, c, k) ==
    LET f == Frame(d, c)
    IN  /\ f.type = "SMALL"
        /\ Dispatch(d, c, k, f.session = 0, f.session, f.addr, f.body)
        /\ UNCHANGED conn

OnLargeHeader(d, c, k) ==
    LET f == Frame(d, c)
    IN  /\ f.type = "LARGE"
        /\ SetRq(d, k, OpenBody(f.session, f.total, f.addr, f.push))
        /\ inbox' = Popped(d, c)
        /\ UNCHANGED <<precv, newSession, work, served>>

\* A chunk of another session, or beyond the total, is dropped; the last one
\* dispatches the body with the address its header gave.
OnPart(d, c, k) ==
    LET f == Frame(d, c)
        r == conn[d][k].rq
        whole == WithChunk(r, f.body).got
    IN  /\ f.type \in {"PART", "PART_END"}
        /\ \/ /\ ~Accepts(r, f.session)
              /\ inbox' = Popped(d, c)
              /\ UNCHANGED <<conn, precv, newSession, work, served>>
           \/ /\ Accepts(r, f.session) /\ f.type = "PART"
              /\ SetRq(d, k, WithChunk(r, f.body))
              /\ inbox' = Popped(d, c)
              /\ UNCHANGED <<precv, newSession, work, served>>
           \/ /\ Accepts(r, f.session) /\ f.type = "PART_END"
              /\ SetRq(d, k, NoBody)
              /\ Dispatch(d, c, k, r.push, r.session, r.addr, whole)

OnRequest(d, c, k) ==
    /\ Event(d, c, RequestTypes)
    /\ conn[d][k].sock = c /\ ~conn[d][k].outbound
    /\ OnSmall(d, c, k) \/ OnLargeHeader(d, c, k) \/ OnPart(d, c, k)
    /\ UNCHANGED <<node, psend, names, sendSession, sock, listening, faults,
                   crashes, issued, answers, alive>>
-----------------------------------------------------------------------------
(* Responses on an outbound connection (handle_response).  The entry of    *)
(* psend[] is found by its session alone.                                  *)

\* BUG: the entry of psend[] stays in use.
Released_Not(d, p) == psend
Released(d, p) == [psend EXCEPT ![d] = @ \ {p}]
\* BUG: the session is not looked at.
Matches_Any(p, f) == TRUE
Matches(p, f) == p.session = f.session

Complete(d, p, a) ==
    /\ psend' = Released(d, p)
    /\ answers' = Answered({p.call}, a)
SetRs(d, k, r) == conn' = [conn EXCEPT ![d][k].rs = r]

OnResponse(d, c, k, p) ==
    LET f == Frame(d, c)
        r == conn[d][k].rs
    IN  /\ Event(d, c, ResponseTypes)
        /\ conn[d][k].sock = c /\ conn[d][k].outbound
        /\ Matches(p, f)
        /\ \/ /\ f.type = "ERR"
              /\ Complete(d, p, ErrorAnswer) /\ UNCHANGED conn
           \/ /\ f.type = "OK"
              /\ Complete(d, p, ResponseAnswer(f.body)) /\ UNCHANGED conn
           \/ /\ f.type = "MULTI_BEGIN"
              /\ SetRs(d, k, OpenBody(f.session, f.total, WireAddr(p.call), FALSE))
              /\ UNCHANGED <<psend, answers>>
           \/ /\ f.type \in {"MULTI_PART", "MULTI_END"} /\ ~Accepts(r, f.session)
              /\ UNCHANGED <<conn, psend, answers>>
           \/ /\ f.type = "MULTI_PART" /\ Accepts(r, f.session)
              /\ SetRs(d, k, WithChunk(r, f.body))
              /\ UNCHANGED <<psend, answers>>
           \/ /\ f.type = "MULTI_END" /\ Accepts(r, f.session)
              /\ SetRs(d, k, NoBody)
              /\ Complete(d, p, ResponseAnswer(WithChunk(r, f.body).got))
        /\ inbox' = Popped(d, c)
        /\ UNCHANGED <<node, precv, names, sendSession, newSession, sock,
                       listening, faults, crashes, issued, served, alive, work>>

\* Data nobody wants: no connection slot for the socket, a response to a
\* request no longer pending, or a frame of the other direction (which the
\* parser of this one takes for a malformed or unknown frame).
OnIgnored(d, c) ==
    /\ Event(d, c, RequestTypes \cup ResponseTypes)
    /\ \A k \in ConnsOf(conn[d], c) :
          IF conn[d][k].outbound
          THEN \A p \in psend[d] : \/ Frame(d, c).type \in RequestTypes
                                   \/ p.session # Frame(d, c).session
          ELSE Frame(d, c).type \in ResponseTypes
    /\ inbox' = Popped(d, c)
    /\ UNCHANGED <<daemonVars, historyVars, sock, listening, faults, crashes,
                   alive, work>>
-----------------------------------------------------------------------------
(* The local services, the socket layer and the process (external).        *)

\* A service answers a request it holds, or fails it, and the daemon passes
\* the outcome on (dispatch_local_reply; PTYPE_ERROR): to whatever connection
\* occupies the remembered slot.
LocalReply(d, w, ok) ==
    \E p \in precv[d] :
        LET c == conn[d][p.slot].sock
        IN  /\ p.local = w.local
            /\ inbox' = IF c = NoSock THEN inbox
                        ELSE Written(inbox, d, c, ResponseFrames(p.remote, ok,
                                IF ok THEN Reply(w.call) ELSE <<>>))
            /\ precv' = [precv EXCEPT ![d] = @ \ {p}]
            /\ work' = [work EXCEPT ![d] = @ \ {w}]
            /\ UNCHANGED <<node, conn, psend, names, sendSession, newSession, sock,
                           listening, faults, crashes, historyVars, alive>>

\* A service exits: requests it had started on are never answered, those
\* still in its queue the kernel answers with an error.
ServiceExit(d, h) ==
    /\ h \in Mortal \cap alive[d]
    /\ alive' = [alive EXCEPT ![d] = @ \ {h}]
    /\ \E lost \in SUBSET {w \in work[d] : w.service = h} :
          work' = [work EXCEPT ![d] = @ \ lost]
    /\ UNCHANGED <<daemonVars, networkVars, historyVars>>

SockIs(c, state) == c <= Len(sock) /\ sock[c].state = state
Close == [type |-> "CLOSE"]
HeadEvents(q) == IF q # <<>> /\ Head(q).type \in {"CONNECT", "ACCEPT"} THEN 1 ELSE 0
\* What d will still see of a socket that breaks: its first i events.
Cut(q, i) == Append(SubSeq(q, 1, i), Close)

ToCli(c) == inbox[sock[c].cli][c]
ToSrv(c) == inbox[sock[c].srv][c]
Delivered(c, toCli, toSrv) ==
    [inbox EXCEPT ![sock[c].cli][c] = toCli, ![sock[c].srv][c] = toSrv]

TcpConnected(c) ==
    /\ SockIs(c, "connecting") /\ sock[c].srv \in listening
    /\ sock' = [sock EXCEPT ![c].state = "open"]
    /\ inbox' = Delivered(c, Append(ToCli(c), [type |-> "CONNECT"]),
                             <<[type |-> "ACCEPT"]>> \o ToSrv(c))
    /\ UNCHANGED <<daemonVars, listening, faults, crashes, historyVars, alive, work>>

\* Nobody listens, or the network refuses.
TcpRefused(c) ==
    /\ SockIs(c, "connecting")
    /\ \/ sock[c].srv \notin listening /\ UNCHANGED faults
       \/ faults < MaxFault /\ faults' = faults + 1
    /\ sock' = [sock EXCEPT ![c].state = "down"]
    /\ inbox' = Delivered(c, Append(ToCli(c), Close), <<>>)
    /\ UNCHANGED <<daemonVars, listening, crashes, historyVars, alive, work>>

\* An open connection breaks; each end loses what it had not received yet.
TcpReset(c) ==
    /\ SockIs(c, "open") /\ faults < MaxFault
    /\ faults' = faults + 1
    /\ sock' = [sock EXCEPT ![c].state = "down"]
    /\ \E i \in HeadEvents(ToCli(c)) .. Len(ToCli(c)),
          j \in HeadEvents(ToSrv(c)) .. Len(ToSrv(c)) :
          inbox' = Delivered(c, Cut(ToCli(c), i), Cut(ToSrv(c), j))
    /\ UNCHANGED <<daemonVars, listening, crashes, historyVars, alive, work>>

\* The process of d dies, with its daemon, its services and its sockets, and
\* starts again from nothing.  Its peers see their connections close.
Crash(d) ==
    LET mine  == {c \in DOMAIN sock : sock[c].cli = d \/ sock[c].srv = d}
        ended == {c \in mine : \/ sock[c].state = "open"
                               \/ sock[c].state = "connecting" /\ sock[c].cli = d}
    IN  /\ crashes < MaxCrash /\ crashes' = crashes + 1
        /\ node' = [node EXCEPT ![d] = [n \in Node |-> UnusedNode]]
        /\ conn' = [conn EXCEPT ![d] = [k \in Slot |-> FreeConn]]
        /\ psend' = [psend EXCEPT ![d] = {}]
        /\ precv' = [precv EXCEPT ![d] = {}]
        /\ names' = [names EXCEPT ![d] = <<>>]
        /\ sendSession' = [sendSession EXCEPT ![d] = 0]
        /\ newSession' = [newSession EXCEPT ![d] = 0]
        /\ alive' = [alive EXCEPT ![d] = Service]
        /\ work' = [work EXCEPT ![d] = {}]
        /\ listening' = listening \ {d}
        /\ sock' = [c \in DOMAIN sock |->
               IF c \in ended THEN [sock[c] EXCEPT !.state = "down"] ELSE sock[c]]
        /\ inbox' = [e \in Daemon |-> [c \in SockId |->
               CASE e = d -> <<>>
                 [] e # d /\ c \in ended /\ sock[c].state = "open" /\ e = Peer(d, c) ->
                        Append(inbox[e][c], Close)
                 [] e # d /\ c \in ended /\ sock[c].state = "connecting" -> <<>>
                 [] OTHER -> inbox[e][c]]]
        /\ UNCHANGED <<historyVars, faults>>
-----------------------------------------------------------------------------
Command(d) ==
    \/ CmdListen(d)
    \/ \E r \in Registration : r.at = d /\ CmdRegister(r)
    \/ \E m \in NodeCmd : m.at = d /\ CmdNode(m)
    \/ \E c \in Call :
          /\ At(c) = d
          /\ \/ ReqUnknownNode(c) \/ ReqConnectFails(c)
             \/ ReqConnects(c) \/ ReqQueues(c) \/ ReqWrites(c)

SocketEvent(d, c) ==
    \/ OnConnect(d, c) \/ OnAccept(d, c) \/ OnClose(d, c) \/ OnIgnored(d, c)
    \/ \E k \in Slot : OnRequest(d, c, k)
    \/ \E k \in Slot : \E p \in psend[d] : OnResponse(d, c, k, p)

ServiceStep(d) ==
    \/ \E w \in work[d], ok \in BOOLEAN : LocalReply(d, w, ok)
    \/ \E h \in Service : ServiceExit(d, h)

Tcp(c) == TcpConnected(c) \/ TcpRefused(c) \/ TcpReset(c)

Next ==
    \/ \E d \in Daemon : Command(d) \/ ServiceStep(d) \/ Crash(d)
    \/ \E d \in Daemon, c \in SockId : SocketEvent(d, c)
    \/ \E c \in SockId : Tcp(c)

Spec == Init /\ [][Next]_vars
-----------------------------------------------------------------------------
(* Types.                                                                  *)

\* What crosses is a chunk of a call's body; a query is replied to with a
\* handle, which stands in a chunk of its own.
Chunk == (Call \cup Service) \X Nat
BodyChunk == Call \X Nat
Bodies == Seq(BodyChunk) \ {<<>>}
Wire == [byName: {TRUE}, to: Name \cup Service]
        \cup [byName: {FALSE}, to: Service \cup {Query}]
RequestFrame ==
    [type: {"SMALL"}, addr: Wire, session: Nat, body: Bodies]
    \cup [type: {"LARGE"}, addr: Wire, session: Nat, push: BOOLEAN, total: Nat]
    \cup [type: {"PART", "PART_END"}, session: Nat, body: Bodies]
ResponseFrame ==
    [type: {"OK", "ERR", "MULTI_PART", "MULTI_END"}, session: Nat, body: Seq(Chunk)]
    \cup [type: {"MULTI_BEGIN"}, session: Nat, total: Nat]
ControlEvent == [type: {"CONNECT", "ACCEPT", "CLOSE"}]
SocketEvents == RequestFrame \cup ResponseFrame \cup ControlEvent
Reassembly(chunk) ==
    {NoBody} \cup [active: {TRUE}, session: Nat, total: Nat, got: Seq(chunk),
                   addr: Wire, push: BOOLEAN]

NodeType == [used: BOOLEAN, peer: Daemon \cup {NoPort}, sock: Nat,
             connecting: BOOLEAN, queue: Seq(RequestFrame)]
ConnType == [sock: Nat, outbound: BOOLEAN, ready: BOOLEAN,
             rq: Reassembly(BodyChunk), rs: Reassembly(Chunk)]
PendingSend == [session: Nat, call: Call, node: Node]
PendingRecv == [local: Nat, slot: Slot, remote: Nat]
Answer == [type: {"RESPONSE", "ERROR"}, body: Seq(Chunk)]

DaemonTypeOK ==
    /\ node \in [Daemon -> [Node -> NodeType]]
    /\ conn \in [Daemon -> [Slot -> ConnType]]
    /\ psend \in [Daemon -> SUBSET PendingSend]
    /\ precv \in [Daemon -> SUBSET PendingRecv]
    /\ names \in [Daemon -> Seq([name: Name, handle: Service])]
    /\ sendSession \in [Daemon -> Nat]
    /\ newSession \in [Daemon -> Nat]
NetworkTypeOK ==
    /\ listening \in SUBSET Daemon
    /\ sock \in Seq([state: {"connecting", "open", "down"}, cli: Daemon, srv: Daemon])
    /\ inbox \in [Daemon -> [SockId -> Seq(SocketEvents)]]
    /\ faults \in Nat
    /\ crashes \in Nat
ServiceTypeOK ==
    /\ alive \in [Daemon -> SUBSET Service]
    /\ work \in [Daemon -> SUBSET [local: Nat, service: Service, call: Call]]
    /\ issued \in Seq(Call)
    /\ answers \in [Call -> Seq(Answer)]
    /\ served \in [Daemon -> Seq([sock: Nat, service: Service, body: Bodies])]

\* Every table, counter, queue and message of the daemons keeps its type.
TypeOK == DaemonTypeOK /\ NetworkTypeOK /\ ServiceTypeOK
=============================================================================

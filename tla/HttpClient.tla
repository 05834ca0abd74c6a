------------------------------ MODULE HttpClient ------------------------------
(***************************************************************************)
(* httpc, the HTTP client of internal/http-core.js: requests over pooled   *)
(* connections, with one retry when a pooled one fails, and streamed       *)
(* requests; and a server that reads requests as httpd does and may close  *)
(* or fail at any point.  Between two events of the mailbox every          *)
(* continuation runs, so events wait until no request can go on.           *)
(*                                                                         *)
(* Heads and bodies are tokens; a part of a body holds a line end, no empty *)
(* line, and nothing that reads as a chunk size.  Responses 1xx and the    *)
(* text of headers are left out.  All requests go to one host; https has   *)
(* its own pool.                                                           *)
(***************************************************************************)
EXTENDS NetCore

CONSTANTS
    Key,        \* the protocols: among "http" and "https"
    Calls,      \* bound: Calls[q], how the q-th request may be made: <<kind, protocol>>, where
                \* kind is "request", "head" or "stream" and the protocol as in its URL
    MaxTask,    \* bound: requests made
    Beside,     \* bound: Beside[q], the requests under way when the q-th is made
    Shape,      \* the responses servers give: [mode, n, keep]
    MaxPerHost,
    MaxParts,   \* bound: parts of a body
    MaxFaults   \* bound: failures of the network, the server and the clock

ASSUME HttpAssumption ==
    /\ Key \subseteq {"http", "https"}
    /\ \A q \in 1 .. MaxTask : \A call \in Calls[q] :
          (IF call[2] = "" THEN "http" ELSE call[2]) \in Key \cup {"ftp"}
    /\ Calls \in [1 .. MaxTask -> SUBSET ({"request", "head", "stream"} \X {"", "http", "https", "ftp"})]
    /\ MaxTask \in Nat /\ Beside \in [1 .. MaxTask -> Nat] /\ MaxParts \in Nat
    /\ MaxPerHost \in Nat \ {0} /\ MaxFaults \in Nat
    /\ Shape \subseteq [mode : {"length", "chunked", "close", "none"}, n : 0 .. MaxParts, keep : BOOLEAN]

VARIABLES
    task,       \* where each request stands
    pool,       \* connPool[key]: [fd, expired]
    cleanup,    \* cleanupTimerStarted
    served,     \* served[q]: the sockets on which a server handled q, in order
    faults

clientVars == <<task, pool, cleanup>>
httpVars == <<netVars, clientVars, served, faults>>

Task == 1 .. MaxTask
Hello == 0      \* the ClientHello, as the peer gets it
NoHead == [k |-> "head", q |-> 0, fd |-> 0, mode |-> "none", n |-> 0, keep |-> TRUE]
HttpInit ==
    /\ NetInit
    /\ task = [q \in Task |-> [pc |-> "idle", kind |-> "none", key |-> "none",
                               fd |-> 0, fromPool |-> FALSE, before |-> NoHead, head |-> NoHead,
                               body |-> <<>>]]
    /\ pool = [key \in Key |-> <<>>] /\ cleanup = FALSE
    /\ served = [q \in Task |-> <<>>] /\ faults = 0

Fault == faults < MaxFaults /\ faults' = faults + 1
Goes(q, pc) == task' = [task EXCEPT ![q].pc = pc]
-----------------------------------------------------------------------------
(* The pool.                                                               *)

Live(c) == ~rclosed[c.fd] /\ ~c.expired
\* poolGet pops until a live connection comes; those it pops before are closed.
Found(key) == {i \in DOMAIN pool[key] : Live(pool[key][i])}
LastLive(key) == CHOOSE i \in Found(key) : \A j \in Found(key) : j <= i
FdsOf(conns) == {conns[i].fd : i \in DOMAIN conns}

\* poolPut: the oldest are closed when the pool is full.
Kept(key, fd) ==
    LET conns == pool[key]  over == Len(conns) + 1 - MaxPerHost
    IN  [pool EXCEPT ![key] = Append(SubSeq(conns, (IF over > 0 THEN over ELSE 0) + 1, Len(conns)),
                                     [fd |-> fd, expired |-> FALSE])]
PoolPut(key, fd, head) ==
    IF head.keep
    THEN LET conns == pool[key]  over == Len(conns) + 1 - MaxPerHost
         IN  /\ pool' = Kept(key, fd) /\ cleanup' = TRUE
             /\ Closes(IF over > 0 THEN FdsOf(SubSeq(conns, 1, over)) ELSE {})
    ELSE Closes({fd}) /\ UNCHANGED <<pool, cleanup>>
-----------------------------------------------------------------------------
(* A request: the steps are what runs between two awaits.                  *)

\* BUG: the parts read on the first connection are kept for the second.
NoParts_Kept(q) == task[q].body
NoParts(q) == <<>>
\* openConnection; a connect can be refused at once.  What was parsed of a head
\* stays in recvHeaderOut, when the caller gave one.
Opens(q, kind, key, fds, parsed) ==
    \/ /\ Unused # {}
       /\ Connects(NextFd, fds)
       /\ \E before \in {NoHead, parsed} :
             task' = [task EXCEPT ![q] = [pc |-> "connecting", kind |-> kind, key |-> key, fd |-> NextFd,
                                          fromPool |-> FALSE, before |-> before, head |-> NoHead,
                                          body |-> NoParts(q)]]
       /\ UNCHANGED faults
    \/ Fault /\ Closes(fds) /\ Goes(q, "failed")

\* clientParseUrl: the protocol of a URL that names none is http, and one without
\* a default port is refused, by an exception.  No URL here names a port.
Protocol(written) == IF written = "" THEN "http" ELSE written
DefaultPort == {"http", "https"}
Throws(q, written) ==
    /\ Protocol(written) \notin DefaultPort /\ Goes(q, "failed")
    /\ UNCHANGED <<netVars, pool, cleanup, served, faults>>

\* doRequestOn up to the wait for the head of the response.
Sends(q, fd) == Writes(fd, q)

Active == {"connecting", "handshake", "head", "body", "stream"}
Made(q) ==
    /\ task[q].pc = "idle" /\ \A p \in 1 .. q - 1 : task[p].pc # "idle"
    /\ Cardinality({p \in Task : task[p].pc \in Active}) <= Beside[q]
Start(q, kind, key) ==
    /\ key \in DefaultPort
    /\ LET conns == pool[key]
       IN  IF kind # "stream" /\ Found(key) # {}
           THEN LET i == LastLive(key)  fd == conns[i].fd
                IN  /\ pool' = [pool EXCEPT ![key] = SubSeq(conns, 1, i - 1)]
                    /\ Closes(FdsOf(SubSeq(conns, i + 1, Len(conns))))
                    /\ Sends(q, fd)
                    /\ task' = [task EXCEPT ![q] = [@ EXCEPT !.pc = "head", !.kind = kind,
                                                !.key = key, !.fd = fd, !.fromPool = TRUE]]
                    /\ UNCHANGED faults
           ELSE /\ pool' = IF kind = "stream" THEN pool ELSE [pool EXCEPT ![key] = <<>>]
                /\ Opens(q, kind, key, IF kind = "stream" THEN {} ELSE FdsOf(conns), NoHead)
                /\ UNCHANGED inbox
    /\ UNCHANGED <<buf, rclosed, tls, mail, wire, eof, cleanup, served>>

\* A failure: a pooled connection is replaced, once; any other is closed.
\* BUG: the failed connection is not closed.
GivesUp_Open(q) == UNCHANGED <<sock, handler, faults>> /\ Goes(q, "failed")
GivesUp(q) == Closes({task[q].fd}) /\ Goes(q, "failed") /\ UNCHANGED faults
\* BUG: a request is tried again on whatever connection it failed.
Retries_Always(q) == TRUE
Retries(q) == task[q].fromPool
Fails(q, parsed) ==
    /\ IF Retries(q) THEN Opens(q, task[q].kind, task[q].key, {task[q].fd}, parsed) ELSE GivesUp(q)
    /\ UNCHANGED <<buf, rclosed, tls, peerVars, pool, cleanup, served>>

\* The head of the response, parsed into what an earlier one left.  Of two equal
\* names there is an array, which is neither "chunked" nor "close", and whose
\* first length is read: a body in chunks after one is raw and without end, and a
\* raw one is read in chunks, where it has none.
Merged(before, head) ==
    LET mode == CASE before.mode \in {"none", "close"} -> head.mode
                  [] before.mode = "chunked" -> IF head.mode = "chunked" THEN "close" ELSE "invalid"
                  [] before.mode = "length"  -> IF head.mode = "chunked" THEN "chunked" ELSE "length"
    IN  [head EXCEPT !.mode = mode, !.keep = (before.keep = head.keep),
                     !.n = IF before.mode = "length" /\ mode = "length" THEN before.n ELSE @]
CanRead(q, n) == Has(task[q].fd, n) \/ Never(task[q].fd, n)
\* recvHeader reads to an empty line, which ends a head: of parts that another
\* request left before it, the first is no status line.  And parseHeader: lines
\* without a colon, a continuation of nothing; the lines before are parsed.
Ending == {"head", "wrong"}
HeadCame(fd) == \E i \in DOMAIN buf[fd] : buf[fd][i].k \in Ending
Malformed(head) == head.k # "head"
Parsed(head) == IF head.k = "wrong" THEN [head EXCEPT !.k = "head"] ELSE NoHead
ReadHead(q) ==
    /\ task[q].pc = "head" /\ (HeadCame(task[q].fd) \/ rclosed[task[q].fd])
    /\ LET fd == task[q].fd  head == Merged(task[q].before, Head(buf[fd]))
       IN  IF ~HeadCame(fd) THEN Fails(q, NoHead)
           ELSE IF Malformed(Head(buf[fd])) THEN Fails(q, Parsed(Head(buf[fd])))
           ELSE /\ Consumes(fd, 1)
                /\ IF task[q].kind = "head"
                   THEN /\ task' = [task EXCEPT ![q] = [@ EXCEPT !.pc = "done", !.head = head]]
                        /\ PoolPut(task[q].key, fd, head)
                   ELSE /\ task' = [task EXCEPT ![q] =
                                [@ EXCEPT !.pc = IF task[q].kind = "stream" THEN "stream" ELSE "body",
                                          !.head = head]]
                        /\ UNCHANGED <<sock, handler, pool, cleanup>>
                /\ UNCHANGED <<rclosed, tls, peerVars, served, faults>>

\* The body of a whole response, then the connection is pooled if its end was
\* told.  Without a length the body is what comes until the socket closes.
CanPool(head) == head.mode # "close"
Resolves(q, n) ==
    LET fd == task[q].fd  head == task[q].head  body == task[q].body \o SubSeq(buf[fd], 1, n)
    IN  /\ task' = [task EXCEPT ![q] = [@ EXCEPT !.pc = "done", !.body = body]]
        /\ Consumes(fd, n)
        /\ IF CanPool(head) THEN PoolPut(task[q].key, fd, head)
           ELSE Closes({fd}) /\ UNCHANGED <<pool, cleanup>>
        /\ UNCHANGED <<rclosed, tls, peerVars, served, faults>>
NextPart(q) ==
    /\ task' = [task EXCEPT ![q].body = Append(@, Head(buf[task[q].fd]))]
    /\ Consumes(task[q].fd, 1)
    /\ UNCHANGED <<sock, handler, rclosed, tls, peerVars, pool, cleanup, served, faults>>
ReadBody(q) ==
    LET fd == task[q].fd  head == task[q].head
    IN  /\ task[q].pc = "body"
        /\ CASE head.mode = "none" -> Resolves(q, 0)
             [] head.mode = "length" ->
                   /\ CanRead(q, head.n)
                   /\ IF Has(fd, head.n) THEN Resolves(q, head.n) ELSE Fails(q, head)
             [] head.mode = "chunked" ->
                   /\ CanRead(q, 1)
                   /\ IF Never(fd, 1) \/ Head(buf[fd]).k = "broken" THEN Fails(q, head)
                      ELSE IF Head(buf[fd]).k = "last" THEN Resolves(q, 1) ELSE NextPart(q)
             [] head.mode = "invalid" -> CanRead(q, 1) /\ Fails(q, head)
             [] head.mode = "close" -> rclosed[fd] /\ Resolves(q, Len(buf[fd]))

\* A streamed body: a read takes a chunk, or at most 8192 bytes of a body of
\* known length; one whose length is not told is not read at all.  A chunk size
\* that is no number ends the body as the last chunk does.
FinishStream(q, body) ==
    LET fd == task[q].fd
    IN  /\ task' = [task EXCEPT ![q] = [@ EXCEPT !.pc = "done", !.body = body]]
        /\ IF ~rclosed[fd] THEN PoolPut(task[q].key, fd, task[q].head)
           ELSE Closes({fd}) /\ UNCHANGED <<pool, cleanup>>
StreamRead(q) ==
    /\ task[q].pc = "stream"
    /\ LET fd == task[q].fd  head == task[q].head  body == task[q].body
           more == Append(body, Head(buf[fd]))
           left == head.n - Len(body)
       IN  \/ /\ head.mode = "chunked" /\ Has(fd, 1) /\ Consumes(fd, 1)
              /\ IF Head(buf[fd]).k \in {"last", "broken"} THEN FinishStream(q, more)
                 ELSE task' = [task EXCEPT ![q].body = more] /\ UNCHANGED <<sock, handler, pool, cleanup>>
           \/ head.mode = "length" /\ left = 0 /\ FinishStream(q, body) /\ UNCHANGED buf
           \/ /\ head.mode = "length" /\ left > 0 /\ Has(fd, 1) /\ Consumes(fd, 1)
              /\ IF left = 1 THEN FinishStream(q, more)
                 ELSE task' = [task EXCEPT ![q].body = more] /\ UNCHANGED <<sock, handler, pool, cleanup>>
           \/ /\ head.mode \in {"close", "none"}
              /\ Closes({fd}) /\ Goes(q, "closed") /\ UNCHANGED <<buf, pool, cleanup>>
           \/ /\ head.mode \in {"chunked", "length"} /\ Never(fd, 1) /\ (head.mode = "length" => left > 0)
              /\ Goes(q, "failed") /\ UNCHANGED <<buf, sock, handler, pool, cleanup>>
    /\ UNCHANGED <<rclosed, tls, peerVars, served, faults>>
StreamClose(q) ==
    /\ task[q].pc = "stream" /\ Fault
    /\ Closes({task[q].fd}) /\ Goes(q, "closed")
    /\ UNCHANGED <<buf, rclosed, tls, peerVars, pool, cleanup, served>>

\* Jobs run until none is left before the next event.
Ready(q) ==
    LET fd == task[q].fd  head == task[q].head
    IN  \/ task[q].pc = "head" /\ (HeadCame(fd) \/ rclosed[fd])
        \/ task[q].pc = "body" /\ CASE head.mode = "none"    -> TRUE
                                    [] head.mode = "length"  -> CanRead(q, head.n)
                                    [] head.mode \in {"chunked", "invalid"} -> CanRead(q, 1)
                                    [] head.mode = "close"   -> rclosed[fd]
Quiet == \A q \in Task : ~Ready(q)
Job(q) == ReadHead(q) \/ ReadBody(q)
-----------------------------------------------------------------------------
(* Events and timers.                                                      *)

Owner(fd, pcs) == {q \in Task : task[q].fd = fd /\ task[q].pc \in pcs}
Handle ==
    /\ Quiet /\ mail # <<>> /\ mail' = Tail(mail)
    /\ LET fd == Event.fd  connecting == handler[fd] = "connecting"
       IN  \/ /\ Event.type = "CONNECT"
              /\ \/ /\ connecting
                    /\ \E q \in Owner(fd, {"connecting"}) :
                          /\ Reads(fd) /\ Upgrades(fd, task[q].key = "https")
                          /\ Writes(fd, IF task[q].key = "https" THEN Hello ELSE q)
                          /\ Goes(q, IF task[q].key = "https" THEN "handshake" ELSE "head")
                 \/ ~connecting /\ UNCHANGED <<handler, tls, inbox, task>>
              /\ UNCHANGED <<sock, buf, rclosed>>
           \/ /\ Event.type = "DATA" /\ OnData(fd, Event.data)
              /\ LET shakes == Owner(fd, {"handshake"})
                 IN  \/ /\ shakes = {} /\ UNCHANGED <<inbox, task>>
                     \/ \E q \in shakes :
                           IF HandshakeFails(fd, Event.data)
                           THEN Goes(q, "failed") /\ UNCHANGED inbox
                           ELSE Goes(q, "head") /\ Sends(q, fd)
              /\ UNCHANGED <<sock, handler, rclosed>>
           \/ /\ Event.type \in {"CLOSE", "ERROR"} /\ OnEnd(fd)
              /\ task' = [q \in Task |-> IF connecting /\ q \in Owner(fd, {"connecting"})
                                         THEN [task[q] EXCEPT !.pc = "failed"] ELSE task[q]]
              /\ UNCHANGED <<sock, buf, tls, inbox>>
    /\ UNCHANGED <<wire, eof, pool, cleanup, served, faults>>

\* The timer of helperConnect: the CONNECT event may be in the mailbox.
ConnectTimeout(q) ==
    /\ Quiet /\ task[q].pc = "connecting" /\ Fault
    /\ Closes({task[q].fd}) /\ Goes(q, "failed")
    /\ UNCHANGED <<buf, rclosed, tls, peerVars, pool, cleanup, served>>

Expire(key, i) ==
    /\ Quiet /\ ~pool[key][i].expired /\ Fault
    /\ pool' = [pool EXCEPT ![key][i].expired = TRUE]
    /\ UNCHANGED <<netVars, task, cleanup, served>>
\* The timer of scheduleCleanup closes what is dead.
Among(s, S) ==
    LET some[i \in 0 .. Len(s)] ==
            IF i = 0 THEN <<>>
            ELSE IF s[i] \in S THEN Append(some[i - 1], s[i]) ELSE some[i - 1]
    IN  some[Len(s)]
Living(key) == {pool[key][i] : i \in Found(key)}
DeadFds(key) == {pool[key][i].fd : i \in DOMAIN pool[key] \ Found(key)}
Cleanup ==
    /\ Quiet /\ cleanup /\ Fault
    /\ Closes(UNION {DeadFds(key) : key \in Key})
    /\ pool' = [key \in Key |-> Among(pool[key], Living(key))]
    /\ cleanup' = (\E key \in Key : pool'[key] # <<>>)
    /\ UNCHANGED <<buf, rclosed, tls, peerVars, task, served>>
CloseAllKeepalive ==
    /\ Quiet /\ pool # [key \in Key |-> <<>>] /\ Fault
    /\ Closes(UNION {FdsOf(pool[key]) : key \in Key})
    /\ pool' = [key \in Key |-> <<>>]
    /\ UNCHANGED <<buf, rclosed, tls, peerVars, task, cleanup, served>>
-----------------------------------------------------------------------------
(* The server.  writeResponse puts a length, chunks, or nothing.           *)

Part(q, fd, i) == [k |-> "part", q |-> q, fd |-> fd, i |-> i]
Parts(q, fd, n) == [i \in 1 .. n |-> Part(q, fd, i)]
LastChunk(q, fd) == [k |-> "last", q |-> q, fd |-> fd]
HeadOf(q, fd, s) == [k |-> "head", q |-> q, fd |-> fd, mode |-> s.mode, n |-> s.n, keep |-> s.keep]
WriteResponse(q, fd, s) ==
    LET head == HeadOf(q, fd, s)
    IN  <<head>> \o (IF task[q].kind = "head" \/ s.mode = "none" THEN <<>>
                     ELSE Parts(q, fd, s.n) \o
                          (IF s.mode = "chunked" THEN <<LastChunk(q, fd)>> ELSE <<>>))
Serve(fd) ==
    /\ inbox[fd] # <<>> /\ ~eof[fd]
    /\ LET q == Head(inbox[fd])
       IN  \/ /\ q \in Task
              /\ \E s \in Shape :
                    /\ wire' = IF sock[fd] # "open" THEN wire
                               ELSE [wire EXCEPT ![fd] = @ \o WriteResponse(q, fd, s)]
                    /\ eof' = [eof EXCEPT ![fd] = ~s.keep \/ s.mode = "close"]
              /\ served' = [served EXCEPT ![q] = Append(@, fd)]
              /\ UNCHANGED faults
           \/ /\ q = Hello /\ UNCHANGED <<eof, served>>
              /\ \/ wire' = [wire EXCEPT ![fd] = Append(@, [k |-> "tls"])] /\ UNCHANGED faults
                 \/ Fault /\ wire' = [wire EXCEPT ![fd] = Append(@, [k |-> "bad"])]
    /\ inbox' = [inbox EXCEPT ![fd] = Tail(@)]
    /\ UNCHANGED <<socketVars, mail, clientVars>>
\* The server answers what is no response: a head with a line that is none,
\* maybe after good ones; or a body with a chunk size that is no number.
Garbage(q, fd) ==
    {<<[head EXCEPT !.k = "wrong"]>> : head \in {NoHead} \cup {HeadOf(q, fd, s) : s \in Shape}}
\* What follows the wrong size, up to an empty line, is in its token.
BrokenChunk(q, fd) == [k |-> "broken", q |-> q, fd |-> fd]
BrokenBody(q, fd, s) ==
    {<<HeadOf(q, fd, s)>> \o Parts(q, fd, n) \o <<BrokenChunk(q, fd)>> : n \in 0 .. s.n}
Broken(q, fd) ==
    IF task[q].kind = "head" THEN {}
    ELSE UNION {BrokenBody(q, fd, s) : s \in {t \in Shape : t.mode = "chunked"}}
ServesGarbage(fd) ==
    /\ inbox[fd] # <<>> /\ Head(inbox[fd]) \in Task /\ ~eof[fd] /\ Fault
    /\ LET q == Head(inbox[fd])
       IN  \/ /\ UNCHANGED served
              /\ \E R \in Garbage(q, fd) :
                    wire' = IF sock[fd] = "open" THEN [wire EXCEPT ![fd] = @ \o R] ELSE wire
           \/ /\ served' = [served EXCEPT ![q] = Append(@, fd)]
              /\ \E R \in Broken(q, fd) :
                    wire' = IF sock[fd] = "open" THEN [wire EXCEPT ![fd] = @ \o R] ELSE wire
    /\ inbox' = [inbox EXCEPT ![fd] = Tail(@)]
    /\ UNCHANGED <<socketVars, mail, eof, clientVars>>
\* The server closes, also in the middle of a response.
ServerCloses(fd) ==
    /\ sock[fd] = "open" /\ ~eof[fd] /\ Fault /\ eof' = [eof EXCEPT ![fd] = TRUE]
    /\ \E k \in 0 .. Len(wire[fd]) : wire' = [wire EXCEPT ![fd] = SubSeq(@, 1, k)]
    /\ UNCHANGED <<socketVars, mail, inbox, clientVars, served>>
RefusedFault(fd) == (Refused(fd) \/ Reset(fd)) /\ Fault /\ UNCHANGED <<clientVars, served>>
NetStep(fd) == SocketSteps(fd) /\ UNCHANGED <<clientVars, served, faults>>
-----------------------------------------------------------------------------
HttpNext ==
    \/ \E q \in Task :
          \/ /\ Quiet /\ Made(q)
             /\ \E call \in Calls[q] : Start(q, call[1], Protocol(call[2])) \/ Throws(q, call[2])
          \/ Quiet /\ (StreamRead(q) \/ StreamClose(q))
          \/ Job(q) \/ ConnectTimeout(q)
    \/ Handle \/ Cleanup \/ CloseAllKeepalive
    \/ \E key \in Key : \E i \in DOMAIN pool[key] : Expire(key, i)
    \/ \E fd \in Fd : Serve(fd) \/ ServesGarbage(fd) \/ ServerCloses(fd) \/ RefusedFault(fd) \/ NetStep(fd)
HttpSpec == HttpInit /\ [][HttpNext]_httpVars
=============================================================================

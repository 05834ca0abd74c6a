------------------------- MODULE ClusterdProperties -------------------------
(* What the cluster daemons are checked for: nothing hangs, leaks, is       *)
(* answered twice, served twice, torn or reordered.                         *)
EXTENDS Clusterd

(* Safety: no call hangs and no resource leaks.                            *)

CloseComing(d, c) == \E i \in DOMAIN inbox[d][c] : inbox[d][c][i].type = "CLOSE"

\* A node's socket is one this daemon opened, and it is alive or its end is
\* still to be reported.  (node_connect sets sock_id and connecting together;
\* only CLOSE and ERROR clear them.)
NodeLinkOK(d, n) ==
    LET c == node[d][n].sock
    IN  /\ node[d][n].connecting <=> c # NoSock
        /\ c # NoSock => /\ node[d][n].used
                         /\ c \in DOMAIN sock
                         /\ sock[c].cli = d
                         /\ sock[c].state # "down" \/ CloseComing(d, c)

\* A request that awaits its answer belongs to a node with a connection or an
\* attempt in flight: when that ends, node_fail_pending finds the request and
\* fails it, "so callers observe the outage immediately instead of hanging".
NoOrphanedCall ==
    \A d \in Daemon :
        /\ \A n \in Node : NodeLinkOK(d, n)
        /\ \A p \in psend[d] : node[d][p.node].sock # NoSock

\* No socket and no slot of conns[] leaks: an outbound socket that is up is
\* some node's link; a slot is one socket's, and that socket is up or its end
\* is still to be reported; two slots never share a socket.
NoLeakedConnection ==
    \A d \in Daemon :
        /\ \A c \in DOMAIN sock :
              sock[c].cli = d /\ sock[c].state # "down" => NodesUsing(d, c) # {}
        /\ \A k \in Slot :
              LET c == conn[d][k].sock
              IN  c # NoSock =>
                    /\ c \in DOMAIN sock
                    /\ conn[d][k].outbound <=> sock[c].cli = d
                    /\ sock[c].state # "down" \/ CloseComing(d, c)
                    /\ ConnsOf(conn[d], c) = {k}

\* A request that a local service holds has its one entry in precv[], so that
\* dispatch_local_reply finds it (and never falls through to psend[]), and no
\* two entries share a local session.
HeldRequestsTracked ==
    \A d \in Daemon :
        /\ \A w \in work[d] : \E p \in precv[d] : p.local = w.local
        /\ \A p, q \in precv[d] : p.local = q.local => p = q
        /\ \A p \in precv[d] : p.local <= newSession[d]

(* Safety: what callers and services are told.                             *)

CallOf(body) == body[1][1]
ServedTo(d, c) == {i \in DOMAIN served[d] : CallOf(served[d][i].body) = c}
ServedAnywhere(c) == UNION {{d} \X ServedTo(d, c) : d \in Daemon}

\* A caller is answered at most once, and while its request is pending not at
\* all: the outcome of a request leaves psend[] with its entry, whichever of
\* an answer, an error, a full table or a lost connection comes first.
AnsweredAtMostOnce ==
    /\ \A c \in Call : Len(answers[c]) <= 1
    /\ \A d \in Daemon : \A p \in psend[d] :
          /\ IsIssued(p.call) /\ answers[p.call] = <<>>
          /\ \A q \in psend[d] : q.call = p.call => q = p

\* A request or push reaches a service at most once, whatever is retried,
\* queued, flushed or cut short on the way.
ServedAtMostOnce == \A c \in Call : Cardinality(ServedAnywhere(c)) <= 1

\* A body is handed on whole or not at all: what a service receives is the
\* body of one call, every chunk in place, and so is what a caller receives.
RequestsWhole ==
    \A d \in Daemon : \A i \in DOMAIN served[d] :
        served[d][i].body = Body(CallOf(served[d][i].body))
RepliesWhole ==
    \A c \in Call : \A i \in DOMAIN answers[c] :
        LET a == answers[c][i]
        IN  a.type = "RESPONSE" /\ CallOf(a.body) \in Call
               => a.body = Reply(CallOf(a.body))
BodiesWhole == RequestsWhole /\ RepliesWhole

\* Two calls that reach services over the same connection do so in the order
\* they were issued: the queue of a connecting node is never overtaken, and
\* nothing waits in it once its link is ready or gone.
IssueIndex(c) == CHOOSE i \in DOMAIN issued : issued[i] = c
ConnectionOrder ==
    \A d \in Daemon :
        /\ \A i, j \in DOMAIN served[d] :
              i < j /\ served[d][i].sock = served[d][j].sock
                => IssueIndex(CallOf(served[d][i].body)) < IssueIndex(CallOf(served[d][j].body))
        /\ \A n \in Node : node[d][n].queue # <<>> =>
              node[d][n].sock # NoSock /\ ~ReadyConn(d, node[d][n].sock)

\* A caller that gets a response gets the reply to its own request, from a
\* service that was handed that request; a query gets a handle that was
\* registered under the name it asked for.
AnswersOwnRequest ==
    \A c \in Call : \A i \in DOMAIN answers[c] :
        LET a == answers[c][i]
        IN  a.type = "RESPONSE" =>
              IF Workload[c].addr = Query
              THEN \E r \in Registration :
                      r.name = Workload[c].asks /\ a.body = <<<<r.handle, 0>>>>
              ELSE /\ a.body = Reply(c)
                   /\ ServedAnywhere(c) # {}
-----------------------------------------------------------------------------
(* Liveness.  The kernel runs every service that has messages, so socket   *)
(* events are handled in the end; a connection attempt ends; a service     *)
(* answers what it holds.  Nothing else is fair: the JS side need not      *)
(* issue anything, and the network need not break.                         *)

Answers(d) == \E w \in work[d], ok \in BOOLEAN : LocalReply(d, w, ok)
Fairness ==
    /\ \A d \in Daemon, c \in SockId : WF_vars(SocketEvent(d, c))
    /\ \A d \in Daemon : WF_vars(Answers(d))
    /\ \A c \in SockId : WF_vars(TcpConnected(c) \/ TcpRefused(c))
FairSpec == Spec /\ Fairness

\* Every request is answered in the end, by its reply or by an error.
EveryRequestAnswered ==
    \A c \in Call : ~Workload[c].push => (IsIssued(c) ~> answers[c] # <<>>)

\* A push is one-way, not optional: one that was accepted for a live service
\* reaches it, unless a connection fails.
Accepted(c) == IsIssued(c) /\ answers[c] = <<>>
ConnectionFailed == \E c \in DOMAIN sock : sock[c].state = "down"
Reached(c) == (ServedAnywhere(c) # {}) \/ ConnectionFailed
EveryPushServed ==
    \A c \in Call : Workload[c].push /\ Workload[c].addr \in Service =>
        (Accepted(c) ~> Reached(c))
=============================================================================

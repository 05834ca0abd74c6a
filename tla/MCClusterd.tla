----------------------------- MODULE MCClusterd -----------------------------
(* Instances of the cluster daemons for TLC: for each run, what its calls   *)
(* are and which node and register commands are issued.                     *)
EXTENDS ClusterdRpc, TLC

CONSTANTS A, B, C,          \* daemons
          toA, toB, toNone, \* node names: of A, of B, of nobody
          svc,              \* a handle
          nm, nm2,          \* registered names
          c1, c2, c3, c4    \* calls

\* A request by d for node n at address a, with small bodies.
Req(d, n, a) == [at |-> d, node |-> n, addr |-> a, asks |-> nm,
                 push |-> FALSE, large |-> FALSE, largeReply |-> FALSE]
Pushed(d, n, a) == [Req(d, n, a) EXCEPT !.push = TRUE]
Large(r) == [r EXCEPT !.large = TRUE, !.largeReply = TRUE]

NodeCmdB == {[at |-> A, name |-> toB, peer |-> B]}
RegisterOnB == {[at |-> B, name |-> nm, handle |-> svc]}

\* A request, and a large request by name with a large reply.
MixedCalls == (c1 :> Req(A, toB, svc)) @@ (c2 :> Large(Req(A, toB, nm)))

\* A query, a request and a push by name, and a request to a node without a
\* port, on tables of one entry.
TightCalls == (c1 :> Req(A, toB, Query)) @@ (c2 :> Req(A, toB, nm))
              @@ (c3 :> Pushed(A, toB, nm)) @@ (c4 :> Req(A, toNone, svc))
NodeCmdTight == NodeCmdB \cup {[at |-> A, name |-> toNone, peer |-> NoPort],
                               [at |-> B, name |-> toA, peer |-> A]}

\* A and C both call B.
SharedCalls == (c1 :> Req(A, toB, svc)) @@ (c2 :> Req(C, toB, svc))
NodeCmdShared == NodeCmdB \cup {[at |-> C, name |-> toB, peer |-> B]}

\* One call of each kind, for the promise of ClusterRpc.
EachKind == (c1 :> Req(A, toB, svc)) @@ (c2 :> Req(A, toB, Query))
            @@ (c3 :> Pushed(A, toB, svc))

LargePush == c1 :> Large(Pushed(A, toB, svc))
=============================================================================

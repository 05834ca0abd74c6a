---------------------------- MODULE ClusterdRpc ----------------------------
(* The cluster daemons implement the promise of ClusterRpc: the refinement*)
(* mapping reads a call's phase off the messages its caller was sent, and *)
(* its service off what the daemons handed over.                          *)
EXTENDS ClusterdProperties

Rpc == INSTANCE ClusterRpc WITH
    Push <- {c \in Call : Workload[c].push},
    Asked <- {c \in Call : Workload[c].addr = Query},
    phase <- [c \in Call |-> IF ~IsIssued(c) THEN "idle"
                             ELSE IF answers[c] = <<>> THEN "open" ELSE "closed"],
    runs <- [c \in Call |-> Cardinality(ServedAnywhere(c))],
    replied <- {c \in Call : \E i \in DOMAIN answers[c] : answers[c][i].type = "RESPONSE"}

\* The daemons implement the promise, each call on its own.
ImplementsRpc == Rpc!Spec
=============================================================================

---------------------------- MODULE ClusterRpc ----------------------------
(***************************************************************************)
(* What the cluster layer promises for each call, whatever connections are *)
(* opened, lost and reopened under it: a call is served at most once, its  *)
(* caller hears of it at most once, and a reply is heard only of a call    *)
(* that was served.  An error says nothing about whether the call was, or  *)
(* still will be, served.  A push is never replied to.                     *)
(***************************************************************************)
EXTENDS Naturals

CONSTANTS Call,   \* the calls
          Push,   \* the one-way ones
          Asked   \* name queries: the remote daemon answers them itself

VARIABLES phase,   \* phase[c]: "idle", "open" or "closed" (the caller was told)
          runs,    \* runs[c]: how often a service was handed c
          replied  \* the calls whose caller got a reply

vars == <<phase, runs, replied>>

Init == phase = [c \in Call |-> "idle"] /\ runs = [c \in Call |-> 0] /\ replied = {}

\* How one call may move in one step; several calls may move together, as a
\* lost connection fails every call that waits on it.
Stay(c) == phase'[c] = phase[c]
           /\ runs'[c] = runs[c] /\ (c \in replied' <=> c \in replied)
Issue(c) == /\ phase[c] = "idle" /\ phase'[c] = "open"
            /\ runs'[c] = runs[c] /\ c \notin replied'
Serve(c) == /\ phase[c] # "idle" /\ c \notin Asked
            /\ runs[c] = 0 /\ runs'[c] = 1
            /\ phase'[c] = phase[c] /\ (c \in replied' <=> c \in replied)
ReplyTo(c) == /\ phase[c] = "open" /\ phase'[c] = "closed"
              /\ c \notin Push /\ (runs[c] = 1 \/ c \in Asked)
              /\ c \notin replied /\ c \in replied'
              /\ runs'[c] = runs[c]
Fail(c) == /\ phase[c] \in {"idle", "open"} /\ phase'[c] = "closed"
           /\ runs'[c] = runs[c] /\ (c \in replied' <=> c \in replied)

Next == /\ DOMAIN phase' = Call
        /\ DOMAIN runs' = Call /\ replied' \subseteq Call
        /\ \A c \in Call : Stay(c) \/ Issue(c) \/ Serve(c) \/ ReplyTo(c) \/ Fail(c)

Spec == Init /\ [][Next]_vars
=============================================================================

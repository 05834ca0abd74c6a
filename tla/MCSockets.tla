------------------------------ MODULE MCSockets ------------------------------
(* An instance for TLC.  A behaviour is of one socket, which WebSocket or     *)
(* HTTP uses.                                                                 *)
EXTENDS SocketProperties
VARIABLE user
AllowanceWs == [s \in BOOLEAN |-> IF s THEN {<<1, 1>>} ELSE {<<3, 1>>, <<1, 2>>}]
vars == <<user, socketVars, wsVars, nodeHttpVars>>
Init ==
    /\ user \in {"ws", "http"} /\ SocketInit /\ WsInit /\ NodeHttpInit
    /\ user = "http" => ~timed /\ ~secure /\ troubles = 2
    /\ user = "ws" => via = "request"
Ws(A) == user = "ws" /\ A /\ UNCHANGED <<user, nodeHttpVars>>
Http(A) == user = "http" /\ A /\ UNCHANGED <<user, wsVars>>
Next == Ws(WsNext) \/ Http(NodeHttpNext)
\* Events are dispatched, continuations run, and what was sent arrives.
Spec ==
    /\ Init /\ [][Next]_vars
    /\ WF_vars(Ws(Job)) /\ WF_vars(Ws(WsEvent)) /\ WF_vars(Ws(LayerSteps /\ UNCHANGED wsVars))
    /\ WF_vars(Http(NodeEvent)) /\ \A q \in Request : WF_vars(Http(Finish(q)))
=============================================================================

------------------------------ MODULE NetSocket ------------------------------
(***************************************************************************)
(* One socket as users see it, builtins/net.js over internal/net-core.js:  *)
(* connected by Socket.connect or given by a Server, with its timeout, its *)
(* events and its end.  The socket layer and the peer are external; what   *)
(* goes over the wire are tokens, cut anywhere.  An action says in `heard` *)
(* which events it emits, in order: listeners run at once.                 *)
(***************************************************************************)
EXTENDS Integers, Sequences, SequencesExt, FiniteSets

CONSTANTS
    MaxMail       \* bound: the socket layer waits when so many events wait

ASSUME SocketAssumption == MaxMail \in Nat

VARIABLES
    side,         \* "client": it connects, "server": a Server gave it
    layer,        \* the socket layer: "none", "opening", "open", "shut" by the peer, "gone"
    entry,        \* net-core's handlers: "none", "connect" or "pump"
    known,        \* _fd is set
    destroyed,
    timed,        \* _timeout > 0
    timers,       \* "kept": the timer _timeoutId names; "lost": one it named before
    mail,         \* socket events not yet dispatched
    wire, eof,    \* what the peer has sent and is not delivered; its side is closed
    sent,         \* what the peer was sent
    troubles      \* bound: how much may still disturb: cut deliveries, refusals, resets,
                  \* timers, failures, and calls of the user

socketVars == <<side, layer, entry, known, destroyed, timed, timers, mail, wire, eof, sent, troubles>>

Untouched == destroyed = FALSE /\ timers = {} /\ mail = <<>> /\ wire = <<>> /\ eof = FALSE /\ sent = <<>>
\* A new Socket, and what listen's callback does with one it accepts: a server's
\* socket is open and pumped before its user has it, and nothing timed it yet.
Fresh == side = "client" /\ layer = "none" /\ entry = "none" /\ known = FALSE /\ timed \in BOOLEAN
Given == side = "server" /\ layer = "open" /\ entry = "pump" /\ known = TRUE /\ timed = FALSE
SocketInit == (Fresh \/ Given) /\ Untouched

Trouble == troubles > 0 /\ troubles' = troubles - 1
-----------------------------------------------------------------------------
(* The calls of a Socket.                                                  *)

Arm == IF timed THEN {"kept"} ELSE {}
Refreshed == (timers \ {"kept"}) \cup Arm
\* connect, and setTimeout right after it.
Connect ==
    /\ layer = "none" /\ layer' = "opening" /\ entry' = "connect" /\ timers' = Arm
    /\ UNCHANGED <<side, known, destroyed, timed, mail, wire, eof, sent, troubles>>

\* The socket layer refuses at once: an error event, and no socket to destroy.
ConnectFails ==
    /\ layer = "none" /\ Trouble /\ timers' = Arm
    /\ UNCHANGED <<side, layer, entry, known, destroyed, timed, mail, wire, eof, sent>>

\* write: on a destroyed socket it is an error event instead.
WriteFails == destroyed
Write(data) ==
    IF destroyed THEN UNCHANGED <<sent, timers>>
    ELSE /\ timers' = Refreshed
         /\ sent' = IF known /\ layer = "open" THEN sent \o data ELSE sent

\* destroy: it closes the socket it knows, and tells once.
CloseFd == IF known THEN layer' = "gone" /\ entry' = "none" ELSE UNCHANGED <<layer, entry>>
DestroyHeard(events) == IF destroyed THEN <<>> ELSE events
Destroy ==
    IF destroyed THEN UNCHANGED <<layer, entry, destroyed, timers>>
    ELSE destroyed' = TRUE /\ timers' = timers \ {"kept"} /\ CloseFd
-----------------------------------------------------------------------------
(* Events.  _pump listens once connected, and connect arms a second timer. *)

Event == Head(mail)
Heard ==
    CASE entry = "connect" /\ Event.type = "CONNECT" -> <<"connect">>
      [] entry = "pump" /\ Event.type = "DATA"       -> <<"data">>
      [] entry = "pump" /\ Event.type = "CLOSE"      -> <<"end", "close">>
      [] entry = "pump" /\ Event.type = "ERROR"      -> <<"error">>
      [] OTHER                                       -> <<>>
OnConnect ==
    /\ known' = TRUE /\ entry' = "pump"
    /\ timers' = IF timed THEN {"kept"} \cup (IF timers # {} THEN {"lost"} ELSE {}) ELSE {}
    /\ UNCHANGED destroyed
\* BUG: the end of the socket is not told.
HeardEnd_Not == <<>>
HeardEnd == Heard
OnEvent ==
    CASE Heard = <<"connect">> -> OnConnect
      [] Heard = <<"data">> -> timers' = Refreshed /\ UNCHANGED <<known, entry, destroyed>>
      [] Event.type \in {"CLOSE", "ERROR"} ->
            /\ entry' = "none"
            /\ destroyed' = (destroyed \/ Heard = <<"end", "close">>)
            /\ UNCHANGED <<known, timers>>
      [] OTHER -> UNCHANGED <<known, entry, destroyed, timers>>
TimerHeard == <<"timeout">> \o DestroyHeard(<<"error", "close">>)
-----------------------------------------------------------------------------
(* The socket layer and the peer's end.                                    *)

Post(type, data) == Len(mail) < MaxMail /\ mail' = Append(mail, [type |-> type, data |-> data])
Established ==
    /\ layer = "opening" /\ Post("CONNECT", <<>>) /\ layer' = "open"
    /\ UNCHANGED <<side, entry, known, destroyed, timed, timers, wire, eof, sent, troubles>>
Deliver ==
    /\ layer = "open" /\ wire # <<>>
    /\ \E k \in 1 .. Len(wire) :
          /\ Post("DATA", SubSeq(wire, 1, k)) /\ wire' = SubSeq(wire, k + 1, Len(wire))
          /\ (k = Len(wire) /\ UNCHANGED troubles) \/ (k < Len(wire) /\ Trouble)
    /\ UNCHANGED <<side, layer, entry, known, destroyed, timed, timers, eof, sent>>
PeerGone ==
    /\ layer = "open" /\ wire = <<>> /\ eof
    /\ Post("CLOSE", <<>>) /\ layer' = "shut"
    /\ UNCHANGED <<side, entry, known, destroyed, timed, timers, wire, eof, sent, troubles>>
Reset ==
    /\ layer \in {"opening", "open"} /\ Trouble
    /\ Post("ERROR", <<>>) /\ layer' = "shut"
    /\ UNCHANGED <<side, entry, known, destroyed, timed, timers, wire, eof, sent>>
LayerSteps == Established \/ Deliver \/ PeerGone
=============================================================================

---------------------------- MODULE SocketProofs ----------------------------
(***************************************************************************)
(* What one socket's users are promised, for every message, delivery,      *)
(* timer, failure and number of requests.                                  *)
(***************************************************************************)
EXTENDS SocketProperties, SequenceTheorems, TLAPS

-----------------------------------------------------------------------------
(* EndsOnce: the inductive invariant.                                      *)

Pcs == {"idle", "connecting", "tls", "handshake", "loop", "frame", "open", "ended"}
Layers == {"none", "opening", "open", "shut", "gone"}
Over == {"shut", "gone"}
Talking == {"handshake", "loop", "frame", "open"}
IsSeq(s) == \E S : s \in Seq(S)
WsTypes ==
    /\ side \in {"client", "server"} /\ layer \in Layers /\ entry \in {"none", "connect", "pump"}
    /\ known \in BOOLEAN /\ destroyed \in BOOLEAN /\ timed \in BOOLEAN /\ timers \subseteq {"kept", "lost"}
    /\ secure \in BOOLEAN /\ pooled \in BOOLEAN /\ pc \in Pcs
    /\ result \in {"none", "true", "false", "threw", "id"}
    /\ IsSeq(mail) /\ IsSeq(told)
\* The socket layer has ended before its user hears of it.
EndsMailed == \A i \in DOMAIN mail : mail[i].type \in {"CLOSE", "ERROR"} => layer \in Over
\* Where each side may be, and what it knows of its socket there.
Stages ==
    /\ Server => pc \notin {"connecting", "open"} /\ known
    /\ ~Server => pc # "loop"
    /\ pc \in Talking \cup {"tls"} \/ pooled => known
    /\ pc \in {"idle", "connecting", "tls"} => ~pooled
    /\ pc = "tls" => secure
    /\ pc = "connecting" => entry # "pump"
    /\ ~Server /\ pc = "idle" => entry = "none" /\ timers = {}
    /\ timers # {} => timed
\* A socket is closed when it is destroyed, but for a connect that timed out, and
\* when its connection has left the pool.
Closed ==
    /\ destroyed /\ (pc # "ended" \/ pooled) => layer \in Over
    /\ pc \in Talking \cup {"ended"} /\ ~pooled =>
          \/ layer \in Over
          \/ pc = "ended" /\ result = "threw" /\ (layer = "none" \/ secure \/ (timed /\ destroyed))
    /\ pc = "ended" /\ pooled => Server /\ result = "true" /\ Callback("close") \in Range(told)
    /\ pc # "ended" => result \in {"none", "id"}
\* An end is the last that was told, and nothing follows it.
Told ==
    /\ Ends \subseteq {Len(told)}
    /\ Server /\ pc = "ended" => (result = "true" <=> Ends # {})
    /\ Server /\ pc # "ended" => Ends = {}
    /\ ~Server /\ Ends # {} => pc = "open" /\ ~pooled
WsInv == WsTypes /\ EndsMailed /\ Stages /\ Closed /\ Told

LEMMA SeqAppend ==
    ASSUME NEW s, IsSeq(s), NEW e
    PROVE  /\ IsSeq(Append(s, e)) /\ Len(s) \in Nat /\ DOMAIN s = 1 .. Len(s)
           /\ Len(Append(s, e)) = Len(s) + 1 /\ DOMAIN Append(s, e) = 1 .. Len(s) + 1
           /\ \A i \in 1 .. Len(s) : Append(s, e)[i] = s[i]
           /\ Append(s, e)[Len(s) + 1] = e
<1>1. PICK S : s \in Seq(S)
  BY DEF IsSeq
<1>2. PICK T : T = S \cup {e}
  OBVIOUS
<1>3. s \in Seq(T) /\ e \in T
  <2>1. s \in [1 .. Len(s) -> S] /\ Len(s) \in Nat
    BY <1>1, LenProperties
  <2>2. s \in [1 .. Len(s) -> T]
    BY <1>2, <2>1
  <2> QED BY <1>2, <2>1, <2>2, SeqDef
<1>4. Append(s, e) \in Seq(T)
  BY <1>3, AppendProperties
<1> QED BY <1>3, <1>4, AppendProperties, LenProperties DEF IsSeq
LEMMA SeqTail ==
    ASSUME NEW s, IsSeq(s), s # <<>>
    PROVE  /\ IsSeq(Tail(s)) /\ Len(s) \in Nat /\ DOMAIN s = 1 .. Len(s) /\ 1 \in DOMAIN s
           /\ Len(Tail(s)) = Len(s) - 1
           /\ Head(s) = s[1] /\ DOMAIN Tail(s) = 1 .. Len(s) - 1
           /\ \A i \in DOMAIN Tail(s) : i + 1 \in DOMAIN s /\ Tail(s)[i] = s[i + 1]
<1>1. PICK S : s \in Seq(S)
  BY DEF IsSeq
<1>2. Tail(s) \in Seq(S) /\ Len(Tail(s)) = Len(s) - 1 /\ \A i \in 1 .. Len(Tail(s)) : Tail(s)[i] = s[i + 1]
  BY <1>1, HeadTailProperties
<1>3. Len(s) \in Nat /\ DOMAIN s = 1 .. Len(s) /\ Len(s) # 0
  BY <1>1, LenProperties, EmptySeq
<1>4. DOMAIN Tail(s) = 1 .. Len(s) - 1
  BY <1>2, LenProperties
<1>5. Head(s) = s[1]
  BY <1>1
<1> QED BY <1>2, <1>3, <1>4, <1>5 DEF IsSeq
\* What telling does to the ends.
LEMMA TellsEnds ==
    ASSUME IsSeq(told), NEW c, Tells(c)
    PROVE  /\ IsSeq(told') /\ Len(told) \in Nat /\ Len(told') = Len(told) + 1
           /\ c.e \in {"close", "error"} => Ends' = Ends \cup {Len(told')}
           /\ c.e \notin {"close", "error"} => Ends' = Ends
           /\ c \in Range(told') /\ Range(told) \subseteq Range(told')
<1>1. /\ IsSeq(told') /\ Len(told) \in Nat /\ DOMAIN told = 1 .. Len(told)
      /\ Len(told') = Len(told) + 1 /\ DOMAIN told' = 1 .. Len(told) + 1
      /\ \A i \in 1 .. Len(told) : told'[i] = told[i]
      /\ told'[Len(told) + 1] = c
  BY SeqAppend DEF Tells
<1>2. c \in Range(told') /\ Range(told) \subseteq Range(told')
  BY <1>1 DEF Range
<1>3. \A i : i \in Ends' <=> i \in 1 .. Len(told) + 1 /\ told'[i].e \in {"close", "error"}
  BY <1>1 DEF Ends
<1>4. \A i : i \in Ends <=> i \in 1 .. Len(told) /\ told[i].e \in {"close", "error"}
  BY <1>1 DEF Ends
<1>5. \A i : i \in 1 .. Len(told) + 1 <=> i \in 1 .. Len(told) \/ i = Len(told) + 1
  BY <1>1
<1>6. \A i \in 1 .. Len(told) : i # Len(told) + 1
  BY <1>1
<1> QED BY <1>1, <1>2, <1>3, <1>4, <1>5, <1>6
LEMMA EndsStay == ASSUME told' = told PROVE Ends' = Ends /\ Len(told') = Len(told)
BY DEF Ends
\* When the connection was closed.
LEMMA CloseDoes ==
    ASSUME WsTypes, Stages, Closed, CloseWebsocket
    PROVE  /\ pooled' = FALSE /\ entry' \in {"none", "connect", "pump"} /\ layer' \in Layers
           /\ destroyed' \in BOOLEAN /\ timers' \subseteq timers
           /\ layer \in Over => layer' \in Over
           /\ pooled => destroyed' /\ layer' \in Over
           /\ entry' \in {entry, "none"}
           /\ ~pooled => UNCHANGED <<layer, entry, destroyed, timers>>
BY DEF WsTypes, Stages, Closed, CloseWebsocket, Destroy, CloseFd, Layers, Over
\* What a step leaves alone.
Calm == UNCHANGED <<side, known, timed, mail, secure>>
SocketCalm == UNCHANGED <<layer, entry, destroyed>>
LEMMA MailStays ==
    ASSUME EndsMailed, mail' = mail, layer \in Over => layer' \in Over
    PROVE  EndsMailed'
BY DEF EndsMailed
LEMMA Timing ==
    ASSUME WsTypes, Stages
    PROVE  /\ Refreshed \subseteq {"kept", "lost"} /\ (Refreshed # {} => timed)
           /\ Arm \subseteq {"kept", "lost"} /\ (Arm # {} => timed)
BY DEF WsTypes, Stages, Refreshed, Arm
LEMMA WriteTimes ==
    ASSUME WsTypes, Stages, NEW data, Write(data)
    PROVE  timers' \subseteq {"kept", "lost"} /\ (timers' # {} => timed)
BY Timing DEF Write, WsTypes, Stages
\* A step of a connection that tells at most once, and may close it.
LEMMA Steps ==
    ASSUME WsInv, Calm, (SocketCalm /\ pooled' = pooled) \/ CloseWebsocket,
           timers' \subseteq {"kept", "lost"}, timers' # {} => timed,
           pc \notin {"idle", "connecting", "tls"}, pc' \in Pcs \ {"idle", "connecting", "tls"},
           Server => pc' # "open", ~Server => pc' # "loop",
           result' \in {"none", "true", "false", "threw", "id"},
           IsSeq(told'), Told',
           pc' # "ended" => result' \in {"none", "id"},
           pc' = "ended" =>
               \/ pc = "ended" /\ result' = result /\ told' = told
               \/ pc # "ended" /\ ~pooled'
               \/ pc # "ended" /\ Server /\ result' = "true" /\ Callback("close") \in Range(told'),
           pc = "ended" => pc' = "ended"
    PROVE  WsInv'
<1>1. WsTypes /\ EndsMailed /\ Stages /\ Closed /\ Told /\ (Server' <=> Server)
  BY DEF WsInv, Calm, Server
<1>2. CASE SocketCalm /\ pooled' = pooled
  <2>1. WsTypes'
    BY <1>1, <1>2 DEF WsTypes, Calm, SocketCalm, Pcs, Layers
  <2>2. EndsMailed'
    BY <1>1, <1>2, MailStays DEF Calm, SocketCalm
  <2>3. Stages'
    BY <1>1, <1>2 DEF WsTypes, Stages, Calm, SocketCalm, Pcs, Talking
  <2>4. Closed'
    BY <1>1, <1>2 DEF WsTypes, Stages, Closed, Calm, SocketCalm, Pcs, Talking
  <2> QED BY <2>1, <2>2, <2>3, <2>4 DEF WsInv
<1>3. CASE CloseWebsocket
  <2>1. /\ pooled' = FALSE /\ entry' \in {"none", "connect", "pump"} /\ layer' \in Layers
        /\ destroyed' \in BOOLEAN
        /\ layer \in Over => layer' \in Over
        /\ pooled => destroyed' /\ layer' \in Over
        /\ entry' \in {entry, "none"}
        /\ ~pooled => UNCHANGED <<layer, entry, destroyed, timers>>
    BY <1>1, <1>3, CloseDoes
  <2>2. WsTypes'
    BY <1>1, <2>1 DEF WsTypes, Calm, Pcs
  <2>3. EndsMailed'
    BY <1>1, <2>1, MailStays DEF Calm
  <2>4. Stages'
    BY <1>1, <2>1 DEF WsTypes, Stages, Calm, Pcs, Talking
  <2>5. Closed'
    BY <1>1, <2>1 DEF WsTypes, Stages, Closed, Calm, Pcs, Talking
  <2> QED BY <2>2, <2>3, <2>4, <2>5 DEF WsInv
<1> QED BY <1>2, <1>3
LEMMA ToldStays ==
    ASSUME WsTypes, Told, side' = side, told' = told,
           Server /\ pc' = "ended" => IF pc = "ended" THEN result' = result ELSE result' # "true",
           Server /\ pc' # "ended" => pc # "ended",
           ~Server => (pc' = pc \/ pc # "open") /\ (pooled' => pooled \/ pc # "open")
    PROVE  IsSeq(told') /\ Told'
BY EndsStay DEF WsTypes, Told, Server
LEMMA TellsOn ==
    ASSUME WsTypes, Told, side' = side, NEW c, Tells(c), pc # "ended", ~Server => Ends = {},
           c.e \in {"close", "error"} =>
               IF Server THEN pc' = "ended" /\ result' = "true" ELSE pc' = "open" /\ ~pooled',
           c.e \notin {"close", "error"} => (Server /\ pc' = "ended" => result' # "true")
    PROVE  IsSeq(told') /\ Told'
<1>1. /\ IsSeq(told') /\ Len(told) \in Nat /\ Len(told') = Len(told) + 1
      /\ c.e \in {"close", "error"} => Ends' = Ends \cup {Len(told')}
      /\ c.e \notin {"close", "error"} => Ends' = Ends
  BY TellsEnds DEF WsTypes
<1>2. Ends = {} /\ (Server' <=> Server)
  BY DEF Told, Server
<1> QED BY <1>1, <1>2 DEF Told

LEMMA CallbackIs == \A e : Callback(e).e = e
BY DEF Callback
LEMMA ReadHandshakeKeeps == ASSUME WsInv, ReadHandshake PROVE WsInv'
<1>1. /\ WsTypes /\ Stages /\ Told /\ Calm /\ Server /\ pc = "handshake"
  BY DEF WsInv, ReadHandshake, rest, calm, Calm
<1>2. CASE rbuf = <<>> /\ rclosed /\ SocketFails /\ UNCHANGED <<sent, rbuf>>
  <2>1. pc' = "ended" /\ result' = "true" /\ CloseWebsocket
    BY <1>2 DEF SocketFails
  <2>2. PICK c : Tells(c) /\ c.e \in {"close", "error"}
    BY <1>2, CallbackIs DEF SocketFails
  <2>3. IsSeq(told') /\ Told'
    BY <1>1, <2>1, <2>2, TellsOn DEF Calm
  <2>4. pooled' = FALSE /\ timers' \subseteq timers
    BY <1>1, <2>1, CloseDoes DEF WsInv
  <2> QED BY <1>1, <2>1, <2>3, <2>4, Steps DEF WsTypes, Stages, Pcs
<1>3. CASE /\ Write(<<[k |-> IF rbuf[1].ok THEN "101" ELSE "400"]>>)
           /\ Tells(Callback(IF rbuf[1].ok THEN "handshake" ELSE "close"))
           /\ pc' = IF rbuf[1].ok THEN "loop" ELSE "ended"
           /\ result' = IF rbuf[1].ok THEN result ELSE "true"
           /\ UNCHANGED <<layer, entry, destroyed, pooled>>
  <2>1. timers' \subseteq {"kept", "lost"} /\ (timers' # {} => timed)
    BY <1>1, <1>3, WriteTimes
  <2>2. SocketCalm /\ pooled' = pooled
    BY <1>3 DEF SocketCalm
  <2>3. CASE rbuf[1].ok
    <3>1. Tells(Callback("handshake")) /\ pc' = "loop" /\ result' = result
      BY <1>3, <2>3
    <3>2. IsSeq(told') /\ Told'
      BY <1>1, <3>1, CallbackIs, TellsOn DEF Calm
    <3> QED BY <1>1, <2>1, <2>2, <3>1, <3>2, Steps DEF WsTypes, WsInv, Closed, Pcs
  <2>4. CASE ~rbuf[1].ok
    <3>1. Tells(Callback("close")) /\ pc' = "ended" /\ result' = "true"
      BY <1>3, <2>4
    <3>2. IsSeq(told') /\ Told' /\ Callback("close") \in Range(told')
      BY <1>1, <3>1, CallbackIs, TellsOn, TellsEnds DEF WsTypes, Calm
    <3> QED BY <1>1, <2>1, <2>2, <3>1, <3>2, Steps DEF Pcs
  <2> QED BY <2>3, <2>4
<1> QED BY <1>2, <1>3 DEF ReadHandshake
LEMMA LoopHeadKeeps == ASSUME WsInv, LoopHead PROVE WsInv'
<1>1. /\ WsTypes /\ Stages /\ Told /\ Closed /\ Calm /\ Server /\ pc = "loop"
      /\ SocketCalm /\ pooled' = pooled /\ timers' = timers
  BY DEF WsInv, LoopHead, socketVars, Calm, SocketCalm
<1>2. timers' \subseteq {"kept", "lost"} /\ (timers' # {} => timed)
  BY <1>1 DEF WsTypes, Stages
<1>3. CASE pooled /\ pc' = "frame" /\ UNCHANGED <<told, result>>
  <2>1. IsSeq(told') /\ Told'
    BY <1>1, <1>3, ToldStays DEF Calm
  <2> QED BY <1>1, <1>2, <1>3, <2>1, Steps DEF WsTypes, Closed, Pcs
<1>4. CASE ~pooled /\ pc' = "ended" /\ result' = "true" /\ Tells(Callback("close"))
  <2>1. IsSeq(told') /\ Told'
    BY <1>1, <1>4, CallbackIs, TellsOn DEF Calm
  <2> QED BY <1>1, <1>2, <1>4, <2>1, Steps DEF Pcs
<1> QED BY <1>3, <1>4 DEF LoopHead
\* What Gather tells is no end.
LEMMA GatherTells ==
    ASSUME NEW f, Gather(f)
    PROVE  told' = told \/ \E c : Tells(c) /\ c.e \notin {"close", "error"}
BY DEF Gather, Message
LEMMA ResolveAcceptKeeps == ASSUME WsInv, ResolveAccept PROVE WsInv'
<1>1. WsTypes /\ Stages /\ Told /\ Closed /\ Calm /\ Server /\ pc = "frame"
  BY DEF WsInv, ResolveAccept, rest, calm, Calm
<1>2. PICK f : f = ReadFrame
  OBVIOUS
<1>3. CASE SocketFails
  <2>1. pc' = "ended" /\ result' = "true" /\ CloseWebsocket
    BY <1>3 DEF SocketFails
  <2>2. PICK c : Tells(c) /\ c.e \in {"close", "error"}
    BY <1>3, CallbackIs DEF SocketFails
  <2>3. IsSeq(told') /\ Told'
    BY <1>1, <2>1, <2>2, TellsOn DEF Calm
  <2>4. pooled' = FALSE /\ timers' \subseteq timers
    BY <1>1, <2>1, CloseDoes
  <2> QED BY <1>1, <2>1, <2>3, <2>4, Steps DEF WsTypes, Stages, Pcs
<1>4. CASE OtherFails
  <2>1. pc' = "ended" /\ result' = "false" /\ CloseWebsocket /\ told' = told
    BY <1>4 DEF OtherFails
  <2>2. IsSeq(told') /\ Told'
    BY <1>1, <2>1, ToldStays DEF Calm
  <2>3. pooled' = FALSE /\ timers' \subseteq timers
    BY <1>1, <2>1, CloseDoes
  <2> QED BY <1>1, <2>1, <2>2, <2>3, Steps DEF WsTypes, Stages, Pcs
<1>5. CASE /\ UNCHANGED <<layer, entry, destroyed, pooled>>
           /\ \/ /\ f.op = "close" /\ Write(WriteFrame("close", Nothing))
                 /\ Tells(Callback("close")) /\ pc' = "ended" /\ result' = "true"
              \/ /\ f.op = "ping" /\ Write(WriteFrame("pong", f.p))
                 /\ Tells(Callback("ping")) /\ pc' = "loop" /\ UNCHANGED result
              \/ /\ f.op = "pong" /\ Tells(Callback("pong")) /\ pc' = "loop"
                 /\ UNCHANGED <<timers, result>>
              \/ Gather(f) /\ pc' = "loop" /\ UNCHANGED <<timers, result>>
  <2>1. SocketCalm /\ pooled' = pooled
    BY <1>5 DEF SocketCalm
  <2>2. timers' \subseteq {"kept", "lost"} /\ (timers' # {} => timed)
    BY <1>1, <1>5, WriteTimes DEF WsTypes, Stages
  <2>3. CASE Tells(Callback("close")) /\ pc' = "ended" /\ result' = "true"
    <3>1. IsSeq(told') /\ Told' /\ Callback("close") \in Range(told')
      BY <1>1, <2>3, CallbackIs, TellsOn, TellsEnds DEF WsTypes, Calm
    <3> QED BY <1>1, <2>1, <2>2, <2>3, <3>1, Steps DEF Pcs
  <2>4. CASE /\ pc' = "loop" /\ result' = result
             /\ told' = told \/ \E c : Tells(c) /\ c.e \notin {"close", "error"}
    <3>1. IsSeq(told') /\ Told'
      BY <1>1, <2>4, TellsOn, ToldStays DEF Calm
    <3> QED BY <1>1, <2>1, <2>2, <2>4, <3>1, Steps DEF WsTypes, Closed, Pcs
  <2> QED BY <1>5, <2>3, <2>4, CallbackIs, GatherTells
<1> QED BY <1>2, <1>3, <1>4, <1>5 DEF ResolveAccept
LEMMA AcceptKeeps == ASSUME WsInv, Accept PROVE WsInv'
<1>1. /\ WsTypes /\ EndsMailed /\ Stages /\ Told /\ Closed /\ Calm /\ Server /\ pc = "idle" /\ ~pooled
      /\ SocketCalm /\ UNCHANGED <<timers, result>> /\ (Server' <=> Server)
  BY DEF WsInv, Accept, socketVars, Calm, SocketCalm, Stages, Server
<1>2. CASE secure /\ pc' = "tls" /\ UNCHANGED <<pooled, told>>
  <2>1. IsSeq(told') /\ Told'
    BY <1>1, <1>2, ToldStays DEF Calm
  <2> QED BY <1>1, <1>2, <2>1, MailStays
          DEF WsInv, WsTypes, Stages, Closed, Calm, SocketCalm, Pcs, Talking
<1>3. CASE pc' = "handshake" /\ pooled' = TRUE /\ Tells(Callback("connect"))
  <2>1. IsSeq(told') /\ Told'
    BY <1>1, <1>3, CallbackIs, TellsOn DEF Calm
  <2> QED BY <1>1, <1>3, <2>1, MailStays
          DEF WsInv, WsTypes, Stages, Closed, Calm, SocketCalm, Pcs, Talking
<1> QED BY <1>2, <1>3 DEF Accept, Begins
LEMMA WsConnectKeeps == ASSUME WsInv, WsConnect PROVE WsInv'
<1>1. /\ WsTypes /\ EndsMailed /\ Stages /\ Told /\ Closed /\ Calm /\ ~Server /\ pc = "idle" /\ ~pooled
      /\ layer = "none" /\ timers' = Arm /\ UNCHANGED <<destroyed, pooled, told>> /\ (Server' <=> Server)
      /\ \/ pc' = "connecting" /\ layer' = "opening" /\ entry' = "connect" /\ UNCHANGED result
         \/ pc' = "ended" /\ result' = "threw" /\ UNCHANGED <<layer, entry>>
  BY DEF WsInv, WsConnect, Connect, ConnectFails, Calm, Stages, Server
<1>2. IsSeq(told') /\ Told'
  BY <1>1, ToldStays DEF Calm
<1>3. timers' \subseteq {"kept", "lost"} /\ (timers' # {} => timed)
  BY <1>1, Timing
<1>4. EndsMailed'
  BY <1>1, MailStays DEF Over, Calm
<1> QED BY <1>1, <1>2, <1>3, <1>4
        DEF WsInv, WsTypes, Stages, Closed, Calm, Pcs, Talking, Layers, Over
LEMMA WriteHandshakeKeeps == ASSUME WsInv, WriteHandshake PROVE WsInv'
<1>1. /\ WsTypes /\ Stages /\ Told /\ Closed /\ Calm /\ ~Server /\ pc = "handshake" /\ told' = told
  BY DEF WsInv, WriteHandshake, rest, calm, Calm
<1>2. CASE pc' = "open" /\ result' = "id" /\ UNCHANGED <<pooled, noSocketChange>>
  <2>1. IsSeq(told') /\ Told'
    BY <1>1, <1>2, ToldStays DEF Calm
  <2>2. SocketCalm /\ timers' \subseteq {"kept", "lost"} /\ (timers' # {} => timed)
    BY <1>1, <1>2 DEF noSocketChange, SocketCalm, WsTypes, Stages
  <2> QED BY <1>1, <1>2, <2>1, <2>2, Steps DEF Pcs
<1>3. CASE pc' = "ended" /\ result' = "threw" /\ CloseWebsocket
  <2>1. pooled' = FALSE /\ timers' \subseteq timers
    BY <1>1, <1>3, CloseDoes
  <2>2. IsSeq(told') /\ Told'
    BY <1>1, <1>3, <2>1, ToldStays DEF Calm
  <2> QED BY <1>1, <1>3, <2>1, <2>2, Steps DEF WsTypes, Stages, Pcs
<1> QED BY <1>2, <1>3 DEF WriteHandshake
LEMMA StartReadKeeps == ASSUME WsInv, StartRead PROVE WsInv'
<1>1. /\ WsTypes /\ EndsMailed /\ Stages /\ Told /\ Closed /\ Calm /\ SocketCalm /\ ~Server /\ pc = "open"
      /\ pc' = "frame" /\ pooled /\ UNCHANGED <<pooled, told, result, timers>>
  BY DEF WsInv, StartRead, socketVars, wsState, Calm, SocketCalm
<1>2. IsSeq(told') /\ Told'
  <2>1. Ends = {} /\ Ends' = Ends
    BY <1>1, EndsStay DEF Told
  <2> QED BY <1>1, <2>1 DEF Told, WsTypes
<1>3. timers' \subseteq {"kept", "lost"} /\ (timers' # {} => timed)
  BY <1>1 DEF WsTypes, Stages
<1> QED BY <1>1, <1>2, <1>3, Steps DEF Pcs, Closed, WsTypes
LEMMA WsReadKeeps == ASSUME WsInv, WsRead PROVE WsInv'
<1>1. /\ WsTypes /\ Stages /\ Told /\ Closed /\ Calm /\ ~Server /\ pc = "frame" /\ Ends = {} /\ result' = result
  BY DEF WsInv, WsRead, rest, calm, Calm, Told
<1>2. PICK f : f = ReadFrame
  OBVIOUS
<1>3. CASE f.op = "close" /\ Tells(Callback("close")) /\ pc' = "open" /\ CloseWebsocket
  <2>1. pooled' = FALSE /\ timers' \subseteq timers
    BY <1>1, <1>3, CloseDoes
  <2>2. IsSeq(told') /\ Told'
    BY <1>1, <1>3, <2>1, CallbackIs, TellsOn DEF Calm
  <2> QED BY <1>1, <1>3, <2>1, <2>2, Steps DEF WsTypes, Stages, Closed, Pcs
<1>4. CASE /\ SocketCalm /\ pooled' = pooled /\ pc' \in {"open", "frame"}
           /\ timers' \subseteq {"kept", "lost"} /\ (timers' # {} => timed)
           /\ told' = told \/ \E c : Tells(c) /\ c.e \notin {"close", "error"}
  <2>1. IsSeq(told') /\ Told'
    BY <1>1, <1>4, TellsOn, ToldStays DEF Calm
  <2> QED BY <1>1, <1>4, <2>1, Steps DEF WsTypes, Closed, Pcs
<1>5. timers \subseteq {"kept", "lost"} /\ (timers # {} => timed)
  BY <1>1 DEF WsTypes, Stages
<1>6. noSocketChange' = noSocketChange => SocketCalm /\ timers' = timers
  BY DEF noSocketChange, SocketCalm
<1>7. Tells(Callback("threw")) => \E c : Tells(c) /\ c.e \notin {"close", "error"}
  BY CallbackIs
<1>8. CASE /\ f.op = "ping" /\ Write(WriteFrame("pong", f.p))
           /\ UNCHANGED <<layer, entry, destroyed, told, pc, pooled>>
  BY <1>1, <1>4, <1>8, WriteTimes DEF SocketCalm
<1>9. CASE Gather(f) /\ pc' \in {"open", pc} /\ UNCHANGED <<noSocketChange, pooled>>
  BY <1>1, <1>4, <1>5, <1>6, <1>9, GatherTells
<1>10. CASE pc' = "open" /\ Tells(Callback("threw")) /\ UNCHANGED <<noSocketChange, pooled>>
  BY <1>1, <1>4, <1>5, <1>6, <1>7, <1>10
<1>11. CASE UNCHANGED <<noSocketChange, told, pc, pooled>>
  BY <1>1, <1>4, <1>5, <1>6, <1>11
<1> QED BY <1>2, <1>3, <1>8, <1>9, <1>10, <1>11 DEF WsRead
\* The user's calls, which may come at any point, also after an end.
LEMMA CallKeeps ==
    ASSUME WsInv, pooled, Calm, (SocketCalm /\ pooled' = pooled) \/ CloseWebsocket,
           timers' \subseteq {"kept", "lost"}, timers' # {} => timed,
           UNCHANGED <<pc, told, result>>
    PROVE  WsInv'
<1>1. WsTypes /\ Stages /\ Told /\ Closed
  BY DEF WsInv
<1>2. IsSeq(told') /\ Told'
  BY <1>1, ToldStays DEF Calm
<1>3. pc \in Pcs \ {"idle", "connecting", "tls"} /\ (Server => pc # "open") /\ (~Server => pc # "loop")
  BY <1>1 DEF WsTypes, Stages
<1> QED BY <1>1, <1>2, <1>3, Steps DEF WsTypes, Closed
LEMMA CallsKeep ==
    ASSUME WsInv, (\E len \in UserLengths : WsWrite(len)) \/ WsPing \/ WsClose
    PROVE  WsInv'
<1>1. WsTypes /\ Stages /\ Closed /\ pooled /\ Calm /\ UNCHANGED <<pc, told, result>>
  BY DEF WsInv, WsWrite, WsPing, WsClose, UserCall, Calm, calm
<1>2. ASSUME NEW len \in UserLengths, WsWrite(len) PROVE WsInv'
  <2>1. SocketCalm /\ pooled' = pooled
    BY <1>2 DEF WsWrite, SocketCalm
  <2>2. timers' \subseteq {"kept", "lost"} /\ (timers' # {} => timed)
    BY <1>1, <1>2, WriteTimes DEF WsWrite
  <2> QED BY <1>1, <2>1, <2>2, CallKeeps
<1>3. CASE WsPing
  <2>1. SocketCalm /\ pooled' = pooled
    BY <1>3 DEF WsPing, SocketCalm
  <2>2. timers' \subseteq {"kept", "lost"} /\ (timers' # {} => timed)
    BY <1>1, <1>3, WriteTimes DEF WsPing
  <2> QED BY <1>1, <2>1, <2>2, CallKeeps
<1>4. CASE WsClose
  <2>1. CloseWebsocket
    BY <1>4 DEF WsClose
  <2>2. timers' \subseteq timers
    BY <1>1, <2>1, CloseDoes
  <2> QED BY <1>1, <2>1, <2>2, CallKeeps DEF WsTypes, Stages
<1> QED BY <1>2, <1>3, <1>4
-----------------------------------------------------------------------------
(* Events of the socket.                                                   *)

\* What is heard tells what the event was, and who listens.
LEMMA HeardIs ==
    ASSUME entry \in {"none", "connect", "pump"}
    PROVE  /\ Heard = <<"connect">> => entry = "connect" /\ Event.type = "CONNECT"
           /\ Heard = <<"data">> => entry = "pump" /\ Event.type = "DATA"
           /\ Heard = <<"end", "close">> => entry = "pump" /\ Event.type = "CLOSE"
           /\ Heard = <<"error">> => entry = "pump" /\ Event.type = "ERROR"
           /\ Heard \in {<<"connect">>, <<"data">>, <<"end", "close">>, <<"error">>, <<>>}
BY DEF Heard
LEMMA EventDoes ==
    ASSUME WsTypes, EndsMailed, Stages, mail # <<>>, mail' = Tail(mail), OnEvent, layer' = layer
    PROVE  /\ IsSeq(mail') /\ EndsMailed' /\ known' \in BOOLEAN /\ destroyed' \in BOOLEAN
           /\ timers' \subseteq {"kept", "lost"} /\ (timers' # {} => timed)
           /\ entry' \in {"none", "connect", "pump"} /\ (known => known')
           /\ (destroyed => destroyed') /\ (destroyed' => destroyed \/ layer \in Over)
           /\ Heard = <<"connect">> => known' /\ destroyed' = destroyed
           /\ Heard # <<"connect">> => entry' \in {entry, "none"} /\ known' = known
           /\ entry = "none" => entry' = "none" /\ (timers = {} => timers' = {})
<1>1. /\ IsSeq(mail') /\ 1 \in DOMAIN mail /\ Head(mail) = mail[1]
      /\ \A i \in DOMAIN mail' : i + 1 \in DOMAIN mail /\ mail'[i] = mail[i + 1]
  BY SeqTail DEF WsTypes
<1>2. EndsMailed' /\ (Event.type \in {"CLOSE", "ERROR"} => layer \in Over)
  BY <1>1 DEF EndsMailed, Event
<1>3. CASE Heard = <<"connect">>
  <2>1. OnConnect /\ entry = "connect"
    BY <1>3, HeardIs DEF OnEvent, WsTypes
  <2> QED BY <1>1, <1>2, <1>3, <2>1 DEF OnConnect, WsTypes, Stages
<1>4. CASE Heard = <<"data">>
  <2>1. timers' = Refreshed /\ UNCHANGED <<known, entry, destroyed>> /\ entry = "pump"
    BY <1>4, HeardIs DEF OnEvent, WsTypes
  <2> QED BY <1>1, <1>2, <1>4, <2>1, Timing DEF WsTypes
<1>5. CASE Event.type \in {"CLOSE", "ERROR"} /\ Heard \notin {<<"connect">>, <<"data">>}
  <2>1. entry' = "none" /\ destroyed' = (destroyed \/ Heard = <<"end", "close">>) /\ UNCHANGED <<known, timers>>
    BY <1>5 DEF OnEvent
  <2> QED BY <1>1, <1>2, <1>5, <2>1 DEF WsTypes, Stages
<1>6. CASE Event.type \notin {"CLOSE", "ERROR"} /\ Heard \notin {<<"connect">>, <<"data">>}
  <2>1. UNCHANGED <<known, entry, destroyed, timers>>
    BY <1>6 DEF OnEvent
  <2> QED BY <1>1, <1>2, <1>6, <2>1 DEF WsTypes, Stages
<1> QED BY <1>3, <1>4, <1>5, <1>6
LEMMA WsEventKeeps == ASSUME WsInv, WsEvent PROVE WsInv'
<1>1. /\ WsTypes /\ EndsMailed /\ Stages /\ Told /\ Closed
      /\ mail # <<>> /\ mail' = Tail(mail) /\ OnEvent
      /\ UNCHANGED <<side, layer, timed, secure>> /\ (Server' <=> Server)
  BY DEF WsInv, WsEvent, Server
<1>2. /\ IsSeq(mail') /\ EndsMailed' /\ known' \in BOOLEAN /\ destroyed' \in BOOLEAN
      /\ timers' \subseteq {"kept", "lost"} /\ (timers' # {} => timed)
      /\ entry' \in {"none", "connect", "pump"} /\ (known => known')
      /\ (destroyed => destroyed') /\ (destroyed' => destroyed \/ layer \in Over)
      /\ Heard = <<"connect">> => known' /\ destroyed' = destroyed
      /\ Heard # <<"connect">> => entry' \in {entry, "none"} /\ known' = known
      /\ entry = "none" => entry' = "none" /\ (timers = {} => timers' = {})
  BY <1>1, EventDoes
<1>3. ASSUME UNCHANGED <<pc, pooled, told, result>>, Heard = <<"connect">> => pc # "connecting"
      PROVE  WsInv'
  <2>1. IsSeq(told') /\ Told'
    BY <1>1, <1>3, ToldStays
  <2>2. WsTypes'
    BY <1>1, <1>2, <1>3, <2>1 DEF WsTypes
  <2>3. Stages'
    BY <1>1, <1>2, <1>3 DEF Stages, WsTypes
  <2>4. Closed'
    BY <1>1, <1>2, <1>3 DEF Closed, WsTypes
  <2> QED BY <1>2, <2>1, <2>2, <2>3, <2>4 DEF WsInv
<1>4. CASE Heard = <<"connect">> /\ UNCHANGED <<told, result>>
           /\ IF pc = "connecting" THEN Greets ELSE UNCHANGED <<pc, pooled>>
  <2>1. CASE pc # "connecting"
    BY <1>3, <1>4, <2>1
  <2>2. CASE pc = "connecting"
    <3>1. \/ secure /\ pc' = "tls" /\ pooled' = pooled
          \/ pc' = "handshake" /\ pooled' = TRUE
      BY <1>4, <2>2 DEF Greets
    <3>2. IsSeq(told') /\ Told'
      BY <1>1, <1>4, <2>2, <3>1, ToldStays DEF Stages
    <3>3. WsTypes'
      BY <1>1, <1>2, <1>4, <3>1, <3>2 DEF WsTypes, Pcs
    <3>4. Stages'
      BY <1>1, <1>2, <1>4, <2>2, <3>1 DEF Stages, WsTypes, Talking
    <3>5. Closed'
      BY <1>1, <1>2, <1>4, <2>2, <3>1 DEF Closed, WsTypes, Stages, Talking
    <3> QED BY <1>2, <3>2, <3>3, <3>4, <3>5 DEF WsInv
  <2> QED BY <2>1, <2>2
<1>5. CASE Shakes /\ Upgraded
  <2>1. pc = "tls" /\ Heard # <<"connect">> /\ ~pooled /\ secure
    BY <1>1, <1>5 DEF Shakes, Stages
  <2>2. CASE /\ pc' = "handshake" /\ pooled' = TRUE /\ result' = result
             /\ told' = told \/ (Server /\ Tells(Callback("connect")))
    <3>1. IsSeq(told') /\ Told'
      BY <1>1, <2>1, <2>2, CallbackIs, TellsOn, ToldStays
    <3>2. WsTypes'
      BY <1>1, <1>2, <2>2, <3>1 DEF WsTypes, Pcs
    <3>3. Stages'
      BY <1>1, <1>2, <2>1, <2>2 DEF Stages, WsTypes, Talking
    <3>4. Closed'
      BY <1>1, <1>2, <2>1, <2>2 DEF Closed, WsTypes, Stages, Talking
    <3> QED BY <1>2, <3>1, <3>2, <3>3, <3>4 DEF WsInv
  <2>3. CASE pc' = "ended" /\ result' = "threw" /\ UNCHANGED <<pooled, told>>
    <3>1. IsSeq(told') /\ Told'
      BY <1>1, <2>1, <2>3, ToldStays
    <3>2. WsTypes'
      BY <1>1, <1>2, <2>3, <3>1 DEF WsTypes, Pcs
    <3>3. Stages'
      BY <1>1, <1>2, <2>1, <2>3 DEF Stages, WsTypes, Talking
    <3>4. Closed'
      BY <1>1, <1>2, <2>1, <2>3 DEF Closed, WsTypes, Stages, Talking
    <3> QED BY <1>2, <3>1, <3>2, <3>3, <3>4 DEF WsInv
  <2> QED BY <1>5, <2>2, <2>3 DEF Upgraded
<1>6. CASE /\ Heard # <<"connect">> /\ UNCHANGED <<pooled, told>>
           /\ IF pc = "connecting" /\ Heard # <<>> THEN pc' = "ended" /\ result' = "threw"
              ELSE UNCHANGED <<pc, result>>
  <2>1. pc = "connecting" => Heard = <<>>
    BY <1>1, <1>6, HeardIs DEF WsTypes, Stages
  <2> QED BY <1>3, <1>6, <2>1
<1> QED BY <1>4, <1>5, <1>6 DEF WsEvent
LEMMA WsTimerKeeps == ASSUME WsInv, NEW t \in timers, WsTimer(t) PROVE WsInv'
<1>1. /\ WsTypes /\ EndsMailed /\ Stages /\ Told /\ Closed /\ Calm /\ timers' \subseteq timers /\ timed
      /\ UNCHANGED <<pooled, told>> /\ (Server' <=> Server)
      /\ IF destroyed THEN UNCHANGED <<layer, entry, destroyed>> ELSE destroyed' = TRUE /\ CloseFd
      /\ IF pc = "connecting" THEN pc' = "ended" /\ result' = "threw" ELSE UNCHANGED <<pc, result>>
  BY DEF WsInv, WsTimer, Calm, Server, Stages
<1>2. /\ layer' \in Layers /\ entry' \in {entry, "none"} /\ destroyed' = TRUE
      /\ layer \in Over => layer' \in Over
      /\ ~destroyed /\ known => layer' \in Over
  BY <1>1 DEF CloseFd, WsTypes, Layers, Over
<1>3. EndsMailed'
  BY <1>1, <1>2, MailStays DEF Calm
<1>4. IsSeq(told') /\ Told'
  BY <1>1, ToldStays DEF Stages, Calm
<1>5. WsTypes'
  BY <1>1, <1>2, <1>4 DEF WsTypes, Calm, Pcs
<1>6. Stages'
  BY <1>1, <1>2 DEF WsTypes, Stages, Calm, Talking
<1>7. ~known => pc \in {"connecting", "ended"} /\ ~pooled
  BY <1>1 DEF WsTypes, Stages, Pcs, Talking
<1>8. Closed'
  BY <1>1, <1>2, <1>7 DEF WsTypes, Stages, Closed, Calm, Talking
<1> QED BY <1>3, <1>4, <1>5, <1>6, <1>8 DEF WsInv
\* The peer, and the socket layer.
LEMMA WsStays ==
    ASSUME WsInv, UNCHANGED <<side, layer, entry, known, destroyed, timed, timers, mail>>,
           UNCHANGED <<secure, pc, pooled, told, result>>
    PROVE  WsInv'
<1>1. Server' = Server /\ Ends' = Ends
  BY DEF Server, Ends
<1> QED BY <1>1 DEF WsInv, WsTypes, EndsMailed, Stages, Closed, Told
LEMMA PeerKeeps ==
    ASSUME WsInv, PeerGreets \/ PeerAnswers \/ PeerFrames \/ PeerEnds
    PROVE  WsInv'
<1>1. CASE PeerGreets
  BY <1>1, WsStays DEF PeerGreets, noPeer, wsState
<1>2. CASE PeerAnswers
  BY <1>2, WsStays DEF PeerAnswers, noPeer, wsState
<1>3. CASE PeerFrames
  BY <1>3, WsStays DEF PeerFrames, PeerWhole, PeerPart, PeerControl, noPeer, wsState
<1>4. CASE PeerEnds
  BY <1>4, WsStays DEF PeerEnds, wsVars, wsState
<1> QED BY <1>1, <1>2, <1>3, <1>4
LEMMA LayerKeeps == ASSUME WsInv, LayerSteps \/ Reset, UNCHANGED wsVars PROVE WsInv'
<1>1. /\ WsTypes /\ EndsMailed /\ Stages /\ Told /\ Closed
      /\ UNCHANGED <<secure, pc, pooled, told, result, side, entry, known, destroyed, timed, timers>>
      /\ layer # "none"
  BY DEF WsInv, wsVars, wsState, LayerSteps, Established, Deliver, PeerGone, Reset
<1>2. PICK e : /\ mail' = Append(mail, e) /\ layer' \in Layers
               /\ layer \in Over => layer' \in Over
               /\ e.type \in {"CLOSE", "ERROR"} => layer' \in Over
  <2>1. \A type, data : [type |-> type, data |-> data].type = type
    OBVIOUS
  <2>2. ASSUME NEW type, NEW data, Post(type, data),
               layer' \in Layers /\ (layer \in Over => layer' \in Over),
               type \in {"CLOSE", "ERROR"} => layer' \in Over
        PROVE  \E e : /\ mail' = Append(mail, e) /\ layer' \in Layers
                      /\ layer \in Over => layer' \in Over
                      /\ e.type \in {"CLOSE", "ERROR"} => layer' \in Over
    BY <2>1, <2>2 DEF Post
  <2>3. CASE Established
    <3>1. Post("CONNECT", <<>>) /\ layer = "opening" /\ layer' = "open"
      BY <2>3 DEF Established
    <3> QED BY <2>2, <3>1 DEF Layers, Over
  <2>4. CASE Deliver
    <3>1. PICK data : Post("DATA", data) /\ layer' = layer
      BY <2>4 DEF Deliver
    <3> QED BY <1>1, <2>2, <3>1 DEF WsTypes
  <2>5. CASE PeerGone
    <3>1. Post("CLOSE", <<>>) /\ layer' = "shut"
      BY <2>5 DEF PeerGone
    <3> QED BY <2>2, <3>1 DEF Layers, Over
  <2>6. CASE Reset
    <3>1. Post("ERROR", <<>>) /\ layer' = "shut"
      BY <2>6 DEF Reset
    <3> QED BY <2>2, <3>1 DEF Layers, Over
  <2> QED BY <2>3, <2>4, <2>5, <2>6 DEF LayerSteps
<1>3. IsSeq(mail') /\ EndsMailed'
  <2>1. /\ IsSeq(mail') /\ Len(mail) \in Nat /\ DOMAIN mail = 1 .. Len(mail)
        /\ DOMAIN mail' = 1 .. Len(mail) + 1 /\ mail'[Len(mail) + 1] = e
        /\ \A i \in 1 .. Len(mail) : mail'[i] = mail[i]
    BY <1>1, <1>2, SeqAppend DEF WsTypes
  <2>2. \A i \in 1 .. Len(mail) + 1 : i \in 1 .. Len(mail) \/ i = Len(mail) + 1
    BY <2>1
  <2> QED BY <1>1, <1>2, <2>1, <2>2 DEF EndsMailed
<1>4. Server' = Server /\ Ends' = Ends
  BY <1>1 DEF Server, Ends
<1>5. WsTypes' /\ Stages' /\ Told'
  BY <1>1, <1>2, <1>3, <1>4 DEF WsTypes, Stages, Told
<1>6. Closed'
  BY <1>1, <1>2, <1>4 DEF Closed
<1> QED BY <1>3, <1>5, <1>6 DEF WsInv
LEMMA WsNextKeeps == ASSUME WsInv, [WsNext]_<<socketVars, wsVars>> PROVE WsInv'
<1>1. CASE UNCHANGED <<socketVars, wsVars>>
  BY <1>1, WsStays DEF socketVars, wsVars, wsState
<1>2. CASE WsNext
  BY <1>2, AcceptKeeps, WsConnectKeeps, ReadHandshakeKeeps, LoopHeadKeeps, ResolveAcceptKeeps,
     WriteHandshakeKeeps, WsReadKeeps, WsEventKeeps, StartReadKeeps, CallsKeep, WsTimerKeeps,
     PeerKeeps, LayerKeeps DEF WsNext, Job
<1> QED BY <1>1, <1>2
LEMMA WsInitInv == ASSUME SocketInit, WsInit PROVE WsInv
<1>1. IsSeq(<<>>) /\ DOMAIN <<>> = {}
  <2>1. <<>> \in Seq({})
    BY EmptySeq
  <2> QED BY <2>1 DEF IsSeq
<1>2. /\ mail = <<>> /\ told = <<>> /\ timers = {} /\ destroyed = FALSE /\ ~pooled /\ pc = "idle"
      /\ secure \in BOOLEAN /\ result = "none" /\ pooled \in BOOLEAN
      /\ \/ side = "client" /\ layer = "none" /\ entry = "none" /\ known = FALSE /\ timed \in BOOLEAN
         \/ side = "server" /\ layer = "open" /\ entry = "pump" /\ known = TRUE /\ timed = FALSE
  BY DEF SocketInit, WsInit, Fresh, Given, Untouched
<1>3. Ends = {}
  BY <1>1, <1>2 DEF Ends
<1> QED BY <1>1, <1>2, <1>3
        DEF WsInv, WsTypes, EndsMailed, Stages, Closed, Told, Server, Pcs, Layers, Talking
LEMMA WsInvEnds == ASSUME WsInv PROVE EndsOnce
<1>1. WsTypes /\ Stages /\ Closed /\ Told
  BY DEF WsInv
<1>2. ~Server => Ends \subseteq {i \in DOMAIN told : \A j \in i + 1 .. Len(told) : told[j].e = "threw"}
  <2>1. Ends \subseteq DOMAIN told /\ Len(told) \in Nat
    BY <1>1, SeqAppend DEF WsTypes, Ends
  <2>2. \A j \in Len(told) + 1 .. Len(told) : FALSE
    BY <2>1
  <2> QED BY <1>1, <2>1, <2>2 DEF Told
<1>3. Server => Ends \subseteq {Len(told)} /\ (pc = "ended" => (result = "true") = (Ends # {}))
  BY <1>1 DEF Told
<1>4. pc \in {"loop", "frame", "open", "ended"} /\ ~pooled => layer # "open" \/ LeftOpen
  BY <1>1 DEF Closed, Talking, Over, LeftOpen
<1>5. pc = "ended" => layer # "open" \/ LeftOpen
  BY <1>1, <1>4 DEF Closed, LeftOpen, WsTypes
<1>6. result = "true" /\ pooled => Callback("close") \in Range(told)
  BY <1>1 DEF Closed
<1> QED BY <1>2, <1>3, <1>4, <1>5, <1>6 DEF EndsOnce
\* However an accept or a connection ends, by a frame, an error, a timer, a failed
\* handshake or the user, the end is told once, and after everything else; the
\* handler of accept is told one exactly if accept answers true; and nothing leaves
\* its socket open but the three ways that do.
THEOREM EndsAreOnce == WsSpec => []EndsOnce
<1>1. SocketInit /\ WsInit => WsInv
  BY WsInitInv
<1>2. WsInv /\ [WsNext]_<<socketVars, wsVars>> => WsInv'
  BY WsNextKeeps
<1>3. WsInv => EndsOnce
  BY WsInvEnds
<1> QED BY <1>1, <1>2, <1>3, PTL DEF WsSpec
-----------------------------------------------------------------------------
(* NodeExchanges.  What was sent and is not read yet: in the buffer, in the *)
(* events that wait, and on the wire, which are adjacent pieces of it.      *)

LEMMA SeqConcat ==
    ASSUME NEW a, IsSeq(a), NEW b, IsSeq(b)
    PROVE  /\ IsSeq(a \o b) /\ Len(a) \in Nat /\ Len(b) \in Nat /\ Len(a \o b) = Len(a) + Len(b)
           /\ \A i \in 1 .. Len(a) : (a \o b)[i] = a[i]
           /\ \A i \in 1 .. Len(b) : (a \o b)[Len(a) + i] = b[i]
<1>1. PICK S : a \in Seq(S)
  BY DEF IsSeq
<1>2. PICK R : b \in Seq(R)
  BY DEF IsSeq
<1>3. PICK T : T = S \cup R
  OBVIOUS
<1>4. a \in Seq(T) /\ b \in Seq(T)
  <2>1. a \in [1 .. Len(a) -> S] /\ Len(a) \in Nat /\ b \in [1 .. Len(b) -> R] /\ Len(b) \in Nat
    BY <1>1, <1>2, LenProperties
  <2>2. a \in [1 .. Len(a) -> T] /\ b \in [1 .. Len(b) -> T]
    BY <1>3, <2>1
  <2> QED BY <2>1, <2>2, SeqDef
<1>5. PICK c : c = a \o b
  OBVIOUS
<1>6. /\ c \in Seq(T) /\ Len(a) \in Nat /\ Len(b) \in Nat /\ Len(c) = Len(a) + Len(b)
      /\ \A i \in 1 .. Len(a) + Len(b) : c[i] = IF i <= Len(a) THEN a[i] ELSE b[i - Len(a)]
  BY <1>4, <1>5, ConcatProperties, LenProperties
<1>7. \A i \in 1 .. Len(b) : Len(a) + i \in 1 .. Len(a) + Len(b) /\ ~(Len(a) + i <= Len(a)) /\ (Len(a) + i) - Len(a) = i
  BY <1>6
<1>8. \A i \in 1 .. Len(a) : i \in 1 .. Len(a) + Len(b) /\ i <= Len(a)
  BY <1>6
<1> QED BY <1>5, <1>6, <1>7, <1>8 DEF IsSeq
LEMMA SeqJoin ==
    ASSUME NEW a, IsSeq(a), NEW b, IsSeq(b), NEW c, IsSeq(c)
    PROVE  (a \o b) \o c = a \o (b \o c)
<1>1. PICK A : a \in Seq(A)
  BY DEF IsSeq
<1>2. PICK B : b \in Seq(B)
  BY DEF IsSeq
<1>3. PICK C : c \in Seq(C)
  BY DEF IsSeq
<1>4. PICK T : T = A \cup B \cup C
  OBVIOUS
<1>5. /\ a \in [1 .. Len(a) -> A] /\ Len(a) \in Nat /\ b \in [1 .. Len(b) -> B] /\ Len(b) \in Nat
      /\ c \in [1 .. Len(c) -> C] /\ Len(c) \in Nat
  BY <1>1, <1>2, <1>3, LenProperties
<1>6. a \in [1 .. Len(a) -> T] /\ b \in [1 .. Len(b) -> T] /\ c \in [1 .. Len(c) -> T]
  BY <1>4, <1>5
<1>7. a \in Seq(T) /\ b \in Seq(T) /\ c \in Seq(T)
  <2>1. a \in Seq(T)
    BY <1>5, <1>6, SeqDef
  <2>2. b \in Seq(T)
    BY <1>5, <1>6, SeqDef
  <2>3. c \in Seq(T)
    BY <1>5, <1>6, SeqDef
  <2> QED BY <2>1, <2>2, <2>3
<1> QED BY <1>7, ConcatAssociative
LEMMA SeqCut ==
    ASSUME NEW s, IsSeq(s), NEW m \in Nat, NEW n \in Nat, m <= n, n <= Len(s)
    PROVE  /\ IsSeq(SubSeq(s, m + 1, n)) /\ Len(s) \in Nat /\ Len(SubSeq(s, m + 1, n)) = n - m
           /\ \A i \in 1 .. n - m : SubSeq(s, m + 1, n)[i] = s[m + i]
<1>1. PICK S : s \in Seq(S)
  BY DEF IsSeq
<1>2. Len(s) \in Nat
  BY <1>1, LenProperties
<1>3. \A i \in m + 1 .. n : i \in 1 .. Len(s)
  BY <1>2
<1>4. \A i \in m + 1 .. n : s[i] \in S
  BY <1>1, <1>3, LenProperties
<1>5. PICK t : t = SubSeq(s, m + 1, n)
  OBVIOUS
<1>6. /\ t \in Seq(S) /\ Len(t) = IF m + 1 <= n THEN n - (m + 1) + 1 ELSE 0
      /\ \A i \in 1 .. n - (m + 1) + 1 : t[i] = s[(m + 1) + i - 1]
  BY <1>2, <1>4, <1>5, SubSeqProperties
<1>7. Len(t) = n - m /\ n - (m + 1) + 1 = n - m /\ \A i \in 1 .. n - m : (m + 1) + i - 1 = m + i
  BY <1>6
<1> QED BY <1>2, <1>5, <1>6, <1>7 DEF IsSeq
LEMMA SeqNone == IsSeq(<<>>) /\ Len(<<>>) = 0
<1>1. <<>> \in Seq({}) /\ Len(<<>>) = 0
  BY EmptySeq
<1> QED BY <1>1 DEF IsSeq
LEMMA SeqOne == ASSUME NEW e PROVE IsSeq(<<e>>) /\ Len(<<e>>) = 1 /\ <<e>>[1] = e
<1>1. <<e>> \in Seq({e}) /\ Len(<<e>>) = 1 /\ <<e>>[1] = e
  OBVIOUS
<1> QED BY <1>1 DEF IsSeq
LEMMA SeqSame ==
    ASSUME NEW a, IsSeq(a), NEW b, IsSeq(b), Len(a) = Len(b), \A i \in 1 .. Len(a) : a[i] = b[i]
    PROVE  a = b
<1>1. PICK S : a \in Seq(S)
  BY DEF IsSeq
<1>2. PICK R : b \in Seq(R)
  BY DEF IsSeq
<1>3. a \in [1 .. Len(a) -> S] /\ b \in [1 .. Len(b) -> R]
  BY <1>1, <1>2, LenProperties
<1> QED BY <1>3
\* S from place b + 1 on is the buffer, the events from at[0] on, and the wire.
Lies(S, b, at, bf, ml, wr) ==
    /\ IsSeq(S) /\ IsSeq(bf) /\ IsSeq(ml) /\ IsSeq(wr) /\ b \in Nat
    /\ \A i \in 1 .. Len(ml) : IsSeq(ml[i].data)
    /\ \A i \in 0 .. Len(ml) : at[i] \in Nat /\ at[i] <= Len(S)
    /\ at[0] = b + Len(bf) /\ \A j \in 1 .. Len(bf) : bf[j] = S[b + j]
    /\ \A i \in 1 .. Len(ml) : at[i] = at[i - 1] + Len(ml[i].data)
    /\ \A i \in 1 .. Len(ml) : \A j \in 1 .. Len(ml[i].data) : ml[i].data[j] = S[at[i - 1] + j]
    /\ Len(S) = at[Len(ml)] + Len(wr) /\ \A j \in 1 .. Len(wr) : wr[j] = S[at[Len(ml)] + j]
LEMMA SeqLen == ASSUME NEW s, IsSeq(s) PROVE Len(s) \in Nat /\ (s = <<>> <=> Len(s) = 0)
BY LenProperties, EmptySeq DEF IsSeq
\* The start of the wire becomes an event.
LEMMA LiesPosted ==
    ASSUME NEW S, NEW b, NEW at, NEW bf, NEW ml, NEW wr, Lies(S, b, at, bf, ml, wr),
           NEW k \in Nat, k <= Len(wr), NEW e, IsSeq(e.data), Len(e.data) = k,
           \A j \in 1 .. k : e.data[j] = wr[j],
           NEW wr2, IsSeq(wr2), Len(wr2) = Len(wr) - k, \A j \in 1 .. Len(wr) - k : wr2[j] = wr[k + j]
    PROVE  \E at2 : Lies(S, b, at2, bf, Append(ml, e), wr2)
<1>1. PICK n \in Nat : n = Len(ml)
  BY SeqLen DEF Lies
<1>2. PICK new : new = Append(ml, e)
  OBVIOUS
<1>3. IsSeq(new) /\ Len(new) = n + 1 /\ (\A i \in 1 .. n : new[i] = ml[i]) /\ new[n + 1] = e
  BY <1>1, <1>2, SeqAppend DEF Lies
<1> DEFINE at2 == [i \in 0 .. n + 1 |-> IF i = n + 1 THEN at[n] + k ELSE at[i]]
<1>4. /\ IsSeq(S) /\ IsSeq(bf) /\ IsSeq(wr) /\ b \in Nat /\ Len(S) \in Nat /\ Len(wr) \in Nat
      /\ \A i \in 0 .. n : at[i] \in Nat /\ at[i] <= Len(S)
      /\ Len(S) = at[n] + Len(wr) /\ \A j \in 1 .. Len(wr) : wr[j] = S[at[n] + j]
  BY <1>1, SeqLen DEF Lies
<1>5. at2[n + 1] = at[n] + k /\ \A i \in 0 .. n : at2[i] = at[i] /\ i # n + 1
  BY <1>1
<1> HIDE DEF at2
<1>6. PICK p \in Nat : p = at[n] /\ n \in 0 .. n /\ Len(S) = p + Len(wr)
  BY <1>1, <1>4
<1>7. \A i \in 1 .. n : i \in 0 .. n /\ i - 1 \in 0 .. n
  BY <1>1
<1>8. \A i \in 0 .. n + 1 : at2[i] \in Nat /\ at2[i] <= Len(S)
  <2>1. \A i \in 0 .. n + 1 : i \in 0 .. n \/ i = n + 1
    BY <1>1
  <2>2. p + k \in Nat /\ p + k <= Len(S)
    BY <1>4, <1>6
  <2> QED BY <1>4, <1>5, <1>6, <2>1, <2>2
<1>9. ASSUME NEW i \in 1 .. n + 1
      PROVE  /\ IsSeq(new[i].data) /\ at2[i] = at2[i - 1] + Len(new[i].data)
             /\ \A j \in 1 .. Len(new[i].data) : new[i].data[j] = S[at2[i - 1] + j]
  <2>1. CASE i \in 1 .. n
    <3>1. /\ IsSeq(ml[i].data) /\ at[i] = at[i - 1] + Len(ml[i].data)
          /\ \A j \in 1 .. Len(ml[i].data) : ml[i].data[j] = S[at[i - 1] + j]
      BY <1>1, <2>1 DEF Lies
    <3>2. at2[i] = at[i] /\ at2[i - 1] = at[i - 1] /\ new[i] = ml[i]
      BY <1>3, <1>5, <1>7, <2>1
    <3> QED BY <3>1, <3>2
  <2>2. CASE i = n + 1
    <3>1. i - 1 = n /\ new[i] = e /\ at2[i - 1] = p /\ at2[i] = p + k
      BY <1>1, <1>3, <1>5, <1>6, <2>2
    <3>2. \A j \in 1 .. k : e.data[j] = S[p + j]
      <4>1. \A j \in 1 .. k : j \in 1 .. Len(wr)
        BY <1>4
      <4> QED BY <1>4, <1>6, <4>1
    <3> QED BY <3>1, <3>2
  <2> QED BY <1>1, <2>1, <2>2
<1>11. at2[0] = b + Len(bf) /\ \A j \in 1 .. Len(bf) : bf[j] = S[b + j]
  <2>1. 0 \in 0 .. n
    BY <1>1
  <2> QED BY <1>5, <2>1 DEF Lies
<1>12. Len(S) = at2[n + 1] + Len(wr2) /\ \A j \in 1 .. Len(wr2) : wr2[j] = S[at2[n + 1] + j]
  <2>1. \A j \in 1 .. Len(wr) - k : k + j \in 1 .. Len(wr) /\ p + (k + j) = (p + k) + j
    BY <1>4
  <2>2. Len(S) = (p + k) + (Len(wr) - k)
    BY <1>4, <1>6
  <2>3. ASSUME NEW j \in 1 .. Len(wr) - k PROVE wr2[j] = S[(p + k) + j]
    <3>1. k + j \in 1 .. Len(wr) /\ p + (k + j) = (p + k) + j
      BY <2>1
    <3>2. PICK c : c = k + j
      OBVIOUS
    <3>3. wr2[j] = wr[c] /\ wr[c] = S[p + c]
      BY <1>4, <1>6, <3>1, <3>2
    <3> QED BY <3>1, <3>2, <3>3
  <2> QED BY <1>5, <1>6, <2>2, <2>3
<1>13. Lies(S, b, at2, bf, new, wr2)
  BY <1>3, <1>4, <1>8, <1>9, <1>11, <1>12 DEF Lies
<1> QED BY <1>2, <1>13
\* The first event's data go to the buffer.
LEMMA LiesTaken ==
    ASSUME NEW S, NEW b, NEW at, NEW bf, NEW ml, NEW wr, Lies(S, b, at, bf, ml, wr), ml # <<>>
    PROVE  \E at2 : Lies(S, b, at2, bf \o Head(ml).data, Tail(ml), wr)
<1>1. PICK rest2 : rest2 = Tail(ml)
  OBVIOUS
<1>2. PICK n \in Nat : n + 1 = Len(ml)
  <2>1. Len(ml) \in Nat /\ Len(ml) # 0
    BY SeqLen DEF Lies
  <2> QED BY <2>1
<1>3. /\ IsSeq(rest2) /\ Len(rest2) = n /\ Head(ml) = ml[1]
      /\ \A i \in 1 .. n : i + 1 \in 1 .. n + 1 /\ rest2[i] = ml[i + 1]
  BY <1>1, <1>2, SeqTail DEF Lies
<1>4. PICK d : d = Head(ml).data
  OBVIOUS
<1>5. PICK all : all = bf \o d
  OBVIOUS
<1>6. /\ IsSeq(S) /\ IsSeq(bf) /\ IsSeq(wr) /\ IsSeq(d) /\ b \in Nat /\ Len(S) \in Nat /\ Len(d) \in Nat
      /\ Len(bf) \in Nat /\ at[0] = b + Len(bf) /\ at[1] = at[0] + Len(d)
      /\ (\A j \in 1 .. Len(bf) : bf[j] = S[b + j]) /\ (\A j \in 1 .. Len(d) : d[j] = S[at[0] + j])
      /\ Len(S) = at[n + 1] + Len(wr) /\ \A j \in 1 .. Len(wr) : wr[j] = S[at[n + 1] + j]
  <2>1. 1 \in 1 .. n + 1 /\ 1 - 1 = 0
    BY <1>2
  <2>2. d = ml[1].data /\ 1 \in 1 .. Len(ml)
    BY <1>2, <1>3, <1>4, <2>1
  <2>3. /\ IsSeq(S) /\ IsSeq(bf) /\ IsSeq(wr) /\ IsSeq(d) /\ b \in Nat /\ at[0] = b + Len(bf)
        /\ (\A j \in 1 .. Len(bf) : bf[j] = S[b + j])
    BY <2>2 DEF Lies
  <2>4. at[1] = at[1 - 1] + Len(d) /\ \A j \in 1 .. Len(d) : d[j] = S[at[1 - 1] + j]
    BY <2>2 DEF Lies
  <2>5. Len(S) = at[n + 1] + Len(wr) /\ \A j \in 1 .. Len(wr) : wr[j] = S[at[n + 1] + j]
    BY <1>2 DEF Lies
  <2>6. Len(S) \in Nat /\ Len(d) \in Nat /\ Len(bf) \in Nat
    BY <2>3, SeqLen
  <2> QED BY <2>1, <2>3, <2>4, <2>5, <2>6
<1>7. /\ IsSeq(all) /\ Len(all) = Len(bf) + Len(d)
      /\ (\A i \in 1 .. Len(bf) : all[i] = bf[i]) /\ (\A i \in 1 .. Len(d) : all[Len(bf) + i] = d[i])
  BY <1>5, <1>6, SeqConcat
<1> DEFINE at2 == [i \in 0 .. n |-> at[i + 1]]
<1>8. \A i \in 0 .. n : at2[i] = at[i + 1] /\ i + 1 \in 0 .. n + 1
  BY <1>2
<1> HIDE DEF at2
<1>9. \A i \in 0 .. n : at2[i] \in Nat /\ at2[i] <= Len(S)
  BY <1>2, <1>8 DEF Lies
<1>10. ASSUME NEW i \in 1 .. n
       PROVE  /\ IsSeq(rest2[i].data) /\ at2[i] = at2[i - 1] + Len(rest2[i].data)
              /\ \A j \in 1 .. Len(rest2[i].data) : rest2[i].data[j] = S[at2[i - 1] + j]
  <2>1. i \in 0 .. n /\ i - 1 \in 0 .. n /\ i + 1 \in 1 .. n + 1 /\ (i + 1) - 1 = (i - 1) + 1 /\ (i - 1) + 1 = i
    BY <1>2
  <2>2. rest2[i] = ml[i + 1] /\ at2[i] = at[i + 1] /\ at2[i - 1] = at[i]
    BY <1>3, <1>8, <2>1
  <2>3. /\ IsSeq(ml[i + 1].data) /\ at[i + 1] = at[(i + 1) - 1] + Len(ml[i + 1].data)
        /\ \A j \in 1 .. Len(ml[i + 1].data) : ml[i + 1].data[j] = S[at[(i + 1) - 1] + j]
    BY <1>2, <2>1 DEF Lies
  <2>4. (i + 1) - 1 = i
    BY <1>2
  <2> QED BY <2>2, <2>3, <2>4
<1>11. at2[0] = b + Len(all)
  BY <1>2, <1>6, <1>7, <1>8
<1>12. ASSUME NEW j \in 1 .. Len(all) PROVE all[j] = S[b + j]
  <2>1. CASE j \in 1 .. Len(bf)
    BY <1>6, <1>7, <2>1
  <2>2. CASE j \notin 1 .. Len(bf)
    <3>1. PICK i \in 1 .. Len(d) : j = Len(bf) + i
      <4>1. j - Len(bf) \in 1 .. Len(d) /\ j = Len(bf) + (j - Len(bf))
        BY <1>6, <1>7, <2>2
      <4> QED BY <4>1
    <3>2. all[j] = S[at[0] + i] /\ at[0] + i = b + j
      BY <1>6, <1>7, <3>1
    <3> QED BY <3>2
  <2> QED BY <2>1, <2>2
<1>13. at2[n] = at[n + 1]
  BY <1>2, <1>8
<1>14. Lies(S, b, at2, all, rest2, wr)
  BY <1>3, <1>6, <1>7, <1>9, <1>10, <1>11, <1>12, <1>13 DEF Lies
<1> QED BY <1>1, <1>4, <1>5, <1>14
\* The buffer lets go of its start.
LEMMA LiesCut ==
    ASSUME NEW S, NEW b, NEW at, NEW bf, NEW ml, NEW wr, Lies(S, b, at, bf, ml, wr),
           NEW c \in Nat, c <= Len(bf)
    PROVE  Lies(S, b + c, at, SubSeq(bf, c + 1, Len(bf)), ml, wr)
<1>1. IsSeq(bf) /\ b \in Nat /\ Len(bf) \in Nat /\ at[0] = b + Len(bf) /\ \A j \in 1 .. Len(bf) : bf[j] = S[b + j]
  BY SeqLen DEF Lies
<1>2. PICK cut : cut = SubSeq(bf, c + 1, Len(bf))
  OBVIOUS
<1>3. IsSeq(cut) /\ Len(cut) = Len(bf) - c /\ \A i \in 1 .. Len(bf) - c : cut[i] = bf[c + i]
  BY <1>1, <1>2, SeqCut
<1>4. at[0] = (b + c) + Len(cut) /\ b + c \in Nat
  BY <1>1, <1>3
<1>5. \A j \in 1 .. Len(cut) : cut[j] = S[(b + c) + j]
  <2>1. \A j \in 1 .. Len(bf) - c : c + j \in 1 .. Len(bf) /\ b + (c + j) = (b + c) + j
    BY <1>1
  <2> QED BY <1>1, <1>3, <2>1
<1>6. Lies(S, b + c, at, cut, ml, wr)
  BY <1>3, <1>4, <1>5 DEF Lies
<1> QED BY <1>2, <1>6
\* The peer sends more.
LEMMA LiesSent ==
    ASSUME NEW S, NEW b, NEW at, NEW bf, NEW ml, NEW wr, Lies(S, b, at, bf, ml, wr),
           NEW x, IsSeq(x)
    PROVE  Lies(S \o x, b, at, bf, ml, wr \o x)
<1>1. PICK n \in Nat : n = Len(ml)
  BY SeqLen DEF Lies
<1>2. PICK T : T = S \o x
  OBVIOUS
<1>3. PICK w : w = wr \o x
  OBVIOUS
<1>4. /\ IsSeq(S) /\ IsSeq(bf) /\ IsSeq(wr) /\ b \in Nat /\ Len(bf) \in Nat /\ IsSeq(ml)
      /\ at[0] = b + Len(bf) /\ Len(S) = at[n] + Len(wr)
      /\ \A i \in 0 .. n : at[i] \in Nat /\ at[i] <= Len(S)
      /\ \A j \in 1 .. Len(bf) : bf[j] = S[b + j]
      /\ \A j \in 1 .. Len(wr) : wr[j] = S[at[n] + j]
  BY <1>1, SeqLen DEF Lies
<1>5. /\ IsSeq(T) /\ Len(S) \in Nat /\ Len(x) \in Nat /\ Len(T) = Len(S) + Len(x)
      /\ \A i \in 1 .. Len(S) : T[i] = S[i]
      /\ \A i \in 1 .. Len(x) : T[Len(S) + i] = x[i]
  <2>1. IsSeq(S)
    BY <1>4
  <2> QED BY ONLY <1>2, <2>1, IsSeq(x), SeqConcat
<1>6. /\ IsSeq(w) /\ Len(wr) \in Nat /\ Len(w) = Len(wr) + Len(x)
      /\ \A i \in 1 .. Len(wr) : w[i] = wr[i]
      /\ \A i \in 1 .. Len(x) : w[Len(wr) + i] = x[i]
  BY <1>3, <1>4, SeqConcat
<1>7. \A i \in 0 .. n : at[i] \in Nat /\ at[i] <= Len(T)
  BY <1>4, <1>5
<1>8. \A j \in 1 .. Len(bf) : bf[j] = T[b + j]
  <2>1. at[0] <= Len(S)
    BY <1>1, <1>4
  <2>2. \A j \in 1 .. Len(bf) : b + j \in 1 .. Len(S)
    BY <1>4, <1>5, <2>1
  <2> QED BY <1>4, <1>5, <2>2
<1>9. ASSUME NEW i \in 1 .. n
      PROVE  /\ IsSeq(ml[i].data) /\ at[i] = at[i - 1] + Len(ml[i].data)
             /\ \A j \in 1 .. Len(ml[i].data) : ml[i].data[j] = T[at[i - 1] + j]
  <2>1. i \in 0 .. n /\ i - 1 \in 0 .. n
    BY <1>1
  <2>2. /\ IsSeq(ml[i].data) /\ at[i] = at[i - 1] + Len(ml[i].data)
        /\ \A j \in 1 .. Len(ml[i].data) : ml[i].data[j] = S[at[i - 1] + j]
    BY <1>1 DEF Lies
  <2>3. PICK m \in Nat : m = Len(ml[i].data)
    BY <2>2, SeqLen
  <2>4. \A j \in 1 .. m : at[i - 1] + j \in 1 .. Len(S)
    <3>1. PICK p \in Nat : p = at[i - 1] /\ p + m <= Len(S)
      BY <1>4, <2>1, <2>2, <2>3
    <3>2. \A j \in 1 .. m : p + j \in 1 .. Len(S)
      BY <1>5, <3>1
    <3> QED BY <3>1, <3>2
  <2> QED BY <1>5, <2>2, <2>3, <2>4
<1>10. Len(T) = at[n] + Len(w)
  BY <1>1, <1>4, <1>5, <1>6
<1>11. ASSUME NEW j \in 1 .. Len(w) PROVE w[j] = T[at[n] + j]
  <2>1. at[n] \in Nat
    BY <1>1, <1>4
  <2>2. CASE j \in 1 .. Len(wr)
    <3>1. at[n] + j \in 1 .. Len(S)
      BY <1>4, <1>6, <2>1, <2>2
    <3> QED BY <1>4, <1>5, <1>6, <2>2, <3>1
  <2>3. CASE j \notin 1 .. Len(wr)
    <3>1. PICK i \in 1 .. Len(x) : j = Len(wr) + i
      <4>1. j - Len(wr) \in 1 .. Len(x) /\ j = Len(wr) + (j - Len(wr))
        BY <1>5, <1>6, <2>3
      <4> QED BY <4>1
    <3>2. at[n] + j = Len(S) + i
      BY <1>4, <1>5, <1>6, <2>1, <3>1
    <3> QED BY <1>5, <1>6, <3>1, <3>2
  <2> QED BY <2>2, <2>3
<1>12. Lies(T, b, at, bf, ml, w)
  BY <1>1, <1>4, <1>5, <1>6, <1>7, <1>8, <1>9, <1>10, <1>11 DEF Lies
<1> QED BY <1>2, <1>3, <1>12
-----------------------------------------------------------------------------
(* The inductive invariant.                                                *)

AnswerOf == [pc : {"none", "working", "ending", "sent"}, chunks : Nat]
NodeTypes ==
    /\ side \in {"client", "server"} /\ layer \in Layers /\ entry \in {"none", "connect", "pump"}
    /\ known \in BOOLEAN /\ destroyed \in BOOLEAN /\ packed \in BOOLEAN
    /\ client \in {"idle", "connecting", "waiting", "resolved", "rejected"} /\ via \in {"request", "fetch"}
    /\ asked \in 0 .. MaxRequests /\ IsSeq(emitted) /\ Len(emitted) <= asked
    /\ IsSeq(mail) /\ IsSeq(sent) /\ IsSeq(reply) /\ answer \in [Request -> AnswerOf]
\* Only data come with data; what was on the wire came before the end.
MailOrder ==
    \A i \in 1 .. Len(mail) :
        /\ mail[i].type \in {"CLOSE", "ERROR"} => layer \in Over
        /\ mail[i].type # "DATA" => mail[i].data = <<>>
        /\ mail[i].type = "CLOSE" => i = Len(mail) /\ wire = <<>>
NodeStages ==
    /\ Server => entry # "connect" /\ client = "idle"
    /\ ~Server => asked = 0 /\ sent \in {<<>>, RequestText} /\ (entry = "pump" <=> client = "waiting")
    /\ ~Server /\ client \in {"idle", "connecting"} => sent = <<>>
    /\ entry = "connect" => client = "connecting"
\* The requests a client sent: h[q] is the place of the head of the q-th.
Asks(S, h, n) ==
    /\ h[1] = 1 /\ h[n + 1] = Len(S) + 1
    /\ \A q \in 1 .. n + 1 : h[q] \in Nat /\ h[q] > 0 /\ h[q] <= Len(S) + 1
    /\ \A q \in 1 .. n : \E len \in {0, 1} :
          /\ h[q + 1] = h[q] + 1 + len /\ S[h[q]] = ReqHead(q, len)
          /\ len = 1 => S[h[q] + 1] = ReqBody(q)
Streams ==
    /\ Server /\ entry = "pump" =>
          \E S, h, at : Asks(S, h, asked) /\ Lies(S, h[Len(emitted) + 1] - 1, at, buffer, mail, wire)
    /\ ~Server /\ client \in {"idle", "connecting", "waiting"} =>
          \E at : Lies(reply, 0, at, buffer, mail, wire)
    /\ ~Server /\ sent = <<>> => reply = <<>>
    /\ client = "resolved" => buffer = reply /\ body = Tail(reply) /\ layer \in Over /\ entry = "none"
Emissions ==
    \A i \in 1 .. Len(emitted) :
        emitted[i].q = i /\ emitted[i].body = (IF emitted[i].len = 1 THEN <<ReqBody(i)>> ELSE <<>>)
AnswerAt(i) ==
    /\ sent[i].q \in Request /\ answer[sent[i].q].pc = "sent"
    /\ sent[i].n \in Nat /\ i + sent[i].n <= Len(sent)
    /\ \A j \in 1 .. sent[i].n : sent[i + j] = RespPart(sent[i].q, j)
Answers ==
    /\ \A q \in Request : answer[q].pc # "none" => q <= Len(emitted)
    /\ \A i \in 1 .. Len(sent) : sent[i].k = "status" => AnswerAt(i)
    /\ \A i, j \in 1 .. Len(sent) : i # j /\ sent[i].k = "status" /\ sent[j].k = "status" =>
          sent[i].q # sent[j].q
Packs == Server /\ Whole(buffer) => packed
NodeInv == NodeTypes /\ MailOrder /\ NodeStages /\ Streams /\ Emissions /\ Answers /\ Packs

LEMMA RequestTextIs ==
    /\ IsSeq(RequestText) /\ Len(RequestText) = 2 /\ RequestText # <<>>
    /\ RequestText[1] = ReqHead(1, ContentLength) /\ RequestText[2] = ReqBody(1)
    /\ \A i \in 1 .. Len(RequestText) : RequestText[i].k # "status"
<1>1. RequestText \in Seq({ReqHead(1, ContentLength), ReqBody(1)}) /\ Len(RequestText) = 2
      /\ RequestText[1] = ReqHead(1, ContentLength) /\ RequestText[2] = ReqBody(1)
  BY DEF RequestText
<1>2. ReqHead(1, ContentLength).k # "status" /\ ReqBody(1).k # "status"
  BY DEF ReqHead, ReqBody
<1>3. RequestText # <<>>
  BY <1>1, EmptySeq
<1> QED BY <1>1, <1>2, <1>3 DEF IsSeq
LEMMA StreamsNext ==
    ASSUME Server' /\ entry' = "pump" =>
               \E S, h, at : /\ Asks(S, h, asked')
                            /\ Lies(S, h[Len(emitted') + 1] - 1, at, buffer', mail', wire'),
           ~Server' /\ client' \in {"idle", "connecting", "waiting"} =>
               \E at : Lies(reply', 0, at, buffer', mail', wire'),
           ~Server' /\ sent' = <<>> => reply' = <<>>,
           client' = "resolved" =>
               buffer' = reply' /\ body' = Tail(reply') /\ layer' \in Over /\ entry' = "none"
    PROVE  Streams'
BY DEF Streams
\* Nobody touches what was sent and is not read.
LEMMA StreamsStay ==
    ASSUME Streams, UNCHANGED <<side, emitted, asked, client, buffer, mail, wire, reply, body>>,
           ~Server /\ sent' = <<>> => sent = <<>>, entry' \in {entry, "none"}, layer \in Over => layer' \in Over
    PROVE  Streams'
<1>1. Server' = Server
  BY DEF Server
<1>2. Server' /\ entry' = "pump" =>
          \E S, h, at : Asks(S, h, asked') /\ Lies(S, h[Len(emitted') + 1] - 1, at, buffer', mail', wire')
  BY <1>1 DEF Streams
<1>3. ~Server' /\ client' \in {"idle", "connecting", "waiting"} => \E at : Lies(reply', 0, at, buffer', mail', wire')
  BY <1>1 DEF Streams
<1> QED BY <1>1, <1>2, <1>3, StreamsNext DEF Streams
LEMMA MailOrderStays ==
    ASSUME MailOrder, UNCHANGED <<mail, wire>>, layer \in Over => layer' \in Over
    PROVE  MailOrder'
BY DEF MailOrder
LEMMA AnswersStay ==
    ASSUME Answers, sent' = sent,
           \A q \in Request : answer[q].pc = "sent" => answer'[q].pc = "sent",
           \A q \in Request : answer'[q].pc # "none" => q <= Len(emitted')
    PROVE  Answers'
<1>1. ASSUME NEW i \in 1 .. Len(sent), AnswerAt(i) PROVE AnswerAt(i)'
  BY <1>1 DEF AnswerAt
<1> QED BY <1>1 DEF Answers
\* One response is changed.
LEMMA AnswerIs ==
    ASSUME NodeTypes, NEW q \in Request, NEW a, answer' = [answer EXCEPT ![q] = a], a \in AnswerOf
    PROVE  /\ answer' \in [Request -> AnswerOf] /\ answer'[q] = a
           /\ \A r \in Request : r # q => answer'[r] = answer[r]
BY DEF NodeTypes
LEMMA ResponsesKeep ==
    ASSUME NodeInv, NEW q \in Request, ResponseWrite(q) \/ ResponseEnd(q)
    PROVE  NodeInv'
<1>1. NodeTypes /\ MailOrder /\ NodeStages /\ Streams /\ Emissions /\ Answers /\ Packs
  BY DEF NodeInv
<1>2. UNCHANGED <<socketVars, buffer, asked, emitted, packed, client, via, reply, body>>
      /\ answer[q].pc = "working"
  BY DEF ResponseWrite, ResponseEnd
<1>3. answer[q] \in AnswerOf
  BY <1>1 DEF NodeTypes
<1>4. PICK a \in AnswerOf : answer' = [answer EXCEPT ![q] = a] /\ a.pc # "none"
  <2>1. CASE ResponseWrite(q)
    <3>1. answer' = [answer EXCEPT ![q] = [answer[q] EXCEPT !.chunks = @ + 1]]
      BY <2>1 DEF ResponseWrite
    <3>2. [answer[q] EXCEPT !.chunks = @ + 1] \in AnswerOf /\ [answer[q] EXCEPT !.chunks = @ + 1].pc = "working"
      BY <1>2, <1>3 DEF AnswerOf
    <3> QED BY <3>1, <3>2
  <2>2. CASE ResponseEnd(q)
    <3>1. answer' = [answer EXCEPT ![q] = [answer[q] EXCEPT !.pc = "ending"]]
      BY <2>2 DEF ResponseEnd
    <3>2. [answer[q] EXCEPT !.pc = "ending"] \in AnswerOf /\ [answer[q] EXCEPT !.pc = "ending"].pc = "ending"
      BY <1>3 DEF AnswerOf
    <3> QED BY <3>1, <3>2
  <2> QED BY <2>1, <2>2
<1>5. answer' \in [Request -> AnswerOf] /\ answer'[q] = a /\ \A r \in Request : r # q => answer'[r] = answer[r]
  BY <1>1, <1>4, AnswerIs
<1>6. Answers'
  <2>1. \A r \in Request : answer[r].pc = "sent" => answer'[r].pc = "sent"
    BY <1>2, <1>5
  <2>2. \A r \in Request : answer'[r].pc # "none" => answer[r].pc # "none"
    BY <1>2, <1>5
  <2> QED BY <1>1, <1>2, <2>1, <2>2, AnswersStay DEF socketVars, Answers
<1>7. Streams' /\ MailOrder'
  BY <1>1, <1>2, StreamsStay, MailOrderStays DEF socketVars
<1>8. NodeTypes' /\ NodeStages' /\ Emissions' /\ Packs'
  BY <1>1, <1>2, <1>5
     DEF NodeTypes, NodeStages, Emissions, Packs, Whole, Server, RequestText, ContentLength, socketVars
<1> QED BY <1>6, <1>7, <1>8 DEF NodeInv
LEMMA FinishKeeps == ASSUME NodeInv, NEW q \in Request, Finish(q) PROVE NodeInv'
<1>1. NodeTypes /\ MailOrder /\ NodeStages /\ Streams /\ Emissions /\ Answers /\ Packs
  BY DEF NodeInv
<1>2. /\ UNCHANGED <<side, layer, entry, known, destroyed, mail, wire, buffer, asked, emitted, packed,
                     client, via, reply, body>>
      /\ answer[q].pc = "ending"
  BY DEF Finish
<1>3. PICK n \in Nat : n = answer[q].chunks
  BY <1>1 DEF NodeTypes, AnswerOf
<1>4. PICK a \in AnswerOf : answer' = [answer EXCEPT ![q] = a] /\ a.pc = "sent"
  <2>1. answer' = [answer EXCEPT ![q] = [answer[q] EXCEPT !.pc = "sent"]]
    BY DEF Finish
  <2>2. [answer[q] EXCEPT !.pc = "sent"] \in AnswerOf /\ [answer[q] EXCEPT !.pc = "sent"].pc = "sent"
    BY <1>1 DEF NodeTypes, AnswerOf
  <2> QED BY <2>1, <2>2
<1>5. answer' \in [Request -> AnswerOf] /\ answer'[q] = a /\ \A r \in Request : r # q => answer'[r] = answer[r]
  BY <1>1, <1>4, AnswerIs
<1>6. \A r \in Request : /\ answer[r].pc = "sent" => answer'[r].pc = "sent"
                         /\ answer'[r].pc # "none" => answer[r].pc # "none"
  BY <1>2, <1>4, <1>5
<1>7. Server
  <2>1. q <= Len(emitted) /\ q >= 1 /\ Len(emitted) \in Nat /\ Len(emitted) <= asked
    BY <1>1, <1>2, SeqLen DEF Answers, NodeTypes, Request
  <2> QED BY <1>1, <2>1 DEF NodeStages, NodeTypes, Request
<1>8. PICK parts2 : parts2 = [i \in 1 .. n |-> RespPart(q, i)]
  OBVIOUS
<1>9. IsSeq(parts2) /\ Len(parts2) = n /\ \A i \in 1 .. n : parts2[i] = RespPart(q, i)
  <2>1. PICK P : P = {RespPart(q, i) : i \in 1 .. n}
    OBVIOUS
  <2>2. parts2 \in [1 .. n -> P]
    BY <1>8, <2>1
  <2>3. parts2 \in Seq(P)
    BY <2>2, SeqDef
  <2>4. Len(parts2) = n
    <3>1. DOMAIN parts2 = 1 .. n /\ DOMAIN parts2 = 1 .. Len(parts2) /\ Len(parts2) \in Nat
      BY <2>2, <2>3, LenProperties
    <3> QED BY <3>1
  <2> QED BY <1>8, <2>3, <2>4 DEF IsSeq
<1>10. PICK x : x = <<RespHead(q, n)>> \o parts2
  OBVIOUS
<1>11. IsSeq(x) /\ Len(x) = n + 1 /\ x[1] = RespHead(q, n) /\ \A i \in 1 .. n : x[1 + i] = RespPart(q, i)
  <2>1. IsSeq(<<RespHead(q, n)>>) /\ Len(<<RespHead(q, n)>>) = 1 /\ <<RespHead(q, n)>>[1] = RespHead(q, n)
    BY SeqOne
  <2>2. PICK one : one = <<RespHead(q, n)>>
    OBVIOUS
  <2>3. IsSeq(one) /\ Len(one) = 1 /\ one[1] = RespHead(q, n) /\ x = one \o parts2
    BY <1>10, <2>1, <2>2
  <2>4. /\ IsSeq(x) /\ Len(x) = 1 + n /\ (\A i \in 1 .. 1 : x[i] = one[i])
        /\ \A i \in 1 .. n : x[1 + i] = parts2[i]
    <3>1. PICK p : p = parts2 /\ IsSeq(p)
      BY <1>9
    <3>2. /\ IsSeq(one \o p) /\ Len(one) \in Nat /\ Len(p) \in Nat /\ Len(one \o p) = Len(one) + Len(p)
          /\ \A i \in 1 .. Len(one) : (one \o p)[i] = one[i]
          /\ \A i \in 1 .. Len(p) : (one \o p)[Len(one) + i] = p[i]
      <4>1. IsSeq(one) /\ IsSeq(p)
        BY <2>3, <3>1
      <4> QED BY ONLY <4>1, SeqConcat
    <3> QED BY <1>9, <2>3, <3>1, <3>2
  <2> QED BY <1>9, <2>3, <2>4
<1>12. sent' = sent \/ sent' = sent \o x
  BY <1>3, <1>8, <1>10 DEF Finish, Write
<1>13. CASE sent' = sent
  <2>1. Answers'
    BY <1>1, <1>2, <1>6, <1>13, AnswersStay DEF Answers
  <2>2. Streams' /\ MailOrder'
    BY <1>1, <1>2, <1>13, StreamsStay, MailOrderStays
  <2>3. NodeTypes' /\ NodeStages' /\ Emissions' /\ Packs'
    BY <1>1, <1>2, <1>5, <1>13
       DEF NodeTypes, NodeStages, Emissions, Packs, Whole, Server, RequestText, ContentLength
  <2> QED BY <2>1, <2>2, <2>3 DEF NodeInv
<1>14. CASE sent' = sent \o x
  <2>1. /\ IsSeq(sent') /\ Len(sent) \in Nat /\ Len(sent') = Len(sent) + (n + 1)
        /\ \A i \in 1 .. Len(sent) : sent'[i] = sent[i]
        /\ \A i \in 1 .. n + 1 : sent'[Len(sent) + i] = x[i]
    <3>1. IsSeq(sent)
      BY <1>1 DEF NodeTypes
    <3>2. PICK old : old = sent
      OBVIOUS
    <3>3. /\ IsSeq(old \o x) /\ Len(old) \in Nat /\ Len(old \o x) = Len(old) + Len(x)
          /\ \A i \in 1 .. Len(old) : (old \o x)[i] = old[i]
          /\ \A i \in 1 .. Len(x) : (old \o x)[Len(old) + i] = x[i]
      <4>1. IsSeq(old) /\ IsSeq(x)
        BY <1>11, <3>1, <3>2
      <4> QED BY ONLY <4>1, SeqConcat
    <3> QED BY <1>11, <1>14, <3>2, <3>3
  <2>2. PICK m \in Nat : m = Len(sent)
    BY <2>1
  <2>3. /\ Len(sent') = m + (n + 1) /\ (\A i \in 1 .. m : sent'[i] = sent[i])
        /\ sent'[m + 1] = RespHead(q, n) /\ \A j \in 1 .. n : sent'[(m + 1) + j] = RespPart(q, j)
    <3>1. 1 \in 1 .. n + 1 /\ \A j \in 1 .. n : 1 + j \in 1 .. n + 1 /\ m + (1 + j) = (m + 1) + j
      BY <1>3, <2>2
    <3> QED BY <1>11, <2>1, <2>2, <3>1
  <2>4. \A i \in 1 .. Len(sent') : sent'[i].k = "status" => i \in 1 .. m + 1
    <3>1. ASSUME NEW i \in 1 .. Len(sent'), i \notin 1 .. m + 1 PROVE sent'[i].k # "status"
      <4>1. i - (m + 1) \in 1 .. n /\ (m + 1) + (i - (m + 1)) = i
        BY <2>2, <2>3, <3>1
      <4>2. sent'[i] = RespPart(q, i - (m + 1))
        BY <2>3, <4>1
      <4> QED BY <4>2 DEF RespPart
    <3> QED BY <3>1
  <2>5. ASSUME NEW i \in 1 .. m, sent[i].k = "status" PROVE AnswerAt(i)' /\ sent[i].q # q
    <3>1. AnswerAt(i)
      BY <1>1, <2>2, <2>5 DEF Answers
    <3>2. PICK w \in Nat : w = sent[i].n /\ i + w <= m
      BY <2>2, <3>1 DEF AnswerAt
    <3>3. \A j \in 1 .. w : i + j \in 1 .. m
      BY <2>2, <3>2
    <3>4. \A j \in 1 .. w : sent'[i + j] = RespPart(sent[i].q, j)
      BY <2>3, <3>1, <3>2, <3>3 DEF AnswerAt
    <3>5. i + w <= Len(sent')
      BY <2>2, <2>3, <3>2
    <3>6. sent'[i] = sent[i] /\ answer'[sent[i].q].pc = "sent" /\ sent[i].q \in Request /\ sent[i].q # q
      BY <1>2, <1>6, <2>3, <3>1 DEF AnswerAt
    <3> QED BY <3>2, <3>4, <3>5, <3>6 DEF AnswerAt
  <2>6. AnswerAt(m + 1)' /\ sent'[m + 1].q = q
    <3>1. sent'[m + 1].q = q /\ sent'[m + 1].n = n
      BY <2>3 DEF RespHead
    <3>2. (m + 1) + n <= Len(sent')
      BY <2>3
    <3> QED BY <1>4, <1>5, <2>3, <3>1, <3>2 DEF AnswerAt
  <2>7. \A i \in 1 .. m + 1 : i \in 1 .. m \/ i = m + 1
    OBVIOUS
  <2>8. Answers'
    <3>1. \A r \in Request : answer'[r].pc # "none" => r <= Len(emitted')
      BY <1>1, <1>2, <1>6 DEF Answers
    <3>2. \A i \in 1 .. Len(sent') : sent'[i].k = "status" => AnswerAt(i)'
      BY <2>3, <2>4, <2>5, <2>6, <2>7
    <3>3. ASSUME NEW i \in 1 .. Len(sent'), NEW j \in 1 .. Len(sent'), i # j,
                 sent'[i].k = "status", sent'[j].k = "status"
          PROVE  sent'[i].q # sent'[j].q
      <4>1. (i \in 1 .. m \/ i = m + 1) /\ (j \in 1 .. m \/ j = m + 1)
        BY <2>4, <2>7, <3>3
      <4>2. CASE i \in 1 .. m /\ j \in 1 .. m
        BY <1>1, <2>2, <2>3, <3>3, <4>2 DEF Answers
      <4> QED BY <2>3, <2>5, <2>6, <3>3, <4>1, <4>2
    <3> QED BY <3>1, <3>2, <3>3 DEF Answers
  <2>9. MailOrder'
    BY <1>1, <1>2, MailOrderStays
  <2>10. Server' = Server /\ sent' # <<>>
    BY <1>2, <2>1, <2>3, SeqLen DEF Server
  <2>11. Streams'
    BY <1>1, <1>2, <1>7, <2>10, StreamsStay
  <2>12. NodeTypes' /\ NodeStages' /\ Emissions' /\ Packs'
    BY <1>1, <1>2, <1>5, <1>7, <2>1, <2>10 DEF NodeTypes, NodeStages, Emissions, Packs, Whole
  <2> QED BY <2>8, <2>9, <2>11, <2>12 DEF NodeInv
<1> QED BY <1>12, <1>13, <1>14
LEMMA ServerCloseKeeps == ASSUME NodeInv, ServerClose PROVE NodeInv'
<1>1. NodeTypes /\ MailOrder /\ NodeStages /\ Streams /\ Emissions /\ Answers /\ Packs
  BY DEF NodeInv
<1>2. /\ UNCHANGED <<side, known, mail, wire, sent, nodeHttpVars>> /\ destroyed' = TRUE
      /\ entry' \in {entry, "none"} /\ layer' \in {layer, "gone"}
  BY DEF ServerClose, Destroy, CloseFd
<1>3. layer' \in Layers /\ (layer \in Over => layer' \in Over)
  BY <1>1, <1>2 DEF NodeTypes, Layers, Over
<1>4. side = "server" /\ Server
  BY DEF ServerClose, Server
<1>5. Streams' /\ MailOrder' /\ Answers'
  BY <1>1, <1>2, <1>3, StreamsStay, MailOrderStays, AnswersStay DEF nodeHttpVars, Answers
<1>6. NodeTypes' /\ NodeStages' /\ Emissions' /\ Packs'
  BY <1>1, <1>2, <1>3, <1>4 DEF NodeTypes, NodeStages, Emissions, Packs, Whole, Server, nodeHttpVars
<1> QED BY <1>5, <1>6 DEF NodeInv
LEMMA StartRequestKeeps == ASSUME NodeInv, StartRequest PROVE NodeInv'
<1>1. NodeTypes /\ MailOrder /\ NodeStages /\ Streams /\ Emissions /\ Answers /\ Packs
  BY DEF NodeInv
<1>2. /\ ~Server /\ ~Server' /\ client = "idle" /\ layer = "none"
      /\ \/ client' = "connecting" /\ layer' = "opening" /\ entry' = "connect"
         \/ client' = "rejected" /\ UNCHANGED <<layer, entry>>
      /\ UNCHANGED <<side, known, destroyed, mail, wire, sent, buffer, asked, emitted, answer, packed, via, reply, body>>
  BY DEF StartRequest, Connect, ConnectFails, Server
<1>3. layer \notin Over /\ layer' \in Layers
  BY <1>2 DEF Over, Layers
<1>4. MailOrder' /\ Answers'
  BY <1>1, <1>2, <1>3, MailOrderStays, AnswersStay DEF Answers
<1>5. Streams'
  <2>1. \E at : Lies(reply', 0, at, buffer', mail', wire')
    BY <1>1, <1>2 DEF Streams
  <2> QED BY <1>1, <1>2, <2>1, StreamsNext DEF Streams
<1>6. NodeTypes' /\ NodeStages' /\ Emissions' /\ Packs'
  BY <1>1, <1>2, <1>3 DEF NodeTypes, NodeStages, Emissions, Packs, Whole, RequestText, ContentLength
<1> QED BY <1>4, <1>5, <1>6 DEF NodeInv
\* An event that brings no bytes.
LEMMA LiesDropped ==
    ASSUME NEW S, NEW b, NEW at, NEW bf, NEW ml, NEW wr, Lies(S, b, at, bf, ml, wr), ml # <<>>,
           Head(ml).data = <<>> \/ Len(S) = 0
    PROVE  /\ \E at2 : Lies(S, b, at2, bf, Tail(ml), wr)
           /\ Head(ml).data = <<>>
<1>1. /\ IsSeq(bf) /\ IsSeq(ml) /\ Len(bf) \in Nat /\ b \in Nat /\ Len(ml) \in Nat /\ Len(ml) # 0
      /\ Head(ml) = ml[1]
  BY SeqLen, SeqTail DEF Lies
<1>2. PICK d : d = Head(ml).data
  OBVIOUS
<1>3. 0 \in 0 .. Len(ml) /\ 1 \in 0 .. Len(ml) /\ 1 \in 1 .. Len(ml) /\ 1 - 1 = 0
  BY <1>1
<1>4. IsSeq(d) /\ Len(d) \in Nat /\ at[1] = at[0] + Len(d) /\ at[1] <= Len(S) /\ at[0] = b + Len(bf)
  BY <1>1, <1>2, <1>3, SeqLen DEF Lies
<1>5. d = <<>>
  BY <1>1, <1>2, <1>4, SeqLen
<1>6. PICK at2 : Lies(S, b, at2, bf \o d, Tail(ml), wr)
  BY <1>2, LiesTaken
<1>7. bf \o d = bf
  <2>1. PICK S2 : bf \in Seq(S2)
    BY <1>1 DEF IsSeq
  <2> QED BY <1>5, <2>1, ConcatEmptySeq
<1> QED BY <1>2, <1>5, <1>6, <1>7
\* The event that is taken, and what is heard of it.
LEMMA HeardWas ==
    ASSUME entry \in {"none", "connect", "pump"}
    PROVE  /\ Heard = <<"connect">> <=> entry = "connect" /\ Event.type = "CONNECT"
           /\ Heard = <<"data">> <=> entry = "pump" /\ Event.type = "DATA"
           /\ Heard = <<"end", "close">> <=> entry = "pump" /\ Event.type = "CLOSE"
           /\ Heard = <<"error">> <=> entry = "pump" /\ Event.type = "ERROR"
           /\ Heard \in {<<"connect">>, <<"data">>, <<"end", "close">>, <<"error">>, <<>>}
BY DEF Heard
LEMMA HttpEventDoes ==
    ASSUME NodeTypes, MailOrder, mail # <<>>, mail' = Tail(mail), OnEvent, UNCHANGED <<layer, wire>>
    PROVE  /\ IsSeq(mail') /\ MailOrder' /\ known' \in BOOLEAN /\ destroyed' \in BOOLEAN
           /\ Event = Head(mail) /\ (Event.type # "DATA" => Event.data = <<>>)
           /\ Event.type \in {"CLOSE", "ERROR"} => layer \in Over
           /\ Event.type = "CLOSE" => Len(mail) = 1 /\ wire = <<>>
           /\ Heard = <<"connect">> => entry' = "pump"
           /\ Heard = <<"data">> => entry' = entry
           /\ Heard # <<"connect">> /\ Event.type \in {"CLOSE", "ERROR"} => entry' = "none"
           /\ Heard # <<"connect">> /\ Event.type \notin {"CLOSE", "ERROR"} => entry' = entry
<1>1. /\ IsSeq(mail') /\ Len(mail) \in Nat /\ Len(mail') = Len(mail) - 1 /\ Head(mail) = mail[1] /\ Len(mail) # 0
      /\ \A i \in 1 .. Len(mail') : i + 1 \in 1 .. Len(mail) /\ mail'[i] = mail[i + 1]
  BY SeqTail, SeqLen DEF NodeTypes
<1>2. 1 \in 1 .. Len(mail)
  BY <1>1
<1>3. /\ Event = Head(mail) /\ (Event.type # "DATA" => Event.data = <<>>)
      /\ Event.type \in {"CLOSE", "ERROR"} => layer \in Over
      /\ Event.type = "CLOSE" => Len(mail) = 1 /\ wire = <<>>
  BY <1>1, <1>2 DEF Event, MailOrder
<1>4. MailOrder'
  <2>1. ASSUME NEW i \in 1 .. Len(mail')
        PROVE  /\ mail'[i].type \in {"CLOSE", "ERROR"} => layer' \in Over
               /\ mail'[i].type # "DATA" => mail'[i].data = <<>>
               /\ mail'[i].type = "CLOSE" => i = Len(mail') /\ wire' = <<>>
    <3>1. i + 1 \in 1 .. Len(mail) /\ mail'[i] = mail[i + 1]
      BY <1>1
    <3>2. i + 1 = Len(mail) => i = Len(mail')
      <4>1. PICK n \in Nat : n = Len(mail) /\ Len(mail') = n - 1
        BY <1>1
      <4>2. i \in Nat
        BY <4>1
      <4> QED BY <4>1, <4>2
    <3> QED BY <3>1, <3>2 DEF MailOrder
  <2> QED BY <2>1 DEF MailOrder
<1>5. CASE Heard = <<"connect">>
  <2>1. OnConnect
    BY <1>5, HeardWas DEF OnEvent, NodeTypes
  <2>2. Event.type = "CONNECT"
    BY <1>5, HeardWas DEF NodeTypes
  <2> QED BY <1>1, <1>3, <1>4, <1>5, <2>1, <2>2 DEF OnConnect, NodeTypes
<1>6. CASE Heard = <<"data">>
  <2>1. UNCHANGED <<known, entry, destroyed>> /\ Event.type = "DATA"
    BY <1>6, HeardWas DEF OnEvent, NodeTypes
  <2> QED BY <1>1, <1>3, <1>4, <1>6, <2>1 DEF NodeTypes
<1>7. CASE Heard \notin {<<"connect">>, <<"data">>} /\ Event.type \in {"CLOSE", "ERROR"}
  <2>1. entry' = "none" /\ destroyed' = (destroyed \/ Heard = <<"end", "close">>) /\ known' = known
    BY <1>7 DEF OnEvent
  <2> QED BY <1>1, <1>3, <1>4, <1>7, <2>1 DEF NodeTypes
<1>8. CASE Heard \notin {<<"connect">>, <<"data">>} /\ Event.type \notin {"CLOSE", "ERROR"}
  <2>1. UNCHANGED <<known, entry, destroyed>>
    BY <1>8 DEF OnEvent
  <2> QED BY <1>1, <1>3, <1>4, <1>8, <2>1 DEF NodeTypes
<1> QED BY <1>5, <1>6, <1>7, <1>8
LEMMA SeqHead == ASSUME NEW s, IsSeq(s), s # <<>> PROVE Head(s) = s[1] /\ Len(s) \in Nat /\ Len(s) > 0
BY SeqTail, SeqLen
\* A delivery to the server: at most one request is parsed.
LEMMA DataEmits ==
    ASSUME NodeTypes, Emissions, Answers, NEW S, NEW h, NEW at, NEW data, Asks(S, h, asked), asked' = asked,
           Lies(S, h[Len(emitted) + 1] - 1, at, buffer \o data, mail', wire'), ServerData(data)
    PROVE  /\ \E b : Lies(S, b, at, buffer', mail', wire') /\ b = h[Len(emitted') + 1] - 1
           /\ IsSeq(emitted') /\ Len(emitted') <= asked /\ packed' \in BOOLEAN /\ Emissions'
           /\ answer' \in [Request -> AnswerOf]
           /\ \A q \in Request : answer[q].pc = "sent" => answer'[q].pc = "sent"
           /\ \A q \in Request : answer'[q].pc # "none" => q <= Len(emitted')
           /\ Whole(buffer') => packed'
<1>1. PICK B : B = buffer \o data
  OBVIOUS
<1>2. PICK e \in Nat : e = Len(emitted) /\ e <= asked
  BY SeqLen DEF NodeTypes
<1>3. asked \in Nat /\ asked <= MaxRequests
  BY NodeHttpAssumption DEF NodeTypes
<1>4. Len(S) \in Nat /\ IsSeq(B) /\ Len(B) \in Nat /\ (B = <<>> <=> Len(B) = 0)
  BY <1>1, SeqLen DEF Lies
<1>5. CASE ~Whole(B)
  <2>1. buffer' = B /\ UNCHANGED <<emitted, answer, packed>>
    BY <1>1, <1>5 DEF ServerData
  <2>2. Emissions'
    BY <2>1 DEF Emissions
  <2> QED BY <1>1, <1>2, <1>5, <2>1, <2>2 DEF NodeTypes, Answers
<1>6. CASE Whole(B)
  <2>1. /\ buffer' = SubSeq(B, Consumed(B) + 1, Len(B)) /\ emitted' = Append(emitted, ParseRequest(B))
        /\ answer' = [answer EXCEPT ![Head(B).q].pc = "working"]
        /\ packed' = (packed \/ buffer' # <<>>)
    BY <1>1, <1>6 DEF ServerData
  <2>2. B # <<>> /\ Head(B) = B[1] /\ Len(B) > 0
    BY <1>4, <1>6, SeqHead DEF Whole
  <2>3. e + 1 \in 1 .. asked + 1 /\ h[e + 1] \in Nat /\ h[e + 1] > 0 /\ h[e + 1] <= Len(S) + 1
    BY <1>2, <1>3 DEF Asks
  <2>4. PICK b \in Nat : b = h[e + 1] - 1 /\ b + 1 = h[e + 1]
    BY <2>3
  <2>5. /\ Lies(S, b, at, B, mail', wire') /\ at[0] = b + Len(B) /\ at[0] <= Len(S)
        /\ \A j \in 1 .. Len(B) : B[j] = S[b + j]
    <3>1. Lies(S, b, at, B, mail', wire')
      BY <1>1, <1>2, <2>4
    <3>2. IsSeq(mail')
      BY <3>1 DEF Lies
    <3>3. 0 \in 0 .. Len(mail')
      BY <3>2, SeqLen
    <3> QED BY <3>1, <3>3 DEF Lies
  <2>6. e # asked
    BY <1>3, <1>4, <2>2, <2>4, <2>5 DEF Asks
  <2>7. PICK q \in Nat : q = e + 1 /\ q \in 1 .. asked /\ q \in Request
    BY <1>2, <1>3, <2>6, NodeHttpAssumption DEF Request
  <2>8. PICK len \in {0, 1} : /\ h[q + 1] = h[q] + 1 + len /\ S[h[q]] = ReqHead(q, len)
                              /\ len = 1 => S[h[q] + 1] = ReqBody(q)
    BY <2>7 DEF Asks
  <2>9. B[1] = ReqHead(q, len)
    <3>1. 1 \in 1 .. Len(B)
      BY <1>4, <2>2
    <3> QED BY <2>4, <2>5, <2>7, <2>8, <3>1
  <2>10. Head(B).q = q /\ Head(B).len = len /\ Len(B) > len /\ Consumed(B) = 1 + len
    BY <1>6, <2>2, <2>9 DEF ReqHead, Whole, Consumed
  <2>11. PICK c \in Nat : c = 1 + len /\ c <= Len(B)
    BY <1>4, <2>10
  <2>12. Lies(S, b + c, at, buffer', mail', wire')
    BY <2>1, <2>5, <2>10, <2>11, LiesCut
  <2>13. IsSeq(emitted') /\ Len(emitted') = q /\ emitted'[q] = ParseRequest(B)
         /\ \A i \in 1 .. e : emitted'[i] = emitted[i]
    BY <1>2, <2>1, <2>7, SeqAppend DEF NodeTypes
  <2>14. b + c = h[Len(emitted') + 1] - 1
    <3>1. h[q] = b + 1
      BY <2>4, <2>7
    <3>2. h[q + 1] = h[q] + 1 + len
      BY <2>8
    <3>3. PICK l \in Nat : l = len
      OBVIOUS
    <3>4. h[q + 1] - 1 = b + (1 + l)
      BY <2>4, <3>1, <3>2, <3>3
    <3>5. b + c = h[q + 1] - 1
      BY <2>11, <3>3, <3>4
    <3> QED BY <2>13, <3>5
  <2>15. ParseRequest(B) = [q |-> q, len |-> len, body |-> SubSeq(B, 2, 1 + len)]
    BY <2>10 DEF ParseRequest
  <2>16. SubSeq(B, 2, 1 + len) = IF len = 1 THEN <<ReqBody(q)>> ELSE <<>>
    <3>1. PICK s : s = SubSeq(B, 1 + 1, 1 + len)
      OBVIOUS
    <3>2. IsSeq(s) /\ Len(s) = len /\ \A i \in 1 .. len : s[i] = B[1 + i]
      <4>1. PICK m \in Nat : m = 1 + len
        OBVIOUS
      <4>2. 1 <= m /\ m <= Len(B) /\ m - 1 = len /\ 1 \in Nat /\ IsSeq(B)
        BY <1>4, <2>10, <4>1
      <4>3. /\ IsSeq(SubSeq(B, 1 + 1, m)) /\ Len(SubSeq(B, 1 + 1, m)) = m - 1
            /\ \A i \in 1 .. m - 1 : SubSeq(B, 1 + 1, m)[i] = B[1 + i]
        BY ONLY <4>2, m \in Nat, SeqCut
      <4>4. s = SubSeq(B, 1 + 1, m)
        BY <3>1, <4>1
      <4> QED BY <4>2, <4>3, <4>4
    <3>3. CASE len = 1
      <4>1. 2 \in 1 .. Len(B) /\ b + 2 = h[q] + 1
        BY <1>4, <2>4, <2>7, <2>10, <3>3
      <4>2. B[2] = ReqBody(q)
        BY <2>5, <2>8, <3>3, <4>1
      <4>3. IsSeq(<<ReqBody(q)>>) /\ Len(<<ReqBody(q)>>) = 1 /\ <<ReqBody(q)>>[1] = ReqBody(q)
        BY SeqOne
      <4>4. PICK t : t = <<ReqBody(q)>>
        OBVIOUS
      <4>5. IsSeq(t) /\ Len(t) = 1 /\ t[1] = ReqBody(q)
        BY <4>3, <4>4
      <4>6. \A i \in 1 .. Len(s) : s[i] = t[i]
        BY <3>2, <3>3, <4>2, <4>5
      <4>7. s = t
        BY <3>2, <3>3, <4>5, <4>6, SeqSame
      <4>8. SubSeq(B, 2, 1 + len) = s
        <5>1. 1 + 1 = 2
          OBVIOUS
        <5> QED BY <3>1, <5>1
      <4> QED BY <3>3, <4>4, <4>7, <4>8
    <3>4. CASE len = 0
      <4>1. s = <<>>
        BY <3>2, <3>4, SeqLen
      <4>2. 1 + 1 = 2
        OBVIOUS
      <4> QED BY <3>1, <3>4, <4>1, <4>2
    <3> QED BY <3>3, <3>4
  <2>17. Emissions'
    <3>1. \A i \in 1 .. q : i \in 1 .. e \/ i = q
      BY <2>7
    <3>2. emitted'[q].q = q /\ emitted'[q].len = len /\ emitted'[q].body = SubSeq(B, 2, 1 + len)
      BY <2>13, <2>15
    <3> QED BY <1>2, <2>13, <2>16, <3>1, <3>2 DEF Emissions
  <2>18. PICK a \in AnswerOf : answer' = [answer EXCEPT ![q] = a] /\ a.pc = "working"
    <3>1. answer' = [answer EXCEPT ![q] = [answer[q] EXCEPT !.pc = "working"]]
      BY <2>1, <2>10
    <3>2. answer[q] \in AnswerOf
      BY <2>7 DEF NodeTypes
    <3>3. [answer[q] EXCEPT !.pc = "working"] \in AnswerOf /\ [answer[q] EXCEPT !.pc = "working"].pc = "working"
      BY <3>2 DEF AnswerOf
    <3> QED BY <3>1, <3>3
  <2>19. answer' \in [Request -> AnswerOf] /\ \A r \in Request : r # q => answer'[r] = answer[r]
    BY <2>7, <2>18, AnswerIs
  <2>20. answer[q].pc = "none"
    BY <1>2, <2>7 DEF Answers
  <2>21. \A r \in Request : answer[r].pc = "sent" => answer'[r].pc = "sent"
    BY <2>19, <2>20
  <2>22. \A r \in Request : answer'[r].pc # "none" => r <= Len(emitted')
    <3>1. ASSUME NEW r \in Request, answer'[r].pc # "none" PROVE r <= Len(emitted')
      <4>1. r \in Nat
        BY NodeHttpAssumption DEF Request
      <4>2. CASE r = q
        BY <2>13, <4>1, <4>2
      <4>3. CASE r # q
        <5>1. r <= e
          BY <1>2, <2>19, <3>1, <4>3 DEF Answers
        <5> QED BY <2>7, <2>13, <4>1, <5>1
      <4> QED BY <4>2, <4>3
    <3> QED BY <3>1
  <2>23. packed' \in BOOLEAN /\ (Whole(buffer') => packed')
    BY <2>1 DEF NodeTypes, Whole
  <2>24. Len(emitted') <= asked
    BY <2>7, <2>13
  <2> QED BY <2>12, <2>13, <2>14, <2>17, <2>19, <2>21, <2>22, <2>23, <2>24
<1> QED BY <1>5, <1>6
LEMMA ServerEventKeeps == ASSUME NodeInv, NodeEvent, Server PROVE NodeInv'
<1>1. NodeTypes /\ MailOrder /\ NodeStages /\ Streams /\ Emissions /\ Answers /\ Packs
  BY DEF NodeInv
<1>2. /\ mail # <<>> /\ mail' = Tail(mail) /\ OnEvent
      /\ UNCHANGED <<side, layer, wire, asked, via, reply, sent, client, body>>
      /\ IF Heard = <<"data">> THEN ServerData(Event.data) ELSE UNCHANGED <<buffer, emitted, answer, packed>>
  BY DEF NodeEvent, Server
<1>3. Server' /\ entry \in {"none", "pump"} /\ client = "idle"
  BY <1>1, <1>2 DEF Server, NodeStages, NodeTypes
<1>4. /\ IsSeq(mail') /\ MailOrder' /\ known' \in BOOLEAN /\ destroyed' \in BOOLEAN
      /\ Event = Head(mail) /\ (Event.type # "DATA" => Event.data = <<>>)
      /\ Heard = <<"data">> => entry' = entry
      /\ Heard # <<"connect">> /\ Event.type \in {"CLOSE", "ERROR"} => entry' = "none"
      /\ Heard # <<"connect">> /\ Event.type \notin {"CLOSE", "ERROR"} => entry' = entry
  BY <1>1, <1>2, HttpEventDoes
<1>5. /\ Heard # <<"connect">> /\ entry' \in {"none", "pump"} /\ (entry' = "pump" => entry = "pump")
      /\ Heard = <<"data">> <=> entry = "pump" /\ Event.type = "DATA"
  BY <1>3, <1>4, HeardWas
<1>6. client' = "idle" /\ ~(client' = "resolved") /\ NodeStages'
  BY <1>2, <1>3, <1>5 DEF NodeStages
<1>7. CASE Heard = <<"data">>
  <2>1. entry = "pump" /\ entry' = "pump" /\ ServerData(Event.data)
    BY <1>2, <1>4, <1>5, <1>7
  <2>2. PICK S, h, at : Asks(S, h, asked) /\ Lies(S, h[Len(emitted) + 1] - 1, at, buffer, mail, wire)
    BY <1>1, <2>1 DEF Streams
  <2>3. PICK at2 : Lies(S, h[Len(emitted) + 1] - 1, at2, buffer \o Event.data, mail', wire')
    BY <1>2, <1>4, <2>2, LiesTaken
  <2>4. PICK d : d = Event.data
    OBVIOUS
  <2>5. Lies(S, h[Len(emitted) + 1] - 1, at2, buffer \o d, mail', wire') /\ ServerData(d) /\ asked' = asked
    BY <1>2, <2>1, <2>3, <2>4
  <2>6. NodeTypes /\ Emissions /\ Answers /\ Asks(S, h, asked)
    BY <1>1, <2>2
  <2>7. /\ \E b : Lies(S, b, at2, buffer', mail', wire') /\ b = h[Len(emitted') + 1] - 1
        /\ IsSeq(emitted') /\ Len(emitted') <= asked /\ packed' \in BOOLEAN /\ Emissions'
        /\ answer' \in [Request -> AnswerOf]
        /\ \A q \in Request : answer[q].pc = "sent" => answer'[q].pc = "sent"
        /\ \A q \in Request : answer'[q].pc # "none" => q <= Len(emitted')
        /\ Whole(buffer') => packed'
    BY ONLY <2>5, <2>6, DataEmits
  <2>8. Lies(S, h[Len(emitted') + 1] - 1, at2, buffer', mail', wire') /\ Asks(S, h, asked')
    BY <2>5, <2>6, <2>7
  <2>9. Streams'
    BY <1>3, <1>6, <2>8, StreamsNext
  <2>10. Answers'
    BY <1>1, <1>2, <2>7, AnswersStay
  <2>11. NodeTypes' /\ Packs'
    BY <1>1, <1>2, <1>4, <2>1, <2>7 DEF NodeTypes, Packs, Whole
  <2> QED BY <1>4, <1>6, <2>7, <2>9, <2>10, <2>11 DEF NodeInv
<1>8. CASE Heard # <<"data">>
  <2>1. UNCHANGED <<buffer, emitted, answer, packed>>
    BY <1>2, <1>8
  <2>2. ASSUME entry' = "pump" PROVE \E S, h, at : Asks(S, h, asked') /\ Lies(S, h[Len(emitted') + 1] - 1, at, buffer', mail', wire')
    <3>1. entry = "pump" /\ Event.type # "DATA" /\ Head(mail).data = <<>>
      BY <1>4, <1>5, <1>8, <2>2
    <3>2. PICK S, h, at : Asks(S, h, asked) /\ Lies(S, h[Len(emitted) + 1] - 1, at, buffer, mail, wire)
      BY <1>1, <3>1 DEF Streams
    <3>3. PICK at2 : Lies(S, h[Len(emitted) + 1] - 1, at2, buffer, Tail(mail), wire)
      BY <1>2, <3>1, <3>2, LiesDropped
    <3>4. Asks(S, h, asked') /\ Lies(S, h[Len(emitted') + 1] - 1, at2, buffer', mail', wire')
      BY <1>2, <2>1, <3>2, <3>3
    <3> QED BY <3>4
  <2>3. Streams'
    BY <1>3, <1>6, <2>2, StreamsNext
  <2>4. Answers'
    BY <1>1, <1>2, <2>1, AnswersStay DEF Answers
  <2>5. NodeTypes' /\ Packs' /\ Emissions'
    BY <1>1, <1>2, <1>3, <1>4, <1>5, <2>1 DEF NodeTypes, Packs, Whole, Emissions
  <2> QED BY <1>4, <1>6, <2>3, <2>4, <2>5 DEF NodeInv
<1> QED BY <1>7, <1>8
LEMMA ClientEventKeeps == ASSUME NodeInv, NodeEvent, ~Server PROVE NodeInv'
<1>1. NodeTypes /\ MailOrder /\ NodeStages /\ Streams /\ Emissions /\ Answers /\ Packs
  BY DEF NodeInv
<1>2. /\ mail # <<>> /\ mail' = Tail(mail) /\ OnEvent
      /\ UNCHANGED <<side, layer, wire, asked, via, reply, emitted, answer, packed>>
      /\ sent' = IF Heard = <<"connect">> /\ layer = "open" THEN sent \o RequestText ELSE sent
      /\ buffer' = IF Heard = <<"data">> THEN buffer \o Event.data ELSE buffer
      /\ body' = IF client' = "resolved" THEN Tail(buffer) ELSE body
  BY DEF NodeEvent, Server
<1>3. client' = CASE Heard = <<"connect">> -> "waiting"
                  [] client = "waiting" /\ Heard = <<"end", "close">> -> ParseResponse(buffer)
                  [] client = "waiting" /\ Heard = <<"error">> -> "rejected"
                  [] OTHER -> client
  BY DEF NodeEvent, Server, HeardEnd
<1>4. /\ IsSeq(mail') /\ MailOrder' /\ known' \in BOOLEAN /\ destroyed' \in BOOLEAN
      /\ Event = Head(mail) /\ (Event.type # "DATA" => Event.data = <<>>)
      /\ Event.type \in {"CLOSE", "ERROR"} => layer \in Over
      /\ Event.type = "CLOSE" => Len(mail) = 1 /\ wire = <<>>
      /\ Heard = <<"connect">> => entry' = "pump"
      /\ Heard = <<"data">> => entry' = entry
      /\ Heard # <<"connect">> /\ Event.type \in {"CLOSE", "ERROR"} => entry' = "none"
      /\ Heard # <<"connect">> /\ Event.type \notin {"CLOSE", "ERROR"} => entry' = entry
  BY <1>1, <1>2, HttpEventDoes
<1>5. entry \in {"none", "connect", "pump"}
  BY <1>1 DEF NodeTypes
<1>6. /\ Heard = <<"connect">> <=> entry = "connect" /\ Event.type = "CONNECT"
      /\ Heard = <<"data">> <=> entry = "pump" /\ Event.type = "DATA"
      /\ Heard = <<"end", "close">> <=> entry = "pump" /\ Event.type = "CLOSE"
      /\ Heard = <<"error">> <=> entry = "pump" /\ Event.type = "ERROR"
      /\ Heard \in {<<"connect">>, <<"data">>, <<"end", "close">>, <<"error">>, <<>>}
  BY <1>5, HeardWas
<1>7. ~Server' /\ (entry = "pump" <=> client = "waiting") /\ (entry = "connect" => client = "connecting")
      /\ sent \in {<<>>, RequestText} /\ RequestText' = RequestText /\ asked' = 0
  BY <1>1, <1>2 DEF Server, NodeStages, RequestText, ContentLength
<1>8. Emissions' /\ Packs'
  BY <1>1, <1>2, <1>7 DEF Emissions, Packs
<1>9. CASE Heard = <<"connect">>
  <2>1. entry = "connect" /\ client = "connecting" /\ sent = <<>> /\ reply = <<>> /\ Event.type = "CONNECT"
    BY <1>1, <1>6, <1>7, <1>9 DEF NodeStages, Streams
  <2>2. client' = "waiting" /\ entry' = "pump" /\ buffer' = buffer /\ body' = body
    <3>1. client' = "waiting"
      BY <1>3, <1>9
    <3>2. Heard # <<"data">>
      BY <1>6, <2>1
    <3> QED BY <1>2, <1>4, <1>9, <3>1, <3>2
  <2>3. sent' \in {<<>>, RequestText}
    <3>1. <<>> \o RequestText = RequestText
      <4>1. PICK R : RequestText \in Seq(R)
        BY RequestTextIs DEF IsSeq
      <4> QED BY <4>1, ConcatEmptySeq
    <3> QED BY <1>2, <2>1, <3>1
  <2>4. IsSeq(sent') /\ \A i \in 1 .. Len(sent') : sent'[i].k # "status"
    <3>1. CASE sent' = <<>>
      <4>1. Len(sent') = 0 /\ IsSeq(sent')
        BY <3>1, SeqNone
      <4> QED BY <4>1
    <3>2. CASE sent' = RequestText
      BY <3>2, RequestTextIs
    <3> QED BY <2>3, <3>1, <3>2
  <2>5. Answers'
    BY <1>1, <1>2, <2>4 DEF Answers
  <2>6. PICK at : Lies(reply, 0, at, buffer, mail, wire)
    BY <1>1, <2>1 DEF Streams
  <2>7. Head(mail).data = <<>>
    BY <1>4, <2>1
  <2>8. \E at2 : Lies(reply, 0, at2, buffer, Tail(mail), wire)
    BY <1>2, <2>6, <2>7, LiesDropped
  <2>9. \E at2 : Lies(reply', 0, at2, buffer', mail', wire')
    BY <1>2, <2>2, <2>8
  <2>10. Streams'
    BY <1>2, <1>7, <2>1, <2>2, <2>9, StreamsNext
  <2>11. NodeTypes' /\ NodeStages'
    BY <1>1, <1>2, <1>4, <1>7, <2>2, <2>3, <2>4 DEF NodeTypes, NodeStages
  <2> QED BY <1>4, <1>8, <2>5, <2>10, <2>11 DEF NodeInv
<1>10. ASSUME Heard # <<"connect">> PROVE sent' = sent /\ Answers'
  <2>1. sent' = sent
    BY <1>2, <1>10
  <2> QED BY <1>1, <1>2, <2>1, AnswersStay DEF Answers
<1>11. CASE Heard = <<"data">>
  <2>1. /\ entry = "pump" /\ client = "waiting" /\ entry' = "pump" /\ client' = "waiting" /\ Event.type = "DATA"
        /\ Heard # <<"connect">>
    BY <1>3, <1>4, <1>6, <1>7, <1>11
  <2>2. PICK at : Lies(reply, 0, at, buffer, mail, wire)
    BY <1>1, <1>7, <2>1 DEF Streams
  <2>3. \E at2 : Lies(reply, 0, at2, buffer \o Head(mail).data, Tail(mail), wire)
    BY <1>2, <2>2, LiesTaken
  <2>4. \E at2 : Lies(reply', 0, at2, buffer', mail', wire')
    BY <1>2, <1>4, <1>11, <2>3
  <2>5. Streams'
    BY <1>1, <1>2, <1>7, <1>10, <2>1, <2>4, StreamsNext DEF Streams
  <2>6. NodeTypes' /\ NodeStages'
    BY <1>1, <1>2, <1>4, <1>7, <1>10, <2>1 DEF NodeTypes, NodeStages
  <2> QED BY <1>4, <1>8, <1>10, <2>1, <2>5, <2>6 DEF NodeInv
<1>12. CASE Heard = <<"end", "close">>
  <2>1. /\ entry = "pump" /\ client = "waiting" /\ entry' = "none" /\ Event.type = "CLOSE" /\ layer \in Over
        /\ Heard # <<"connect">> /\ Heard # <<"data">> /\ buffer' = buffer /\ Len(mail) = 1 /\ wire = <<>>
    BY <1>2, <1>4, <1>6, <1>7, <1>12
  <2>2. client' \in {"rejected", "resolved"}
    <3>1. client' = ParseResponse(buffer)
      BY <1>3, <1>12, <2>1
    <3> QED BY <3>1 DEF ParseResponse
  <2>3. PICK at : Lies(reply, 0, at, buffer, mail, wire)
    BY <1>1, <1>7, <2>1 DEF Streams
  <2>4. buffer = reply
    <3>1. 1 \in 1 .. Len(mail) /\ 0 \in 0 .. Len(mail) /\ 1 \in 0 .. Len(mail) /\ 1 - 1 = 0
      BY <2>1
    <3>2. /\ IsSeq(reply) /\ IsSeq(buffer) /\ at[0] \in Nat /\ at[0] = 0 + Len(buffer)
          /\ at[1] = at[0] + Len(mail[1].data) /\ Len(reply) = at[1] + Len(wire)
          /\ \A j \in 1 .. Len(buffer) : buffer[j] = reply[0 + j]
      BY <2>1, <2>3, <3>1 DEF Lies
    <3>3. mail[1].data = <<>>
      BY <1>1, <2>1, <3>1, SeqTail, <1>4, <1>2 DEF NodeTypes
    <3>4. Len(buffer) = Len(reply)
      BY <2>1, <3>2, <3>3, SeqNone, SeqLen
    <3>5. \A j \in 1 .. Len(buffer) : buffer[j] = reply[j]
      <4>1. \A j \in 1 .. Len(buffer) : 0 + j = j
        BY <3>2, SeqLen
      <4> QED BY <3>2, <4>1
    <3> QED BY <3>2, <3>4, <3>5, SeqSame
  <2>5. client' = "resolved" => buffer' = reply' /\ body' = Tail(reply') /\ layer' \in Over /\ entry' = "none"
    BY <1>2, <2>1, <2>4
  <2>6. Streams'
    <3>1. ~Server' /\ sent' = <<>> => reply' = <<>>
      BY <1>1, <1>2, <1>7, <1>10, <2>1 DEF Streams
    <3> QED BY <1>7, <2>2, <2>5, <3>1, StreamsNext
  <2>7. NodeTypes' /\ NodeStages'
    BY <1>1, <1>2, <1>4, <1>7, <1>10, <2>1, <2>2 DEF NodeTypes, NodeStages
  <2> QED BY <1>4, <1>8, <1>10, <2>1, <2>6, <2>7 DEF NodeInv
<1>13. CASE Heard = <<"error">>
  <2>1. /\ entry = "pump" /\ client = "waiting" /\ entry' = "none" /\ Event.type = "ERROR"
        /\ Heard # <<"connect">> /\ Heard # <<"data">> /\ buffer' = buffer /\ client' = "rejected"
    BY <1>2, <1>3, <1>4, <1>6, <1>7, <1>13
  <2>2. Streams'
    <3>1. ~Server' /\ sent' = <<>> => reply' = <<>>
      BY <1>1, <1>2, <1>7, <1>10, <2>1 DEF Streams
    <3> QED BY <1>7, <2>1, <3>1, StreamsNext
  <2>3. NodeTypes' /\ NodeStages'
    BY <1>1, <1>2, <1>4, <1>7, <1>10, <2>1 DEF NodeTypes, NodeStages
  <2> QED BY <1>4, <1>8, <1>10, <2>1, <2>2, <2>3 DEF NodeInv
<1>14. CASE Heard = <<>>
  <2>1. /\ Heard # <<"connect">> /\ Heard # <<"data">> /\ Heard # <<"error">> /\ Heard # <<"end", "close">>
    BY <1>14
  <2>2. client' = client /\ buffer' = buffer /\ sent' = sent
    BY <1>2, <1>3, <1>10, <2>1
  <2>3. entry' \in {entry, "none"} /\ (entry = "pump" => entry' = "pump" /\ Event.type # "DATA")
    BY <1>4, <1>6, <2>1
  <2>4. body' = IF client = "resolved" THEN Tail(buffer) ELSE body
    BY <1>2, <2>2
  <2>5. ASSUME client \in {"idle", "connecting", "waiting"}
        PROVE  \E at : Lies(reply', 0, at, buffer', mail', wire')
    <3>1. PICK at : Lies(reply, 0, at, buffer, mail, wire)
      BY <1>1, <1>7, <2>5 DEF Streams
    <3>2. Head(mail).data = <<>> \/ Len(reply) = 0
      <4>1. CASE Event.type # "DATA"
        BY <1>4, <4>1
      <4>2. CASE Event.type = "DATA"
        <5>1. client \in {"idle", "connecting"}
          BY <1>7, <2>3, <2>5, <4>2
        <5>2. reply = <<>>
          BY <1>1, <5>1 DEF NodeStages, Streams
        <5> QED BY <5>2, SeqNone
      <4> QED BY <4>1, <4>2
    <3>3. \E at2 : Lies(reply, 0, at2, buffer, Tail(mail), wire)
      BY <1>2, <3>1, <3>2, LiesDropped
    <3> QED BY <1>2, <2>2, <3>3
  <2>6. client' = "resolved" => buffer' = reply' /\ body' = Tail(reply') /\ layer' \in Over /\ entry' = "none"
    BY <1>1, <1>2, <2>2, <2>3, <2>4 DEF Streams
  <2>7. Streams'
    <3>1. ~Server' /\ sent' = <<>> => reply' = <<>>
      BY <1>1, <1>2, <1>7, <2>2 DEF Streams
    <3> QED BY <1>7, <2>2, <2>5, <2>6, <3>1, StreamsNext
  <2>8. NodeTypes' /\ NodeStages'
    BY <1>1, <1>2, <1>4, <1>5, <1>7, <2>2, <2>3 DEF NodeTypes, NodeStages
  <2> QED BY <1>4, <1>8, <1>10, <2>1, <2>7, <2>8 DEF NodeInv
<1> QED BY <1>6, <1>9, <1>11, <1>12, <1>13, <1>14
LEMMA SeqPush == ASSUME NEW s, IsSeq(s), NEW e PROVE Append(s, e) = s \o <<e>>
<1>1. PICK a : a = Append(s, e)
  OBVIOUS
<1>2. IsSeq(a) /\ Len(s) \in Nat /\ Len(a) = Len(s) + 1 /\ (\A i \in 1 .. Len(s) : a[i] = s[i]) /\ a[Len(s) + 1] = e
  BY <1>1, SeqAppend
<1>3. PICK t : t = <<e>>
  OBVIOUS
<1>4. IsSeq(t) /\ Len(t) = 1 /\ t[1] = e
  BY <1>3, SeqOne
<1>5. PICK b : b = s \o t
  OBVIOUS
<1>6. /\ IsSeq(b) /\ Len(b) = Len(s) + Len(t) /\ (\A i \in 1 .. Len(s) : b[i] = s[i])
      /\ \A i \in 1 .. Len(t) : b[Len(s) + i] = t[i]
  <2>1. IsSeq(s) /\ IsSeq(t)
    BY <1>4
  <2> QED BY ONLY <1>5, <2>1, SeqConcat
<1>7. Len(b) = Len(s) + 1 /\ b[Len(s) + 1] = e
  <2>1. 1 \in 1 .. Len(t)
    BY <1>4
  <2> QED BY <1>2, <1>4, <1>6, <2>1
<1>8. \A i \in 1 .. Len(a) : a[i] = b[i]
  <2>1. \A i \in 1 .. Len(a) : i \in 1 .. Len(s) \/ i = Len(s) + 1
    BY <1>2
  <2> QED BY <1>2, <1>6, <1>7, <2>1
<1>9. a = b
  BY <1>2, <1>6, <1>7, <1>8, SeqSame
<1> QED BY <1>1, <1>3, <1>5, <1>9
\* A new request is at the end of what was sent.
IsAsked(x, q) ==
    /\ IsSeq(x)
    /\ \E len \in {0, 1} :
          Len(x) = 1 + len /\ x[1] = ReqHead(q, len) /\ (len = 1 => x[2] = ReqBody(q))
LEMMA AsksMore ==
    ASSUME NEW S, IsSeq(S), NEW h, NEW n \in Nat, Asks(S, h, n), NEW k, k = n + 1, NEW x, IsAsked(x, k)
    PROVE  \E h2 : Asks(S \o x, h2, k) /\ \A q \in 1 .. k : h2[q] = h[q]
<1>0. PICK len \in {0, 1} :
          IsSeq(x) /\ Len(x) = 1 + len /\ x[1] = ReqHead(k, len) /\ (len = 1 => x[2] = ReqBody(k))
  BY DEF IsAsked
<1>1. PICK T : T = S \o x
  OBVIOUS
<1>2. PICK l \in Nat : l = Len(S)
  BY SeqLen
<1>3. /\ IsSeq(T) /\ Len(T) = l + Len(x) /\ (\A i \in 1 .. l : T[i] = S[i])
      /\ \A i \in 1 .. Len(x) : T[l + i] = x[i]
  <2>1. IsSeq(S) /\ IsSeq(x)
    BY <1>0
  <2> QED BY ONLY <1>1, <1>2, <2>1, SeqConcat
<1>4. PICK m \in {0, 1} : m = len
  OBVIOUS
<1>5. Len(T) = l + (1 + m) /\ Len(T) \in Nat
  BY <1>0, <1>2, <1>3, <1>4
<1> DEFINE h2 == [q \in 1 .. n + 2 |-> IF q = n + 2 THEN l + 2 + m ELSE h[q]]
<1>6. (\A q \in 1 .. n + 1 : h2[q] = h[q]) /\ h2[n + 2] = l + 2 + m /\ (n + 1) + 1 = n + 2
  OBVIOUS
<1> HIDE DEF h2
<1>7. /\ h[1] = 1 /\ h[n + 1] = l + 1
      /\ \A q \in 1 .. n + 1 : h[q] \in Nat /\ h[q] > 0 /\ h[q] <= l + 1
      /\ \A q \in 1 .. n : \E c \in {0, 1} :
            /\ h[q + 1] = h[q] + 1 + c /\ S[h[q]] = ReqHead(q, c)
            /\ c = 1 => S[h[q] + 1] = ReqBody(q)
  BY <1>2 DEF Asks
<1>8. h2[1] = 1
  <2>1. 1 \in 1 .. n + 1
    OBVIOUS
  <2> QED BY <1>6, <1>7, <2>1
<1>9. h2[(n + 1) + 1] = Len(T) + 1
  BY <1>5, <1>6
<1>10. ASSUME NEW q \in 1 .. (n + 1) + 1
       PROVE  h2[q] \in Nat /\ h2[q] > 0 /\ h2[q] <= Len(T) + 1
  <2>1. q \in 1 .. n + 1 \/ q = n + 2
    OBVIOUS
  <2>2. CASE q \in 1 .. n + 1
    BY <1>5, <1>6, <1>7, <2>2
  <2>3. CASE q = n + 2
    BY <1>5, <1>6, <2>3
  <2> QED BY <2>1, <2>2, <2>3
<1>11. ASSUME NEW q \in 1 .. n + 1
       PROVE  \E c \in {0, 1} : /\ h2[q + 1] = h2[q] + 1 + c /\ T[h2[q]] = ReqHead(q, c)
                                /\ c = 1 => T[h2[q] + 1] = ReqBody(q)
  <2>1. h2[q] = h[q]
    BY <1>6
  <2>2. CASE q \in 1 .. n
    <3>1. PICK c \in {0, 1} : /\ h[q + 1] = h[q] + 1 + c /\ S[h[q]] = ReqHead(q, c)
                              /\ c = 1 => S[h[q] + 1] = ReqBody(q)
      BY <1>7, <2>2
    <3>2. q + 1 \in 1 .. n + 1 /\ h2[q + 1] = h[q + 1]
      BY <1>6, <2>2
    <3>3. PICK p \in Nat : p = h[q] /\ p > 0 /\ p + 1 + c <= l + 1
      <4>1. q \in 1 .. n + 1
        OBVIOUS
      <4>2. PICK p \in Nat : p = h[q] /\ p > 0
        BY <1>7, <4>1
      <4>3. h[q + 1] <= l + 1
        BY <1>7, <3>2
      <4>4. h[q + 1] = p + 1 + c
        BY <3>1, <4>2
      <4> QED BY <4>2, <4>3, <4>4
    <3>4. p \in 1 .. l /\ (c = 1 => p + 1 \in 1 .. l)
      <4>1. l \in Nat /\ p \in Nat /\ c \in {0, 1} /\ p > 0 /\ p + 1 + c <= l + 1
        BY <1>2, <3>1, <3>3
      <4> QED BY ONLY <4>1
    <3> QED BY <1>3, <2>1, <3>1, <3>2, <3>3, <3>4
  <2>3. CASE q = n + 1
    <3>1. h2[q] = l + 1 /\ h2[q + 1] = l + 1 + 1 + m
      BY <1>6, <1>7, <2>1, <2>3
    <3>2. 1 \in 1 .. Len(x) /\ (m = 1 => 2 \in 1 .. Len(x))
      BY <1>0, <1>4
    <3>3. T[l + 1] = ReqHead(q, m) /\ (m = 1 => T[l + 2] = ReqBody(q))
      BY <1>0, <1>3, <1>4, <2>3, <3>2
    <3>4. (l + 1) + 1 = l + 2
      OBVIOUS
    <3> QED BY <3>1, <3>3, <3>4
  <2> QED BY <2>2, <2>3
<1>12. Asks(T, h2, n + 1)
  BY <1>8, <1>9, <1>10, <1>11 DEF Asks
<1> QED BY <1>1, <1>6, <1>12
LEMMA PeerAsksKeeps == ASSUME NodeInv, NEW len \in {0, 1}, PeerAsks(len) PROVE NodeInv'
<1>1. NodeTypes /\ MailOrder /\ NodeStages /\ Streams /\ Emissions /\ Answers /\ Packs
  BY DEF NodeInv
<1>2. /\ Server /\ Server' /\ layer = "open" /\ asked < MaxRequests /\ asked' = asked + 1
      /\ wire' = wire \o <<ReqHead(asked', len)>> \o (IF len = 1 THEN <<ReqBody(asked')>> ELSE <<>>)
      /\ UNCHANGED <<side, layer, entry, known, destroyed, mail, sent, buffer, emitted, answer, packed, client,
                     via, reply, body>>
  BY DEF PeerAsks, Server
<1>3. asked \in Nat /\ asked' \in 0 .. MaxRequests /\ (\A k \in Nat : k <= asked => k <= asked')
  BY <1>1, <1>2, NodeHttpAssumption DEF NodeTypes
<1>4. layer \notin Over /\ client = "idle"
  BY <1>1, <1>2 DEF Over, NodeStages
<1>5. MailOrder'
  BY <1>1, <1>2, <1>4 DEF MailOrder
<1>6. ASSUME entry = "pump"
      PROVE  \E S, h, at : Asks(S, h, asked') /\ Lies(S, h[Len(emitted) + 1] - 1, at, buffer, mail, wire')
  <2>1. PICK S, h, at : Asks(S, h, asked) /\ Lies(S, h[Len(emitted) + 1] - 1, at, buffer, mail, wire)
    BY <1>1, <1>2, <1>6 DEF Streams
  <2>2. PICK H : H = <<ReqHead(asked + 1, len)>>
    OBVIOUS
  <2>3. IsSeq(H) /\ Len(H) = 1 /\ H[1] = ReqHead(asked + 1, len)
    BY <2>2, SeqOne
  <2>4. PICK B : B = IF len = 1 THEN <<ReqBody(asked + 1)>> ELSE <<>>
    OBVIOUS
  <2>5. IsSeq(B) /\ Len(B) = len /\ (len = 1 => B[1] = ReqBody(asked + 1))
    <3>1. CASE len = 1
      BY <2>4, <3>1, SeqOne
    <3>2. CASE len = 0
      BY <2>4, <3>2, SeqNone
    <3> QED BY <3>1, <3>2
  <2>6. PICK x : x = H \o B
    OBVIOUS
  <2>7. IsSeq(x) /\ Len(x) = 1 + len /\ x[1] = H[1] /\ (len = 1 => x[2] = B[1])
    <3>1. /\ IsSeq(x) /\ Len(x) = Len(H) + Len(B) /\ (\A i \in 1 .. Len(H) : x[i] = H[i])
          /\ \A i \in 1 .. Len(B) : x[Len(H) + i] = B[i]
      <4>1. IsSeq(H) /\ IsSeq(B)
        BY <2>3, <2>5
      <4> QED BY ONLY <2>6, <4>1, SeqConcat
    <3>2. 1 \in 1 .. Len(H) /\ (len = 1 => 1 \in 1 .. Len(B)) /\ 1 + 1 = 2
      BY <2>3, <2>5
    <3>3. Len(x) = 1 + len
      BY <2>3, <2>5, <3>1
    <3>4. x[1] = H[1]
      BY <3>1, <3>2
    <3>5. len = 1 => x[2] = B[1]
      BY <2>3, <3>1, <3>2
    <3> QED BY <3>1, <3>3, <3>4, <3>5
  <2>8. IsSeq(S) /\ IsSeq(wire)
    BY <2>1 DEF Lies
  <2>9. wire' = wire \o x
    <3>1. wire' = (wire \o H) \o B
      BY <1>2, <2>2, <2>4
    <3>2. (wire \o H) \o B = wire \o (H \o B)
      BY ONLY <2>3, <2>5, <2>8, SeqJoin
    <3> QED BY <2>6, <3>1, <3>2
  <2>10. PICK b : b = h[Len(emitted) + 1] - 1
    OBVIOUS
  <2>11. Lies(S, b, at, buffer, mail, wire) /\ IsSeq(x)
    BY <2>1, <2>7, <2>10
  <2>12. Lies(S \o x, b, at, buffer, mail, wire \o x)
    BY ONLY <2>11, LiesSent
  <2>13. Asks(S, h, asked) /\ x[1] = ReqHead(asked + 1, len) /\ (len = 1 => x[2] = ReqBody(asked + 1))
    BY <2>1, <2>3, <2>5, <2>7
  <2>14. PICK h2 : Asks(S \o x, h2, asked + 1) /\ \A q \in 1 .. asked + 1 : h2[q] = h[q]
    <3>1. PICK k : k = asked + 1
      OBVIOUS
    <3>2. IsAsked(x, k)
      BY <2>7, <2>13, <3>1 DEF IsAsked
    <3>3. IsSeq(S) /\ asked \in Nat /\ Asks(S, h, asked)
      BY <1>3, <2>8, <2>13
    <3>4. \E h2 : Asks(S \o x, h2, k) /\ \A q \in 1 .. k : h2[q] = h[q]
      BY ONLY <3>1, <3>2, <3>3, AsksMore
    <3> QED BY <3>1, <3>4
  <2>15. Len(emitted) + 1 \in 1 .. asked + 1
    BY <1>1, <1>3, SeqLen DEF NodeTypes
  <2>16. h2[Len(emitted) + 1] - 1 = b
    BY <2>10, <2>14, <2>15
  <2> QED BY <1>2, <2>9, <2>12, <2>14, <2>16
<1>7. Streams'
  <2>1. Server' /\ entry' = "pump" =>
            \E S, h, at : Asks(S, h, asked') /\ Lies(S, h[Len(emitted') + 1] - 1, at, buffer', mail', wire')
    BY <1>2, <1>6
  <2> QED BY <1>2, <1>4, <2>1, StreamsNext
<1>8. Answers'
  BY <1>1, <1>2, AnswersStay DEF Answers
<1>9. NodeTypes'
  <2>1. Len(emitted) <= asked'
    BY <1>1, <1>3, SeqLen DEF NodeTypes
  <2> QED BY <1>1, <1>2, <1>3, <2>1 DEF NodeTypes
<1>10. NodeStages' /\ Emissions' /\ Packs'
  BY <1>1, <1>2 DEF NodeStages, Emissions, Packs, Whole
<1> QED BY <1>5, <1>7, <1>8, <1>9, <1>10 DEF NodeInv
LEMMA PeerRepliesKeeps == ASSUME NodeInv, PeerReplies PROVE NodeInv'
<1>1. NodeTypes /\ MailOrder /\ NodeStages /\ Streams /\ Emissions /\ Answers /\ Packs
  BY DEF NodeInv
<1>2. /\ ~Server /\ ~Server' /\ layer = "open" /\ sent # <<>>
      /\ UNCHANGED <<side, layer, entry, known, destroyed, mail, sent, buffer, asked, emitted, answer, packed,
                     client, via, body>>
  BY DEF PeerReplies, Server
<1>3. PICK token : wire' = Append(wire, token) /\ reply' = Append(reply, token)
  BY DEF PeerReplies
<1>4. layer \notin Over /\ client # "resolved"
  BY <1>1, <1>2 DEF Over, Streams
<1>5. IsSeq(reply) /\ IsSeq(reply')
  BY <1>1, <1>3, SeqAppend DEF NodeTypes
<1>6. MailOrder'
  BY <1>1, <1>2, <1>4 DEF MailOrder
<1>7. ASSUME client \in {"idle", "connecting", "waiting"}
      PROVE  \E at : Lies(reply', 0, at, buffer', mail', wire')
  <2>1. PICK at : Lies(reply, 0, at, buffer, mail, wire)
    BY <1>1, <1>2, <1>7 DEF Streams
  <2>2. PICK x : x = <<token>>
    OBVIOUS
  <2>3. IsSeq(x) /\ IsSeq(wire)
    BY <2>1, <2>2, SeqOne DEF Lies
  <2>4. wire' = wire \o x /\ reply' = reply \o x
    BY <1>3, <1>5, <2>2, <2>3, SeqPush
  <2>5. Lies(reply \o x, 0, at, buffer, mail, wire \o x)
    BY ONLY <2>1, <2>3, LiesSent
  <2> QED BY <1>2, <2>4, <2>5
<1>8. Streams'
  BY <1>2, <1>4, <1>7, StreamsNext
<1>9. Answers'
  BY <1>1, <1>2, AnswersStay DEF Answers
<1>10. NodeTypes' /\ NodeStages' /\ Emissions' /\ Packs'
  BY <1>1, <1>2, <1>5 DEF NodeTypes, NodeStages, RequestText, ContentLength, Emissions, Packs
<1> QED BY <1>6, <1>8, <1>9, <1>10 DEF NodeInv
LEMMA NodeStays ==
    ASSUME NodeInv, UNCHANGED <<side, layer, entry, known, destroyed, mail, wire, sent, nodeHttpVars>>
    PROVE  NodeInv'
<1>1. NodeTypes /\ MailOrder /\ NodeStages /\ Streams /\ Emissions /\ Answers /\ Packs
  BY DEF NodeInv
<1>2. UNCHANGED <<buffer, asked, emitted, answer, packed, client, via, reply, body>>
  BY DEF nodeHttpVars
<1>3. Streams' /\ MailOrder' /\ Answers'
  BY <1>1, <1>2, StreamsStay, MailOrderStays, AnswersStay DEF Answers
<1>4. NodeTypes' /\ NodeStages' /\ Emissions' /\ Packs'
  BY <1>1, <1>2 DEF NodeTypes, NodeStages, RequestText, ContentLength, Emissions, Packs, Whole, Server
<1> QED BY <1>3, <1>4 DEF NodeInv
\* An event joins those that wait: the start of the wire, or one without bytes.
LEMMA LiesPosts ==
    ASSUME NEW S, NEW b, NEW at, Lies(S, b, at, buffer, mail, wire), NEW e, mail' = Append(mail, e),
           \/ e.data = <<>> /\ wire' = wire
           \/ \E k \in 1 .. Len(wire) : e.data = SubSeq(wire, 1, k) /\ wire' = SubSeq(wire, k + 1, Len(wire))
    PROVE  \E at2 : Lies(S, b, at2, buffer, mail', wire')
<1>1. IsSeq(wire) /\ Len(wire) \in Nat
  BY SeqLen DEF Lies
<1>2. PICK k \in Nat : /\ k <= Len(wire) /\ IsSeq(e.data) /\ Len(e.data) = k
                       /\ \A j \in 1 .. k : e.data[j] = wire[j]
                       /\ IsSeq(wire') /\ Len(wire') = Len(wire) - k
                       /\ \A j \in 1 .. Len(wire) - k : wire'[j] = wire[k + j]
  <2>1. CASE e.data = <<>> /\ wire' = wire
    <3>1. IsSeq(e.data) /\ Len(e.data) = 0
      BY <2>1, SeqNone
    <3>2. Len(wire) - 0 = Len(wire) /\ 0 <= Len(wire) /\ \A j \in 1 .. Len(wire) : 0 + j = j
      BY <1>1
    <3> QED BY <1>1, <2>1, <3>1, <3>2
  <2>2. ASSUME NEW k \in 1 .. Len(wire), e.data = SubSeq(wire, 1, k), wire' = SubSeq(wire, k + 1, Len(wire))
        PROVE  /\ k \in Nat /\ k <= Len(wire) /\ IsSeq(e.data) /\ Len(e.data) = k
               /\ \A j \in 1 .. k : e.data[j] = wire[j]
               /\ IsSeq(wire') /\ Len(wire') = Len(wire) - k
               /\ \A j \in 1 .. Len(wire) - k : wire'[j] = wire[k + j]
    <3>1. k \in Nat /\ k <= Len(wire) /\ 0 <= k /\ 0 \in Nat /\ Len(wire) <= Len(wire)
      BY <1>1
    <3>2. /\ IsSeq(SubSeq(wire, 0 + 1, k)) /\ Len(SubSeq(wire, 0 + 1, k)) = k - 0
          /\ \A i \in 1 .. k - 0 : SubSeq(wire, 0 + 1, k)[i] = wire[0 + i]
      BY ONLY <1>1, <3>1, SeqCut
    <3>3. /\ IsSeq(SubSeq(wire, k + 1, Len(wire))) /\ Len(SubSeq(wire, k + 1, Len(wire))) = Len(wire) - k
          /\ \A i \in 1 .. Len(wire) - k : SubSeq(wire, k + 1, Len(wire))[i] = wire[k + i]
      BY ONLY <1>1, <3>1, SeqCut
    <3>4. k - 0 = k /\ 0 + 1 = 1 /\ \A i \in 1 .. k : 0 + i = i
      BY <3>1
    <3>5. IsSeq(e.data) /\ Len(e.data) = k /\ \A j \in 1 .. k : e.data[j] = wire[j]
      BY <2>2, <3>2, <3>4
    <3> QED BY <2>2, <3>1, <3>3, <3>5
  <2> QED BY <2>1, <2>2
<1>3. Lies(S, b, at, buffer, mail, wire)
  OBVIOUS
<1>4. PICK wr2 : wr2 = wire'
  OBVIOUS
<1>5. /\ k <= Len(wire) /\ IsSeq(e.data) /\ Len(e.data) = k /\ (\A j \in 1 .. k : e.data[j] = wire[j])
      /\ IsSeq(wr2) /\ Len(wr2) = Len(wire) - k /\ \A j \in 1 .. Len(wire) - k : wr2[j] = wire[k + j]
  BY <1>2, <1>4
<1>6. \E at2 : Lies(S, b, at2, buffer, Append(mail, e), wr2)
  BY ONLY <1>3, <1>5, k \in Nat, LiesPosted
<1> QED BY <1>4, <1>6
LEMMA PostKeeps ==
    ASSUME NodeInv, UNCHANGED <<side, entry, known, destroyed, sent, nodeHttpVars>>, layer \notin Over, layer' \in Layers,
           NEW e, mail' = Append(mail, e),
           e.type \in {"CLOSE", "ERROR"} => layer' \in Over, e.type # "DATA" => e.data = <<>>,
           e.type = "CLOSE" => wire' = <<>>,
           \/ e.data = <<>> /\ wire' = wire
           \/ \E k \in 1 .. Len(wire) : e.data = SubSeq(wire, 1, k) /\ wire' = SubSeq(wire, k + 1, Len(wire))
    PROVE  NodeInv'
<1>1. NodeTypes /\ MailOrder /\ NodeStages /\ Streams /\ Emissions /\ Answers /\ Packs
  BY DEF NodeInv
<1>2. UNCHANGED <<side, entry, known, destroyed, sent, buffer, asked, emitted, answer, packed, client, via, reply, body>>
      /\ Server' = Server
  BY DEF nodeHttpVars, Server
<1>3. PICK n \in Nat : n = Len(mail) /\ IsSeq(mail') /\ Len(mail') = n + 1 /\ mail'[n + 1] = e
                       /\ \A i \in 1 .. n : mail'[i] = mail[i]
  BY <1>1, SeqAppend DEF NodeTypes
<1>4. MailOrder'
  <2>1. ASSUME NEW i \in 1 .. Len(mail')
        PROVE  /\ mail'[i].type \in {"CLOSE", "ERROR"} => layer' \in Over
               /\ mail'[i].type # "DATA" => mail'[i].data = <<>>
               /\ mail'[i].type = "CLOSE" => i = Len(mail') /\ wire' = <<>>
    <3>1. CASE i \in 1 .. n
      BY <1>1, <1>3, <3>1 DEF MailOrder
    <3>2. CASE i = n + 1
      BY <1>3, <3>2
    <3>3. i \in 1 .. n \/ i = n + 1
      BY <1>3
    <3> QED BY <3>1, <3>2, <3>3
  <2> QED BY <2>1 DEF MailOrder
<1>5. \A S, b, at : Lies(S, b, at, buffer, mail, wire) => \E at2 : Lies(S, b, at2, buffer, mail', wire')
  BY LiesPosts
<1>6. Streams'
  <2>1. ASSUME Server', entry' = "pump"
        PROVE  \E S, h, at : Asks(S, h, asked') /\ Lies(S, h[Len(emitted') + 1] - 1, at, buffer', mail', wire')
    <3>1. PICK S, h, at : Asks(S, h, asked) /\ Lies(S, h[Len(emitted) + 1] - 1, at, buffer, mail, wire)
      BY <1>1, <1>2, <2>1 DEF Streams
    <3>2. \E at2 : Lies(S, h[Len(emitted) + 1] - 1, at2, buffer, mail', wire')
      BY <1>5, <3>1
    <3> QED BY <1>2, <3>1, <3>2
  <2>2. ASSUME ~Server', client' \in {"idle", "connecting", "waiting"}
        PROVE  \E at : Lies(reply', 0, at, buffer', mail', wire')
    <3>1. PICK at : Lies(reply, 0, at, buffer, mail, wire)
      BY <1>1, <1>2, <2>2 DEF Streams
    <3>2. \E at2 : Lies(reply, 0, at2, buffer, mail', wire')
      BY <1>5, <3>1
    <3> QED BY <1>2, <3>2
  <2>3. client' # "resolved" /\ (~Server' /\ sent' = <<>> => reply' = <<>>)
    BY <1>1, <1>2 DEF Streams
  <2> QED BY <2>1, <2>2, <2>3, StreamsNext
<1>7. Answers'
  BY <1>1, <1>2, AnswersStay DEF Answers
<1>8. NodeTypes' /\ NodeStages' /\ Emissions' /\ Packs'
  BY <1>1, <1>2, <1>3 DEF NodeTypes, NodeStages, RequestText, ContentLength, Emissions, Packs, Whole
<1> QED BY <1>4, <1>6, <1>7, <1>8 DEF NodeInv
LEMMA NodeLayerKeeps == ASSUME NodeInv, LayerSteps \/ Reset, UNCHANGED nodeHttpVars PROVE NodeInv'
<1>1. CASE Established
  <2>1. PICK e : e = [type |-> "CONNECT", data |-> <<>>]
    OBVIOUS
  <2>2. e.type = "CONNECT" /\ e.data = <<>>
    BY <2>1
  <2>3. /\ UNCHANGED <<side, entry, known, destroyed, sent, wire>> /\ mail' = Append(mail, e)
        /\ layer \notin Over /\ layer' \in Layers
    BY <1>1, <2>1 DEF Established, Post, Over, Layers
  <2> QED BY <2>2, <2>3, PostKeeps
<1>2. CASE Deliver
  <2>1. PICK k \in 1 .. Len(wire) : Post("DATA", SubSeq(wire, 1, k)) /\ wire' = SubSeq(wire, k + 1, Len(wire))
    BY <1>2 DEF Deliver
  <2>2. PICK e : e = [type |-> "DATA", data |-> SubSeq(wire, 1, k)]
    OBVIOUS
  <2>3. e.type = "DATA" /\ e.data = SubSeq(wire, 1, k)
    BY <2>2
  <2>4. /\ UNCHANGED <<side, entry, known, destroyed, sent>> /\ mail' = Append(mail, e)
        /\ layer \notin Over /\ layer' \in Layers
    BY <1>2, <2>1, <2>2 DEF Deliver, Post, Over, Layers
  <2> QED BY <2>1, <2>3, <2>4, PostKeeps
<1>3. CASE PeerGone
  <2>1. PICK e : e = [type |-> "CLOSE", data |-> <<>>]
    OBVIOUS
  <2>2. e.type = "CLOSE" /\ e.data = <<>>
    BY <2>1
  <2>3. /\ UNCHANGED <<side, entry, known, destroyed, sent, wire>> /\ mail' = Append(mail, e) /\ wire = <<>>
        /\ layer \notin Over /\ layer' \in Layers /\ layer' \in Over
    BY <1>3, <2>1 DEF PeerGone, Post, Over, Layers
  <2> QED BY <2>2, <2>3, PostKeeps
<1>4. CASE Reset
  <2>1. PICK e : e = [type |-> "ERROR", data |-> <<>>]
    OBVIOUS
  <2>2. e.type = "ERROR" /\ e.data = <<>>
    BY <2>1
  <2>3. /\ UNCHANGED <<side, entry, known, destroyed, sent, wire>> /\ mail' = Append(mail, e)
        /\ layer \notin Over /\ layer' \in Layers /\ layer' \in Over
    BY <1>4, <2>1 DEF Reset, Post, Over, Layers
  <2> QED BY <2>2, <2>3, PostKeeps
<1> QED BY <1>1, <1>2, <1>3, <1>4 DEF LayerSteps
LEMMA NodeNextKeeps == ASSUME NodeInv, [NodeHttpNext]_<<socketVars, nodeHttpVars>> PROVE NodeInv'
<1>1. CASE UNCHANGED <<socketVars, nodeHttpVars>>
  BY <1>1, NodeStays DEF socketVars
<1>2. CASE NodeEvent
  BY <1>2, ServerEventKeeps, ClientEventKeeps
<1>3. CASE PeerEndsHttp
  BY <1>3, NodeStays DEF PeerEndsHttp
<1>4. CASE \E q \in Request : ResponseWrite(q) \/ ResponseEnd(q) \/ Finish(q)
  BY <1>4, ResponsesKeep, FinishKeeps
<1>5. CASE \E len \in {0, 1} : PeerAsks(len)
  BY <1>5, PeerAsksKeeps
<1>6. CASE (LayerSteps \/ Reset) /\ UNCHANGED nodeHttpVars
  BY <1>6, NodeLayerKeeps
<1> QED BY <1>1, <1>2, <1>3, <1>4, <1>5, <1>6, ServerCloseKeeps, StartRequestKeeps, PeerRepliesKeeps
        DEF NodeHttpNext
LEMMA LiesNone == Lies(<<>>, 0, [i \in {0} |-> 0], <<>>, <<>>, <<>>)
<1>1. PICK s : s = <<>>
  OBVIOUS
<1>2. IsSeq(s) /\ Len(s) = 0
  BY <1>1, SeqNone
<1>3. PICK at : at = [i \in {0} |-> 0]
  OBVIOUS
<1>4. at[0] = 0
  BY <1>3
<1>5. \A i \in 0 .. 0 : i = 0
  OBVIOUS
<1>6. \A i \in 1 .. 0 : FALSE
  OBVIOUS
<1>7. Lies(s, 0, at, s, s, s)
  BY <1>2, <1>4, <1>5, <1>6 DEF Lies
<1> QED BY <1>1, <1>3, <1>7
LEMMA NodeInit == ASSUME SocketInit, NodeHttpInit PROVE NodeInv
<1>1. /\ destroyed = FALSE /\ mail = <<>> /\ wire = <<>> /\ sent = <<>> /\ buffer = <<>> /\ asked = 0
      /\ emitted = <<>> /\ packed = FALSE /\ client = "idle" /\ via \in {"request", "fetch"} /\ reply = <<>>
      /\ answer = [q \in Request |-> [pc |-> "none", chunks |-> 0]]
      /\ \/ side = "client" /\ layer = "none" /\ entry = "none" /\ known = FALSE
         \/ side = "server" /\ layer = "open" /\ entry = "pump" /\ known = TRUE
  BY DEF SocketInit, NodeHttpInit, Untouched, Fresh, Given
<1>2. IsSeq(<<>>) /\ Len(<<>>) = 0 /\ \A i \in 1 .. 0 : FALSE
  BY SeqNone
<1>3. answer \in [Request -> AnswerOf] /\ \A q \in Request : answer[q].pc = "none"
  BY <1>1 DEF AnswerOf
<1>4. NodeTypes
  <2>1. asked \in 0 .. MaxRequests
    BY <1>1, NodeHttpAssumption
  <2>2. IsSeq(emitted) /\ Len(emitted) <= asked
    BY <1>1, <1>2
  <2>3. IsSeq(mail) /\ IsSeq(sent) /\ IsSeq(reply)
    BY <1>1, <1>2
  <2>4. /\ side \in {"client", "server"} /\ layer \in Layers /\ entry \in {"none", "connect", "pump"}
        /\ known \in BOOLEAN /\ destroyed \in BOOLEAN /\ packed \in BOOLEAN
    BY <1>1 DEF Layers
  <2>5. client \in {"idle", "connecting", "waiting", "resolved", "rejected"} /\ via \in {"request", "fetch"}
    BY <1>1
  <2> QED BY <1>3, <2>1, <2>2, <2>3, <2>4, <2>5 DEF NodeTypes
<1>5. MailOrder /\ Emissions /\ Answers /\ NodeStages
  BY <1>1, <1>2, <1>3 DEF MailOrder, Emissions, Answers, NodeStages, Server
<1>6. Packs
  BY <1>1 DEF Packs, Whole
<1>7. Streams
  <2>1. PICK at : Lies(<<>>, 0, at, <<>>, <<>>, <<>>)
    BY LiesNone
  <2>2. PICK h : h = [q \in {1} |-> 1]
    OBVIOUS
  <2>3. h[1] = 1 /\ 0 + 1 = 1 /\ 1 - 1 = 0 /\ \A q \in 1 .. 1 : q = 1
    BY <2>2
  <2>4. Asks(<<>>, h, 0)
    BY <1>2, <2>3 DEF Asks
  <2>5. h[Len(emitted) + 1] - 1 = 0
    BY <1>1, <1>2, <2>3
  <2>6. Asks(<<>>, h, asked) /\ Lies(<<>>, h[Len(emitted) + 1] - 1, at, buffer, mail, wire)
    BY <1>1, <2>1, <2>4, <2>5
  <2>7. \E at2 : Lies(reply, 0, at2, buffer, mail, wire)
    BY <1>1, <2>1
  <2> QED BY <1>1, <2>6, <2>7 DEF Streams
<1> QED BY <1>4, <1>5, <1>6, <1>7 DEF NodeInv
LEMMA NodeInvExchanges == ASSUME NodeInv PROVE NodeExchanges
<1>1. NodeTypes /\ NodeStages /\ Streams /\ Emissions /\ Answers /\ Packs
  BY DEF NodeInv
<1>2. DOMAIN emitted = 1 .. Len(emitted) /\ DOMAIN sent = 1 .. Len(sent)
  BY <1>1, SeqAppend DEF NodeTypes
<1>3. ASSUME NEW i \in DOMAIN sent, sent[i].k = "status"
      PROVE  /\ sent[i].q <= Len(emitted)
             /\ \A j \in 1 .. sent[i].n : sent[i + j] = RespPart(sent[i].q, j)
             /\ \A j \in DOMAIN sent \ {i} : sent[j].k = "status" => sent[j].q # sent[i].q
  <2>1. AnswerAt(i)
    BY <1>1, <1>2, <1>3 DEF Answers
  <2>2. sent[i].q \in Request /\ answer[sent[i].q].pc # "none"
    BY <2>1 DEF AnswerAt
  <2>3. sent[i].q <= Len(emitted)
    BY <1>1, <2>2 DEF Answers
  <2>4. \A j \in DOMAIN sent \ {i} : sent[j].k = "status" => sent[j].q # sent[i].q
    BY <1>1, <1>2, <1>3 DEF Answers
  <2> QED BY <2>1, <2>3, <2>4 DEF AnswerAt
<1>4. ASSUME via = "fetch", client # "idle", sent # <<>>
      PROVE  Whole(sent) /\ ParseRequest(sent).body = <<ReqBody(1)>> /\ Consumed(sent) = Len(sent)
  <2>1. sent = RequestText /\ ContentLength = 1
    BY <1>1, <1>4 DEF NodeStages, ContentLength
  <2>2. PICK t : t = sent
    OBVIOUS
  <2>3. IsSeq(t) /\ Len(t) = 2 /\ t # <<>> /\ t[1] = ReqHead(1, 1) /\ t[2] = ReqBody(1)
    BY <2>1, <2>2, RequestTextIs
  <2>4. Head(t) = t[1]
    BY <2>3, SeqHead
  <2>5. Head(t).k = "request" /\ Head(t).len = 1
    BY <2>3, <2>4 DEF ReqHead
  <2>6. Whole(t) /\ Consumed(t) = Len(t)
    BY <2>3, <2>5 DEF Whole, Consumed
  <2>7. ParseRequest(t).body = SubSeq(t, 2, 2)
    BY <2>3, <2>5 DEF ParseRequest
  <2>8. PICK a : a = SubSeq(t, 1 + 1, 2)
    OBVIOUS
  <2>9. IsSeq(a) /\ Len(a) = 1 /\ a[1] = ReqBody(1)
    <3>1. IsSeq(t) /\ 1 \in Nat /\ 2 \in Nat /\ 1 <= 2 /\ 2 <= Len(t)
      BY <2>3
    <3>2. /\ IsSeq(SubSeq(t, 1 + 1, 2)) /\ Len(SubSeq(t, 1 + 1, 2)) = 2 - 1
          /\ \A i \in 1 .. 2 - 1 : SubSeq(t, 1 + 1, 2)[i] = t[1 + i]
      BY ONLY <3>1, SeqCut
    <3>3. 2 - 1 = 1 /\ 1 \in 1 .. 1 /\ 1 + 1 = 2
      OBVIOUS
    <3>4. IsSeq(a) /\ Len(a) = 1 /\ a[1] = t[2]
      BY <2>8, <3>2, <3>3
    <3> QED BY <2>3, <3>4
  <2>10. PICK c : c = <<ReqBody(1)>>
    OBVIOUS
  <2>11. IsSeq(c) /\ Len(c) = 1 /\ c[1] = ReqBody(1)
    BY <2>10, SeqOne
  <2>12. a = c
    <3>1. \A i \in 1 .. Len(a) : a[i] = c[i]
      BY <2>9, <2>11
    <3> QED BY <2>9, <2>11, <3>1, SeqSame
  <2>13. ParseRequest(t).body = <<ReqBody(1)>>
    <3>1. 1 + 1 = 2
      OBVIOUS
    <3> QED BY <2>7, <2>8, <2>10, <2>12, <3>1
  <2> QED BY <2>2, <2>6, <2>13
<1>5. \A i \in DOMAIN emitted :
          emitted[i].q = i /\ emitted[i].body = (IF emitted[i].len = 1 THEN <<ReqBody(i)>> ELSE <<>>)
  BY <1>1, <1>2 DEF Emissions
<1>6. (Whole(buffer) /\ side = "server" => packed) /\ (client = "resolved" => body = Tail(reply))
  BY <1>1 DEF Packs, Server, Streams
<1> QED BY <1>3, <1>4, <1>5, <1>6 DEF NodeExchanges
\* However deliveries cut and join what peers send, and whatever order handlers
\* answer in: a server emits each request once, in order, with the body its head
\* tells of; each answer is on the wire once, its parts behind its head; request
\* and fetch resolve with all that was sent before the close; and what fetch sends
\* is one whole request to this server.
THEOREM ExchangesAreWhole == NodeHttpSpec => []NodeExchanges
<1>1. SocketInit /\ NodeHttpInit => NodeInv
  BY NodeInit
<1>2. NodeInv /\ [NodeHttpNext]_<<socketVars, nodeHttpVars>> => NodeInv'
  BY NodeNextKeeps
<1>3. NodeInv => NodeExchanges
  BY NodeInvExchanges
<1> QED BY <1>1, <1>2, <1>3, PTL DEF NodeHttpSpec
=============================================================================

--------------------------- MODULE GateProperties ---------------------------
(* What a gate is checked for: the messages of a client reach the handler   *)
(* as they were framed, however the stream was cut, whatever other clients  *)
(* sent and whoever closed them in between.                                 *)
EXTENDS Gate

\* The number of frames that the first n bytes of s complete.
Completed(s, n) ==
    CHOOSE k \in 0 .. Len(s) :
        /\ Len(Bytes(SubSeq(s, 1, k))) <= n
        /\ k = Len(s) \/ Len(Bytes(SubSeq(s, 1, k + 1))) > n

\* Between two events, unless a handler threw, a connected client's messages
\* are all the frames its bytes completed, whole and in order.
FramesDelivered ==
    Idle /\ thrown = 0 =>
        \A fd \in connection :
            got[fd] = SubSeq(Frames[fd], 1, Completed(Frames[fd], received[fd]))

\* Even when handlers threw and packets stayed in the ring: a message is one
\* of the client's frames, each given or dropped at most once.
NothingInvented ==
    \A fd \in Fd :
        /\ \A f \in Range(got[fd]) : f \in Range(Frames[fd])
        /\ Len(got[fd]) + dropped[fd] <= Completed(Frames[fd], received[fd])
        /\ \A f \in Range(got[fd]) :
              Cardinality({i \in DOMAIN got[fd] : got[fd][i] = f})
                <= Cardinality({i \in DOMAIN Frames[fd] : Frames[fd][i] = f})

\* A packet that waits in the ring longer than its event, or comes after its
\* client was closed, is not given to the handler: a message comes only after
\* connect and before disconnect or the close by user code.
Admitted(fd) == told[fd] # <<>> /\ told[fd][1] = "connect"
                /\ "disconnect" \notin Range(told[fd])
MessagesWhileConnected ==
    [][\A fd \in Fd : got'[fd] # got[fd] =>
          Admitted(fd) /\ sock[fd] \notin {"none", "accepted"} /\ fd \in connection]_vars

\* The start of a frame is not kept for a socket that is gone, when all its
\* events are handled.
NoLeakedFrame ==
    \A fd \in Fd :
        sock[fd] = "gone" /\ (\A i \in DOMAIN mailbox :
                                 mailbox[i].type # "LISTENCLOSE" => mailbox[i].fd # fd)
            => uncomplete[fd] = Nothing
=============================================================================

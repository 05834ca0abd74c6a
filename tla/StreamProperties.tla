--------------------------- MODULE StreamProperties ---------------------------
(* What the streams are checked for: bytes are neither lost nor reordered   *)
(* between a source and a sink, an end means that everything went before,   *)
(* and what was begun settles.                                              *)
EXTENDS StreamCore, NodeStreams

\* The bytes of the entries of a log that are chosen, in order.
BytesOf(log, chosen) ==
    LET bytes[n \in 0 .. Len(log)] ==
            IF n = 0 THEN <<>>
            ELSE IF n \in chosen THEN bytes[n - 1] \o log[n].bytes ELSE bytes[n - 1]
    IN  bytes[Len(log)]
\* The sequences of bytes that lie in the queue and in the hands of readers, and
\* those with the ones that reads returned, each by the place where it lies.
InHand == {t \in DOMAIN rd : rd[t].pc = "taken"}
Held == [p \in ({"queued"} \X DOMAIN buffer) \cup ({"taken"} \X InHand) |->
            IF p[1] = "queued" THEN buffer[p[2]] ELSE rd[p[2]].chunk]
Lying == [p \in DOMAIN Held \cup ({"returned"} \X DOMAIN returned) |->
            IF p[1] = "returned" THEN returned[p[2]].bytes ELSE Held[p]]
\* The spots of bytes in such a family, and how often each byte is in it.
Spots(f) == UNION {{p} \X DOMAIN f[p] : p \in DOMAIN f}
Tally(f) == [b \in {f[s[1]][s[2]] : s \in Spots(f)} |->
                Cardinality({s \in Spots(f) : f[s[1]][s[2]] = b})]
\* Every byte the source gave was returned by one read, or waits in the queue,
\* or is on its way to one reader, also when readers overlap and when what is
\* over a read's size goes back; and _bufferedBytes counts those not returned.
\* Reads that never overlap return the source's bytes in their order.
ReadableKeepsBytes ==
    /\ Tally(Lying) = Tally(SubSeq(Source, 1, pulled))
    /\ bufferedBytes = Cardinality(Spots(Held))
    /\ ~overlapped => IsPrefix(BytesOf(returned, DOMAIN returned), Bytes)

PipeWrites == {i \in DOMAIN sink : sink[i].by = Pipe /\ sink[i].call = "write"}
PipeReads == {i \in DOMAIN returned : returned[i].by = Pipe}
Closes == {i \in DOMAIN sink : sink[i].call = "close"}
\* A pipe that resolved moved everything: its writes are the bytes it read, in
\* order, all of the source unless the user cancelled it, and the sink was
\* closed after them unless the user ended or aborted it.  One that rejected has
\* ended its source and closed its sink, both of them, unless the source refused
\* the cancel: then the pipe has not aborted the sink.
\* And no sink is closed before it got every write accepted before the end.
PipeDelivers ==
    /\ pipe = "resolved" /\ ~overlapped =>
          LET moved == BytesOf(sink, PipeWrites)
          IN  /\ moved = BytesOf(returned, PipeReads)
              /\ cancelled # "user" /\ PipeReads = DOMAIN returned => moved = Bytes
              /\ \A i \in Closes : sink[i].by = Pipe =>
                    \A j \in i + 1 .. Len(sink) : sink[j].by # Pipe
    /\ \A i \in Closes : \A n \in 1 .. sink[i].number :
          \E j \in 1 .. i - 1 : sink[j].call = "write" /\ sink[j].number = n
    /\ pipe = "rejected" =>
          IF cancelled = "failed" THEN \A i \in DOMAIN sink : sink[i].call = "abort" => sink[i].by # Pipe
          ELSE cancelled # "no" /\ ended /\ closed

\* A read that does not share the stream with another one ends, and a pipe
\* settles, whatever the user cancels, ends, aborts or fails meanwhile.  A
\* pipeline wired before its source ended settles, however slow its stages
\* are, unless a stage is destroyed or held back.
Busy(t) == rd[t].pc \in {"pumps", "pumped", "waits", "taken"}
StreamsSettle ==
    /\ \A t \in Reader : Busy(t) ~> (~Busy(t) \/ overlapped)
    /\ (pipe = "loop") ~> (pipe \in {"resolved", "rejected"} \/ overlapped)
    /\ (wired = "yes") ~> (settled # "no" \/ lossy \/ \E i \in 1 .. K - 1 : ~flowing[i])

\* A pipeline resolves only when the last stage has finished, and then it took
\* every chunk of the producer in order, unless the user destroyed a stage, or
\* held one back while it ended; for await gives its body the chunks in order,
\* and all of them when it ends by itself.
PipelineDelivers ==
    /\ settled = "resolved" /\ ~lossy => arrived = [i \in 1 .. Chunks |-> i]
    /\ got = [i \in DOMAIN got |-> i]
    /\ iterating = "done" => Len(got) = Chunks
=============================================================================

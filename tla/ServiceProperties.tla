-------------------------- MODULE ServiceProperties --------------------------
(* What the owner services are checked for: a process is heard to its last  *)
(* byte and waited for, whoever waits; and a file operation answered for    *)
(* really happened, under the policy its caller had asked for.              *)
EXTENDS Subprocess, FsService

\* What a stream of an object gave before its first end.
Heard(k, s) ==
    LET p == child[k].pushed[s]
    IN  SubSeq(p, 1, SelectInSeq(p, LAMBDA b : b = End) - 1)
Fits(k) == \A s \in Stream : Len(proc[k].said[s]) <= MaxOutput
\* When exit was emitted, both streams of the object gave every byte the
\* process wrote, however late it wrote them, and the code is the one it ended
\* with, however many wait; over the limit they gave a beginning of it.  A
\* process nobody heard the end of keeps its record, so that waiting is possible.
OutputWhole ==
    \A k \in Kid :
        /\ child[k].exits > 0 =>
              /\ child[k].code = proc[k].code
              /\ \A s \in Stream :
                    IF Fits(k) THEN Heard(k, s) = proc[k].said[s]
                               ELSE IsPrefix(Heard(k, s), proc[k].said[s])
        /\ child[k].ready = "up" /\ child[k].exits = 0 => record[k] # None

Waiting(w) == wait[w].pc \notin {"none", "done", "failed"}
\* The owner sits in a write to a process that sits in a write to the owner.
Embraced == at.doing = "write" /\ Blocked(at.kid) /\ Full(at.kid)
\* A wait settles, whoever else waits for the process or kills it, unless the
\* process wants input that nobody sends (stdin is never closed), or it and the
\* owner wait for each other to read.
WaitsSettle ==
    \A w \in Wait :
        Waiting(w) ~> (~Waiting(w) \/ Embraced \/ Hungry(wait[w].kid))

\* An asynchronous read gives what the file held, whole, at some moment of the
\* call, and a write that succeeded was there, whole, at some moment of it,
\* unless the caller changed the file while the service had it open; and what
\* succeeded was allowed by the last policy its caller had asked for before.
FilesTold ==
    \A t \in Call :
        call[t].pc = "done" /\ call[t].op # "policy" =>
            /\ ~call[t].disturbed => call[t].data \in call[t].held
            /\ Inside(call[t].under, call[t].path)
            /\ call[t].op = "writeFile" => ~call[t].under.readOnly
            /\ ~call[t].disturbed => WithinQuota(call[t].under, Len(call[t].data))
=============================================================================

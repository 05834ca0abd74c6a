----------------------------- MODULE NodeStreams -----------------------------
(***************************************************************************)
(* The stream module users see, builtins/stream/index.js: a Readable, some *)
(* Transforms and a Writable wired by pipeline(), or a Readable read by    *)
(* for await.  Events run their listeners at once, so a push goes as far   *)
(* as the next stage's queue of writes in one step; what waits for the     *)
(* tail of that queue, or for the user's functions, is a step of its own.  *)
(* The producer, the functions of the stages and the user who pauses,      *)
(* resumes or destroys a stage are external.                               *)
(***************************************************************************)
EXTENDS Integers, Sequences, SequencesExt, FiniteSets

CONSTANTS
    Chunks,     \* how many chunks the producer has
    K,          \* stage 1 reads, stages between are Transforms, stage K writes
    MaxWhims,   \* bound: pauses, destroys and failures
    SlowSpins   \* whether a producer may be slower than the turns for await waits

ASSUME NodeAssumption ==
    /\ Chunks \in Nat /\ K \in Nat /\ K > 1 /\ MaxWhims \in Nat /\ SlowSpins \in BOOLEAN

Stage == 1 .. K

VARIABLES
    use,         \* "pipeline" or "iterate"
    wired,       \* pipeline() was called, and whether the source had ended: "no", "yes", "late"
    produced,    \* chunks the producer pushed
    rbuf, flowing, rended,           \* _readableState
    wchain, wbusy, wended, finished, \* _writableTail and _writableState
    arrived,     \* what the last stage's write function was given and took
    got,         \* what for await gave its body
    iterating,   \* "yes", "done", or "gave up"
    settled,     \* how the pipeline's promise settled
    lossy,       \* a stage was destroyed, or ended with chunks buffered
    whims

flow == <<rbuf, flowing, rended>>
queue == <<wchain, wbusy, wended, finished>>
nodeVars == <<use, wired, produced, flow, queue, arrived, got, iterating, settled, lossy, whims>>

NodeInit ==
    /\ use \in {"pipeline", "iterate"} /\ wired = "no" /\ produced = 0
    /\ rbuf = [i \in Stage |-> <<>>] /\ flowing = [i \in Stage |-> FALSE]
    /\ rended = [i \in Stage |-> FALSE]
    /\ wchain = [i \in Stage |-> <<>>] /\ wbusy = [i \in Stage |-> FALSE]
    /\ wended = [i \in Stage |-> FALSE] /\ finished = [i \in Stage |-> FALSE]
    /\ arrived = <<>> /\ got = <<>> /\ iterating = "yes"
    /\ settled = "no" /\ lossy = FALSE /\ whims = 0

Whim == whims < MaxWhims /\ whims' = whims + 1
Wired(i) == i < K /\ wired # "no"
-----------------------------------------------------------------------------
(* What a call does to a stage; `settles` is how the promise may end.      *)

Settle(how) == settled' = IF settled = "no" /\ wired # "no" THEN how ELSE settled

\* write(), as the "data" listener calls it: after the end it is an error.
Writes(i, items) ==
    IF items = <<>> THEN UNCHANGED <<wchain, settled>>
    ELSE IF wended[i] THEN Settle("rejected") /\ UNCHANGED wchain
    ELSE wchain' = [wchain EXCEPT ![i] = @ \o items] /\ UNCHANGED settled

\* push(chunk) and _flush: what flows goes to the stage behind.
Pushes(i, items) ==
    LET all == rbuf[i] \o items  flows == flowing[i] /\ Wired(i)
    IN  /\ rbuf' = [rbuf EXCEPT ![i] = IF flows THEN <<>> ELSE all]
        /\ IF flows THEN Writes(i + 1, all) ELSE UNCHANGED <<wchain, settled>>

\* push(null): "end" comes at once, flushed or not, and ends the next stage.
PassesEnd(i) == wended' = IF Wired(i) THEN [wended EXCEPT ![i + 1] = TRUE] ELSE wended
PushesEnd(i) ==
    /\ rended' = [rended EXCEPT ![i] = TRUE]
    /\ lossy' = (lossy \/ (use = "pipeline" /\ rbuf[i] # <<>>))
    /\ PassesEnd(i)
-----------------------------------------------------------------------------
(* The producer.                                                           *)

Produce ==
    /\ produced < Chunks /\ ~rended[1] /\ produced' = produced + 1
    /\ Pushes(1, <<produced'>>)
    /\ UNCHANGED <<use, wired, flowing, rended, wbusy, wended, finished, arrived, got, iterating,
                   lossy, whims>>
ProduceEnd ==
    /\ produced = Chunks /\ ~rended[1] /\ PushesEnd(1)
    /\ UNCHANGED <<use, wired, produced, rbuf, flowing, wchain, wbusy, finished, arrived, got,
                   iterating, settled, whims>>
ProduceFails ==
    /\ use = "pipeline" /\ wired = "yes" /\ ~rended[1]
    /\ produced <= Chunks /\ produced' = Chunks + 1
    /\ Whim /\ Settle("rejected")
    /\ UNCHANGED <<use, wired, flow, queue, arrived, got, iterating, lossy>>
-----------------------------------------------------------------------------
(* pipeline(): every hop is wired and resumed, then the producer goes on.  *)

Wire ==
    /\ use = "pipeline" /\ wired = "no"
    /\ wired' = IF rended[1] THEN "late" ELSE "yes"
    /\ flowing' = [i \in Stage |-> i < K]
    /\ rbuf' = [rbuf EXCEPT ![1] = <<>>]
    /\ Writes(2, rbuf[1])
    /\ UNCHANGED <<use, produced, rended, wbusy, wended, finished, arrived, got, iterating, lossy,
                   whims>>

Pause(i) ==
    /\ wired = "yes" /\ i < K /\ flowing[i] /\ Whim
    /\ flowing' = [flowing EXCEPT ![i] = FALSE]
    /\ UNCHANGED <<use, wired, produced, rbuf, rended, queue, arrived, got, iterating, settled, lossy>>
Resume(i) ==
    /\ wired = "yes" /\ i < K /\ ~flowing[i]
    /\ flowing' = [flowing EXCEPT ![i] = TRUE]
    /\ rbuf' = [rbuf EXCEPT ![i] = <<>>]
    /\ Writes(i + 1, rbuf[i])
    /\ UNCHANGED <<use, wired, produced, rended, wbusy, wended, finished, arrived, got, iterating,
                   lossy, whims>>
\* destroy of the last stage closes it, which settles the promise.
Destroy(i) ==
    /\ wired = "yes" /\ Whim /\ lossy' = TRUE
    /\ IF i = K THEN Settle("resolved") ELSE UNCHANGED settled
    /\ UNCHANGED <<use, wired, produced, flow, queue, arrived, got, iterating>>

\* The head of the queue of writes is given to the stage's function.
Run(i) ==
    /\ wchain[i] # <<>> /\ ~wbusy[i] /\ wbusy' = [wbusy EXCEPT ![i] = TRUE]
    /\ UNCHANGED <<use, wired, produced, flow, wchain, wended, finished, arrived, got, iterating,
                   settled, lossy, whims>>
\* The last stage's function has taken the chunk, or failed: then the
\* pipeline rejects, and the queue goes on.
SinkDone ==
    /\ wbusy[K] /\ wbusy' = [wbusy EXCEPT ![K] = FALSE]
    /\ wchain' = [wchain EXCEPT ![K] = Tail(@)]
    /\ \/ arrived' = Append(arrived, Head(wchain[K])) /\ UNCHANGED <<settled, whims>>
       \/ Whim /\ Settle("rejected") /\ UNCHANGED arrived
    /\ UNCHANGED <<use, wired, produced, flow, wended, finished, got, iterating, lossy>>
\* A Transform's function has answered with a chunk, or an error.
TransformDone(i) ==
    /\ i \in 2 .. K - 1 /\ wbusy[i] /\ wbusy' = [wbusy EXCEPT ![i] = FALSE]
    /\ LET chunk == Head(wchain[i])  flows == flowing[i]  rest == Tail(wchain[i])
           all == Append(rbuf[i], chunk)
       IN  \/ /\ rbuf' = [rbuf EXCEPT ![i] = IF flows THEN <<>> ELSE all]
              /\ wchain' = [wchain EXCEPT ![i] = rest,
                                          ![i + 1] = IF flows /\ ~wended[i + 1] THEN @ \o all ELSE @]
              /\ UNCHANGED whims
              /\ IF flows /\ wended[i + 1] THEN Settle("rejected") ELSE UNCHANGED settled
           \/ /\ Whim /\ wchain' = [wchain EXCEPT ![i] = rest]
              /\ UNCHANGED rbuf /\ Settle("rejected")
    /\ UNCHANGED <<use, wired, produced, flowing, rended, wended, finished, arrived, got, iterating,
                   lossy>>

\* finishWritable, when the queue is done: a Transform then ends its other
\* side, the last stage settles the promise.
\* BUG: the writes still queued are not waited for.
TailDone_Not(i) == TRUE
TailDone(i) == wchain[i] = <<>>
EndsReadable(i) == PushesEnd(i) /\ UNCHANGED settled
Finish(i) ==
    /\ wended[i] /\ ~finished[i] /\ TailDone(i)
    /\ finished' = [finished EXCEPT ![i] = TRUE]
    /\ IF i = K THEN Settle("resolved") /\ UNCHANGED <<rended, lossy, wended>>
                ELSE EndsReadable(i)
    /\ UNCHANGED <<use, wired, produced, rbuf, flowing, wchain, wbusy, arrived, got, iterating, whims>>
-----------------------------------------------------------------------------
(* for await over stage 1: _readAsync waits a bounded number of turns.     *)

Iterate ==
    /\ use = "iterate" /\ iterating = "yes"
    /\ \/ /\ rbuf[1] # <<>> /\ got' = Append(got, Head(rbuf[1]))
          /\ rbuf' = [rbuf EXCEPT ![1] = Tail(@)] /\ UNCHANGED iterating
       \/ /\ rbuf[1] = <<>> /\ rended[1] /\ iterating' = "done" /\ UNCHANGED <<got, rbuf>>
       \/ /\ rbuf[1] = <<>> /\ ~rended[1] /\ SlowSpins
          /\ iterating' = "gave up" /\ UNCHANGED <<got, rbuf>>
    /\ UNCHANGED <<use, wired, produced, flowing, rended, queue, arrived, settled, lossy, whims>>
-----------------------------------------------------------------------------
StageSteps == \E i \in 2 .. K : Run(i) \/ TransformDone(i) \/ Finish(i)
UserWhims == \E i \in Stage : Pause(i) \/ Destroy(i)
NodeNext ==
    \/ Produce \/ ProduceEnd \/ ProduceFails \/ Wire \/ SinkDone \/ StageSteps \/ UserWhims
    \/ \E i \in Stage : Resume(i)
    \/ Iterate
NodeSpec == NodeInit /\ [][NodeNext]_nodeVars
=============================================================================

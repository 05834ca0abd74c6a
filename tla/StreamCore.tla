------------------------------ MODULE StreamCore ------------------------------
(***************************************************************************)
(* The stream kernel, internal/stream-core.js: a Readable over a source's  *)
(* pull, a Writable over a sink's write, and the pipe between them.        *)
(*                                                                         *)
(* Every step is a stretch of code between two awaits.  The continuations  *)
(* run in any order, which covers the order of the microtask queue; pull,  *)
(* write, close, cancel and abort are the user's and answer when they      *)
(* like.  A chunk is the sequence of its bytes' positions in the source.   *)
(* The user calls read, cancel, write, end and abort beside the pipe.      *)
(***************************************************************************)
EXTENDS Integers, Sequences, SequencesExt, FiniteSets

CONSTANTS
    Source,    \* the chunks the source gives
    Reader,    \* tasks of the user that read
    Pipe,      \* the task of the pipe
    User,      \* the task of the user that writes and ends
    Size,      \* the sizes a user's read asks for; AnySize is undefined
    AnySize,
    None,
    MaxCalls, MaxFails  \* bounds: calls of users, failures of source and sink

ASSUME CoreAssumption ==
    /\ Source \in Seq(Seq(Int)) /\ Size \subseteq Nat
    /\ Pipe \notin Reader \cup {User} /\ None \notin Reader \cup {Pipe}
    /\ MaxCalls \in Nat /\ MaxFails \in Nat

Bytes == FlattenSeq(Source)
Extra == -1      \* the byte a user writes beside the pipe

VARIABLES
    buffer, waiter,         \* _buffer: the items, and the reader that waits for one
    bufferedBytes, ended, readError, pumping,
    pulled,                 \* how many chunks the source has given
    rd,                     \* rd[t]: where the read of t stands
    returned,               \* what the reads returned, in order
    overlapped,             \* two reads were in flight at once
    calls, fails,
    chain, writing,         \* the writes on _tail, and whether the sink is at the first
    pending, closed, writeError,
    served,                 \* how many writes the sink has answered
    sink,                   \* the calls the sink got
    endOf,                  \* endOf[t]: where the end() of t stands
    pipe, aborted,          \* where the pipe stands; its signal
    cancelled               \* "no", "user" or "pipe": who cancelled the source; "failed":
                            \* the source refused to be cancelled by the pipe

readable == <<buffer, waiter, bufferedBytes, ended, readError, pumping, pulled, rd, returned,
              overlapped, cancelled>>
writable == <<chain, writing, pending, closed, writeError, served, sink, endOf>>
coreVars == <<readable, writable, pipe, aborted, calls, fails>>

Idle == [pc |-> "idle", n |-> AnySize, chunk |-> <<>>]
CoreInit ==
    /\ buffer = <<>> /\ waiter = None /\ bufferedBytes = 0 /\ pulled = 0
    /\ ended = FALSE /\ readError = FALSE /\ pumping = FALSE
    /\ rd = [t \in Reader \cup {Pipe} |-> Idle]
    /\ returned = <<>> /\ overlapped = FALSE /\ calls = 0 /\ fails = 0
    /\ chain = <<>> /\ writing = FALSE /\ pending = 0
    /\ closed = FALSE /\ writeError = FALSE /\ served = 0 /\ sink = <<>>
    /\ endOf = [t \in {Pipe, User} |-> -1]
    /\ pipe = "idle" /\ aborted = FALSE /\ cancelled = "no"

UserCalls == calls < MaxCalls /\ calls' = calls + 1
Fails == fails < MaxFails /\ fails' = fails + 1
-----------------------------------------------------------------------------
(* read and _pump.  A read that ends leaves its outcome to the pipe.      *)

Reading(t, n, pc, chunk) == [rd EXCEPT ![t] = [n |-> n, pc |-> pc, chunk |-> chunk]]
Returns(t, outcome, chunk) ==
    /\ rd' = Reading(t, AnySize, IF t = Pipe THEN outcome ELSE "idle", chunk)
    /\ returned' = IF outcome = "bytes" THEN Append(returned, [by |-> t, bytes |-> chunk])
                   ELSE returned

\* AsyncQueue.  shift takes an item, or leaves its reader waiting in the one
\* place there is; push gives the item to the waiter, or keeps it last.
Shift(t, n) ==
    IF buffer # <<>>
    THEN /\ rd' = Reading(t, n, "taken", Head(buffer))
         /\ buffer' = Tail(buffer) /\ UNCHANGED <<waiter, returned>>
    ELSE rd' = Reading(t, n, "waits", <<>>) /\ waiter' = t /\ UNCHANGED <<buffer, returned>>
Push(readers, item) ==
    /\ waiter' = None
    /\ buffer' = IF waiter = None THEN Append(buffer, item) ELSE buffer
    /\ rd' = IF waiter = None THEN readers
             ELSE [readers EXCEPT ![waiter].pc = "taken", ![waiter].chunk = item]

\* From the await of _pump to the next one.
\* BUG: the end of the source is not looked at again.
Continue_NoEnd(t, n) ==
    IF readError THEN Returns(t, "error", <<>>) /\ UNCHANGED <<buffer, waiter>> ELSE Shift(t, n)
Continue(t, n) ==
    IF readError THEN Returns(t, "error", <<>>) /\ UNCHANGED <<buffer, waiter>>
    ELSE IF buffer = <<>> /\ ended THEN Returns(t, "null", <<>>) /\ UNCHANGED <<buffer, waiter>>
    ELSE Shift(t, n)

\* read(n) up to its first await; _pump asks the source unless it is asked.
Read(t, n) ==
    /\ rd[t].pc = "idle"
    /\ overlapped' = (overlapped \/ \E u \in DOMAIN rd \ {t} : rd[u].pc # "idle")
    /\ IF readError \/ ended \/ buffer # <<>>
       THEN Continue(t, n) /\ UNCHANGED pumping
       ELSE /\ rd' = Reading(t, n, IF pumping THEN "pumped" ELSE "pumps", <<>>)
            /\ pumping' = TRUE
            /\ UNCHANGED <<buffer, waiter, returned>>
    /\ UNCHANGED <<bufferedBytes, ended, readError, pulled, cancelled>>

\* The source answers the pull.
Pumped == [t \in DOMAIN rd |-> IF rd[t].pc = "pumps" THEN [rd[t] EXCEPT !.pc = "pumped"] ELSE rd[t]]
Pulled ==
    /\ pumping /\ pumping' = FALSE
    /\ \/ /\ pulled < Len(Source) /\ pulled' = pulled + 1
          /\ Push(Pumped, Source[pulled'])
          /\ bufferedBytes' = bufferedBytes + Len(Source[pulled'])
          /\ UNCHANGED <<ended, readError, fails>>
       \/ /\ pulled = Len(Source) /\ ended' = TRUE /\ rd' = Pumped
          /\ UNCHANGED <<buffer, waiter, bufferedBytes, pulled, readError, fails>>
       \/ /\ Fails /\ readError' = TRUE /\ rd' = Pumped
          /\ UNCHANGED <<buffer, waiter, bufferedBytes, pulled, ended>>
    /\ UNCHANGED <<returned, overlapped, cancelled, writable, pipe, aborted, calls>>

ReadOn(t) ==
    /\ rd[t].pc = "pumped"
    /\ Continue(t, rd[t].n)
    /\ UNCHANGED <<bufferedBytes, ended, readError, pumping, pulled, overlapped, cancelled,
                   writable, pipe, aborted, calls, fails>>

\* The reader has its item: what is over n goes back into the queue.
\* BUG: what is over n is dropped.
Cut_Drop(t) ==
    /\ rd[t].pc = "taken"
    /\ Returns(t, "bytes", IF rd[t].n = AnySize THEN rd[t].chunk ELSE SubSeq(rd[t].chunk, 1, rd[t].n))
    /\ bufferedBytes' = bufferedBytes - Len(rd[t].chunk)
    /\ UNCHANGED <<buffer, waiter>>
Cut(t) ==
    LET n == rd[t].n  chunk == rd[t].chunk
    IN  /\ rd[t].pc = "taken"
        /\ IF n = AnySize \/ Len(chunk) <= n
           THEN /\ Returns(t, "bytes", chunk)
                /\ bufferedBytes' = bufferedBytes - Len(chunk)
                /\ UNCHANGED <<buffer, waiter>>
           ELSE /\ returned' = Append(returned, [by |-> t, bytes |-> SubSeq(chunk, 1, n)])
                /\ Push([rd EXCEPT ![t] = Idle], SubSeq(chunk, n + 1, Len(chunk)))
                /\ bufferedBytes' = bufferedBytes - n
Take(t) ==
    /\ Cut(t)
    /\ UNCHANGED <<ended, readError, pumping, pulled, overlapped, cancelled,
                   writable, pipe, aborted, calls, fails>>

UserRead(t) ==
    /\ UserCalls
    /\ \E n \in Size \cup {AnySize} : Read(t, n)
    /\ UNCHANGED <<writable, pipe, aborted, fails>>
\* cancel: the end comes once the source has answered; when its cancel fails,
\* nothing changes.
Cancelled(by) ==
    ended' = TRUE /\ cancelled' = (IF cancelled = "no" THEN by ELSE cancelled)
UserCancel ==
    /\ UserCalls /\ cancelled \in {"no", "failed"}
    /\ \/ Cancelled("user") /\ UNCHANGED fails
       \/ Fails /\ UNCHANGED <<ended, cancelled>>
    /\ UNCHANGED <<buffer, waiter, bufferedBytes, readError, pumping, pulled, rd, returned,
                   overlapped, writable, pipe, aborted>>
-----------------------------------------------------------------------------
(* write, end and abort.  The pipe's write has an outcome, the user's none.*)

Refused == closed \/ writeError
Given == served + Len(chain)
Accepted(t, bytes) ==
    /\ chain' = Append(chain, [call |-> "write", by |-> t, bytes |-> bytes, number |-> Given + 1])
    /\ pending' = pending + Len(bytes)
    /\ UNCHANGED <<writing, closed, writeError, served, sink, endOf>>

UserWrite ==
    /\ UserCalls
    /\ ~Refused /\ Accepted(User, <<Extra>>)
    /\ UNCHANGED <<buffer, waiter, bufferedBytes, ended, readError, pumping, pulled, rd, returned,
                   overlapped, cancelled, pipe, aborted, fails>>

\* A write begins when _tail has come to it, whatever became of the others
\* and of the stream meanwhile.
SinkWrite ==
    /\ ~writing /\ chain # <<>> /\ writing' = TRUE
    /\ sink' = Append(sink, Head(chain))
    /\ UNCHANGED <<readable, chain, pending, closed, writeError, served, endOf, pipe, aborted, calls, fails>>

SinkAnswers ==
    /\ writing /\ writing' = FALSE
    /\ chain' = Tail(chain) /\ served' = served + 1
    /\ pending' = pending - Len(Head(chain).bytes)
    /\ \/ /\ UNCHANGED <<writeError, fails>>
          /\ pipe' = IF Head(chain).by = Pipe THEN "loop" ELSE pipe
       \/ /\ Fails /\ writeError' = TRUE
          /\ pipe' = IF Head(chain).by = Pipe THEN "fails" ELSE pipe
    /\ UNCHANGED <<readable, closed, sink, endOf, aborted, calls>>

\* end(): it waits for the writes there are when it is called.
EndCall(t) == endOf' = [endOf EXCEPT ![t] = Given]
EndWaits(t) == served >= endOf[t]
Call(call, t, after) == sink' = Append(sink, [call |-> call, by |-> t, bytes |-> <<>>, number |-> after])
EndCloses(t) ==
    /\ endOf[t] >= 0 /\ EndWaits(t)
    /\ closed' = TRUE /\ Call("close", t, endOf[t])
    /\ endOf' = [endOf EXCEPT ![t] = -1]
    /\ \/ UNCHANGED fails /\ pipe' = IF t = Pipe THEN "resolved" ELSE pipe
       \/ t = Pipe /\ Fails /\ pipe' = "fails"
    /\ UNCHANGED <<readable, chain, writing, pending, writeError, served, aborted, calls>>
UserEnd ==
    /\ UserCalls /\ ~closed /\ endOf[User] = -1 /\ EndCall(User)
    /\ UNCHANGED <<readable, chain, writing, pending, closed, writeError, served, sink, pipe,
                   aborted, fails>>
Abort(t) ==
    IF closed THEN UNCHANGED <<closed, writeError, sink>>
    ELSE closed' = TRUE /\ writeError' = TRUE /\ Call("abort", t, 0)
UserAbort ==
    /\ UserCalls /\ ~closed /\ Abort(User)
    /\ UNCHANGED <<readable, chain, writing, pending, served, endOf, pipe, aborted, fails>>
-----------------------------------------------------------------------------
(* pipe(source, sink, {signal}).                                           *)

PipeStart ==
    /\ pipe = "idle" /\ pipe' = "loop"
    /\ UNCHANGED <<readable, writable, aborted, calls, fails>>
Signal ==
    /\ UserCalls /\ ~aborted /\ aborted' = TRUE
    /\ UNCHANGED <<readable, writable, pipe, fails>>
PipeRead ==
    /\ pipe = "loop" /\ UNCHANGED <<writable, aborted, calls, fails>>
    /\ \/ aborted /\ pipe' = "fails" /\ UNCHANGED readable
       \/ ~aborted /\ pipe' = "reading" /\ Read(Pipe, AnySize)

\* BUG: the pipe does not look at the end of the source.
SourceDone_OnError == rd[Pipe].pc \in {"null", "error"}
SourceDone == rd[Pipe].pc = "null"
PipeGot ==
    /\ pipe = "reading" /\ rd[Pipe].pc \in {"bytes", "null", "error"}
    /\ rd' = [rd EXCEPT ![Pipe] = Idle]
    /\ \/ /\ rd[Pipe].pc = "bytes" /\ ~Refused
          /\ Accepted(Pipe, rd[Pipe].chunk) /\ pipe' = "writing"
       \/ /\ SourceDone /\ ~closed
          /\ EndCall(Pipe) /\ pipe' = "ending"
          /\ UNCHANGED <<chain, writing, pending, closed, writeError, served, sink>>
       \/ /\ SourceDone /\ closed /\ pipe' = "resolved" /\ UNCHANGED writable
       \/ /\ ~SourceDone /\ (rd[Pipe].pc = "error" \/ Refused)
          /\ pipe' = "fails" /\ UNCHANGED writable
    /\ UNCHANGED <<buffer, waiter, bufferedBytes, ended, readError, pumping, pulled, returned,
                   overlapped, cancelled, aborted, calls, fails>>

\* The catch: the source is cancelled, then the sink aborted.  A cancel that
\* fails leaves both as they were.
PipeCancels ==
    /\ pipe = "fails"
    /\ \/ pipe' = "aborts" /\ Cancelled("pipe") /\ UNCHANGED fails
       \/ pipe' = "rejected" /\ Fails /\ cancelled' = "failed" /\ UNCHANGED ended
    /\ UNCHANGED <<buffer, waiter, bufferedBytes, readError, pumping, pulled, rd, returned,
                   overlapped, writable, aborted, calls>>
PipeAborts ==
    /\ pipe = "aborts" /\ Abort(Pipe) /\ pipe' = "rejected"
    /\ UNCHANGED <<readable, chain, writing, pending, served, endOf, aborted, calls, fails>>
-----------------------------------------------------------------------------
PipeSteps == PipeRead \/ PipeGot \/ PipeCancels \/ PipeAborts
Answers == Pulled \/ SinkAnswers \/ SinkWrite \/ \E t \in {Pipe, User} : EndCloses(t)
ReadSteps == \E t \in DOMAIN rd : ReadOn(t) \/ Take(t)
UserSteps ==
    \/ \E t \in Reader : UserRead(t)
    \/ UserCancel \/ UserWrite \/ UserEnd \/ UserAbort \/ PipeStart \/ Signal
CoreNext == PipeSteps \/ Answers \/ ReadSteps \/ UserSteps
CoreSpec == CoreInit /\ [][CoreNext]_coreVars
=============================================================================

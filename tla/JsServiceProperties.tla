------------------------- MODULE JsServiceProperties -------------------------
(* What one JavaScript service is checked for: no timer is lost, early or   *)
(* resurrected, no queued callback is forgotten, no call hangs or is        *)
(* settled twice.                                                           *)
EXTENDS JsService

\* A service that waits for messages with a timer or immediate that should
\* run has asked the kernel for a wake-up of the current generation, for the
\* time that handle is due or for a time already past; and the kernel's answer
\* is there, or comes within a centisecond of that time or of now.
WakeComing ==
    \E t \in pendingTimers :
        /\ t.fn = [kind |-> "wake", of |-> wake.gen]
        /\ \/ \E k \in kernelTimers :
                 /\ k.session = t.session
                 /\ k.at * CS <= CS + wake.at \/ k.at * CS <= CS + now
           \/ \E i \in DOMAIN mailbox :
                 mailbox[i] = [type |-> "RESPONSE", session |-> t.session]
Covers(h) ==
    wake.at <= now \/ (loop.handles[h].timer /\ wake.at <= loop.handles[h].due)
WakeCovers ==
    stage \in {"fresh", "idle"} =>
        \A h \in loop.immediates \cup loop.timers :
            Live(loop, h) => wake.set /\ WakeComing /\ Covers(h)

\* After a message and its tick, no nextTick and no microtask is left behind.
JobsDrained == stage = "idle" => loop.ticks = 0 /\ loop.jobs = 0

\* A callback runs only while its handle is not cleared, not before its
\* delay has passed since it was set (or, an interval, since it last ran),
\* and only once unless it is an interval: whatever other callbacks of the
\* same tick cleared, set or refreshed.
FiresAsSet ==
    [][\A h \in DOMAIN fired : fired'[h].count > fired[h].count =>
          /\ ~loop.handles[h].cancelled
          /\ fired[h].count = 0 \/ loop.handles[h].repeat
          /\ loop.handles[h].timer => now >= fired[h].since + loop.handles[h].delay]_vars

\* A promise is settled once, by the answer to its own call or by the
\* timeout, although an answer may come after the timeout; and a call that a
\* bad answer left unsettled stays so.
SettledOnce ==
    /\ \A c \in Call : Len(settled[c]) <= 1
    /\ \A c \in Call : \A i \in DOMAIN settled[c] : settled[c][i].of = c
    /\ \A p \in pendingCalls \cup pending : settled[p.call] = <<>>
    /\ \A c \in lost : settled[c] = <<>> /\ \A p \in pending : p.call # c

\* The sender of a request is replied to at most once, and only when the
\* handler, or the promise it returned, has an outcome.
RepliedOnce ==
    /\ \A r \in Request : Len(replies[r]) <= 1
    /\ \A r \in open : replies[r] = <<>>

(* Liveness.  The kernel's timer thread and workers run, and a callback     *)
(* returns; nobody has to answer a call.                                    *)
Fairness == /\ WF_vars(Service) /\ WF_vars(Elapse)
            /\ WF_vars(\E t \in kernelTimers : Expire(t))
FairSpec == Spec /\ Fairness

\* Every timer and immediate runs in the end, unless it is cleared or
\* unreferenced: no message from outside is needed.
Expected(h) == h \in DOMAIN loop.handles /\ Live(loop, h) /\ fired[h].count = 0
EveryHandleRuns == \A h \in 1 .. MaxOps : Expected(h) ~> ~Expected(h)

\* Every cluster call is settled in the end, answered or not: its timeout
\* finds it, whatever else its session number was looked up in.  The one
\* exception is the code's: a call whose answer was there, and could not be
\* unpacked, is never settled.
EveryClusterCallEnds ==
    \A c \in ClusterCall :
        (\E p \in pending : p.call = c) ~> (settled[c] # <<>> \/ c \in lost)

\* What a callback or the script queues with nextTick or a Promise runs.
EveryJobRuns == (loop.ticks + loop.jobs > 0) ~> (loop.ticks + loop.jobs = 0)
=============================================================================

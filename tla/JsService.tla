----------------------------- MODULE JsService -----------------------------
(***************************************************************************)
(* One JavaScript service: the message routing of skynet-core.js, the      *)
(* event loop of event-loop.js, the cluster calls of cluster.js and the    *)
(* worker_cb of snjs.c that drives them.  The kernel hands the service one *)
(* message at a time; after each message, worker_cb runs the loop's tick.  *)
(* The tick is modelled callback by callback, because between two          *)
(* callbacks time passes and messages arrive, and because a callback may   *)
(* set, clear or refresh any timer.                                        *)
(*                                                                         *)
(* The kernel's mailbox and timers, the clock, the services that answer    *)
(* and what user code does in its callbacks are external.                  *)
(*                                                                         *)
(* Abstractions.  A callback does at most one thing.  A nextTick or Promise*)
(* callback is not identified: the two queues are counters.  Handle ids    *)
(* grow, so the immediates, which run in the order of their ids, are a     *)
(* set, as are the timers that a tick found due.  The unit of time is such *)
(* that a centisecond, the grain of the kernel's timers, is CS units.      *)
(***************************************************************************)
EXTENDS Integers, Sequences, FiniteSets

CONSTANTS
    CS,             \* units in a centisecond
    MinDelay,       \* MIN_DELAY_MS in units
    Delay,          \* the delays timers are set with
    Request,        \* the requests the service may receive
    LocalCall,      \* calls of local services: skynet.call
    ClusterCall,    \* calls of remote services: cluster.call, cluster.query
    ClusterTimeout, \* CLUSTER_TIMEOUT, in centiseconds
    MaxOps,         \* bound: things done by user code
    MaxTime         \* bound: the clock stops here once only intervals remain

Call == LocalCall \cup ClusterCall

ASSUME TimeAssumption ==
    /\ CS \in Nat \ {0} /\ MinDelay \in Nat \ {0} /\ Delay \subseteq Nat
    /\ ClusterTimeout \in Nat \ {0}
    /\ MaxOps \in Nat /\ MaxTime \in Nat
ASSUME CallAssumption == LocalCall \cap ClusterCall = {}

VARIABLES
    now,           \* the clock
    loop,          \* the event loop: handles, timers, immediates, ticks, jobs
    wake,          \* the loop's kernel timeout: wakeGeneration, wakeAt, wakeId
    stage,         \* where the service is: see below
    draining,      \* "ticks" or "jobs": the queue being drained
    batch,         \* what is left of the immediates or timers of this tick
    again,         \* worker_cb's own tick is to follow this one
    session,       \* the last session number given out
    pendingTimers, \* kernel timeouts awaited: [session, fn]
    pendingCalls,  \* skynet.call's awaited: [session, call]
    pending,       \* cluster calls awaited: [session, call]
    kernelTimers,  \* the kernel's timers: [session, at]
    mailbox,       \* messages not yet handled
    outstanding,   \* requests others have yet to answer: [session, call]
    settled,       \* settled[c]: how the promise of call c was settled, and by
                   \* the answer to which call
    lost,          \* history: cluster calls whose answer could not be unpacked
    replies,       \* replies[r]: what the sender of request r was sent
    open,          \* requests whose handler returned a promise, unsettled
    fired,         \* fired[h]: how often the callback of handle h ran
    ops            \* things user code has done

rpcVars == <<session, pendingTimers, pendingCalls, pending, kernelTimers,
             mailbox, outstanding, settled, lost>>
loopVars == <<loop, wake, stage, draining, batch, again, fired>>
vars == <<now, loopVars, rpcVars, replies, open, ops>>

\* Stages: "main", the service's script runs; "fresh", it has run and no
\* message came; "idle"; and those of a tick: "start" (nextTicks and
\* microtasks), "immediates", "timers".
-----------------------------------------------------------------------------
(* Handles.                                                                *)

NormalizeDelay(d) == IF d < MinDelay THEN MinDelay ELSE d
TimerHandle(d, repeat) ==
    [timer |-> TRUE, delay |-> NormalizeDelay(d), due |-> now + NormalizeDelay(d),
     repeat |-> repeat, ref |-> TRUE, cancelled |-> FALSE]
ImmediateHandle ==
    [timer |-> FALSE, delay |-> 0, due |-> now,
     repeat |-> FALSE, ref |-> TRUE, cancelled |-> FALSE]
NewHandle(l) == Len(l.handles) + 1

Live(l, h) == ~l.handles[h].cancelled /\ l.handles[h].ref

(* scheduleWake: a kernel timeout for the earliest handle that keeps the   *)
(* loop awake, unless the one there is comes soon enough.                  *)

Awake(l) == {h \in l.timers : Live(l, h)}
NoWake == [set |-> FALSE, at |-> 0, centiseconds |-> 0]
EarliestWake(l) ==
    IF \E h \in l.immediates : Live(l, h)
    THEN [set |-> TRUE, at |-> now, centiseconds |-> 0]
    ELSE IF Awake(l) = {} THEN NoWake
    ELSE LET first == CHOOSE h \in Awake(l) : \A i \in Awake(l) :
                          l.handles[h].due <= l.handles[i].due
             at    == l.handles[first].due
             rest  == IF at > now THEN (at - now + CS - 1) \div CS ELSE 0
         IN  [set |-> TRUE, at |-> at, centiseconds |-> IF rest = 0 THEN 1 ELSE rest]

\* BUG: any wake-up is taken to be soon enough.
SoonEnough_Any(w, next) == w.set
SoonEnough(w, next) == w.set /\ w.at <= next.at

\* skynet.timeout(n, fn), with the mailbox as it stands at that point of the
\* step: the kernel posts the answer to TIMEOUT 0 at once.
Timeout(n, fn, box) ==
    LET s == session + 1
    IN  /\ session' = s
        /\ pendingTimers' = pendingTimers \cup {[session |-> s, fn |-> fn]}
        /\ IF n = 0
           THEN /\ mailbox' = Append(box, [type |-> "RESPONSE", session |-> s])
                /\ UNCHANGED kernelTimers
           ELSE /\ kernelTimers' = kernelTimers \cup
                        {[session |-> s, at |-> now \div CS + n]}
                /\ mailbox' = box

ScheduleWake(l, w, box) ==
    LET next == EarliestWake(l)
    IN  IF ~next.set \/ SoonEnough(w, next)
        THEN wake' = w /\ mailbox' = box
             /\ UNCHANGED <<session, pendingTimers, kernelTimers>>
        ELSE /\ wake' = [set |-> TRUE, at |-> next.at, gen |-> w.gen + 1]
             /\ Timeout(next.centiseconds, [kind |-> "wake", of |-> w.gen + 1], box)
-----------------------------------------------------------------------------
(* What user code does in a callback (or in the main script): with the     *)
(* loop l and the mailbox box as the step has left them so far.            *)

NoCall == UNCHANGED <<pendingCalls, pending, outstanding, settled, lost>>
Quiet(l, box) == /\ loop' = l /\ mailbox' = box
                 /\ UNCHANGED <<wake, session, pendingTimers, kernelTimers>>
Rescheduling(l, box) == loop' = l /\ ScheduleWake(l, wake, box)
Did == ops < MaxOps /\ ops' = ops + 1

Nothing(l, box) == Quiet(l, box) /\ NoCall /\ UNCHANGED ops

\* setTimeout, setInterval; the callback may unref() the handle right away.
SetTimer(l, box) ==
    /\ Did /\ NoCall
    /\ \E d \in Delay, repeat, ref \in BOOLEAN :
          LET set == [l EXCEPT !.handles = Append(@, TimerHandle(d, repeat)),
                               !.timers = @ \cup {NewHandle(l)}]
          IN  /\ loop' = [set EXCEPT !.handles[NewHandle(l)].ref = ref]
              /\ ScheduleWake(set, wake, box)

SetImmediate(l, box) ==
    /\ Did /\ NoCall
    /\ Rescheduling([l EXCEPT !.handles = Append(@, ImmediateHandle),
                              !.immediates = @ \cup {NewHandle(l)}], box)

\* clearTimeout, clearInterval, clearImmediate
Clear(l, box) ==
    /\ Did /\ NoCall
    /\ \E h \in DOMAIN l.handles :
          /\ ~l.handles[h].cancelled
          /\ Quiet([l EXCEPT !.handles[h].cancelled = TRUE, !.timers = @ \ {h}], box)

Refresh(l, box) ==
    /\ Did /\ NoCall
    /\ \E h \in DOMAIN l.handles :
          /\ l.handles[h].timer /\ ~l.handles[h].cancelled
          /\ Rescheduling([l EXCEPT !.handles[h].due = now + l.handles[h].delay], box)

Ref(l, box) ==
    /\ Did /\ NoCall
    /\ \E h \in DOMAIN l.handles :
          ~l.handles[h].ref /\ Rescheduling([l EXCEPT !.handles[h].ref = TRUE], box)
Unref(l, box) ==
    /\ Did /\ NoCall
    /\ \E h \in DOMAIN l.handles :
          l.handles[h].ref /\ Quiet([l EXCEPT !.handles[h].ref = FALSE], box)

NextTick(l, box) == Did /\ NoCall /\ Quiet([l EXCEPT !.ticks = @ + 1], box)
QueueMicrotask(l, box) == Did /\ NoCall /\ Quiet([l EXCEPT !.jobs = @ + 1], box)

\* A settled promise queues the continuation of whoever awaits it.
Continued(l) == [l EXCEPT !.jobs = @ + 1]
Settled(c, how, of) == [settled EXCEPT ![c] = Append(@, [how |-> how, of |-> of])]
Unused(c) == /\ settled[c] = <<>> /\ c \notin lost
             /\ \A p \in pendingCalls \cup pending : p.call # c

\* skynet.call: the send may fail, and the call with it.
CallService(l, box) ==
    /\ Did /\ session' = session + 1
    /\ \E c \in LocalCall :
          LET p == [session |-> session + 1, call |-> c]
          IN  /\ Unused(c)
              /\ \/ /\ pendingCalls' = pendingCalls \cup {p}
                    /\ outstanding' = outstanding \cup {p}
                    /\ loop' = l /\ UNCHANGED settled
                 \/ /\ settled' = Settled(c, "notsent", c) /\ loop' = Continued(l)
                    /\ UNCHANGED <<pendingCalls, outstanding>>
    /\ mailbox' = box
    /\ UNCHANGED <<wake, pendingTimers, kernelTimers, pending, lost>>

\* rawCmd: the send to the daemon may fail, and the call with it.
NotSent(c, l) == settled' = Settled(c, "notsent", c) /\ loop' = Continued(l)

\* cluster.call, cluster.query: a session for the call, and another for the
\* timeout that ends it when the daemon does not.
CallCluster(l, box) ==
    /\ Did
    /\ \E c \in ClusterCall :
          LET p == [session |-> session + 1, call |-> c]
              t == session + 2
          IN  /\ Unused(c)
              /\ \/ /\ pending' = pending \cup {p}
                    /\ outstanding' = outstanding \cup {p}
                    /\ session' = t
                    /\ pendingTimers' = pendingTimers \cup
                           {[session |-> t, fn |-> [kind |-> "timeout", of |-> p]]}
                    /\ kernelTimers' = kernelTimers \cup
                           {[session |-> t, at |-> now \div CS + ClusterTimeout]}
                    /\ loop' = l /\ UNCHANGED settled
                 \/ /\ NotSent(c, l) /\ session' = p.session
                    /\ UNCHANGED <<pending, outstanding, pendingTimers, kernelTimers>>
    /\ mailbox' = box
    /\ UNCHANGED <<wake, pendingCalls, lost>>

UserCode(l, box) ==
    \/ Nothing(l, box) \/ SetTimer(l, box) \/ SetImmediate(l, box) \/ Clear(l, box)
    \/ Refresh(l, box) \/ Ref(l, box) \/ Unref(l, box)
    \/ NextTick(l, box) \/ QueueMicrotask(l, box)
    \/ CallService(l, box) \/ CallCluster(l, box)

\* The replies of __snjs_wrap: when the handler returns or throws, or when
\* the promise it returned is settled.
Reply(r) == \E how \in {"RESPONSE", "ERROR"} :
                replies' = [replies EXCEPT ![r] = Append(@, how)]
\* BUG: the reply of the promise is sent as well as that of the handler.
FinishRequest_Twice == \E r \in Request : Reply(r) /\ replies[r] # <<>> /\ UNCHANGED open
FinishRequest == \E r \in open : Reply(r) /\ open' = open \ {r}
Continuation(l) ==
    /\ UserCode(l, mailbox)
    /\ FinishRequest \/ UNCHANGED <<replies, open>>

\* History: a step that runs the callback of handle h counts it, and dates it
\* if the handle is an interval.
Unfired(l) == [h \in DOMAIN l.handles |->
                 IF h \in DOMAIN fired THEN fired[h] ELSE [count |-> 0, since |-> now]]
Fires(h) == fired' = [Unfired(loop') EXCEPT ![h] =
    [count |-> @.count + 1, since |-> IF loop.handles[h].repeat THEN now ELSE @.since]]
FiresNone == fired' = Unfired(loop')
-----------------------------------------------------------------------------
Init ==
    /\ now \in 0 .. CS - 1
    /\ loop = [handles |-> <<>>, timers |-> {}, immediates |-> {}, ticks |-> 0, jobs |-> 0]
    /\ wake = [set |-> FALSE, at |-> 0, gen |-> 0]
    /\ stage = "main" /\ draining = "ticks" /\ batch = {} /\ again = FALSE
    /\ session = 0
    /\ pendingTimers = {} /\ pendingCalls = {} /\ pending = {}
    /\ kernelTimers = {} /\ mailbox = <<>> /\ outstanding = {}
    /\ settled = [c \in Call |-> <<>>] /\ lost = {}
    /\ replies = [r \in Request |-> <<>>] /\ open = {}
    /\ fired = <<>>
    /\ ops = 0

\* init_cb runs the service's script and returns: it does not tick.
RunMain ==
    /\ stage = "main" /\ stage' \in {"main", "fresh"}
    /\ UserCode(loop, mailbox) /\ FiresNone
    /\ UNCHANGED <<now, draining, batch, again, replies, open>>

(* worker_cb: a message, then the tick.                                    *)

Received == stage \in {"fresh", "idle"} /\ mailbox # <<>>
Message == Head(mailbox)
BeginTick(twice) ==
    stage' = "start" /\ draining' = "ticks" /\ batch' = {} /\ again' = twice

OnRequest ==
    /\ Received /\ Message.type = "REQUEST"
    /\ UserCode(loop, Tail(mailbox)) /\ FiresNone
    /\ \/ Reply(Message.request) /\ UNCHANGED open
       \/ open' = open \cup {Message.request} /\ UNCHANGED replies
    /\ BeginTick(FALSE)
    /\ UNCHANGED now

\* internalDispatch: a response belongs to a skynet.call, to a kernel timeout
\* or to a cluster call, an error to either kind of call; else it is dropped.
With(set, s) == {x \in set : x.session = s}
Settles(p, box) ==
    /\ settled' = Settled(p.call, Message.type, Message.of)
    /\ loop' = Continued(loop) /\ mailbox' = box
    /\ FiresNone /\ BeginTick(FALSE) /\ UNCHANGED lost

\* The handlers that cluster.js installs.  resolve unpacks the answer, after
\* the entry is deleted: when seri.unpack throws, the exception is only logged
\* and nothing will settle the call.
NotUnpacked(p, box) ==
    /\ Message.type = "RESPONSE" /\ lost' = lost \cup {p.call}
    /\ loop' = loop /\ mailbox' = box
    /\ FiresNone /\ BeginTick(FALSE) /\ UNCHANGED settled
OnClusterAnswer(s, box) ==
    \E p \in With(pending, s) :
        /\ pending' = pending \ {p} /\ UNCHANGED pendingCalls
        /\ Settles(p, box) \/ NotUnpacked(p, box)

OnAnswer ==
    LET s == Message.session
        box == Tail(mailbox)
    IN  /\ Received /\ Message.type \in {"RESPONSE", "ERROR"}
        /\ Message.type = "RESPONSE" => With(pendingTimers, s) = {}
        /\ \/ \E p \in With(pendingCalls, s) :
                 /\ pendingCalls' = pendingCalls \ {p}
                 /\ Settles(p, box) /\ UNCHANGED pending
           \/ With(pendingCalls, s) = {} /\ OnClusterAnswer(s, box)
           \/ /\ With(pendingCalls, s) = {} /\ With(pending, s) = {}
              /\ loop' = loop /\ mailbox' = box
              /\ BeginTick(FALSE) /\ FiresNone
              /\ UNCHANGED <<pendingCalls, pending, settled, lost>>
        /\ UNCHANGED <<now, wake, session, pendingTimers, kernelTimers,
                       outstanding, replies, open, ops>>

\* The kernel answers TIMEOUT: the timeout of a cluster call, or the loop's
\* wake-up, which is ignored unless it is of the last generation.
\* BUG: the call is failed whether it is still pending or not.
Overdue_Always(p) == TRUE
\* BUG: the call is looked up in the table of skynet.call.
Overdue_Local(p) == With(pendingCalls, p.session) # {}
Overdue(p) == With(pending, p.session) # {}

OnClusterTimeout(p) ==
    /\ IF Overdue(p)
       THEN /\ pending' = pending \ {p}
            /\ settled' = Settled(p.call, "timeout", p.call)
            /\ loop' = Continued(loop)
       ELSE UNCHANGED <<pending, settled, loop>>
    /\ BeginTick(FALSE)
    /\ UNCHANGED wake

\* BUG: the comparison is the wrong way round.
Current_Not(gen) == gen # wake.gen
Current(gen) == gen = wake.gen
OnWake(gen) ==
    /\ IF Current(gen)
       THEN wake' = [wake EXCEPT !.set = FALSE, !.at = 0] /\ BeginTick(TRUE)
       ELSE UNCHANGED wake /\ BeginTick(FALSE)
    /\ UNCHANGED <<pending, settled, loop>>

OnTimeout ==
    /\ Received /\ Message.type = "RESPONSE"
    /\ With(pendingCalls, Message.session) = {}
    /\ \E t \in With(pendingTimers, Message.session) :
          /\ pendingTimers' = pendingTimers \ {t}
          /\ \/ t.fn.kind = "timeout" /\ OnClusterTimeout(t.fn.of)
             \/ t.fn.kind = "wake" /\ OnWake(t.fn.of)
    /\ mailbox' = Tail(mailbox) /\ FiresNone
    /\ UNCHANGED <<now, session, pendingCalls, kernelTimers, outstanding,
                   lost, replies, open, ops>>
-----------------------------------------------------------------------------
(* tick: nextTicks and microtasks, the immediates queued at entry, the     *)
(* timers due at entry; then the next wake-up.                             *)

Ticking == stage \in {"start", "immediates", "timers"}

\* drainMicrotasksAndNextTick: the nextTicks until there are none, then the
\* microtasks until there are none, and again; one callback at a time.
RunNextTick ==
    /\ Ticking /\ loop.ticks > 0
    /\ draining = "ticks" \/ loop.jobs = 0
    /\ Continuation([loop EXCEPT !.ticks = @ - 1]) /\ FiresNone
    /\ draining' = "ticks"
    /\ UNCHANGED <<now, stage, batch, again>>
RunJob ==
    /\ Ticking /\ loop.jobs > 0
    /\ draining = "jobs" \/ loop.ticks = 0
    /\ Continuation([loop EXCEPT !.jobs = @ - 1]) /\ FiresNone
    /\ draining' = "jobs"
    /\ UNCHANGED <<now, stage, batch, again>>
\* BUG: what the microtasks queue with nextTick is left for later.
Drained_Jobs == loop.jobs = 0 /\ (draining = "jobs" \/ loop.ticks = 0)
Drained == loop.jobs = 0 /\ loop.ticks = 0

\* Work of a phase: [due, id], least first.
Leads(b) == \A c \in batch : b.due < c.due \/ (b.due = c.due /\ b.id <= c.id)
Skip == UNCHANGED <<loop, wake, draining, fired, rpcVars, replies, open, ops>>

StartImmediates ==
    /\ stage = "start" /\ Drained
    /\ stage' = "immediates"
    /\ batch' = {[due |-> 0, id |-> h] : h \in loop.immediates}
    /\ loop' = [loop EXCEPT !.immediates = {}]
    /\ UNCHANGED <<now, wake, draining, again, fired, rpcVars, replies, open, ops>>

RunImmediate ==
    /\ stage = "immediates" /\ Drained
    /\ \E b \in batch :
          /\ Leads(b) /\ batch' = batch \ {b}
          /\ IF loop.handles[b.id].cancelled THEN Skip
             ELSE /\ Continuation(loop) /\ Fires(b.id)
                  /\ draining' = "ticks"
    /\ UNCHANGED <<now, stage, again>>

\* BUG: a timer is taken a unit before it is due.
Due_Early(h) == loop.handles[h].due <= now + 1
Due(h) == loop.handles[h].due <= now
StartTimers ==
    /\ stage = "immediates" /\ Drained /\ batch = {}
    /\ stage' = "timers"
    /\ batch' = {[due |-> loop.handles[h].due, id |-> h] :
                    h \in {i \in loop.timers : ~loop.handles[i].cancelled /\ Due(i)}}
    /\ UNCHANGED <<now, loop, wake, draining, again, fired, rpcVars, replies, open, ops>>

\* An interval is due again a delay from now; a one-shot leaves the map.
Started(h) ==
    IF loop.handles[h].repeat
    THEN [loop EXCEPT !.handles[h].due = now + loop.handles[h].delay]
    ELSE [loop EXCEPT !.timers = @ \ {h}]
RunTimer ==
    /\ stage = "timers" /\ Drained
    /\ \E b \in batch :
          /\ Leads(b) /\ batch' = batch \ {b}
          /\ IF loop.handles[b.id].cancelled THEN Skip
             ELSE /\ Continuation(Started(b.id)) /\ Fires(b.id)
                  /\ draining' = "ticks"
    /\ UNCHANGED <<now, stage, again>>

EndTick ==
    /\ stage = "timers" /\ Drained /\ batch = {}
    /\ ScheduleWake(loop, wake, mailbox)
    /\ again' = FALSE
    /\ stage' = IF again THEN "start" ELSE "idle"
    /\ draining' = "ticks"
    /\ UNCHANGED <<now, loop, batch, fired, pendingCalls, pending, outstanding,
                   settled, lost, replies, open, ops>>
-----------------------------------------------------------------------------
(* The kernel, the clock and the other services (external).                *)

Quiescent == UNCHANGED <<loopVars, session, pendingTimers, pendingCalls,
                         pending, settled, lost, replies, open, ops>>

\* Time is of interest while a kernel timer runs; from MaxTime on, only for a
\* handle that never ran or a pending cluster call, with prompt kernel timers.
Elapse ==
    /\ \E t \in kernelTimers : t.at > now \div CS
    /\ \/ now < MaxTime
       \/ /\ pending # {} \/ \E h \in loop.timers \cup loop.immediates : fired[h].count = 0
          /\ \A t \in kernelTimers : t.at > now \div CS
    /\ now' = now + 1
    /\ Quiescent /\ UNCHANGED <<kernelTimers, mailbox, outstanding>>

Expire(t) ==
    /\ t.at <= now \div CS
    /\ kernelTimers' = kernelTimers \ {t}
    /\ mailbox' = Append(mailbox, [type |-> "RESPONSE", session |-> t.session])
    /\ Quiescent /\ UNCHANGED <<now, outstanding>>

Arrive(r) ==
    /\ stage # "main" /\ replies[r] = <<>> /\ r \notin open
    /\ \A i \in DOMAIN mailbox : mailbox[i] # [type |-> "REQUEST", request |-> r]
    /\ mailbox' = Append(mailbox, [type |-> "REQUEST", request |-> r])
    /\ Quiescent /\ UNCHANGED <<now, kernelTimers, outstanding>>

Answer(p) ==
    /\ outstanding' = outstanding \ {p}
    /\ \E type \in {"RESPONSE", "ERROR"} :
          mailbox' = Append(mailbox, [type |-> type, session |-> p.session, of |-> p.call])
    /\ Quiescent /\ UNCHANGED <<now, kernelTimers>>
-----------------------------------------------------------------------------
Receive == OnRequest \/ OnAnswer \/ OnTimeout
Tick == \/ RunNextTick \/ RunJob \/ StartImmediates \/ RunImmediate
        \/ StartTimers \/ RunTimer \/ EndTick
Service == RunMain \/ Receive \/ Tick
Kernel == Elapse \/ \E t \in kernelTimers : Expire(t)
Others == (\E r \in Request : Arrive(r)) \/ (\E p \in outstanding : Answer(p))

Next == Service \/ Kernel \/ Others
Spec == Init /\ [][Next]_vars
=============================================================================

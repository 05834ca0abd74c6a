-------------------------- MODULE JsServiceProofs --------------------------
(***************************************************************************)
(* What JsServiceProperties says of one JavaScript service, proved for any *)
(* number of timers, calls, requests and messages and for every delay.     *)
(***************************************************************************)
EXTENDS JsServiceProperties, WellFoundedInduction, TLAPS

(* Types.                                                                  *)

Handle == [timer : BOOLEAN, delay : Nat, due : Nat,
           repeat : BOOLEAN, ref : BOOLEAN, cancelled : BOOLEAN]
Loop == [handles : Seq(Handle), timers : SUBSET Nat, immediates : SUBSET Nat,
         ticks : Nat, jobs : Nat]
Wake == [set : BOOLEAN, at : Nat, gen : Nat]
Outcome == {"notsent", "RESPONSE", "ERROR", "timeout"}
Stages == {"main", "fresh", "idle", "start", "immediates", "timers"}
Entry(calls) == [session : Nat, call : calls]
Purpose == [kind : {"wake"}, of : Nat] \cup [kind : {"timeout"}, of : Entry(ClusterCall)]
RequestMessage == [type : {"REQUEST"}, request : Request]
TimerMessage == [type : {"RESPONSE"}, session : Nat]
AnswerMessage == [type : {"RESPONSE", "ERROR"}, session : Nat, of : Call]
AnyMessage == RequestMessage \cup TimerMessage \cup AnswerMessage

\* A loop whose timers and immediates are handles of their kind.
Sound(l) ==
    /\ l \in Loop
    /\ \A h \in l.timers : h \in DOMAIN l.handles /\ l.handles[h].timer
    /\ \A h \in l.immediates : h \in DOMAIN l.handles /\ ~l.handles[h].timer

LoopOK == now \in Nat /\ stage \in Stages /\ Sound(loop)
RpcOK ==
    /\ session \in Nat
    /\ pendingCalls \subseteq Entry(LocalCall) /\ pending \subseteq Entry(ClusterCall)
    /\ outstanding \subseteq Entry(Call)
    /\ pendingTimers \subseteq [session : Nat, fn : Purpose]
    /\ kernelTimers \subseteq [session : Nat, at : Nat]
    /\ mailbox \in Seq(AnyMessage)
    /\ wake \in Wake

(* Every record of a session number agrees on what the number was given    *)
(* out for: o[s] is {c} if for call c, {} if for a kernel timeout.         *)

CallNumber(o, p) == p.session \in DOMAIN o /\ o[p.session] = {p.call}
TimerNumber(o, t) == t.session \in DOMAIN o /\ o[t.session] = {}
MessageNumber(o, m) ==
    \/ m \in RequestMessage
    \/ m \in TimerMessage /\ TimerNumber(o, m)
    \/ m \in AnswerMessage /\ m.session \in DOMAIN o /\ o[m.session] = {m.of}
Numbered(o) ==
    /\ o \in [1 .. session -> SUBSET Call]
    /\ \A p \in pendingCalls \cup pending \cup outstanding : CallNumber(o, p)
    /\ \A t \in pendingTimers : TimerNumber(o, t) /\
           (t.fn.kind = "timeout" => CallNumber(o, t.fn.of))
    /\ \A k \in kernelTimers : TimerNumber(o, k)
    /\ \A i \in DOMAIN mailbox : MessageNumber(o, mailbox[i])

\* A call awaits one answer under one number, and is not settled yet.
Awaited ==
    /\ settled \in [Call -> Seq([how : Outcome, of : Call])]
    /\ \A p, q \in pendingCalls \cup pending : p.call = q.call => p = q
    /\ \A c \in Call : \/ settled[c] = <<>>
                       \/ \E how \in Outcome : settled[c] = <<[how |-> how, of |-> c]>>
    /\ \A p \in pendingCalls \cup pending : settled[p.call] = <<>>
    /\ \A c \in lost : settled[c] = <<>> /\ \A p \in pendingCalls \cup pending : p.call # c

CallsInv == RpcOK /\ (\E o \in [1 .. session -> SUBSET Call] : Numbered(o)) /\ Awaited

(* A request is in the mailbox once, or its promise is open, or it has its *)
(* reply.                                                                  *)

Holds(box, i, r) == box[i].type = "REQUEST" /\ box[i].request = r
Waits(box, r) == \E i \in DOMAIN box : Holds(box, i, r)
Once(box) == \A i, j \in DOMAIN box :
    box[i].type = "REQUEST" /\ Holds(box, j, box[i].request) => i = j
Unreplied ==
    \A r \in Request : Waits(mailbox, r) => replies[r] = <<>> /\ r \notin open
RequestsInv ==
    /\ replies \in [Request -> Seq({"RESPONSE", "ERROR"})]
    /\ open \subseteq Request
    /\ RepliedOnce /\ Once(mailbox) /\ Unreplied

(* A handle that may still run has not, unless it is an interval; a timer  *)
(* is not due before its delay has passed.                                 *)

MayRun(h) == fired[h].count = 0 \/ loop.handles[h].repeat
Passed(h) == fired[h].since + loop.handles[h].delay
DueLate ==
    \A h \in DOMAIN loop.handles :
        fired[h].since <= now /\ (loop.handles[h].timer => Passed(h) <= loop.handles[h].due)
BatchOK ==
    /\ batch \subseteq [due : Nat, id : DOMAIN loop.handles]
    /\ \A b, c \in batch : b.id = c.id => b = c
    /\ \A b \in batch : MayRun(b.id)
    /\ stage = "immediates" => \A b \in batch :
           ~loop.handles[b.id].timer /\ b.id \notin loop.immediates
    /\ stage = "timers" => \A b \in batch :
           loop.handles[b.id].timer /\ Passed(b.id) <= now
    /\ stage \in {"immediates", "timers"} \/ batch = {}
HandlesInv ==
    /\ LoopOK
    /\ fired \in [DOMAIN loop.handles -> [count : Nat, since : Nat]]
    /\ \A h \in loop.timers \cup loop.immediates : MayRun(h)
    /\ DueLate /\ BatchOK

(* A wake-up that is set is still to come, and covers every live handle    *)
(* except while a tick runs, which ends by setting one.                    *)

Covered(l, w) ==
    \A h \in l.immediates \cup l.timers : Live(l, h) =>
        w.set /\ (w.at <= now \/ (l.handles[h].timer /\ w.at <= l.handles[h].due))
Timers ==
    /\ \A t \in pendingTimers : t.session <= session
    /\ \A s, t \in pendingTimers : s.session = t.session => s = t
WakeInv ==
    /\ Timers
    /\ wake.set => WakeComing
    /\ stage \in {"main", "fresh", "idle"} => Covered(loop, wake)
-----------------------------------------------------------------------------
(* Sequences.                                                              *)

LEMMA SeqUpdate ==
  ASSUME NEW S, NEW s \in Seq(S), NEW i \in DOMAIN s, NEW e \in S
  PROVE  /\ [s EXCEPT ![i] = e] \in Seq(S)
         /\ Len([s EXCEPT ![i] = e]) = Len(s)
         /\ DOMAIN [s EXCEPT ![i] = e] = DOMAIN s
  OBVIOUS

LEMMA SeqAppend ==
  ASSUME NEW S, NEW s \in Seq(S), NEW e \in S
  PROVE  /\ Append(s, e) \in Seq(S)
         /\ Len(Append(s, e)) = Len(s) + 1
         /\ DOMAIN Append(s, e) = DOMAIN s \cup {Len(s) + 1}
         /\ \A i \in DOMAIN s : Append(s, e)[i] = s[i]
         /\ Append(s, e)[Len(s) + 1] = e
  OBVIOUS

LEMMA AppendUpdated ==
  ASSUME NEW S, NEW s \in Seq(S), NEW d \in S, NEW e \in S
  PROVE  [Append(s, d) EXCEPT ![Len(s) + 1] = e] = Append(s, e)
<1> DEFINE a == Append(s, d)
           b == Append(s, e)
           f == [a EXCEPT ![Len(s) + 1] = e]
<1>1. a \in Seq(S) /\ DOMAIN a = DOMAIN s \cup {Len(s) + 1}
      /\ \A i \in DOMAIN s : a[i] = s[i]
  BY SeqAppend
<1>2. b \in Seq(S) /\ DOMAIN b = DOMAIN s \cup {Len(s) + 1}
      /\ \A i \in DOMAIN s : b[i] = s[i]
  BY SeqAppend
<1>3. b[Len(s) + 1] = e
  BY SeqAppend
<1>4. f \in Seq(S) /\ DOMAIN f = DOMAIN a
  BY <1>1, SeqUpdate
<1>5. Len(s) + 1 \notin DOMAIN s
  OBVIOUS
<1>6. f[Len(s) + 1] = e /\ \A i \in DOMAIN s : f[i] = a[i]
  BY <1>1, <1>5
<1>7. \A i \in DOMAIN b : f[i] = b[i]
  BY <1>1, <1>2, <1>3, <1>6
<1> HIDE DEF a, b, f
<1>8. f = [i \in DOMAIN f |-> f[i]] /\ b = [i \in DOMAIN b |-> b[i]]
  BY <1>2, <1>4
<1>9. f = b
  BY <1>1, <1>2, <1>4, <1>7, <1>8
<1>. QED  BY <1>9 DEF f, a, b

LEMMA SeqTail ==
  ASSUME NEW S, NEW s \in Seq(S), s # <<>>
  PROVE  /\ Head(s) \in S /\ Head(s) = s[1] /\ 1 \in DOMAIN s
         /\ Tail(s) \in Seq(S)
         /\ \A i \in DOMAIN Tail(s) : i + 1 \in DOMAIN s /\ Tail(s)[i] = s[i + 1]
         /\ \A i \in DOMAIN s : i # 1 => i - 1 \in DOMAIN Tail(s) /\ Tail(s)[i - 1] = s[i]
  OBVIOUS
-----------------------------------------------------------------------------
(* What user code does to the handles.                                     *)

Aged(a, b) == /\ b.timer = a.timer /\ b.repeat = a.repeat /\ b.delay = a.delay
              /\ b.due = a.due \/ b.due = now + a.delay
New(l, m) == DOMAIN m.handles \ DOMAIN l.handles
Grows(l, m) ==
    /\ DOMAIN l.handles \subseteq DOMAIN m.handles
    /\ \A h \in DOMAIN l.handles : Aged(l.handles[h], m.handles[h])
    /\ \A h \in New(l, m) : m.handles[h].timer => m.handles[h].due = now + m.handles[h].delay
    /\ m.timers \subseteq l.timers \cup New(l, m)
    /\ m.immediates \subseteq l.immediates \cup New(l, m)

LEMMA HandleChanged ==
  ASSUME NEW l, Sound(l), NEW h \in DOMAIN l.handles,
         NEW e \in Handle, Aged(l.handles[h], e),
         NEW m \in Loop, m.handles = [l.handles EXCEPT ![h] = e],
         m.timers \subseteq l.timers, m.immediates \subseteq l.immediates
  PROVE  Sound(m) /\ Grows(l, m)
<1>1. l.handles \in Seq(Handle)
  BY DEF Sound, Loop
<1>2. DOMAIN m.handles = DOMAIN l.handles
  OBVIOUS
<1>3. \A i \in DOMAIN l.handles : m.handles[i] = IF i = h THEN e ELSE l.handles[i]
  OBVIOUS
<1>4. \A i \in DOMAIN l.handles : Aged(l.handles[i], m.handles[i])
  BY <1>3 DEF Aged
<1>5. Grows(l, m)
  BY <1>2, <1>4 DEF Grows, New
<1>6. Sound(m)
  BY <1>2, <1>4 DEF Sound, Aged
<1>. QED  BY <1>5, <1>6

LEMMA HandleAdded ==
  ASSUME NEW l, Sound(l), NEW e \in Handle, e.timer => e.due = now + e.delay,
         NEW m \in Loop, m.handles = Append(l.handles, e),
         \/ e.timer /\ m.timers = l.timers \cup {Len(l.handles) + 1} /\ m.immediates = l.immediates
         \/ ~e.timer /\ m.immediates = l.immediates \cup {Len(l.handles) + 1} /\ m.timers = l.timers
  PROVE  Sound(m) /\ Grows(l, m)
<1>1. l.handles \in Seq(Handle)
  BY DEF Sound, Loop
<1>2. /\ DOMAIN m.handles = DOMAIN l.handles \cup {Len(l.handles) + 1}
      /\ \A i \in DOMAIN l.handles : m.handles[i] = l.handles[i]
      /\ m.handles[Len(l.handles) + 1] = e
      /\ Len(l.handles) + 1 \notin DOMAIN l.handles
  BY <1>1, SeqAppend
<1>3. New(l, m) = {Len(l.handles) + 1}
  BY <1>2 DEF New
<1>4. Grows(l, m)
  BY <1>2, <1>3 DEF Grows, Aged
<1>5. Sound(m)
  BY <1>2 DEF Sound
<1>. QED  BY <1>4, <1>5

LEMMA UserHandles ==
  ASSUME now \in Nat, NEW l, Sound(l), NEW box, UserCode(l, box)
  PROVE  Sound(loop') /\ Grows(l, loop')
<1>1. l \in Loop /\ l.handles \in Seq(Handle) /\ l.timers \subseteq Nat
      /\ l.immediates \subseteq Nat /\ Len(l.handles) \in Nat
  BY DEF Sound, Loop
<1>2. \A h \in DOMAIN l.handles : l.handles[h] \in Handle
  BY <1>1
<1>3. \A m \in Loop : m.handles = l.handles /\ m.timers = l.timers
                       /\ m.immediates = l.immediates => Sound(m) /\ Grows(l, m)
  BY DEF Sound, Grows, New, Aged
<1>4. CASE Nothing(l, box) \/ CallService(l, box) \/ CallCluster(l, box)
           \/ NextTick(l, box) \/ QueueMicrotask(l, box)
  <2>1. loop' = l \/ loop' = [l EXCEPT !.ticks = @ + 1] \/ loop' = [l EXCEPT !.jobs = @ + 1]
    BY <1>4 DEF Nothing, CallService, CallCluster, NextTick, QueueMicrotask, Quiet,
                Continued, NotSent
  <2>2. loop' \in Loop
    BY <1>1, <2>1 DEF Loop
  <2>3. loop'.handles = l.handles /\ loop'.timers = l.timers /\ loop'.immediates = l.immediates
    BY <1>1, <2>1 DEF Loop
  <2>. QED  BY <1>3, <2>2, <2>3
<1>5. CASE SetTimer(l, box)
  <2>1. PICK d \in Delay, repeat \in BOOLEAN, ref \in BOOLEAN :
          loop' = [[l EXCEPT !.handles = Append(@, TimerHandle(d, repeat)),
                             !.timers = @ \cup {NewHandle(l)}]
                      EXCEPT !.handles[NewHandle(l)].ref = ref]
    BY <1>5 DEF SetTimer
  <2> DEFINE e == [TimerHandle(d, repeat) EXCEPT !.ref = ref]
             s == Append(l.handles, TimerHandle(d, repeat))
  <2>2. TimerHandle(d, repeat) \in Handle /\ NormalizeDelay(d) \in Nat
    BY TimeAssumption DEF TimerHandle, Handle, NormalizeDelay
  <2>3. e \in Handle /\ e.timer /\ e.due = now + e.delay
    BY <2>2 DEF TimerHandle, Handle
  <2>4. s[NewHandle(l)] = TimerHandle(d, repeat) /\ s \in Seq(Handle) /\ NewHandle(l) \in DOMAIN s
    BY <1>1, <2>2, SeqAppend DEF NewHandle
  <2>5. [s EXCEPT ![NewHandle(l)] = e] = Append(l.handles, e)
    <3>1. \A t, x \in Handle : [Append(l.handles, t) EXCEPT ![Len(l.handles) + 1] = x]
                               = Append(l.handles, x)
      BY <1>1, AppendUpdated, Zenon
    <3> HIDE DEF e
    <3>. QED  BY <2>2, <2>3, <3>1, Zenon DEF NewHandle
  <2>6. loop'.handles = [s EXCEPT ![NewHandle(l)] = e]
    BY <1>1, <2>1, <2>4 DEF Loop
  <2>7. loop'.timers = l.timers \cup {NewHandle(l)} /\ loop'.immediates = l.immediates
        /\ loop'.ticks = l.ticks /\ loop'.jobs = l.jobs
    BY <1>1, <2>1 DEF Loop
  <2>8. loop' = [handles |-> loop'.handles, timers |-> loop'.timers,
                 immediates |-> loop'.immediates, ticks |-> loop'.ticks, jobs |-> loop'.jobs]
    BY <1>1, <2>1 DEF Loop
  <2> HIDE DEF e, s
  <2>9. loop'.handles \in Seq(Handle) /\ loop'.handles = Append(l.handles, e)
    <3>1. \A x \in Handle : Append(l.handles, x) \in Seq(Handle)
      BY <1>1, SeqAppend
    <3>. QED  BY <2>3, <2>5, <2>6, <3>1, Zenon
  <2>10. loop' \in Loop
    BY <1>1, <2>7, <2>8, <2>9 DEF Loop, NewHandle
  <2>. QED  BY <2>3, <2>7, <2>9, <2>10, HandleAdded DEF NewHandle
<1>6. CASE SetImmediate(l, box)
  <2>1. loop' = [l EXCEPT !.handles = Append(@, ImmediateHandle),
                          !.immediates = @ \cup {NewHandle(l)}]
    BY <1>6 DEF SetImmediate, Rescheduling
  <2>2. ImmediateHandle \in Handle /\ ~ImmediateHandle.timer
    BY DEF ImmediateHandle, Handle
  <2>3. loop' \in Loop
    <3> DEFINE a == Append(l.handles, ImmediateHandle)
    <3>1. a \in Seq(Handle)
      BY <1>1, <2>2, SeqAppend
    <3>2. loop' = [l EXCEPT !.handles = a, !.immediates = l.immediates \cup {NewHandle(l)}]
      BY <1>1, <2>1 DEF Loop
    <3> HIDE DEF a
    <3>3. loop' = [handles |-> a, timers |-> l.timers, immediates |->
                     l.immediates \cup {NewHandle(l)}, ticks |-> l.ticks, jobs |-> l.jobs]
      BY <1>1, <3>2 DEF Loop
    <3>4. l.immediates \cup {NewHandle(l)} \subseteq Nat /\ l.ticks \in Nat /\ l.jobs \in Nat
      BY <1>1 DEF Loop, NewHandle
    <3>. QED  BY <1>1, <3>1, <3>3, <3>4 DEF Loop
  <2>4. loop'.handles = Append(l.handles, ImmediateHandle) /\ loop'.timers = l.timers
        /\ loop'.immediates = l.immediates \cup {NewHandle(l)}
    BY <1>1, <2>1 DEF Loop
  <2>. QED  BY <2>2, <2>3, <2>4, HandleAdded DEF NewHandle
<1>7. CASE Clear(l, box)
  <2>1. PICK h \in DOMAIN l.handles :
          loop' = [l EXCEPT !.handles[h].cancelled = TRUE, !.timers = @ \ {h}]
    BY <1>7 DEF Clear, Quiet
  <2> DEFINE e == [l.handles[h] EXCEPT !.cancelled = TRUE]
  <2>2. e \in Handle /\ Aged(l.handles[h], e)
    BY <1>2 DEF Handle, Aged
  <2>3. loop' = [l EXCEPT !.handles = [l.handles EXCEPT ![h] = e], !.timers = l.timers \ {h}]
    BY <1>1, <2>1 DEF Loop
  <2> HIDE DEF e
  <2>4. [l.handles EXCEPT ![h] = e] \in Seq(Handle)
    BY <1>1, <2>2, SeqUpdate
  <2>5. loop' \in Loop /\ loop'.handles = [l.handles EXCEPT ![h] = e]
        /\ loop'.timers \subseteq l.timers /\ loop'.immediates = l.immediates
    BY <1>1, <2>3, <2>4 DEF Loop
  <2>. QED  BY <2>2, <2>5, HandleChanged
<1>8. CASE Refresh(l, box) \/ Ref(l, box) \/ Unref(l, box)
  <2>1. PICK h \in DOMAIN l.handles :
          \/ loop' = [l EXCEPT !.handles[h].due = now + l.handles[h].delay]
          \/ loop' = [l EXCEPT !.handles[h].ref = TRUE]
          \/ loop' = [l EXCEPT !.handles[h].ref = FALSE]
    BY <1>8 DEF Refresh, Ref, Unref, Quiet, Rescheduling
  <2>2. PICK e \in Handle : loop' = [l EXCEPT !.handles = [l.handles EXCEPT ![h] = e]]
                             /\ Aged(l.handles[h], e)
    <3>1. l.handles[h] \in Handle
      BY <1>2
    <3>2. CASE loop' = [l EXCEPT !.handles[h].due = now + l.handles[h].delay]
      <4> DEFINE d == [l.handles[h] EXCEPT !.due = now + l.handles[h].delay]
      <4>1. d \in Handle
        BY <3>1 DEF Handle
      <4> WITNESS d \in Handle
      <4>. QED  BY <1>1, <3>1, <3>2 DEF Loop, Handle, Aged
    <3>3. CASE loop' = [l EXCEPT !.handles[h].ref = TRUE]
      <4> DEFINE d == [l.handles[h] EXCEPT !.ref = TRUE]
      <4>1. d \in Handle
        BY <3>1 DEF Handle
      <4> WITNESS d \in Handle
      <4>. QED  BY <1>1, <3>1, <3>3 DEF Loop, Handle, Aged
    <3>4. CASE loop' = [l EXCEPT !.handles[h].ref = FALSE]
      <4> DEFINE d == [l.handles[h] EXCEPT !.ref = FALSE]
      <4>1. d \in Handle
        BY <3>1 DEF Handle
      <4> WITNESS d \in Handle
      <4>. QED  BY <1>1, <3>1, <3>4 DEF Loop, Handle, Aged
    <3>. QED  BY <2>1, <3>2, <3>3, <3>4
  <2>3. [l.handles EXCEPT ![h] = e] \in Seq(Handle)
    BY <1>1, SeqUpdate
  <2>4. loop' \in Loop /\ loop'.handles = [l.handles EXCEPT ![h] = e]
        /\ loop'.timers = l.timers /\ loop'.immediates = l.immediates
    BY <1>1, <2>2, <2>3 DEF Loop
  <2>. QED  BY <2>2, <2>4, HandleChanged
<1>. QED  BY <1>4, <1>5, <1>6, <1>7, <1>8 DEF UserCode
-----------------------------------------------------------------------------
(* How a step moves the handles: it runs none of their callbacks, or one,  *)
(* or begins a phase of the tick, or time passes.                          *)

Rests ==
    /\ now' = now /\ stage' \in Stages
    /\ batch' = {} \/ (stage' = stage /\ batch' \subseteq batch)
    /\ Sound(loop') /\ Grows(loop, loop') /\ fired' = Unfired(loop')
RunsOne(b) ==
    /\ stage \in {"immediates", "timers"} /\ ~loop.handles[b.id].cancelled
    /\ now' = now /\ stage' = stage /\ batch' = batch \ {b}
    /\ Sound(loop') /\ Grows(loop, loop') /\ Fires(b.id)
    /\ stage = "timers" =>
          IF loop.handles[b.id].repeat
          THEN loop'.handles[b.id].due = now + loop.handles[b.id].delay
          ELSE b.id \notin loop'.timers
Passes == now' = now + 1 /\ UNCHANGED loopVars
HandleMove ==
    Rests \/ (\E b \in batch : RunsOne(b)) \/ StartImmediates \/ StartTimers \/ Passes

LEMMA GrowsSame ==
  ASSUME NEW l, NEW m, m.handles = l.handles, m.timers \subseteq l.timers,
         m.immediates \subseteq l.immediates
  PROVE  Grows(l, m)
  BY DEF Grows, New, Aged

LEMMA GrowsTwice ==
  ASSUME NEW k, NEW l, NEW m, Grows(k, l), Grows(l, m)
  PROVE  Grows(k, m)
<1>1. \A h \in DOMAIN k.handles : Aged(k.handles[h], m.handles[h])
  BY DEF Grows, Aged
<1>2. \A h \in New(k, m) : m.handles[h].timer => m.handles[h].due = now + m.handles[h].delay
  <2> SUFFICES ASSUME NEW h \in New(k, m), m.handles[h].timer
               PROVE  m.handles[h].due = now + m.handles[h].delay
    OBVIOUS
  <2>1. CASE h \in New(l, m)
    BY <2>1 DEF Grows
  <2>2. CASE h \in New(k, l)
    <3>1. Aged(l.handles[h], m.handles[h])
      BY <2>2 DEF Grows, New
    <3>2. l.handles[h].timer => l.handles[h].due = now + l.handles[h].delay
      BY <2>2 DEF Grows
    <3>. QED  BY <3>1, <3>2 DEF Aged
  <2>. QED  BY <2>1, <2>2 DEF New
<1>3. New(k, l) \subseteq New(k, m) /\ New(l, m) \subseteq New(k, m)
  BY DEF New, Grows
<1>4. m.timers \subseteq k.timers \cup New(k, m) /\ m.immediates \subseteq k.immediates \cup New(k, m)
  BY <1>3 DEF Grows
<1>5. DOMAIN k.handles \subseteq DOMAIN m.handles
  BY DEF Grows
<1>. QED  BY <1>1, <1>2, <1>4, <1>5 DEF Grows

LEMMA SoundSame ==
  ASSUME NEW l, Sound(l), NEW m \in Loop, m.handles = l.handles,
         m.timers \subseteq l.timers, m.immediates \subseteq l.immediates
  PROVE  Sound(m) /\ Grows(l, m)
  BY GrowsSame DEF Sound

LEMMA CountersChanged ==
  ASSUME LoopOK
  PROVE  /\ Sound(Continued(loop)) /\ Grows(loop, Continued(loop))
         /\ loop.ticks > 0 => LET l == [loop EXCEPT !.ticks = @ - 1] IN Sound(l) /\ Grows(loop, l)
         /\ loop.jobs > 0 => LET l == [loop EXCEPT !.jobs = @ - 1] IN Sound(l) /\ Grows(loop, l)
         /\ Sound(loop) /\ Grows(loop, loop)
<1>1. loop \in Loop /\ Sound(loop)
  BY DEF LoopOK, Sound
<1>2. Continued(loop) \in Loop /\ Continued(loop).handles = loop.handles
      /\ Continued(loop).timers = loop.timers /\ Continued(loop).immediates = loop.immediates
  BY <1>1 DEF Continued, Loop
<1>3. ASSUME loop.ticks > 0
      PROVE  LET l == [loop EXCEPT !.ticks = @ - 1] IN Sound(l) /\ Grows(loop, l)
  <2> DEFINE l == [loop EXCEPT !.ticks = @ - 1]
  <2>1. l \in Loop /\ l.handles = loop.handles /\ l.timers = loop.timers
        /\ l.immediates = loop.immediates
    BY <1>1, <1>3 DEF Loop
  <2> HIDE DEF l
  <2>2. Sound(l) /\ Grows(loop, l)
    BY <1>1, <2>1, SoundSame
  <2>. QED  BY <2>2 DEF l
<1>4. ASSUME loop.jobs > 0
      PROVE  LET l == [loop EXCEPT !.jobs = @ - 1] IN Sound(l) /\ Grows(loop, l)
  <2> DEFINE l == [loop EXCEPT !.jobs = @ - 1]
  <2>1. l \in Loop /\ l.handles = loop.handles /\ l.timers = loop.timers
        /\ l.immediates = loop.immediates
    BY <1>1, <1>4 DEF Loop
  <2> HIDE DEF l
  <2>2. Sound(l) /\ Grows(loop, l)
    BY <1>1, <2>1, SoundSame
  <2>. QED  BY <2>2 DEF l
<1>. QED  BY <1>1, <1>2, <1>3, <1>4, SoundSame

LEMMA StartedSound ==
  ASSUME LoopOK, NEW h \in DOMAIN loop.handles
  PROVE  /\ Sound(Started(h)) /\ Grows(loop, Started(h))
         /\ DOMAIN Started(h).handles = DOMAIN loop.handles
         /\ IF loop.handles[h].repeat
            THEN Started(h).handles[h].due = now + loop.handles[h].delay
            ELSE h \notin Started(h).timers
<1>1. loop \in Loop /\ Sound(loop) /\ now \in Nat /\ loop.handles \in Seq(Handle)
      /\ loop.handles[h] \in Handle
  BY DEF LoopOK, Sound, Loop
<1>2. CASE ~loop.handles[h].repeat
  <2>1. Started(h) \in Loop /\ Started(h).handles = loop.handles
        /\ Started(h).timers = loop.timers \ {h} /\ Started(h).immediates = loop.immediates
    BY <1>1, <1>2 DEF Started, Loop
  <2>. QED  BY <1>1, <1>2, <2>1, SoundSame
<1>3. CASE loop.handles[h].repeat
  <2> DEFINE e == [loop.handles[h] EXCEPT !.due = now + loop.handles[h].delay]
             l == Started(h)
  <2>0. ASSUME NEW a \in Handle, NEW n \in Nat
        PROVE  LET x == [a EXCEPT !.due = n + a.delay]
               IN  /\ x \in Handle /\ x.due = n + a.delay
                   /\ x.timer = a.timer /\ x.repeat = a.repeat /\ x.delay = a.delay
    BY DEF Handle
  <2>1. e \in Handle /\ Aged(loop.handles[h], e) /\ e.due = now + loop.handles[h].delay
    BY <1>1, <2>0 DEF Aged
  <2>2. l = [loop EXCEPT !.handles = [loop.handles EXCEPT ![h] = e]]
    BY <1>1, <1>3 DEF Started, Loop
  <2> HIDE DEF e, l
  <2>3. [loop.handles EXCEPT ![h] = e] \in Seq(Handle)
        /\ DOMAIN [loop.handles EXCEPT ![h] = e] = DOMAIN loop.handles
    BY <1>1, <2>1, SeqUpdate
  <2>4. l \in Loop /\ l.handles = [loop.handles EXCEPT ![h] = e]
        /\ l.timers = loop.timers /\ l.immediates = loop.immediates
    BY <1>1, <2>2, <2>3 DEF Loop
  <2>5. Sound(l) /\ Grows(loop, l)
    BY <1>1, <2>1, <2>4, HandleChanged
  <2>6. l.handles[h] = e
    BY <2>4
  <2>. QED  BY <1>3, <2>1, <2>3, <2>4, <2>5, <2>6 DEF l
<1>. QED  BY <1>2, <1>3

LEMMA UserMoves ==
  ASSUME LoopOK, NEW l, Sound(l), Grows(loop, l), NEW box, UserCode(l, box)
  PROVE  Sound(loop') /\ Grows(loop, loop')
<1>1. Sound(loop') /\ Grows(l, loop')
  BY UserHandles DEF LoopOK
<1>. QED  BY <1>1, GrowsTwice

LEMMA SameMoves ==
  ASSUME HandlesInv, UNCHANGED <<now, loop, fired>>, stage' \in Stages,
         batch' = {} \/ (stage' = stage /\ batch' \subseteq batch)
  PROVE  Rests
<1>1. Sound(loop) /\ Grows(loop, loop)
  BY CountersChanged DEF HandlesInv
<1>2. Unfired(loop) = fired
  BY DEF Unfired, HandlesInv
<1>3. Sound(loop)' /\ Grows(loop, loop') /\ fired' = Unfired(loop')
  BY <1>1, <1>2 DEF Sound, Grows, Aged, New, Unfired
<1>. QED  BY <1>3 DEF Rests, Sound

LEMMA RunsMove ==
  ASSUME HandlesInv, RunImmediate \/ RunTimer
  PROVE  HandleMove
<1> USE DEF HandlesInv
<1>1. PICK b \in batch :
        /\ stage \in {"immediates", "timers"} /\ batch' = batch \ {b}
        /\ UNCHANGED <<now, stage>>
        /\ IF loop.handles[b.id].cancelled THEN Skip
           ELSE /\ Fires(b.id)
                /\ Continuation(IF stage = "timers" THEN Started(b.id) ELSE loop)
  BY DEF RunImmediate, RunTimer
<1>2. CASE loop.handles[b.id].cancelled
  <2>1. UNCHANGED <<now, loop, fired>> /\ stage' \in Stages
        /\ stage' = stage /\ batch' \subseteq batch
    BY <1>1, <1>2 DEF Skip, LoopOK
  <2>. QED  BY <2>1, SameMoves DEF HandleMove
<1>3. CASE ~loop.handles[b.id].cancelled
  <2>1. b.id \in DOMAIN loop.handles
    BY DEF BatchOK
  <2>2. CASE stage = "timers"
    <3> DEFINE l == Started(b.id)
    <3>1. UserCode(l, mailbox)
      BY <1>1, <1>3, <2>2 DEF Continuation
    <3>2. /\ Sound(l) /\ Grows(loop, l) /\ DOMAIN l.handles = DOMAIN loop.handles
          /\ IF loop.handles[b.id].repeat
             THEN l.handles[b.id].due = now + loop.handles[b.id].delay
             ELSE b.id \notin l.timers
      BY <2>1, StartedSound
    <3> HIDE DEF l
    <3>3. Sound(loop') /\ Grows(loop, loop') /\ Grows(l, loop')
      BY <3>1, <3>2, UserMoves, UserHandles DEF LoopOK
    <3>4. Aged(loop.handles[b.id], l.handles[b.id]) /\ Aged(l.handles[b.id], loop'.handles[b.id])
      BY <2>1, <3>2, <3>3 DEF Grows
    <3>5. loop'.timers \subseteq l.timers \cup New(l, loop') /\ b.id \notin New(l, loop')
      BY <2>1, <3>2, <3>3 DEF Grows, New
    <3>6. IF loop.handles[b.id].repeat
          THEN loop'.handles[b.id].due = now + loop.handles[b.id].delay
          ELSE b.id \notin loop'.timers
      BY <3>2, <3>4, <3>5 DEF Aged
    <3>7. RunsOne(b)
      BY <1>1, <1>3, <2>2, <3>3, <3>6 DEF RunsOne
    <3>. QED  BY <3>7 DEF HandleMove
  <2>3. CASE stage # "timers"
    <3>1. UserCode(loop, mailbox) /\ Fires(b.id)
      BY <1>1, <1>3, <2>3 DEF Continuation
    <3>2. Sound(loop') /\ Grows(loop, loop')
      BY <3>1, CountersChanged, UserMoves
    <3>3. RunsOne(b)
      BY <1>1, <1>3, <2>3, <3>1, <3>2 DEF RunsOne
    <3>. QED  BY <3>3 DEF HandleMove
  <2>. QED  BY <2>2, <2>3
<1>. QED  BY <1>2, <1>3

LEMMA HandleMoves ==
  ASSUME HandlesInv, [Next]_vars
  PROVE  HandleMove
<1> USE DEF HandlesInv
<1>0. now \in Nat /\ stage \in Stages /\ Sound(loop) /\ Grows(loop, loop)
  BY CountersChanged DEF LoopOK
<1>1. ASSUME NEW l, Sound(l), Grows(loop, l), NEW box, UserCode(l, box), FiresNone, now' = now,
             stage' \in Stages, batch' = {} \/ (stage' = stage /\ batch' = batch)
      PROVE  HandleMove
  <2>1. Sound(loop') /\ Grows(loop, loop')
    BY <1>1, UserMoves
  <2>. QED  BY <1>1, <2>1 DEF HandleMove, Rests, FiresNone
<1>2. CASE RunMain
  <2>1. UserCode(loop, mailbox) /\ FiresNone /\ now' = now /\ stage' \in Stages
        /\ (batch' = {} \/ (stage' = stage /\ batch' = batch))
    BY <1>2 DEF RunMain, Stages, BatchOK
  <2>. QED  BY <1>0, <1>1, <2>1
<1>3. CASE OnRequest
  <2>1. UserCode(loop, Tail(mailbox)) /\ FiresNone /\ now' = now /\ stage' \in Stages /\ batch' = {}
    BY <1>3 DEF OnRequest, BeginTick, Stages
  <2>. QED  BY <1>0, <1>1, <2>1
<1>4. CASE OnAnswer
  <2>1. /\ loop' = loop \/ loop' = Continued(loop)
        /\ FiresNone /\ now' = now /\ stage' \in Stages /\ batch' = {}
    BY <1>4 DEF OnAnswer, OnClusterAnswer, Settles, NotUnpacked, BeginTick, Stages
  <2>2. Sound(loop') /\ Grows(loop, loop')
    BY <2>1, CountersChanged
  <2>. QED  BY <2>1, <2>2 DEF HandleMove, Rests, FiresNone
<1>5. CASE OnTimeout
  <2>1. /\ loop' = loop \/ loop' = Continued(loop)
        /\ FiresNone /\ now' = now /\ stage' \in Stages /\ batch' = {}
    BY <1>5 DEF OnTimeout, OnClusterTimeout, OnWake, BeginTick, Stages
  <2>2. Sound(loop') /\ Grows(loop, loop')
    BY <2>1, CountersChanged
  <2>. QED  BY <2>1, <2>2 DEF HandleMove, Rests, FiresNone
<1>6. CASE RunNextTick
  <2> DEFINE l == [loop EXCEPT !.ticks = @ - 1]
  <2>1. UserCode(l, mailbox) /\ FiresNone /\ now' = now /\ stage' = stage /\ batch' = batch
        /\ loop.ticks > 0
    BY <1>6 DEF RunNextTick, Continuation
  <2>2. Sound(l) /\ Grows(loop, l)
    BY <2>1, CountersChanged
  <2>. QED  BY <1>0, <1>1, <2>1, <2>2
<1>7. CASE RunJob
  <2> DEFINE l == [loop EXCEPT !.jobs = @ - 1]
  <2>1. UserCode(l, mailbox) /\ FiresNone /\ now' = now /\ stage' = stage /\ batch' = batch
        /\ loop.jobs > 0
    BY <1>7 DEF RunJob, Continuation
  <2>2. Sound(l) /\ Grows(loop, l)
    BY <2>1, CountersChanged
  <2>. QED  BY <1>0, <1>1, <2>1, <2>2
<1>8. CASE EndTick
  <2>1. UNCHANGED <<now, loop, fired>> /\ stage' \in Stages /\ batch' = {}
    BY <1>8 DEF EndTick, Stages
  <2>. QED  BY <2>1, SameMoves DEF HandleMove
<1>9. CASE Elapse
  BY <1>9 DEF Elapse, Quiescent, HandleMove, Passes
<1>10. CASE UNCHANGED vars \/ (\E t \in kernelTimers : Expire(t)) \/ Others
  <2>1. UNCHANGED <<now, loop, fired, stage, batch>>
    BY <1>10 DEF Others, Expire, Arrive, Answer, Quiescent, loopVars, vars
  <2>. QED  BY <1>0, <2>1, SameMoves DEF HandleMove
<1>. QED  BY <1>2, <1>3, <1>4, <1>5, <1>6, <1>7, <1>8, <1>9, <1>10, RunsMove
          DEF Next, Service, Receive, Tick, Kernel, HandleMove

LEMMA RestsKeeps ==
  ASSUME HandlesInv, Rests
  PROVE  HandlesInv' /\ \A h \in DOMAIN fired : fired'[h] = fired[h]
<1> USE DEF HandlesInv
<1>1. LoopOK'
  BY DEF Rests, LoopOK, Sound
<1>2. /\ DOMAIN loop.handles \subseteq DOMAIN loop'.handles
      /\ \A h \in DOMAIN loop.handles : Aged(loop.handles[h], loop'.handles[h])
      /\ \A h \in New(loop, loop') : loop'.handles[h].timer =>
             loop'.handles[h].due = now + loop'.handles[h].delay
      /\ loop'.timers \subseteq loop.timers \cup New(loop, loop')
      /\ loop'.immediates \subseteq loop.immediates \cup New(loop, loop')
  BY DEF Rests, Grows
<1>3. /\ DOMAIN fired' = DOMAIN loop'.handles
      /\ \A h \in DOMAIN loop.handles : fired'[h] = fired[h]
      /\ \A h \in New(loop, loop') : fired'[h] = [count |-> 0, since |-> now]
  BY <1>2 DEF Rests, Unfired, New
<1>4. fired' \in [DOMAIN loop'.handles -> [count : Nat, since : Nat]]
  BY <1>3 DEF Rests, Unfired, New, LoopOK
<1>5. \A h \in DOMAIN loop.handles : MayRun(h) => MayRun(h)'
  BY <1>2, <1>3 DEF MayRun, Aged
<1>6. \A h \in New(loop, loop') : MayRun(h)'
  BY <1>3 DEF MayRun
<1>7. \A h \in (loop.timers \cup loop.immediates)' : MayRun(h)'
  BY <1>2, <1>5, <1>6 DEF LoopOK, Sound
<1>8. \A h \in DOMAIN loop.handles : Passed(h)' = Passed(h)
  BY <1>2, <1>3 DEF Passed, Aged
<1>9. DueLate'
  <2> SUFFICES ASSUME NEW h \in DOMAIN loop'.handles
               PROVE  /\ fired'[h].since <= now'
                      /\ loop'.handles[h].timer => Passed(h)' <= loop'.handles[h].due
    BY DEF DueLate
  <2>1. CASE h \in DOMAIN loop.handles
    <3>1. fired[h].since <= now /\ (loop.handles[h].timer => Passed(h) <= loop.handles[h].due)
      BY <2>1 DEF DueLate
    <3>2. loop.handles[h] \in Handle /\ now \in Nat /\ fired[h].since \in Nat
      BY <2>1 DEF LoopOK, Sound, Loop
    <3>3. loop.handles[h].delay \in Nat /\ loop.handles[h].due \in Nat
      BY <3>2 DEF Handle
    <3>4. Passed(h) <= now + loop.handles[h].delay
      BY <3>1, <3>2, <3>3 DEF Passed
    <3>. QED  BY <1>2, <1>3, <1>8, <2>1, <3>1, <3>4 DEF Aged, Rests
  <2>2. CASE h \in New(loop, loop')
    <3>1. fired'[h].since = now /\ now \in Nat
      BY <1>3, <2>2 DEF LoopOK
    <3>2. loop'.handles[h] \in Handle
      BY <1>1 DEF LoopOK, Sound, Loop
    <3>3. loop'.handles[h].delay \in Nat
      BY <3>2 DEF Handle
    <3>. QED  BY <1>2, <2>2, <3>1, <3>3 DEF Passed, Rests
  <2>. QED  BY <2>1, <2>2 DEF New
<1>10. BatchOK'
  <2>1. CASE batch' = {}
    BY <2>1 DEF BatchOK
  <2>2. CASE stage' = stage /\ batch' \subseteq batch
    <3>1. batch' \subseteq [due : Nat, id : DOMAIN loop'.handles]
      BY <1>2, <2>2 DEF BatchOK
    <3>2. \A b \in batch' : b.id \in DOMAIN loop.handles
      BY <2>2 DEF BatchOK
    <3>3. \A b, c \in batch' : b.id = c.id => b = c
      BY <2>2 DEF BatchOK
    <3>4. \A b \in batch' : MayRun(b.id)'
      BY <1>5, <2>2, <3>2 DEF BatchOK
    <3>5. ASSUME stage = "immediates", NEW b \in batch'
          PROVE  ~loop'.handles[b.id].timer /\ b.id \notin loop'.immediates
      BY <1>2, <2>2, <3>2, <3>5 DEF BatchOK, Aged, New
    <3>6. ASSUME stage = "timers", NEW b \in batch'
          PROVE  loop'.handles[b.id].timer /\ Passed(b.id)' <= now'
      BY <1>2, <1>8, <2>2, <3>2, <3>6 DEF BatchOK, Aged, Rests
    <3>. QED  BY <2>2, <3>1, <3>3, <3>4, <3>5, <3>6 DEF BatchOK
  <2>. QED  BY <2>1, <2>2 DEF Rests
<1>. QED  BY <1>1, <1>3, <1>4, <1>7, <1>9, <1>10

\* The action of FiresAsSet.
FiresWell ==
    \A h \in DOMAIN fired : fired'[h].count > fired[h].count =>
          /\ ~loop.handles[h].cancelled
          /\ fired[h].count = 0 \/ loop.handles[h].repeat
          /\ loop.handles[h].timer => now >= fired[h].since + loop.handles[h].delay

LEMMA RunsOneKeeps ==
  ASSUME HandlesInv, NEW b \in batch, RunsOne(b)
  PROVE  HandlesInv' /\ FiresWell
<1> USE DEF HandlesInv
<1> DEFINE h == b.id
<1>0. h \in DOMAIN loop.handles /\ MayRun(h) /\ now \in Nat
  BY DEF BatchOK, LoopOK
<1>1. LoopOK'
  BY DEF RunsOne, LoopOK, Sound
<1>2. /\ DOMAIN loop.handles \subseteq DOMAIN loop'.handles
      /\ \A i \in DOMAIN loop.handles : Aged(loop.handles[i], loop'.handles[i])
      /\ \A i \in New(loop, loop') : loop'.handles[i].timer =>
             loop'.handles[i].due = now + loop'.handles[i].delay
      /\ loop'.timers \subseteq loop.timers \cup New(loop, loop')
      /\ loop'.immediates \subseteq loop.immediates \cup New(loop, loop')
  BY DEF RunsOne, Grows
<1>3. /\ DOMAIN fired' = DOMAIN loop'.handles
      /\ \A i \in DOMAIN loop.handles : i # h => fired'[i] = fired[i]
      /\ \A i \in New(loop, loop') : fired'[i] = [count |-> 0, since |-> now]
      /\ fired'[h].since = IF loop.handles[h].repeat THEN now ELSE fired[h].since
      /\ fired'[h] \in [count : Nat, since : Nat]
  <2>1. fired' = [Unfired(loop') EXCEPT ![h] =
            [count |-> @.count + 1, since |-> IF loop.handles[h].repeat THEN now ELSE @.since]]
    BY DEF RunsOne, Fires
  <2>2. h \in DOMAIN Unfired(loop') /\ Unfired(loop')[h] = fired[h]
    BY <1>0, <1>2 DEF Unfired
  <2>3. fired'[h] = [count |-> fired[h].count + 1,
                     since |-> IF loop.handles[h].repeat THEN now ELSE fired[h].since]
    BY <2>1, <2>2
  <2>4. fired[h].count \in Nat /\ fired[h].since \in Nat
    BY <1>0
  <2>5. fired'[h] \in [count : Nat, since : Nat]
    BY <1>0, <2>3, <2>4
  <2>6. \A i \in DOMAIN loop'.handles : i # h => fired'[i] = Unfired(loop')[i]
    BY <2>1 DEF Unfired
  <2>7. h \notin New(loop, loop')
    BY <1>0 DEF New
  <2>. QED  BY <1>2, <2>1, <2>3, <2>5, <2>6, <2>7 DEF Unfired, New
<1>4. fired' \in [DOMAIN loop'.handles -> [count : Nat, since : Nat]]
  <2>1. \A i \in DOMAIN loop'.handles : fired'[i] \in [count : Nat, since : Nat]
    BY <1>0, <1>2, <1>3 DEF New
  <2>2. fired' = [i \in DOMAIN fired' |-> fired'[i]]
    BY DEF RunsOne, Fires, Unfired
  <2>. QED  BY <1>3, <2>1, <2>2
<1>5. \A i \in DOMAIN loop.handles : i # h /\ MayRun(i) => MayRun(i)'
  BY <1>2, <1>3 DEF MayRun, Aged
<1>6. \A i \in New(loop, loop') : MayRun(i)'
  BY <1>3 DEF MayRun
<1>7. loop.handles[h].repeat => MayRun(h)'
  BY <1>0, <1>2 DEF MayRun, Aged
<1>8. ~loop.handles[h].repeat => h \notin (loop.timers \cup loop.immediates)'
  <2>1. h \notin New(loop, loop')
    BY <1>0 DEF New
  <2>2. CASE stage = "timers"
    <3>1. h \notin loop.immediates
      BY <2>2 DEF BatchOK, LoopOK, Sound
    <3>. QED  BY <1>2, <2>1, <2>2, <3>1 DEF RunsOne
  <2>3. CASE stage = "immediates"
    <3>1. h \notin loop.timers /\ h \notin loop.immediates
      BY <2>3 DEF BatchOK, LoopOK, Sound
    <3>. QED  BY <1>2, <2>1, <3>1
  <2>. QED  BY <2>2, <2>3 DEF RunsOne
<1>9. \A i \in (loop.timers \cup loop.immediates)' : MayRun(i)'
  <2> SUFFICES ASSUME NEW i \in (loop.timers \cup loop.immediates)' PROVE MayRun(i)'
    OBVIOUS
  <2>1. CASE i = h
    BY <1>7, <1>8, <2>1
  <2>2. CASE i # h
    BY <1>2, <1>5, <1>6, <2>2 DEF LoopOK, Sound
  <2>. QED  BY <2>1, <2>2
<1>10. \A i \in DOMAIN loop.handles : i # h => Passed(i)' = Passed(i)
  BY <1>2, <1>3 DEF Passed, Aged
<1>11. DueLate'
  <2> SUFFICES ASSUME NEW i \in DOMAIN loop'.handles
               PROVE  /\ fired'[i].since <= now'
                      /\ loop'.handles[i].timer => Passed(i)' <= loop'.handles[i].due
    BY DEF DueLate
  <2>0. now' = now
    BY DEF RunsOne
  <2>1. CASE i \in New(loop, loop')
    <3>1. fired'[i].since = now
      BY <1>3, <2>1
    <3>2. loop'.handles[i] \in Handle
      BY <1>1 DEF LoopOK, Sound, Loop
    <3>3. loop'.handles[i].delay \in Nat
      BY <3>2 DEF Handle
    <3>. QED  BY <1>0, <1>2, <2>0, <2>1, <3>1, <3>3 DEF Passed
  <2>2. ASSUME i \in DOMAIN loop.handles
        PROVE  /\ fired[i].since <= now /\ (loop.handles[i].timer => Passed(i) <= loop.handles[i].due)
               /\ loop.handles[i].delay \in Nat /\ loop.handles[i].due \in Nat
               /\ fired[i].since \in Nat
               /\ Passed(i) <= now + loop.handles[i].delay
    <3>1. fired[i].since <= now /\ (loop.handles[i].timer => Passed(i) <= loop.handles[i].due)
      BY <2>2 DEF DueLate
    <3>2. loop.handles[i] \in Handle /\ fired[i].since \in Nat
      BY <2>2 DEF LoopOK, Sound, Loop
    <3>3. loop.handles[i].delay \in Nat /\ loop.handles[i].due \in Nat
      BY <3>2 DEF Handle
    <3>. QED  BY <1>0, <3>1, <3>2, <3>3 DEF Passed
  <2>3. CASE i \in DOMAIN loop.handles /\ i # h
    BY <1>2, <1>3, <1>10, <2>0, <2>2, <2>3 DEF Aged
  <2>4. CASE i = h /\ loop.handles[h].repeat
    <3>1. fired'[i].since = now
      BY <1>3, <2>4
    <3>2. loop'.handles[i].delay = loop.handles[i].delay
      BY <1>0, <1>2, <2>4 DEF Aged
    <3>3. loop'.handles[i].timer => loop'.handles[i].due = now + loop.handles[i].delay
      <4>1. stage = "timers" => loop'.handles[i].due = now + loop.handles[i].delay
        BY <2>4 DEF RunsOne
      <4>2. stage = "immediates" => ~loop.handles[i].timer
        BY <2>4 DEF BatchOK
      <4>. QED  BY <1>0, <1>2, <2>4, <4>1, <4>2 DEF RunsOne, Aged
    <3>. QED  BY <1>0, <2>0, <2>2, <2>4, <3>1, <3>2, <3>3 DEF Passed
  <2>5. CASE i = h /\ ~loop.handles[h].repeat
    <3>1. fired'[i].since = fired[i].since
      BY <1>3, <2>5
    <3>2. Passed(i)' = Passed(i)
      BY <1>0, <1>2, <2>5, <3>1 DEF Aged, Passed
    <3>. QED  BY <1>0, <1>2, <2>0, <2>2, <2>5, <3>1, <3>2 DEF Aged
  <2>. QED  BY <2>1, <2>3, <2>4, <2>5 DEF New
<1>12. BatchOK'
  <2>0. stage' = stage /\ batch' = batch \ {b} /\ now' = now
    BY DEF RunsOne
  <2>1. \A c \in batch' : c \in batch /\ c.id # h /\ c.id \in DOMAIN loop.handles
    BY <2>0 DEF BatchOK
  <2>2. batch' \subseteq [due : Nat, id : DOMAIN loop'.handles]
    BY <1>2, <2>0 DEF BatchOK
  <2>3. \A c, d \in batch' : c.id = d.id => c = d
    BY <2>0 DEF BatchOK
  <2>4. \A c \in batch' : MayRun(c.id)'
    BY <1>5, <2>1 DEF BatchOK
  <2>5. ASSUME stage = "immediates", NEW c \in batch'
        PROVE  ~loop'.handles[c.id].timer /\ c.id \notin loop'.immediates
    BY <1>2, <2>1, <2>5 DEF BatchOK, Aged, New
  <2>6. ASSUME stage = "timers", NEW c \in batch'
        PROVE  loop'.handles[c.id].timer /\ Passed(c.id)' <= now'
    BY <1>2, <1>10, <2>0, <2>1, <2>6 DEF BatchOK, Aged
  <2>. QED  BY <2>0, <2>2, <2>3, <2>4, <2>5, <2>6 DEF BatchOK, RunsOne
<1>13. FiresWell
  <2> SUFFICES ASSUME NEW i \in DOMAIN fired, fired'[i].count > fired[i].count
               PROVE  /\ ~loop.handles[i].cancelled
                      /\ fired[i].count = 0 \/ loop.handles[i].repeat
                      /\ loop.handles[i].timer => now >= fired[i].since + loop.handles[i].delay
    BY DEF FiresWell
  <2>1. i = h
    <3>1. i # h => fired'[i] = fired[i]
      BY <1>3
    <3>2. fired[i].count \in Nat
      OBVIOUS
    <3>. QED  BY <3>1, <3>2
  <2>2. stage = "timers" => Passed(h) <= now
    BY DEF BatchOK
  <2>3. stage = "immediates" => ~loop.handles[h].timer
    BY DEF BatchOK
  <2>4. loop.handles[h] \in Handle /\ fired[h].since \in Nat
    BY <1>0 DEF LoopOK, Sound, Loop
  <2>5. Passed(h) \in Nat
    BY <2>4 DEF Passed, Handle
  <2>. QED  BY <1>0, <2>1, <2>2, <2>3, <2>5 DEF RunsOne, Passed, MayRun
<1>. QED  BY <1>1, <1>4, <1>9, <1>11, <1>12, <1>13

LEMMA PhaseKeeps ==
  ASSUME HandlesInv, StartImmediates \/ StartTimers \/ Passes
  PROVE  HandlesInv' /\ \A h \in DOMAIN fired : fired'[h] = fired[h]
<1> USE DEF HandlesInv
<1>0. loop \in Loop /\ Sound(loop) /\ now \in Nat
  BY DEF LoopOK, Sound
<1>1. CASE StartImmediates
  <2>1. /\ stage' = "immediates" /\ UNCHANGED <<now, fired>>
        /\ batch' = {[due |-> 0, id |-> h] : h \in loop.immediates}
        /\ loop' = [loop EXCEPT !.immediates = {}]
    BY <1>1 DEF StartImmediates
  <2>2. /\ loop' \in Loop /\ loop'.handles = loop.handles /\ loop'.timers = loop.timers
        /\ loop'.immediates = {}
    BY <1>0, <2>1 DEF Loop
  <2>3. LoopOK'
    BY <1>0, <2>1, <2>2, SoundSame DEF LoopOK, Stages, Sound
  <2>4. DueLate' /\ \A h \in DOMAIN loop.handles : MayRun(h)' <=> MayRun(h)
    BY <2>1, <2>2 DEF DueLate, MayRun, Passed
  <2>5. \A h \in (loop.timers \cup loop.immediates)' : MayRun(h)'
    BY <1>0, <2>2, <2>4 DEF Sound
  <2>6. BatchOK'
    BY <1>0, <2>1, <2>2, <2>4 DEF BatchOK, Sound
  <2>. QED  BY <2>1, <2>2, <2>3, <2>4, <2>5, <2>6
<1>2. CASE StartTimers
  <2> DEFINE ready == {i \in loop.timers : ~loop.handles[i].cancelled /\ Due(i)}
  <2>1. /\ stage' = "timers" /\ UNCHANGED <<now, fired, loop>>
        /\ batch' = {[due |-> loop.handles[h].due, id |-> h] : h \in ready}
    BY <1>2 DEF StartTimers
  <2>2. \A h \in ready : /\ h \in DOMAIN loop.handles /\ MayRun(h) /\ loop.handles[h].timer
                         /\ loop.handles[h].due \in Nat /\ Passed(h) <= now
    <3> SUFFICES ASSUME NEW h \in ready
                 PROVE  /\ h \in DOMAIN loop.handles /\ MayRun(h) /\ loop.handles[h].timer
                        /\ loop.handles[h].due \in Nat /\ Passed(h) <= now
      OBVIOUS
    <3>1. h \in DOMAIN loop.handles /\ MayRun(h) /\ loop.handles[h].timer
          /\ loop.handles[h].due <= now
      BY <1>0 DEF Sound, Due
    <3>2. loop.handles[h] \in Handle /\ fired[h].since \in Nat
      BY <1>0, <3>1 DEF Loop
    <3>3. Passed(h) \in Nat /\ loop.handles[h].due \in Nat
      BY <3>2 DEF Passed, Handle
    <3>4. Passed(h) <= loop.handles[h].due
      BY <3>1 DEF DueLate
    <3>. QED  BY <1>0, <3>1, <3>3, <3>4
  <2> HIDE DEF ready
  <2>3. LoopOK'
    BY <1>0, <2>1 DEF LoopOK, Stages, Sound
  <2>4. DueLate' /\ \A h : MayRun(h)' = MayRun(h) /\ Passed(h)' = Passed(h)
    BY <2>1 DEF DueLate, MayRun, Passed
  <2>5. \A h \in (loop.timers \cup loop.immediates)' : MayRun(h)'
    BY <2>1, <2>4
  <2>6. BatchOK'
    BY <2>1, <2>2, <2>4 DEF BatchOK
  <2>. QED  BY <2>1, <2>3, <2>4, <2>5, <2>6
<1>3. CASE Passes
  <2>1. now' = now + 1 /\ UNCHANGED <<loop, stage, batch, fired>>
    BY <1>3 DEF Passes, loopVars
  <2>2. LoopOK'
    BY <1>0, <2>1 DEF LoopOK, Sound
  <2>3. \A h : MayRun(h)' = MayRun(h) /\ Passed(h)' = Passed(h)
    BY <2>1 DEF MayRun, Passed
  <2>4. \A h \in DOMAIN loop.handles : fired[h].since \in Nat /\ loop.handles[h].delay \in Nat
    <3>1. \A h \in DOMAIN loop.handles : loop.handles[h] \in Handle /\ fired[h].since \in Nat
      BY <1>0 DEF Loop
    <3>. QED  BY <3>1 DEF Handle
  <2>5. DueLate'
    BY <1>0, <2>1, <2>3, <2>4 DEF DueLate
  <2>6. BatchOK'
    <3>1. \A b \in batch : Passed(b.id) \in Nat
      BY <2>4 DEF Passed, BatchOK
    <3>. QED  BY <1>0, <2>1, <2>3, <3>1 DEF BatchOK
  <2>. QED  BY <2>1, <2>2, <2>3, <2>5, <2>6
<1>. QED  BY <1>1, <1>2, <1>3

LEMMA HandlesStep ==
  ASSUME HandlesInv, [Next]_vars
  PROVE  HandlesInv' /\ FiresWell
<1>1. HandleMove
  BY HandleMoves
<1>2. CASE Rests \/ StartImmediates \/ StartTimers \/ Passes
  <2>1. HandlesInv' /\ \A h \in DOMAIN fired : fired'[h] = fired[h]
    BY <1>2, RestsKeeps, PhaseKeeps
  <2>2. \A h \in DOMAIN fired : fired[h].count \in Nat
    BY DEF HandlesInv
  <2>. QED  BY <2>1, <2>2 DEF FiresWell
<1>. QED  BY <1>1, <1>2, RunsOneKeeps DEF HandleMove

LEMMA HandlesInit == Init => HandlesInv
<1> SUFFICES ASSUME Init PROVE HandlesInv
  OBVIOUS
<1>1. /\ loop.handles = <<>> /\ loop.timers = {} /\ loop.immediates = {}
      /\ loop \in Loop /\ batch = {} /\ fired = <<>> /\ stage = "main"
  BY DEF Init, Loop
<1>2. now \in Nat
  BY TimeAssumption DEF Init
<1>3. DOMAIN loop.handles = {} /\ fired \in [DOMAIN loop.handles -> [count : Nat, since : Nat]]
  BY <1>1
<1>4. LoopOK
  BY <1>1, <1>2 DEF LoopOK, Stages, Sound
<1>. QED  BY <1>1, <1>3, <1>4 DEF HandlesInv, DueLate, BatchOK

\* A callback runs only while its handle is set, not before its delay has
\* passed and, unless it is an interval's, once: whatever the callbacks of the
\* same tick set, clear and refresh.
THEOREM FiresAsItWasSet == Spec => FiresAsSet
<1>1. HandlesInv /\ [Next]_vars => HandlesInv' /\ FiresWell
  BY HandlesStep
<1>2. HandlesInv /\ [Next]_vars => [FiresWell]_vars
  BY <1>1
<1>3. Init => HandlesInv
  BY HandlesInit
<1>4. Spec => []HandlesInv
  BY <1>1, <1>3, PTL DEF Spec
<1>5. Spec => [][FiresWell]_vars
  BY <1>2, <1>4, PTL DEF Spec
<1>. QED  BY <1>5 DEF FiresAsSet, FiresWell
-----------------------------------------------------------------------------
LEMMA JobsStep ==
  ASSUME JobsDrained, [Next]_vars
  PROVE  JobsDrained'
<1> USE DEF JobsDrained
<1>1. CASE RunMain
  BY <1>1 DEF RunMain
<1>2. CASE Receive
  BY <1>2 DEF Receive, OnRequest, OnAnswer, OnTimeout, OnClusterAnswer, Settles,
              NotUnpacked, OnClusterTimeout, OnWake, BeginTick
<1>3. CASE EndTick
  BY <1>3 DEF EndTick, Drained
<1>4. CASE RunNextTick \/ RunJob \/ StartImmediates \/ RunImmediate \/ StartTimers \/ RunTimer
  BY <1>4 DEF RunNextTick, RunJob, StartImmediates, RunImmediate, StartTimers, RunTimer, Ticking
<1>5. CASE Kernel \/ Others \/ UNCHANGED vars
  BY <1>5 DEF Kernel, Elapse, Expire, Others, Arrive, Answer, Quiescent, loopVars, vars
<1>. QED  BY <1>1, <1>2, <1>3, <1>4, <1>5 DEF Next, Service, Tick

\* Between messages no nextTick and no microtask is left behind, however many
\* the callbacks of the tick queued.
THEOREM JobsAreDrained == Spec => []JobsDrained
<1>1. Init => JobsDrained
  BY DEF Init, JobsDrained
<1>. QED  BY <1>1, JobsStep, PTL DEF Spec
-----------------------------------------------------------------------------
(* The kernel timeout that scheduleWake asks for.                          *)

LEMMA DivBelow ==
  ASSUME NEW a \in Nat, NEW c \in Nat \ {0}
  PROVE  a \div c \in Nat /\ (a \div c) * c <= a
<1>1. a \div c \in Nat
  OBVIOUS
<1>2. (a \div c) * c <= a
  OBVIOUS
<1>. QED  BY <1>1, <1>2

\* Rounded to centiseconds, the time from t to at ends within one of at.
LEMMA CeilBelow ==
  ASSUME NEW t \in Nat, NEW at \in Nat, at > t, NEW c \in Nat \ {0}
  PROVE  LET r == (at - t + c - 1) \div c IN r \in Nat /\ (t \div c + r) * c <= c + at
<1> DEFINE r == (at - t + c - 1) \div c
           q == t \div c
<1>1. at - t + c - 1 \in Nat
  OBVIOUS
<1>2. r \in Nat /\ r * c <= at - t + c - 1
  BY <1>1, DivBelow
<1>3. q \in Nat /\ q * c <= t
  BY DivBelow
<1> HIDE DEF r, q
<1>4. (q + r) * c = q * c + r * c /\ q * c \in Nat /\ r * c \in Nat
  BY <1>2, <1>3
<1>5. (q + r) * c <= c + at
  BY <1>2, <1>3, <1>4
<1>. QED  BY <1>2, <1>5 DEF r, q

LEMMA LeastDue ==
  ASSUME NEW S, NEW due, \A h \in S : due[h] \in Nat, S # {}
  PROVE  \E h \in S : \A i \in S : due[h] <= due[i]
<1> DEFINE R == {ss \in Nat \X Nat : ss[1] < ss[2]}
           T == {due[h] : h \in S}
<1>1. IsWellFoundedOn(R, Nat)
  BY NatLessThanWellFounded DEF OpToRel
<1>2. \A m, n \in Nat : m < n => <<m, n>> \in R
  OBVIOUS
<1>3. T \subseteq Nat /\ T # {}
  OBVIOUS
<1> HIDE DEF R
<1>4. PICK m \in T : \A n \in T : <<n, m>> \notin R
  BY <1>1, <1>3, WFMin
<1>5. PICK h \in S : due[h] = m
  OBVIOUS
<1>6. ASSUME NEW i \in S PROVE due[h] <= due[i]
  <2>1. ~(due[i] < due[h])
    BY <1>2, <1>4, <1>5
  <2>. QED  BY <2>1
<1>. QED  BY <1>6

Timely(at, n) ==
    n = 0 \/ (now \div CS + n) * CS <= CS + at \/ (now \div CS + n) * CS <= CS + now
Wakes(l, at) ==
    \A h \in l.immediates \cup l.timers : Live(l, h) =>
        at <= now \/ (l.handles[h].timer /\ at <= l.handles[h].due)

LEMMA EarliestIsSoonEnough ==
  ASSUME now \in Nat, NEW l, Sound(l)
  PROVE  LET next == EarliestWake(l)
         IN  /\ next.set \in BOOLEAN /\ next.at \in Nat /\ next.centiseconds \in Nat
             /\ next.set => Timely(next.at, next.centiseconds) /\ Wakes(l, next.at)
             /\ ~next.set => \A h \in l.immediates \cup l.timers : ~Live(l, h)
<1> DEFINE next == EarliestWake(l)
<1>0. CS \in Nat \ {0}
  BY TimeAssumption
<1>1. \A h \in DOMAIN l.handles : l.handles[h].due \in Nat
  <2>1. \A h \in DOMAIN l.handles : l.handles[h] \in Handle
    BY DEF Sound, Loop
  <2>. QED  BY <2>1 DEF Handle
<1>2. CASE \E h \in l.immediates : Live(l, h)
  <2>1. next = [set |-> TRUE, at |-> now, centiseconds |-> 0]
    BY <1>2 DEF EarliestWake
  <2> HIDE DEF next
  <2>2. next.set /\ next.at = now /\ next.centiseconds = 0 /\ next.set \in BOOLEAN
    BY <2>1
  <2>3. Wakes(l, now) /\ Timely(now, 0)
    BY DEF Wakes, Timely
  <2>. QED  BY <2>2, <2>3 DEF next
<1>3. CASE (\A h \in l.immediates : ~Live(l, h)) /\ Awake(l) = {}
  BY <1>3 DEF EarliestWake, NoWake, Awake
<1>4. CASE (\A h \in l.immediates : ~Live(l, h)) /\ Awake(l) # {}
  <2> DEFINE first == CHOOSE h \in Awake(l) : \A i \in Awake(l) :
                          l.handles[h].due <= l.handles[i].due
             at == l.handles[first].due
             rest == IF at > now THEN (at - now + CS - 1) \div CS ELSE 0
  <2>1. Awake(l) \subseteq DOMAIN l.handles
    BY DEF Awake, Sound
  <2>2. first \in Awake(l) /\ \A i \in Awake(l) : at <= l.handles[i].due
    <3> DEFINE due == [h \in DOMAIN l.handles |-> l.handles[h].due]
    <3>1. \A h \in Awake(l) : due[h] \in Nat /\ due[h] = l.handles[h].due
      BY <1>1, <2>1
    <3> HIDE DEF due
    <3>2. \E h \in Awake(l) : \A i \in Awake(l) : due[h] <= due[i]
      BY <1>4, <3>1, LeastDue
    <3>3. \E h \in Awake(l) : \A i \in Awake(l) : l.handles[h].due <= l.handles[i].due
      BY <3>1, <3>2
    <3>. QED  BY <3>3
  <2>3. at \in Nat
    BY <1>1, <2>1, <2>2
  <2>4. next = [set |-> TRUE, at |-> at, centiseconds |-> IF rest = 0 THEN 1 ELSE rest]
    BY <1>4 DEF EarliestWake
  <2> HIDE DEF first
  <2>5. Wakes(l, at)
    BY <1>4, <2>2 DEF Wakes, Awake, Sound
  <2>6. CASE at > now
    <3>1. rest \in Nat /\ (now \div CS + rest) * CS <= CS + at
      BY <1>0, <2>3, <2>6, CeilBelow
    <3>2. (now \div CS) * CS <= now /\ now \div CS \in Nat
      BY <1>0, DivBelow
    <3>3. (now \div CS + 1) * CS = (now \div CS) * CS + CS
      BY <1>0, <3>2
    <3>4. (now \div CS + 1) * CS <= CS + now
      BY <1>0, <3>2, <3>3
    <3>5. next.set /\ next.at = at
          /\ next.centiseconds = IF rest = 0 THEN 1 ELSE rest
      BY <2>4
    <3> HIDE DEF next, at, rest
    <3>6. Timely(next.at, next.centiseconds) /\ next.centiseconds \in Nat
      BY <3>1, <3>4, <3>5 DEF Timely
    <3>7. next.set \in BOOLEAN /\ next.at \in Nat /\ next.set
      BY <2>3, <3>5
    <3>8. Wakes(l, next.at)
      BY <2>5, <3>5
    <3>. QED  BY <3>6, <3>7, <3>8 DEF next
  <2>7. CASE ~(at > now)
    <3>1. next.set /\ next.at = at /\ next.centiseconds = 1
      BY <2>4, <2>7
    <3>2. (now \div CS) * CS <= now /\ now \div CS \in Nat
      BY <1>0, DivBelow
    <3>3. (now \div CS + 1) * CS = (now \div CS) * CS + CS
      BY <1>0, <3>2
    <3>4. (now \div CS + 1) * CS <= CS + now
      BY <1>0, <3>2, <3>3
    <3> HIDE DEF next, at
    <3>5. Timely(next.at, next.centiseconds)
      BY <3>1, <3>4 DEF Timely
    <3>6. Wakes(l, next.at) /\ next.at \in Nat /\ next.set \in BOOLEAN /\ next.centiseconds \in Nat
      BY <2>3, <2>5, <3>1
    <3>. QED  BY <3>1, <3>5, <3>6 DEF next
  <2>. QED  BY <2>6, <2>7
<1>. QED  BY <1>2, <1>3, <1>4

Calm(box) == mailbox' = box /\ UNCHANGED <<session, pendingTimers, kernelTimers, wake>>
AsksWake(at, n, box) ==
    /\ Timely(at, n)
    /\ wake' = [set |-> TRUE, at |-> at, gen |-> wake.gen + 1]
    /\ Timeout(n, [kind |-> "wake", of |-> wake.gen + 1], box)
Schedules(box) == Calm(box) \/ \E at, n \in Nat : AsksWake(at, n, box)

LEMMA ScheduleMoves ==
  ASSUME now \in Nat, wake \in Wake, NEW l, Sound(l), NEW box, ScheduleWake(l, wake, box)
  PROVE  Schedules(box) /\ Covered(l, wake') /\ wake' \in Wake
<1> DEFINE next == EarliestWake(l)
<1>1. /\ next.set \in BOOLEAN /\ next.at \in Nat /\ next.centiseconds \in Nat
      /\ next.set => Timely(next.at, next.centiseconds) /\ Wakes(l, next.at)
      /\ ~next.set => \A h \in l.immediates \cup l.timers : ~Live(l, h)
  BY EarliestIsSoonEnough
<1>2. IF ~next.set \/ SoonEnough(wake, next)
      THEN wake' = wake /\ mailbox' = box
           /\ UNCHANGED <<session, pendingTimers, kernelTimers>>
      ELSE /\ wake' = [set |-> TRUE, at |-> next.at, gen |-> wake.gen + 1]
           /\ Timeout(next.centiseconds, [kind |-> "wake", of |-> wake.gen + 1], box)
  BY DEF ScheduleWake
<1> HIDE DEF next
<1>3. \A h \in l.immediates \cup l.timers : h \in DOMAIN l.handles /\ l.handles[h].due \in Nat
  <2>1. \A h \in DOMAIN l.handles : l.handles[h] \in Handle
    BY DEF Sound, Loop
  <2>. QED  BY <2>1 DEF Handle, Sound
<1>4. wake.at \in Nat /\ wake.gen \in Nat
  BY DEF Wake
<1>5. CASE ~next.set
  BY <1>1, <1>2, <1>5 DEF Schedules, Calm, Covered
<1>6. CASE next.set /\ SoonEnough(wake, next)
  <2>1. Covered(l, wake)
    BY <1>1, <1>3, <1>4, <1>6 DEF Covered, SoonEnough, Wakes
  <2>. QED  BY <1>2, <1>6, <2>1 DEF Schedules, Calm
<1>7. CASE next.set /\ ~SoonEnough(wake, next)
  <2>1. wake' = [set |-> TRUE, at |-> next.at, gen |-> wake.gen + 1]
        /\ AsksWake(next.at, next.centiseconds, box)
    BY <1>1, <1>2, <1>7 DEF AsksWake
  <2>2. wake'.set /\ wake'.at = next.at /\ wake' \in Wake
    BY <1>1, <1>4, <2>1 DEF Wake
  <2>3. Covered(l, wake')
    BY <1>1, <1>7, <2>2 DEF Covered, Wakes
  <2>. QED  BY <1>1, <2>1, <2>2, <2>3 DEF Schedules
<1>. QED  BY <1>1, <1>5, <1>6, <1>7

LEMMA SetTimerSound ==
  ASSUME now \in Nat, NEW l, Sound(l), NEW d \in Delay, NEW repeat \in BOOLEAN
  PROVE  Sound([l EXCEPT !.handles = Append(@, TimerHandle(d, repeat)),
                         !.timers = @ \cup {NewHandle(l)}])
<1> DEFINE e == TimerHandle(d, repeat)
           m == [l EXCEPT !.handles = Append(@, e), !.timers = @ \cup {NewHandle(l)}]
           a == Append(l.handles, e)
<1>1. e \in Handle /\ e.timer /\ e.due = now + e.delay
  BY TimeAssumption DEF TimerHandle, Handle, NormalizeDelay
<1>2. l \in Loop /\ l.handles \in Seq(Handle) /\ Len(l.handles) \in Nat
      /\ l.timers \subseteq Nat /\ l.immediates \subseteq Nat /\ l.ticks \in Nat /\ l.jobs \in Nat
  BY DEF Sound, Loop
<1> HIDE DEF e
<1>3. m = [l EXCEPT !.handles = a, !.timers = l.timers \cup {NewHandle(l)}]
  BY <1>2 DEF Loop
<1> HIDE DEF m
<1>4. a \in Seq(Handle)
  BY <1>1, <1>2, SeqAppend
<1> HIDE DEF a
<1>5. m = [handles |-> a, timers |-> l.timers \cup {NewHandle(l)},
           immediates |-> l.immediates, ticks |-> l.ticks, jobs |-> l.jobs]
  BY <1>2, <1>3 DEF Loop
<1>6. l.timers \cup {NewHandle(l)} \subseteq Nat
  BY <1>2 DEF NewHandle
<1>7. m \in Loop /\ m.handles = a /\ m.immediates = l.immediates
      /\ m.timers = l.timers \cup {NewHandle(l)}
  BY <1>2, <1>4, <1>5, <1>6 DEF Loop
<1>8. Sound(m)
  BY <1>1, <1>7, HandleAdded DEF NewHandle, a
<1>. QED  BY <1>8 DEF m, e

\* What user code does to the calls and to the kernel's timers.
Fails(c, box) ==
    /\ c \in Call /\ Unused(c) /\ session' = session + 1
    /\ settled' = Settled(c, "notsent", c) /\ mailbox' = box
    /\ UNCHANGED <<wake, pendingCalls, pending, outstanding, pendingTimers, kernelTimers, lost>>
Numbers(c) == [session |-> session + 1, call |-> c]
CallsService(c, box) ==
    /\ c \in LocalCall /\ Unused(c) /\ session' = session + 1 /\ mailbox' = box
    /\ pendingCalls' = pendingCalls \cup {Numbers(c)}
    /\ outstanding' = outstanding \cup {Numbers(c)}
    /\ UNCHANGED <<wake, pending, settled, pendingTimers, kernelTimers, lost>>
CallsCluster(c, box) ==
    /\ c \in ClusterCall /\ Unused(c) /\ session' = session + 2 /\ mailbox' = box
    /\ pending' = pending \cup {Numbers(c)}
    /\ outstanding' = outstanding \cup {Numbers(c)}
    /\ pendingTimers' = pendingTimers \cup
           {[session |-> session + 2, fn |-> [kind |-> "timeout", of |-> Numbers(c)]]}
    /\ kernelTimers' = kernelTimers \cup
           {[session |-> session + 2, at |-> now \div CS + ClusterTimeout]}
    /\ UNCHANGED <<wake, pendingCalls, settled, lost>>
UserRpc(box) ==
    \/ NoCall /\ Schedules(box)
    \/ \E c \in Call : Fails(c, box) \/ CallsService(c, box) \/ CallsCluster(c, box)

LEMMA UserRpcMoves ==
  ASSUME now \in Nat, wake \in Wake, session \in Nat, NEW l, Sound(l), NEW box, UserCode(l, box)
  PROVE  UserRpc(box)
<1>1. Sound(loop')
  BY UserHandles
<1>2. CASE \/ Nothing(l, box) \/ Clear(l, box) \/ Unref(l, box)
           \/ NextTick(l, box) \/ QueueMicrotask(l, box)
  BY <1>2 DEF Nothing, Clear, Unref, NextTick, QueueMicrotask, Quiet, UserRpc, Schedules, Calm
<1>3. CASE SetImmediate(l, box) \/ Refresh(l, box) \/ Ref(l, box)
  <2>1. NoCall /\ ScheduleWake(loop', wake, box)
    BY <1>3 DEF SetImmediate, Refresh, Ref, Rescheduling
  <2>. QED  BY <1>1, <2>1, ScheduleMoves DEF UserRpc
<1>4. CASE SetTimer(l, box)
  <2>1. PICK d \in Delay, repeat \in BOOLEAN :
          NoCall /\ ScheduleWake([l EXCEPT !.handles = Append(@, TimerHandle(d, repeat)),
                                           !.timers = @ \cup {NewHandle(l)}], wake, box)
    BY <1>4 DEF SetTimer
  <2>. QED  BY <2>1, SetTimerSound, ScheduleMoves DEF UserRpc
<1>5. CASE CallService(l, box)
  <2>1. PICK c \in LocalCall : Fails(c, box) \/ CallsService(c, box)
    BY <1>5 DEF CallService, Fails, CallsService, Numbers, Call
  <2>. QED  BY <2>1 DEF UserRpc, Call
<1>6. CASE CallCluster(l, box)
  <2>1. PICK c \in ClusterCall : Fails(c, box) \/ CallsCluster(c, box)
    BY <1>6 DEF CallCluster, NotSent, Fails, CallsCluster, Numbers, Call
  <2>. QED  BY <2>1 DEF UserRpc, Call
<1>. QED  BY <1>2, <1>3, <1>4, <1>5, <1>6 DEF UserCode
-----------------------------------------------------------------------------
(* How a step moves the calls, the kernel's timers and the mailbox.        *)

Taken == mailbox # <<>> /\ mailbox' = Tail(mailbox)
Foreign == Message.type = "RESPONSE" => With(pendingTimers, Message.session) = {}
CallSettled(p) ==
    /\ Taken /\ Foreign /\ Message.type \in {"RESPONSE", "ERROR"}
    /\ p \in pendingCalls \cup pending /\ p.session = Message.session
    /\ pendingCalls' = pendingCalls \ {p} /\ pending' = pending \ {p}
    /\ settled' = Settled(p.call, Message.type, Message.of)
    /\ UNCHANGED <<wake, session, pendingTimers, kernelTimers, outstanding, lost>>
CallLost(p) ==
    /\ Taken /\ Foreign /\ Message.type \in {"RESPONSE", "ERROR"}
    /\ p \in pending /\ p.session = Message.session
    /\ pending' = pending \ {p} /\ lost' = lost \cup {p.call}
    /\ UNCHANGED <<wake, session, pendingTimers, kernelTimers, outstanding,
                   pendingCalls, settled>>
Dropped ==
    /\ Taken /\ Foreign /\ Message.type \in {"RESPONSE", "ERROR"}
    /\ UNCHANGED <<wake, session, pendingTimers, kernelTimers, outstanding,
                   pendingCalls, pending, settled, lost>>
CallTimedOut(t) ==
    /\ t.fn.kind = "timeout" /\ UNCHANGED wake
    /\ \/ /\ With(pending, t.fn.of.session) # {}
          /\ pending' = pending \ {t.fn.of}
          /\ settled' = Settled(t.fn.of.call, "timeout", t.fn.of.call)
       \/ UNCHANGED <<pending, settled>>
WokenUp(t) ==
    /\ t.fn.kind = "wake" /\ UNCHANGED <<pending, settled>>
    /\ \/ t.fn.of = wake.gen /\ wake' = [wake EXCEPT !.set = FALSE, !.at = 0]
       \/ t.fn.of # wake.gen /\ wake' = wake
TimerEnded(t) ==
    /\ Taken /\ Message.type = "RESPONSE"
    /\ t \in pendingTimers /\ t.session = Message.session
    /\ pendingTimers' = pendingTimers \ {t}
    /\ CallTimedOut(t) \/ WokenUp(t)
    /\ UNCHANGED <<session, pendingCalls, kernelTimers, outstanding, lost>>
Asleep == UNCHANGED <<wake, session, pendingTimers, pendingCalls, pending, settled, lost>>
Posted(k) ==
    /\ k \in kernelTimers /\ kernelTimers' = kernelTimers \ {k}
    /\ mailbox' = Append(mailbox, [type |-> "RESPONSE", session |-> k.session])
    /\ Asleep /\ UNCHANGED outstanding
Sent(r) ==
    /\ r \in Request /\ mailbox' = Append(mailbox, [type |-> "REQUEST", request |-> r])
    /\ Asleep /\ UNCHANGED <<kernelTimers, outstanding>>
Answered(p) ==
    /\ p \in outstanding /\ outstanding' = outstanding \ {p}
    /\ \E type \in {"RESPONSE", "ERROR"} :
          mailbox' = Append(mailbox, [type |-> type, session |-> p.session, of |-> p.call])
    /\ Asleep /\ UNCHANGED kernelTimers

RpcMove ==
    \/ UserRpc(mailbox)
    \/ mailbox # <<>> /\ Message.type = "REQUEST" /\ UserRpc(Tail(mailbox))
    \/ \E p \in pendingCalls \cup pending : CallSettled(p)
    \/ \E p \in pending : CallLost(p)
    \/ Dropped
    \/ \E t \in pendingTimers : TimerEnded(t)
    \/ \E k \in kernelTimers : Posted(k)
    \/ \E r \in Request : Sent(r)
    \/ \E p \in outstanding : Answered(p)

LEMMA StaysMoves ==
  ASSUME UNCHANGED <<rpcVars, wake>>
  PROVE  RpcMove
  BY DEF rpcVars, RpcMove, UserRpc, NoCall, Schedules, Calm

LEMMA RpcMoves ==
  ASSUME LoopOK, RpcOK, HandlesInv, [Next]_vars
  PROVE  RpcMove
<1>1. /\ now \in Nat /\ wake \in Wake /\ session \in Nat /\ Sound(loop)
      /\ pendingCalls \subseteq Entry(LocalCall) /\ pending \subseteq Entry(ClusterCall)
  BY DEF LoopOK, RpcOK
<1>2. ASSUME NEW p \in pendingCalls PROVE p \notin pending
  <2>1. p.call \in LocalCall
    BY <1>1 DEF Entry
  <2>2. p \in pending => p.call \in ClusterCall
    BY <1>1 DEF Entry
  <2>. QED  BY <2>1, <2>2, CallAssumption
<1>3. CASE RunMain
  <2>1. UserCode(loop, mailbox)
    BY <1>3 DEF RunMain
  <2>. QED  BY <1>1, <2>1, UserRpcMoves DEF RpcMove
<1>4. CASE OnRequest
  <2>1. mailbox # <<>> /\ Message.type = "REQUEST" /\ UserCode(loop, Tail(mailbox))
    BY <1>4 DEF OnRequest, Received
  <2>. QED  BY <1>1, <2>1, UserRpcMoves DEF RpcMove
<1>5. CASE OnAnswer
  <2>1. /\ mailbox # <<>> /\ Foreign /\ Message.type \in {"RESPONSE", "ERROR"}
        /\ UNCHANGED <<wake, session, pendingTimers, kernelTimers, outstanding>>
        /\ \/ \E p \in With(pendingCalls, Message.session) :
                 /\ pendingCalls' = pendingCalls \ {p}
                 /\ Settles(p, Tail(mailbox)) /\ UNCHANGED pending
           \/ OnClusterAnswer(Message.session, Tail(mailbox))
           \/ mailbox' = Tail(mailbox) /\ UNCHANGED <<pendingCalls, pending, settled, lost>>
    BY <1>5 DEF OnAnswer, Received, Foreign
  <2>2. ASSUME NEW p \in With(pendingCalls, Message.session),
               pendingCalls' = pendingCalls \ {p}, Settles(p, Tail(mailbox)), UNCHANGED pending
        PROVE  RpcMove
    <3>1. CallSettled(p)
      BY <1>2, <2>1, <2>2 DEF CallSettled, Taken, Settles, With
    <3>. QED  BY <2>2, <3>1 DEF RpcMove, With
  <2>3. ASSUME OnClusterAnswer(Message.session, Tail(mailbox)) PROVE RpcMove
    <3>1. PICK p \in With(pending, Message.session) :
            /\ pending' = pending \ {p} /\ UNCHANGED pendingCalls
            /\ Settles(p, Tail(mailbox)) \/ NotUnpacked(p, Tail(mailbox))
      BY <2>3 DEF OnClusterAnswer
    <3>2. p \in pending /\ p \notin pendingCalls /\ p.session = Message.session
      BY <1>2 DEF With
    <3>3. Settles(p, Tail(mailbox)) => CallSettled(p)
      BY <2>1, <3>1, <3>2 DEF CallSettled, Taken, Settles
    <3>4. NotUnpacked(p, Tail(mailbox)) => CallLost(p)
      BY <2>1, <3>1, <3>2 DEF CallLost, Taken, NotUnpacked
    <3>. QED  BY <3>1, <3>2, <3>3, <3>4 DEF RpcMove
  <2>4. ASSUME mailbox' = Tail(mailbox), UNCHANGED <<pendingCalls, pending, settled, lost>>
        PROVE  RpcMove
    BY <2>1, <2>4 DEF Dropped, Taken, RpcMove
  <2>. QED  BY <2>1, <2>2, <2>3, <2>4
<1>6. CASE OnTimeout
  <2>1. PICK t \in With(pendingTimers, Message.session) :
          /\ pendingTimers' = pendingTimers \ {t}
          /\ \/ t.fn.kind = "timeout" /\ OnClusterTimeout(t.fn.of)
             \/ t.fn.kind = "wake" /\ OnWake(t.fn.of)
    BY <1>6 DEF OnTimeout
  <2>2. /\ Taken /\ Message.type = "RESPONSE"
        /\ UNCHANGED <<session, pendingCalls, kernelTimers, outstanding, lost>>
    BY <1>6 DEF OnTimeout, Received, Taken
  <2>3. CallTimedOut(t) \/ WokenUp(t)
    BY <2>1 DEF OnClusterTimeout, OnWake, Overdue, Current, CallTimedOut, WokenUp
  <2>4. t \in pendingTimers /\ t.session = Message.session
    BY DEF With
  <2>. QED  BY <2>1, <2>2, <2>3, <2>4 DEF TimerEnded, RpcMove
<1>7. CASE RunNextTick
  <2>1. UserCode([loop EXCEPT !.ticks = @ - 1], mailbox) /\ loop.ticks > 0
    BY <1>7 DEF RunNextTick, Continuation
  <2>. QED  BY <1>1, <2>1, CountersChanged, UserRpcMoves DEF RpcMove
<1>8. CASE RunJob
  <2>1. UserCode([loop EXCEPT !.jobs = @ - 1], mailbox) /\ loop.jobs > 0
    BY <1>8 DEF RunJob, Continuation
  <2>. QED  BY <1>1, <2>1, CountersChanged, UserRpcMoves DEF RpcMove
<1>9. CASE RunImmediate
  <2>1. UserCode(loop, mailbox) \/ UNCHANGED <<rpcVars, wake>>
    BY <1>9 DEF RunImmediate, Continuation, Skip
  <2>. QED  BY <1>1, <2>1, UserRpcMoves, StaysMoves DEF RpcMove
<1>10. CASE RunTimer
  <2>1. PICK b \in batch : UserCode(Started(b.id), mailbox) \/ UNCHANGED <<rpcVars, wake>>
    BY <1>10 DEF RunTimer, Continuation, Skip
  <2>2. b.id \in DOMAIN loop.handles
    BY DEF HandlesInv, BatchOK
  <2>3. Sound(Started(b.id))
    BY <2>2, StartedSound
  <2>. QED  BY <1>1, <2>1, <2>3, UserRpcMoves, StaysMoves DEF RpcMove
<1>11. CASE StartImmediates \/ StartTimers \/ Elapse \/ UNCHANGED vars
  <2>1. UNCHANGED <<rpcVars, wake>>
    BY <1>11 DEF StartImmediates, StartTimers, Elapse, Quiescent, loopVars, rpcVars, vars
  <2>. QED  BY <2>1, StaysMoves
<1>12. CASE EndTick
  <2>1. ScheduleWake(loop, wake, mailbox) /\ NoCall
    BY <1>12 DEF EndTick, NoCall
  <2>. QED  BY <1>1, <2>1, ScheduleMoves DEF RpcMove, UserRpc
<1>13. CASE \E k \in kernelTimers : Expire(k)
  BY <1>13 DEF Expire, Posted, Asleep, Quiescent, loopVars, RpcMove
<1>14. CASE Others
  BY <1>14 DEF Others, Arrive, Answer, Sent, Answered, Asleep, Quiescent, loopVars, RpcMove
<1>. QED  BY <1>3, <1>4, <1>5, <1>6, <1>7, <1>8, <1>9, <1>10, <1>11, <1>12, <1>13, <1>14
          DEF Next, Service, Receive, Tick, Kernel
-----------------------------------------------------------------------------
(* A number is given out once, so an answer finds its own call.            *)

Extends(o, x) == DOMAIN o \subseteq DOMAIN x /\ \A s \in DOMAIN o : x[s] = o[s]

LEMMA OneMore ==
  ASSUME NEW n \in Nat, NEW o \in [1 .. n -> SUBSET Call], NEW calls \in SUBSET Call
  PROVE  \E x \in [1 .. n + 1 -> SUBSET Call] : Extends(o, x) /\ x[n + 1] = calls
<1> DEFINE x == [s \in 1 .. n + 1 |-> IF s = n + 1 THEN calls ELSE o[s]]
<1>1. x \in [1 .. n + 1 -> SUBSET Call] /\ Extends(o, x) /\ x[n + 1] = calls
  BY DEF Extends
<1>. QED  BY <1>1

LEMMA NumberedKeeps ==
  ASSUME NEW o, Numbered(o), NEW x, x \in [1 .. session' -> SUBSET Call], Extends(o, x),
         \A p \in (pendingCalls \cup pending \cup outstanding)' :
             p \in pendingCalls \cup pending \cup outstanding \/ CallNumber(x, p),
         \A t \in pendingTimers' : t \in pendingTimers \/
             (TimerNumber(x, t) /\ (t.fn.kind = "timeout" => CallNumber(x, t.fn.of))),
         \A k \in kernelTimers' : k \in kernelTimers \/ TimerNumber(x, k),
         \A i \in DOMAIN mailbox' : \/ \E j \in DOMAIN mailbox : mailbox'[i] = mailbox[j]
                                    \/ MessageNumber(x, mailbox'[i])
  PROVE  Numbered(x)'
<1>1. \A p : CallNumber(o, p) => CallNumber(x, p)
  BY DEF CallNumber, Extends
<1>2. \A t : TimerNumber(o, t) => TimerNumber(x, t)
  BY DEF TimerNumber, Extends
<1>3. \A m : MessageNumber(o, m) => MessageNumber(x, m)
  BY <1>2 DEF MessageNumber, Extends
<1>4. \A p \in (pendingCalls \cup pending \cup outstanding)' : CallNumber(x, p)
  BY <1>1 DEF Numbered
<1>5. \A t \in pendingTimers' :
          TimerNumber(x, t) /\ (t.fn.kind = "timeout" => CallNumber(x, t.fn.of))
  BY <1>1, <1>2 DEF Numbered
<1>6. \A k \in kernelTimers' : TimerNumber(x, k)
  BY <1>2 DEF Numbered
<1>7. \A i \in DOMAIN mailbox' : MessageNumber(x, mailbox'[i])
  BY <1>3 DEF Numbered
<1>. QED  BY <1>4, <1>5, <1>6, <1>7 DEF Numbered, CallNumber, TimerNumber, MessageNumber

\* The mailbox as a step of the service leaves it before it posts anything.
Boxes == {box \in {mailbox, Tail(mailbox)} : box = mailbox \/ mailbox # <<>>}

LEMMA BoxType ==
  ASSUME mailbox \in Seq(AnyMessage), NEW box \in Boxes
  PROVE  /\ box \in Seq(AnyMessage)
         /\ \A i \in DOMAIN box : \E j \in DOMAIN mailbox : box[i] = mailbox[j]
  BY SeqTail DEF Boxes

LEMMA PostedBox ==
  ASSUME mailbox \in Seq(AnyMessage), NEW box \in Boxes, NEW m \in AnyMessage,
         mailbox' = Append(box, m)
  PROVE  /\ mailbox' \in Seq(AnyMessage)
         /\ \A i \in DOMAIN mailbox' : \/ \E j \in DOMAIN mailbox : mailbox'[i] = mailbox[j]
                                       \/ mailbox'[i] = m
  BY BoxType, SeqAppend

LEMMA UserRpcNumbers ==
  ASSUME RpcOK, now \in Nat, NEW o, Numbered(o), NEW box \in Boxes, UserRpc(box)
  PROVE  RpcOK' /\ \E x \in [1 .. session -> SUBSET Call]' : Numbered(x)'
<1> USE DEF RpcOK
<1>0. o \in [1 .. session -> SUBSET Call] /\ session \in Nat /\ Extends(o, o)
      /\ DOMAIN o = 1 .. session
  BY DEF Numbered, Extends
<1>1. box \in Seq(AnyMessage) /\ \A i \in DOMAIN box : \E j \in DOMAIN mailbox : box[i] = mailbox[j]
  BY BoxType
<1>2. CASE NoCall /\ Calm(box)
  <2>1. /\ UNCHANGED <<pendingCalls, pending, outstanding, settled>> /\ mailbox' = box
        /\ UNCHANGED <<session, pendingTimers, kernelTimers, wake>>
    BY <1>2 DEF NoCall, Calm
  <2>2. Numbered(o)'
    BY <1>0, <1>1, <2>1, NumberedKeeps
  <2>. QED  BY <1>0, <1>1, <2>1, <2>2
<1>3. CASE NoCall /\ \E at, n \in Nat : AsksWake(at, n, box)
  <2>1. PICK at \in Nat, n \in Nat : AsksWake(at, n, box)
    BY <1>3
  <2> DEFINE s == session + 1
             t == [session |-> s, fn |-> [kind |-> "wake", of |-> wake.gen + 1]]
             k == [session |-> s, at |-> now \div CS + n]
             m == [type |-> "RESPONSE", session |-> s]
  <2>2. /\ UNCHANGED <<pendingCalls, pending, outstanding, settled>>
        /\ session' = s /\ pendingTimers' = pendingTimers \cup {t}
        /\ wake' = [set |-> TRUE, at |-> at, gen |-> wake.gen + 1]
        /\ \/ mailbox' = Append(box, m) /\ UNCHANGED kernelTimers
           \/ kernelTimers' = kernelTimers \cup {k} /\ mailbox' = box
    BY <1>3, <2>1 DEF AsksWake, Timeout, NoCall
  <2>3. now \div CS \in Nat
    BY TimeAssumption, DivBelow
  <2>4. wake.gen + 1 \in Nat /\ wake' \in Wake
    BY <2>2 DEF Wake
  <2>5. t \in [session : Nat, fn : Purpose] /\ k \in [session : Nat, at : Nat] /\ m \in AnyMessage
    BY <1>0, <2>3, <2>4 DEF Purpose, AnyMessage, TimerMessage
  <2>6. PICK x \in [1 .. session + 1 -> SUBSET Call] : Extends(o, x) /\ x[s] = {}
    BY <1>0, OneMore
  <2>7. TimerNumber(x, t) /\ TimerNumber(x, k) /\ MessageNumber(x, m) /\ t.fn.kind # "timeout"
    BY <1>0, <2>6 DEF TimerNumber, MessageNumber, TimerMessage
  <2> HIDE DEF t, k, m
  <2>8. mailbox' \in Seq(AnyMessage)
        /\ \A i \in DOMAIN mailbox' : \/ \E j \in DOMAIN mailbox : mailbox'[i] = mailbox[j]
                                      \/ mailbox'[i] = m
    BY <1>1, <2>2, <2>5, PostedBox
  <2>9. Numbered(x)'
    BY <2>2, <2>6, <2>7, <2>8, NumberedKeeps
  <2>. QED  BY <1>0, <2>2, <2>4, <2>5, <2>6, <2>8, <2>9
<1>4. ASSUME NEW c \in Call, Fails(c, box) \/ CallsService(c, box)
      PROVE  RpcOK' /\ \E x \in [1 .. session -> SUBSET Call]' : Numbered(x)'
  <2> DEFINE p == Numbers(c)
  <2>1. /\ session' = session + 1 /\ mailbox' = box
        /\ pendingCalls' = pendingCalls \/ (c \in LocalCall /\ pendingCalls' = pendingCalls \cup {p})
        /\ outstanding' = outstanding \/ outstanding' = outstanding \cup {p}
        /\ UNCHANGED <<wake, pending, pendingTimers, kernelTimers>>
    BY <1>4 DEF Fails, CallsService
  <2>2. p \in Entry(Call) /\ (c \in LocalCall => p \in Entry(LocalCall))
    BY <1>0 DEF Numbers, Entry
  <2>3. PICK x \in [1 .. session + 1 -> SUBSET Call] : Extends(o, x) /\ x[session + 1] = {c}
    BY ZenonT(40), <1>0, OneMore
  <2>4. CallNumber(x, p)
    BY <1>0, <2>3 DEF CallNumber, Numbers
  <2> HIDE DEF p
  <2>5. Numbered(x)'
    BY <1>1, <2>1, <2>3, <2>4, NumberedKeeps
  <2>. QED  BY <1>0, <1>1, <2>1, <2>2, <2>3, <2>5
<1>5. ASSUME NEW c \in Call, CallsCluster(c, box)
      PROVE  RpcOK' /\ \E x \in [1 .. session -> SUBSET Call]' : Numbered(x)'
  <2> DEFINE p == Numbers(c)
             t == [session |-> session + 2, fn |-> [kind |-> "timeout", of |-> p]]
             k == [session |-> session + 2, at |-> now \div CS + ClusterTimeout]
  <2>1. /\ session' = session + 2 /\ mailbox' = box /\ c \in ClusterCall
        /\ pending' = pending \cup {p} /\ outstanding' = outstanding \cup {p}
        /\ pendingTimers' = pendingTimers \cup {t} /\ kernelTimers' = kernelTimers \cup {k}
        /\ UNCHANGED <<wake, pendingCalls>>
    BY <1>5 DEF CallsCluster
  <2>2. now \div CS \in Nat
    BY TimeAssumption, DivBelow
  <2>3. p \in Entry(Call) /\ p \in Entry(ClusterCall)
    BY <1>0, <2>1 DEF Numbers, Entry
  <2>4. k \in [session : Nat, at : Nat] /\ t \in [session : Nat, fn : Purpose]
    BY <1>0, <2>2, <2>3, TimeAssumption DEF Purpose
  <2>5. PICK y \in [1 .. session + 1 -> SUBSET Call] : Extends(o, y) /\ y[session + 1] = {c}
    BY ZenonT(40), <1>0, OneMore
  <2>6. PICK x \in [1 .. (session + 1) + 1 -> SUBSET Call] :
          Extends(y, x) /\ x[(session + 1) + 1] = {}
    <3> DEFINE n == session + 1
    <3>1. n \in Nat /\ y \in [1 .. n -> SUBSET Call]
      BY <1>0, <2>5
    <3> HIDE DEF n
    <3>2. \E x \in [1 .. n + 1 -> SUBSET Call] : Extends(y, x) /\ x[n + 1] = {}
      BY <3>1, OneMore
    <3>. QED  BY <3>2 DEF n
  <2>7. x \in [1 .. session + 2 -> SUBSET Call] /\ Extends(o, x)
        /\ x[session + 1] = {c} /\ x[session + 2] = {}
    BY <1>0, <2>5, <2>6 DEF Extends
  <2>8. CallNumber(x, p) /\ TimerNumber(x, t) /\ TimerNumber(x, k) /\ t.fn.of = p
    BY <1>0, <2>7 DEF CallNumber, TimerNumber, Numbers
  <2> HIDE DEF p, t, k
  <2>9. Numbered(x)'
    BY <1>1, <2>1, <2>7, <2>8, NumberedKeeps
  <2>. QED  BY <1>0, <1>1, <2>1, <2>3, <2>4, <2>7, <2>9
<1>. QED  BY <1>2, <1>3, <1>4, <1>5 DEF UserRpc, Schedules

\* The answer that settles call p is to call p, under p's own number.
LEMMA OwnAnswer ==
  ASSUME RpcOK, NEW o, Numbered(o), NEW p \in pendingCalls \cup pending,
         mailbox # <<>>, Message.type \in {"RESPONSE", "ERROR"}, p.session = Message.session
  PROVE  Message.of = p.call
<1>1. MessageNumber(o, Message)
  BY SeqTail DEF RpcOK, Numbered, Message
<1>2. o[p.session] = {p.call}
  BY DEF Numbered, CallNumber
<1>3. Message \notin RequestMessage
  BY DEF RequestMessage
<1>. QED  BY <1>1, <1>2, <1>3 DEF MessageNumber, TimerNumber

LEMMA RpcNumbers ==
  ASSUME RpcOK, LoopOK, RpcMove, NEW o \in [1 .. session -> SUBSET Call], Numbered(o)
  PROVE  RpcOK' /\ \E x \in [1 .. session -> SUBSET Call]' : Numbered(x)'
<1> USE DEF RpcOK
<1>0. o \in [1 .. session -> SUBSET Call] /\ session \in Nat /\ Extends(o, o)
      /\ now \in Nat /\ mailbox \in Seq(AnyMessage) /\ mailbox \in Boxes
  BY DEF Numbered, Extends, LoopOK, Boxes
<1>1. CASE UserRpc(mailbox) \/ (mailbox # <<>> /\ UserRpc(Tail(mailbox)))
  <2>1. PICK box \in Boxes : UserRpc(box)
    BY <1>1 DEF Boxes
  <2>. QED  BY <1>0, <2>1, UserRpcNumbers
<1>2. CASE (\E p \in pendingCalls \cup pending : CallSettled(p)) \/ Dropped
           \/ (\E p \in pending : CallLost(p)) \/ \E t \in pendingTimers : TimerEnded(t)
  <2>1. Taken /\ UNCHANGED <<session, kernelTimers, outstanding>>
        /\ pendingTimers' \subseteq pendingTimers
        /\ pendingCalls' \subseteq pendingCalls /\ pending' \subseteq pending
        /\ (wake' = wake \/ wake' = [wake EXCEPT !.set = FALSE, !.at = 0])
    BY <1>2 DEF CallSettled, CallLost, Dropped, TimerEnded, CallTimedOut, WokenUp
  <2>2. mailbox' \in Seq(AnyMessage)
        /\ \A i \in DOMAIN mailbox' : \E j \in DOMAIN mailbox : mailbox'[i] = mailbox[j]
    BY <1>0, <2>1, SeqTail DEF Taken
  <2>3. wake' \in Wake
    <3>1. \A w \in Wake : [w EXCEPT !.set = FALSE, !.at = 0] \in Wake
      BY DEF Wake
    <3>. QED  BY <2>1, <3>1
  <2>4. Numbered(o)'
    BY <1>0, <2>1, <2>2, NumberedKeeps
  <2>. QED  BY <1>0, <2>1, <2>2, <2>3, <2>4
<1>3. ASSUME NEW m \in AnyMessage, MessageNumber(o, m), mailbox' = Append(mailbox, m), Asleep,
             kernelTimers' \subseteq kernelTimers, outstanding' \subseteq outstanding
      PROVE  RpcOK' /\ \E x \in [1 .. session -> SUBSET Call]' : Numbered(x)'
  <2>1. mailbox' \in Seq(AnyMessage)
        /\ \A i \in DOMAIN mailbox' : \/ \E j \in DOMAIN mailbox : mailbox'[i] = mailbox[j]
                                      \/ mailbox'[i] = m
    BY <1>0, <1>3, PostedBox
  <2>2. UNCHANGED <<wake, session, pendingTimers, pendingCalls, pending>>
    BY <1>3 DEF Asleep
  <2>3. Numbered(o)'
    BY <1>0, <1>3, <2>1, <2>2, NumberedKeeps
  <2>. QED  BY <1>0, <1>3, <2>1, <2>2, <2>3
<1>4. ASSUME NEW k \in kernelTimers, Posted(k)
      PROVE  RpcOK' /\ \E x \in [1 .. session -> SUBSET Call]' : Numbered(x)'
  <2> DEFINE m == [type |-> "RESPONSE", session |-> k.session]
  <2>1. TimerNumber(o, k)
    BY DEF Numbered
  <2>2. m \in TimerMessage
    BY DEF TimerMessage
  <2>3. MessageNumber(o, m) /\ m \in AnyMessage
    BY <2>1, <2>2 DEF MessageNumber, TimerNumber, AnyMessage
  <2>. QED  BY <1>3, <1>4, <2>3 DEF Posted
<1>5. ASSUME NEW r \in Request, Sent(r)
      PROVE  RpcOK' /\ \E x \in [1 .. session -> SUBSET Call]' : Numbered(x)'
  <2> DEFINE m == [type |-> "REQUEST", request |-> r]
  <2>1. m \in RequestMessage
    BY DEF RequestMessage
  <2>2. MessageNumber(o, m) /\ m \in AnyMessage
    BY <2>1 DEF MessageNumber, AnyMessage
  <2>. QED  BY <1>3, <1>5, <2>2 DEF Sent
<1>6. ASSUME NEW p \in outstanding, Answered(p)
      PROVE  RpcOK' /\ \E x \in [1 .. session -> SUBSET Call]' : Numbered(x)'
  <2>1. PICK type \in {"RESPONSE", "ERROR"} :
          mailbox' = Append(mailbox, [type |-> type, session |-> p.session, of |-> p.call])
    BY <1>6 DEF Answered
  <2> DEFINE m == [type |-> type, session |-> p.session, of |-> p.call]
  <2>2. CallNumber(o, p) /\ p.session \in Nat /\ p.call \in Call
    BY DEF Numbered, Entry
  <2>3. m \in AnswerMessage
    BY <2>2 DEF AnswerMessage
  <2>4. MessageNumber(o, m) /\ m \in AnyMessage
    BY <2>2, <2>3 DEF MessageNumber, CallNumber, AnyMessage
  <2>. QED  BY <1>3, <1>6, <2>1, <2>4 DEF Answered
<1>. QED  BY <1>1, <1>2, <1>4, <1>5, <1>6 DEF RpcMove

LEMMA SettledFor ==
  ASSUME Awaited, NEW p \in pendingCalls \cup pending, p.call \in Call, NEW how \in Outcome,
         settled' = Settled(p.call, how, p.call),
         pendingCalls' \subseteq pendingCalls \ {p}, pending' \subseteq pending \ {p}, UNCHANGED lost
  PROVE  Awaited'
<1> USE DEF Awaited
<1>1. settled[p.call] = <<>>
  OBVIOUS
<1>2. settled' = [settled EXCEPT ![p.call] = <<[how |-> how, of |-> p.call]>>]
  BY <1>1 DEF Settled
<1>3. \A q \in (pendingCalls \cup pending)' : q.call # p.call /\ q \in pendingCalls \cup pending
  OBVIOUS
<1>4. \A q \in (pendingCalls \cup pending)' : settled'[q.call] = <<>>
  BY <1>2, <1>3
<1>5. \A c \in Call : settled'[c] = <<>> \/ \E h \in Outcome : settled'[c] = <<[how |-> h, of |-> c]>>
  <2> SUFFICES ASSUME NEW c \in Call
               PROVE  settled'[c] = <<>> \/ \E h \in Outcome : settled'[c] = <<[how |-> h, of |-> c]>>
    OBVIOUS
  <2>1. CASE c = p.call
    BY <1>2, <2>1
  <2>2. CASE c # p.call
    BY <1>2, <2>2
  <2>. QED  BY <2>1, <2>2
<1>6. settled' \in [Call -> Seq([how : Outcome, of : Call])]
  <2>1. <<[how |-> how, of |-> p.call]>> \in Seq([how : Outcome, of : Call])
    OBVIOUS
  <2>. QED  BY <1>2, <2>1
<1>7. \A c \in lost' : settled'[c] = <<>> /\ \A q \in (pendingCalls \cup pending)' : q.call # c
  <2>1. \A c \in lost : c # p.call
    OBVIOUS
  <2>. QED  BY <1>2, <1>3, <2>1
<1>. QED  BY <1>3, <1>4, <1>5, <1>6, <1>7

LEMMA AwaitedStep ==
  ASSUME RpcOK, Awaited, RpcMove, NEW o \in [1 .. session -> SUBSET Call], Numbered(o)
  PROVE  Awaited'
<1> USE DEF RpcOK
<1>0. \A p \in pendingCalls \cup pending : p \in Entry(Call) /\ p.call \in Call /\ p.session \in Nat
  BY DEF Entry, Call
<1>1. ASSUME NEW box, UserRpc(box) PROVE Awaited'
  <2>1. CASE NoCall
    BY <2>1 DEF NoCall, Awaited
  <2>2. ASSUME NEW c \in Call, Fails(c, box) PROVE Awaited'
    <3>1. settled[c] = <<>> /\ \A q \in pendingCalls \cup pending : q.call # c
      BY <2>2 DEF Fails, Unused
    <3>2. settled' = [settled EXCEPT ![c] = <<[how |-> "notsent", of |-> c]>>]
          /\ UNCHANGED <<pendingCalls, pending>>
      BY <2>2, <3>1 DEF Fails, Settled
    <3>3. "notsent" \in Outcome
      BY DEF Outcome
    <3>4. <<[how |-> "notsent", of |-> c]>> \in Seq([how : Outcome, of : Call])
      BY <3>3
    <3>5. settled' \in [Call -> Seq([how : Outcome, of : Call])]
      BY <3>2, <3>4 DEF Awaited
    <3>6. \A e \in Call : settled'[e] = <<>> \/
             \E how \in Outcome : settled'[e] = <<[how |-> how, of |-> e]>>
      <4> SUFFICES ASSUME NEW e \in Call
                   PROVE  settled'[e] = <<>> \/
                          \E how \in Outcome : settled'[e] = <<[how |-> how, of |-> e]>>
        OBVIOUS
      <4>1. CASE e = c
        BY <3>2, <3>3, <4>1 DEF Awaited
      <4>2. CASE e # c
        BY <3>2, <4>2 DEF Awaited
      <4>. QED  BY <4>1, <4>2
    <3>7. \A p \in pendingCalls \cup pending : settled'[p.call] = <<>>
      BY <3>1, <3>2 DEF Awaited
    <3>8. c \notin lost /\ UNCHANGED lost
      BY <2>2 DEF Fails, Unused
    <3>9. \A e \in lost' : settled'[e] = <<>>
      BY <3>2, <3>8 DEF Awaited
    <3>. QED  BY <3>2, <3>5, <3>6, <3>7, <3>8, <3>9 DEF Awaited
  <2>3. ASSUME NEW c \in Call, CallsService(c, box) \/ CallsCluster(c, box) PROVE Awaited'
    <3>1. /\ settled[c] = <<>> /\ \A q \in pendingCalls \cup pending : q.call # c
          /\ c \notin lost
      BY <2>3 DEF CallsService, CallsCluster, Unused
    <3>2. UNCHANGED <<settled, lost>>
          /\ (pendingCalls \cup pending)' = (pendingCalls \cup pending) \cup {Numbers(c)}
      BY <2>3 DEF CallsService, CallsCluster
    <3>3. Numbers(c).call = c
      BY DEF Numbers
    <3>. QED  BY <3>1, <3>2, <3>3 DEF Awaited
  <2>. QED  BY <1>1, <2>1, <2>2, <2>3 DEF UserRpc
<1>2. ASSUME NEW p \in pendingCalls \cup pending, CallSettled(p) PROVE Awaited'
  <2>1. Message.of = p.call
    BY <1>2, OwnAnswer DEF CallSettled, Taken
  <2>2. Message.type \in Outcome
    BY <1>2 DEF CallSettled, Outcome
  <2>. QED  BY <1>0, <1>2, <2>1, <2>2, SettledFor DEF CallSettled
<1>3. ASSUME NEW t \in pendingTimers, TimerEnded(t) PROVE Awaited'
  <2>1. CASE UNCHANGED <<pending, settled>>
    BY <1>3, <2>1 DEF TimerEnded, Awaited
  <2>2. CASE ~UNCHANGED <<pending, settled>>
    <3>1. /\ t.fn.kind = "timeout" /\ With(pending, t.fn.of.session) # {}
          /\ pending' = pending \ {t.fn.of} /\ UNCHANGED pendingCalls
          /\ settled' = Settled(t.fn.of.call, "timeout", t.fn.of.call) /\ UNCHANGED lost
      BY <1>3, <2>2 DEF TimerEnded, CallTimedOut, WokenUp
    <3>2. PICK p \in pending : p.session = t.fn.of.session
      BY <3>1 DEF With
    <3>3. o[p.session] = {p.call} /\ o[t.fn.of.session] = {t.fn.of.call}
      BY <3>1 DEF Numbered, CallNumber
    <3>4. p.call = t.fn.of.call
      BY <3>2, <3>3
    <3>5. t.fn \in Purpose
      OBVIOUS
    <3>6. t.fn.of \in Entry(ClusterCall)
      BY <3>1, <3>5 DEF Purpose
    <3>7. p = t.fn.of
      <4>1. p \in Entry(ClusterCall)
        OBVIOUS
      <4>. QED  BY <3>2, <3>4, <3>6, <4>1 DEF Entry
    <3>8. p \notin pendingCalls
      <4>1. p.call \in ClusterCall
        BY DEF Entry
      <4>. QED  BY <4>1, CallAssumption DEF Entry
    <3>9. "timeout" \in Outcome
      BY DEF Outcome
    <3>. QED  BY <1>0, <3>1, <3>7, <3>8, <3>9, SettledFor
  <2>. QED  BY <2>1, <2>2
<1>4. CASE Dropped \/ (\E k \in kernelTimers : Posted(k))
           \/ (\E r \in Request : Sent(r)) \/ (\E p \in outstanding : Answered(p))
  BY <1>4 DEF Dropped, Posted, Sent, Answered, Asleep, Awaited
<1>5. ASSUME NEW p \in pending, CallLost(p) PROVE Awaited'
  <2>1. settled[p.call] = <<>> /\ \A q \in (pendingCalls \cup pending) \ {p} : q.call # p.call
    BY DEF Awaited
  <2>2. p \notin pendingCalls
    <3>1. p.call \in ClusterCall
      BY DEF Entry
    <3>. QED  BY <3>1, CallAssumption DEF Entry
  <2>. QED  BY <1>5, <2>1, <2>2 DEF CallLost, Awaited
<1>. QED  BY <1>1, <1>2, <1>3, <1>4, <1>5 DEF RpcMove

LEMMA CallsStep ==
  ASSUME CallsInv, HandlesInv, [Next]_vars
  PROVE  CallsInv'
<1>1. PICK o \in [1 .. session -> SUBSET Call] : Numbered(o)
  BY DEF CallsInv
<1>2. RpcMove
  BY RpcMoves DEF CallsInv, HandlesInv
<1>3. RpcOK' /\ \E x \in [1 .. session -> SUBSET Call]' : Numbered(x)'
  BY <1>1, <1>2, RpcNumbers DEF CallsInv, HandlesInv
<1>4. Awaited'
  BY <1>1, <1>2, AwaitedStep DEF CallsInv
<1>. QED  BY <1>3, <1>4 DEF CallsInv

LEMMA CallsInit == Init => CallsInv
<1> SUFFICES ASSUME Init PROVE CallsInv
  OBVIOUS
<1>1. RpcOK
  BY DEF Init, RpcOK, Wake
<1>2. \E o \in [1 .. session -> SUBSET Call] : Numbered(o)
  <2> DEFINE o == [s \in 1 .. session |-> {}]
  <2>1. o \in [1 .. session -> SUBSET Call]
    OBVIOUS
  <2>2. Numbered(o)
    BY <2>1 DEF Init, Numbered
  <2>. QED  BY <2>1, <2>2
<1>3. Awaited
  BY DEF Init, Awaited
<1>. QED  BY <1>1, <1>2, <1>3 DEF CallsInv

LEMMA CallsSettledOnce == CallsInv => SettledOnce
<1> SUFFICES ASSUME CallsInv PROVE SettledOnce
  OBVIOUS
<1>1. \A c \in Call : settled[c] = <<>> \/ \E how \in Outcome : settled[c] = <<[how |-> how, of |-> c]>>
  BY DEF CallsInv, Awaited
<1>2. \A c \in Call : Len(settled[c]) <= 1 /\ \A i \in DOMAIN settled[c] : settled[c][i].of = c
  <2> SUFFICES ASSUME NEW c \in Call
               PROVE  Len(settled[c]) <= 1 /\ \A i \in DOMAIN settled[c] : settled[c][i].of = c
    OBVIOUS
  <2>1. CASE settled[c] = <<>>
    BY <2>1
  <2>2. CASE \E how \in Outcome : settled[c] = <<[how |-> how, of |-> c]>>
    BY <2>2
  <2>. QED  BY <1>1, <2>1, <2>2
<1>3. \A p \in pendingCalls \cup pending : settled[p.call] = <<>>
  BY DEF CallsInv, Awaited
<1>4. \A c \in lost : settled[c] = <<>> /\ \A p \in pending : p.call # c
  BY DEF CallsInv, Awaited
<1>. QED  BY <1>2, <1>3, <1>4 DEF SettledOnce

\* Everything a reader of the service's tables may rely on.
ServiceInv == HandlesInv /\ CallsInv

LEMMA ServiceInvariant == Spec => []ServiceInv
<1>1. Init => ServiceInv
  BY HandlesInit, CallsInit DEF ServiceInv
<1>2. ServiceInv /\ [Next]_vars => ServiceInv'
  BY HandlesStep, CallsStep DEF ServiceInv
<1>. QED  BY <1>1, <1>2, PTL DEF Spec

\* Whatever calls time out, fail to be sent or are answered late: a promise is
\* settled once, by the answer to its own call or by its own timeout.
THEOREM CallsAreSettledOnce == Spec => []SettledOnce
<1>1. ServiceInv => SettledOnce
  BY CallsSettledOnce DEF ServiceInv
<1>. QED  BY <1>1, ServiceInvariant, PTL
-----------------------------------------------------------------------------
(* Requests and their replies.                                             *)

LEMMA OnceEach ==
  ASSUME NEW box
  PROVE  Once(box) <=>
             \A i, j \in DOMAIN box : \A r : Holds(box, i, r) /\ Holds(box, j, r) => i = j
  BY DEF Once, Holds

LEMMA TailOnce ==
  ASSUME mailbox \in Seq(AnyMessage), mailbox # <<>>, Once(mailbox)
  PROVE  /\ Once(Tail(mailbox))
         /\ \A r : Waits(Tail(mailbox), r) => Waits(mailbox, r)
         /\ Message.type = "REQUEST" => Waits(mailbox, Message.request)
                                        /\ ~Waits(Tail(mailbox), Message.request)
<1>1. /\ Head(mailbox) = mailbox[1] /\ 1 \in DOMAIN mailbox
      /\ \A i \in DOMAIN Tail(mailbox) : i + 1 \in DOMAIN mailbox
                                         /\ Tail(mailbox)[i] = mailbox[i + 1]
      /\ \A i \in DOMAIN Tail(mailbox) : i \in Nat \ {0}
  BY SeqTail
<1>2. \A i \in DOMAIN Tail(mailbox) : \A r :
          Holds(Tail(mailbox), i, r) => Holds(mailbox, i + 1, r)
  BY <1>1 DEF Holds
<1>3. Once(Tail(mailbox))
  <2> SUFFICES ASSUME NEW i \in DOMAIN Tail(mailbox), NEW j \in DOMAIN Tail(mailbox), NEW r,
                      Holds(Tail(mailbox), i, r), Holds(Tail(mailbox), j, r)
               PROVE  i = j
    BY OnceEach
  <2>1. i + 1 = j + 1
    BY <1>1, <1>2, OnceEach
  <2>. QED  BY <1>1, <2>1
<1>4. \A r : Waits(Tail(mailbox), r) => Waits(mailbox, r)
  BY <1>1, <1>2 DEF Waits
<1>5. ASSUME Message.type = "REQUEST"
      PROVE  Waits(mailbox, Message.request) /\ ~Waits(Tail(mailbox), Message.request)
  <2>1. Holds(mailbox, 1, Message.request)
    BY <1>1, <1>5 DEF Holds, Message
  <2>2. ASSUME NEW i \in DOMAIN Tail(mailbox), Holds(Tail(mailbox), i, Message.request) PROVE FALSE
    <3>1. i + 1 = 1
      BY <1>1, <1>2, <2>1, <2>2, OnceEach
    <3>. QED  BY <1>1, <3>1
  <2>. QED  BY <1>1, <2>1, <2>2 DEF Waits
<1>. QED  BY <1>3, <1>4, <1>5

LEMMA AppendOnce ==
  ASSUME NEW box \in Seq(AnyMessage), NEW m \in AnyMessage, Once(box),
         m.type = "REQUEST" => ~Waits(box, m.request)
  PROVE  /\ Once(Append(box, m))
         /\ \A r : Waits(Append(box, m), r) =>
                Waits(box, r) \/ (m.type = "REQUEST" /\ m.request = r)
<1> DEFINE a == Append(box, m)
           n == Len(box) + 1
<1>1. /\ DOMAIN a = DOMAIN box \cup {n} /\ \A i \in DOMAIN box : a[i] = box[i]
      /\ a[n] = m
  BY SeqAppend
<1> HIDE DEF a
<1>2. \A i \in DOMAIN box : \A r : Holds(a, i, r) <=> Holds(box, i, r)
  BY <1>1 DEF Holds
<1>3. \A r : Holds(a, n, r) => m.type = "REQUEST" /\ m.request = r
  BY <1>1 DEF Holds
<1> HIDE DEF n
<1>4. Once(a)
  BY <1>1, <1>2, <1>3, OnceEach DEF Waits
<1>5. \A r : Waits(a, r) => Waits(box, r) \/ (m.type = "REQUEST" /\ m.request = r)
  BY <1>1, <1>2, <1>3 DEF Waits
<1>. QED  BY <1>4, <1>5 DEF a

\* A step leaves box in the mailbox and posts at most a kernel's or a
\* service's answer after it.
Posts(box) == mailbox' = box \/ \E m \in AnyMessage : m.type # "REQUEST" /\ mailbox' = Append(box, m)

LEMMA PostsOnce ==
  ASSUME NEW box \in Seq(AnyMessage), Once(box), Posts(box)
  PROVE  Once(mailbox)' /\ \A r : Waits(mailbox', r) => Waits(box, r)
<1>1. ASSUME NEW m \in AnyMessage, m.type # "REQUEST"
      PROVE  Once(Append(box, m)) /\ \A r : Waits(Append(box, m), r) => Waits(box, r)
  BY <1>1, AppendOnce
<1>2. Once(mailbox') /\ \A r : Waits(mailbox', r) => Waits(box, r)
  BY <1>1 DEF Posts
<1>. QED  BY <1>2 DEF Once, Holds

LEMMA UserPosts ==
  ASSUME LoopOK, RpcOK, NEW l, Sound(l), NEW box, UserCode(l, box)
  PROVE  Posts(box)
<1>1. UserRpc(box)
  BY UserRpcMoves DEF LoopOK, RpcOK
<1>2. CASE mailbox' = box
  BY <1>2 DEF Posts
<1>3. CASE \E at, n \in Nat : AsksWake(at, n, box)
  <2> DEFINE m == [type |-> "RESPONSE", session |-> session + 1]
  <2>1. m \in AnyMessage /\ m.type # "REQUEST"
    BY DEF AnyMessage, TimerMessage, RpcOK
  <2>2. mailbox' = Append(box, m) \/ mailbox' = box
    BY <1>3 DEF AsksWake, Timeout
  <2> HIDE DEF m
  <2>. QED  BY <2>1, <2>2 DEF Posts
<1>. QED  BY <1>1, <1>2, <1>3 DEF UserRpc, Schedules, Calm, Fails, CallsService, CallsCluster

\* How a step moves the requests.
Unasked == UNCHANGED <<replies, open>>
RequestMove ==
    \/ \E box \in Boxes : Posts(box) /\ (Unasked \/ (FinishRequest))
    \/ /\ mailbox # <<>> /\ Message.type = "REQUEST" /\ Posts(Tail(mailbox))
       /\ \/ Reply(Message.request) /\ UNCHANGED open
          \/ open' = open \cup {Message.request} /\ UNCHANGED replies
    \/ \E r \in Request : /\ replies[r] = <<>> /\ r \notin open /\ ~Waits(mailbox, r)
                          /\ mailbox' = Append(mailbox, [type |-> "REQUEST", request |-> r])
                          /\ Unasked

LEMMA RequestMoves ==
  ASSUME HandlesInv, RpcOK, [Next]_vars
  PROVE  RequestMove
<1>0. LoopOK /\ Sound(loop) /\ mailbox \in Boxes /\ mailbox \in Seq(AnyMessage)
  BY DEF HandlesInv, LoopOK, Boxes, RpcOK
<1>1. ASSUME NEW l, Sound(l), Continuation(l) PROVE RequestMove
  <2>1. Posts(mailbox) /\ (FinishRequest \/ Unasked)
    BY <1>0, <1>1, UserPosts DEF Continuation, Unasked
  <2>. QED  BY <1>0, <2>1 DEF RequestMove
<1>2. ASSUME UNCHANGED mailbox, Unasked PROVE RequestMove
  BY <1>0, <1>2 DEF RequestMove, Posts
<1>3. CASE RunMain
  <2>1. UserCode(loop, mailbox) /\ Unasked
    BY <1>3 DEF RunMain, Unasked
  <2>. QED  BY <1>0, <2>1, UserPosts DEF RequestMove
<1>4. CASE OnRequest
  <2>1. UserCode(loop, Tail(mailbox)) /\ mailbox # <<>> /\ Message.type = "REQUEST"
        /\ (\/ Reply(Message.request) /\ UNCHANGED open
            \/ open' = open \cup {Message.request} /\ UNCHANGED replies)
    BY <1>4 DEF OnRequest, Received
  <2>. QED  BY <1>0, <2>1, UserPosts DEF RequestMove
<1>5. CASE OnAnswer \/ OnTimeout
  <2>1. mailbox # <<>> /\ mailbox' = Tail(mailbox) /\ Unasked
    BY <1>5 DEF OnAnswer, OnTimeout, Received, OnClusterAnswer, Settles, NotUnpacked, Unasked
  <2>2. Tail(mailbox) \in Boxes
    BY <2>1 DEF Boxes
  <2>. QED  BY <2>1, <2>2 DEF RequestMove, Posts
<1>6. CASE RunNextTick
  <2>1. Continuation([loop EXCEPT !.ticks = @ - 1]) /\ loop.ticks > 0
    BY <1>6 DEF RunNextTick
  <2>. QED  BY <1>0, <1>1, <2>1, CountersChanged
<1>7. CASE RunJob
  <2>1. Continuation([loop EXCEPT !.jobs = @ - 1]) /\ loop.jobs > 0
    BY <1>7 DEF RunJob
  <2>. QED  BY <1>0, <1>1, <2>1, CountersChanged
<1>8. CASE RunImmediate
  <2>1. Continuation(loop) \/ (UNCHANGED mailbox /\ Unasked)
    BY <1>8 DEF RunImmediate, Skip, rpcVars, Unasked
  <2>. QED  BY <1>0, <1>1, <1>2, <2>1
<1>9. CASE RunTimer
  <2>1. PICK b \in batch : Continuation(Started(b.id)) \/ (UNCHANGED mailbox /\ Unasked)
    BY <1>9 DEF RunTimer, Skip, rpcVars, Unasked
  <2>2. b.id \in DOMAIN loop.handles
    BY DEF HandlesInv, BatchOK
  <2>3. Sound(Started(b.id))
    BY <1>0, <2>2, StartedSound
  <2>. QED  BY <1>1, <1>2, <2>1, <2>3
<1>10. CASE StartImmediates \/ StartTimers \/ Elapse \/ UNCHANGED vars
  <2>1. UNCHANGED mailbox /\ Unasked
    BY <1>10 DEF StartImmediates, StartTimers, Elapse, Quiescent, loopVars, rpcVars, vars, Unasked
  <2>. QED  BY <1>2, <2>1
<1>11. CASE EndTick
  <2>1. ScheduleWake(loop, wake, mailbox) /\ Unasked
    BY <1>11 DEF EndTick, Unasked
  <2>2. Schedules(mailbox)
    BY <1>0, <2>1, ScheduleMoves DEF LoopOK, RpcOK
  <2>3. CASE mailbox' = mailbox
    BY <1>2, <2>1, <2>3
  <2>4. CASE \E at, n \in Nat : AsksWake(at, n, mailbox)
    <3> DEFINE m == [type |-> "RESPONSE", session |-> session + 1]
    <3>1. m \in AnyMessage /\ m.type # "REQUEST"
      BY DEF AnyMessage, TimerMessage, RpcOK
    <3>2. mailbox' = Append(mailbox, m) \/ mailbox' = mailbox
      BY <2>4 DEF AsksWake, Timeout
    <3> HIDE DEF m
    <3>. QED  BY <1>0, <2>1, <3>1, <3>2 DEF RequestMove, Posts
  <2>. QED  BY <2>2, <2>3, <2>4 DEF Schedules, Calm
<1>12. ASSUME NEW k \in kernelTimers, Expire(k) PROVE RequestMove
  <2> DEFINE m == [type |-> "RESPONSE", session |-> k.session]
  <2>1. m \in AnyMessage /\ m.type # "REQUEST"
    BY DEF AnyMessage, TimerMessage, RpcOK
  <2>2. mailbox' = Append(mailbox, m) /\ Unasked
    BY <1>12 DEF Expire, Quiescent, Unasked
  <2> HIDE DEF m
  <2>. QED  BY <1>0, <2>1, <2>2 DEF RequestMove, Posts
<1>13. ASSUME NEW r \in Request, Arrive(r) PROVE RequestMove
  <2>1. /\ replies[r] = <<>> /\ r \notin open /\ Unasked
        /\ \A i \in DOMAIN mailbox : mailbox[i] # [type |-> "REQUEST", request |-> r]
        /\ mailbox' = Append(mailbox, [type |-> "REQUEST", request |-> r])
    BY <1>13 DEF Arrive, Quiescent, Unasked
  <2>2. ~Waits(mailbox, r)
    <3> SUFFICES ASSUME NEW i \in DOMAIN mailbox, Holds(mailbox, i, r) PROVE FALSE
      BY DEF Waits
    <3>1. mailbox[i] \in AnyMessage /\ mailbox[i].type = "REQUEST" /\ mailbox[i].request = r
      BY <1>0 DEF Holds
    <3>2. mailbox[i] \in RequestMessage
      BY <3>1 DEF AnyMessage, TimerMessage, AnswerMessage
    <3>3. mailbox[i] = [type |-> "REQUEST", request |-> r]
      BY <3>1, <3>2 DEF RequestMessage
    <3>. QED  BY <2>1, <3>3
  <2>. QED  BY <2>1, <2>2 DEF RequestMove
<1>14. ASSUME NEW p \in outstanding, Answer(p) PROVE RequestMove
  <2>1. PICK type \in {"RESPONSE", "ERROR"} :
          mailbox' = Append(mailbox, [type |-> type, session |-> p.session, of |-> p.call])
    BY <1>14 DEF Answer
  <2>2. Unasked
    BY <1>14 DEF Answer, Quiescent, Unasked
  <2> DEFINE m == [type |-> type, session |-> p.session, of |-> p.call]
  <2>3. m \in AnyMessage /\ m.type # "REQUEST"
    BY DEF AnyMessage, AnswerMessage, RpcOK, Entry
  <2>4. mailbox' = Append(mailbox, m)
    BY <2>1
  <2> HIDE DEF m
  <2>. QED  BY <1>0, <2>2, <2>3, <2>4 DEF RequestMove, Posts
<1>. QED  BY <1>3, <1>4, <1>5, <1>6, <1>7, <1>8, <1>9, <1>10, <1>11, <1>12, <1>13, <1>14
          DEF Next, Service, Receive, Tick, Kernel, Others

LEMMA ReplySends ==
  ASSUME RequestsInv, NEW r \in Request, replies[r] = <<>>, Reply(r)
  PROVE  /\ replies' \in [Request -> Seq({"RESPONSE", "ERROR"})]
         /\ \A q \in Request : Len(replies'[q]) <= 1
         /\ \A q \in Request \ {r} : replies'[q] = replies[q]
<1>1. PICK how \in {"RESPONSE", "ERROR"} : replies' = [replies EXCEPT ![r] = Append(@, how)]
  BY DEF Reply
<1>2. replies \in [Request -> Seq({"RESPONSE", "ERROR"})]
  BY DEF RequestsInv
<1>3. Append(replies[r], how) \in Seq({"RESPONSE", "ERROR"}) /\ Len(Append(replies[r], how)) = 1
  BY <1>2
<1>4. replies'[r] = Append(replies[r], how)
  BY <1>1, <1>2
<1>5. \A q \in Request \ {r} : replies'[q] = replies[q]
  BY <1>1, <1>2
<1>6. \A q \in Request : Len(replies[q]) <= 1
  BY DEF RequestsInv, RepliedOnce
<1>7. Len(replies'[r]) <= 1
  BY <1>3, <1>4
<1>8. \A q \in Request : Len(replies'[q]) <= 1
  BY <1>5, <1>6, <1>7
<1>. QED  BY <1>1, <1>2, <1>3, <1>5, <1>8

LEMMA BoxOnce ==
  ASSUME RpcOK, Once(mailbox), NEW box \in Boxes
  PROVE  /\ box \in Seq(AnyMessage) /\ Once(box)
         /\ \A r : Waits(box, r) => Waits(mailbox, r)
  BY BoxType, TailOnce DEF Boxes, RpcOK

LEMMA RequestsStep ==
  ASSUME RequestsInv, RpcOK, RequestMove
  PROVE  RequestsInv'
<1> USE DEF RequestsInv
<1>0. \A r \in Request : /\ Len(replies[r]) <= 1 /\ (r \in open => replies[r] = <<>>)
                         /\ (Waits(mailbox, r) => replies[r] = <<>> /\ r \notin open)
  BY DEF RepliedOnce, Unreplied
<1>1. ASSUME NEW box \in Boxes, Posts(box), Unasked \/ FinishRequest PROVE RequestsInv'
  <2>1. Once(mailbox)' /\ \A r : Waits(mailbox', r) => Waits(mailbox, r)
    BY <1>1, BoxOnce, PostsOnce
  <2>2. CASE Unasked
    BY <1>0, <2>1, <2>2 DEF Unasked, RepliedOnce, Unreplied, Waits, Holds
  <2>3. CASE FinishRequest
    <3>1. PICK q \in open : Reply(q) /\ open' = open \ {q}
      BY <2>3 DEF FinishRequest
    <3>2. q \in Request /\ replies[q] = <<>> /\ ~Waits(mailbox, q)
      BY <1>0
    <3>3. /\ replies' \in [Request -> Seq({"RESPONSE", "ERROR"})]
          /\ \A r \in Request : Len(replies'[r]) <= 1
          /\ \A r \in Request \ {q} : replies'[r] = replies[r]
      BY <3>1, <3>2, ReplySends
    <3>4. RepliedOnce'
      BY <1>0, <3>1, <3>3 DEF RepliedOnce
    <3>5. Unreplied'
      BY <1>0, <2>1, <3>1, <3>2, <3>3 DEF Unreplied, Waits, Holds
    <3>. QED  BY <2>1, <3>1, <3>3, <3>4, <3>5
  <2>. QED  BY <1>1, <2>2, <2>3
<1>2. ASSUME mailbox # <<>>, Message.type = "REQUEST", Posts(Tail(mailbox)),
             \/ Reply(Message.request) /\ UNCHANGED open
             \/ open' = open \cup {Message.request} /\ UNCHANGED replies
      PROVE  RequestsInv'
  <2> DEFINE q == Message.request
  <2>0. mailbox \in Seq(AnyMessage) /\ Tail(mailbox) \in Seq(AnyMessage)
    BY <1>2, SeqTail DEF RpcOK
  <2>1. /\ Once(Tail(mailbox)) /\ Waits(mailbox, q) /\ ~Waits(Tail(mailbox), q)
        /\ \A r : Waits(Tail(mailbox), r) => Waits(mailbox, r)
    BY <1>2, <2>0, TailOnce
  <2>2. Once(mailbox)' /\ \A r : Waits(mailbox', r) => Waits(Tail(mailbox), r)
    BY <1>2, <2>0, <2>1, PostsOnce
  <2>3. q \in Request
    <3>1. Message \in AnyMessage
      BY <1>2, <2>0, SeqTail DEF Message
    <3>. QED  BY <1>2, <3>1 DEF AnyMessage, RequestMessage, TimerMessage, AnswerMessage
  <2> HIDE DEF q
  <2>4. replies[q] = <<>> /\ q \notin open
    BY <1>0, <2>1, <2>3
  <2>5. CASE Reply(q) /\ UNCHANGED open
    <3>1. /\ replies' \in [Request -> Seq({"RESPONSE", "ERROR"})]
          /\ \A r \in Request : Len(replies'[r]) <= 1
          /\ \A r \in Request \ {q} : replies'[r] = replies[r]
      BY <2>3, <2>4, <2>5, ReplySends
    <3>2. RepliedOnce'
      BY <1>0, <2>4, <2>5, <3>1 DEF RepliedOnce
    <3>3. Unreplied'
      BY ZenonT(40), <1>0, <2>1, <2>2, <2>5, <3>1 DEF Unreplied, Waits, Holds
    <3>. QED  BY <2>2, <2>5, <3>1, <3>2, <3>3
  <2>6. CASE open' = open \cup {q} /\ UNCHANGED replies
    <3>1. RepliedOnce'
      BY <1>0, <2>4, <2>6 DEF RepliedOnce
    <3>2. Unreplied'
      BY <1>0, <2>1, <2>2, <2>6 DEF Unreplied, Waits, Holds
    <3>. QED  BY <2>2, <2>3, <2>6, <3>1, <3>2
  <2>. QED  BY <1>2, <2>5, <2>6 DEF q
<1>3. ASSUME NEW q \in Request, replies[q] = <<>>, q \notin open, ~Waits(mailbox, q), Unasked,
             mailbox' = Append(mailbox, [type |-> "REQUEST", request |-> q])
      PROVE  RequestsInv'
  <2> DEFINE m == [type |-> "REQUEST", request |-> q]
  <2>1. m \in AnyMessage /\ m.type = "REQUEST" /\ m.request = q
    BY DEF AnyMessage, RequestMessage
  <2>2. mailbox' = Append(mailbox, m)
    BY <1>3
  <2> HIDE DEF m
  <2>3. Once(mailbox') /\ \A r : Waits(mailbox', r) => Waits(mailbox, r) \/ r = q
    BY <1>3, <2>1, <2>2, AppendOnce DEF RpcOK
  <2>4. RepliedOnce' /\ Unreplied'
    BY <1>0, <1>3, <2>3 DEF Unasked, RepliedOnce, Unreplied, Waits, Holds
  <2>. QED  BY <1>3, <2>3, <2>4 DEF Unasked, Once, Holds
<1>. QED  BY <1>1, <1>2, <1>3 DEF RequestMove

LEMMA RequestsInit == Init => RequestsInv
<1> SUFFICES ASSUME Init PROVE RequestsInv
  OBVIOUS
<1>1. replies = [r \in Request |-> <<>>] /\ open = {} /\ mailbox = <<>>
  BY DEF Init
<1>2. \A r \in Request : Len(replies[r]) <= 1
  BY <1>1
<1>3. replies \in [Request -> Seq({"RESPONSE", "ERROR"})]
  BY <1>1
<1>. QED  BY <1>1, <1>2, <1>3 DEF RequestsInv, RepliedOnce, Once, Unreplied, Waits

\* A request has one reply at most, whether its handler returned a value or a
\* promise, and whatever the handler did meanwhile.
THEOREM RequestsAreRepliedOnce == Spec => []RepliedOnce
<1>1. ServiceInv /\ RequestsInv /\ [Next]_vars => RequestsInv'
  BY RequestMoves, RequestsStep DEF ServiceInv, CallsInv
<1>2. RequestsInv => RepliedOnce
  BY DEF RequestsInv
<1>. QED  BY <1>1, <1>2, RequestsInit, ServiceInvariant, PTL DEF Spec
-----------------------------------------------------------------------------
(* A wake-up that is set is still to come.                                 *)

OnItsWay(t, box) == \E i \in DOMAIN box : box[i] = [type |-> "RESPONSE", session |-> t.session]
Soon(k) == k.at * CS <= CS + wake.at \/ k.at * CS <= CS + now

LEMMA ComingDef ==
  WakeComing <=>
      \E t \in pendingTimers :
          /\ t.fn = [kind |-> "wake", of |-> wake.gen]
          /\ (\E k \in kernelTimers : k.session = t.session /\ Soon(k)) \/ OnItsWay(t, mailbox)
  BY DEF WakeComing, Soon, OnItsWay

LEMMA StillComing ==
  ASSUME RpcOK, WakeComing, wake' = wake, now \in Nat, now' \in {now, now + 1},
         \A t \in pendingTimers : t.fn = [kind |-> "wake", of |-> wake.gen] =>
             /\ t \in pendingTimers'
             /\ OnItsWay(t, mailbox) => OnItsWay(t, mailbox')
             /\ \A k \in kernelTimers : k.session = t.session =>
                    k \in kernelTimers' \/ OnItsWay(t, mailbox')
  PROVE  WakeComing'
<1>1. PICK t \in pendingTimers :
        /\ t.fn = [kind |-> "wake", of |-> wake.gen]
        /\ (\E k \in kernelTimers : k.session = t.session /\ Soon(k)) \/ OnItsWay(t, mailbox)
  BY ComingDef
<1>2. \A k \in kernelTimers : Soon(k) => Soon(k)'
  <2> SUFFICES ASSUME NEW k \in kernelTimers, Soon(k) PROVE Soon(k)'
    OBVIOUS
  <2>1. k.at * CS \in Nat /\ CS \in Nat
    <3>1. k.at \in Nat /\ CS \in Nat
      BY TimeAssumption DEF RpcOK
    <3>. QED  BY <3>1
  <2>. QED  BY <2>1 DEF Soon
<1>3. /\ t \in pendingTimers' /\ t.fn = [kind |-> "wake", of |-> wake'.gen]
      /\ (\E k \in kernelTimers' : k.session = t.session /\ Soon(k)') \/ OnItsWay(t, mailbox')
  BY <1>1, <1>2
<1>4. WakeComing' <=>
      \E u \in pendingTimers' :
          /\ u.fn = [kind |-> "wake", of |-> wake'.gen]
          /\ (\E k \in kernelTimers' : k.session = u.session /\ Soon(k)') \/ OnItsWay(u, mailbox')
  BY DEF WakeComing, Soon, OnItsWay
<1>. QED  BY <1>3, <1>4

LEMMA AppendKeepsWay ==
  ASSUME NEW box \in Seq(AnyMessage), NEW m \in AnyMessage
  PROVE  /\ \A t : OnItsWay(t, box) => OnItsWay(t, Append(box, m))
         /\ \A t : m = [type |-> "RESPONSE", session |-> t.session] => OnItsWay(t, Append(box, m))
  BY SeqAppend DEF OnItsWay

LEMMA TailKeepsWay ==
  ASSUME RpcOK, mailbox # <<>>
  PROVE  \A t : OnItsWay(t, mailbox) => \/ OnItsWay(t, Tail(mailbox))
                                        \/ Message = [type |-> "RESPONSE", session |-> t.session]
<1>1. /\ Head(mailbox) = mailbox[1]
      /\ \A i \in DOMAIN mailbox : i # 1 => i - 1 \in DOMAIN Tail(mailbox)
                                            /\ Tail(mailbox)[i - 1] = mailbox[i]
  BY SeqTail DEF RpcOK
<1>. QED  BY <1>1 DEF OnItsWay, Message

LEMMA UserWake ==
  ASSUME RpcOK, Timers, wake.set => WakeComing, now \in Nat, now' \in {now, now + 1},
         NEW box \in Boxes, box = mailbox \/ Message.type = "REQUEST", UserRpc(box)
  PROVE  Timers' /\ (wake'.set => WakeComing')
<1> USE DEF RpcOK
<1>0. /\ box \in Seq(AnyMessage) /\ \A t : OnItsWay(t, mailbox) => OnItsWay(t, box)
  <2>1. CASE box = mailbox
    BY <2>1
  <2>2. CASE box # mailbox
    <3>1. box = Tail(mailbox) /\ mailbox # <<>> /\ Message.type = "REQUEST"
      BY <2>2 DEF Boxes
    <3>. QED  BY <3>1, BoxType, TailKeepsWay
  <2>. QED  BY <2>1, <2>2
<1>1. \A t \in pendingTimers : t.session \in Nat /\ session \in Nat
  OBVIOUS
<1>2. CASE Calm(box)
  <2>1. mailbox' = box /\ UNCHANGED <<session, pendingTimers, kernelTimers, wake>>
    BY <1>2 DEF Calm
  <2>2. wake'.set => WakeComing'
    BY <1>0, <2>1, StillComing
  <2>. QED  BY <2>1, <2>2 DEF Timers
<1>3. CASE \E at, n \in Nat : AsksWake(at, n, box)
  <2>1. PICK at \in Nat, n \in Nat : AsksWake(at, n, box)
    BY <1>3
  <2> DEFINE s == session + 1
             t == [session |-> s, fn |-> [kind |-> "wake", of |-> wake.gen + 1]]
             k == [session |-> s, at |-> now \div CS + n]
             m == [type |-> "RESPONSE", session |-> s]
  <2>2. /\ session' = s /\ pendingTimers' = pendingTimers \cup {t} /\ Timely(at, n)
        /\ wake' = [set |-> TRUE, at |-> at, gen |-> wake.gen + 1]
        /\ IF n = 0 THEN mailbox' = Append(box, m) ELSE kernelTimers' = kernelTimers \cup {k}
    BY <2>1 DEF AsksWake, Timeout
  <2>3. Timers'
    BY <1>1, <2>2 DEF Timers
  <2>4. WakeComing'
    <3>1. t \in pendingTimers' /\ t.fn = [kind |-> "wake", of |-> wake'.gen] /\ t.session = s
      BY <2>2
    <3>2. CASE n = 0
      <4>1. m \in AnyMessage /\ m = [type |-> "RESPONSE", session |-> t.session]
        BY DEF AnyMessage, TimerMessage
      <4>2. OnItsWay(t, mailbox')
        BY <1>0, <2>2, <3>2, <4>1, AppendKeepsWay
      <4> HIDE DEF t
      <4>. QED  BY <3>1, <4>2 DEF WakeComing, OnItsWay
    <3>3. CASE n # 0
      <4>1. k \in kernelTimers' /\ k.session = t.session
        BY <2>2, <3>3
      <4>2. k.at = now \div CS + n
        OBVIOUS
      <4>3. k.at * CS \in Nat /\ CS \in Nat
        <5>1. CS \in Nat /\ now \div CS \in Nat
          BY TimeAssumption, DivBelow
        <5>2. k.at \in Nat
          BY <5>1
        <5> HIDE DEF k
        <5>. QED  BY <5>1, <5>2
      <4>4. k.at * CS <= CS + wake'.at \/ k.at * CS <= CS + now'
        <5>1. k.at * CS <= CS + at \/ k.at * CS <= CS + now
          BY <2>2, <3>3 DEF Timely
        <5>2. wake'.at = at
          BY <2>2
        <5> HIDE DEF k
        <5>. QED  BY <4>3, <5>1, <5>2
      <4> HIDE DEF t, k
      <4>. QED  BY <3>1, <4>1, <4>4 DEF WakeComing
    <3>. QED  BY <3>2, <3>3
  <2>. QED  BY <2>3, <2>4
<1>4. ASSUME NEW c \in Call, Fails(c, box) \/ CallsService(c, box)
      PROVE  Timers' /\ (wake'.set => WakeComing')
  <2>1. mailbox' = box /\ session' = session + 1 /\ UNCHANGED <<pendingTimers, kernelTimers, wake>>
    BY <1>4 DEF Fails, CallsService
  <2>2. wake'.set => WakeComing'
    BY <1>0, <2>1, StillComing
  <2>. QED  BY <1>1, <2>1, <2>2 DEF Timers
<1>5. ASSUME NEW c \in Call, CallsCluster(c, box)
      PROVE  Timers' /\ (wake'.set => WakeComing')
  <2> DEFINE t == [session |-> session + 2, fn |-> [kind |-> "timeout", of |-> Numbers(c)]]
  <2>1. /\ mailbox' = box /\ session' = session + 2 /\ wake' = wake
        /\ pendingTimers' = pendingTimers \cup {t} /\ kernelTimers \subseteq kernelTimers'
    BY <1>5 DEF CallsCluster
  <2>2. wake'.set => WakeComing'
    BY <1>0, <2>1, StillComing
  <2>3. t.session = session + 2
    OBVIOUS
  <2> HIDE DEF t
  <2>. QED  BY <1>1, <2>1, <2>2, <2>3 DEF Timers
<1>. QED  BY <1>2, <1>3, <1>4, <1>5 DEF UserRpc, Schedules

LEMMA WakeStep ==
  ASSUME RpcOK, Timers, wake.set => WakeComing, now \in Nat, now' \in {now, now + 1}, RpcMove
  PROVE  Timers' /\ (wake'.set => WakeComing')
<1> USE DEF RpcOK
<1>1. CASE UserRpc(mailbox)
  <2>1. mailbox \in Boxes
    BY DEF Boxes
  <2>. QED  BY <1>1, <2>1, UserWake
<1>2. CASE mailbox # <<>> /\ Message.type = "REQUEST" /\ UserRpc(Tail(mailbox))
  <2>1. Tail(mailbox) \in Boxes
    BY <1>2 DEF Boxes
  <2>. QED  BY <1>2, <2>1, UserWake
<1>3. CASE (\E p \in pendingCalls \cup pending : CallSettled(p)) \/ Dropped
           \/ \E p \in pending : CallLost(p)
  <2>1. Taken /\ Foreign /\ UNCHANGED <<wake, session, pendingTimers, kernelTimers>>
    BY <1>3 DEF CallSettled, CallLost, Dropped
  <2>2. \A t \in pendingTimers : Message # [type |-> "RESPONSE", session |-> t.session]
    BY <2>1 DEF Foreign, With
  <2>3. \A t \in pendingTimers : OnItsWay(t, mailbox) => OnItsWay(t, mailbox')
    BY <2>1, <2>2, TailKeepsWay DEF Taken
  <2>4. wake'.set => WakeComing'
    BY <2>1, <2>3, StillComing
  <2>. QED  BY <2>1, <2>4 DEF Timers
<1>4. ASSUME NEW t \in pendingTimers, TimerEnded(t)
      PROVE  Timers' /\ (wake'.set => WakeComing')
  <2>1. /\ Taken /\ t.session = Message.session /\ pendingTimers' = pendingTimers \ {t}
        /\ UNCHANGED <<session, kernelTimers>>
    BY <1>4 DEF TimerEnded
  <2>2. Timers'
    BY <2>1 DEF Timers
  <2>3. CASE t.fn.kind = "wake" /\ t.fn.of = wake.gen
    <3>1. wake' = [wake EXCEPT !.set = FALSE, !.at = 0]
      BY <1>4, <2>3 DEF TimerEnded, CallTimedOut, WokenUp
    <3>2. ~wake'.set
      BY <3>1 DEF Wake
    <3>. QED  BY <2>2, <3>2
  <2>4. CASE ~(t.fn.kind = "wake" /\ t.fn.of = wake.gen)
    <3>1. wake' = wake
      BY <1>4, <2>4 DEF TimerEnded, CallTimedOut, WokenUp
    <3>2. ASSUME NEW u \in pendingTimers, u.fn = [kind |-> "wake", of |-> wake.gen]
          PROVE  u \in pendingTimers' /\ (OnItsWay(u, mailbox) => OnItsWay(u, mailbox'))
      <4>1. u # t
        BY <2>4, <3>2
      <4>2. u.session # t.session
        BY <4>1 DEF Timers
      <4>3. Message # [type |-> "RESPONSE", session |-> u.session]
        BY <2>1, <4>2
      <4>. QED  BY <2>1, <4>1, <4>3, TailKeepsWay DEF Taken
    <3>3. wake'.set => WakeComing'
      BY <2>1, <3>1, <3>2, StillComing
    <3>. QED  BY <2>2, <3>3
  <2>. QED  BY <2>3, <2>4
<1>5. ASSUME NEW m \in AnyMessage, mailbox' = Append(mailbox, m), Asleep,
             \A k \in kernelTimers : k \in kernelTimers' \/
                 m = [type |-> "RESPONSE", session |-> k.session]
      PROVE  Timers' /\ (wake'.set => WakeComing')
  <2>1. UNCHANGED <<wake, session, pendingTimers>>
    BY <1>5 DEF Asleep
  <2>2. \A t : OnItsWay(t, mailbox) => OnItsWay(t, mailbox')
    BY <1>5, AppendKeepsWay
  <2>3. \A k \in kernelTimers : \A t : k.session = t.session =>
            k \in kernelTimers' \/ OnItsWay(t, mailbox')
    BY <1>5, AppendKeepsWay
  <2>4. wake'.set => WakeComing'
    BY <2>1, <2>2, <2>3, StillComing
  <2>. QED  BY <2>1, <2>4 DEF Timers
<1>6. ASSUME NEW k \in kernelTimers, Posted(k)
      PROVE  Timers' /\ (wake'.set => WakeComing')
  <2>1. [type |-> "RESPONSE", session |-> k.session] \in AnyMessage
    BY DEF AnyMessage, TimerMessage
  <2>. QED  BY <1>5, <1>6, <2>1 DEF Posted
<1>7. ASSUME NEW r \in Request, Sent(r)
      PROVE  Timers' /\ (wake'.set => WakeComing')
  <2>1. [type |-> "REQUEST", request |-> r] \in AnyMessage
    BY DEF AnyMessage, RequestMessage
  <2>. QED  BY <1>5, <1>7, <2>1 DEF Sent
<1>8. ASSUME NEW p \in outstanding, Answered(p)
      PROVE  Timers' /\ (wake'.set => WakeComing')
  <2>1. PICK type \in {"RESPONSE", "ERROR"} :
          mailbox' = Append(mailbox, [type |-> type, session |-> p.session, of |-> p.call])
    BY <1>8 DEF Answered
  <2>2. [type |-> type, session |-> p.session, of |-> p.call] \in AnyMessage
    BY DEF AnyMessage, AnswerMessage, Entry
  <2>. QED  BY <1>5, <1>8, <2>1, <2>2 DEF Answered
<1>. QED  BY <1>1, <1>2, <1>3, <1>4, <1>6, <1>7, <1>8 DEF RpcMove

(* While the service's script runs, every handle it sets is covered.       *)

LEMMA CoveredLess ==
  ASSUME NEW l, NEW m, NEW w, Covered(l, w),
         \A h \in m.immediates \cup m.timers : Live(m, h) =>
             /\ h \in l.immediates \cup l.timers /\ Live(l, h)
             /\ m.handles[h].timer = l.handles[h].timer /\ m.handles[h].due = l.handles[h].due
  PROVE  Covered(m, w)
  BY DEF Covered

LEMMA UserCovers ==
  ASSUME now \in Nat, wake \in Wake, NEW l, Sound(l), Covered(l, wake), NEW box, UserCode(l, box)
  PROVE  Covered(loop', wake')
<1>0. l \in Loop /\ l.handles \in Seq(Handle) /\ l.immediates \cup l.timers \subseteq DOMAIN l.handles
  BY DEF Sound, Loop
<1>1. CASE Nothing(l, box) \/ CallService(l, box) \/ CallCluster(l, box)
           \/ NextTick(l, box) \/ QueueMicrotask(l, box)
  <2>1. /\ loop' = l \/ loop' = [l EXCEPT !.ticks = @ + 1] \/ loop' = [l EXCEPT !.jobs = @ + 1]
        /\ wake' = wake
    BY <1>1 DEF Nothing, CallService, CallCluster, NextTick, QueueMicrotask, Quiet,
                Continued, NotSent
  <2>2. loop'.handles = l.handles /\ loop'.timers = l.timers /\ loop'.immediates = l.immediates
    BY <1>0, <2>1 DEF Loop
  <2>. QED  BY <2>1, <2>2 DEF Covered, Live
<1>2. CASE SetImmediate(l, box) \/ Refresh(l, box) \/ Ref(l, box)
  <2>1. ScheduleWake(loop', wake, box) /\ Sound(loop')
    BY <1>2, UserHandles DEF SetImmediate, Refresh, Ref, Rescheduling
  <2>. QED  BY <2>1, ScheduleMoves
<1>3. CASE SetTimer(l, box)
  <2>1. PICK d \in Delay, repeat \in BOOLEAN, ref \in BOOLEAN :
          LET set == [l EXCEPT !.handles = Append(@, TimerHandle(d, repeat)),
                               !.timers = @ \cup {NewHandle(l)}]
          IN  loop' = [set EXCEPT !.handles[NewHandle(l)].ref = ref] /\ ScheduleWake(set, wake, box)
    BY <1>3 DEF SetTimer
  <2> DEFINE set == [l EXCEPT !.handles = Append(@, TimerHandle(d, repeat)),
                              !.timers = @ \cup {NewHandle(l)}]
             a == Append(l.handles, TimerHandle(d, repeat))
             n == NewHandle(l)
  <2>2. Sound(set) /\ ScheduleWake(set, wake, box)
    BY <2>1, SetTimerSound
  <2>3. set.handles = a /\ set.immediates = l.immediates /\ set.timers = l.timers \cup {n}
    BY <1>0 DEF Loop
  <2>4. loop' = [set EXCEPT !.handles[n].ref = ref]
    BY <2>1
  <2>5. a[n] = TimerHandle(d, repeat) /\ n \in DOMAIN a
    BY <1>0 DEF NewHandle
  <2>6. a[n].ref /\ ~a[n].cancelled
    BY <2>5 DEF TimerHandle
  <2>7. set \in Loop /\ a \in Seq(Handle)
    BY <2>2, <2>3 DEF Sound, Loop
  <2> HIDE DEF set, a, n
  <2>8. /\ loop'.handles = [a EXCEPT ![n] = [@ EXCEPT !.ref = ref]]
        /\ loop'.immediates = set.immediates /\ loop'.timers = set.timers
    BY <2>3, <2>4, <2>7 DEF Loop
  <2>9. \A h \in DOMAIN a : /\ loop'.handles[h].timer = a[h].timer /\ loop'.handles[h].due = a[h].due
                            /\ h # n => loop'.handles[h] = a[h]
    BY <2>7, <2>8 DEF Handle
  <2>10. set.immediates \cup set.timers \subseteq DOMAIN a
    BY <2>2, <2>3 DEF Sound
  <2>11. Covered(set, wake')
    BY <2>2, ScheduleMoves
  <2>12. \A h \in loop'.immediates \cup loop'.timers : Live(loop', h) => Live(set, h)
    BY <2>3, <2>6, <2>8, <2>9, <2>10 DEF Live
  <2>. QED  BY ZenonT(40), <2>3, <2>8, <2>9, <2>10, <2>11, <2>12, CoveredLess
<1>4. CASE Clear(l, box) \/ Unref(l, box)
  <2>1. PICK h \in DOMAIN l.handles :
          \/ loop' = [l EXCEPT !.handles[h].cancelled = TRUE, !.timers = @ \ {h}]
          \/ loop' = [l EXCEPT !.handles[h].ref = FALSE]
    BY <1>4 DEF Clear, Unref, Quiet
  <2>2. wake' = wake
    BY <1>4 DEF Clear, Unref, Quiet
  <2>3. loop'.immediates = l.immediates /\ loop'.timers \subseteq l.timers
    BY <1>0, <2>1 DEF Loop
  <2>4. \/ loop'.handles = [l.handles EXCEPT ![h] = [@ EXCEPT !.cancelled = TRUE]]
        \/ loop'.handles = [l.handles EXCEPT ![h] = [@ EXCEPT !.ref = FALSE]]
    BY <1>0, <2>1 DEF Loop
  <2>5. \A i \in DOMAIN l.handles : Live(loop', i) =>
            /\ Live(l, i) /\ loop'.handles[i].timer = l.handles[i].timer
            /\ loop'.handles[i].due = l.handles[i].due
    <3> SUFFICES ASSUME NEW i \in DOMAIN l.handles, Live(loop', i)
                 PROVE  /\ Live(l, i) /\ loop'.handles[i].timer = l.handles[i].timer
                        /\ loop'.handles[i].due = l.handles[i].due
      OBVIOUS
    <3>1. l.handles[h] \in Handle
      BY <1>0
    <3>2. i # h
      BY <2>4, <3>1 DEF Live, Handle
    <3>3. loop'.handles[i] = l.handles[i]
      BY <1>0, <2>4, <3>2
    <3>. QED  BY <3>3 DEF Live
  <2>6. Covered(loop', wake)
    BY <1>0, <2>3, <2>5, CoveredLess
  <2>. QED  BY <2>2, <2>6
<1>. QED  BY <1>1, <1>2, <1>3, <1>4 DEF UserCode

LEMMA CoveredStep ==
  ASSUME HandlesInv, RpcOK, WakeInv, [Next]_vars
  PROVE  stage' \in {"main", "fresh", "idle"} => Covered(loop, wake)'
<1> SUFFICES ASSUME stage' \in {"main", "fresh", "idle"} PROVE Covered(loop, wake)'
  OBVIOUS
<1>0. now \in Nat /\ wake \in Wake /\ Sound(loop) /\ loop \in Loop
  BY DEF HandlesInv, LoopOK, RpcOK, Sound
<1>1. ASSUME now' = now, Covered(loop', wake') PROVE Covered(loop, wake)'
  BY <1>1 DEF Covered, Live
<1>2. CASE RunMain
  <2>1. Covered(loop, wake) /\ UserCode(loop, mailbox) /\ now' = now
    BY <1>2 DEF RunMain, WakeInv
  <2>. QED  BY <1>0, <1>1, <2>1, UserCovers
<1>3. CASE EndTick
  <2>1. ScheduleWake(loop, wake, mailbox) /\ loop' = loop /\ now' = now
    BY <1>3 DEF EndTick
  <2>2. Covered(loop, wake')
    BY <1>0, <2>1, ScheduleMoves
  <2>. QED  BY <1>1, <2>1, <2>2
<1>4. CASE Receive
  BY <1>4 DEF Receive, OnRequest, OnAnswer, OnTimeout, OnClusterAnswer, Settles,
              NotUnpacked, OnClusterTimeout, OnWake, BeginTick
<1>5. CASE RunNextTick \/ RunJob \/ StartImmediates \/ RunImmediate \/ StartTimers \/ RunTimer
  BY <1>5 DEF RunNextTick, RunJob, StartImmediates, RunImmediate, StartTimers, RunTimer, Ticking
<1>6. CASE Kernel \/ Others \/ UNCHANGED vars
  <2>1. UNCHANGED <<loop, wake, stage>> /\ now' \in {now, now + 1}
    BY <1>6 DEF Kernel, Elapse, Expire, Others, Arrive, Answer, Quiescent, loopVars, vars
  <2>2. wake.at \in Nat
    BY <1>0 DEF Wake
  <2>3. Covered(loop, wake)
    BY <2>1 DEF WakeInv
  <2>. QED  BY <1>0, <2>1, <2>2, <2>3 DEF Covered, Live
<1>. QED  BY <1>2, <1>3, <1>4, <1>5, <1>6 DEF Next, Service, Tick

LEMMA WakeInvStep ==
  ASSUME HandlesInv, RpcOK, WakeInv, [Next]_vars
  PROVE  WakeInv'
<1>1. now \in Nat /\ now' \in {now, now + 1}
  <2>1. HandleMove
    BY HandleMoves
  <2>. QED  BY <2>1 DEF HandleMove, Rests, RunsOne, StartImmediates, StartTimers, Passes,
                       HandlesInv, LoopOK
<1>2. RpcMove
  BY RpcMoves DEF HandlesInv
<1>3. Timers' /\ (wake'.set => WakeComing')
  BY <1>1, <1>2, WakeStep DEF WakeInv
<1>. QED  BY <1>3, CoveredStep DEF WakeInv

LEMMA WakeInit == Init => WakeInv
<1> SUFFICES ASSUME Init PROVE WakeInv
  OBVIOUS
<1>1. pendingTimers = {} /\ wake = [set |-> FALSE, at |-> 0, gen |-> 0]
      /\ loop.immediates = {} /\ loop.timers = {}
  BY DEF Init
<1>. QED  BY <1>1 DEF WakeInv, Timers, Covered

\* No timer and no immediate is lost: a service that waits for a message has
\* asked the kernel to wake it in time for each, and the kernel has yet to do it.
THEOREM WakeUpsCover == Spec => []WakeCovers
<1>1. ServiceInv /\ WakeInv /\ [Next]_vars => WakeInv'
  BY WakeInvStep DEF ServiceInv, CallsInv
<1>2. WakeInv => WakeCovers
  BY DEF WakeInv, WakeCovers, Covered, Covers
<1>. QED  BY <1>1, <1>2, WakeInit, ServiceInvariant, PTL DEF Spec
=============================================================================
